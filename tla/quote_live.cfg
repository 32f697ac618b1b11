SPECIFICATION FairSpec
CONSTANTS
  Clients = {main, strategy}
  Owners = {main}
  Instruments <- BothInstruments
  Subscriptions <- SomeLists
  Worker = Worker
  NoThread = NoThread
  NoInstrument = NoInstrument
  Spot = Spot
  Future = Future
INVARIANTS
  TypeOK
  OnlySubscribedTick
  NoTickOnceDisconnected
  NeverTerminated
  NoDeadlock
PROPERTIES
  EveryCallReturns
  SubscribedInstrumentsTick
