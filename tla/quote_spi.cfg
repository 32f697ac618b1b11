SPECIFICATION Spec
CONSTANTS
  Clients = {main, strategy}
  Owners = {main}
  Instruments <- BothInstruments
  Subscriptions <- ShortLists
  Worker = Worker
  NoThread = NoThread
  NoInstrument = NoInstrument
  Spot = Spot
  Future = Future
PROPERTIES
  OnlyRegisteredSpiHears
