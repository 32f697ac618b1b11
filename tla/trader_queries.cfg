SPECIFICATION Spec
CONSTANTS
  Calls = {c1, c2, c3}
  Threads = {t1, t2}
  SendThreads = {t1}
  Requests <- PositionRequests
  CancelIds <- AnyIds
  Controls <- PositionControls
  MaxControls = 2
  Ids <- CounterIds
  NoCall = NoCall
  NoThread = NoThread
  NoRequest = NoRequest
  Instruments <- BothInstruments
  AnyInstrument = AnyInstrument
  Spot = Spot
  Future = Future
INVARIANTS
  PositionsMatchOrders
PROPERTIES
  PolledTradesOnlyGrow
