SPECIFICATION Spec
CONSTANTS
  Calls = {c1, c2, c3}
  Threads = {t1, t2}
  SendThreads = {t1, t2}
  Requests <- MixedRequests
  CancelIds <- FirstId
  Controls <- AllControls
  MaxControls = 3
  Ids <- CounterIds
  NoCall = NoCall
  NoThread = NoThread
  NoRequest = NoRequest
  Instruments <- BothInstruments
  AnyInstrument = AnyInstrument
  Spot = Spot
  Future = Future
SYMMETRY SenderSymmetry
INVARIANTS
  TypeOK
  FillFindsItsOrder
  ReportedTradesAreStored
  NoDeadlock
