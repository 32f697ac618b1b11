SPECIFICATION Spec
CONSTANTS
  Calls = {c1, c2}
  Threads = {t1}
  SendThreads = {t1}
  Requests <- GivenRequests
  CancelIds <- NoIds
  Controls <- TradingControls
  MaxControls = 1
  Ids <- CounterIds
  NoCall = NoCall
  NoThread = NoThread
  NoRequest = NoRequest
  Instruments <- BothInstruments
  AnyInstrument = AnyInstrument
  Spot = Spot
  Future = Future
SYMMETRY Symmetry
INVARIANTS
  EachIdHasItsSnapshot
