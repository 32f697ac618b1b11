SPECIFICATION FairSpec
CONSTANTS
  Calls = {c1, c2, c3}
  Threads = {t1, t2}
  SendThreads = {t1}
  Requests <- OneRequest
  CancelIds <- FirstId
  Controls <- TradingControls
  MaxControls = 4
  Ids <- CounterIds
  NoCall = NoCall
  NoThread = NoThread
  NoRequest = NoRequest
  Instruments <- BothInstruments
  AnyInstrument = AnyInstrument
  Spot = Spot
  Future = Future
INVARIANTS
  AcceptedOrderKeepsSnapshot
  SnapshotAgreesWithTrades
  QueuedComesFirst
  ReportsSettleTheOrder
PROPERTIES
  EveryCallReturns
  EachOrderIsClosed
\* Left to the property: a call that waits for ever is what it rules out.
CHECK_DEADLOCK FALSE
