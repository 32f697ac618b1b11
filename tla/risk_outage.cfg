SPECIFICATION FairSpec
CONSTANTS
  Calls = {c1, c2, c3}
  Accounts <- OneAccount
  Orders <- OneOrder
  OrderAccount <- AccountOfFirst
  Operations <- OneReason
  MaxThreads = 1
  MaxVersion = 2
  NoOperation = NoOperation
  NoReply = NoReply
  NoData = NoData
  Alice = Alice
  Bob = Bob
  First = First
CHECK_DEADLOCK FALSE
PROPERTIES
  PolicyNeverGoesBack
  EveryCallReturns
