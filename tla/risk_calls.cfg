SPECIFICATION Spec
CONSTANTS
  Calls = {c1, c2, c3}
  Accounts <- TwoAccounts
  Orders <- OneOrder
  OrderAccount <- AccountOfFirst
  Operations <- BothCalls
  MaxThreads = 3
  MaxVersion = 1
  NoOperation = NoOperation
  NoReply = NoReply
  NoData = NoData
  Alice = Alice
  Bob = Bob
  First = First
SYMMETRY Symmetry
CHECK_DEADLOCK FALSE
INVARIANTS
  TypeOK
  ReservedWasReserved
  NoSilentReservation
  ReleasedStaysReleased
PROPERTIES
  PoliciesAreLookedUp
  ReservationsAreDecidedOnce
