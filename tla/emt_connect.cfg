SPECIFICATION Spec
CONSTANTS
  Requests = {r1}
  Subscriptions <- SomeLists
  Orders = {"0", "7"}
  None = None
PROPERTIES
  FailedConnectLeavesState
