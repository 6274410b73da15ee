CONSTANTS
  o1 = o1
  n1 = n1
  Owners = {o1}
  Nodes = {n1}
  Hard <- RoomForTwo
  MaxRequests = 3
  MaxAllocations = 1
  V102 = TRUE
  Gates = {"open", "disabled"}
  Desires = {}
  Catalogs = {"open", "closed", "disabled"}
  Unsteady = {n1}
  Reports <- AllReports
  AnyNode = AnyNode
  None = None
SPECIFICATION Spec
INVARIANTS OneBlockingRequest NextGameOnce QuarantinedCanBeAbandoned
CHECK_DEADLOCK FALSE
