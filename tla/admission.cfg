CONSTANTS
  o1 = o1
  o2 = o2
  o3 = o3
  n1 = n1
  n2 = n2
  Owners = {o1, o2, o3}
  Nodes = {n1, n2}
  Hard <- RoomForOne
  Priority <- FirstFirst
  MaxRequests = 3
  MaxAllocations = 2
  V102 = FALSE
  Gates = {"open", "closed"}
  Desires = {0, 1}
  Catalogs = {"open", "closed"}
  Unsteady = {n1}
  Reports <- Rejections
  AnyNode = AnyNode
  None = None
SPECIFICATION AdmissionSpec
INVARIANTS OneBlockingRequest CapacityRespected NoNodeTwice
PROPERTIES AdmittedInTurn
CHECK_DEADLOCK FALSE
SYMMETRY OwnerSymmetry
