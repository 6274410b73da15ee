CONSTANTS
  o1 = o1
  n1 = n1
  Owners = {o1}
  Nodes = {n1}
  Hard <- RoomForTwo
  MaxRequests = 2
  MaxAllocations = 2
  V102 = FALSE
  Gates = {}
  Desires = {}
  Catalogs = {}
  Unsteady = {n1}
  Reports <- AllReports
  AnyNode = AnyNode
  None = None
SPECIFICATION Spec
INVARIANTS TypeOK RequestMirrorsAttempt AttemptHasDriver OneUnresolvedJob QuarantinedCanBeAbandoned
PROPERTIES LateReportsChangeNothing
CHECK_DEADLOCK FALSE
