CONSTANTS
  o1 = o1
  n1 = n1
  Owners = {o1}
  Nodes = {n1}
  Hard <- RoomForOne
  MaxRequests = 1
  MaxAllocations = 1
  V102 = FALSE
  Gates = {}
  Desires = {}
  Catalogs = {}
  Unsteady = {}
  Reports = {}
  AnyNode = AnyNode
  None = None
  Late = {"v1_0_2"}
  MaxFaults = 1
  MaxStopJobs = 1
  MaxOps = 3
SPECIFICATION DispatchSpec
INVARIANTS DispatchTypeOK EffectIsAnnounced StopIsTrue
PROPERTIES ServerPromise StopConcludes GoneIsReleased
CHECK_DEADLOCK FALSE
