CONSTANTS
  v1 = v1
  v2 = v2
  f1 = f1
  f2 = f2
  Versions = {v1, v2}
  Installed <- LosesContent
  Prints = {f1, f2}
  First = v1
  FirstSeen = v2
  FirstPrint = f1
  MaxRuns = 1
  MaxChanges = 6
SPECIFICATION Spec
INVARIANTS ValidationTypeOK EndedRunHoldsNothing ProofStands PassIsHuman
PROPERTIES ReleasedRunIsTakenUp
CHECK_DEADLOCK FALSE
