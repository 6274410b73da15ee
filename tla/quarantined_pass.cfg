CONSTANTS
  v1 = v1
  v2 = v2
  f1 = f1
  Versions = {v1, v2}
  Installed <- Steady
  Prints = {f1}
  First = v1
  FirstSeen = v2
  FirstPrint = f1
  MaxRuns = 1
  MaxChanges = 4
SPECIFICATION Spec
PROPERTIES QuarantinedNeverPasses
CHECK_DEADLOCK FALSE
