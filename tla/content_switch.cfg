CONSTANTS
  v1 = v1
  v2 = v2
  v3 = v3
  c1 = c1
  c2 = c2
  t1 = t1
  t2 = t2
  None = None
  Versions = {v1, v2, v3}
  Contents = {c1, c2}
  Tools = {t1, t2}
  MaxFaults = 2
SPECIFICATION Spec
INVARIANTS ContentTypeOK LinkIsNeverLost OnlyPreparedIsLinked
PROPERTIES RollbackOnce TransitionsEnd
