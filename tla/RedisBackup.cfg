SPECIFICATION Spec
CONSTANTS
  Callers = {c1}
  Timeout = 1
  Retention = 1
  MaxData = 1
  MaxTime = 3
  MaxFiles = 2
  Nil = Nil
INVARIANTS
  SuccessIsFresh
  LatestIsNewest
PROPERTY
  CallsReturn
CHECK_DEADLOCK FALSE
