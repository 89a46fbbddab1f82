SPECIFICATION FairSpec
CONSTANTS
  MaxSeq = 4
  MaxPendingSize = 3
  PendingTimeout = 1
INVARIANTS
  NoAckOvertakes
  AckedWasDecided
  Accounted
PROPERTIES
  GapsAreSkipped
CHECK_DEADLOCK FALSE
