SPECIFICATION FairSpec
CONSTANTS
  MaxSeq = 2
  MaxPendingSize = 2
  PendingTimeout = 0
  MaxConn = 2
INVARIANTS
  
  ConnectionAcksInOrder
  OnlyStaleReportsMislead
PROPERTIES
  HeldMessagesSettle
CHECK_DEADLOCK FALSE
