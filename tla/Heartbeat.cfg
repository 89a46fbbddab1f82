SPECIFICATION FairSpec
CONSTANTS
  TTL = 5
  UpdateInterval = 2
  Touchers = {"loop", "caller"}
  MaxFails = 1
  MaxProcessed = 2
  Word = 16
INVARIANTS
  KeySurvivesOneFailure
  ThroughputIsProgress
PROPERTIES
  StopReturnsEventually
CHECK_DEADLOCK FALSE
