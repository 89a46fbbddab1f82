SPECIFICATION FairSpec
CONSTANTS
  Capacity = 2
  MaxItems = 3
  Buses = {b1, b2, none}
  NoBus = none
  Workers = {w1, w2}
  Nil = Nil
INVARIANTS
  QueueSound
  PayloadsNewest
PROPERTIES
  ImplementsFifo
  ItemsWakeWorkers
  SleepersAreReleased
CHECK_DEADLOCK FALSE
