SPECIFICATION Spec
CONSTANTS
  Operators = {op1}
  BusMoments = {0, 1}
  Emails = {e1, e2}
  Places = {p1}
  Names = {n1, n2}
  Expiries = {1, 2}
  MaxLocations = 2
  Handlers = {h1, h2}
  MaxTime = 2
  MaxVersion = 5
  Nil = Nil
INVARIANTS
  RowsAreSound
  OnlyBadStopIndexHides
PROPERTIES
  SavesAreSerial
  StrandedForEver
CHECK_DEADLOCK FALSE
