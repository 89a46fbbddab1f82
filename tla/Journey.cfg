SPECIFICATION Spec
CONSTANTS
  Buses = {b1, b2}
  NoBus = none
  Handlers = {h1, h2}
  MaxDeclines = 1
  DefaultExpiry = 1
  Durations = {2}
  BoardingTimeout = 0
  MaxTime = 2
  MaxVersion = 8
  Nil = Nil
SYMMETRY Symmetry
INVARIANTS
  PromptIsBacked
  BoardedAfterArrival
  ProposedLevelIsAccepted
PROPERTIES
  SavesAreSerial
  ImplementsLifecycle
CHECK_DEADLOCK FALSE
