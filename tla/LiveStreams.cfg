SPECIFICATION StreamSpec
CONSTANTS
  Requests = {r1, r2}
  Limits = {0, 1}
  b1 = b1
  b2 = b2
  k1 = k1
  k2 = k2
  Updates <- MCUpdates
  Asked <- MCAsked
  OutBuffer = 1
  MaxUpdates = 2
  Blank = blank
INVARIANTS
  LimiterCountsStreams
  StreamsWhatWasAsked
PROPERTIES
  StreamsAreFreed
CHECK_DEADLOCK FALSE
