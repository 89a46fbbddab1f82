SPECIFICATION Spec
CONSTANTS
  MinOdd = 1953125
  MinExp = 9
  MaxRatio = 60
  OddBits = 21
  MaxAttempt = 70
INVARIANT NeverBelowMin
