SPECIFICATION Spec
CONSTANTS
  Threads = {t1, t2}
  Limiters <- MCSingle
  Weights = {1}
  TokenScale = 2
  RateScale = 2
  MaxTime = 4
SYMMETRY MCSymmetry
CHECK_DEADLOCK FALSE
INVARIANT WindowLimit
