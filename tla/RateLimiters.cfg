SPECIFICATION Spec
CONSTANTS
  Threads = {t1, t2}
  Limiters <- MCMixed
  Weights = {1, 2}
  TokenScale = 2
  RateScale = 2
  MaxTime = 3
SYMMETRY MCSymmetry
CHECK_DEADLOCK FALSE
INVARIANTS WindowKeepsLimit PassedEveryLimiter
PROPERTY BucketKeepsQuota
