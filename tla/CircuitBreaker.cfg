SPECIFICATION Spec
CONSTANTS
  Requests = {r1, r2}
  RateNum = 1
  RateDen = 2
  MinimumRequests = 2
  SuccessThreshold = 2
  OpenTimeout = 1
  WindowDuration = 1
  CountMax = 2
INVARIANT FailuresWithinTotal
PROPERTIES OpenEnduresSerially ClosesOnlyWhenProven HalfOpenDecides Recovers
