SPECIFICATION Spec
CONSTANTS
  MaxPosition = 5
  MaxOrder = 3
  BaseSize = 2
  Tolerance = 0
  FillTenths = 8
  PollLimit = 2
  QuotesMax = 1
  FillsMax = 2
  MaxExposure = 12
  MaxDrift = 1
CHECK_DEADLOCK FALSE
PROPERTY FillsReachPosition
