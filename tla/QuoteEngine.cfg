SPECIFICATION Spec
CONSTANTS
  MaxPosition = 20
  MaxOrder = 8
  BaseSize = 4
  Tolerance = 0
  Scale = 10
  Coin = 2
  FlowAlpha = 50
  ReturnAlpha = 100
  Window = 1
  Markets <- MCMarkets
  DefaultPrice = 5025
  MinSpread = 50
  VolatilityFactor = 1
  SkewPerUnit = 10
  MinConfidence = 3
  Levels = 2
  Spacing = 300
  TradesArrive = TRUE
  TradePrices = {2500}
  TradeSizes = {1}
  FillSizes = {6}
  TimeMax = 2
  TradesMax = 2
  MaxExposure = 24
INVARIANTS
  TypeOK
  WindowIsRecent
  LadderNests
  LadderFitsLimit
PROPERTIES
  OneSidedIsRefused
  QuotesWhenClear
