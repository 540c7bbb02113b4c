SPECIFICATION PayloadsSpec
CONSTANTS
  ResyncSkipThreshold = 2
  Conns = {c1, c2}
  HasPrev = FALSE
  Lossy = FALSE
  PollLimit = 1
  BidLevels <- MCBidLevels
  AskLevels <- MCAskLevels
  StartId <- MCStart
  MaxId = 7
  History <- MCHistory
  TopLevels <- MCTopLevels
  QueueMax = 3
  Scale = 10
  Coin = 2
  FlowAlpha = 50
  ReturnAlpha = 100
  Window = 1
  CountLimit = 3
  Decimals = 2
  PriceOf <- MCPriceOf
  MaxLevels = 1
  Depth = 2
  Symbol <- MCSymbol
  Trades <- MCTrades
  TradesMax = 1
  Symbols <- MCSymbols
  Sides <- MCSides
  Wholes <- MCWholes
  Fractions <- MCFractions
CHECK_DEADLOCK FALSE
INVARIANTS
  DrainedBookIsExact
  NoPhantomLevels
  FairNearBook
  SymbolsSurvive
  BatchesSurvive
  DecimalsAreExact
