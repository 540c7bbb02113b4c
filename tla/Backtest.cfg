SPECIFICATION Spec
CONSTANTS
  Unit = 10
  BookFiles <- MCBookFiles
  TradeFiles <- MCTradeFiles
  FirstTime = 1
  LastTime = 3
  InitialCapital = 5
  FillChoices <- MCFillChoices
  EquityChoices <- MCEquityChoices
  PollLimit = 2
  SamplesMax = 2
  StepMax = 2
  MessagesMax = 3
CHECK_DEADLOCK FALSE
INVARIANTS ReplayFollowsHistory ResultsAreComplete LedgerBalanced ReportIsReal
PROPERTY BacktestEnds
