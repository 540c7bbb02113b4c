SPECIFICATION Spec
CONSTANTS
  ResyncSkipThreshold = 2
  Conns = {c1}
  HasPrev = FALSE
  Lossy = TRUE
  PollLimit = 2
  BidLevels <- MCBidLevels
  AskLevels <- MCAskLevels
  StartId <- MCStart
  MaxId = 6
  History <- MCHistory
  TopLevels <- MCTopLevels
  QueueMax = 3
CHECK_DEADLOCK FALSE
INVARIANT SyncedBookIsExact
