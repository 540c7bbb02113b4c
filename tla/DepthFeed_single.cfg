SPECIFICATION Spec
CONSTANTS
  ResyncSkipThreshold = 2
  Conns = {c1}
  HasPrev = TRUE
  Lossy = TRUE
  PollLimit = 2
  BidLevels <- MCBidLevels
  AskLevels <- MCAskLevels
  StartId <- MCStart
  MaxId = 8
  History <- MCHistory
  TopLevels <- MCTopLevels
  QueueMax = 3
CHECK_DEADLOCK FALSE
INVARIANTS TypeOK SyncedBookIsExact
PROPERTIES GapNeedsSnapshot ImplementsReplica
