SPECIFICATION Spec
CONSTANTS
  d1 = d1
  d2 = d2
  depth = depth
  state = state
  Conns <- MCConns
  Reporters <- MCReporters
  Topics <- MCTopics
  TopicOf <- MCTopicOf
  Messages <- MCMessages
  InboxMax = 1
  ChannelMax = 2
CHECK_DEADLOCK FALSE
INVARIANTS TypeOK EveryMessageAccounted ShutdownDrains
PROPERTIES ImplementsMergedFeed StopEnds SendsGoThrough
