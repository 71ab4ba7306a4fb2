SPECIFICATION FairFeedSpec
CONSTANTS
  MaxGen = 2
  MaxConn = 5
  SocketBuffer = 2
  MaxPackets = 3
  BackoffMax = 2
  NoConn = 0
INVARIANTS
  FeedInOrder
  OneConnection
  FeedIsComplete
PROPERTIES
  StopEnds
  Recovers
  EngineNeverStuck
CHECK_DEADLOCK FALSE
