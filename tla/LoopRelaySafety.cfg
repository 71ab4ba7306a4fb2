SPECIFICATION RelaySpec
CONSTANTS
  MaxGen = 2
  MaxConn = 3
  SocketBuffer = 1
  MaxPackets = 3
  NoConn = 0
INVARIANTS
  RelayTypeOK
  ReceivesContiguously
  ClientIsCurrent
  RelayIsReachable
  OpenIsKnown
CHECK_DEADLOCK FALSE
