SPECIFICATION RelaySpec
CONSTANTS
  MaxGen = 2
  MaxConn = 3
  SocketBuffer = 1
  MaxPackets = 2
  NoConn = 0
INVARIANT ShutDownClosesAll
CHECK_DEADLOCK FALSE
