SPECIFICATION FairSpec
CONSTANTS
  Client = {c1, c2}
  Reader = {c1}
  MaxQ = 1
  MaxPackets = 3
  None = None
PROPERTY DroppedClientIsClosed
CHECK_DEADLOCK FALSE
