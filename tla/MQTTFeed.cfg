SPECIFICATION FairSpec
CONSTANTS
  MaxPackets = 4
  MaxLoss = 3
INVARIANTS
  MQTTTypeOK
  PacketsArrive
  ReadinessIsTrue
PROPERTIES
  StoppedIsQuiet
  SubscribesAgain
  StopReturns
CHECK_DEADLOCK FALSE
