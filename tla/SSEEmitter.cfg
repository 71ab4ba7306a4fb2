SPECIFICATION FairSpec
CONSTANTS
  Client = {c1, c2}
  Reader = {c1}
  MaxQ = 2
  MaxPackets = 4
  None = None
INVARIANTS
  TypeOK
  DeliveryIsContiguous
  SubscriberIsCurrent
  SentinelIsLast
  FinishedIsUnsubscribed
PROPERTIES
  ImplementsBroadcast
  ReaderGetsBacklog
  SentinelClosesReader
CHECK_DEADLOCK FALSE
