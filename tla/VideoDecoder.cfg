SPECIFICATION FairSpec
CONSTANTS
  Stream <- ShortStream
  MaxDecoders = 2
  InputBuffers = 2
  MaxQueueDepth = 0
  MaxFeedFailures = 1
INVARIANTS
  TypeOK
  NeverBothWait
  LagIsCapped
PROPERTIES
  FedInOrder
  QueueDrains
CHECK_DEADLOCK FALSE
