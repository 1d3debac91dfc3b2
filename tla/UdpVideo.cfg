SPECIFICATION Spec
CONSTANTS
  Kinds <- MCKinds
  MaxPayloadSize = 2
  FragNumbers = 4
  MaxFrames = 3
  MaxLost = 1
  MaxDuplicated = 1
  MaxReordered = 1
INVARIANTS
  TypeOK
  SubmittedIntact
  FifoDelivery
  PartialFramesCounted
CHECK_DEADLOCK FALSE
