SPECIFICATION FairSpec
CONSTANTS
  Lengths <- AllLengths
  MaxLength = 2
  Capacity = 3
  MaxFrames = 3
INVARIANTS
  TypeOK
  IntactBeforeCut
PROPERTIES
  SendReturns
  CompleteFramesArrive
CHECK_DEADLOCK FALSE
