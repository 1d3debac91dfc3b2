SPECIFICATION Spec
CONSTANTS
  Lengths <- TakenLengths
  MaxLength = 2
  Capacity = 3
  MaxFrames = 3
INVARIANT PacketsAreFrames
CHECK_DEADLOCK FALSE
