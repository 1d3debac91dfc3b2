SPECIFICATION FairSpec
CONSTANTS
  f1 = f1
  f2 = f2
  Pointers = {f1, f2}
  MaxTouches = 3
  MaxFingers = 4
  MaxStrays = 1
INVARIANTS
  TypeOK
  EveryTapOwnsOneClick
  OneOutcomePerTouch
  ButtonUpAtRest
PROPERTIES
  HeldFingerResolves
CHECK_DEADLOCK FALSE
