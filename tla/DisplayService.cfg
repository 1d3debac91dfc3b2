SPECIFICATION Spec
CONSTANTS
  MaxStarts = 2
  MaxEvents = 1
INVARIANTS
  TypeOK
  DestroyStopsEverything
  CrashNeedsInterruptedStart
  LostConnectionIsCleanedUp
CHECK_DEADLOCK FALSE
