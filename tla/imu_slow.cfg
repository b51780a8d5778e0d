SPECIFICATION Spec
CONSTANTS
  Delays <- Turns
  Duration = 6
  StallTime = 1
  SlideTime = 1
  Steps = 2
INVARIANT SlowOnCriticalSlope
CHECK_DEADLOCK FALSE
