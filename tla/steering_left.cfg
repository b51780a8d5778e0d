SPECIFICATION Spec
CONSTANTS
  BufSize = 6
  Spinup = 2
  SpinupRight = 5
  LeftStop <- Left
  RightStop <- Right
  Rebound <- Yielding
  StartLag <- Sticking
  RunLag = 1
  MaxSteer = 2
  Angles <- SomeAngles
  MaxCommands = 1
  EarlyAt = {}
INVARIANT LeftStopsFound
