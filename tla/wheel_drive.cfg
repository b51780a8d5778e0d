SPECIFICATION Spec
CONSTANTS
  NumWheels = 2
  LeftWheels = {1}
  GaitOrder <- RightFirst
  BadEncoder = {2}
  Program <- DriveProgram
  Kicks = {25}
  EncHalf = 4
  Rolling = {1}
  ShaftMax = 1
  Kp = 15
  SpeedOffset = 10000
  StopSpeed = 128
  StopBack = 10
  DoneBuffer = 2
  DriftMax = 1
INVARIANTS TypeOK ModeFollowsCalls
PROPERTIES GaitApplied SpeedTickDrivesACommand MoveNeedsStop
           DriftOnlyInStop TickKeepsDrift
