SPECIFICATION Spec
CONSTANTS
  NumWheels = 1
  LeftWheels = {1}
  GaitOrder <- RightFirst
  BadEncoder = {1}
  Program <- StopProgram
  Kicks = {25}
  EncHalf = 4
  Rolling = {1}
  ShaftMax = 1
  Kp = 15
  SpeedOffset = 10000
  StopSpeed = 128
  StopBack = 10
  DoneBuffer = 2
  DriftMax = 1
PROPERTY TickReadsPosition
