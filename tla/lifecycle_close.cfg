SPECIFICATION Spec
CONSTANTS
  NumMotors = 2
  Timeout = 3
  Period = 1
  MaxGap = 4
  Programs <- AllPrograms
PROPERTY CloseSucceeds
