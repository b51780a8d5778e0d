SPECIFICATION FairSpec
CONSTANTS
  NumMotors = 2
  Timeout = 3
  Period = 1
  MaxGap = 4
  Programs <- AllPrograms
INVARIANTS TypeOK PoweredOnlyWhileBeating CleanExit
PROPERTIES NoSpuriousTrip ServerClosesSafely DeadMeansOff InterruptStops ImplementsMotorPower
