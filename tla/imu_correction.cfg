SPECIFICATION FairSpec
CONSTANTS
  Delays <- Turns
  Duration = 6
  StallTime = 1
  SlideTime = 1
  Steps = 2
INVARIANTS TypeOK HaltStays TerrainIsExpected BackwardsOnlyToBrake
PROPERTIES AlarmsWait Ends
CHECK_DEADLOCK FALSE
