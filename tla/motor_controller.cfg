SPECIFICATION Spec
CONSTANTS
  EncHalf = 4
  MaxDuty = 2
  Div = 2
  Duties = {0, 1, 2}
INVARIANTS TypeOK CountFollows
PROPERTIES DrivesItsShare
