SPECIFICATION Spec
CONSTANTS
  Depth = 2
  ReadLens = {1, 3}
  WriteLens = {3}
  PollTime = 2
  Gap = 4
  MaxOps = 3
INVARIANTS TypeOK OwnBytes
PROPERTY Returns
