CONSTANTS
  MaxOffset = 5
  MaxRestarts = 0
  MaxCount = 2
  MaxSize = 2
  MaxSegmentBytes = 4
  IndexInterval = 2
  FsyncEvery = 0
  MaxRecords = 2
  Window = 2
SPECIFICATION Spec
CHECK_DEADLOCK FALSE
INVARIANTS PollAdvances
