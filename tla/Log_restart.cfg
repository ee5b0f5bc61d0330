CONSTANTS
  MaxOffset = 5
  MaxRestarts = 2
  MaxCount = 2
  MaxSize = 2
  MaxSegmentBytes = 6
  IndexInterval = 2
  FsyncEvery = 2
  MaxRecords = 2
  Window = 3
SPECIFICATION Spec
CHECK_DEADLOCK FALSE
INVARIANTS OffsetsAreDense LookupIsBelow PollAdvances
PROPERTIES PollsTakeNext ImplementsTopicLog
