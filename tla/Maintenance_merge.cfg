CONSTANTS
  MaxRecords = 6
  MaxCrashes = 0
  MaxFails = 0
  MaxStaged = 4
  SegmentRecords = 1
  RetentionRecords = 6
  MinMerge = 2
  MaxPoll = 6
SPECIFICATION Spec
CHECK_DEADLOCK FALSE
PROPERTIES MergedLogIsRead
