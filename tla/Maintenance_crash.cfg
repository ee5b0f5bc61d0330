CONSTANTS
  MaxRecords = 4
  MaxCrashes = 1
  MaxFails = 0
  MaxStaged = 4
  SegmentRecords = 2
  RetentionRecords = 4
  MinMerge = 2
  MaxPoll = 3
SPECIFICATION Spec
CHECK_DEADLOCK FALSE
INVARIANTS MergeIsCrashSafe
