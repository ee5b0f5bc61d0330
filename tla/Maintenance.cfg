CONSTANTS
  MaxRecords = 4
  MaxCrashes = 2
  MaxFails = 1
  MaxStaged = 4
  SegmentRecords = 2
  RetentionRecords = 3
  MinMerge = 2
  MaxPoll = 3
SPECIFICATION Spec
CHECK_DEADLOCK FALSE
INVARIANTS RecordsConserved PollFindsNext DeliveredOnce
PROPERTIES PollSkipsNothing OffsetsGrow
