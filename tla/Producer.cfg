CONSTANTS
  g1 = g1 g2 = g2
  Senders = {g1, g2}
  ArrayCount = 5
  MaxSends = 3
  BatchSize = 2
  MaxPending = 2
  HasTimeout = TRUE
  MaxFaults = 1
SPECIFICATION FairSpec
CHECK_DEADLOCK FALSE
INVARIANTS ArraysNotShared RecordsConserved SizeIsExact PendingIsAnnounced CloseDrains
PROPERTIES EveryRecordIsFlushed
