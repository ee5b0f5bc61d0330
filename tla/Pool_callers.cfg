CONSTANTS
  Callers = {c1, c2}
  Workers = {w1, w2, w3}
  None = None
  Size = 1
  Sizes = {1, 2}
  MaxWaiting = 1
  HasPurge = TRUE
  MayRelease = TRUE
  MaxInvokes = 3
  MaxPanics = 1
  MaxTunes = 2
SPECIFICATION FairSpec
CHECK_DEADLOCK FALSE
INVARIANTS NoJobIsStranded RunningIsBounded ReleaseReachesAll
PROPERTIES AcceptedJobsRun InvokeReturns ReleaseCompletes
