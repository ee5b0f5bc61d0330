CONSTANTS
  s1 = s1 s2 = s2 p1 = p1
  Subs = {s1, s2}
  Pairs = {p1}
  PairOf <- Rivals
  TestCount = 1
  PollMax = 2
  BatchRecords = 2
  WorkerCount = 2
  PoolSize = 2
  MaxRestarts = 1
  MaxFaults = 0
  GracefulStops = TRUE
SPECIFICATION Spec
CHECK_DEADLOCK FALSE
INVARIANTS StopLosesNoJob
