CONSTANTS
  s1 = s1 s2 = s2 p1 = p1
  Subs = {s1, s2}
  Pairs = {p1}
  PairOf <- Rivals
  TestCount = 1
  PollMax = 1
  BatchRecords = 2
  WorkerCount = 2
  PoolSize = 1
  MaxRestarts = 1
  MaxFaults = 1
  GracefulStops = TRUE
SPECIFICATION FairSpec
CHECK_DEADLOCK FALSE
INVARIANTS CommittedWasDispatched RedeliveredOnlyByRestart CountedOncePerDelivery PassedWithinTotal FinishedJobIsAccountedFor ContainersConserved
PROPERTIES ImplementsLifecycle UsesTopicLog OnlyCutJobsAreLost
