CONSTANTS
  Threads = {t1, t2, t3}
  Stalled = {t3}
  Items = {a, b}
  Zero = Zero
  None = None
  Capacity = 2
  MaxCalls = 5
SPECIFICATION FairSpec
CHECK_DEADLOCK FALSE
INVARIANTS SlotsNotShared RefusedForCause
PROPERTIES ImplementsQueue CallsReturn
