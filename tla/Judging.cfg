CONSTANTS
  s1 = s1 s2 = s2 p1 = p1
  Subs = {s1, s2}
  ProblemOf <- OneProblem
  MaxErrors = 1
  PoolSize = 1
  MaxDeaths = 1
  None = None
SPECIFICATION FairSpec
CHECK_DEADLOCK FALSE
INVARIANTS OnePlacePerContainer WrongIsNoticed
PROPERTIES JobsEnd CountersConverge
