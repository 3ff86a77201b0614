SPECIFICATION FairSpec
CONSTANTS
  r1 = r1 r2 = r2 s1 = s1 s2 = s2
  Request <- Pair
  Source <- Two
  Malformed <- Odd
  MaxConcurrent = 1
  Window = 1
  MaxPools = 2
  MaxCrashes = 1
INVARIANT TrailIsTrue
INVARIANT NoDeadPool
PROPERTY EveryAnswered
CHECK_DEADLOCK FALSE
