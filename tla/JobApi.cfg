SPECIFICATION FairWatchSpec
CONSTANTS
  j1 = j1
  j2 = j2
  s1 = s1
  s2 = s2
  Job <- TwoJobs
  Schema <- TwoSchemas
  Order <- TwoPhases
  Patient = FALSE
  Watched <- OnePage
  MaxFaults = 1
  MaxRestarts = 1
INVARIANT AloneIsComplete
INVARIANT CountsAreWhole
INVARIANT NoZombies
INVARIANT RecordedIsShown
INVARIANT DoneShowsAll
PROPERTY EventuallySettled
PROPERTY PagesSettle
CHECK_DEADLOCK FALSE
