SPECIFICATION FairSpec
CONSTANTS
  j1 = j1 j2 = j2
  Job <- Two
  MaxUpdates = 2
  MaxFaults = 2
  MaxCrashes = 2
INVARIANT StatusTellsRows
PROPERTY EveryJobSettles
CHECK_DEADLOCK FALSE
