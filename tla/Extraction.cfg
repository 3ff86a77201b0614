SPECIFICATION FairSpec
CONSTANTS
  t1 = t1
  t2 = t2
  Table <- TwoTables
  Workers = 2
  Permits = 1
  MaxTries = 2
  Drivers <- BothDrivers
  MaxFaults = 2
  MaxAbandons = 1
  MaxCrashes = 1
INVARIANT WholeWithoutStrays
PROPERTY NoReExtraction
PROPERTY EventuallyExtracted
CHECK_DEADLOCK FALSE
