SPECIFICATION FairSpec
CONSTANTS
  i1 = i1
  i2 = i2
  i3 = i3
  Item <- Items
  Matching <- SomeMatching
  BatchSize = 2
  Phases <- ThreePhases
  Drivers <- BothDrivers
  MaxBad = 1
  MaxFaults = 2
  MaxCrashes = 2
INVARIANT LedgerImpliesStored
PROPERTY EventuallyStored
PROPERTY EventuallyRecorded
CHECK_DEADLOCK FALSE
