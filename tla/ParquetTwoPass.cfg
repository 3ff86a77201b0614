SPECIFICATION Spec
CONSTANTS
  t1 = t1
  t2 = t2
  t3 = t3
  Table <- ThreeTables
  Related <- OneKey
  Caps <- Wide
  Commands <- TwoPass
  MaxFaults = 0
  MaxAbandons = 0
  MaxCrashes = 0
INVARIANT TriageFindsAll
