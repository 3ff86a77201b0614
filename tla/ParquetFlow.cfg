SPECIFICATION Spec
CONSTANTS
  t1 = t1
  t2 = t2
  t3 = t3
  Table <- ThreeTables
  Related <- OneKey
  Caps <- TightOrRoomy
  Commands <- BothCommands
  MaxFaults = 3
  MaxAbandons = 1
  MaxCrashes = 1
INVARIANT CompleteDiscovery
PROPERTY SurvivorsKept
PROPERTY FullForSurvivors
