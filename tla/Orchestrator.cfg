SPECIFICATION FairSpec
CONSTANTS
  Order <- FewPhases
  Optional <- FewOptional
  Disabled <- OffByDefault
  Fallbacks = TRUE
  SkipSets <- SomeSkips
  MaxFaults = 2
  MaxCrashes = 2
INVARIANT CleanExit
INVARIANT BuiltOnUpstream
PROPERTY NoRework
PROPERTY LedgerSpec
PROPERTY EventuallySettled
