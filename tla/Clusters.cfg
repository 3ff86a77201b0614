SPECIFICATION ClusterSpec
CONSTANTS
  Table <- Tables
  SchemaOf <- Schemas
  Scenes <- MCScenes
  MaxKills = 1
  MaxRuns = 2
INVARIANT ClusterTypeOK
INVARIANT StoredAgrees
INVARIANT NoStrangers
INVARIANT Replaced
CHECK_DEADLOCK FALSE
