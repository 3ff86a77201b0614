SPECIFICATION CandidateSpec
CONSTANTS
  Col <- Cols
  Table <- Tables
  Scenes <- MCScenes
  Caps = {0, 1}
  Stricts = {TRUE, FALSE}
  ChildMin = 5
  LshThreshold = 70
  TopK = 1
  Batch = 3
  MaxLost = 1
  MaxRuns = 2
INVARIANT CandidateTypeOK
INVARIANT OneWayStored
INVARIANT RolePointersKept
PROPERTY NothingToBridge
CHECK_DEADLOCK FALSE
