SPECIFICATION EngineFairSpec
CONSTANTS
  j1 = j1
  JobId <- OneJob
  Stages <- FewStages
  MaxStreams = 2
  MaxFailures = 1
  MaxRestarts = 1
INVARIANT EngineTypeOK
INVARIANT NothingMissed
INVARIANT CompletedIsWhole
PROPERTY EventuallySettled
CHECK_DEADLOCK FALSE
