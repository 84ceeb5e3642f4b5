SPECIFICATION WorkdirSpec
CONSTANTS
  r1 = r1
  rebase = rebase
  b1 = b1
  b2 = b2
  b3 = b3
  Releases <- OneRelease
  Rebase = rebase
  Builds <- SomeBuilds
  StageLists <- Complete
  MaxRuns = 2
CHECK_DEADLOCK FALSE
INVARIANT HealthyRunNotStopped
