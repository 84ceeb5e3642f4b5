SPECIFICATION FairSpec
CONSTANTS
  NJobs = 3
  MaxParallel = 2
  MaxSignals = 3
  UnlinkMayFail = TRUE
  WriteMayFail = TRUE
INVARIANTS
  TypeOK
  NoOrphans
  ReuseIsAcquired
PROPERTIES
  HandlerMissesOnlyUnregistered
  ImplementsBatch
  StageEnds
