SPECIFICATION FairSpec
CONSTANTS
  Stages <- Microshift
  OldSummary = TRUE
INVARIANTS
  TypeOK
  FinalizeNeedsBugs
  ExitStatusTold
  SignalHitsItsChild
PROPERTIES
  RunEnds
