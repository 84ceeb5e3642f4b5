SPECIFICATION ChecksSpec
CONSTANTS
  Versions <- MCVersions
  MaxChanges = 1
INVARIANT EveryCheckReported
CHECK_DEADLOCK FALSE
