SPECIFICATION FairRcSpec
CONSTANTS
  RunNames = {"rc0", "rc1"}
  JobFiles <- OneList
  WaveSize = 0
  MaxLaunches = 3
  MaxExecs = 2
  Happens = {}
PROPERTIES
  LatestFailuresFound
CHECK_DEADLOCK FALSE
