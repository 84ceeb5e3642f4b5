SPECIFICATION Spec
CONSTANTS
  Cves = {"cve1", "cve2"}
  Bug = "bug"
  Trackers <- SomeTickets
  NoTracker = NoTracker
  CiJobs = {"release"}
  MaxBuilds = 3
  Bugs = {1, 2, 3}
  Groupings <- TwoGroupings
  Page = 1
  MaxPulls = 2
  MaxSessions = 3
  Versions <- SomeVersions
  MaxChanges = 2
INVARIANTS TypesOK UploadsFinished CvesDecide GreenMeansFit PullIsItsGroup
PROPERTIES OnlyFailedTriggered
CHECK_DEADLOCK FALSE
