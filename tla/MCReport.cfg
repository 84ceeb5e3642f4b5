SPECIFICATION Spec
CONSTANTS
  r1 = r1
  rebase = rebase
  b1 = b1
  b2 = b2
  b3 = b3
  Releases <- OneRelease
  Rebase = rebase
  Builds <- SomeBuilds
  StageLists <- AllStages
  MaxRuns = 2
  Instances = {1}
  RegionOf <- FirstRegion
  LastRegion = 2
  Threshold <- OneHour
  Sweeps = {1}
  Reports = {1, 2, 3}
  Week = 1
  Lifetime = 1
  Retention = 2
  LastTime = 3
  CiRuns = {1, 2}
  CiJobs = {"sno", "tnf"}
  JobOf <- JobOfRun
  Started <- FirstRun
  LastBuild = 3
  MaxCandidates = 1
  Days = 1
  LastDay = 3
  Features = {1, 2}
  Stories = {1, 2, 3}
  FeatureOf <- TwoInFirst
  Bugs = {2}
  Members = {"ann", "bob"}
  Guests = {"guest"}
  Nobody = "nobody"
  Target = 2
  Velocity = 3
  Sprints = 1
  MaxSteps = 4
  StreamOrder <- TwoStreams
  EdgeJobs = {"sno"}
  Histories <- PayloadHistories
  PerStream = 3
  Escalation = 2
  Persistent = 3
  Headings = {"Progress", "Tasks"}
  Progress = "Progress"
  ItemThreshold = 2
  KeepRecent = 1
  MaxItems = 4
  MaxDay = 2
  Keys = {1, 2, 3, 4}
  TestIds = {7}
  Searches <- SomeSearches
  Filed = {1, 2}
  Labelled = {1, 2}
  Texts <- SomeTexts
  PageLimit = 1
  IdLimit = 1
  MaxSheets = 2
  Attempts = 3
  MaxMoves = 1
  Pulls <- SomePulls
  Orders <- SomeOrders
  PerPage = 2
  Owners = {"team", "ann"}
  Aliases <- TeamAlias
  Exclude = {"hold"}
  Required = {"lgtm"}
  Forbidden = {"wip"}
  StaleDays = 7
  Cap = 1
  Decisions <- OneAccepted
  SourceOrder <- TwoSources
  Signatures <- SomeSignatures
  Inputs <- WithUnnamed
  Similar <- Alike
  OpenBugs <- OpenAnswers
  ClosedBugs <- ClosedAnswers
INVARIANTS TypesOK AbortPublishesNothing EachJobWhereItBelongs NewFailureNotStale NothingPromisedTwice UntouchedListed MeasuredKept PassedIsTold BugsMeanTrouble EvidenceNotLost
PROPERTIES NoFalseClean WorkDoneIsEvidence DroppedIsArchived
CHECK_DEADLOCK FALSE
