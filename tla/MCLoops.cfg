SPECIFICATION Spec
CONSTANTS
  RunNames = {"rc0", "rc1"}
  JobFiles <- TwoLists
  WaveSize = 1
  MaxLaunches = 2
  MaxExecs = 2
  Happens = {"curl fails", "dry run", "no url"}
  NoState = NoState
  Cron = Cron
  Threads = {"user"}
  BotThreads = {}
  PageSize = 3
  MaxMessages = 4
  Limits = {0, 2}
  NoNote = NoNote
  Terminals = {"left", "right"}
  MaxNotes = 2
  MaxTime = 2
  Ttl = 1
  Tests = {1, 2, 3}
  Replacement = {3}
  DualReplica = {1, 3}
  Containing <- NamesWithin
  Listings <- TwoListings
  Calls <- CommandLines
  Captures = {1, 2}
INVARIANTS TypesOK RelaunchesFailures CapturesStopped RanWhatWasSelected
PROPERTIES RepetitionEnds LabelIsEarned FiresOnce
CHECK_DEADLOCK FALSE
