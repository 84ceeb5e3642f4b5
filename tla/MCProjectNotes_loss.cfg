SPECIFICATION NotesSpec
CONSTANTS
  Headings = {"Progress", "Tasks"}
  Progress = "Progress"
  ItemThreshold = 2
  KeepRecent = 1
  MaxItems = 4
  MaxDay = 2
INVARIANT NothingLost
CHECK_DEADLOCK FALSE
