SPECIFICATION Spec
CONSTANTS
  NumTasks = 2
  Deps <- Backward
  NumPatches = 2
  Touches <- TwoFiles
  PatchesOf <- OwnPatch
  Reviewing = TRUE
  MaxAttempts = 1
  MaxCrashes = 1
  MaxEdits = 1
  MaxOutsideCommits = 1
INVARIANTS AcceptedLine AuthorizedIsTip
PROPERTY ImplementsBoard
CHECK_DEADLOCK FALSE
