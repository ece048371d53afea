SPECIFICATION Spec
CONSTANTS
  NumTasks = 1
  Deps <- NoDeps
  NumPatches = 2
  Touches <- OneFile
  PatchesOf <- OnePatch
  Reviewing = TRUE
  MaxAttempts = 2
  MaxCrashes = 1
  MaxEdits = 1
  MaxOutsideCommits = 0
INVARIANTS TypeOK AcceptedIsSealed SupersededAttemptsClosed SlotBelongsToAttempt RejectedPatchPreserved
PROPERTIES ExecutingEnds FinalizationConverges
CHECK_DEADLOCK FALSE
