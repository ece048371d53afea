SPECIFICATION Spec
CONSTANTS
  NumTasks = 2
  Deps <- Blocked
  MaxCommits = 4
  MaxFaults = 1
INVARIANTS LedgerCovers ProvedPass DependenciesFirst
PROPERTY BaseOnlyAdvances
CHECK_DEADLOCK FALSE
