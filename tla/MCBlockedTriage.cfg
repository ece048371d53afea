SPECIFICATION Spec
CONSTANTS
  Facts <- SoundOrOutside
  SelfMaintained = TRUE
  Troubles = {"gap", "selection"}
  MaxAttempts = 1
  MaxCommits = 2
  MaxFaults = 1
INVARIANTS
  BlockedLaunchesNobody
