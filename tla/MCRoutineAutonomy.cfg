SPECIFICATION Spec
CONSTANTS
  Facts <- SoundOrOutside
  SelfMaintained = TRUE
  Troubles = {"reconcilable", "gap", "bareGap", "profile", "selection"}
  MaxAttempts = 1
  MaxCommits = 3
  MaxFaults = 2
INVARIANTS
  PublishedIsReviewed AdoptedIsPublished
PROPERTIES
  InvocationSettles
