SPECIFICATION Spec
CONSTANTS
  NumTasks = 2
  NumProfiles = 2
  MaxAttempts <- Deep
  Catalog <- TwoProfiles
  File <- Granted
  DependsOn <- Chain2
  MayReview <- OnlyFirst
  Outputs <- FirstVaries
  Modes <- Opposites
  MaxFaults = 1
INVARIANT ReviewedBeforePass
