SPECIFICATION Spec
CONSTANTS
  NumTasks = 2
  NumProfiles = 2
  MaxAttempts <- Deep
  Catalog <- TwoProfiles
  File <- Granted
  DependsOn <- Chain2
  MayReview <- OnlyFirst
  Outputs <- FirstVaries
  Modes <- Opposites
  MaxFaults = 2
INVARIANTS
  HistoryReadable BoundedRepair GrantsSpentOnce
  ReviewedWhileAlive
PROPERTIES
  PassingWorkKept ReadBeforeLaunch InvocationEnds
