SPECIFICATION Spec
CONSTANTS
  NumTasks = 2
  NumProfiles = 2
  MaxAttempts <- ThreeOne
  File <- Granted
  Catalog <- TwoProfiles
  UnitOf <- SameWork
  Inspection <- Ready
  Balances = TRUE
  MinimumSample = 1
  Seeds <- Seeded
  MaySpend <- FirstSpent
  MayBeSilent = {2}
  MaxFaults = 2
INVARIANTS
  EpisodesTellTheTruth PublishedWhole BoundEpisodesCount
