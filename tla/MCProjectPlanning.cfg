SPECIFICATION LiveSpec
CONSTANTS
  Runs = {r1}
  Nothing = Nothing
  Catalog <- ThreeProfiles
  Policy <- Everything
  Boundary <- Local
  Requested = "none"
  Observations <- FourObservations
  Drafts <- FiveDrafts
  Objectives <- Goal
  Inspection <- Inspected
  MaxTurns = 2
  Diverse = TRUE
  MaxHead = 2
  MaxScope = 1
  MaxCrashes = 1
INVARIANTS RecordedIsLaunched SealedPlanIsGated
PROPERTIES RunEnds
CHECK_DEADLOCK FALSE
