SPECIFICATION LiveSpec
CONSTANTS
  MaxAttempts = 2
  MaxFaults = 2
  MaxCommits = 1
  Foreigners <- NewFile
INVARIANTS
  WorkKept OutputKept WorkContinued NothingForeignRecovered CleanStart
PROPERTIES
  PersonsFilesKept RecordedConcludes
CHECK_DEADLOCK FALSE
