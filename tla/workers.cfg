SPECIFICATION FairBuildSpec
CONSTANTS
  NumWorkers = 2
  MaxRounds = 2
  MaxCalls = 2
  ResultSizes = {"small", "large"}
INVARIANTS
  WinnerIsOwn
  EntryIsOfOneBuild
PROPERTIES
  BuildEnds
  SearchSpec
CHECK_DEADLOCK FALSE
