SPECIFICATION FairSpec
CONSTANTS
  NumWorkers = 2
  MaxRounds = 1
  MaxCalls = 1
  ResultSizes = {"small", "large"}
PROPERTIES
  EveryCallReturns
CHECK_DEADLOCK FALSE
