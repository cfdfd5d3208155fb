SPECIFICATION FairSpec
CONSTANTS
  Strategies = {"greedy", "beam"}
  NumTopKernels = 2
  NumBottlenecks = 1
  MaxNoImprovement = 1
  MaxRounds = 2
  MaxTime = 2
  MaxRuns = 2
INVARIANTS
  SearchKeepsBest
  SuccessesAreKept
  FileHasFinishedRounds
PROPERTIES
  SearchEnds
CHECK_DEADLOCK FALSE
