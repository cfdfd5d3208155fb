SPECIFICATION FairPipelineSpec
CONSTANTS
  Workers = {w1, w2}
  Codes = {good, bad}
  Passing = {good}
  MaxIters = 2
  None = None
  Signatures = {"conv", "pool"}
  Ids = {"block"}
  MaxSubgraphs = 2
  MaxComposeIters = 2
INVARIANTS
  ProgramRunsOnce
  GivesWayToOwner
  WinnerRanIt
  KernelsAreOwn
  SuccessPassed
PROPERTIES
  PassingProgramWins
  Finishes
CHECK_DEADLOCK FALSE
