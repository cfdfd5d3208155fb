SPECIFICATION FairRunSpec
CONSTANTS
  MaxSkepticClaimsPerTurn = 1
  MaxDescriptionRequestsPerTurn = 1
  MaxOpenDescriptionTasks = 1
  MaxDescriptionTasks = 1
  CalledTools <- RunTools
  FailingTools = {"load_artifact"}
  ClaimKinds <- InScopeKind
  CitedEvents = {0}
  MaxToolEvents = 6
  Options <- RunOptions
  None = None
  MaxDescriberTurns = 2
  MaxCallsPerTurn = 2
  MaxReplays = 1
INVARIANTS
  VerdictEndsRun
  SequenceVerdictIsCovered
  CoverageReasonTrue
PROPERTIES
  TurnsStartWithinBudget
  Terminates
CHECK_DEADLOCK FALSE
