SPECIFICATION WFSpec
CONSTANTS
  MaxSkepticClaimsPerTurn = 2
  MaxDescriptionRequestsPerTurn = 1
  MaxOpenDescriptionTasks = 1
  MaxDescriptionTasks = 1
  CalledTools <- ProbeTools
  FailingTools = {}
  ClaimKinds <- InScopeKind
  CitedEvents = {0}
  MaxToolEvents = 8
  Options <- ProbeOptions
  None = None
  MaxDescriberTurns = 1
  MaxCallsPerTurn = 2
  MaxReplays = 1
INVARIANTS
  ProbeEvidenceIsOwn
  StopReasonTrue
  ForcedRoundsConsume
CHECK_DEADLOCK FALSE
