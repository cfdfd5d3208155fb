SPECIFICATION WFSpec
CONSTANTS
  MaxSkepticClaimsPerTurn = 2
  MaxDescriptionRequestsPerTurn = 1
  MaxOpenDescriptionTasks = 1
  MaxDescriptionTasks = 1
  CalledTools <- EvidenceTools
  FailingTools = {"append_evidence"}
  ClaimKinds <- MixedKinds
  CitedEvents = {0}
  MaxToolEvents = 8
  Options <- EvidenceOptions
  None = None
  MaxDescriberTurns = 1
  MaxCallsPerTurn = 3
  MaxReplays = 0
INVARIANTS
  VerdictOnReviewedLedger
  RejectIsGrounded
PROPERTIES
  ProtocolSpec
CHECK_DEADLOCK FALSE
