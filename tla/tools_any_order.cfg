SPECIFICATION Spec
CONSTANTS
  MaxSkepticClaimsPerTurn = 1
  MaxDescriptionRequestsPerTurn = 1
  MaxOpenDescriptionTasks = 1
  MaxDescriptionTasks = 1
  CalledTools <- ChangingTools
  FailingTools = {"update_claim_status"}
  ClaimKinds <- InScopeKind
  CitedEvents = {2}
  MaxToolEvents = 5
INVARIANTS
  SettledClaimsAreSupported
  CurrentReviewSeesAll
  VerdictHoldsUntilLedgerMoves
  FinalizationsHaveProbes
PROPERTIES
  LedgerHistoryKept
