SPECIFICATION Spec
CONSTANTS
  Kernels = {k1, k2}
  MaxOptRounds = 3
  DivergenceThreshold = 60
  EarlyStop = TRUE
  RooflineSol = 2
  MaxTime = 2
  MaxSol = 2
INVARIANTS
  BestsAreBest
CHECK_DEADLOCK FALSE
