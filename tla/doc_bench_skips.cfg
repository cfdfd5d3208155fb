SPECIFICATION Spec
CONSTANTS
  NumProblems = 2
  SampleCounts = {1, 2}
  NumWorkers = 2
  NumGpus = 2
  PassAtKValues = {1, 2}
  MaxCommands = 3
  Torn = Torn
INVARIANT EverySampleEvaluated
CHECK_DEADLOCK FALSE
