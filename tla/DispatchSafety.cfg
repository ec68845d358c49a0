SPECIFICATION DispatchSpec
CONSTANTS
  Op = {1}
  Inline = {}
  Deadlines = {2}
  LeaseDuration = 1
  MaxSuccessors = 1
  MaxTime = 1
  MaxGeneration = 2
  MaxAttempts = 2
  MaxDecisions = 2
  Worker = {w1, w2}
  StepCount = 2
  Reads = {1}
  Responses = {1}
  Lookup = TRUE
  Withdrawable = {1}
INVARIANTS
  DispatchTypeOK
  EffectOnce
  SuccessHasReceipt
  StepsAreAnswers
  UncertaintyIsTracked
SYMMETRY WorkerSymmetry
CHECK_DEADLOCK FALSE
