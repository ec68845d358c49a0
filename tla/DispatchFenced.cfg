SPECIFICATION DispatchSpec
CONSTANTS
  Op = {1}
  Inline = {}
  Deadlines = {2}
  LeaseDuration = 1
  MaxSuccessors = 1
  MaxTime = 2
  MaxGeneration = 2
  MaxAttempts = 2
  MaxDecisions = 2
  Worker = {w1, w2}
  StepCount = 1
  Reads = {}
  Responses = {1}
  Lookup = TRUE
  Withdrawable = {1}
PROPERTIES
  FencedWorkerIsSilent
CHECK_DEADLOCK FALSE
