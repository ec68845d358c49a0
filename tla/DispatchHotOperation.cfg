SPECIFICATION FairDispatchSpec
CONSTANTS
  Op = {1, 2}
  Inline = {}
  Deadlines = {1}
  LeaseDuration = 1
  MaxSuccessors = 1
  MaxTime = 0
  MaxGeneration = 3
  MaxAttempts = 3
  MaxDecisions = 2
  Worker = {w1}
  StepCount = 1
  Reads = {}
  Responses = {1}
  Lookup = TRUE
  Withdrawable = {}
PROPERTIES
  QueuedIsTaken
CHECK_DEADLOCK FALSE
