SPECIFICATION Spec
CONSTANTS
  Op = {1}
  Inline = {1}
  Deadlines = {2, 3}
  LeaseDuration = 1
  MaxSuccessors = 1
  MaxTime = 3
  MaxGeneration = 2
  MaxAttempts = 3
  MaxDecisions = 2
INVARIANTS
  TypeOK
  SingleRunningAttempt
  QueuedHasNoLiveOwner
  RunningIsOwned
  AcceptedIsCurrent
  OneDecisionPerAttempt
  AttemptsAreAdmitted
  ExecutionsWithinPolicy
PROPERTIES
  TerminalIsFinal
  ImplementsLifecycle
CHECK_DEADLOCK FALSE
