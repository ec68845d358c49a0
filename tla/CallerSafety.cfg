SPECIFICATION Spec
CONSTANTS
  Driver = {d1, d2}
  MaxSuspensions = 1
  MaxCells = 1
  MaxClaims = 2
  MaxAttempts = 3
  MaxTime = 1
  Deadline = 1
  ClaimLease = 1
  Outcomes = {"succeeded"}
  Withdrawn = TRUE
  Resubmitted = TRUE
  HostMayDie = TRUE
  WorkerMayDie = TRUE
INVARIANTS
  CallerTypeOK
  OneAuthorisedSend
  WithdrawnIsUnsent
  SettlementIsEvidence
  OneContinuation
  CellRunsOnce
PROPERTIES
  SettlementIsFinal
  CancelledSettlement
SYMMETRY DriverSymmetry
CHECK_DEADLOCK FALSE
