SPECIFICATION FairSpec
CONSTANTS
  Driver = {d1}
  MaxSuspensions = 2
  MaxCells = 2
  MaxClaims = 1
  MaxAttempts = 3
  MaxTime = 1
  Deadline = 1
  ClaimLease = 1
  Outcomes = {"succeeded", "failed"}
  Withdrawn = FALSE
  Resubmitted = FALSE
  HostMayDie = FALSE
  WorkerMayDie = FALSE
PROPERTIES
  SettlementContinues
  UnsentWaitIsDecided
CHECK_DEADLOCK FALSE
