SPECIFICATION Spec
CONSTANTS
  MaxSuccessors = 1
  MaxTools = 2
  MaxCheckpoints = 1
  MaxCrashes = 1
INVARIANTS
  RunsFromBoundary
  ClaimNeverBlocked
  SettledByReceipt
CHECK_DEADLOCK FALSE
