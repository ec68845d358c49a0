CONSTANTS
  MaxCells = 2
  CallBudgets = {2, 3}
  MaxAttempts = 3
  MaxCrashes = 2
SPECIFICATION Spec
INVARIANTS
  RebindTypeOK
  OneResumption
  WorkspaceMatchesJournal
PROPERTY AuthorityMovesOn
CHECK_DEADLOCK FALSE
