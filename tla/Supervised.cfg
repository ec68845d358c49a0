SPECIFICATION Spec
CONSTANTS
  Process = {p1, p2}
  Client = {c1}
  Tenant = {t1, t2, t3}
  None = None
  MaxWorkers = 2
  MaxTenants = 2
  MaxLeases = 2
INVARIANTS OneWorkerPerWorkspace UsersHaveTheOwner
CHECK_DEADLOCK FALSE
SYMMETRY Symmetry
