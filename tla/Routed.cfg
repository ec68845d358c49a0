SPECIFICATION Spec
CONSTANTS
  Call = {c1}
  Reconciler = {r1, r2}
  Catalog = {k1, k2}
  MaxCrashes = 2
INVARIANTS
  SuccessIsProvidersAnswer
  SamplingFailureLosesNothing
SYMMETRY Symmetry
CHECK_DEADLOCK FALSE
