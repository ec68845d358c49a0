SPECIFICATION Spec
CONSTANTS
  Installer = {i1, i2}
  Epoch = {e1, e2}
  Host = {h1, h2}
  Client = {c1, c2}
  Grant = {x}
  MaxIntrusions = 1
  MaxPowerLosses = 1
  MaxGenerations = 2
SYMMETRY Symmetry
INVARIANTS
  PublishedIsWhole
  GrantsAreCurrent
CHECK_DEADLOCK FALSE
