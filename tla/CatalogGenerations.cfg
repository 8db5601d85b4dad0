SPECIFICATION Spec
CONSTANTS
  p1 = p1
  p2 = p2
  i1 = i1
  i2 = i2
  c1 = c1
  c2 = c2
  w1 = w1
  s1 = s1
  s2 = s2
  NoPackage = NoPackage
  NoTools = NoTools
  NoSlot = NoSlot
  Pkg = {p1}
  Ident = {i1, i2}
  SetupBlocked = {}
  Caller = {c1}
  Watcher = {}
  Slot = {s1, s2}
  Concurrency = 1
  AuthProbe = TRUE
  Clearable = {p1}
  Removable = {p1}
  MaxGen = 3
SYMMETRY SymmetryRest
INVARIANTS ToolsMatchConfiguration InFlightFlagHasOwner CallersAreServed
CHECK_DEADLOCK FALSE
