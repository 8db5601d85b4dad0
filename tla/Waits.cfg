\* Two packages that share one place, a watcher; a call, an eviction, a restart
\* and shutdown, with clients that hang, end by themselves and discard requests.
SPECIFICATION MCSpec
CONSTANTS
  p1 = p1  p2 = p2  i1 = i1  w1 = w1  s1 = s1
  c1 = c1  c2 = c2  c3 = c3  k1 = k1  e1 = e1  r1 = r1
  nobody = nobody  noclient = noclient  drainer = drainer
  NoPackage = NoPackage
  NoTools = NoTools
  NoSlot = NoSlot
  Pkg = {p1, p2}
  Ident = {i1}
  SetupBlocked = {p2}
  Caller = {}
  Watcher = {w1}
  Slot = {s1}
  Concurrency = 1
  AuthProbe = FALSE
  Clearable = {}
  Removable = {}
  MaxGen = 2
INVARIANTS RetryIsScheduled
PROPERTIES NothingWaitsForEver ShutdownCompletes EveryEvictionEnds
CHECK_DEADLOCK FALSE
