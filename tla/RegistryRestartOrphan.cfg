\* A restart whose client is replaced while it is closed.
CONSTANTS
  c1 = c1  c2 = c2  c3 = c3  k1 = k1  k2 = k2  g1 = g1  e1 = e1  r1 = r1
  nobody = nobody  noclient = noclient  drainer = drainer
  Client = {c1, c2, c3}
  NoClient = noclient
  Call = {k1, k2}
  Getter = {}
  Evictor = {}
  Restarter = {r1}
  Nobody = nobody
  Drain = drainer
  Events = {}
SPECIFICATION Spec
INVARIANTS NothingSurvivesShutdown
