\* Three requests over two processes, of which a scenario uses two.
CONSTANTS
  p1 = p1  p2 = p2  f1 = f1  f2 = f2  f3 = f3  nobody = nobody
  Proc = {p1, p2}
  Flow = {f1, f2, f3}
  Owner <- MCOwner
  Nobody = nobody
  Events = {"keep", "revoke", "crash", "suspend", "lost", "slow"}
  QuietExpiry = FALSE
  MaxIssued = 3
SPECIFICATION FaultsSpec
PROPERTIES NoDowngrade FlowEnds
