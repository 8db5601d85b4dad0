\* Three requests over two processes, shutdowns and restarts; sign-ins, or writes
\* that fail and unusable answers; access tokens end between requests.
CONSTANTS
  p1 = p1  p2 = p2  f1 = f1  f2 = f2  f3 = f3  nobody = nobody
  Proc = {p1, p2}
  Flow = {f1, f2, f3}
  Owner <- MCOwner
  Nobody = nobody
  Events = {"keep", "signin", "body", "persist"}
  QuietExpiry = TRUE
  MaxIssued = 3
SYMMETRY Symmetry
SPECIFICATION MCSpec
INVARIANTS OneTransactionAtATime SingleUse NoSilentWedge
PROPERTIES NoNeedlessRotation
