\* One request in each of two processes; access tokens may end while a request
\* is under way.
CONSTANTS
  p1 = p1  p2 = p2  f1 = f1  f2 = f2  f3 = f3  nobody = nobody
  Proc = {p1, p2}
  Flow = {f1, f3}
  Owner <- MCOwner
  Nobody = nobody
  Events = {}
  QuietExpiry = FALSE
  MaxIssued = 3
SPECIFICATION LateSaveSpec
PROPERTIES NoDowngrade
