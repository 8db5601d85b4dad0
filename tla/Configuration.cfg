\* Reloads of the watcher, an apply or a restart, and a spawn, while the host edits.
CONSTANTS
  root = root  extra = extra  gone = gone  s1 = s1  s2 = s2  d1 = d1  a1 = a1  p1 = p1
  d2 = d2  absent = absent  broken = broken  nobody = nobody
  File = {root, extra, gone}
  Root = root
  Server = {s1, s2}
  Contents <- FileContents
  StartDisk <- FirstFiles
  Absent = absent
  Broken = broken
  Debounced = {d1}
  Applying = {a1}
  Spawning = {p1}
  Restarting = {a1}
  Nobody = nobody
  MaxEdits = 2
SPECIFICATION FairSpec
INVARIANTS RawInStep
PROPERTIES IdentityIsKept FreshSpawn PolicySettles
CHECK_DEADLOCK FALSE
