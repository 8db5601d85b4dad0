\* Two calls of authenticate, two ports; two attempts and the floor, or one and the floor.
CONSTANTS
  f1 = f1  f2 = f2
  Flow = {f1, f2}
  Port = {1, 2}
  MaxAttempts = 1
  FilesFail = FALSE
  None = None  Static = Static  Old = Old
SPECIFICATION SmallSpec
INVARIANTS CodeIsOwn PortsAreReleased LoneSignInsMatch SignedInIsConnected
PROPERTIES SignInEnds
CHECK_DEADLOCK FALSE
