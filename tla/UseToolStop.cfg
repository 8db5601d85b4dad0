\* One agent, one tool, and results that are saved to a file.
CONSTANTS
  Caller = {c1}
  Scope = {s1}
  NoScope = nobody
  Tool = {"t"}
  StopRetryingThreshold = 2
  MaxAttemptMapSize = 2
  MaxFailures = 2
SPECIFICATION Spec
INVARIANTS StopIsEarned
