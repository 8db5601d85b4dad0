CONSTANTS
  c1 = c1  c2 = c2  h1 = h1  h2 = h2  n1 = n1  n2 = n2  p1 = p1  p2 = p2  e1 = e1  e2 = e2
  s1 = s1  nobody = nobody
  Call = {c1, c2}
  Kind = {"stdio", "http", "home"}
  Concurrency <- Slots
  Helper = {h1, h2}
  MaxConnects = 2
  Session = {n1, n2}
  Post = {p1, p2}
  IdleLimit = 0
  BusyLimit = 1
  Caller = {c1, c2}
  Scope = {s1}
  NoScope = nobody
  Tool = {"t"}
  StopRetryingThreshold = 2
  MaxAttemptMapSize = 2
  MaxFailures = 2
  ResultCacheMaxSize = 2
  ResultCacheTtl = 1
  TotalChars = 3
  Limit = {1, 2}
  MaxResults = 4
  Export = {e1, e2}
  Pages = 3
  ItemsPerPage = 2
  MaxPages = 3
  MaxRetries = 1
  Worker = {c1, c2}
  KeyOrder <- Keys
  MaxNotesPerPackage = 1
  MaxNotesGlobal = 2
  Ttl = 1
  MaxTime = 2
SPECIFICATION PartSpec
INVARIANTS PartsTypeOK StreamsAnswerOnce TreeIsStopped TeardownIsNotCutShort RecentCountsSurvive LongResultsCanBeRead ReportIsTrue
PROPERTIES KeepsLedger BusySessionsStay NothingIsOverwritten NotesAreKept PartsEnd
CHECK_DEADLOCK FALSE
