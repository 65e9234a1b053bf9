SPECIFICATION Spec
CONSTANTS
  Threads = {"t1", "t2"}
  Cookies = 4
  HostLen = 12
  LocalLen = 4
  Batch = 4
  MaxCalls = 5
  MaxNotes = 1
  Overlap = FALSE
  MayFail = FALSE
INVARIANTS
  OwnAnswer
  CookieAccounting
  ConfAgrees
CHECK_DEADLOCK FALSE
