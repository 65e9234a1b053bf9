SPECIFICATION Spec
CONSTANTS
  Threads = {"t1", "t2"}
  Cookies = 8
  HostLen = 8
  LocalLen = 6
  Batch = 6
  MaxCalls = 2
  MaxNotes = 1
  Overlap = TRUE
  MayFail = FALSE
INVARIANT OwnAnswer
CHECK_DEADLOCK FALSE
