SPECIFICATION Spec
CONSTANTS
  Threads = {"t1"}
  Cookies = 8
  HostLen = 6
  LocalLen = 6
  Batch = 2
  MaxCalls = 4
  MaxNotes = 2
  Overlap = FALSE
  MayFail = TRUE
INVARIANTS
  OwnAnswer
CHECK_DEADLOCK FALSE
