SPECIFICATION Spec
CONSTANTS
  N = 1
  Polls = TRUE
  Reopens = FALSE
  CrashAnywhere = FALSE
  Returns = {1}
INVARIANTS
  DownIsSuspended
