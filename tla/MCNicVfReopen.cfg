SPECIFICATION Spec
CONSTANTS
  N = 2
  Polls = TRUE
  Reopens = TRUE
  CrashAnywhere = FALSE
  Returns = {1, 2}
INVARIANTS
  QueuesAdded
