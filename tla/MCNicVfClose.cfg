SPECIFICATION Spec
CONSTANTS
  N = 2
  Polls = FALSE
  Reopens = FALSE
  CrashAnywhere = FALSE
  Returns = {1, 2}
INVARIANTS
  EnabledHasQueues
