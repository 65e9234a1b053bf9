SPECIFICATION Spec
CONSTANTS
  N = 2
  Polls = TRUE
  Reopens = FALSE
  CrashAnywhere = FALSE
  Returns = {2}
PROPERTIES
  HostsServed
