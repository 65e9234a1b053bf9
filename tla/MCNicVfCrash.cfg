SPECIFICATION Spec
CONSTANTS
  N = 1
  Polls = TRUE
  Reopens = FALSE
  CrashAnywhere = TRUE
  Returns = {1}
PROPERTIES
  HostsServed
