SPECIFICATION Spec
CONSTANTS
  N = 2
  Polls = TRUE
  Reopens = FALSE
  CrashAnywhere = FALSE
  Returns = {1, 2}
INVARIANTS
  EnabledHasQueues
  ReadyIsClean
  ChannelFreedOnce
PROPERTIES
  HostsServed
  LinkFollows
