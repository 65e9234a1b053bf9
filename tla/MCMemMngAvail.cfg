CONSTANTS
  Base = 4
  Top = 20
  Greatest = 4
  Drift = 8
  Clients <- KeepOrWhole
SPECIFICATION Spec
INVARIANTS
  AvailIsFree
\* A client that releases nothing stops when the memory is used up.
CHECK_DEADLOCK FALSE
