\* Alignments of 2 and 4 with blocks as long as their alignment.
CONSTANTS
  Base = 0
  Top = 8
  Greatest = 4
  Drift = 0
  Clients <- Natural
SPECIFICATION Spec
INVARIANTS
  BusyDisjoint
