\* The memory for a ring cannot be had.  With Fails = {} and MaxPools = 2 it is the table
\* of pools that is full, to the same effect.
CONSTANTS
  G = {g1, g2}
  Top = 16
  MaxQs = 2
  Sizes <- UpToTwo
  MaxPairs = 4
  MaxPools = 4
  MaxOpens = 4
  Fails = {"ring"}
  Retries = FALSE
  Quiet = TRUE
SYMMETRY Alike
SPECIFICATION Spec
\* After MaxOpens openings nothing is opened any more.
CHECK_DEADLOCK FALSE
INVARIANT ResourcesOwned
