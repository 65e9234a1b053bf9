CONSTANTS
  G = {g1, g2}
  Top = 16
  MaxQs = 2
  Sizes <- UpToTwo
  MaxPairs = 4
  MaxPools = 4
  MaxOpens = 4
  Fails = {"object", "shadow"}
  Retries = FALSE
  Quiet = FALSE
SYMMETRY Alike
SPECIFICATION Spec
\* After MaxOpens openings nothing is opened any more.
CHECK_DEADLOCK FALSE
INVARIANT CopiesOwn
