CONSTANTS
  G = {g1, g2}
  Top = 9
  MaxQs = 1
  Sizes <- OneEach
  MaxPairs = 4
  MaxPools = 4
  MaxOpens = 6
  Fails = {}
  Retries = TRUE
  Quiet = TRUE
SYMMETRY Alike
SPECIFICATION Spec
\* After MaxOpens openings nothing is opened any more.
CHECK_DEADLOCK FALSE
INVARIANT RoutesOwn
