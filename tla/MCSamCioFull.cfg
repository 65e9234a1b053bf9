\* Two invalidations in a ring whose descriptors the requests have taken.
CONSTANTS
  Cios = {c1}
  Size = 5
  Sessions = {s1, s2}
  Cookies = {k1, k2}
  MaxBufs = 2
  NoCio = NoCio
  CtrCios = {NoCio}
  Eip197 = {c1}
  Short = FALSE
  MaxInv = 2
  Alone = TRUE
  Dedicated = TRUE
SPECIFICATION Spec
INVARIANT RingHoldsPending
