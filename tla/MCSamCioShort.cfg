\* Requests whose data ends before the last buffer: the descriptors are taken
\* back, the request stays counted.
CONSTANTS
  Cios = {c1}
  Size = 3
  Sessions = {s1}
  Cookies = {k1, k2}
  MaxBufs = 2
  NoCio = NoCio
  CtrCios = {NoCio}
  Eip197 = {c1}
  Short = TRUE
  MaxInv = 1
  Alone = TRUE
  Dedicated = TRUE
SPECIFICATION Spec
INVARIANT RingHoldsPending
