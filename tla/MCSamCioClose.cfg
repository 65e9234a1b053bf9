\* A session is created by another thread while a ring is closed.
CONSTANTS
  Cios = {c1, c2}
  Size = 3
  Sessions = {s1}
  Cookies = {k1, k2}
  MaxBufs = 2
  NoCio = NoCio
  CtrCios = {NoCio, c2}
  Eip197 = {c1}
  Short = FALSE
  MaxInv = 1
  Alone = FALSE
  Dedicated = TRUE
SPECIFICATION Spec
INVARIANT SessionAlive
