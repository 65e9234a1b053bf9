\* Requests go through the control ring too: the descriptor of an invalidation
\* is never given back there.
CONSTANTS
  Cios = {c1, c2}
  Size = 3
  Sessions = {s1}
  Cookies = {k1, k2}
  MaxBufs = 2
  NoCio = NoCio
  CtrCios = {NoCio, c2}
  Eip197 = {c1}
  Short = FALSE
  MaxInv = 1
  Alone = TRUE
  Dedicated = FALSE
SPECIFICATION Spec
INVARIANT AllGivenBack
