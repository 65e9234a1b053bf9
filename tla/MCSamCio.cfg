\* A ring that carries requests of up to two buffers and a control ring, an
\* EIP197; one session at a time, and the ring closed and opened again.
CONSTANTS
  Cios = {c1, c2}
  Size = 3
  Sessions = {s1}
  Cookies = {k1, k2}
  MaxBufs = 2
  NoCio = NoCio
  CtrCios = {NoCio, c2}
  Eip197 = {c1}
  Short = FALSE
  MaxInv = 1
  Alone = TRUE
  Dedicated = TRUE
SPECIFICATION FairSpec
PROPERTY EventuallyFreed
INVARIANTS
  Paired
  RingHoldsPending
  SessionAlive
  AllGivenBack
