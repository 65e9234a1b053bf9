\* Two queues of the guest, one of which sends a part of a packet.
CONSTANTS
  Dirs = {"out"}
  NumSrc <- Src2
  NumDst <- Dst1
  SrcLen = 4
  DstLen = 4
  NumIntcs = 1
  Hashes = {"packet"}
  Sizes = {1, 2}
  Drained = TRUE
SPECIFICATION Spec
INVARIANT PacketsWhole
