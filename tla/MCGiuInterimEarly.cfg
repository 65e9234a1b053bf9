\* Two queues of the guest before one of the host: a descriptor is given back
\* before the GIE has consumed it.
CONSTANTS
  Dirs = {"out"}
  NumSrc <- Src2
  NumDst <- Dst1
  SrcLen = 4
  DstLen = 4
  NumIntcs = 1
  Hashes = {"packet"}
  Sizes = {1}
  Drained = TRUE
SPECIFICATION Spec
INVARIANT DoneIsTaken
