\* Three queues of the guest: the rotation leaves one out.
CONSTANTS
  Dirs = {"out"}
  NumSrc <- Src3
  NumDst <- Dst1
  SrcLen = 2
  DstLen = 4
  NumIntcs = 1
  Hashes = {"packet"}
  Sizes = {1}
  Drained = TRUE
SPECIFICATION FairSpec
PROPERTY EventuallyDone
