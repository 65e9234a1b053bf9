\* A guest starts again while the GIE has descriptors of the one before.
CONSTANTS
  Dirs = {"out"}
  NumSrc <- Src1o
  NumDst <- Dst1
  SrcLen = 4
  DstLen = 4
  NumIntcs = 1
  Hashes = {"packet"}
  Sizes = {1}
  Drained = FALSE
SPECIFICATION Spec
INVARIANT DoneIsTaken
