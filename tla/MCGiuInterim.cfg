\* One queue of the guest before two of the host; two of the host before one of the
\* guest.
CONSTANTS
  Dirs = {"out", "in"}
  NumSrc <- Src1
  NumDst <- Dst2
  SrcLen = 4
  DstLen = 4
  NumIntcs = 1
  Hashes = {"packet", "descriptor"}
  Sizes = {1, 2}
  Drained = TRUE
SPECIFICATION FairSpec
INVARIANTS
  FlowsFifo
  DoneIsTaken
  PacketsWhole
PROPERTY EventuallyDone
