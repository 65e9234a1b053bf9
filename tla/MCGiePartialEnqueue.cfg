SPECIFICATION Spec
CONSTANTS
  Pairs = {"egress"}
  QLen = 4
  BpLen = 4
  Batch = 2
  FillSize = 2
  FillThresh = 2
  DmaLen = 3
  CopyPayload = {"egress"}
  SgEn = FALSE
  Tags = 8
  NBufs = 3
  Hold = 1
INVARIANT PublishedComplete
CHECK_DEADLOCK FALSE
