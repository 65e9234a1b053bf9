SPECIFICATION FairSpec
CONSTANTS
  Pairs = {"egress", "ingress"}
  QLen = 2
  BpLen = 4
  Batch = 1
  FillSize = 2
  FillThresh = 1
  DmaLen = 2
  CopyPayload = {"ingress"}
  SgEn = FALSE
  Tags = 4
  NBufs = 1
  Hold = 1
INVARIANTS
  JobsMatchDescs
PROPERTIES
  AllDelivered
CHECK_DEADLOCK FALSE
