SPECIFICATION Spec
CONSTANTS
  Pairs = {"ingress"}
  QLen = 4
  BpLen = 8
  Batch = 2
  FillSize = 2
  FillThresh = 2
  DmaLen = 16
  CopyPayload = {"ingress"}
  SgEn = TRUE
  Tags = 8
  NBufs = 4
  Hold = 1
INVARIANTS
  BuffersConserved
PROPERTIES
  IngressIsChannel
  ShadowIsPrefetch
