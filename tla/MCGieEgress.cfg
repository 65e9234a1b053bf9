SPECIFICATION Spec
CONSTANTS
  Pairs = {"egress"}
  QLen = 4
  BpLen = 4
  Batch = 2
  FillSize = 2
  FillThresh = 2
  DmaLen = 16
  CopyPayload = {"egress"}
  SgEn = TRUE
  Tags = 8
  NBufs = 3
  Hold = 1
INVARIANTS
  PublishedComplete
  SourceStable
  DestinationFree
  BuffersConserved
  SgWhole
PROPERTY EgressIsChannel
