SPECIFICATION Spec
CONSTANTS
  BpLen = 8
  Batch = 2
  FillSize = 4
  FillThresh = 4
INVARIANTS
  ShadowRoom
  FillPosted
