SPECIFICATION Spec
CONSTANTS
  BpLen = 8
  Batch = 2
  FillSize = 8
  FillThresh = 4
INVARIANT ShadowRoom
