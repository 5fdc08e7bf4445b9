SPECIFICATION Spec
CONSTANTS
  SizeLimit = 64
  IntLimit = 8
  WordBytes = 2
  DType = 3
  Shapes <- LargeShapes
  RawBuffers <- OddBuffers
  None = None
INVARIANTS AllElementsRead
