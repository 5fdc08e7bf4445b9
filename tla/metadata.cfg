SPECIFICATION Spec
CONSTANTS
  SizeLimit = 64
  IntLimit = 8
  WordBytes = 2
  DType = 3
  Shapes <- AllShapes
  RawBuffers <- OddBuffers
  None = None
INVARIANTS TypeOK RecordsAreChecked ElementsAgree
