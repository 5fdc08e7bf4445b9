SPECIFICATION Spec
CONSTANTS
  DTypes = {INT32, FLOAT64}
  Values = {v1}
  None = None
  Malformed = Malformed
  Pickled = Pickled
  Garbage = Garbage
  Shapes <- SomeShapes
  DataSize = 2
  DimsSize = 1
  Area = 3
  Backends = {"dragon", "smartredis"}
  MayFail = TRUE
  Addresses = {a1}
  Null = Null
SYMMETRY Symmetry
INVARIANTS TypeOK NoOverrun BuffersAreOfOneRead HandlesAreSafe CodesNameTheCause RetriesConverge
