SPECIFICATION Spec
CONSTANTS
  Clients = {c1, c2, c3}
  Values = {v1, v2}
  None = None
  Handles <- OneHandle
  Calls <- VectorCalls
  Backend = "smartredis"
  SerialDeletes = TRUE
  MayFail = TRUE
SYMMETRY Symmetry
INVARIANTS TypeOK DataHasMetadata
PROPERTIES Linearizable DeleteLeavesNothing
