SPECIFICATION Spec
CONSTANTS
  Clients = {c1, c2}
  Values = {v1}
  None = None
  Handles <- OneHandle
  Calls <- ReshapeCalls
  Backend = "smartredis"
  SerialDeletes = TRUE
  MayFail = FALSE
INVARIANTS ReadsAreWhole
