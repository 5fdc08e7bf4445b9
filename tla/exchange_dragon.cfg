SPECIFICATION Spec
CONSTANTS
  Clients = {c1, c2, c3}
  Values = {v1, v2}
  None = None
  Handles <- TwoHandles
  Calls <- MixedCalls
  Backend = "dragon"
  SerialDeletes = TRUE
  MayFail = TRUE
SYMMETRY Symmetry
PROPERTIES Linearizable
