SPECIFICATION HFairSpec
CONSTANTS
  Clients = {c1, c2, c3}
  Values = {v1}
  None = None
  Handles <- OneHandle
  Calls <- PublishCalls
  Backend = "dragon"
  SerialDeletes = FALSE
  MayFail = TRUE
  MaxPuts = 2
PROPERTIES WaitIsAnswered 
