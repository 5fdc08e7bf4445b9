SPECIFICATION Spec
CONSTANTS
  Slots = {s1, s2}
  Unset = Unset
  Garbage = Garbage
  Empty = Empty
  Descriptors <- Stores
  Kind <- Present
  Numbers <- Timeouts
  Environments <- SomeEnvironments
  Builds = {{"dragon", "smartredis"}, {"dragon"}}
  MayFail = TRUE
  DefaultTimeout = 5
  IntLimit = 8
  ULongLimit = 64
INVARIANTS TypeOK NoLeaks OnlyWaitingStores TimeoutsAreUsable PythonNamesTheCause
SYMMETRY Symmetry
CHECK_DEADLOCK FALSE
