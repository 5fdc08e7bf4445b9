SPECIFICATION FairSpec
CONSTANTS
  Second = 4
  Delay = 3
  StartUp = 8
  MaxAge = 40
  MayCrash = TRUE
  None = None
INVARIANTS TypeOK TypesAgree FailuresHaveACause
PROPERTY EveryProgramEnds
CHECK_DEADLOCK FALSE
