SPECIFICATION FairSpec
CONSTANTS
  Ranks = {r0, r1, r2}
  Root = r0
  MaxIter = 3
  None = None
INVARIANTS TypeOK CountedIsComplete RanksAgree NothingMissing SummaryIsComplete
PROPERTY Terminates
CHECK_DEADLOCK FALSE
