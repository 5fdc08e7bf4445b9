SPECIFICATION FairSpec
CONSTANTS
  Timeouts = {0, 1, 4, 9}
  Interval = 3
  Latency = 1
INVARIANTS TypeOK TimesOutOnTime TimeoutIsHonest AnswersPromptly
PROPERTIES WaitReturns
