SPECIFICATION FairSpec
CONSTANTS
  Thread = {main, other, third}
  Main = main
  Idle = Idle
  None = None
  Lock = {}
  PriMax = 1
  BasePri <- MCEqualPri
  PriorityChoices = {}
  SleepChoices <- MCSleep
  Slack = 1
INVARIANTS UpOncePerSleep
PROPERTIES WokenOnTime EverySleeperReturns
CHECK_DEADLOCK FALSE
