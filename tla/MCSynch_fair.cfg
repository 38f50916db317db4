SPECIFICATION FairSpec
CONSTANTS
  main = main
  middle = middle
  high = high
  Thread = {main, middle, high}
  Main = main
  Idle = Idle
  None = None
  Lock = {1}
  PriMax = 1
  BasePri <- MCEqualPri
  PriorityChoices = {}
PROPERTIES RoundRobin LockProgress
CHECK_DEADLOCK FALSE
