SPECIFICATION MonSpec
CONSTANTS
  main = main
  middle = middle
  high = high
  Thread = {main, middle, high}
  Main = main
  Idle = Idle
  None = None
  Lock = {1}
  CondLock = 1
  PriMax = 3
  BasePri <- MCBasePri
  PriorityChoices = {}
INVARIANTS MonTypeOK SignalsKept
CHECK_DEADLOCK FALSE
