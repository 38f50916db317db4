SPECIFICATION Spec
CONSTANTS
  main = main
  middle = middle
  high = high
  Thread = {main, middle, high}
  Main = main
  Idle = Idle
  None = None
  Lock = {1, 2}
  PriMax = 3
  BasePri <- MCBasePri
  PriorityChoices = {0, 3}
INVARIANTS TypeOK MutualExclusion OneListPerThread NoLostWakeup
  ReadyListSorted HighestPriorityRuns DonationHasDonor BelowBaseHasDonor
PROPERTY ImplementsLockSpec
CHECK_DEADLOCK FALSE
