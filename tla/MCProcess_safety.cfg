SPECIFICATION FairSpec
CONSTANTS
  Proc = {root, child, other}
  Root = root
  Status = {0}
  Killed <- MCKilled
  None = None
INVARIANTS TypeOK SleeperWillBeWoken
PROPERTIES ImplementsProcessSpec CallsReturn
CHECK_DEADLOCK FALSE
