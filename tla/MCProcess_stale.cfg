SPECIFICATION Spec
CONSTANTS
  Proc = {root, child, other}
  Root = root
  Status = {0}
  Killed <- MCKilled
  None = None
INVARIANT NoStaleAccess
CHECK_DEADLOCK FALSE
