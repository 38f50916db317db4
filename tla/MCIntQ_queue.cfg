SPECIFICATION FairSpec
CONSTANTS
  Thread = {a, b, c}
  Byte = {0, 1}
  BufSize = 4
  None = None
INVARIANTS TypeOK OneWaiter
PROPERTIES ImplementsFifo WaiterWoken
CHECK_DEADLOCK FALSE
