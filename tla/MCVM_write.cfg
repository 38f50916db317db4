CONSTANTS
  a = a
  b = b
  stackA = stackA
  stackB = stackB
  more = more
  Proc = {a, b}
  Page = {stackA, stackB, more}
  Owner <- MCOwner
  Stack <- MCStack
  Layouts <- MCLayouts
  Frames = 2
  Slots = 2
  None = None
SPECIFICATION Spec
INVARIANT EvictionKeepsWrites
