CONSTANTS
  a = a
  b = b
  c = c
  d = d
  Heaps <- OneAndOne
  HeapSize = 1
  Slot = {car}
  Nil = Nil
  FreshMax = 2
  CheckMax = 1
  MutMax = 1
  Interval = 3
  GcDebug = FALSE
  JunkMax = 1
SYMMETRY Symmetry1
SPECIFICATION Spec
INVARIANTS TypeOK NoDangling NoAbort Remembered ListsExact ListsFit
PROPERTIES NoBabiesAfterGc FullGcExact Implements
CHECK_DEADLOCK FALSE
