CONSTANTS
  a = a
  b = b
  c = c
  Heaps <- OneBlock
  HeapSize = 3
  Slot = {car}
  Nil = Nil
  FreshMax = 2
  CheckMax = 1
  MutMax = 0
  Interval = 2
  GcDebug = FALSE
  JunkMax = 0
  RegMax = 2
  FinMax = 2
  DepthMax = 0
  FinalizerMay = {"store", "register"}
  Background = {}
SYMMETRY Symmetry
SPECIFICATION FinalSpec
INVARIANTS AccessibleLive
CHECK_DEADLOCK FALSE
