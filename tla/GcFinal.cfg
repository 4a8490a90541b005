CONSTANTS
  a = a
  b = b
  c = c
  Heaps <- OneBlock
  HeapSize = 3
  Slot = {car}
  Nil = Nil
  FreshMax = 2
  CheckMax = 1
  MutMax = 0
  Interval = 2
  GcDebug = FALSE
  JunkMax = 0
  RegMax = 2
  FinMax = 2
  DepthMax = 1
  FinalizerMay = {"register"}
  Background = {}
SYMMETRY Symmetry
SPECIFICATION HarmlessSpec
INVARIANTS AccessibleLive FincountCovers RegistrationsLive 
PROPERTIES FinalizesUnreachable RoundsShrink
CHECK_DEADLOCK FALSE
