CONSTANTS
  Key <- Keys4
  Node = {n1, n2, n3, n4}
  Iter = {}
  Nil = Nil
  DepthMax = 2
  KeepStale = FALSE
SYMMETRY Nodes
SPECIFICATION GcSpec
INVARIANTS NoneReclaimed
CHECK_DEADLOCK FALSE
