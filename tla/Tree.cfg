CONSTANTS
  Key <- Keys4
  Node = {n1, n2, n3, n4, n5}
  Iter = {i1}
  Nil = Nil
  DepthMax = 2
  KeepStale = FALSE
SYMMETRY Nodes
SPECIFICATION Spec
INVARIANTS CountsExact Balance Traversal
PROPERTIES Implements
CHECK_DEADLOCK FALSE
