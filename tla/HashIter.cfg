CONSTANTS
  h = h
  g = g
  Key <- Three
  Hcode <- Codes
  FirstMask = 3
  Iter <- Both
  Stacked = {}
  TableMax = 2
  UseMax = 2
  Instances = 1
  Weak = FALSE
  Programs <- Traversals
SYMMETRY Symmetry
SPECIFICATION Spec
INVARIANTS VisitsOnce UsesCounted
CHECK_DEADLOCK FALSE
