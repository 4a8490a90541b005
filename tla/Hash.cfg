CONSTANTS
  h = h
  g = g
  Key <- Five
  Hcode <- Codes
  FirstMask = 7
  Iter = {}
  Stacked = {}
  TableMax = 3
  UseMax = 3
  Instances = 1
  Weak = TRUE
  Programs <- Tables
SPECIFICATION Spec
INVARIANTS TableSound SweepExact
PROPERTIES Implements
CHECK_DEADLOCK FALSE
