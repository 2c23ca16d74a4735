SPECIFICATION Spec
CONSTANTS
  P = 31
  B = 25
  Order = 23
  MaskBits = 2
  Scales = {1, 9}
  Bases = {9}
INVARIANTS
  DifferenceExact
CHECK_DEADLOCK FALSE
