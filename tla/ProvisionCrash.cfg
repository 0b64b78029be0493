SPECIFICATION ProvisionSpec
CONSTANTS
  p1 = p1
  p2 = p2
  Values = {p1, p2}
  NONE = NONE
  MaxBoots = 3
  MaxFails = 1
INVARIANTS Recoverable
PROPERTIES Permanent
SYMMETRY ValueSymmetry
CHECK_DEADLOCK FALSE
