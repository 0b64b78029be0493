SPECIFICATION ProvisionSpec
CONSTANTS
  p1 = p1
  p2 = p2
  Values = {p1, p2}
  NONE = NONE
  MaxBoots = 2
  MaxFails = 1
INVARIANTS RestartUsesStored
SYMMETRY ValueSymmetry
CHECK_DEADLOCK FALSE
