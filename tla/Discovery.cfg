SPECIFICATION Spec
CONSTANTS
  Disks <- MCDisks
  Nodes <- MCNodes
  Worlds <- MCWorlds
  TooLong <- MCTooLong
  MaxCand = 2
  MaxSwaps = 1
  MaxFails = 1
INVARIANTS NeverFixed BoundIsTse FoundIfPresent NothingLost
CHECK_DEADLOCK FALSE
