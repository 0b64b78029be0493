SPECIFICATION Spec
CONSTANTS
  c1 = c1
  c2 = c2
  Clients = {c1, c2}
  MaxNum = 2
  MaxCrashes = 2
  MaxFails = 2
INVARIANTS AckedOnce AckedOnRecord SignaturesDistinct MirrorDrift SimulatorSigns
PROPERTIES ImplementsLedger
CHECK_DEADLOCK FALSE
