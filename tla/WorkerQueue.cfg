SPECIFICATION FairSpec
CONSTANTS
  main = main
  worker = worker
  c1 = c1
  c2 = c2
  c3 = c3
  NULL = NULL
  Main = main
  Worker = worker
  Callers <- FourCallers
  ShutdownWhileQueued = FALSE
INVARIANTS FrameAlive NoLostWakeup
PROPERTIES ImplementsSerial PostedReturns ShutdownEnds
CHECK_DEADLOCK FALSE
