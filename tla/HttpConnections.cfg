SPECIFICATION FairSpec
CONSTANTS
  c1 = c1
  c2 = c2
  NULL = NULL
  Clients = {c1}
  Messages <- AllMessages
  MaxMsgs = 2
  BufMax = 6
  ReqMax = 4
  EofInMessage = FALSE
  AcceptFails = TRUE
INVARIANTS Framing
PROPERTIES AllServed ConnectionEnds ServeReturns
CHECK_DEADLOCK FALSE
