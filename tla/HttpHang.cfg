SPECIFICATION FairSpec
CONSTANTS
  c1 = c1
  c2 = c2
  NULL = NULL
  Clients = {c1}
  Messages <- LengthMessages
  MaxMsgs = 1
  BufMax = 6
  ReqMax = 4
  EofInMessage = TRUE
  AcceptFails = FALSE
PROPERTIES ConnectionEnds
CHECK_DEADLOCK FALSE
