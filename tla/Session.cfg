SPECIFICATION FairSpec
CONSTANTS
  a = a
  startup = startup
  idA = idA
  NULL = NULL
  W = W
  T = T
  Clients <- TwoClients
  Ids <- TwoIds
  Safe <- TwoSafe
  Startup = startup
  TseSwapped = FALSE
  RegisterBeforeSelfTest = TRUE
  CacheMax = 1
  MaxTx = 1
  MaxFaults = 1
  Pins = {"admin", "time"}
INVARIANTS LockDiscipline SessionsClosed OneSession ReplyMatchesDevice
PROPERTIES OneLapseTolerated RequestsEnd ClockRecovers
CHECK_DEADLOCK FALSE
