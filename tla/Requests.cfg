SPECIFICATION Spec
CONSTANTS
  t1 = t1
  t2 = t2
  NoToken = NoToken
  Methods <- MCMethods
  Urls <- MCUrls
  Ids <- MCIds
  Codes <- MCCodes
  Rooms <- MCRooms
  Bodies <- MCBodies
  Confs <- MCConfs
  Tokens = {t1, t2}
  Life = 1
  ClientSize = 4
  DataSize = 4
  NumSize = 3
  LoginSize = 2
  DecodedSize = 4
  BodySize = 36
  ListSize = 7
  EasSize = 2
  ListMax = 1
  MaxTime = 2
  MaxNum = 2
  MaxFails = 1
  MaxCrashes = 1
SYMMETRY Symmetry
INVARIANTS Entitled ExecutedAsSent RefusedForAReason OpenListed
CHECK_DEADLOCK FALSE
