SPECIFICATION FairSpec
CONSTANTS
  Keys = {k1, k2}
  EmptyKey = EmptyKey
  short = short
  long = long
  Values = {short, long}
  KeyLen <- MCKeyLen
  ValueLen <- MCValueLen
  TTLs = {0, 1}
  Clients = {}
  Policies = {"volatile-random", "allkeys-lru"}
  MaxMemories = {140, 210}
  SampleSize = 20
  RDBConfigured = TRUE
  NoItem = NoItem
  MaxClock = 3
  MaxAccess = 3
PROPERTIES RestoredExactly LockReleased ExpiredEventuallyGone
