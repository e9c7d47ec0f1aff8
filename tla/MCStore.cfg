SPECIFICATION Spec
CONSTANTS
  Keys = {k1, k2, k3}
  EmptyKey = EmptyKey
  short = short
  long = long
  Values = {short, long}
  KeyLen <- MCKeyLen
  ValueLen <- MCValueLen
  TTLs = {0, 1}
  Clients = {c1}
  Policies = {"noeviction", "allkeys-random", "volatile-random", "allkeys-lru", "allkeys-lfu"}
  MaxMemories = {210}
  SampleSize = 1
  RDBConfigured = FALSE
  NoItem = NoItem
  MaxClock = 3
  MaxAccess = 3
SYMMETRY Symmetry
INVARIANTS TypeOK MemoryAccounting FifoTracksNonTTL LoopInv HeapsTrackData
PROPERTIES EvictionExhaustive VictimIsColdest OnlyDueKeysExpire
