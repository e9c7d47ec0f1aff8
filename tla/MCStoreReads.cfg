SPECIFICATION HSpec
CONSTANTS
  Keys = {k1, k2}
  EmptyKey = EmptyKey
  Values = {v1, v2}
  KeyLen <- MCKeyLen
  ValueLen <- MCValueLen
  TTLs = {0, 1}
  Clients = {c1, c2}
  Policies = {"allkeys-random"}
  MaxMemories = {150}
  SampleSize = 20
  RDBConfigured = FALSE
  NoItem = NoItem
  MaxClock = 3
  MaxAccess = 3
  NotFound = NotFound
SYMMETRY Symmetry
PROPERTY GetLinearizable
