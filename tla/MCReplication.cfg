SPECIFICATION FairSpec
CONSTANTS
  Keys = {k1, k2}
  Clients = {c1, c2}
  Limited = {"master", "replica"}
  ChanSize = 1
  MaxSets = 2
  MaxConns = 2
INVARIANTS OnlyMissedDiffer
PROPERTIES NeverBackwards StreamDrains StaleUnregistered
CHECK_DEADLOCK FALSE
