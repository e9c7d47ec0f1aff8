SPECIFICATION FairSpec
CONSTANTS
  Clients = {c1}
  Inodes = {1, 2, 3}
  Setups <- MCSetups
  Bg = bg
  None = None
INVARIANTS AloneIsAtomic OverlapHeals
PROPERTY BgSaveEnds
