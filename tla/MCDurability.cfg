SPECIFICATION Spec
CONSTANTS
  Keys = {k1, k2}
  Clients = {c1, c2}
  Policies = {"always", "everysec", "no"}
  RDBConfigured = TRUE
  WriteErrors = TRUE
  PowerLosses = TRUE
  TornKinds = {"payload", "middle", "start", "key", "value"}
  MaxSets = 3
SYMMETRY Symmetry
INVARIANTS RecoversLogged ReplayRestoresState
