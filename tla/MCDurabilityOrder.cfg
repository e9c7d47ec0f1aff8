SPECIFICATION Spec
CONSTANTS
  Keys = {k1, k2}
  Clients = {c1, c2}
  Policies = {"always", "everysec", "no"}
  RDBConfigured = FALSE
  WriteErrors = FALSE
  PowerLosses = FALSE
  TornKinds = {}
  MaxSets = 3
INVARIANT RestoresState
