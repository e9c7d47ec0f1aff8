SPECIFICATION FairSpec
CONSTANTS
  Conns = {1, 2}
  Addresses = {"home", "away"}
  Starts <- MCStarts
CHECK_DEADLOCK FALSE
INVARIANTS SlotsExact GateHolds SettingsHonoured
PROPERTIES SlotReturned
