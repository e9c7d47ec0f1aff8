SPECIFICATION FairSpec
CONSTANTS
  Nodes = {"A", "B", "R"}
  Keys = {"a"}
  Master = "A"
  Replica = "R"
  Slots = 16384
  SlotOf <- MCSlotOf
  Setups <- MCSetups
  MaxSets = 2
  MaxMigrates = 2
  MaxRestarts = 1
INVARIANTS NewestKept ReplicaDiffers
PROPERTIES MigrationEnds
CHECK_DEADLOCK FALSE
