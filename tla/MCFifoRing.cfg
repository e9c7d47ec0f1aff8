SPECIFICATION RingSpec
CONSTANTS
  Keys = {k1, k2, k3, e}
  EmptyKey = e
  InitCap = 2
INVARIANTS NothingOverwritten CapacityBounded
PROPERTY RingImplementsQueue
SYMMETRY Symmetry
