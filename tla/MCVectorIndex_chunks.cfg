\* A document of two rounds in a Matching Engine store, without a fault.
SPECIFICATION Spec
CONSTANTS
  Sizes <- Long
  Process = 2
  Stores = {"matching"}
  Items = 2
  Faults <- NoFaults
INVARIANTS
  EachChunkIndexed
CHECK_DEADLOCK FALSE
