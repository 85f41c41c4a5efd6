\* Three documents in both kinds of store, every fault.
SPECIFICATION Spec
CONSTANTS
  Sizes <- Three
  Process = 4
  Stores = {"pgvector", "matching"}
  Items = 2
  Faults <- AllFaults
INVARIANTS
  FoundResolve
PROPERTIES
  ImplementsIndex
CHECK_DEADLOCK FALSE
