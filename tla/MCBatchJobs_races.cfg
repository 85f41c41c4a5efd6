\* A job of each kind, one PUT in flight, every fault, default namespace.
SPECIFICATION Spec
CONSTANTS
  NoDoc = NoDoc
  Jobs = {m, a}
  MergeJobs = {m}
  Clients = {c1}
  InDefault = TRUE
  Deletes = TRUE
  Faults <- AllFaults
INVARIANTS
  TypeOK
  SucceededWasHandled
  AbortedIsRemoved
PROPERTIES
  OnlyTheseReopen
  ResultsKept
CHECK_DEADLOCK FALSE
