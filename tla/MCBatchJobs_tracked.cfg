\* No fault and no client: the launcher races its own pod.
SPECIFICATION FairSpec
CONSTANTS
  NoDoc = NoDoc
  Jobs = {m}
  MergeJobs = {m}
  Clients = {}
  InDefault = FALSE
  Deletes = FALSE
  Faults <- NoFaults
PROPERTIES
  TrackedJobEnds
CHECK_DEADLOCK FALSE
