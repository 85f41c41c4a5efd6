\* One build and its page or chat: one load that overlaps a poll, all faults, and clients
\* that stop jobs, delete or rename.
SPECIFICATION FairPageSpec
CONSTANTS
  NoDoc = NoDoc
  None = None
  plain = plain
  padded = padded
  Names <- Typed
  Strip <- Stripped
  Jobs = {b1}
  MergeJobs = {b1}
  Clients = {c1}
  InDefault = TRUE
  Deletes = TRUE
  Faults <- Failures
  Screens = {"page", "chat"}
  Loads = {l1}
  Calls <- OnePurpose
INVARIANTS
  OfferedIsBuilt
PROPERTIES
  SettledJobEnds
  PageConverges
CHECK_DEADLOCK FALSE
