\* Two engines whose names give one data store id, deletions, one query.
SPECIFICATION Spec
CONSTANTS
  None = None
  e1 = e1
  e2 = e2
  i1 = i1
  f1 = f1
  f2 = f2
  Engines = {e1, e2}
  Ids = {i1}
  Files = {f1, f2}
  Id <- OneId
  FilesOf <- Sources
  Queries = {q1}
  Faults <- AllFaults
CONSTRAINT TwoDisturbances
INVARIANTS
  TypeOK
  OwnStore
  FinishedIsComplete
  ReferencesResolve
CHECK_DEADLOCK FALSE
