\* A whole and a streamed answer and a summary, an answer and an agent's run, two
\* dispatches, a run and a plan: each with a PUT and a DELETE, all overlapping.
SPECIFICATION Spec
CONSTANTS
  r1 = r1
  r2 = r2
  r3 = r3
  r4 = r4
  r5 = r5
  r6 = r6
  r7 = r7
  Requests = {r1, r2, r3, r4, r5, r6, r7}
  Kind <- AllKinds
  Together <- Overlaps
  MaxPuts = 1
  MayDelete = TRUE
INVARIANTS
  TypeOK
  AnsweredInContext
  EntriesOnce
  ServedAreKept
\* Every request is served once.
CHECK_DEADLOCK FALSE
