\* Two engines are built and deleted while queries run on them.
SPECIFICATION QuerySpec
CONSTANTS
  b1 = b1
  b2 = b2
  n1 = n1
  n2 = n2
  f0 = f0
  f1 = f1
  f2 = f2
  f3 = f3
  p0 = p0
  p1 = p1
  p2 = p2
  Builders = {b1, b2}
  Clients = {c1}
  Names = {n1, n2}
  NameOf <- TwoNames
  Files = {f0, f1, f2, f3}
  Listing <- Short
  Size <- FileSize
  Paths = {p0, p1, p2}
  Path <- FilePath
  MayDelete = TRUE
  MayRename = FALSE
  Faults <- LostAnswers
  NoEngine = NoEngine
  NoFile = NoFile
  Requests = {r1, r2}
  NumMatches = 2
  MinReferences = 0
  MayEdit = TRUE
  NoQuery = NoQuery
INVARIANTS
  QueriesTypeOK
  ReferencesGrounded
  TurnsTogether
  FirstTurnKept
  ShownCoverUsed
  ResultsResolve
SYMMETRY Symmetry
CONSTRAINTS OneDisturbance OneBuild
CHECK_DEADLOCK FALSE
