\* Two builds of one name, a client deleting and renaming, every fault.
SPECIFICATION Spec
CONSTANTS
  b1 = b1
  b2 = b2
  n1 = n1
  n2 = n2
  f0 = f0
  f1 = f1
  f2 = f2
  f3 = f3
  p0 = p0
  p1 = p1
  p2 = p2
  Builders = {b1, b2}
  Clients = {c1}
  Names = {n1, n2}
  NameOf <- OneName
  Files = {f0, f1, f2, f3}
  Listing <- Clash
  Size <- FileSize
  Paths = {p0, p1, p2}
  Path <- FilePath
  MayDelete = TRUE
  MayRename = TRUE
  Faults <- AllFaults
  NoEngine = NoEngine
  NoFile = NoFile
INVARIANTS
  TypeOK
  ChunkPerIndex
  FailedLeavesNothing
  EveryFileReported
  SearchSound
CHECK_DEADLOCK FALSE
