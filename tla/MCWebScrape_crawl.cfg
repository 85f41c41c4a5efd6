\* A site with cycles or a tree, several content types, every fault, fair.
SPECIFICATION FairSpec
CONSTANTS
  b1 = b1
  p0 = p0
  p1 = p1
  p2 = p2
  p3 = p3
  p4 = p4
  p5 = p5
  q0 = q0
  q1 = q1
  q2 = q2
  q3 = q3
  q4 = q4
  Builds = {b1}
  Pages = {p0, p1, p2, p3, p4, p5, q0, q1, q2, q3, q4}
  Urls = {p0, q0}
  Links <- SiteLinks
  Kind <- SiteKind
  Final <- Redirects
  Files = {p0, p1, p2, p3, p4, p5, q0, q1, q2, q3, q4}
  File <- SharedFile
  Buckets = {"u"}
  Bucket <- OneBucket
  Depth = 1
  Limit = 2
  Pipe = 2
  Faults <- AllFaults
  NoPage = NoPage
INVARIANTS
  TypeOK
  CrawlSound
  SuccessIsFinal
  LoadedIsItsPage
  TreeCrawlComplete
PROPERTIES
  BuildEnds
CHECK_DEADLOCK FALSE
