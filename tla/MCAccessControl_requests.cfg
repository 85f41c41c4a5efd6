\* One request after another, one of them cut short anywhere.
SPECIFICATION Spec
CONSTANTS
  u1 = u1
  u2 = u2
  g1 = g1
  g2 = g2
  p1 = p1
  p2 = p2
  p3 = p3
  a1 = a1
  a2 = a2
  r = r
  w = w
  Users = {u1, u2}
  Groups = {g1, g2}
  Permissions = {p1, p2, p3}
  Applications = {a1, a2}
  Predefined = {g1}
  Immutable = {g1}
  OfType <- Types
  AppOf <- Apps
  Actions = {r, w}
  ActionOf <- Acts
  Start <- Worlds
  MaxTorn = 1
INVARIANTS
  TypeOK
  ListedAreMembers
  GrantsMutual
  GrantsWithinApplications
  ImmutableHoldsItsType
\* The documents of the pool may all be deleted in the end.
CHECK_DEADLOCK FALSE
