-------------------------- MODULE MCAccessControl --------------------------
(* TLC instances of AccessControl: g1 is predefined and holds users of u1's *)
(* type only, g2 is free; p1 and p2 belong to a1, p3 to a2; p1 and p3 have  *)
(* the action r.                                                            *)
EXTENDS AccessControl, TLC

CONSTANTS u1, u2, g1, g2, p1, p2, p3, a1, a2, r, w

Types == {<<u1, g1>>}
Apps == p1 :> a1 @@ p2 :> a1 @@ p3 :> a2
Acts == p1 :> r @@ p2 :> w @@ p3 :> r

World(new, live) ==
  [d \in Documents |-> IF d \in new THEN "new" ELSE IF d \in live THEN "live"
                                                  ELSE "gone"]

\* Users and groups; groups, permissions and applications; a bit of each.
Worlds ==
  { World({u1, g2}, {u2, g1}),
    World({p2, a2}, {g1, g2, p1, p3, a1}),
    World({p1}, {u1, u2, g2, a1}) }
=============================================================================
