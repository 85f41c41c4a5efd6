--------------------------- MODULE MCVertexSearch ---------------------------
(* TLC instances of VertexSearch. *)
EXTENDS VertexSearch, TLC

CONSTANTS e1, e2, i1, f1, f2

\* two names, one id: "My Docs" and "my-docs"
OneId == e1 :> i1 @@ e2 :> i1

Sources == e1 :> {f1, f2} @@ e2 :> {f2}

\* Bound: of creations that fail unseen and deletions by clients, two.
Deletions == {e \in Engines : removal[<<e, "client">>] # "idle"}
TwoDisturbances == Cardinality(unseen) + Cardinality(Deletions) <= 2

AllFaults == FaultKinds
=============================================================================
