--------------------------- MODULE MCUserQueries ---------------------------
(* TLC instances of UserQueries over EngineBuild. *)
EXTENDS UserQueries, TLC

CONSTANTS b1, b2, n1, n2, f0, f1, f2, f3, p0, p1, p2

LostAnswers == {"lost"}
\* f0 has no text; f3 is downloaded over f1.
FileSize == f0 :> 0 @@ f1 :> 2 @@ f2 :> 1 @@ f3 :> 1
FilePath == f0 :> p0 @@ f1 :> p1 @@ f2 :> p2 @@ f3 :> p1

TwoNames == b1 :> n1 @@ b2 :> n2
Short == b1 :> <<f2, f3>> @@ b2 :> <<f3>>
Symmetry == Permutations(Requests)

Built == {"created", "indexing", "indexed", "described", "done"}
Deleted ==
  {e \in Builders : \/ \E c \in Clients : client[c].engine = e
                    \/ pc[e] \in Built /\ ~Live(e)}

\* Not two of them in one behaviour: an engine is deleted, a query is edited, a
\* file is not processed.
OneDisturbance ==
  LET edited == edit.step # "idle"
      skipped == \E b \in Builders : failed[b] # {}
  IN /\ Cardinality(Deleted) <= 1
     /\ ~(Deleted # {} /\ edited) /\ ~(Deleted # {} /\ skipped) /\ ~(edited /\ skipped)

\* The build of one file comes before that of two; MCEngineBuild runs them side by
\* side.
OneBuild == failed[b2] = {} /\ (pc[b1] = "start" \/ pc[b2] = "done")
=============================================================================
