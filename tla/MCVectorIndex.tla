--------------------------- MODULE MCVectorIndex ---------------------------
(* TLC instances of VectorIndex. *)
EXTENDS VectorIndex, TLC

AllFaults == FaultKinds
NoFaults == {}

\* Three batches, or two rounds of which the first has two; one of each; one.
Three == <<5, 3, 1>>
Long == <<3>>
=============================================================================
