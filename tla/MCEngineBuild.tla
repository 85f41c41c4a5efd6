--------------------------- MODULE MCEngineBuild ---------------------------
(* TLC instances of EngineBuild. *)
EXTENDS EngineBuild, TLC

CONSTANTS b1, b2, n1, n2, f0, f1, f2, f3, p0, p1, p2

AllFaults == FaultKinds

\* f0 has no text; f3 is downloaded over f1.
FileSize == f0 :> 0 @@ f1 :> 2 @@ f2 :> 1 @@ f3 :> 1
FilePath == f0 :> p0 @@ f1 :> p1 @@ f2 :> p2 @@ f3 :> p1

OneName == b1 :> n1 @@ b2 :> n1

Clash == b1 :> <<f1, f3, f2>> @@ b2 :> <<f3, f0, f1>>
=============================================================================
