---------------------------- MODULE MCWebScrape ----------------------------
(* TLC instances of WebScrape. *)
EXTENDS WebScrape, TLC

CONSTANTS b1, p0, p1, p2, p3, p4, p5, q0, q1, q2, q3, q4

\* From p0 a site with cycles, from q0 a tree; p3 is a PDF, p4 an image.  The
\* request for p5 ends at p3 and that for q2 at q4, which are linked as well.
SiteLinks ==
  p0 :> {p1, p2, p3} @@ p1 :> {p2, p0} @@ p2 :> {p4, p5} @@
  p3 :> {} @@ p4 :> {} @@ p5 :> {} @@
  q0 :> {q1, q2} @@ q1 :> {q3} @@ q2 :> {} @@ q3 :> {q4} @@ q4 :> {}

SiteKind ==
  [p \in Pages |->
     CASE p \in {p3, p5} -> "pdf" [] p = p4 -> "other" [] OTHER -> "html"]

\* The URLs of p1 and p2 differ in a character that sanitizeFilename replaces.
SharedFile == [p \in Pages |-> IF p = p2 THEN p1 ELSE p]
Redirects == [p \in Pages |-> IF p = p5 THEN p3 ELSE IF p = q2 THEN q4 ELSE p]
OneBucket == [b \in Builds |-> "u"]

AllFaults == FaultKinds
NoFaults == {}
=============================================================================
