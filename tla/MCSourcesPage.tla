--------------------------- MODULE MCSourcesPage ---------------------------
(* TLC instances of SourcesPage. *)
EXTENDS SourcesPage, TLC

CONSTANTS plain, padded

\* A name and the same with a blank behind it.
Typed == {plain, padded}
Stripped == [n \in Typed |-> plain]

\* Clients that stop jobs, or delete their documents and engines, or rename engines.
OnePurpose == {{"put"}, {"delete", "remove"}, {"rename"}}

\* A lost reply leaves what a failure to save the document "active" leaves.
Failures == {"store", "launcher", "handler", "pod", "kube"}
=============================================================================
