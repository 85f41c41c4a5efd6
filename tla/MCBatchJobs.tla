---------------------------- MODULE MCBatchJobs ----------------------------
(* TLC instances of BatchJobs. *)
EXTENDS BatchJobs

AllFaults == FaultKinds
NoFaults == {}
=============================================================================
