------------------------------ MODULE BatchJobs ------------------------------
(***************************************************************************)
(* Long-running work (building a query engine, executing a query, running  *)
(* an agent) is done by Kubernetes jobs.  Three parties write the one      *)
(* Firestore document of a job, with no transaction between them:          *)
(*   - the launcher, an API handler inside kube_create_job;                *)
(*   - the pod, running run_batch_job.main and one batch_ handler;         *)
(*   - clients of the jobs service: PUT removes the Kubernetes job and     *)
(*     marks the document aborted, DELETE deletes the document.            *)
(* Each action is one call to Firestore or to the Kubernetes API, together *)
(* with the local computation up to the next one.                          *)
(***************************************************************************)
EXTENDS Naturals

CONSTANTS
  Jobs,         \* job uuids: each launch draws a fresh one
  MergeJobs,    \* jobs whose handler stores its result by save(merge=True);
                \* the others (the agent jobs) store it by a full save()
  Clients,      \* threads of the jobs service serving a PUT
  InDefault,    \* is JOB_NAMESPACE "default"?
  Deletes,      \* may clients call DELETE?
  Faults,       \* the failures this instance lets happen, see FaultKinds
  NoDoc         \* what a lookup of a missing document returns

FaultKinds == {"store",     \* a Firestore write of the launcher raises
               "kube",      \* the Kubernetes API refuses a call
               "reply",     \* the job is created and the answer is lost
               "launcher",  \* the API process dies inside kube_create_job
               "handler",   \* the batch handler raises
               "pod"}       \* the pod is evicted or killed

ASSUME JobsAssumption == /\ MergeJobs \subseteq Jobs
                         /\ InDefault \in BOOLEAN
                         /\ Deletes \in BOOLEAN
                         /\ Faults \subseteq FaultKinds

Status == {"pending", "active", "succeeded", "failed", "aborted"}

Doc == [status : Status, result : BOOLEAN, errors : BOOLEAN]

ASSUME NoDocAssumption == NoDoc \notin Doc

Outcomes == {"succeeded", "failed", "aborted"}

VARIABLES
  docs,      \* the batch_jobs collection
  kube,      \* the Kubernetes job of each uuid
  launch,    \* where kube_create_job stands
  pod,       \* where run_batch_job.main stands
  put,       \* each client's PUT request: its step, the job, the status read
  handled    \* history: the jobs whose handler ran to its end

\* A client without a request.
NoPut(j) == [step |-> "idle", job |-> j, seen |-> "pending"]

vars == <<docs, kube, launch, pod, put, handled>>

Finished(j) == docs[j] # NoDoc /\ docs[j].status \in Outcomes

Init ==
  /\ docs = [j \in Jobs |-> NoDoc]
  /\ kube = [j \in Jobs |-> "absent"]
  /\ launch = [j \in Jobs |-> "idle"]
  /\ pod = [j \in Jobs |-> "none"]
  /\ put \in [Clients -> {NoPut(j) : j \in Jobs}]
  /\ handled = {}

-----------------------------------------------------------------------------
(* The launcher: kube_create_job *)

Blank(status) == [status |-> status, result |-> FALSE, errors |-> FALSE]

\* The first save() of a fresh BatchJobModel.
SavePending(j) ==
  /\ launch[j] = "idle"
  /\ docs' = [docs EXCEPT ![j] = Blank("pending")]
  /\ launch' = [launch EXCEPT ![j] = "saved"]
  /\ UNCHANGED <<kube, pod, put, handled>>

\* save(merge=True) with the name and the input data: an upsert.  No pod
\* exists yet, so the document holds nothing but the launcher's own fields.
SaveInput(j) ==
  /\ launch[j] = "saved"
  /\ docs' = [docs EXCEPT ![j] = Blank("pending")]
  /\ launch' = [launch EXCEPT ![j] = "merged"]
  /\ UNCHANGED <<kube, pod, put, handled>>

\* create_namespaced_job
CreateKubeJob(j) ==
  /\ launch[j] = "merged"
  /\ kube' = [kube EXCEPT ![j] = "active"]
  /\ \/ launch' = [launch EXCEPT ![j] = "created"]
     \/ "reply" \in Faults /\ launch' = [launch EXCEPT ![j] = "raising"]
  /\ UNCHANGED <<docs, pod, put, handled>>

\* The last save() is a full overwrite with the launcher's own copy, whatever
\* the pod has written since the Kubernetes job exists.
SaveActive(j) ==
  /\ launch[j] = "created"
  /\ docs' = [docs EXCEPT ![j] = Blank("active")]
  /\ launch' = [launch EXCEPT ![j] = "returned"]
  /\ UNCHANGED <<kube, pod, put, handled>>

\* A call that raises leads to the except branch.
LaunchRaises(j) ==
  /\ \/ "store" \in Faults /\ launch[j] \in {"idle", "saved", "created"}
     \/ "kube" \in Faults /\ launch[j] = "merged"
  /\ launch' = [launch EXCEPT ![j] = "raising"]
  /\ UNCHANGED <<docs, kube, pod, put, handled>>

\* except: BatchJobModel.delete_by_id, then raise BatchJobError
CleanUp(j) ==
  /\ launch[j] = "raising"
  /\ docs' = [docs EXCEPT ![j] = NoDoc]
  /\ launch' = [launch EXCEPT ![j] = "raised"]
  /\ UNCHANGED <<kube, pod, put, handled>>

LauncherDies(j) ==
  /\ "launcher" \in Faults
  /\ launch[j] \in {"saved", "merged", "created", "raising"}
  /\ launch' = [launch EXCEPT ![j] = "dead"]
  /\ UNCHANGED <<docs, kube, pod, put, handled>>

Launch(j) == \/ SavePending(j)   \/ SaveInput(j) \/ CreateKubeJob(j)
             \/ SaveActive(j)    \/ CleanUp(j)

-----------------------------------------------------------------------------
(* The pod: run_batch_job.main.  A pod whose Kubernetes job is deleted keeps *)
(* running through its termination grace period, then dies.                  *)

Goto(j, pc) == pod' = [pod EXCEPT ![j] = pc]

\* backoff_limit=0 and restartPolicy Never: one pod, one run.
PodStarts(j) ==
  /\ kube[j] = "active" /\ pod[j] = "none"
  /\ Goto(j, "read")
  /\ UNCHANGED <<docs, kube, launch, put, handled>>

\* find_by_uuid, then status "active" by update(), which fails on a missing
\* document just as the attribute access on None does.
PodReads(j) ==
  /\ pod[j] = "read"
  /\ IF docs[j] = NoDoc
     THEN Goto(j, "except") /\ UNCHANGED docs
     ELSE /\ docs' = [docs EXCEPT ![j].status = "active"]
          /\ Goto(j, "handle")
  /\ UNCHANGED <<kube, launch, put, handled>>

HandlerEnds(j) ==
  /\ pod[j] = "handle"
  /\ handled' = handled \cup {j}
  /\ Goto(j, "store")
  /\ UNCHANGED <<docs, kube, launch, put>>

\* (mutant) The handler swallows its exception.
HandlerRaisesSilently(j) ==
  /\ "handler" \in Faults
  /\ pod[j] = "handle"
  /\ Goto(j, "succeed")
  /\ UNCHANGED <<docs, kube, launch, put, handled>>

HandlerRaises(j) ==
  /\ "handler" \in Faults
  /\ pod[j] = "handle"
  /\ Goto(j, "except")
  /\ UNCHANGED <<docs, kube, launch, put, handled>>

\* The handler's own write of the result.  Both forms write the pod's copy,
\* which says "active" (batch_build_query_engine, batch_query_generate) or has
\* just been set to "succeeded" (batch_run_agent, batch_run_dispatch); both
\* create the document if it is gone.
PodStores(j) ==
  /\ pod[j] = "store"
  /\ docs' = [docs EXCEPT ![j] =
        [status |-> IF j \in MergeJobs THEN "active" ELSE "succeeded",
         result |-> TRUE,
         errors |-> FALSE]]
  /\ Goto(j, "succeed")
  /\ UNCHANGED <<kube, launch, put, handled>>

PodSucceeds(j) ==
  /\ pod[j] = "succeed"
  /\ IF docs[j] = NoDoc
     THEN Goto(j, "except") /\ UNCHANGED <<docs, kube>>
     ELSE /\ docs' = [docs EXCEPT ![j].status = "succeeded"]
          /\ IF InDefault
             THEN Goto(j, "remove") /\ UNCHANGED kube
             ELSE /\ Goto(j, "exited")
                  /\ kube' = [kube EXCEPT ![j] = IF @ = "active"
                                                 THEN "complete" ELSE @]
  /\ UNCHANGED <<launch, put, handled>>

\* In the default namespace the pod deletes its own Kubernetes job.  The call
\* raises when the job is gone, and then the except branch is taken.
PodRemovesJob(j) ==
  /\ pod[j] = "remove"
  /\ \/ /\ kube[j] = "active"
        /\ kube' = [kube EXCEPT ![j] = "deleted"]
        /\ Goto(j, "exited")
     \/ /\ kube[j] # "active" \/ "kube" \in Faults
        /\ Goto(j, "except")
        /\ UNCHANGED kube
  /\ UNCHANGED <<docs, launch, put, handled>>

\* (mutant) The error is recorded by a full save() of a new model object.
PodReportsBySave(j) ==
  /\ pod[j] = "except"
  /\ docs' = [docs EXCEPT ![j] =
                [status |-> "failed", result |-> FALSE, errors |-> TRUE]]
  /\ Goto(j, "exited")
  /\ kube' = [kube EXCEPT ![j] = IF @ = "active" THEN "failed" ELSE @]
  /\ UNCHANGED <<launch, put, handled>>

\* (mutant) The error is recorded under a status JobStatus does not have.
PodReportsError(j) ==
  /\ pod[j] = "except"
  /\ IF docs[j] = NoDoc
     THEN UNCHANGED docs
     ELSE docs' = [docs EXCEPT ![j].status = "error", ![j].errors = TRUE]
  /\ Goto(j, "exited")
  /\ kube' = [kube EXCEPT ![j] = IF @ = "active" THEN "failed" ELSE @]
  /\ UNCHANGED <<launch, put, handled>>

\* (mutant) The error is only logged.
PodReportsNothing(j) ==
  /\ pod[j] = "except"
  /\ Goto(j, "exited")
  /\ kube' = [kube EXCEPT ![j] = IF @ = "active" THEN "failed" ELSE @]
  /\ UNCHANGED <<docs, launch, put, handled>>

\* except: look the document up again, record the error, re-raise.
PodReports(j) ==
  /\ pod[j] = "except"
  /\ IF docs[j] = NoDoc
     THEN UNCHANGED docs
     ELSE docs' = [docs EXCEPT ![j].status = "failed", ![j].errors = TRUE]
  /\ Goto(j, "exited")
  /\ kube' = [kube EXCEPT ![j] = IF @ = "active" THEN "failed" ELSE @]
  /\ UNCHANGED <<launch, put, handled>>

PodLive(j) == pod[j] \notin {"none", "exited", "killed"}

PodDies(j) ==
  /\ PodLive(j)
  /\ "pod" \in Faults \/ kube[j] = "deleted"
  /\ Goto(j, "killed")
  /\ kube' = [kube EXCEPT ![j] = IF @ = "active" THEN "failed" ELSE @]
  /\ UNCHANGED <<docs, launch, put, handled>>

\* ttl_seconds_after_finished
KubeJobExpires(j) ==
  /\ kube[j] \in {"complete", "failed"}
  /\ kube' = [kube EXCEPT ![j] = "deleted"]
  /\ UNCHANGED <<docs, launch, pod, put, handled>>

Run(j) == \/ PodStarts(j) \/ PodReads(j) \/ HandlerEnds(j) \/ PodStores(j)
          \/ PodSucceeds(j) \/ PodRemovesJob(j) \/ PodReports(j)

-----------------------------------------------------------------------------
(* The jobs service *)

\* PUT, remove_job_and_update_status: read the document ...
PutFinds(c, j) ==
  /\ put[c].step = "idle"
  /\ docs[j] # NoDoc
  /\ put' = [put EXCEPT ![c] =
               [step |-> "found", job |-> j, seen |-> docs[j].status]]
  /\ UNCHANGED <<docs, kube, launch, pod, handled>>

\* (mutant) A failure to delete the Kubernetes job is logged and ignored.
PutRemovesJobLogged(c) ==
  LET j == put[c].job IN
  /\ put[c].step = "found"
  /\ \/ /\ kube[j] \in {"active", "complete", "failed"}
        /\ kube' = [kube EXCEPT ![j] = "deleted"]
     \/ /\ kube[j] \in {"absent", "deleted"} \/ "kube" \in Faults
        /\ UNCHANGED kube
  /\ put' = [put EXCEPT ![c].step = "removed"]
  /\ UNCHANGED <<docs, launch, pod, handled>>

\* ... delete the Kubernetes job, which raises if there is none ...
PutRemovesJob(c) ==
  LET j == put[c].job IN
  /\ put[c].step = "found"
  /\ \/ /\ kube[j] \in {"active", "complete", "failed"}
        /\ kube' = [kube EXCEPT ![j] = "deleted"]
        /\ put' = [put EXCEPT ![c].step = "removed"]
     \/ /\ kube[j] \in {"absent", "deleted"} \/ "kube" \in Faults
        /\ put' = [put EXCEPT ![c] = NoPut(j)]
        /\ UNCHANGED kube
  /\ UNCHANGED <<docs, launch, pod, handled>>

\* ... and act on the status read before that.  The update of a document that
\* is gone raises.
PutUpdates(c) ==
  LET j == put[c].job IN
  /\ put[c].step = "removed"
  /\ docs' = IF put[c].seen = "active" /\ docs[j] # NoDoc
             THEN [docs EXCEPT ![j].status = "aborted"] ELSE docs
  /\ put' = [put EXCEPT ![c] = NoPut(j)]
  /\ UNCHANGED <<kube, launch, pod, handled>>

\* DELETE, delete_batch_job: the document only, never the Kubernetes job.
DeleteModel(j) ==
  /\ Deletes
  /\ docs[j] # NoDoc
  /\ docs' = [docs EXCEPT ![j] = NoDoc]
  /\ UNCHANGED <<kube, launch, pod, put, handled>>

-----------------------------------------------------------------------------

Next ==
  \/ \E j \in Jobs :
       \/ Launch(j) \/ LaunchRaises(j) \/ LauncherDies(j)
       \/ Run(j) \/ HandlerRaises(j) \/ PodDies(j) \/ KubeJobExpires(j)
       \/ DeleteModel(j)
  \/ \E c \in Clients :
       \/ \E j \in Jobs : PutFinds(c, j)
       \/ PutRemovesJob(c) \/ PutUpdates(c)

Spec == Init /\ [][Next]_vars

\* A launch that has begun runs on, Kubernetes schedules the pods of active
\* jobs, and a pod that runs goes on.  Clients need not call, faults need not
\* happen.
Fairness ==
  /\ \A j \in Jobs : WF_vars(launch[j] # "idle" /\ Launch(j))
  /\ \A j \in Jobs : WF_vars(Run(j))
  /\ \A c \in Clients : WF_vars(PutRemovesJob(c) \/ PutUpdates(c))

FairSpec == Spec /\ Fairness

-----------------------------------------------------------------------------
(* Properties *)

TypeOK ==
  /\ docs \in [Jobs -> Doc \cup {NoDoc}]
  /\ kube \in [Jobs -> {"absent", "active", "complete", "failed", "deleted"}]
  /\ launch \in [Jobs -> {"idle", "saved", "merged", "created", "returned",
                          "raising", "raised", "dead"}]
  /\ pod \in [Jobs -> {"none", "read", "handle", "store", "succeed", "remove",
                       "except", "exited", "killed"}]
  /\ put \in [Clients -> [step : {"idle", "found", "removed"},
                          job : Jobs, seen : Status]]
  /\ handled \subseteq Jobs

\* A document that says "succeeded" is never wrong about the work: its handler
\* ran to the end, whoever overwrote or re-created the document since.
SucceededWasHandled ==
  \A j \in Jobs :
    docs[j] # NoDoc /\ docs[j].status = "succeeded" => j \in handled

\* A document that says "aborted" is never wrong about the cluster: the
\* Kubernetes job is gone, so no further pod will be started for it.
AbortedIsRemoved ==
  \A j \in Jobs :
    docs[j] # NoDoc /\ docs[j].status = "aborted" => kube[j] = "deleted"

\* Who can take an outcome back.  Only two writes turn a finished document
\* into an unfinished one: the launcher's last save(), and a write of the
\* terminating pod over "aborted".  Without a PUT and once kube_create_job has
\* returned, an outcome is therefore final or gone.
OnlyTheseReopen ==
  [][\A j \in Jobs :
       /\ Finished(j)
       /\ docs'[j] # NoDoc /\ docs'[j].status \notin Outcomes
       => \/ launch[j] = "created"
          \/ docs[j].status = "aborted" /\ kube[j] = "deleted"
               /\ pod[j] \in {"read", "store"}]_vars

\* Stored results are lost only with the document, or to the launcher's save.
ResultsKept ==
  [][\A j \in Jobs :
       /\ docs[j] # NoDoc /\ docs[j].result
       /\ docs'[j] # NoDoc /\ ~docs'[j].result
       => launch[j] = "created"]_vars

\* When the launcher is done before the pod starts, the document reaches an
\* outcome or is deleted, unless the pod is killed or a PUT removes the
\* Kubernetes job before there is a pod.
Settled(j) == /\ launch[j] = "returned" /\ kube[j] = "active"
              /\ pod[j] = "none" /\ docs[j] # NoDoc

SettledJobEnds ==
  \A j \in Jobs :
    Settled(j) ~> \/ Finished(j) \/ docs[j] = NoDoc \/ pod[j] = "killed"
                  \/ pod[j] = "none" /\ kube[j] = "deleted"

-----------------------------------------------------------------------------
(* What the repository says and the code does not do *)

\* "Please use the job_name to track the job status" (batch_jobs.py): a job
\* whose launch returned, and that nobody removes, is reported finished.
TrackedJobEnds ==
  \A j \in Jobs : launch[j] = "returned" ~> (Finished(j) \/ docs[j] = NoDoc)
=============================================================================
