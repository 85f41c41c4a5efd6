-------------------------- MODULE SourcesPageProofs --------------------------
(***************************************************************************)
(* The safety properties of BatchJobs, for any jobs, clients and faults,   *)
(* and then the views of SourcesPage, for any number of builds and         *)
(* overlapping loads.                                                      *)
(*                                                                         *)
(* The properties of jobs speak of documents only, and each of them is     *)
(* broken by some step from a state where it holds: what excludes those    *)
(* states is where the launcher and the pod stand.  LaunchInv, PodInv and  *)
(* PutInv say that, and together with the type invariant they are          *)
(* inductive.  What a pod that exits leaves behind then follows from what  *)
(* its launcher had still to write.  The builds of the page are shown to   *)
(* be jobs as BatchJobs describes them, so that all this holds of them     *)
(* too, the source selector to offer no engine in the making, and a row    *)
(* of the page that is right to stay so.                                   *)
(***************************************************************************)
EXTENDS SourcesPage, TLAPS

-----------------------------------------------------------------------------
(* Jobs *)

\* The Kubernetes job exists exactly from the launcher's third call on, and
\* until then the document says at most "pending".
LaunchInv ==
  \A j \in Jobs :
    /\ kube[j] = "absent" => pod[j] = "none"
    /\ launch[j] \in {"idle", "saved", "merged"} =>
         /\ kube[j] = "absent"
         /\ docs[j] # NoDoc => docs[j].status = "pending"
    /\ launch[j] \in {"created", "returned"} => kube[j] # "absent"

\* Before the pod has stored its result the document has none, and no outcome
\* but "aborted".
PodInv ==
  \A j \in Jobs :
    /\ pod[j] \in {"store", "succeed", "remove"} => j \in handled
    /\ pod[j] \in {"none", "read", "handle", "store"} /\ docs[j] # NoDoc =>
         /\ docs[j].status \in {"pending", "active", "aborted"}
         /\ ~docs[j].result

\* A PUT past its second call has seen the Kubernetes job go.
PutInv ==
  \A c \in Clients : put[c].step = "removed" => kube[put[c].job] = "deleted"

IInv == /\ TypeOK /\ LaunchInv /\ PodInv /\ PutInv
        /\ SucceededWasHandled /\ AbortedIsRemoved

-----------------------------------------------------------------------------

\* Every initial state satisfies the inductive invariant.
LEMMA InitIInv == Init => IInv
  BY NoDocAssumption
  DEF Init, NoPut, IInv, TypeOK, LaunchInv, PodInv, PutInv, SucceededWasHandled,
      AbortedIsRemoved, Doc, Status

\* Every step of the launcher preserves it.
LEMMA LaunchIInv ==
  ASSUME IInv, NEW j \in Jobs, Launch(j) \/ LaunchRaises(j) \/ LauncherDies(j)
  PROVE  IInv'
<1> USE NoDocAssumption
    DEF IInv, TypeOK, LaunchInv, PodInv, PutInv, SucceededWasHandled,
        AbortedIsRemoved, Doc, Status, Blank
<1>1. CASE SavePending(j)   BY <1>1 DEF SavePending
<1>2. CASE SaveInput(j)     BY <1>2 DEF SaveInput
<1>3. CASE CreateKubeJob(j) BY <1>3 DEF CreateKubeJob
<1>4. CASE SaveActive(j)    BY <1>4 DEF SaveActive
<1>5. CASE CleanUp(j)       BY <1>5 DEF CleanUp
<1>6. CASE LaunchRaises(j)  BY <1>6 DEF LaunchRaises
<1>7. CASE LauncherDies(j)  BY <1>7 DEF LauncherDies
<1> QED BY <1>1, <1>2, <1>3, <1>4, <1>5, <1>6, <1>7 DEF Launch

\* Every step of a pod, and the expiry of its Kubernetes job, preserves it.
LEMMA PodIInv ==
  ASSUME IInv, NEW j \in Jobs,
         Run(j) \/ HandlerRaises(j) \/ PodDies(j) \/ KubeJobExpires(j)
  PROVE  IInv'
<1> USE NoDocAssumption
    DEF IInv, TypeOK, LaunchInv, PodInv, PutInv, SucceededWasHandled,
        AbortedIsRemoved, Doc, Status, Goto
<1>1. CASE PodStarts(j)      BY <1>1 DEF PodStarts
<1>2. CASE PodReads(j)       BY <1>2 DEF PodReads
<1>3. CASE HandlerEnds(j)    BY <1>3 DEF HandlerEnds
<1>4. CASE HandlerRaises(j)  BY <1>4 DEF HandlerRaises
<1>5. CASE PodStores(j)      BY <1>5 DEF PodStores
<1>6. CASE PodSucceeds(j)    BY <1>6 DEF PodSucceeds
<1>7. CASE PodRemovesJob(j)  BY <1>7 DEF PodRemovesJob
<1>8. CASE PodReports(j)     BY <1>8 DEF PodReports
<1>9. CASE PodDies(j)        BY <1>9 DEF PodDies, PodLive
<1>10. CASE KubeJobExpires(j) BY <1>10 DEF KubeJobExpires
<1> QED BY <1>1, <1>2, <1>3, <1>4, <1>5, <1>6, <1>7, <1>8, <1>9, <1>10 DEF Run

\* Every step of a client preserves it.
LEMMA ClientIInv ==
  ASSUME IInv,
         \/ \E j \in Jobs : DeleteModel(j)
         \/ \E c \in Clients : \/ \E j \in Jobs : PutFinds(c, j)
                               \/ PutRemovesJob(c) \/ PutUpdates(c)
  PROVE  IInv'
<1> USE NoDocAssumption
    DEF IInv, TypeOK, LaunchInv, PodInv, PutInv, SucceededWasHandled,
        AbortedIsRemoved, Doc, Status
<1>1. ASSUME NEW j \in Jobs, DeleteModel(j) PROVE IInv'
  BY <1>1 DEF DeleteModel
<1>2. ASSUME NEW c \in Clients, NEW j \in Jobs, PutFinds(c, j) PROVE IInv'
  BY <1>2 DEF PutFinds
<1>3. ASSUME NEW c \in Clients, PutRemovesJob(c) PROVE IInv'
  <2> DEFINE j == put[c].job
  <2>1. j \in Jobs /\ put[c].step = "found"
    BY <1>3 DEF PutRemovesJob
  <2>2. UNCHANGED <<docs, launch, pod, handled>>
    BY <1>3 DEF PutRemovesJob
  <2>3. \/ /\ kube[j] # "absent"
           /\ kube' = [kube EXCEPT ![j] = "deleted"]
           /\ put' = [put EXCEPT ![c].step = "removed"]
        \/ /\ kube' = kube
           /\ put' = [put EXCEPT ![c] = NoPut(j)]
    BY <1>3, Zenon DEF PutRemovesJob
  <2> HIDE DEF j
  <2>4. TypeOK'
    <3>1. put' \in [Clients ->
            [step : {"idle", "found", "removed"}, job : Jobs, seen : Status]]
      BY <2>1, <2>3 DEF NoPut
    <3>2. kube' \in [Jobs ->
            {"absent", "active", "complete", "failed", "deleted"}]
      BY <2>1, <2>3
    <3> QED BY <2>2, <3>1, <3>2
  <2>5. (LaunchInv /\ PodInv /\ SucceededWasHandled /\ AbortedIsRemoved)'
    BY <2>1, <2>2, <2>3
  <2>6. PutInv'
    <3> SUFFICES ASSUME NEW d \in Clients, put'[d].step = "removed"
                 PROVE  kube'[put'[d].job] = "deleted"
      BY DEF PutInv
    <3>1. put'[d].job = put[d].job /\ put[d].job \in Jobs
      BY <2>1, <2>3 DEF NoPut, j
    <3>2. CASE d = c
      BY <2>1, <2>3, <3>1, <3>2 DEF NoPut, j
    <3>3. CASE d # c
      BY <2>1, <2>3, <3>1, <3>3
    <3> QED BY <3>2, <3>3
  <2> QED BY <2>4, <2>5, <2>6
<1>4. ASSUME NEW c \in Clients, PutUpdates(c) PROVE IInv'
  <2> DEFINE j == put[c].job
  <2>1. j \in Jobs /\ kube[j] = "deleted"
    BY <1>4 DEF PutUpdates
  <2>2. UNCHANGED <<kube, launch, pod, handled>>
    BY <1>4 DEF PutUpdates
  <2>3. put' = [put EXCEPT ![c] = NoPut(j)]
    BY <1>4 DEF PutUpdates
  <2>4. \/ docs' = docs
        \/ docs[j] # NoDoc /\ docs' = [docs EXCEPT ![j].status = "aborted"]
    BY <1>4 DEF PutUpdates
  <2> HIDE DEF j
  <2>5. TypeOK'
    BY <2>1, <2>2, <2>3, <2>4 DEF NoPut
  <2>6. (LaunchInv /\ PodInv /\ SucceededWasHandled /\ AbortedIsRemoved)'
    <3>1. CASE docs' = docs
      BY <2>2, <3>1
    <3>2. CASE docs[j] # NoDoc /\ docs' = [docs EXCEPT ![j].status = "aborted"]
      <4>1. /\ docs'[j].status = "aborted" /\ docs'[j].result = docs[j].result
            /\ \A k \in Jobs \ {j} : docs'[k] = docs[k]
        BY <2>1, <3>2
      <4>2. launch[j] \notin {"idle", "saved", "merged"}
        BY <2>1
      <4>3. (LaunchInv /\ PodInv)'
        BY <2>1, <2>2, <3>2, <4>1, <4>2
      <4>4. (SucceededWasHandled /\ AbortedIsRemoved)'
        BY <2>1, <2>2, <3>2, <4>1
      <4> QED BY <4>3, <4>4
    <3> QED BY <2>4, <3>1, <3>2
  <2>7. PutInv'
    <3> SUFFICES ASSUME NEW d \in Clients, put'[d].step = "removed"
                 PROVE  kube'[put'[d].job] = "deleted"
      BY DEF PutInv
    <3>1. put'[c].step = "idle"
      BY <2>3 DEF NoPut
    <3>2. d # c => put'[d] = put[d]
      BY <2>3
    <3> QED BY <2>2, <3>1, <3>2
  <2> QED BY <2>5, <2>6, <2>7
<1> QED BY <1>1, <1>2, <1>3, <1>4

\* IInv is inductive.
LEMMA NextIInv == IInv /\ [Next]_vars => IInv'
<1> SUFFICES ASSUME IInv, [Next]_vars PROVE IInv'
  OBVIOUS
<1>1. CASE UNCHANGED vars
  BY <1>1 DEF vars, IInv, TypeOK, LaunchInv, PodInv, PutInv,
              SucceededWasHandled, AbortedIsRemoved
<1>2. CASE Next
  BY <1>2, LaunchIInv, PodIInv, ClientIInv DEF Next
<1> QED BY <1>1, <1>2

\* The inductive invariant holds in every reachable state.
THEOREM Invariance == Spec => []IInv
  BY InitIInv, NextIInv, PTL DEF Spec

\* The variables of kube_create_job, the pods and the PUT requests keep their
\* types.
THEOREM TypeCorrect == Spec => []TypeOK
  BY Invariance, PTL DEF IInv

\* A document says "succeeded" only of a job whose handler ran to its end.
THEOREM SucceededSound == Spec => []SucceededWasHandled
  BY Invariance, PTL DEF IInv

\* A document says "aborted" only when the Kubernetes job is gone.
THEOREM AbortedSound == Spec => []AbortedIsRemoved
  BY Invariance, PTL DEF IInv

-----------------------------------------------------------------------------

\* The step condition of OnlyTheseReopen, for one job.
ReopenStep(j) ==
  Finished(j) /\ docs'[j] # NoDoc /\ docs'[j].status \notin Outcomes
    => \/ launch[j] = "created"
       \/ docs[j].status = "aborted" /\ kube[j] = "deleted"
            /\ pod[j] \in {"read", "store"}

\* No step outside the two named ones reopens a finished document.
LEMMA NextReopen ==
  ASSUME IInv, [Next]_vars, NEW j \in Jobs PROVE ReopenStep(j)
<1> USE NoDocAssumption
    DEF IInv, TypeOK, LaunchInv, PodInv, AbortedIsRemoved, ReopenStep,
        Finished, Outcomes, Doc, Status
<1>1. CASE UNCHANGED docs
  BY <1>1
<1>2. ASSUME NEW i \in Jobs, Launch(i) PROVE ReopenStep(j)
  BY <1>2 DEF Launch, SavePending, SaveInput, CreateKubeJob, SaveActive,
              CleanUp, Blank
<1>3. ASSUME NEW i \in Jobs, Run(i) PROVE ReopenStep(j)
  BY <1>3 DEF Run, PodStarts, PodReads, HandlerEnds, PodStores, PodSucceeds,
              PodRemovesJob, PodReports, Goto
<1>4. ASSUME NEW i \in Jobs, DeleteModel(i) PROVE ReopenStep(j)
  BY <1>4 DEF DeleteModel
<1>5. ASSUME NEW c \in Clients, PutUpdates(c) PROVE ReopenStep(j)
  BY <1>5 DEF PutUpdates
<1>6. ASSUME NEW i \in Jobs,
             \/ LaunchRaises(i) \/ LauncherDies(i) \/ HandlerRaises(i)
             \/ PodDies(i) \/ KubeJobExpires(i)
      PROVE UNCHANGED docs
  BY <1>6 DEF LaunchRaises, LauncherDies, HandlerRaises, PodDies,
              KubeJobExpires
<1>7. ASSUME NEW c \in Clients,
             PutRemovesJob(c) \/ \E i \in Jobs : PutFinds(c, i)
      PROVE UNCHANGED docs
  BY <1>7 DEF PutRemovesJob, PutFinds
<1> QED BY <1>1, <1>2, <1>3, <1>4, <1>5, <1>6, <1>7 DEF Next, vars

\* Once kube_create_job has returned, an outcome is taken back only by a
\* terminating pod over "aborted".
THEOREM ReopenSound == Spec => OnlyTheseReopen
<1>1. IInv /\ [Next]_vars
        => [\A j \in Jobs :
              /\ Finished(j)
              /\ docs'[j] # NoDoc /\ docs'[j].status \notin Outcomes
              => \/ launch[j] = "created"
                 \/ docs[j].status = "aborted" /\ kube[j] = "deleted"
                      /\ pod[j] \in {"read", "store"}]_vars
  BY NextReopen DEF ReopenStep
<1> QED BY <1>1, Invariance, PTL DEF Spec, OnlyTheseReopen

\* What a step may do to a stored result.
KeepStep(j) ==
  /\ docs[j] # NoDoc /\ docs[j].result
  /\ docs'[j] # NoDoc /\ ~docs'[j].result
  => launch[j] = "created"

LEMMA NextKeep ==
  ASSUME IInv, [Next]_vars, NEW j \in Jobs PROVE KeepStep(j)
<1> USE NoDocAssumption
    DEF IInv, TypeOK, LaunchInv, PodInv, KeepStep, Doc, Status
<1>1. CASE UNCHANGED docs
  BY <1>1
<1>2. ASSUME NEW i \in Jobs, Launch(i) PROVE KeepStep(j)
  BY <1>2 DEF Launch, SavePending, SaveInput, CreateKubeJob, SaveActive,
              CleanUp, Blank
<1>3. ASSUME NEW i \in Jobs, Run(i) PROVE KeepStep(j)
  BY <1>3 DEF Run, PodStarts, PodReads, HandlerEnds, PodStores, PodSucceeds,
              PodRemovesJob, PodReports, Goto
<1>4. ASSUME NEW i \in Jobs, DeleteModel(i) PROVE KeepStep(j)
  BY <1>4 DEF DeleteModel
<1>5. ASSUME NEW c \in Clients, PutUpdates(c) PROVE KeepStep(j)
  BY <1>5 DEF PutUpdates
<1>6. ASSUME NEW i \in Jobs,
             \/ LaunchRaises(i) \/ LauncherDies(i) \/ HandlerRaises(i)
             \/ PodDies(i) \/ KubeJobExpires(i)
      PROVE UNCHANGED docs
  BY <1>6 DEF LaunchRaises, LauncherDies, HandlerRaises, PodDies,
              KubeJobExpires
<1>7. ASSUME NEW c \in Clients,
             PutRemovesJob(c) \/ \E i \in Jobs : PutFinds(c, i)
      PROVE UNCHANGED docs
  BY <1>7 DEF PutRemovesJob, PutFinds
<1> QED BY <1>1, <1>2, <1>3, <1>4, <1>5, <1>6, <1>7 DEF Next, vars

\* A stored result is lost only with the document, or to the launcher's last
\* save, which overwrites what a fast pod has stored.
THEOREM ResultsSound == Spec => ResultsKept
<1>1. IInv /\ [Next]_vars
        => [\A j \in Jobs :
              /\ docs[j] # NoDoc /\ docs[j].result
              /\ docs'[j] # NoDoc /\ ~docs'[j].result
              => launch[j] = "created"]_vars
  BY NextKeep DEF KeepStep
<1> QED BY <1>1, Invariance, PTL DEF Spec, ResultsKept

-----------------------------------------------------------------------------
(* What a job leaves behind *)

\* What a job is left with whose pod has ended by itself: no document, an outcome,
\* or the launcher's copy, without result and error, which says "active".
Ended(j) ==
  \/ docs[j] = NoDoc
  \/ Finished(j)
  \/ launch[j] = "returned" /\ docs[j] = Blank("active")

\* Whoever finds a document that is not finished although its pod has exited
\* knows what happened: nothing but the launcher's last save can cause it.
StuckIsBlank == \A j \in Jobs : pod[j] = "exited" => Ended(j)

StuckInv == \A j \in Jobs : pod[j] \in {"remove", "exited"} => Ended(j)

\* A step of a pod leaves an outcome behind when it is the last.
LEMMA NextStuck ==
  ASSUME IInv, StuckInv, [Next]_vars PROVE StuckInv'
<1> SUFFICES ASSUME NEW j \in Jobs, pod'[j] \in {"remove", "exited"} PROVE Ended(j)'
  BY DEF StuckInv
<1>0. pod[j] \in {"remove", "exited"} => Ended(j)
  BY DEF StuckInv
<1> USE NoDocAssumption
    DEF IInv, TypeOK, LaunchInv, Ended, Finished, Outcomes, Doc, Status
<1>1. CASE UNCHANGED <<docs, launch, pod>>
  BY <1>0, <1>1
<1>2. ASSUME NEW i \in Jobs, Launch(i) \/ LaunchRaises(i) \/ LauncherDies(i)
      PROVE Ended(j)'
  <2>1. CASE SavePending(i) \/ SaveInput(i) \/ SaveActive(i) \/ CleanUp(i)
    BY <1>0, <2>1 DEF SavePending, SaveInput, SaveActive, CleanUp, Blank
  <2>2. CASE CreateKubeJob(i) \/ LaunchRaises(i) \/ LauncherDies(i)
    BY <1>0, <2>2 DEF CreateKubeJob, LaunchRaises, LauncherDies
  <2> QED BY <1>2, <2>1, <2>2 DEF Launch
<1>3. ASSUME NEW i \in Jobs, Run(i) PROVE Ended(j)'
  <2>1. CASE PodStarts(i) \/ PodReads(i) \/ HandlerEnds(i)
    BY <1>0, <2>1 DEF PodStarts, PodReads, HandlerEnds, Goto
  <2>2. CASE PodStores(i)
    BY <1>0, <2>2 DEF PodStores, Goto
  <2>3. CASE PodSucceeds(i)
    BY <1>0, <2>3 DEF PodSucceeds, Goto
  <2>4. CASE PodRemovesJob(i)
    BY <1>0, <2>4 DEF PodRemovesJob, Goto
  <2>5. CASE PodReports(i)
    BY <1>0, <2>5 DEF PodReports, Goto
  <2> QED BY <1>3, <2>1, <2>2, <2>3, <2>4, <2>5 DEF Run
<1>4. ASSUME NEW i \in Jobs, HandlerRaises(i) \/ PodDies(i) PROVE Ended(j)'
  BY <1>0, <1>4 DEF HandlerRaises, PodDies, Goto
<1>5. ASSUME NEW i \in Jobs, DeleteModel(i) PROVE Ended(j)'
  BY <1>0, <1>5 DEF DeleteModel
<1>6. ASSUME NEW c \in Clients, PutUpdates(c) PROVE Ended(j)'
  BY <1>0, <1>6 DEF PutUpdates
<1>7. ASSUME NEW c \in Clients, PutRemovesJob(c) \/ \E i \in Jobs : PutFinds(c, i)
      PROVE UNCHANGED <<docs, launch, pod>>
  BY <1>7 DEF PutRemovesJob, PutFinds
<1>8. ASSUME NEW i \in Jobs, KubeJobExpires(i) PROVE UNCHANGED <<docs, launch, pod>>
  BY <1>8 DEF KubeJobExpires
<1> QED BY <1>1, <1>2, <1>3, <1>4, <1>5, <1>6, <1>7, <1>8 DEF Next, vars

\* A pod that exits has reported its job, whatever happened to the document meanwhile.
THEOREM StuckSound == Spec => []StuckIsBlank
<1>1. Init => StuckInv
  BY DEF Init, StuckInv
<1>2. StuckInv => StuckIsBlank
  BY DEF StuckInv, StuckIsBlank
<1>3. IInv /\ StuckInv /\ [Next]_vars => StuckInv'
  BY NextStuck
<1> QED BY <1>1, <1>2, <1>3, Invariance, PTL DEF Spec

\* A job that has ended is reported finished, and a success with its result,
\* unless its document is gone.
Reported(j) ==
  docs[j] # NoDoc => Finished(j) /\ (docs[j].status = "succeeded" => docs[j].result)

\* What the steps of a job rely on whose launch has returned before its pod
\* started: nobody but the pod writes a result or an outcome, but for "aborted".
Tracked(j) ==
  /\ launch[j] = "returned"
  /\ pod[j] \in {"remove", "exited"} => Reported(j)
  /\ docs[j] # NoDoc /\ (pod[j] = "succeed" \/ docs[j].status = "succeeded") =>
       docs[j].result

\* A settled job stays tracked.
LEMMA NextTracked ==
  ASSUME IInv, [Next]_vars, NEW j \in Jobs, Tracked(j) PROVE Tracked(j)'
<1> USE NoDocAssumption
    DEF IInv, TypeOK, LaunchInv, PodInv, Tracked, Reported, Finished, Outcomes, Doc, Status
<1>1. CASE UNCHANGED <<docs, launch, pod>>
  BY <1>1
<1>2. ASSUME NEW i \in Jobs, Launch(i) \/ LaunchRaises(i) \/ LauncherDies(i)
      PROVE Tracked(j)'
  BY <1>2 DEF Launch, SavePending, SaveInput, CreateKubeJob, SaveActive, CleanUp,
              LaunchRaises, LauncherDies
<1>3. ASSUME NEW i \in Jobs, Run(i) PROVE Tracked(j)'
  <2>1. CASE PodStarts(i) \/ PodReads(i) \/ HandlerEnds(i)
    BY <2>1 DEF PodStarts, PodReads, HandlerEnds, Goto
  <2>2. CASE PodStores(i)
    BY <2>2 DEF PodStores, Goto
  <2>3. CASE PodSucceeds(i)
    BY <2>3 DEF PodSucceeds, Goto
  <2>4. CASE PodRemovesJob(i) \/ PodReports(i)
    BY <2>4 DEF PodRemovesJob, PodReports, Goto
  <2> QED BY <1>3, <2>1, <2>2, <2>3, <2>4 DEF Run
<1>4. ASSUME NEW i \in Jobs, HandlerRaises(i) \/ PodDies(i) PROVE Tracked(j)'
  BY <1>4 DEF HandlerRaises, PodDies, Goto
<1>5. ASSUME NEW i \in Jobs, DeleteModel(i) PROVE Tracked(j)'
  BY <1>5 DEF DeleteModel
<1>6. ASSUME NEW c \in Clients, PutUpdates(c) PROVE Tracked(j)'
  BY <1>6 DEF PutUpdates
<1>7. ASSUME NEW c \in Clients, PutRemovesJob(c) \/ \E i \in Jobs : PutFinds(c, i)
      PROVE UNCHANGED <<docs, launch, pod>>
  BY <1>7 DEF PutRemovesJob, PutFinds
<1>8. ASSUME NEW i \in Jobs, KubeJobExpires(i) PROVE UNCHANGED <<docs, launch, pod>>
  BY <1>8 DEF KubeJobExpires
<1> QED BY <1>1, <1>2, <1>3, <1>4, <1>5, <1>6, <1>7, <1>8 DEF Next, vars

\* The safety half of SettledJobEnds: from then on, whenever the pod has exited,
\* the document tells the outcome, and a success has its result.
THEOREM SettledSound ==
  ASSUME NEW j \in Jobs
  PROVE  Spec => [](Settled(j) => [](pod[j] = "exited" => Reported(j)))
<1>1. IInv /\ Settled(j) => Tracked(j)
  BY NoDocAssumption DEF IInv, PodInv, Settled, Tracked
<1>2. IInv /\ Tracked(j) /\ [Next]_vars => Tracked(j)'
  BY NextTracked
<1>3. Tracked(j) => (pod[j] = "exited" => Reported(j))
  BY DEF Tracked
<1> QED BY <1>1, <1>2, <1>3, Invariance, PTL DEF Spec

-----------------------------------------------------------------------------
(* The page *)

\* A step of a build or of a client of the jobs service is one of BatchJobs, any
\* other is none.
LEMMA StepsAreJobs == [PageNext]_allVars => [Next]_vars
<1> SUFFICES ASSUME [PageNext]_allVars PROVE [Next]_vars
  OBVIOUS
<1>1. ASSUME NEW j \in Jobs, BuildSteps(j) PROVE Next
  BY <1>1 DEF BuildSteps, Next, Launch, Run
<1>2. ASSUME NEW j \in Jobs, BuildFaults(j) PROVE Next
  BY <1>2 DEF BuildFaults, Next
<1>3. ASSUME NEW j \in Jobs, BuildRaises(j) PROVE Next
  BY <1>3 DEF BuildRaises, Next
<1>4. ASSUME NEW j \in Jobs, JobDeleted(j) PROVE Next
  BY <1>4 DEF JobDeleted, Next
<1>5. ASSUME NEW c \in Clients, PutSteps(c) PROVE Next
  BY <1>5 DEF PutSteps, Next
<1>6. ASSUME NEW j \in Jobs,
             \/ EngineSaved(j) \/ EngineDropped(j) \/ RemoveSource(j)
             \/ \E n \in Names : RenameSource(j, n)
      PROVE  UNCHANGED vars
  BY <1>6 DEF EngineSaved, EngineDropped, RemoveSource, RenameSource
<1>7. ASSUME NEW r \in Loads, EnginesAnswered(r) \/ JobsAnswered(r) \/ LoadEnds(r)
      PROVE  UNCHANGED vars
  BY <1>7 DEF EnginesAnswered, JobsAnswered, LoadEnds
<1>8. PollAnswered \/ PollEnds \/ SelectorLoads \/ SelectorReopens => UNCHANGED vars
  BY DEF PollAnswered, PollEnds, SelectorLoads, SelectorReopens
<1>9. UNCHANGED allVars => UNCHANGED vars
  BY DEF allVars
<1> QED
  BY <1>1, <1>2, <1>3, <1>4, <1>5, <1>6, <1>7, <1>8, <1>9 DEF PageNext

\* What the composition does to launchers, pods, PUT requests and documents,
\* BatchJobs allows.
THEOREM PageImplementsJobs == PageSpec => Spec
BY StepsAreJobs, PTL DEF PageSpec, Spec

-----------------------------------------------------------------------------

\* An engine is in the making only while its pod handles the job, or was killed
\* at that; and from before that pod starts to handle it, its document says
\* "active", unless the launch was taken back or a client of the jobs service
\* had its way with the document.
BuildOK(j) ==
  /\ engine[j] = "building" => pod[j] \in {"handle", "killed"}
  /\ pod[j] = "handle" \/ engine[j] = "building" =>
       \/ launch[j] = "raised" \/ j \in stopped
       \/ docs[j] # NoDoc /\ docs[j].status = "active"

BuildInv == \A j \in Jobs : BuildOK(j)

\* The selector knows only engines that have been saved: none of those will
\* ever begin to be built.
SelectorInv ==
  /\ \A e \in selector.engines \cup selector.offered : engine[e.of] # "absent"
  /\ OfferedIsBuilt

PageIInv == IInv /\ PageTypeOK /\ BuildInv /\ SelectorInv

\* The empty load has the type of a load.
LEMMA NoLoadTyped ==
  NoLoad \in [engines : (SUBSET Engines) \cup {None}, jobs : (SUBSET Jobs) \cup {None}]
BY DEF NoLoad

LEMMA InitPageIInv == Init /\ PageInit => PageIInv
<1> SUFFICES ASSUME Init, PageInit PROVE PageIInv
  OBVIOUS
<1>1. IInv
  BY InitIInv
<1>2. PageTypeOK
  <2>1. load \in [Loads -> [engines : (SUBSET Engines) \cup {None},
                            jobs : (SUBSET Jobs) \cup {None}]]
    BY NoLoadTyped DEF PageInit
  <2> QED BY <1>1, <2>1 DEF PageInit, IInv, PageTypeOK
<1>3. BuildInv /\ SelectorInv
  BY DEF Init, PageInit, BuildInv, BuildOK, SelectorInv, OfferedIsBuilt
<1> QED BY <1>1, <1>2, <1>3 DEF PageIInv

\* The rows of a load are rows.
LEMMA CombinedTyped ==
  ASSUME asked \in [Jobs -> Names],
         NEW engines \in SUBSET Engines, NEW jobs \in SUBSET Jobs
  PROVE  Combined(engines, jobs) \subseteq Row
<1>1. ASSUME NEW e \in engines, NEW s \in StatusShown
      PROVE  [kind |-> "engine", of |-> e.of, name |-> e.name, status |-> s] \in Row
  BY DEF Row, Engines
<1>2. ASSUME NEW j \in jobs
      PROVE  [kind |-> "job", of |-> j, name |-> asked[j], status |-> "active"] \in Row
  BY DEF Row, StatusShown
<1>3. ASSUME NEW e
      PROVE  (IF e.name \in NamesOf(jobs) THEN "active" ELSE "success") \in StatusShown
  BY DEF StatusShown
<1> QED BY <1>1, <1>2, <1>3 DEF Combined

\* The types of the views.
LEMMA PageTypes ==
  ASSUME PageIInv, [PageNext]_allVars, TypeOK'
  PROVE  PageTypeOK'
<1> USE DEF PageIInv, PageTypeOK, pageVars
<1>1. ASSUME NEW j \in Jobs,
             \/ BuildSteps(j)  \/ BuildFaults(j)   \/ BuildRaises(j)
             \/ EngineSaved(j) \/ EngineDropped(j) \/ JobDeleted(j)
      PROVE  PageTypeOK'
  <2>1. UNCHANGED <<asked, calls, screen, load, poll, shown, selector>>
    BY <1>1 DEF BuildSteps, BuildFaults, BuildRaises, EngineSaved, EngineDropped,
                JobDeleted, buildVars
  <2>2. /\ engine' \in [Jobs -> {"absent", "building", "built", "dropped", "removed"}]
        /\ described' \subseteq Jobs /\ stopped' \subseteq Jobs
    BY <1>1 DEF BuildSteps, BuildFaults, BuildRaises, EngineSaved, EngineDropped,
                JobDeleted, buildVars
  <2>3. called' \in [Jobs -> Names]
    <3>1. CASE EngineSaved(j)
      BY <3>1, SourcesAssumption DEF EngineSaved
    <3>2. CASE called' = called
      BY <3>2
    <3> QED BY <1>1, <3>1, <3>2 DEF BuildSteps, BuildFaults, BuildRaises,
                                    EngineDropped, JobDeleted, buildVars
  <2> QED BY <2>1, <2>2, <2>3
<1>2. ASSUME NEW c \in Clients, PutSteps(c) PROVE PageTypeOK'
  <2>1. stopped' \subseteq Jobs
    BY <1>2 DEF PutSteps
  <2>2. UNCHANGED <<asked, calls, engine, called, described, pageVars>>
    BY <1>2 DEF PutSteps
  <2> QED BY <2>1, <2>2
<1>3. ASSUME NEW j \in Jobs, RemoveSource(j) PROVE PageTypeOK'
  BY <1>3 DEF RemoveSource
<1>4. ASSUME NEW j \in Jobs, NEW n \in Names, RenameSource(j, n) PROVE PageTypeOK'
  <2>1. called' \in [Jobs -> Names] /\ engine' = engine
    BY <1>4 DEF RenameSource
  <2>2. \A row \in RowsOf(j) : [row EXCEPT !.name = n] \in Row
    BY DEF RowsOf, Row
  <2>3. shown' \subseteq Row
    BY <1>4, <2>2 DEF RenameSource
  <2> QED BY <1>4, <2>1, <2>3 DEF RenameSource
<1>5. ASSUME NEW r \in Loads, EnginesAnswered(r) \/ JobsAnswered(r) PROVE PageTypeOK'
  <2>1. EngineList \in SUBSET Engines /\ ActiveJobs \in SUBSET Jobs
    BY DEF EngineList, Engines, ActiveJobs
  <2>2. load' \in [Loads -> [engines : (SUBSET Engines) \cup {None},
                             jobs : (SUBSET Jobs) \cup {None}]]
    <3>1. CASE EnginesAnswered(r)
      BY <2>1, <3>1 DEF EnginesAnswered
    <3>2. CASE JobsAnswered(r) /\ JobsListed
      <4>1. load' = [load EXCEPT ![r] = [load[r] EXCEPT !.jobs = ActiveJobs]]
        BY <3>2 DEF JobsAnswered
      <4> QED BY <2>1, <4>1
    <3>3. CASE JobsAnswered(r) /\ ~JobsListed
      <4>1. load' = [load EXCEPT ![r] = NoLoad]
        BY <3>3 DEF JobsAnswered
      <4> QED BY <4>1, NoLoadTyped
    <3> QED BY <1>5, <3>1, <3>2, <3>3
  <2>3. UNCHANGED <<buildVars, screen, poll, shown, selector>>
    BY <1>5 DEF EnginesAnswered, JobsAnswered
  <2> QED BY <2>2, <2>3 DEF buildVars
<1>6. ASSUME NEW r \in Loads, LoadEnds(r) PROVE PageTypeOK'
  <2>1. shown' \subseteq Row
    BY <1>6, CombinedTyped DEF LoadEnds
  <2>2. load' \in [Loads -> [engines : (SUBSET Engines) \cup {None},
                             jobs : (SUBSET Jobs) \cup {None}]]
    BY <1>6, NoLoadTyped DEF LoadEnds
  <2>3. UNCHANGED <<buildVars, screen, poll, selector>>
    BY <1>6 DEF LoadEnds
  <2> QED BY <2>1, <2>2, <2>3 DEF buildVars
<1>7. CASE PollAnswered
  <2>1. \A j \in Jobs : Verdict(j) \in StatusShown \cup {"absent"}
    BY DEF Verdict, StatusShown
  <2> QED BY <1>7, <2>1 DEF PollAnswered, buildVars
<1>8. CASE PollEnds
  <2>1. \A row \in Row, s \in StatusShown : [row EXCEPT !.status = s] \in Row
    BY DEF Row
  <2>2. shown' \subseteq Row
    BY <1>8, <2>1 DEF PollEnds
  <2>3. UNCHANGED <<buildVars, screen, load, selector>> /\ poll' = None
    BY <1>8 DEF PollEnds
  <2> QED BY <2>2, <2>3 DEF buildVars
<1>9. CASE SelectorLoads \/ SelectorReopens
  <2>1. EngineList \in SUBSET Engines
    BY DEF EngineList, Engines
  <2>2. selector' \in [step : {"engines", "jobs", "shown"},
                       engines : SUBSET Engines, offered : SUBSET Engines]
    BY <1>9, <2>1 DEF SelectorLoads, SelectorReopens
  <2>3. UNCHANGED <<buildVars, screen, load, poll, shown>>
    BY <1>9 DEF SelectorLoads, SelectorReopens
  <2> QED BY <2>2, <2>3 DEF buildVars
<1>10. CASE UNCHANGED allVars
  BY <1>10 DEF allVars, buildVars
<1> QED
  BY <1>1, <1>2, <1>3, <1>4, <1>5, <1>6, <1>7, <1>8, <1>9, <1>10 DEF PageNext

\* Builds in the making stay visible as such to who lists the jobs.
LEMMA BuildKeeps ==
  ASSUME PageIInv, [PageNext]_allVars
  PROVE  BuildInv'
<1> USE NoDocAssumption DEF BuildOK
<1>i. TypeOK /\ LaunchInv /\ stopped \subseteq Jobs /\ engine \in
        [Jobs -> {"absent", "building", "built", "dropped", "removed"}]
  BY DEF PageIInv, PageTypeOK, IInv
<1> SUFFICES ASSUME NEW j \in Jobs PROVE BuildOK(j)'
  BY DEF BuildInv
<1>j. BuildOK(j)
  BY DEF PageIInv, BuildInv
<1>1. ASSUME NEW i \in Jobs, Launch(i) \/ BuildFaults(i), UNCHANGED <<engine, stopped>>
      PROVE  BuildOK(j)'
  <2>1. CASE SavePending(i) \/ SaveInput(i) \/ CreateKubeJob(i)
    <3>1. pod[i] = "none" /\ pod' = pod
      BY <1>i, <2>1 DEF SavePending, SaveInput, CreateKubeJob, LaunchInv
    <3>2. \A k \in Jobs \ {i} : docs'[k] = docs[k] /\ launch'[k] = launch[k]
      BY <1>i, <2>1 DEF SavePending, SaveInput, CreateKubeJob, TypeOK
    <3> QED BY <1>1, <1>j, <3>1, <3>2
  <2>2. CASE SaveActive(i)
    <3>1. docs' = [docs EXCEPT ![i] = Blank("active")] /\ docs \in [Jobs -> Doc \cup {NoDoc}]
      BY <1>i, <2>2 DEF SaveActive, TypeOK
    <3>2. Blank("active") # NoDoc /\ Blank("active").status = "active"
      <4>1. Blank("active") \in Doc
        BY DEF Blank, Doc, Status
      <4> QED BY <4>1 DEF Blank
    <3>3. pod' = pod /\ \A k \in Jobs \ {i} : launch'[k] = launch[k]
      BY <1>i, <2>2 DEF SaveActive, TypeOK
    <3> QED BY <1>1, <1>j, <3>1, <3>2, <3>3
  <2>3. CASE CleanUp(i)
    BY <1>1, <1>i, <1>j, <2>3 DEF CleanUp, TypeOK
  <2>4. CASE LaunchRaises(i) \/ LauncherDies(i)
    BY <1>1, <1>i, <1>j, <2>4 DEF LaunchRaises, LauncherDies, TypeOK
  <2>5. CASE PodDies(i)
    BY <1>1, <1>i, <1>j, <2>5 DEF PodDies, PodLive, Goto, TypeOK
  <2>6. CASE KubeJobExpires(i)
    BY <1>1, <1>j, <2>6 DEF KubeJobExpires
  <2> QED BY <1>1, <2>1, <2>2, <2>3, <2>4, <2>5, <2>6 DEF Launch, BuildFaults
<1>2. ASSUME NEW i \in Jobs, PodReads(i), UNCHANGED <<engine, stopped>> PROVE BuildOK(j)'
  BY <1>2, <1>i, <1>j DEF PodReads, Goto, TypeOK, Doc, Status
<1>3. ASSUME NEW i \in Jobs, UNCHANGED <<engine, stopped>>,
             \/ PodStarts(i) \/ PodStores(i) \/ PodSucceeds(i)
             \/ PodRemovesJob(i) \/ PodReports(i)
      PROVE  BuildOK(j)'
  <2>1. /\ pod[i] \notin {"handle", "killed"} /\ pod'[i] \notin {"handle", "killed"}
        /\ \A k \in Jobs \ {i} : docs'[k] = docs[k] /\ pod'[k] = pod[k]
        /\ launch' = launch
    BY <1>3, <1>i
    DEF PodStarts, PodStores, PodSucceeds, PodRemovesJob, PodReports, Goto, TypeOK
  <2> QED BY <1>3, <1>j, <2>1
<1>4. ASSUME NEW i \in Jobs, HandlerEnds(i), UNCHANGED stopped,
             engine' = [engine EXCEPT ![i] = IF @ = "building" THEN "built" ELSE @]
      PROVE  BuildOK(j)'
  BY <1>4, <1>i, <1>j DEF HandlerEnds, Goto, TypeOK
<1>5. ASSUME NEW i \in Jobs, BuildRaises(i) PROVE BuildOK(j)'
  BY <1>5, <1>i, <1>j DEF BuildRaises, HandlerRaises, Goto, TypeOK, buildVars
<1>6. ASSUME NEW i \in Jobs, EngineSaved(i) PROVE BuildOK(j)'
  BY <1>6, <1>i, <1>j DEF EngineSaved, vars
<1>7. ASSUME NEW i \in Jobs, EngineDropped(i) \/ RemoveSource(i)
      PROVE  BuildOK(j)'
  BY <1>7, <1>i, <1>j DEF EngineDropped, RemoveSource, vars
<1>8. ASSUME NEW i \in Jobs, JobDeleted(i) PROVE BuildOK(j)'
  BY <1>8, <1>i, <1>j DEF JobDeleted, DeleteModel, TypeOK
<1>9. ASSUME NEW c \in Clients, PutSteps(c) PROVE BuildOK(j)'
  <2>1. UNCHANGED <<engine, launch, pod>> /\ stopped \subseteq stopped'
    BY <1>9 DEF PutSteps, PutFinds, PutRemovesJob, PutUpdates
  <2>2. docs'[j] = docs[j] \/ j \in stopped'
    BY <1>9 DEF PutSteps, PutFinds, PutRemovesJob
  <2> QED BY <1>j, <2>1, <2>2
<1>10. ASSUME UNCHANGED <<vars, engine, stopped>> PROVE BuildOK(j)'
  BY <1>10, <1>j DEF vars
<1>11. ASSUME NEW i \in Jobs, BuildSteps(i) PROVE BuildOK(j)'
  BY <1>1, <1>2, <1>3, <1>4, <1>11 DEF BuildSteps, Launch
<1>12. ASSUME NEW i \in Jobs, BuildFaults(i) PROVE BuildOK(j)'
  BY <1>1, <1>12 DEF BuildFaults, buildVars
<1>13. CASE \/ \E i \in Jobs, n \in Names : RenameSource(i, n)
            \/ \E r \in Loads : EnginesAnswered(r) \/ JobsAnswered(r) \/ LoadEnds(r)
            \/ PollAnswered \/ PollEnds \/ SelectorLoads \/ SelectorReopens
            \/ UNCHANGED allVars
  BY <1>10, <1>13
  DEF RenameSource, EnginesAnswered, JobsAnswered, LoadEnds, PollAnswered, PollEnds,
      SelectorLoads, SelectorReopens, allVars, buildVars
<1> QED
  BY <1>5, <1>6, <1>7, <1>8, <1>9, <1>11, <1>12, <1>13 DEF PageNext

\* What is past stays so: the names of jobs, the jobs that clients stopped, and the
\* engines that have been saved, which never begin again to be built.
LEMMA PastStays ==
  ASSUME PageIInv, [PageNext]_allVars
  PROVE  /\ asked' = asked /\ stopped \subseteq stopped'
         /\ \A j \in Jobs : engine[j] # "absent" =>
              /\ engine'[j] # "absent"
              /\ engine'[j] = "building" => engine[j] = "building"
<1>1. engine \in [Jobs -> {"absent", "building", "built", "dropped", "removed"}]
  BY DEF PageIInv, PageTypeOK
<1>2. ASSUME NEW i \in Jobs,
             \/ BuildSteps(i) \/ BuildFaults(i) \/ BuildRaises(i)
             \/ EngineSaved(i) \/ EngineDropped(i) \/ RemoveSource(i)
             \/ JobDeleted(i)
      PROVE  /\ asked' = asked /\ stopped \subseteq stopped'
             /\ \/ engine' = engine
                \/ engine[i] = "absent" /\ engine' = [engine EXCEPT ![i] = "building"]
                \/ engine' = [engine EXCEPT ![i] = "built"]
                \/ engine' = [engine EXCEPT ![i] = "dropped"]
                \/ engine' = [engine EXCEPT ![i] = "removed"]
  BY <1>1, <1>2 DEF BuildSteps, BuildFaults, BuildRaises, EngineSaved, EngineDropped,
                    RemoveSource, JobDeleted, buildVars
<1>3. ASSUME NEW c \in Clients, PutSteps(c)
      PROVE  asked' = asked /\ stopped \subseteq stopped' /\ engine' = engine
  BY <1>3 DEF PutSteps
<1>4. CASE \/ \E i \in Jobs, n \in Names : RenameSource(i, n)
           \/ \E r \in Loads : EnginesAnswered(r) \/ JobsAnswered(r) \/ LoadEnds(r)
           \/ PollAnswered \/ PollEnds \/ SelectorLoads \/ SelectorReopens
           \/ UNCHANGED allVars
  BY <1>4 DEF RenameSource, EnginesAnswered, JobsAnswered, LoadEnds, PollAnswered,
              PollEnds, SelectorLoads, SelectorReopens, allVars, buildVars
<1>5. ASSUME NEW i \in Jobs,
             \/ BuildSteps(i) \/ BuildFaults(i) \/ BuildRaises(i)
             \/ EngineSaved(i) \/ EngineDropped(i) \/ RemoveSource(i)
             \/ JobDeleted(i)
      PROVE  /\ asked' = asked /\ stopped \subseteq stopped'
             /\ \A j \in Jobs : engine[j] # "absent" =>
                  /\ engine'[j] # "absent"
                  /\ engine'[j] = "building" => engine[j] = "building"
  BY <1>1, <1>2, <1>5
<1> QED BY <1>3, <1>4, <1>5 DEF PageNext

\* A launch that was taken back stays so.
LEMMA RaisedForGood ==
  ASSUME PageIInv, [PageNext]_allVars, NEW j \in Jobs, launch[j] = "raised"
  PROVE  launch'[j] = "raised"
<1>1. launch \in [Jobs -> {"idle", "saved", "merged", "created", "returned",
                           "raising", "raised", "dead"}]
  BY DEF PageIInv, PageTypeOK, TypeOK
<1>2. [Next]_vars
  BY StepsAreJobs
<1>3. ASSUME NEW i \in Jobs, Launch(i) \/ LaunchRaises(i) \/ LauncherDies(i)
      PROVE  launch'[j] = "raised"
  BY <1>1, <1>3 DEF Launch, SavePending, SaveInput, CreateKubeJob, SaveActive,
                    CleanUp, LaunchRaises, LauncherDies
<1>4. ASSUME NEW i \in Jobs,
             Run(i) \/ HandlerRaises(i) \/ PodDies(i) \/ KubeJobExpires(i)
                    \/ DeleteModel(i)
      PROVE  UNCHANGED launch
  BY <1>4 DEF Run, PodStarts, PodReads, HandlerEnds, PodStores, PodSucceeds,
              PodRemovesJob, PodReports, HandlerRaises, PodDies, KubeJobExpires,
              DeleteModel
<1>5. ASSUME NEW c \in Clients, \/ \E i \in Jobs : PutFinds(c, i)
                                \/ PutRemovesJob(c) \/ PutUpdates(c)
      PROVE  UNCHANGED launch
  BY <1>5 DEF PutFinds, PutRemovesJob, PutUpdates
<1> QED BY <1>2, <1>3, <1>4, <1>5 DEF Next, vars

\* What the selector has loaded, and offers, is built.
LEMMA SelectorKeeps ==
  ASSUME PageIInv, [PageNext]_allVars
  PROVE  SelectorInv'
<1>i. TypeOK /\ BuildInv /\ SelectorInv /\ selector \in
        [step : {"engines", "jobs", "shown"},
         engines : SUBSET Engines, offered : SUBSET Engines]
  BY DEF PageIInv, PageTypeOK
<1>e. \A e \in selector.engines \cup selector.offered : e.of \in Jobs
  BY <1>i DEF Engines
<1>1. CASE SelectorLoads
  <2>1. UNCHANGED <<engine, docs, launch, asked, stopped>>
    BY <1>1 DEF SelectorLoads, vars, buildVars
  <2>2. CASE selector' = [step |-> "jobs", engines |-> EngineList, offered |-> {}]
    <3>1. \A e \in EngineList : engine[e.of] # "absent"
      BY DEF EngineList, Listed
    <3> QED BY <2>1, <2>2, <3>1 DEF SelectorInv, OfferedIsBuilt
  <2>3. CASE selector' =
               [step |-> "shown", engines |-> {},
                offered |-> {e \in selector.engines :
                               JobsListed /\ e.name \notin NamesOf(ActiveJobs)}]
    <3>1. ASSUME NEW e \in selector.engines, engine[e.of] = "building",
                 e.name = asked[e.of], e.name \notin NamesOf(ActiveJobs)
          PROVE  launch[e.of] = "raised" \/ e.of \in stopped
      <4>1. e.of \notin ActiveJobs
        BY <1>e, <3>1 DEF NamesOf
      <4> QED BY <1>i, <1>e, <3>1, <4>1 DEF BuildInv, BuildOK, ActiveJobs
    <3> QED BY <1>i, <2>1, <2>3, <3>1 DEF SelectorInv, OfferedIsBuilt
  <2> QED BY <1>1, <2>2, <2>3 DEF SelectorLoads
<1>2. CASE SelectorReopens
  BY <1>2 DEF SelectorReopens, SelectorInv, OfferedIsBuilt
<1>3. CASE UNCHANGED selector
  BY <1>3, <1>i, <1>e, PastStays, RaisedForGood DEF SelectorInv, OfferedIsBuilt
<1> QED
  BY <1>1, <1>2, <1>3
  DEF PageNext, allVars, pageVars, BuildSteps, BuildFaults, BuildRaises,
      EngineSaved, EngineDropped, RemoveSource, RenameSource, PutSteps, JobDeleted,
      EnginesAnswered, JobsAnswered, LoadEnds, PollAnswered, PollEnds

LEMMA NextPageIInv == PageIInv /\ [PageNext]_allVars => PageIInv'
<1> SUFFICES ASSUME PageIInv, [PageNext]_allVars PROVE PageIInv'
  OBVIOUS
<1>1. IInv'
  BY StepsAreJobs, NextIInv DEF PageIInv
<1>2. PageTypeOK'
  BY <1>1, PageTypes DEF IInv
<1> QED BY <1>1, <1>2, BuildKeeps, SelectorKeeps DEF PageIInv

THEOREM PageInvariance == PageSpec => []PageIInv
BY InitPageIInv, NextPageIInv, PTL DEF PageSpec

\* The types of the page, the selector and the answers they combine.
THEOREM PageTypeCorrect == PageSpec => []PageTypeOK
<1>1. PageIInv => PageTypeOK
  BY DEF PageIInv
<1> QED BY <1>1, PageInvariance, PTL

\* SourceSelector.tsx: an engine that the chat offers under the name of its job is
\* not being built, but by a job whose launch was reported as failed and runs all
\* the same, or which a client aborted or deleted the document of.
THEOREM OfferedSound == PageSpec => []OfferedIsBuilt
<1>1. PageIInv => OfferedIsBuilt
  BY DEF PageIInv, SelectorInv
<1> QED BY <1>1, PageInvariance, PTL

-----------------------------------------------------------------------------
(* Rows that are right *)

\* The rows of an engine show a success, with nothing in flight that would say
\* otherwise.
SuccessRow(j) ==
  /\ ShownBuilt(j)
  /\ \A row \in RowsOf(j) : Own(j, row.name)
  /\ \A r \in Loads :
       /\ load[r].engines # None =>
            /\ \E e \in load[r].engines : e.of = j
            /\ \A e \in load[r].engines : e.of = j => Own(j, e.name)
       /\ load[r].jobs # None => j \notin load[r].jobs
  /\ poll # None => poll[j] = "success"

\* No row, with nothing in flight that would bring it back.
GoneRow(j) ==
  /\ NotShown(j)
  /\ \A r \in Loads :
       /\ load[r].engines # None => \A e \in load[r].engines : e.of # j
       /\ load[r].jobs # None => j \notin load[r].jobs

RowStep(j) ==
  /\ Succeeded(j) /\ Succeeded(j)' /\ SuccessRow(j) => SuccessRow(j)'
  /\ Gone(j) /\ Gone(j)' /\ GoneRow(j) => GoneRow(j)'

\* The safety half of PageConverges: a row that is right stays right for as long
\* as what it shows is true, however loads and polls overlap and fail, and
\* whatever becomes of the other engines, of their names and of their jobs.
RightRowsStay == [][\A j \in Jobs : RowStep(j)]_allVars

\* What the services answer of a build that succeeded, and of one that is gone.
LEMMA AnswersTrue ==
  ASSUME NEW j \in Jobs
  PROVE  /\ Succeeded(j) => /\ \E e \in EngineList : e.of = j
                            /\ \A e \in EngineList : e.of = j => Own(j, e.name)
                            /\ j \notin ActiveJobs
                            /\ Verdict(j) = "success"
         /\ Gone(j) => /\ \A e \in EngineList : e.of # j
                       /\ j \notin ActiveJobs
<1>1. \A e \in EngineList : e.of \in Jobs /\ Listed(e.of) /\ e.name = called[e.of]
  BY DEF EngineList
<1>2. ASSUME Listed(j) PROVE \E e \in EngineList : e.of = j
  <2>1. [of |-> j, name |-> called[j]] \in EngineList
    BY <1>2 DEF EngineList
  <2> QED BY <2>1
<1>3. Succeeded(j) => /\ Listed(j) /\ Own(j, called[j])
                      /\ j \notin ActiveJobs /\ Verdict(j) = "success"
  BY DEF Succeeded, Listed, ActiveJobs, Verdict
<1>4. Gone(j) => ~Listed(j) /\ j \notin ActiveJobs
  BY DEF Gone, Finished, Outcomes, ActiveJobs
<1> QED BY <1>1, <1>2, <1>3, <1>4

\* What a load makes of answers that are right.
LEMMA CombinedRight ==
  ASSUME NEW j \in Jobs, NEW engines, NEW jobs \in SUBSET Jobs, j \notin jobs
  PROVE  LET rows == Combined(engines, jobs) IN
         /\ (\A e \in engines : e.of # j) => \A row \in rows : row.of # j
         /\ (\E e \in engines : e.of = j) =>
              \E row \in rows : row.kind = "engine" /\ row.of = j
         /\ (\A e \in engines : e.of = j => Own(j, e.name)) =>
              \A row \in rows : row.kind = "engine" /\ row.of = j =>
                row.status = "success" /\ Own(j, row.name)
<1> DEFINE rows == Combined(engines, jobs)
<1>1. ASSUME NEW row \in rows
      PROVE  \/ /\ row.kind = "job" /\ row.of \in jobs
             \/ \E e \in engines :
                  /\ row.kind = "engine" /\ row.of = e.of /\ row.name = e.name
                  /\ row.status = "active" => e.name \in NamesOf(jobs)
                  /\ row.status \in {"active", "success"}
  BY <1>1 DEF Combined
<1>2. ASSUME NEW e \in engines
      PROVE  \E row \in rows : row.kind = "engine" /\ row.of = e.of
  <2> DEFINE row == [kind |-> "engine", of |-> e.of, name |-> e.name,
                     status |-> IF e.name \in NamesOf(jobs) THEN "active" ELSE "success"]
  <2>1. row \in rows
    BY <1>2, Zenon DEF Combined
  <2> QED BY <2>1
<1>3. ASSUME NEW n, Own(j, n) PROVE n \notin NamesOf(jobs)
  BY <1>3 DEF Own, NamesOf
<1> HIDE DEF rows
<1>4. (\A e \in engines : e.of # j) => \A row \in rows : row.of # j
  BY <1>1
<1>5. (\E e \in engines : e.of = j) => \E row \in rows : row.kind = "engine" /\ row.of = j
  BY <1>2
<1>6. ASSUME \A e \in engines : e.of = j => Own(j, e.name),
             NEW row \in rows, row.kind = "engine", row.of = j
      PROVE  row.status = "success" /\ Own(j, row.name)
  <2>1. PICK e \in engines :
          /\ row.of = e.of /\ row.name = e.name
          /\ row.status = "active" => e.name \in NamesOf(jobs)
          /\ row.status \in {"active", "success"}
    BY <1>1, <1>6
  <2>2. Own(j, e.name)
    BY <1>6, <2>1
  <2>3. e.name \notin NamesOf(jobs)
    BY <1>3, <2>2
  <2> QED BY <2>1, <2>2, <2>3
<1> QED BY <1>4, <1>5, <1>6 DEF rows

\* A poll leaves rows that are right so.
LEMMA PollRight ==
  ASSUME PageTypeOK, PollEnds, NEW j \in Jobs
  PROVE  /\ NotShown(j) => NotShown(j)'
         /\ ShownBuilt(j) /\ (\A row \in RowsOf(j) : Own(j, row.name)) /\ poll[j] = "success"
              => ShownBuilt(j)' /\ (\A row \in RowsOf(j)' : Own(j, row.name))
<1>1. PICK status \in [shown -> StatusShown] :
        /\ \A row \in shown : status[row] \in Verdicts(row)
        /\ shown' = {[row EXCEPT !.status = status[row]] : row \in shown}
  BY DEF PollEnds
<1>2. shown \subseteq Row
  BY DEF PageTypeOK
<1>3. ASSUME NEW new \in shown'
      PROVE  \E row \in shown : /\ new.of = row.of /\ new.kind = row.kind
                                /\ new.name = row.name /\ new.status = status[row]
  BY <1>1, <1>2 DEF Row
<1>4. ASSUME NEW row \in shown
      PROVE  \E new \in shown' : new.of = row.of /\ new.kind = row.kind
  <2>1. [row EXCEPT !.status = status[row]] \in shown'
    BY <1>1
  <2>2. row \in Row
    BY <1>2
  <2> QED BY <2>1, <2>2 DEF Row
<1>5. NotShown(j) => NotShown(j)'
  BY <1>3 DEF NotShown
<1>6. ASSUME ShownBuilt(j), \A row \in RowsOf(j) : Own(j, row.name), poll[j] = "success"
      PROVE  ShownBuilt(j)' /\ (\A row \in RowsOf(j)' : Own(j, row.name))
  <2>1. RowsOf(j)' # {}
    BY <1>4, <1>6 DEF ShownBuilt, RowsOf
  <2>2. ASSUME NEW new \in RowsOf(j)'
        PROVE  new.status = "success" /\ Own(j, new.name)
    <3>1. PICK row \in shown : /\ new.of = row.of /\ new.kind = row.kind
                               /\ new.name = row.name /\ new.status = status[row]
      BY <1>3, <2>2 DEF RowsOf
    <3>2. row \in RowsOf(j)
      BY <2>2, <3>1 DEF RowsOf
    <3>3. row.status = "success" /\ Own(j, row.name)
      BY <1>6, <3>2 DEF ShownBuilt
    <3>4. Verdicts(row) \subseteq {"success"}
      BY <1>6, <3>3 DEF Verdicts, Own
    <3> QED BY <1>1, <3>1, <3>3, <3>4
  <2>3. asked' = asked
    BY DEF PollEnds, buildVars
  <2> QED BY <2>1, <2>2, <2>3 DEF ShownBuilt, Own
<1> QED BY <1>5, <1>6

\* Every step of the page keeps right rows right.
LEMMA RowStays ==
  ASSUME PageIInv, [PageNext]_allVars, NEW j \in Jobs PROVE RowStep(j)
<1> USE DEF RowStep, SuccessRow, GoneRow
<1>0. /\ load \in [Loads -> [engines : (SUBSET Engines) \cup {None},
                             jobs : (SUBSET Jobs) \cup {None}]]
      /\ shown \subseteq Row
      /\ PageTypeOK
  BY DEF PageIInv, PageTypeOK
<1>a. asked' = asked
  BY PastStays
<1>1. CASE UNCHANGED <<load, poll, shown>>
  BY <1>1, <1>a DEF ShownBuilt, NotShown, RowsOf, Own
<1>2. ASSUME NEW r \in Loads, EnginesAnswered(r) PROVE RowStep(j)
  <2>1. /\ UNCHANGED <<poll, shown>>
        /\ load' = [load EXCEPT ![r].engines = EngineList]
    BY <1>2 DEF EnginesAnswered
  <2>2. \A s \in Loads : /\ load'[s].jobs = load[s].jobs
                         /\ load'[s].engines = load[s].engines \/ load'[s].engines = EngineList
    BY <1>0, <2>1
  <2> QED BY <1>a, <2>1, <2>2, AnswersTrue DEF ShownBuilt, NotShown, RowsOf, Own
<1>3. ASSUME NEW r \in Loads, JobsAnswered(r) PROVE RowStep(j)
  <2>1. UNCHANGED <<poll, shown>>
    BY <1>3 DEF JobsAnswered
  <2>2. \A s \in Loads :
          \/ load'[s] = load[s]
          \/ load'[s].jobs = ActiveJobs /\ load'[s].engines = load[s].engines
          \/ load'[s] = NoLoad
    BY <1>0, <1>3 DEF JobsAnswered
  <2> QED BY <1>a, <2>1, <2>2, AnswersTrue DEF ShownBuilt, NotShown, RowsOf, Own, NoLoad
<1>4. ASSUME NEW r \in Loads, LoadEnds(r) PROVE RowStep(j)
  <2>1. /\ poll' = poll
        /\ \A s \in Loads : load'[s] = load[s] \/ load'[s] = NoLoad
    BY <1>0, <1>4 DEF LoadEnds
  <2>2. /\ load[r].engines # None /\ load[r].jobs # None
        /\ shown' = Combined(load[r].engines, load[r].jobs)
    BY <1>4 DEF LoadEnds
  <2>3. load[r].jobs \in SUBSET Jobs
    BY <1>0, <2>2
  <2>4. SuccessRow(j) => SuccessRow(j)'
    <3>1. SuccessRow(j) => ShownBuilt(j)' /\ \A row \in RowsOf(j)' : Own(j, row.name)'
      BY <1>a, <2>2, <2>3, CombinedRight DEF ShownBuilt, RowsOf, Own
    <3> QED BY <1>a, <2>1, <3>1 DEF NoLoad, Own
  <2>5. GoneRow(j) => GoneRow(j)'
    <3>1. GoneRow(j) => NotShown(j)'
      BY <2>2, <2>3, CombinedRight DEF NotShown
    <3> QED BY <2>1, <3>1 DEF NoLoad
  <2> QED BY <2>4, <2>5
<1>5. CASE PollAnswered
  <2>1. UNCHANGED <<load, shown>> /\ poll' = [i \in Jobs |-> Verdict(i)]
    BY <1>5 DEF PollAnswered
  <2> QED BY <1>a, <2>1, AnswersTrue DEF ShownBuilt, NotShown, RowsOf, Own
<1>6. CASE PollEnds
  <2>1. load' = load /\ poll' = None /\ poll # None
    BY <1>6 DEF PollEnds
  <2> QED BY <1>0, <1>a, <1>6, <2>1, PollRight DEF Own
<1>7. ASSUME NEW i \in Jobs, RemoveSource(i) PROVE RowStep(j)
  <2>1. /\ UNCHANGED <<load, poll>> /\ shown' \in {shown, shown \ RowsOf(i)}
        /\ engine' = [engine EXCEPT ![i] = "removed"]
    BY <1>7 DEF RemoveSource
  <2>2. Succeeded(j)' => i # j
    BY <1>0, <2>1 DEF Succeeded, PageTypeOK
  <2>3. i # j => RowsOf(j)' = RowsOf(j)
    BY <2>1 DEF RowsOf
  <2>4. NotShown(j) => NotShown(j)'
    BY <2>1 DEF NotShown
  <2> QED BY <1>a, <2>1, <2>2, <2>3, <2>4 DEF ShownBuilt, Own
<1>8. ASSUME NEW i \in Jobs, NEW n \in Names, RenameSource(i, n) PROVE RowStep(j)
  <2>1. /\ UNCHANGED <<load, poll>> /\ Listed(i)
        /\ called' = [called EXCEPT ![i] = n]
        /\ \/ shown' = shown
           \/ shown' = (shown \ RowsOf(i)) \cup {[row EXCEPT !.name = n] : row \in RowsOf(i)}
    BY <1>8 DEF RenameSource
  <2>2. ASSUME NEW new \in shown'
        PROVE  \/ new \in shown
               \/ \E row \in RowsOf(i) : /\ new.of = row.of /\ new.kind = row.kind
                                         /\ new.name = n /\ new.status = row.status
    BY <1>0, <2>1 DEF RowsOf, Row
  <2>3. \A new \in shown' : \E row \in shown : row.of = new.of
    BY <2>2 DEF RowsOf
  <2>4. NotShown(j) => NotShown(j)'
    BY <2>3 DEF NotShown
  <2>5. CASE i # j
    <3>1. \A row \in RowsOf(i) : [row EXCEPT !.name = n].of = i
      BY <1>0 DEF RowsOf, Row
    <3>2. \A row \in RowsOf(i) : row.of = i
      BY DEF RowsOf
    <3>3. \A row : row \in shown' /\ row.of = j <=> row \in shown /\ row.of = j
      <4>1. CASE shown' = shown
        BY <4>1
      <4>2. CASE shown' = (shown \ RowsOf(i))
                            \cup {[row EXCEPT !.name = n] : row \in RowsOf(i)}
        <5>1. ASSUME NEW row \in shown', row.of = j PROVE row \in shown
          <6>1. SUFFICES ASSUME NEW old \in RowsOf(i), row = [old EXCEPT !.name = n]
                         PROVE  FALSE
            BY <4>2, <5>1
          <6> QED BY <2>5, <3>1, <5>1, <6>1
        <5>2. ASSUME NEW row \in shown, row.of = j PROVE row \in shown'
          BY <2>5, <3>2, <4>2, <5>2
        <5> QED BY <5>1, <5>2
      <4> QED BY <2>1, <4>1, <4>2
    <3>4. RowsOf(j)' = RowsOf(j)
      BY <3>3 DEF RowsOf
    <3> QED BY <1>a, <2>1, <2>4, <3>4 DEF ShownBuilt, Own
  <2>6. CASE i = j
    <3>1. Succeeded(j)' => Own(j, n)
      BY <1>0, <1>a, <2>1, <2>6 DEF Succeeded, PageTypeOK, Own
    <3>2. \A new \in RowsOf(j)' : \E row \in RowsOf(j) :
            new.status = row.status /\ (new.name = row.name \/ new.name = n)
      BY <2>2, <2>6 DEF RowsOf
    <3>3. RowsOf(j) # {} => RowsOf(j)' # {}
      <4>1. \A row \in RowsOf(j) : /\ [row EXCEPT !.name = n].of = j
                                   /\ [row EXCEPT !.name = n].kind = "engine"
        BY <1>0 DEF RowsOf, Row
      <4> QED BY <2>1, <2>6, <4>1 DEF RowsOf
    <3>4. Succeeded(j)' /\ SuccessRow(j) =>
            ShownBuilt(j)' /\ \A row \in RowsOf(j)' : Own(j, row.name)
      BY <3>1, <3>2, <3>3 DEF ShownBuilt
    <3> QED BY <1>a, <2>1, <2>4, <3>4 DEF Own
  <2> QED BY <2>5, <2>6
<1>9. ASSUME NEW i \in Jobs,
             \/ BuildSteps(i) \/ BuildFaults(i) \/ BuildRaises(i)
             \/ EngineSaved(i) \/ EngineDropped(i) \/ JobDeleted(i)
      PROVE  UNCHANGED <<load, poll, shown>>
  BY <1>9 DEF BuildSteps, BuildFaults, BuildRaises, EngineSaved, EngineDropped,
              JobDeleted, pageVars
<1>10. ASSUME NEW c \in Clients, PutSteps(c) PROVE UNCHANGED <<load, poll, shown>>
  BY <1>10 DEF PutSteps, pageVars
<1>11. SelectorLoads \/ SelectorReopens => UNCHANGED <<load, poll, shown>>
  BY DEF SelectorLoads, SelectorReopens
<1>12. UNCHANGED allVars => UNCHANGED <<load, poll, shown>>
  BY DEF allVars, pageVars
<1> QED
  BY <1>1, <1>2, <1>3, <1>4, <1>5, <1>6, <1>7, <1>8, <1>9, <1>10, <1>11, <1>12
  DEF PageNext

\* Once nothing in flight is wrong, nothing makes a right row wrong.
THEOREM RowsSound == PageSpec => RightRowsStay
<1>1. PageIInv /\ [PageNext]_allVars => [\A j \in Jobs : RowStep(j)]_allVars
  BY RowStays
<1> QED BY <1>1, PageInvariance, PTL DEF PageSpec, RightRowsStay
=============================================================================
