----------------------------- MODULE SourcesPage -----------------------------
(***************************************************************************)
(* What the new web application shows of the query engines while their     *)
(* builds run: the Sources page (pages/Sources.tsx), which lists engines   *)
(* and builds with a status, and the source selector of the chat           *)
(* (components/SourceSelector.tsx), which offers the engines that are not  *)
(* being built.  Both combine two answers of two services, the engines of  *)
(* the LLM service and the build jobs of the jobs service, which nothing   *)
(* keeps consistent; the page moreover lets its requests overtake each     *)
(* other.  An engine and its job have nothing in common but a name, and    *)
(* not always that: the job keeps the name as it was typed, the build      *)
(* strips it, and an engine can be renamed.  The module composes the two   *)
(* views with all of BatchJobs, every job the build of one engine.         *)
(***************************************************************************)
EXTENDS BatchJobs

CONSTANTS
  Names,       \* names as they are typed
  Strip,       \* each name without the blanks around it
  Screens,     \* what a user may have open: the Sources page, the chat
  Loads,       \* the loadSources() calls that can be in flight together
  Calls,       \* which of CallKinds clients may make in a behaviour
  None         \* an answer that has not arrived

CallKinds == {"put",      \* jobs service: stop a job
              "delete",   \* ... or delete its document
              "remove",   \* LLM service: delete an engine
              "rename"}   \* ... or give it another name

ASSUME SourcesAssumption ==
  /\ Strip \in [Names -> Names]
  /\ Screens \subseteq {"page", "chat"}
  /\ Calls \subseteq SUBSET CallKinds

VARIABLES
  asked,       \* the name in the input_data of each job
  engine,      \* the QueryEngine document of each build
  called,      \* ... and the name it goes by
  described,   \* jobs whose document has its input_data
  stopped,     \* history: jobs a client aborted or deleted the document of
  calls,       \* what the clients of a behaviour do
  screen,      \* the screen this user has open
  load,        \* the loadSources() calls in flight, with their answers
  poll,        \* the updateJobStatuses() call in flight
  shown,       \* the page's state: its rows
  selector     \* the selector's load: its step, the engines, those offered

buildVars == <<asked, calls, engine, called, described, stopped>>
pageVars == <<screen, load, poll, shown, selector>>
allVars == <<vars, buildVars, pageVars>>

StatusShown == {"active", "success", "failed"}

NoLoad == [engines |-> None, jobs |-> None]

\* A row stands for an engine, or for an active job without one.
Row == [kind : {"engine", "job"}, of : Jobs, name : Names, status : StatusShown]

PageInit ==
  /\ asked \in [Jobs -> Names] /\ calls \in Calls
  /\ engine = [j \in Jobs |-> "absent"]
  /\ called = asked
  /\ described = {} /\ stopped = {}
  /\ screen \in Screens
  /\ load = [r \in Loads |-> NoLoad]
  /\ poll = None
  /\ shown = {}
  /\ selector = [step |-> "engines", engines |-> {}, offered |-> {}]

-----------------------------------------------------------------------------
(* The services: a build, its engine document and its job *)

\* query_engine_build strips the name and saves the engine before it indexes
\* anything.  Its look at the engines of that name, and the route's before the
\* launch, keep no two builds from finding the name free: what they refuse is
\* an exception of the handler.
EngineSaved(j) ==
  /\ pod[j] = "handle" /\ engine[j] = "absent"
  /\ engine' = [engine EXCEPT ![j] = "building"]
  /\ called' = [called EXCEPT ![j] = Strip[asked[j]]]
  /\ UNCHANGED <<vars, asked, calls, described, stopped, pageVars>>

\* The build deletes the engine again when it fails ...
EngineDropped(j) ==
  /\ "handler" \in Faults
  /\ pod[j] = "handle" /\ engine[j] \in {"building", "removed"}
  /\ engine' = [engine EXCEPT ![j] = "dropped"]
  /\ UNCHANGED <<vars, asked, calls, called, described, stopped, pageVars>>

\* ... before the handler raises.
BuildRaises(j) ==
  /\ HandlerRaises(j) /\ engine[j] \in {"absent", "dropped"}
  /\ UNCHANGED <<buildVars, pageVars>>

\* The job's own steps.  A build does not notice that its engine is deleted.
BuildSteps(j) ==
  /\ UNCHANGED <<asked, calls, called, stopped, pageVars>>
  /\ \/ SavePending(j) /\ UNCHANGED <<engine, described>>
     \/ SaveInput(j) /\ described' = described \cup {j} /\ UNCHANGED engine
     \/ /\ \/ CreateKubeJob(j) \/ SaveActive(j) \/ CleanUp(j)
           \/ PodStarts(j)     \/ PodReads(j)   \/ PodStores(j)
           \/ PodSucceeds(j)   \/ PodRemovesJob(j) \/ PodReports(j)
        /\ UNCHANGED <<engine, described>>
     \/ /\ HandlerEnds(j) /\ engine[j] \in {"building", "removed"}
        /\ engine' = [engine EXCEPT ![j] = IF @ = "building" THEN "built" ELSE @]
        /\ UNCHANGED described

\* The faults of BatchJobs.
BuildFaults(j) ==
  /\ LaunchRaises(j) \/ LauncherDies(j) \/ PodDies(j) \/ KubeJobExpires(j)
  /\ UNCHANGED <<buildVars, pageVars>>

\* A PUT goes on.  The document stops saying "active", the pod need not stop.
PutSteps(c) ==
  /\ "put" \in calls
  /\ \/ /\ (\E j \in Jobs : PutFinds(c, j)) \/ PutRemovesJob(c)
        /\ UNCHANGED stopped
     \/ /\ PutUpdates(c)
        /\ stopped' = stopped \cup {j \in Jobs : docs'[j] # docs[j]}
  /\ UNCHANGED <<asked, calls, engine, called, described, pageVars>>

\* DELETE takes the document away from a job that runs on.
JobDeleted(j) ==
  /\ "delete" \in calls
  /\ DeleteModel(j)
  /\ stopped' = stopped \cup {j}
  /\ UNCHANGED <<asked, calls, engine, called, described, pageVars>>

\* GET /query: fetch_all skips deleted engines.
Listed(j) == engine[j] \in {"building", "built"}
EngineList == {[of |-> j, name |-> called[j]] : j \in {i \in Jobs : Listed(i)}}

\* GET /jobs/query_engine_build fails as a whole while one document has no
\* input_data to parse.  Of an answer the views look at the active jobs.
JobsListed == \A j \in Jobs : docs[j] # NoDoc => j \in described
ActiveJobs == {j \in Jobs : docs[j] # NoDoc /\ docs[j].status = "active"}
NamesOf(jobs) == {asked[j] : j \in jobs}

-----------------------------------------------------------------------------
(* The Sources page.  The effect runs once per mounted page, so the list    *)
(* updateJobStatuses looks its finished jobs up in is the one of the first  *)
(* rendering, which is empty: it never calls loadSources.                   *)

\* The interval of ten seconds starts a load whether or not the last one has
\* been answered; its two requests are answered in either order.
EnginesAnswered(r) ==
  /\ screen = "page" /\ load[r].engines = None
  /\ load' = [load EXCEPT ![r].engines = EngineList]
  /\ UNCHANGED <<vars, buildVars, screen, poll, shown, selector>>

\* Promise.all: one answer that is an error ends the load.
JobsAnswered(r) ==
  /\ screen = "page" /\ load[r].jobs = None
  /\ load' = [load EXCEPT ![r] = IF JobsListed THEN [@ EXCEPT !.jobs = ActiveJobs]
                                              ELSE NoLoad]
  /\ UNCHANGED <<vars, buildVars, screen, poll, shown, selector>>

\* An engine is shown active if an active job has its name, else as a success;
\* an active job whose name no engine has gets a row of its own.
Combined(engines, jobs) ==
  {[kind |-> "engine", of |-> e.of, name |-> e.name,
    status |-> IF e.name \in NamesOf(jobs) THEN "active" ELSE "success"] :
      e \in engines}
  \cup
  {[kind |-> "job", of |-> j, name |-> asked[j], status |-> "active"] :
      j \in {i \in jobs : \A e \in engines : e.name # asked[i]}}

\* The rows are made anew of the two answers.
LoadEnds(r) ==
  /\ load[r].engines # None /\ load[r].jobs # None
  /\ shown' = Combined(load[r].engines, load[r].jobs)
  /\ load' = [load EXCEPT ![r] = NoLoad]
  /\ UNCHANGED <<vars, buildVars, screen, poll, selector>>

\* (mutant) The page compares with its own word for success.
VerdictOwnWord(j) ==
  IF docs[j] = NoDoc THEN "absent"
  ELSE CASE docs[j].status = "active" -> "active"
         [] docs[j].status = "success" -> "success"
         [] OTHER -> "failed"

\* What a row makes of the status of its job: pending and aborted count as
\* failed.
Verdict(j) ==
  IF docs[j] = NoDoc THEN "absent"
  ELSE CASE docs[j].status = "active" -> "active"
         [] docs[j].status = "succeeded" -> "success"
         [] OTHER -> "failed"

\* The interval of five seconds.  A poll that fails leaves the rows alone.
PollAnswered ==
  /\ screen = "page" /\ poll = None /\ JobsListed
  /\ poll' = [j \in Jobs |-> Verdict(j)]
  /\ UNCHANGED <<vars, buildVars, screen, load, shown, selector>>

\* A row that is shown takes the status of the first job of its name, whatever
\* has been loaded since the jobs were asked for.
Verdicts(row) ==
  LET named == {j \in Jobs : poll[j] # "absent" /\ asked[j] = row.name}
  IN  IF named = {} THEN {row.status} ELSE {poll[j] : j \in named}

PollEnds ==
  /\ poll # None
  /\ \E status \in [shown -> StatusShown] :
       /\ \A row \in shown : status[row] \in Verdicts(row)
       /\ shown' = {[row EXCEPT !.status = status[row]] : row \in shown}
  /\ poll' = None
  /\ UNCHANGED <<vars, buildVars, screen, load, selector>>

RowsOf(j) == {row \in shown : row.kind = "engine" /\ row.of = j}

\* confirmDeleteSources: the engine is deleted at the service; the row is
\* dropped from the page that asked for it, which need not be this one.
RemoveSource(j) ==
  /\ "remove" \in calls /\ Listed(j)
  /\ engine' = [engine EXCEPT ![j] = "removed"]
  /\ shown' \in {shown, shown \ RowsOf(j)}
  /\ UNCHANGED <<vars, asked, calls, called, described, stopped, screen, load,
                 poll, selector>>

\* handleSaveEdit: the engine gets another name, and so does the row of the page
\* that asked for it.  Editing an active row is refused when the dialog opens, and
\* the row may have become active since.
RenameSource(j, n) ==
  /\ "rename" \in calls /\ Listed(j) /\ called[j] # n
  /\ called' = [called EXCEPT ![j] = n]
  /\ \/ UNCHANGED shown
     \/ shown' = (shown \ RowsOf(j))
                   \cup {[row EXCEPT !.name = n] : row \in RowsOf(j)}
  /\ UNCHANGED <<vars, asked, calls, engine, described, stopped, screen, load,
                 poll, selector>>

-----------------------------------------------------------------------------
(* The selector, loaded once when the chat is opened *)

\* (mutant) The jobs are asked for before the engines.
SelectorLoadsJobsFirst ==
  /\ screen = "chat"
  /\ UNCHANGED <<vars, buildVars, screen, load, poll, shown>>
  /\ \/ /\ selector.step = "engines" /\ JobsListed
        /\ selector' = [step |-> "jobs",
                        engines |-> NamesOf(ActiveJobs), offered |-> {}]
     \/ /\ selector.step = "jobs"
        /\ selector' = [step |-> "shown", engines |-> {},
                        offered |-> {e \in EngineList : e.name \notin selector.engines}]

\* First the engines, then the jobs: what has the name of an active job is not
\* offered, and nothing is if the list of the jobs fails.
SelectorLoads ==
  /\ screen = "chat"
  /\ UNCHANGED <<vars, buildVars, screen, load, poll, shown>>
  /\ \/ /\ selector.step = "engines"
        /\ selector' = [step |-> "jobs", engines |-> EngineList, offered |-> {}]
     \/ /\ selector.step = "jobs"
        /\ selector' = [step |-> "shown", engines |-> {},
                        offered |-> {e \in selector.engines :
                                       JobsListed /\ e.name \notin NamesOf(ActiveJobs)}]

\* The chat is opened anew.
SelectorReopens ==
  /\ screen = "chat" /\ selector.step = "shown"
  /\ selector' = [step |-> "engines", engines |-> {}, offered |-> {}]
  /\ UNCHANGED <<vars, buildVars, screen, load, poll, shown>>

-----------------------------------------------------------------------------

PageNext ==
  \/ \E j \in Jobs : \/ BuildSteps(j)  \/ BuildFaults(j)   \/ BuildRaises(j)
                     \/ EngineSaved(j) \/ EngineDropped(j) \/ RemoveSource(j)
                     \/ JobDeleted(j)  \/ \E n \in Names : RenameSource(j, n)
  \/ \E c \in Clients : PutSteps(c)
  \/ \E r \in Loads : EnginesAnswered(r) \/ JobsAnswered(r) \/ LoadEnds(r)
  \/ PollAnswered \/ PollEnds
  \/ SelectorLoads \/ SelectorReopens

PageSpec == Init /\ PageInit /\ [][PageNext]_allVars

\* A launch that has begun, and its pod, run on as in BatchJobs.  The timers
\* run for as long as the page is mounted, and every request is answered.
\* Nobody need open the selector, nothing need fail.
Goes(j) == \/ launch[j] # "idle" /\ BuildSteps(j)
           \/ EngineSaved(j)
           \/ engine[j] = "dropped" /\ BuildRaises(j)

PageFairness ==
  /\ \A j \in Jobs : WF_allVars(Goes(j))
  /\ \A r \in Loads : /\ WF_allVars(EnginesAnswered(r))
                      /\ WF_allVars(JobsAnswered(r))
                      /\ WF_allVars(LoadEnds(r))
  /\ WF_allVars(PollAnswered) /\ WF_allVars(PollEnds)

FairPageSpec == PageSpec /\ PageFairness

-----------------------------------------------------------------------------
(* Properties *)

Engines == [of : Jobs, name : Names]

PageTypeOK ==
  /\ TypeOK
  /\ asked \in [Jobs -> Names] /\ calls \in Calls /\ called \in [Jobs -> Names]
  /\ engine \in [Jobs -> {"absent", "building", "built", "dropped", "removed"}]
  /\ described \subseteq Jobs /\ stopped \subseteq Jobs
  /\ screen \in Screens
  /\ load \in [Loads -> [engines : (SUBSET Engines) \cup {None}, jobs : (SUBSET Jobs) \cup {None}]]
  /\ poll \in [Jobs -> StatusShown \cup {"absent"}] \cup {None}
  /\ shown \subseteq Row
  /\ selector \in [step : {"engines", "jobs", "shown"},
                   engines : SUBSET Engines, offered : SUBSET Engines]

\* The chat never offers an engine that is still being built under the name its
\* job has, although it learns of engines and of builds at different times from
\* different services: a document says "active" from before the engine is saved
\* until after the engine is built or deleted.  Two kinds of jobs run on without
\* a document that says so: those whose launch was reported as failed, and those
\* a client aborted or deleted the document of.
OfferedIsBuilt ==
  \A e \in selector.offered :
    engine[e.of] = "building" /\ e.name = asked[e.of] =>
      launch[e.of] = "raised" \/ e.of \in stopped

\* Requests that overtake each other, polls applied to newer lists and listings
\* that fail leave no lasting trace: the row of an engine whose build succeeded,
\* and whose name no other job has, settles on "success", and the rows of an
\* engine that is deleted, or was never made, disappear for good with its job
\* over.  Not so while the list of the jobs fails for good, which one launcher
\* that died can cause.
Own(j, n) == \A i \in Jobs \ {j} : asked[i] # n

Succeeded(j) == /\ docs[j] # NoDoc /\ docs[j].status = "succeeded"
                /\ engine[j] = "built" /\ Own(j, called[j])

Gone(j) == ~Listed(j) /\ (docs[j] = NoDoc \/ Finished(j))

ShownBuilt(j) == RowsOf(j) # {} /\ \A row \in RowsOf(j) : row.status = "success"
NotShown(j) == \A row \in shown : row.of # j

PageConverges ==
  screen = "page" /\ <>[]JobsListed =>
    \A j \in Jobs : /\ <>[]Succeeded(j) => <>[]ShownBuilt(j)
                    /\ <>[]Gone(j) => <>[]NotShown(j)
=============================================================================
