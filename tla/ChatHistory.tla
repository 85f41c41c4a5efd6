---------------------------- MODULE ChatHistory ----------------------------
(***************************************************************************)
(* One chat of llm_service (UserChat) and the requests on it: POST         *)
(* generate, as a whole or as a stream, POST generate_summary, PUT and     *)
(* DELETE (routes/chat.py), and the agents that write to chats: a run with *)
(* the chat's history, a dispatch, at once or in a batch job, and the      *)
(* execution of a plan (routes/agent.py, agent_plan.py).  A request reads  *)
(* the chat once and works on that copy across its awaits of language      *)
(* models; every save writes all fields of the copy, so that requests that *)
(* overlap overwrite one another.                                          *)
(***************************************************************************)
EXTENDS Naturals, Sequences

CONSTANTS
  Requests,   \* requests that call a language model
  Kind,       \* of each
  Together,   \* bound: the sets of requests that are made in one behaviour
  MaxPuts,    \* bound: PUT requests
  MayDelete   \* clients delete the chat

Kinds == {"generate", "stream", "summary", "agent", "dispatch", "batch", "plan"}
ASSUME KindAssumption == Kind \in [Requests -> Kinds] /\ Together \subseteq SUBSET Requests
ASSUME BoundAssumption == MaxPuts \in Nat /\ MayDelete \in BOOLEAN

VARIABLES
  chat,    \* the stored document
  mem,     \* each request's copy of it
  pc,      \* where each request is
  seen,    \* the history each request's model was given
  put,     \* the PUT request: step, copy with the client's changes
  puts,    \* PUT requests so far
  delete,  \* the DELETE request: step, copy
  alone    \* no request has read the chat while another was under way

vars == <<chat, mem, pc, seen, put, puts, delete, alone>>
clients == <<put, puts, delete>>

\* A history entry: a prompt, an answer, an uploaded file, a file made by a
\* tool, a source; an agent's output, its log, the output recorded once more
\* with its prompt; the route and the job of a dispatch and its answer, given at
\* once or by the job; the result of a plan.
Tags == {"human", "ai", "file", "result", "source", "output", "log", "again",
         "route", "job", "reply", "late", "ran"}
Entry == Tags \X Requests
Titles == {"", "summary", "user"}
Chat == [there : BOOLEAN, deleted : BOOLEAN, title : Titles, history : Seq(Entry)]
NewChat == [there |-> TRUE, deleted |-> FALSE, title |-> "", history |-> <<>>]

\* The requests that are not made in this behaviour have failed from the start.
Init ==
  /\ chat = NewChat
  /\ mem = [r \in Requests |-> NewChat]
  /\ \E S \in Together : pc = [r \in Requests |-> IF r \in S THEN "start" ELSE "failed"]
  /\ seen = [r \in Requests |-> <<>>]
  /\ put = [step |-> "idle", copy |-> NewChat]
  /\ puts = 0
  /\ delete = [step |-> "idle", copy |-> NewChat]
  /\ alone = TRUE

\* find_by_id finds what is not marked as deleted.
Found == chat.there /\ ~chat.deleted

\* Where a request, or the batch job of one, holds no copy.
Final == {"start", "queued", "done", "failed"}
Quiet == /\ \A r \in Requests : pc[r] \in Final
         /\ put.step = "idle" /\ delete.step # "write"

Goto(r, step) == pc' = [pc EXCEPT ![r] = step]

\* save() and save(merge=True) write every field of the copy, the mark of
\* deletion too, and create the document if it is gone.
Save(r, copy) ==
  /\ mem' = [mem EXCEPT ![r] = copy]
  /\ chat' = copy

\* The last save of a request: its copy is dropped.
SaveLast(r, copy) ==
  /\ mem' = [mem EXCEPT ![r] = NewChat]
  /\ chat' = copy

With(r, entries) == [mem[r] EXCEPT !.history = @ \o entries]

-----------------------------------------------------------------------------
(* user_chat_generate and generate_chat_summary_route *)

Read(r) ==
  /\ pc[r] = "start" /\ Found
  /\ mem' = [mem EXCEPT ![r] = chat]
  /\ alone' = (alone /\ Quiet)
  /\ Goto(r, IF \/ Kind[r] = "summary"
                \/ Kind[r] \in {"generate", "stream"} /\ chat.title = ""
             THEN "untitled" ELSE "ready")
  /\ UNCHANGED <<chat, seen, clients>>

\* The summary model has answered.
SaveTitle(r) ==
  /\ pc[r] = "untitled"
  /\ LET titled == [mem[r] EXCEPT !.title = "summary"] IN
       \/ Kind[r] = "summary" /\ SaveLast(r, titled) /\ Goto(r, "done")
       \/ Kind[r] # "summary" /\ Save(r, titled) /\ Goto(r, "ready")
  /\ UNCHANGED <<seen, alone, clients>>

\* An uploaded file is saved in the history before the model is asked.
AttachFile(r) ==
  /\ pc[r] = "ready" /\ Kind[r] \in {"generate", "stream"}
  /\ Save(r, With(r, <<<<"file", r>>>>))
  /\ Goto(r, "filed")
  /\ UNCHANGED <<seen, alone, clients>>

\* llm_chat and run_agent are given the history of the copy.
Ask(r) ==
  /\ pc[r] \in {"ready", "filed"} /\ Kind[r] \in {"generate", "stream", "agent"}
  /\ seen' = [seen EXCEPT ![r] = mem[r].history]
  /\ Goto(r, "asked")
  /\ UNCHANGED <<chat, mem, alone, clients>>

\* (mutant) An empty response is added like any other.
TurnUnguarded(r, answered) ==
  <<<<"human", r>>, <<IF answered THEN "ai" ELSE "nothing", r>>>>

\* update_history leaves out an empty response.
Turn(r, answered) ==
  IF answered THEN <<<<"human", r>>, <<"ai", r>>>> ELSE <<<<"human", r>>>>
Sources(r, engine) == IF engine THEN <<<<"source", r>>>> ELSE <<>>

\* (mutant) The turn is added to what is stored by now.
AnswerReloading(r, answered) ==
  /\ pc[r] = "asked" /\ Kind[r] = "generate"
  /\ Save(r, [chat EXCEPT !.history = @ \o Turn(r, answered)])
  /\ Goto(r, "answered")
  /\ UNCHANGED <<seen, alone, clients>>

\* (mutant) The turn is returned and not saved.
AnswerUnsaved(r, answered) ==
  /\ pc[r] = "asked" /\ Kind[r] = "generate"
  /\ mem' = [mem EXCEPT ![r] = NewChat]
  /\ Goto(r, "done")
  /\ UNCHANGED <<chat, seen, alone, clients>>

Answer(r, answered) ==
  /\ pc[r] = "asked" /\ Kind[r] = "generate"
  /\ Save(r, With(r, Turn(r, answered)))
  /\ Goto(r, "answered")
  /\ UNCHANGED <<seen, alone, clients>>

\* Tools, that use no query engine, may have made files.
SaveResults(r) ==
  /\ pc[r] = "answered"
  /\ Save(r, With(r, <<<<"result", r>>>>))
  /\ Goto(r, "resulted")
  /\ UNCHANGED <<seen, alone, clients>>

\* (mutant) The second update_history is given prompt and response again.
SaveSourcesWithTurn(r, engine) ==
  /\ pc[r] = "answered" \/ (pc[r] = "resulted" /\ ~engine)
  /\ SaveLast(r, With(r, Turn(r, TRUE) \o Sources(r, engine)))
  /\ Goto(r, "done")
  /\ UNCHANGED <<seen, alone, clients>>

\* A second update_history adds the query engine and its references.
SaveSources(r, engine) ==
  /\ pc[r] = "answered" \/ (pc[r] = "resulted" /\ ~engine)
  /\ SaveLast(r, With(r, Sources(r, engine)))
  /\ Goto(r, "done")
  /\ UNCHANGED <<seen, alone, clients>>

\* The finally of a stream that has started: at its end, when the model fails
\* and when the client goes away, with whatever was received until then.
EndStream(r, answered, engine) ==
  /\ pc[r] = "asked" /\ Kind[r] = "stream"
  /\ SaveLast(r, With(r, Turn(r, answered) \o Sources(r, engine)))
  /\ Goto(r, "done")
  /\ UNCHANGED <<seen, alone, clients>>

\* The model or a save fails, or a stream is never started.
Fail(r) ==
  /\ pc[r] \notin {"start", "done", "failed"}
  /\ mem' = [mem EXCEPT ![r] = NewChat]
  /\ Goto(r, "failed")
  /\ UNCHANGED <<chat, seen, alone, clients>>

-----------------------------------------------------------------------------
(* agent_run_chat *)

\* run_agent saves the output, behind the history it was given, and the log.
SaveOutput(r, answered) ==
  /\ pc[r] = "asked" /\ Kind[r] = "agent"
  /\ Save(r, With(r, IF answered THEN <<<<"output", r>>, <<"log", r>>>> ELSE <<<<"log", r>>>>))
  /\ Goto(r, "ran")
  /\ UNCHANGED <<seen, alone, clients>>

\* The route then adds the prompt and the output once more.
SaveAgentTurn(r) ==
  /\ pc[r] = "ran"
  /\ SaveLast(r, With(r, <<<<"human", r>>, <<"again", r>>>>))
  /\ Goto(r, "done")
  /\ UNCHANGED <<seen, alone, clients>>

-----------------------------------------------------------------------------
(* run_dispatch, run_routing_agent and batch_run_dispatch.  Every entry is  *)
(* saved twice, by update_history and by its caller.                        *)

SavePrompt(r) ==
  /\ pc[r] = "ready" /\ Kind[r] \in {"dispatch", "batch"}
  /\ Save(r, With(r, <<<<"human", r>>>>))
  /\ Goto(r, "prompted")
  /\ UNCHANGED <<seen, alone, clients>>

\* run_intent has chosen a route.
SaveRoute(r) ==
  /\ pc[r] = "intent"
  /\ Save(r, With(r, <<<<"route", r>>>>))
  /\ Goto(r, "chosen")
  /\ UNCHANGED <<seen, alone, clients>>

\* The batch job reads the chat anew and notes itself in the history.
PickUp(r) ==
  /\ pc[r] = "queued" /\ Found
  /\ mem' = [mem EXCEPT ![r] = chat]
  /\ alone' = (alone /\ Quiet)
  /\ Goto(r, "picked")
  /\ UNCHANGED <<chat, seen, clients>>

NoteJob(r) ==
  /\ pc[r] = "picked"
  /\ Save(r, With(r, <<<<"job", r>>>>))
  /\ Goto(r, "noted")
  /\ UNCHANGED <<seen, alone, clients>>

\* The engine, database, plan or agent the route names has answered.
Reply(r) ==
  /\ \/ pc[r] = "routed"  /\ Save(r, With(r, <<<<"reply", r>>>>))
     \/ pc[r] = "working" /\ Save(r, With(r, <<<<"late", r>>>>))
  /\ Goto(r, "replied")
  /\ UNCHANGED <<seen, alone, clients>>

\* A dispatch in batch mode ends when its job is launched.
SaveAgain(r) ==
  /\ \/ pc[r] = "prompted" /\ Save(r, mem[r]) /\ Goto(r, "intent")
     \/ pc[r] = "chosen" /\ Kind[r] = "dispatch" /\ Save(r, mem[r]) /\ Goto(r, "routed")
     \/ pc[r] = "chosen" /\ Kind[r] = "batch" /\ SaveLast(r, mem[r]) /\ Goto(r, "queued")
     \/ pc[r] = "noted" /\ Save(r, mem[r]) /\ Goto(r, "working")
     \/ pc[r] = "replied" /\ SaveLast(r, mem[r]) /\ Goto(r, "done")
  /\ UNCHANGED <<seen, alone, clients>>

-----------------------------------------------------------------------------
(* agent_plan_execute with a chat *)

SaveExecuted(r) ==
  /\ pc[r] = "ready" /\ Kind[r] = "plan"
  /\ Save(r, With(r, <<<<"ran", r>>>>))
  /\ Goto(r, "executed")
  /\ UNCHANGED <<seen, alone, clients>>

\* update_history leaves out an empty log.
SavePlanLog(r, logged) ==
  /\ pc[r] = "executed"
  /\ Save(r, With(r, IF logged THEN <<<<"log", r>>>> ELSE <<>>))
  /\ Goto(r, "replied")
  /\ UNCHANGED <<seen, alone, clients>>

-----------------------------------------------------------------------------
(* update_chat and delete_chat *)

\* The client sends a title, a history, or both; its history is the one it was
\* given, perhaps with the last entries taken off.
PutRead(setsTitle, n) ==
  /\ put.step = "idle" /\ puts < MaxPuts /\ Found
  /\ put' = [step |-> "write",
             copy |-> [chat EXCEPT !.title = IF setsTitle THEN "user" ELSE @,
                                   !.history = SubSeq(@, 1, n)]]
  /\ puts' = puts + 1
  /\ alone' = (alone /\ Quiet)
  /\ UNCHANGED <<chat, mem, pc, seen, delete>>

\* update() fails on a document that is gone.
PutWrite ==
  /\ put.step = "write"
  /\ chat' = IF chat.there THEN put.copy ELSE chat
  /\ put' = [step |-> "idle", copy |-> NewChat]
  /\ UNCHANGED <<mem, pc, seen, puts, delete, alone>>

\* soft_delete_by_id reads and then updates the document.
SoftDeleteRead ==
  /\ MayDelete /\ delete.step = "idle" /\ Found
  /\ delete' = [step |-> "write", copy |-> chat]
  /\ alone' = (alone /\ Quiet)
  /\ UNCHANGED <<chat, mem, pc, seen, put, puts>>

SoftDeleteWrite ==
  /\ delete.step = "write"
  /\ chat' = IF chat.there THEN [delete.copy EXCEPT !.deleted = TRUE] ELSE chat
  /\ delete' = [step |-> "done", copy |-> NewChat]
  /\ UNCHANGED <<mem, pc, seen, put, puts, alone>>

HardDelete ==
  /\ MayDelete /\ delete.step = "idle"
  /\ chat' = [chat EXCEPT !.there = FALSE]
  /\ delete' = [step |-> "done", copy |-> NewChat]
  /\ alone' = (alone /\ Quiet)
  /\ UNCHANGED <<mem, pc, seen, put, puts>>

-----------------------------------------------------------------------------

Generate(r) ==
  \/ Read(r) \/ SaveTitle(r) \/ AttachFile(r) \/ Ask(r) \/ SaveResults(r) \/ Fail(r)
  \/ \E answered, engine \in BOOLEAN :
       Answer(r, answered) \/ SaveSources(r, engine) \/ EndStream(r, answered, engine)

RunAgent(r) ==
  \/ SaveAgentTurn(r)
  \/ SavePrompt(r) \/ SaveRoute(r) \/ PickUp(r) \/ NoteJob(r) \/ Reply(r) \/ SaveAgain(r)
  \/ SaveExecuted(r)
  \/ \E answered \in BOOLEAN : SaveOutput(r, answered) \/ SavePlanLog(r, answered)

Client ==
  \/ \E setsTitle \in BOOLEAN, n \in 0 .. Len(chat.history) : PutRead(setsTitle, n)
  \/ PutWrite \/ SoftDeleteRead \/ SoftDeleteWrite \/ HardDelete

Next == (\E r \in Requests : Generate(r) \/ RunAgent(r)) \/ Client

Spec == Init /\ [][Next]_vars

-----------------------------------------------------------------------------
(* Properties *)

\* Documents, copies and requests.
TypeOK ==
  /\ chat \in Chat
  /\ mem \in [Requests -> Chat]
  /\ pc \in [Requests -> {"start", "untitled", "ready", "filed", "asked", "answered",
                          "resulted", "ran", "prompted", "intent", "chosen", "routed",
                          "queued", "picked", "noted", "working", "replied", "executed",
                          "done", "failed"}]
  /\ seen \in [Requests -> Seq(Entry)]
  /\ put \in [step : {"idle", "write"}, copy : Chat]
  /\ puts \in 0 .. MaxPuts
  /\ delete \in [step : {"idle", "write", "done"}, copy : Chat]
  /\ alone \in BOOLEAN

\* What stands right before an entry of the same request.
Behind == {<<"ai", "human">>, <<"again", "human">>, <<"route", "human">>,
           <<"reply", "route">>, <<"late", "job">>}

\* However requests overlap: an answer stands right behind its own prompt, route
\* or job; the history before the prompt, or before an agent's output, is the
\* one the answer was generated from.
AnsweredInContext ==
  \A i \in DOMAIN chat.history : \A r \in Requests :
    /\ \A b \in Behind : chat.history[i] = <<b[1], r>> =>
         i > 1 /\ chat.history[i - 1] = <<b[2], r>>
    /\ chat.history[i] = <<"ai", r>> => SubSeq(chat.history, 1, i - 2) = seen[r]
    /\ chat.history[i] = <<"output", r>> => SubSeq(chat.history, 1, i - 1) = seen[r]

\* However often update_history runs, and whether a request or its batch job
\* runs it: no entry of a request stands in the history twice.
EntriesOnce ==
  \A i, j \in DOMAIN chat.history : chat.history[i] = chat.history[j] => i = j

\* As long as no two requests overlapped: a prompt that was served is in the
\* history, unless the client took it off or deleted the chat.
ServedAreKept ==
  alone /\ puts = 0 /\ delete.step = "idle" =>
    \A r \in Requests : pc[r] = "done" /\ Kind[r] \notin {"summary", "plan"} =>
      \E i \in DOMAIN chat.history : chat.history[i] = <<"human", r>>
=============================================================================
