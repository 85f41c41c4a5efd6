---------------------------- MODULE UserQueries ----------------------------
(***************************************************************************)
(* Queries on the engines that EngineBuild builds, renames and deletes:    *)
(* POST on an engine (query), POST on an earlier query (query_continue),   *)
(* both on request as a batch job, PUT and DELETE of a query.  A request   *)
(* reads the engine once and from then on works on that copy: it searches  *)
(* the vector store by the engine's name, looks every match up among the   *)
(* chunks of the engine's id, asks a model and saves what it found, one    *)
(* document at a time.  A continuation also keeps a copy of the query it   *)
(* continues and saves it as a whole, twice.                               *)
(***************************************************************************)
EXTENDS EngineBuild, FiniteSets, Functions

CONSTANTS
  Requests,       \* the POSTs; a query has the request that created it as id
  NumMatches,     \* NUM_MATCH_RESULTS: how many rows a search returns at most
  MinReferences,  \* MIN_QUERY_REFERENCES: so many stay in a prompt too long
  MayEdit,        \* bound: does a client call PUT, once, and DELETE on queries
                  \* before its end, or DELETE once?
  NoQuery

ASSUME QueryAssumption ==
  /\ NumMatches \in Nat /\ MinReferences \in Nat
  /\ MayEdit \in BOOLEAN
  /\ NoQuery \notin Requests

\* The chunk a match was resolved to, and the text embedded in the row matched.
Reference == [engine : Builders, url : Files, index : Nat, text : Text, match : Text]

Entry == [tag : {"human", "ai", "references"}, by : Requests, refs : SUBSET Reference]
Query == [engine : Builders, history : Seq(Entry)]

VARIABLES
  queries,     \* user_queries
  references,  \* query_references, each with its request
  results,     \* query_results
  call,        \* each request: its step, its copies, the matches, what it found
  edit,        \* the PUT or DELETE of a query
  early        \* history: queries read before their first answer was recorded

queryVars == <<queries, references, results, call, edit, early>>
allVars == <<vars, queryVars>>

Steps == {"ask", "search", "lookup", "generate", "result", "create",
           "fill", "launched", "done", "failed"}

\* On a new or an earlier query, at once or as a batch job.
Kinds == {"query", "continue", "batch", "batch-continue"}

\* What a request holds: the engine's id and name, the query it continues.
Calls == [step : Steps, kind : Kinds, engine : Builders \cup {NoEngine}, name : Names \cup {NoEngine},
          on : Requests \cup {NoQuery}, history : Seq(Entry),
          todo : SUBSET Row, found : SUBSET Reference]

\* No copy is held before a request begins and after it ends.
Idle(step) == [step |-> step, kind |-> "query", engine |-> NoEngine, name |-> NoEngine, on |-> NoQuery,
               history |-> <<>>, todo |-> {}, found |-> {}]

Exists(q) == queries[q] # NoQuery

InitQueries ==
  /\ queries = [r \in Requests |-> NoQuery]
  /\ references = {} /\ results = {}
  /\ call = [r \in Requests |-> Idle("ask")]
  /\ edit = [step |-> "idle", query |-> NoQuery, copy |-> NoQuery]
  /\ early = {}

Entering(tag, r, refs) == [tag |-> tag, by |-> r, refs |-> refs]
Prompt(r) == <<Entering("human", r, {})>>
\* (mutant) A tag that the readers of a history do not know.
AnswerUnknown(r) == <<Entering("assistant", r, {})>>

Answer(r) == <<Entering("ai", r, {})>>

\* update_history leaves out an empty list of references.
Shown(r, refs) == IF refs = {} THEN <<>> ELSE <<Entering("references", r, refs)>>

Step(r, step) == call' = [call EXCEPT ![r].step = step]
Ends(r, step) == call' = [call EXCEPT ![r] = Idle(step)]

\* save() and save(merge=True) write the whole of the copy and create the
\* document if it is gone.
Store(q, e, history) ==
  queries' = [queries EXCEPT ![q] = [engine |-> e, history |-> history]]

-----------------------------------------------------------------------------
(* The routes read the engine, and the query to be continued. *)

Ask(r) ==
  /\ call[r].step = "ask"
  /\ \E e \in Builders, kind \in {"query", "batch"} :
       /\ Live(e)
       /\ call' = [call EXCEPT ![r].kind = kind, ![r].engine = e, ![r].name = engines[e],
                     ![r].step = IF kind = "query" THEN "search" ELSE "create"]
  /\ UNCHANGED <<vars, queries, references, results, edit, early>>

Continues(r, q, kind) ==
  call' = [call EXCEPT ![r].kind = kind, ![r].engine = queries[q].engine,
             ![r].name = engines[queries[q].engine], ![r].on = q,
             ![r].history = queries[q].history,
             ![r].step = IF kind = "continue" THEN "search" ELSE "launched"]

\* Without its engine a query cannot be continued: the lookup returns None.
AskAgain(r) ==
  /\ call[r].step = "ask"
  /\ \E q \in Requests, kind \in {"continue", "batch-continue"} :
       /\ Exists(q)
       /\ early' = IF queries[q].history = <<>> THEN early \cup {q} ELSE early
       /\ \/ Live(queries[q].engine) /\ Continues(r, q, kind)
          \/ ~Live(queries[q].engine) /\ Ends(r, "failed")
  /\ UNCHANGED <<vars, queries, references, results, edit>>

-----------------------------------------------------------------------------
(* query_search *)

\* similarity_search returns the nearest rows of the collection of that name.
Search(r) ==
  /\ call[r].step = "search"
  /\ \E matches \in SUBSET rows[call[r].name] :
       /\ Cardinality(matches) <= NumMatches
       /\ call' = [call EXCEPT ![r].todo = matches, ![r].step = "lookup"]
  /\ UNCHANGED <<vars, queries, references, results, edit, early>>

Refer(c, m) == [engine |-> c.engine, url |-> c.url, index |-> c.index,
                text |-> c.text, match |-> m.text]

DocumentOf(c) == \E d \in docs : d.engine = c.engine /\ d.url = c.url

\* (mutant) find_by_index is asked without the engine.
LookUpAnywhere(r) ==
  /\ call[r].step = "lookup"
  /\ \E m \in call[r].todo, c \in {c \in chunks : DocumentOf(c)} :
       /\ c.index = m.index
       /\ references' = references \cup {[by |-> r, ref |-> Refer(c, m)]}
       /\ call' = [call EXCEPT ![r].todo = @ \ {m}, ![r].found = @ \cup {Refer(c, m)}]
  /\ UNCHANGED <<vars, queries, results, edit, early>>

\* (mutant) A reference is made and not saved.
LookUpUnsaved(r) ==
  /\ call[r].step = "lookup"
  /\ \E m \in call[r].todo, c \in {c \in chunks : DocumentOf(c)} :
       /\ c.engine = call[r].engine /\ c.index = m.index
       /\ call' = [call EXCEPT ![r].todo = @ \ {m}, ![r].found = @ \cup {Refer(c, m)}]
  /\ UNCHANGED <<vars, queries, references, results, edit, early>>

\* find_by_index(q_engine.id, match), then the chunk's document; the reference
\* is saved at once.  Either of them missing ends the request.
LookUp(r) ==
  /\ call[r].step = "lookup"
  /\ \E m \in call[r].todo :
       LET cs == {c \in chunks : c.engine = call[r].engine /\ c.index = m.index} IN
       \/ /\ \A c \in cs : ~DocumentOf(c)
          /\ Ends(r, "failed") /\ UNCHANGED references
       \/ \E c \in cs :
            /\ DocumentOf(c)
            /\ references' = references \cup {[by |-> r, ref |-> Refer(c, m)]}
            /\ call' = [call EXCEPT ![r].todo = @ \ {m}, ![r].found = @ \cup {Refer(c, m)}]
  /\ UNCHANGED <<vars, queries, results, edit, early>>

Retrieved(r) == call[r].step = "lookup" /\ call[r].todo = {}

-----------------------------------------------------------------------------
(* query_generate *)

\* A continuation shows what was retrieved before the model is asked.
ShowReferences(r) ==
  LET history == call[r].history \o Prompt(r) \o Shown(r, call[r].found) IN
  /\ Retrieved(r) /\ call[r].kind = "continue"
  /\ Store(call[r].on, call[r].engine, history)
  /\ call' = [call EXCEPT ![r].history = history, ![r].step = "generate"]
  /\ UNCHANGED <<vars, references, results, edit, early>>

\* generate_question_prompt drops references from a prompt that is too long,
\* down to a minimum; the model is then asked with the rest.
Fitting(r) == {used \in SUBSET call[r].found :
                 Cardinality(used) >= MinReferences \/ used = call[r].found}

\* (mutant) The answer is appended.
AfterLast(s, entry) == s \o entry

\* list.insert(len - 1, entry)
BeforeLast(s, entry) == SubSeq(s, 1, Len(s) - 1) \o entry \o SubSeq(s, Len(s), Len(s))

\* The answer goes before the last entry of the copy, meant to be the
\* references just added.
InsertAnswer(r) ==
  LET history == BeforeLast(call[r].history, Answer(r)) IN
  /\ call[r].step = "generate"
  /\ Store(call[r].on, call[r].engine, history)
  /\ \E used \in Fitting(r) :
       call' = [call EXCEPT ![r].history = history, ![r].found = used, ![r].step = "result"]
  /\ UNCHANGED <<vars, references, results, edit, early>>

\* (mutant) The result lists the references as they were retrieved.
SaveResultUntrimmed(r) ==
  /\ \E used \in Fitting(r) :
       /\ \/ call[r].step = "result" /\ used = call[r].found
          \/ Retrieved(r) /\ call[r].kind = "query"
       /\ results' = results \cup
            {[by |-> r, engine |-> call[r].engine, refs |-> call[r].found]}
       /\ call' = [call EXCEPT ![r].found = used, ![r].step = "create"]
  /\ UNCHANGED <<vars, queries, references, edit, early>>

SaveResult(r) ==
  /\ \E used \in Fitting(r) :
       /\ \/ call[r].step = "result" /\ used = call[r].found
          \/ Retrieved(r) /\ call[r].kind = "query"
       /\ results' = results \cup {[by |-> r, engine |-> call[r].engine, refs |-> used]}
       /\ call' = [call EXCEPT ![r].found = used, ![r].step = "create"]
  /\ UNCHANGED <<vars, queries, references, edit, early>>

-----------------------------------------------------------------------------
(* update_user_query, which the routes call without the query: it creates a  *)
(* new one, then saves its history.                                          *)

CreateQuery(r) ==
  /\ call[r].step = "create"
  /\ Store(r, call[r].engine, <<>>)
  /\ call' = [call EXCEPT ![r].history = <<>>, ![r].step = "fill"]
  /\ UNCHANGED <<vars, references, results, edit, early>>

\* (mutant) A continuation passes its own query to update_user_query.
FillQueryContinued(r) ==
  /\ call[r].step = "fill"
  /\ Store(IF call[r].on = NoQuery THEN r ELSE call[r].on, call[r].engine,
           IF call[r].kind = "batch" THEN Prompt(r)
           ELSE Prompt(r) \o Answer(r) \o Shown(r, call[r].found))
  /\ IF call[r].kind = "batch" THEN Step(r, "launched") ELSE Ends(r, "done")
  /\ UNCHANGED <<vars, references, results, edit, early>>

FillQuery(r) ==
  /\ call[r].step = "fill"
  /\ Store(r, call[r].engine,
           IF call[r].kind = "batch" THEN Prompt(r)
           ELSE Prompt(r) \o Answer(r) \o Shown(r, call[r].found))
  /\ IF call[r].kind = "batch" THEN Step(r, "launched") ELSE Ends(r, "done")
  /\ UNCHANGED <<vars, references, results, edit, early>>

\* batch_query_generate passes llm_type, user_query and rank_sentences one
\* place too far to the left in the call of query_generate, which raises on
\* them before it retrieves anything.
RunBatch(r) ==
  /\ call[r].step = "launched"
  /\ Ends(r, "failed")
  /\ UNCHANGED <<vars, queries, references, results, edit, early>>

\* A model, the vector store or Firestore raises.
Raise(r) ==
  /\ call[r].step \notin {"ask", "done", "failed", "launched"}
  /\ Ends(r, "failed")
  /\ UNCHANGED <<vars, queries, references, results, edit, early>>

-----------------------------------------------------------------------------
(* PUT and DELETE of a query *)

\* update_query sets the title and writes the document back as it was read.
PutReads(q) ==
  /\ MayEdit /\ edit.step = "idle" /\ Exists(q)
  /\ edit' = [step |-> "write", query |-> q, copy |-> queries[q]]
  /\ early' = IF queries[q].history = <<>> THEN early \cup {q} ELSE early
  /\ UNCHANGED <<vars, queries, references, results, call>>

PutWrites ==
  /\ edit.step = "write"
  /\ queries' = IF Exists(edit.query) THEN [queries EXCEPT ![edit.query] = edit.copy]
                                      ELSE queries
  /\ edit' = [step |-> "done", query |-> NoQuery, copy |-> NoQuery]
  /\ UNCHANGED <<vars, references, results, call, early>>

DeleteQuery(q) ==
  /\ MayEdit /\ edit.step \in {"idle", "write"} /\ Exists(q)
  /\ queries' = [queries EXCEPT ![q] = NoQuery]
  /\ edit' = IF edit.step = "idle" THEN [edit EXCEPT !.step = "done"] ELSE edit
  /\ UNCHANGED <<vars, references, results, call, early>>

-----------------------------------------------------------------------------

\* A build or a client goes on.  Two steps of delete_engine remove what is kept of
\* the queries on its engine: first the references, then the results.
EngineStep ==
  LET unreferred == {e \in Builders :
                       \/ FailReferences(e)
                       \/ \E c \in Clients : DeleteReferences(c) /\ client[c].engine = e}
      unanswered == {e \in Builders :
                       \/ FailResults(e)
                       \/ \E c \in Clients : DeleteResults(c) /\ client[c].engine = e}
  IN /\ Next
     /\ references' = {x \in references : x.ref.engine \notin unreferred}
     /\ results' = {x \in results : x.engine \notin unanswered}
     /\ UNCHANGED <<queries, call, edit, early>>

Serving(r) ==
  \/ Ask(r) \/ AskAgain(r) \/ Search(r) \/ LookUp(r)
  \/ ShowReferences(r) \/ InsertAnswer(r) \/ SaveResult(r)
  \/ CreateQuery(r) \/ FillQuery(r) \/ RunBatch(r) \/ Raise(r)

Editing == PutWrites \/ \E q \in Requests : PutReads(q) \/ DeleteQuery(q)

QueryInit == Init /\ InitQueries
QueryNext == EngineStep \/ (\E r \in Requests : Serving(r)) \/ Editing

QuerySpec == QueryInit /\ [][QueryNext]_allVars

-----------------------------------------------------------------------------
(* Properties *)

\* Queries, references, results, requests and the PUT.
QueriesTypeOK ==
  /\ queries \in [Requests -> Query \cup {NoQuery}]
  /\ references \subseteq [by : Requests, ref : Reference]
  /\ results \subseteq [by : Requests, engine : Builders, refs : SUBSET Reference]
  /\ call \in [Requests -> Calls]
  /\ edit \in [step : {"idle", "write", "done"}, query : Requests \cup {NoQuery},
               copy : Query \cup {NoQuery}]
  /\ early \subseteq Requests

\* No two engines share a name.
NamesApart ==
  ~MayRename /\ \A b1, b2 \in Builders : NameOf[b1] = NameOf[b2] => b1 = b2

\* A search by name and a lookup by id meet: as long as no two engines share a
\* name, a reference holds the text whose embedding was matched, also while the
\* engine is being built or deleted; unless what was matched is a row of a file
\* that the build has reported as not processed.
ReferencesGrounded ==
  NamesApart => \A x \in references :
    x.ref.match = x.ref.text \/ Leftover(x.ref.engine, x.ref.match)

\* In a history an answer stands next to its own prompt, and references behind
\* the turn they belong to.
InTurns(h) ==
  \A i \in DOMAIN h :
    /\ h[i].tag = "ai" =>
         \/ i > 1 /\ h[i - 1] = Entering("human", h[i].by, {})
         \/ i < Len(h) /\ h[i + 1] = Entering("human", h[i].by, {})
    /\ h[i].tag = "references" => i > 1 /\ h[i - 1].by = h[i].by

\* However continuations of one query overwrite each other: its turns stay
\* together.
TurnsTogether == \A q \in Requests : Exists(q) => InTurns(queries[q].history)

\* An answered request, a continuation too, has a query of its own that begins
\* with its turn, whoever continued, retitled or overwrote that query since;
\* unless it was read in the moment before the turn was saved.
FirstTurnKept ==
  \A r \in Requests : call[r].step = "done" /\ Exists(r) /\ r \notin early =>
    LET h == queries[r].history IN
      /\ Len(h) >= 2
      /\ h[1] = Entering("human", r, {}) /\ h[2] = Entering("ai", r, {})

\* The references a history shows for an answer cover those the answer was
\* generated from; in the query of the answer itself they are the same.
ShownFor(r, q) ==
  UNION {entry.refs : entry \in {e \in Range(queries[q].history) : e.by = r}}

ShownCoverUsed ==
  \A x \in results : \A q \in Requests : Exists(q) =>
    /\ \A entry \in Range(queries[q].history) :
         entry.tag = "references" /\ entry.by = x.by => x.refs \subseteq entry.refs
    /\ q = x.by /\ call[q].step = "done" /\ q \notin early =>
         x.refs = ShownFor(q, q)

\* delete_engine has removed the references of the engine and not yet the engine;
\* or its build has died, perhaps there.
BeingRemoved(e) ==
  \/ pc[e] \in {"failing-results", "failing-engine", "dead"}
  \/ \E c \in Clients :
       client[c].engine = e /\ client[c].step \in {"drop-results", "drop-engine"}

\* load_references finds every reference of a result as long as the engine exists
\* and is not being removed: no request that runs into a deletion, or over it,
\* leaves a result whose references are gone.  For engines that nobody renames: a
\* rename written back after the deletion brings the engine back, without them.
ResultsResolve ==
  ~MayRename => \A x \in results : Live(x.engine) /\ ~BeingRemoved(x.engine) =>
    \A f \in x.refs : [by |-> x.by, ref |-> f] \in references
=============================================================================
