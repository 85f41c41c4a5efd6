---------------------------- MODULE VertexSearch ----------------------------
(***************************************************************************)
(* Query engines of type qe_vertex_search: a build creates a data store of *)
(* Discovery Engine, imports the files, creates a search engine over it    *)
(* and records both in the QueryEngine document; a query searches the data *)
(* store and creates the document models it does not find; a failed build  *)
(* and a DELETE take the documents away again.  The data store's id is the *)
(* engine's name in lower case with dashes for blanks, so that engines of  *)
(* different names can ask for one id.  Builds run in their own pods, and  *)
(* queries and deletions in the API, with nothing between them.            *)
(***************************************************************************)
EXTENDS Naturals, FiniteSets

CONSTANTS
  Engines,     \* query engines, each built once
  Ids,         \* data store ids
  Files,       \* files of the sources
  Id,          \* datastore_id_from_engine, by engine
  FilesOf,     \* the inventory of each engine's source
  Queries,     \* requests in flight
  Faults,      \* see FaultKinds
  None

FaultKinds == {"call",     \* a call, or the wait for its operation, raises
               "unseen",   \* a creation has failed before anybody waits for it
               "partial"}  \* an import that leaves files out

ASSUME VertexAssumption == /\ Id \in [Engines -> Ids]
                           /\ FilesOf \in [Engines -> SUBSET Files]
                           /\ Faults \subseteq FaultKinds
                           /\ None \notin Engines \cup Ids \cup Files

Makers == Engines \cup Queries   \* who saved a document model

Document == [engine : Engines, file : Files, by : Makers]

Removers == Engines \X {"build", "client"}

VARIABLES
  model,       \* the QueryEngine document
  indexId,     \* its index_id
  store,       \* data stores: the engine that created it and its files
  app,         \* search engines: the engine that created it
  docs,        \* QueryDocument models
  refs,        \* the document of each saved QueryReference
  build,       \* where build_vertex_search stands, and its unsaved documents
  removal,     \* where delete_engine stands, for a failed build or a client
  query,       \* where query_vertex_search stands
  unseen       \* history: the creations, "store" or "app", that failed unseen

vars == <<model, indexId, store, app, docs, refs, build, removal, query, unseen>>

NoStore == [by |-> None, files |-> {}]
NoQuery == [step |-> "idle", engine |-> None, left |-> {}, doc |-> None]

Init ==
  /\ model = [e \in Engines |-> "absent"]
  /\ indexId = [e \in Engines |-> None]
  /\ store = [i \in Ids |-> NoStore]
  /\ app = [i \in Ids |-> None]
  /\ docs = {} /\ refs = {}
  /\ build = [e \in Engines |-> [step |-> "idle", left |-> {}]]
  /\ removal = [r \in Removers |-> "idle"]
  /\ query = [q \in Queries |-> NoQuery]
  /\ unseen = {}

-----------------------------------------------------------------------------
(* The build *)

At(e, step) == build[e].step = step
Goto(e, step) == build' = [build EXCEPT ![e].step = step]

\* query_engine_build saves the engine.
SaveModel(e) ==
  /\ At(e, "idle")
  /\ model' = [model EXCEPT ![e] = "live"]
  /\ Goto(e, "create")
  /\ UNCHANGED <<indexId, store, app, docs, refs, removal, query, unseen>>

\* Discovery Engine refuses an id that is in use, by the call or by its operation.
CreateDataStore(e) ==
  /\ At(e, "create")
  /\ IF store[Id[e]] # NoStore
     THEN Goto(e, "except") /\ UNCHANGED store
     ELSE /\ store' = [store EXCEPT ![Id[e]].by = e]
          /\ Goto(e, "import")
  /\ UNCHANGED <<model, indexId, app, docs, refs, removal, query, unseen>>

\* The files go to the data store that has the id; without one the call raises.
\* The import may leave files out, or all of them; all are reported as processed.
ImportDocuments(e) ==
  /\ At(e, "import")
  /\ IF store[Id[e]] = NoStore
     THEN Goto(e, "except") /\ UNCHANGED store
     ELSE /\ \E imported \in SUBSET FilesOf[e] :
               /\ imported = FilesOf[e] \/ "partial" \in Faults
               /\ store' = [store EXCEPT ![Id[e]].files = @ \cup imported]
          /\ build' = [build EXCEPT ![e] = [step |-> "engine", left |-> FilesOf[e]]]
  /\ UNCHANGED <<model, indexId, app, docs, refs, removal, query, unseen>>

CreateSearchEngine(e) ==
  /\ At(e, "engine")
  /\ IF app[Id[e]] # None
     THEN Goto(e, "except") /\ UNCHANGED app
     ELSE /\ app' = [app EXCEPT ![Id[e]] = e]
          /\ Goto(e, "index")
  /\ UNCHANGED <<model, indexId, store, docs, refs, removal, query, unseen>>

\* wait_for_operation asks for the result, and so for the error, of an operation
\* only if it is not done yet: a build does not learn of a creation that has failed
\* by then, whether the id was taken or not, and goes on.
CreationFailsUnseen(e) ==
  /\ "unseen" \in Faults
  /\ \/ At(e, "create") /\ unseen' = unseen \cup {<<e, "store">>} /\ Goto(e, "import")
     \/ At(e, "engine") /\ unseen' = unseen \cup {<<e, "app">>} /\ Goto(e, "index")
  /\ UNCHANGED <<model, indexId, store, app, docs, refs, removal, query>>

\* (mutant) The engine's name is recorded for the id made of it.
SaveIndexName(e) ==
  /\ At(e, "index")
  /\ IF model[e] # "live"
     THEN Goto(e, "except") /\ UNCHANGED indexId
     ELSE /\ indexId' = [indexId EXCEPT ![e] = e]
          /\ Goto(e, "docs")
  /\ UNCHANGED <<model, store, app, docs, refs, removal, query, unseen>>

\* update() fails on a document that a client has deleted.
SaveIndexId(e) ==
  /\ At(e, "index")
  /\ IF model[e] # "live"
     THEN Goto(e, "except") /\ UNCHANGED indexId
     ELSE /\ indexId' = [indexId EXCEPT ![e] = Id[e]]
          /\ Goto(e, "docs")
  /\ UNCHANGED <<model, store, app, docs, refs, removal, query, unseen>>

\* (mutant) The model of the last file is left out.
SaveDocumentButLast(e) ==
  /\ At(e, "docs")
  /\ \/ \E f \in build[e].left :
          /\ docs' = docs \cup {[engine |-> e, file |-> f, by |-> e]}
          /\ build' = [build EXCEPT ![e].left = @ \ {f}]
     \/ Cardinality(build[e].left) < 2 /\ Goto(e, "done") /\ UNCHANGED docs
  /\ UNCHANGED <<model, indexId, store, app, refs, removal, query, unseen>>

\* One QueryDocument for each file, then the build returns.
SaveDocument(e) ==
  /\ At(e, "docs")
  /\ \/ \E f \in build[e].left :
          /\ docs' = docs \cup {[engine |-> e, file |-> f, by |-> e]}
          /\ build' = [build EXCEPT ![e].left = @ \ {f}]
     \/ build[e].left = {} /\ Goto(e, "done") /\ UNCHANGED docs
  /\ UNCHANGED <<model, indexId, store, app, refs, removal, query, unseen>>

\* Listing the source, a call of the service or a save() raises.
BuildRaises(e) ==
  /\ "call" \in Faults
  /\ build[e].step \in {"create", "import", "engine", "index", "docs"}
  /\ Goto(e, "except")
  /\ UNCHANGED <<model, indexId, store, app, docs, refs, removal, query, unseen>>

\* A creation whose wait times out, or whose answer is lost, has happened.
CreationRaisesLate(e) ==
  /\ "call" \in Faults
  /\ \/ /\ At(e, "create") /\ store[Id[e]] = NoStore
        /\ store' = [store EXCEPT ![Id[e]].by = e]
        /\ UNCHANGED app
     \/ /\ At(e, "engine") /\ app[Id[e]] = None
        /\ app' = [app EXCEPT ![Id[e]] = e]
        /\ UNCHANGED store
  /\ Goto(e, "except")
  /\ UNCHANGED <<model, indexId, docs, refs, removal, query, unseen>>

\* (mutant) The deletion names the data store as the service knows it.
DeleteVertexSearchByPath(e, id) ==
  /\ store' = IF id = None THEN store ELSE [store EXCEPT ![id] = NoStore]
  /\ app' = IF id = None THEN app ELSE [app EXCEPT ![id] = None]

\* delete_vertex_search asks for a search engine by the query engine's display
\* name and for a data store by its bare id, where the service knows both under
\* the path they were created in: it is refused, and the errors are swallowed.
DeleteVertexSearch(e, id) == UNCHANGED <<store, app>>

\* except: delete_vertex_search, then delete_engine, which calls it again.
BuildCleansUp(e) ==
  /\ At(e, "except")
  /\ DeleteVertexSearch(e, Id[e])
  /\ removal' = [removal EXCEPT ![<<e, "build">>] = "docs"]
  /\ Goto(e, "failed")
  /\ UNCHANGED <<model, indexId, docs, refs, query, unseen>>

-----------------------------------------------------------------------------
(* delete_engine(hard_delete=True), the default of DELETE *)

ClientDeletes(e) ==
  /\ model[e] = "live" /\ removal[<<e, "client">>] = "idle"
  /\ DeleteVertexSearch(e, indexId[e])
  /\ removal' = [removal EXCEPT ![<<e, "client">>] = "docs"]
  /\ UNCHANGED <<model, indexId, docs, refs, build, query, unseen>>

\* The documents, then the references, then the engine.
Remove(e, by) ==
  /\ CASE removal[<<e, by>>] = "docs" ->
            /\ docs' = {d \in docs : d.engine # e}
            /\ removal' = [removal EXCEPT ![<<e, by>>] = "refs"]
            /\ UNCHANGED <<refs, model>>
       [] removal[<<e, by>>] = "refs" ->
            /\ refs' = {d \in refs : d.engine # e}
            /\ removal' = [removal EXCEPT ![<<e, by>>] = "model"]
            /\ UNCHANGED <<docs, model>>
       [] removal[<<e, by>>] = "model" ->
            /\ model' = [model EXCEPT ![e] = "gone"]
            /\ removal' = [removal EXCEPT ![<<e, by>>] = "done"]
            /\ UNCHANGED <<docs, refs>>
       [] OTHER -> FALSE
  /\ UNCHANGED <<indexId, store, app, build, query, unseen>>

-----------------------------------------------------------------------------
(* The query *)

\* The engine is read, and its data store searched; without one it raises.
Search(q, e) ==
  /\ query[q].step = "idle"
  /\ model[e] = "live" /\ indexId[e] # None
  /\ \E hits \in SUBSET store[indexId[e]].files :
       query' = [query EXCEPT ![q] = [step |-> "find", engine |-> e,
                                      left |-> hits, doc |-> None]]
  /\ UNCHANGED <<model, indexId, store, app, docs, refs, build, removal, unseen>>

Found(e, f) == {d \in docs : d.engine = e /\ d.file = f}

\* The next result is f, and its document model d.
Result(q, f, step, d) ==
  query' = [query EXCEPT ![q] = [step |-> step, engine |-> @.engine,
                                 left |-> @.left \ {f}, doc |-> d]]

\* (mutant) The model of an unknown document is created and not saved.
FindDocumentUnsaved(q) ==
  /\ query[q].step = "find"
  /\ \E f \in query[q].left :
       LET e == query[q].engine
       IN \/ /\ Found(e, f) = {}
             /\ Result(q, f, "refer", [engine |-> e, file |-> f, by |-> q])
          \/ \E d \in Found(e, f) : Result(q, f, "refer", d)
  /\ UNCHANGED <<model, indexId, store, app, docs, refs, build, removal, unseen>>

\* find_by_index_file for the next result; a missing document is to be created.
FindDocument(q) ==
  /\ query[q].step = "find"
  /\ \E f \in query[q].left :
       LET e == query[q].engine
       IN \/ /\ Found(e, f) = {}
             /\ Result(q, f, "create", [engine |-> e, file |-> f, by |-> q])
          \/ \E d \in Found(e, f) : Result(q, f, "refer", d)
  /\ UNCHANGED <<model, indexId, store, app, docs, refs, build, removal, unseen>>

CreateDocument(q) ==
  /\ query[q].step = "create"
  /\ docs' = docs \cup {query[q].doc}
  /\ query' = [query EXCEPT ![q].step = "refer"]
  /\ UNCHANGED <<model, indexId, store, app, refs, build, removal, unseen>>

SaveReference(q) ==
  /\ query[q].step = "refer"
  /\ refs' = refs \cup {query[q].doc}
  /\ query' = [query EXCEPT ![q].step = "find", ![q].doc = None]
  /\ UNCHANGED <<model, indexId, store, app, docs, build, removal, unseen>>

Answer(q) ==
  /\ query[q].step = "find" /\ query[q].left = {}
  /\ query' = [query EXCEPT ![q] = NoQuery]
  /\ UNCHANGED <<model, indexId, store, app, docs, refs, build, removal, unseen>>

-----------------------------------------------------------------------------

Next ==
  \/ \E e \in Engines :
       \/ SaveModel(e)          \/ CreateDataStore(e) \/ ImportDocuments(e)
       \/ CreateSearchEngine(e) \/ SaveIndexId(e)     \/ SaveDocument(e)
       \/ BuildRaises(e)        \/ CreationRaisesLate(e) \/ BuildCleansUp(e)
       \/ ClientDeletes(e)      \/ CreationFailsUnseen(e)
       \/ Remove(e, "build")    \/ Remove(e, "client")
  \/ \E q \in Queries :
       \/ \E e \in Engines : Search(q, e)
       \/ FindDocument(q) \/ CreateDocument(q) \/ SaveReference(q) \/ Answer(q)

Spec == Init /\ [][Next]_vars

-----------------------------------------------------------------------------
(* Properties *)

TypeOK ==
  /\ model \in [Engines -> {"absent", "live", "gone"}]
  /\ indexId \in [Engines -> Ids \cup {None}]
  /\ store \in [Ids -> [by : Engines \cup {None}, files : SUBSET Files]]
  /\ app \in [Ids -> Engines \cup {None}]
  /\ docs \subseteq Document /\ refs \subseteq Document
  /\ build \in [Engines -> [step : {"idle", "create", "import", "engine",
                  "index", "docs", "done", "except", "failed"},
                            left : SUBSET Files]]
  /\ removal \in [Removers -> {"idle", "docs", "refs", "model", "done"}]
  /\ query \in [Queries -> [step : {"idle", "find", "create", "refer"},
                            engine : Engines \cup {None},
                            left : SUBSET Files,
                            doc : Document \cup {None}]]
  /\ unseen \subseteq Engines \X {"store", "app"}

\* An engine searches the data store its own build created, never that of an
\* engine whose name gives the same id, whatever builds fail and clean up after
\* themselves meanwhile; not so a build whose creation failed unseen, which goes
\* on with the data store that has the id.  As long as there is none of those,
\* nobody else's files are in the data store either.
OnlyOwner(i) == \A e \in Engines : Id[e] = i => <<e, "store">> \notin unseen

OwnStore ==
  \A e \in Engines : indexId[e] # None =>
    /\ <<e, "store">> \notin unseen => store[indexId[e]].by = e
    /\ OnlyOwner(indexId[e]) => store[indexId[e]].files \subseteq FilesOf[e]

\* A build that returned has left an engine that works: its search engine is
\* its own, unless the creation of that failed unseen, and each file it reported
\* as processed has a document model, unless a client is deleting them.
FinishedIsComplete ==
  \A e \in Engines : At(e, "done") =>
    /\ app[Id[e]] = e \/ <<e, "app">> \in unseen
    /\ removal[<<e, "client">>] = "idle" =>
         \A f \in FilesOf[e] : \E d \in docs : d.engine = e /\ d.file = f

\* A reference leads to a document model of its engine until someone deletes the
\* engine, and the document is of a file of that engine's source as long as
\* nobody else's are imported into its data store.
ReferencesResolve ==
  \A d \in refs :
    /\ OnlyOwner(Id[d.engine]) => d.file \in FilesOf[d.engine]
    /\ (\A by \in {"build", "client"} : removal[<<d.engine, by>>] \in {"idle", "docs"})
         => d \in docs
=============================================================================
