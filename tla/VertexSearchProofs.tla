------------------------- MODULE VertexSearchProofs -------------------------
(***************************************************************************)
(* For any engines, names, sources and queries: types, and that an engine  *)
(* only ever searches the data store of its own build.  The invariant says *)
(* why: Discovery Engine gives an id to one engine for good, and between   *)
(* the creation of its data store and its return a build is that engine,   *)
(* or has not learned that its creation failed.                            *)
(* What a build still owes, and what a query has in hand, then lead to the *)
(* documents of an engine and the references to them.                      *)
(***************************************************************************)
EXTENDS VertexSearch, TLAPS

Holding == {"import", "engine", "index", "docs", "done"}

Steps == {"idle", "create", "import", "engine", "index", "docs", "done",
          "except", "failed"}

\* The builds that got past the creation of their data store hold its id, or have
\* not learned that they do not.
Unseen(e, what) == <<e, what>> \in unseen

Owns(e) == store[Id[e]].by = e \/ Unseen(e, "store")

HoldersOwn == \A e \in Engines : build[e].step \in Holding => Owns(e)

IndexOwn == \A e \in Engines : indexId[e] # None => indexId[e] = Id[e] /\ Owns(e)

\* A data store has files of the engine that created it, and of those that import
\* into it unseen.
FilesOwn == \A i \in Ids :
  /\ store[i].by = None => store[i].files = {}
  /\ \A f \in store[i].files : \E x \in Engines :
       Id[x] = i /\ f \in FilesOf[x] /\ Owns(x)

\* A query that runs has an engine, and a document where it needs one.
QueryOK == \A q \in Queries :
  /\ query[q].step # "idle" => query[q].engine \in Engines
  /\ query[q].step \in {"create", "refer"} => query[q].doc \in Document

IInv == TypeOK /\ HoldersOwn /\ IndexOwn /\ FilesOwn /\ QueryOK

QueryStates == [step : {"idle", "find", "create", "refer"},
                engine : Engines \cup {None},
                left : SUBSET Files,
                doc : Document \cup {None}]

QueryStep(q) ==
  \/ \E e \in Engines : Search(q, e)
  \/ FindDocument(q) \/ CreateDocument(q) \/ SaveReference(q) \/ Answer(q)

LEMMA InitIInv == Init => IInv
BY VertexAssumption
DEF Init, IInv, TypeOK, HoldersOwn, IndexOwn, FilesOwn, QueryOK,
    NoStore, NoQuery, Holding, Owns, Unseen

\* The document of the next result, whether it is found or to be created.
LEMMA ResultTyped ==
  ASSUME IInv, NEW q \in Queries, NEW f \in query[q].left,
         NEW step \in {"create", "refer"}, NEW d \in Document,
         query[q].step = "find", Result(q, f, step, d)
  PROVE  query' \in [Queries -> QueryStates] /\ QueryOK'
<1>1. query \in [Queries -> QueryStates] /\ query[q].engine \in Engines
  BY DEF IInv, TypeOK, QueryOK, QueryStates
<1> DEFINE new == [step |-> step, engine |-> query[q].engine,
                   left |-> query[q].left \ {f}, doc |-> d]
<1>2. query' = [query EXCEPT ![q] = new]
  BY DEF Result
<1>3. new \in QueryStates
  BY <1>1 DEF QueryStates
<1>4. query' \in [Queries -> QueryStates]
  BY <1>1, <1>2, <1>3
<1>5. QueryOK'
  <2> SUFFICES ASSUME NEW p \in Queries
               PROVE  /\ query'[p].step # "idle" => query'[p].engine \in Engines
                      /\ query'[p].step \in {"create", "refer"} =>
                           query'[p].doc \in Document
    BY DEF QueryOK
  <2>1. CASE p = q
    BY <1>1, <1>2, <2>1
  <2>2. CASE p # q
    BY <1>1, <1>2, <2>2 DEF IInv, QueryOK
  <2> QED BY <2>1, <2>2
<1> QED BY <1>4, <1>5

\* A query keeps types, and touches nothing that a build relies on.
LEMMA QueryKeeps ==
  ASSUME IInv, NEW q \in Queries, QueryStep(q)
  PROVE  /\ TypeOK' /\ QueryOK'
         /\ UNCHANGED <<model, indexId, store, app, build, removal, unseen>>
<1> USE VertexAssumption
<1>1. query \in [Queries -> QueryStates] /\ query[q] \in QueryStates
  BY DEF IInv, TypeOK, QueryStates
<1>2. CASE \E e \in Engines : Search(q, e)
  <2>1. PICK e \in Engines : Search(q, e)
    BY <1>2
  <2>2. indexId[e] \in Ids
    BY <2>1 DEF Search, IInv, TypeOK
  <2>3. store[indexId[e]].files \subseteq Files
    BY <2>2 DEF IInv, TypeOK
  <2>4. query' \in [Queries -> QueryStates] /\ QueryOK'
    BY <1>1, <2>1, <2>3 DEF Search, IInv, QueryOK, QueryStates
  <2> QED BY <2>1, <2>4 DEF Search, IInv, TypeOK, QueryStates
<1>3. CASE FindDocument(q)
  <2>1. PICK f \in query[q].left :
          \/ /\ Found(query[q].engine, f) = {}
             /\ Result(q, f, "create", [engine |-> query[q].engine,
                                        file |-> f, by |-> q])
          \/ \E d \in Found(query[q].engine, f) : Result(q, f, "refer", d)
    BY <1>3 DEF FindDocument
  <2>2. query[q].step = "find" /\ query[q].engine \in Engines /\ f \in Files
    BY <1>1, <1>3, <2>1 DEF FindDocument, IInv, QueryOK, QueryStates
  <2>3. ASSUME Result(q, f, "create", [engine |-> query[q].engine,
                                       file |-> f, by |-> q])
        PROVE  query' \in [Queries -> QueryStates] /\ QueryOK'
    <3>1. [engine |-> query[q].engine, file |-> f, by |-> q] \in Document
      BY <2>2 DEF Document, Makers
    <3> QED BY <2>2, <2>3, <3>1, ResultTyped
  <2>4. ASSUME \E d \in Found(query[q].engine, f) : Result(q, f, "refer", d)
        PROVE  query' \in [Queries -> QueryStates] /\ QueryOK'
    <3>1. PICK d \in docs : Result(q, f, "refer", d)
      BY <2>4 DEF Found
    <3>2. d \in Document
      BY DEF IInv, TypeOK
    <3> QED BY <2>2, <3>1, <3>2, ResultTyped
  <2>5. query' \in [Queries -> QueryStates] /\ QueryOK'
    BY <2>1, <2>3, <2>4
  <2> QED BY <1>3, <2>5 DEF FindDocument, IInv, TypeOK, QueryStates
<1>4. CASE CreateDocument(q)
  <2>1. query[q].doc \in Document
    BY <1>4 DEF CreateDocument, IInv, QueryOK
  <2>2. query' \in [Queries -> QueryStates] /\ QueryOK'
    BY <1>1, <1>4 DEF CreateDocument, IInv, QueryOK, QueryStates
  <2> QED BY <1>4, <2>1, <2>2 DEF CreateDocument, IInv, TypeOK, QueryStates
<1>5. CASE SaveReference(q)
  <2>1. query[q].doc \in Document
    BY <1>5 DEF SaveReference, IInv, QueryOK
  <2>2. query' \in [Queries -> QueryStates] /\ QueryOK'
    BY <1>1, <1>5 DEF SaveReference, IInv, QueryOK, QueryStates
  <2> QED BY <1>5, <2>1, <2>2 DEF SaveReference, IInv, TypeOK, QueryStates
<1>6. CASE Answer(q)
  <2>1. query' \in [Queries -> QueryStates] /\ QueryOK'
    BY <1>1, <1>6 DEF Answer, NoQuery, IInv, QueryOK, QueryStates
  <2> QED BY <1>6, <2>1 DEF Answer, IInv, TypeOK, QueryStates
<1> QED BY <1>2, <1>3, <1>4, <1>5, <1>6 DEF QueryStep

\* The data store a build creates is one that nobody had, nor has anything in it.
LEMMA Created ==
  ASSUME IInv, NEW e \in Engines, store[Id[e]] = NoStore, UNCHANGED unseen,
         store' = [store EXCEPT ![Id[e]].by = e]
  PROVE  /\ Owns(e)' /\ \A x \in Engines : Owns(x) => Owns(x)'
         /\ FilesOwn'
         /\ store' \in [Ids -> [by : Engines \cup {None}, files : SUBSET Files]]
<1> USE VertexAssumption
<1>1. store[Id[e]].by = None /\ store[Id[e]].files = {} /\ Id[e] \in Ids
  BY DEF NoStore
<1>2. store \in [Ids -> [by : Engines \cup {None}, files : SUBSET Files]]
  BY DEF IInv, TypeOK
<1>3. /\ store'[Id[e]].by = e /\ store'[Id[e]].files = {}
      /\ \A i \in Ids : i # Id[e] => store'[i] = store[i]
      /\ store' \in [Ids -> [by : Engines \cup {None}, files : SUBSET Files]]
  BY <1>1, <1>2
<1>4. Owns(e)' /\ \A x \in Engines : Owns(x) => Owns(x)'
  <2>1. ASSUME NEW x \in Engines, Owns(x) PROVE Owns(x)'
    <3>1. CASE Id[x] = Id[e]
      BY <1>1, <2>1, <3>1 DEF Owns, Unseen
    <3>2. CASE Id[x] # Id[e]
      BY <1>3, <2>1, <3>2 DEF Owns, Unseen
    <3> QED BY <3>1, <3>2
  <2> QED BY <1>3, <2>1 DEF Owns
<1>5. FilesOwn'
  <2> SUFFICES ASSUME NEW i \in Ids
               PROVE  /\ store'[i].by = None => store'[i].files = {}
                      /\ \A f \in store'[i].files : \E x \in Engines :
                           Id[x] = i /\ f \in FilesOf[x] /\ Owns(x)'
    BY DEF FilesOwn
  <2>1. CASE i = Id[e]
    BY <1>3, <2>1
  <2>2. CASE i # Id[e]
    BY <1>3, <1>4, <2>2 DEF IInv, FilesOwn
  <2> QED BY <2>1, <2>2
<1> QED BY <1>3, <1>4, <1>5

\* A build that goes on is the only one that does.
LEMMA Went ==
  ASSUME TypeOK, NEW e \in Engines, NEW step \in Steps, Goto(e, step)
  PROVE  /\ build' \in [Engines -> [step : Steps, left : SUBSET Files]]
         /\ build'[e].step = step
         /\ \A x \in Engines : x # e => build'[x] = build[x]
BY DEF TypeOK, Steps, Goto

\* What a step keeps that leaves the data stores and the indexes alone, and in
\* which no build comes to hold an id it did not hold.
LEMMA SameStores ==
  ASSUME IInv, UNCHANGED <<store, indexId, query, unseen>>,
         \A x \in Engines : build'[x].step \in Holding => build[x].step \in Holding
  PROVE  HoldersOwn' /\ IndexOwn' /\ FilesOwn' /\ QueryOK'
BY DEF IInv, HoldersOwn, IndexOwn, FilesOwn, QueryOK, Owns, Unseen

\* The same for a build that creates its data store, and goes on or fails.
LEMMA NewStore ==
  ASSUME IInv, NEW e \in Engines, store[Id[e]] = NoStore,
         store' = [store EXCEPT ![Id[e]].by = e],
         NEW step \in {"import", "except"}, Goto(e, step),
         UNCHANGED <<model, indexId, app, docs, refs, removal, query, unseen>>
  PROVE  IInv'
<1>1. /\ build' \in [Engines -> [step : Steps, left : SUBSET Files]]
      /\ build'[e].step = step
      /\ \A x \in Engines : x # e => build'[x] = build[x]
  BY Went DEF IInv, Steps
<1>2. /\ Owns(e)' /\ \A x \in Engines : Owns(x) => Owns(x)'
      /\ TypeOK' /\ FilesOwn'
  BY <1>1, Created DEF IInv, TypeOK, Steps
<1>3. HoldersOwn'
  BY <1>1, <1>2 DEF IInv, HoldersOwn
<1>4. IndexOwn'
  BY <1>2 DEF IInv, IndexOwn
<1>5. QueryOK'
  BY DEF IInv, QueryOK
<1> QED BY <1>2, <1>3, <1>4, <1>5 DEF IInv

\* Every step of the builds and of the deletions keeps the invariant.
LEMMA BuildKeeps ==
  ASSUME IInv, NEW e \in Engines,
         \/ SaveModel(e)          \/ CreateDataStore(e) \/ ImportDocuments(e)
         \/ CreateSearchEngine(e) \/ SaveIndexId(e)     \/ SaveDocument(e)
         \/ BuildRaises(e)        \/ CreationRaisesLate(e) \/ BuildCleansUp(e)
         \/ ClientDeletes(e)      \/ CreationFailsUnseen(e)
         \/ Remove(e, "build")    \/ Remove(e, "client")
  PROVE  IInv'
<1> USE VertexAssumption
<1>t. TypeOK /\ HoldersOwn /\ IndexOwn /\ FilesOwn /\ QueryOK
  BY DEF IInv
<1>g. ASSUME NEW step \in Steps, Goto(e, step)
      PROVE  /\ build' \in [Engines -> [step : Steps, left : SUBSET Files]]
             /\ build'[e].step = step
             /\ \A x \in Engines : x # e => build'[x] = build[x]
  BY <1>g, <1>t, Went
<1>e. ASSUME Goto(e, "except")
      PROVE  /\ build' \in [Engines -> [step : Steps, left : SUBSET Files]]
             /\ \A x \in Engines : build'[x].step \in Holding =>
                                     build[x].step \in Holding
  BY <1>e, <1>g DEF Steps, Holding
<1>1. CASE SaveModel(e)
  <2>1. Goto(e, "create")
    BY <1>1 DEF SaveModel
  <2>2. build' \in [Engines -> [step : Steps, left : SUBSET Files]] /\
        \A x \in Engines : build'[x].step \in Holding => build[x].step \in Holding
    BY <2>1, <1>g DEF Steps, Holding
  <2>3. TypeOK'
    BY <1>1, <2>2, <1>t DEF SaveModel, TypeOK, Steps
  <2> QED BY <1>1, <2>2, <2>3, SameStores DEF SaveModel, IInv
<1>2. CASE CreateDataStore(e)
  <2>1. CASE store[Id[e]] # NoStore
    <3>1. Goto(e, "except") /\ store' = store
      BY <1>2, <2>1 DEF CreateDataStore
    <3>2. TypeOK'
      BY <1>2, <1>t, <1>e, <3>1 DEF CreateDataStore, TypeOK, Steps
    <3> QED BY <1>2, <1>e, <3>1, <3>2, SameStores DEF CreateDataStore, IInv
  <2>2. CASE store[Id[e]] = NoStore
    BY <1>2, <2>2, NewStore DEF CreateDataStore
  <2> QED BY <2>1, <2>2
<1>3. CASE ImportDocuments(e)
  <2>0. Id[e] \in Ids /\ Owns(e) /\ At(e, "import")
    BY <1>3, <1>t DEF ImportDocuments, At, HoldersOwn, Holding
  <2>1. CASE store[Id[e]] = NoStore
    <3>1. Goto(e, "except") /\ UNCHANGED <<store, indexId, query, unseen>>
      BY <1>3, <2>1 DEF ImportDocuments
    <3>2. TypeOK'
      BY <1>3, <1>t, <1>e, <3>1 DEF ImportDocuments, TypeOK, Steps
    <3> QED BY <1>e, <3>1, <3>2, SameStores DEF IInv
  <2>2. CASE store[Id[e]] # NoStore
    <3>1. PICK imported \in SUBSET FilesOf[e] :
            store' = [store EXCEPT ![Id[e]].files = @ \cup imported]
      BY <1>3, <2>2 DEF ImportDocuments
    <3>2. /\ build' = [build EXCEPT ![e] = [step |-> "engine", left |-> FilesOf[e]]]
          /\ UNCHANGED <<model, indexId, app, docs, refs, removal, query, unseen>>
      BY <1>3, <2>2 DEF ImportDocuments
    <3>3. /\ store' \in [Ids -> [by : Engines \cup {None}, files : SUBSET Files]]
          /\ \A i \in Ids : store'[i].by = store[i].by
          /\ store'[Id[e]].files = store[Id[e]].files \cup imported
          /\ \A i \in Ids : i # Id[e] => store'[i] = store[i]
      BY <2>0, <3>1, <1>t DEF TypeOK
    <3>4. \A x \in Engines : Owns(x)' <=> Owns(x)
      BY <3>2, <3>3 DEF Owns, Unseen
    <3>5. store[Id[e]].by # None
      <4>1. store[Id[e]] \in [by : Engines \cup {None}, files : SUBSET Files]
        BY <2>0, <1>t DEF TypeOK
      <4>2. store[Id[e]].by = None => store[Id[e]].files = {}
        BY <2>0, <1>t DEF FilesOwn
      <4> QED BY <2>2, <4>1, <4>2 DEF NoStore
    <3>6. FilesOwn'
      <4> SUFFICES ASSUME NEW i \in Ids
                   PROVE  /\ store'[i].by = None => store'[i].files = {}
                          /\ \A f \in store'[i].files : \E x \in Engines :
                               Id[x] = i /\ f \in FilesOf[x] /\ Owns(x)'
        BY DEF FilesOwn
      <4>1. CASE i = Id[e]
        BY <2>0, <3>3, <3>4, <3>5, <4>1, <1>t DEF FilesOwn
      <4>2. CASE i # Id[e]
        BY <3>3, <3>4, <4>2, <1>t DEF FilesOwn
      <4> QED BY <4>1, <4>2
    <3>7. TypeOK'
      BY <3>2, <3>3, <1>t DEF TypeOK
    <3>8. \A x \in Engines : x # e => build'[x] = build[x]
      BY <3>2, <1>t DEF TypeOK
    <3>9. HoldersOwn' /\ IndexOwn'
      BY <2>0, <3>2, <3>4, <3>8, <1>t DEF HoldersOwn, IndexOwn
    <3>10. QueryOK'
      BY <3>2, <1>t DEF QueryOK
    <3> QED BY <3>6, <3>7, <3>9, <3>10 DEF IInv
  <2> QED BY <2>1, <2>2
<1>4. CASE CreateSearchEngine(e)
  <2>1. /\ build' \in [Engines -> [step : Steps, left : SUBSET Files]]
        /\ \A x \in Engines : build'[x].step \in Holding => build[x].step \in Holding
    <3>1. Goto(e, "except") \/ (At(e, "engine") /\ Goto(e, "index"))
      BY <1>4 DEF CreateSearchEngine
    <3> QED BY <3>1, <1>g, <1>e DEF Steps, Holding, At
  <2>2. app' \in [Ids -> Engines \cup {None}]
    BY <1>4, <1>t DEF CreateSearchEngine, TypeOK
  <2>3. TypeOK'
    BY <1>4, <2>1, <2>2, <1>t DEF CreateSearchEngine, TypeOK, Steps
  <2> QED BY <1>4, <2>1, <2>3, SameStores DEF CreateSearchEngine, IInv
<1>5. CASE SaveIndexId(e)
  <2>1. CASE model[e] # "live"
    <3>1. Goto(e, "except") /\ indexId' = indexId
      BY <1>5, <2>1 DEF SaveIndexId
    <3>2. TypeOK'
      BY <1>5, <1>t, <1>e, <3>1 DEF SaveIndexId, TypeOK, Steps
    <3> QED BY <1>5, <1>e, <3>1, <3>2, SameStores DEF SaveIndexId, IInv
  <2>2. CASE model[e] = "live"
    <3>1. At(e, "index") /\ Goto(e, "docs") /\ indexId' = [indexId EXCEPT ![e] = Id[e]]
      BY <1>5, <2>2 DEF SaveIndexId
    <3>2. /\ build' \in [Engines -> [step : Steps, left : SUBSET Files]]
          /\ \A x \in Engines : build'[x].step \in Holding =>
                                  build[x].step \in Holding
      BY <3>1, <1>g DEF Steps, Holding, At
    <3>3. TypeOK'
      BY <1>5, <3>1, <3>2, <1>t DEF SaveIndexId, TypeOK, Steps
    <3>4. Owns(e) /\ \A x : Owns(x)' <=> Owns(x)
      BY <1>5, <3>1, <1>t DEF SaveIndexId, At, HoldersOwn, Holding, Owns, Unseen
    <3>5. HoldersOwn' /\ IndexOwn' /\ FilesOwn' /\ QueryOK'
      BY <1>5, <3>1, <3>2, <3>4, <1>t
      DEF SaveIndexId, TypeOK, HoldersOwn, IndexOwn, FilesOwn, QueryOK
    <3> QED BY <3>3, <3>5 DEF IInv
  <2> QED BY <2>1, <2>2
<1>6. CASE SaveDocument(e)
  <2>1. CASE \E f \in build[e].left :
               /\ docs' = docs \cup {[engine |-> e, file |-> f, by |-> e]}
               /\ build' = [build EXCEPT ![e].left = @ \ {f}]
    <3>1. PICK f \in build[e].left :
            /\ docs' = docs \cup {[engine |-> e, file |-> f, by |-> e]}
            /\ build' = [build EXCEPT ![e].left = @ \ {f}]
      BY <2>1
    <3>2. [engine |-> e, file |-> f, by |-> e] \in Document
      BY <1>t, <3>1 DEF TypeOK, Document, Makers
    <3>3. /\ build' \in [Engines -> [step : Steps, left : SUBSET Files]]
          /\ \A x \in Engines : build'[x].step = build[x].step
      BY <3>1, <1>t DEF TypeOK, Steps
    <3>4. TypeOK'
      BY <1>6, <1>t, <3>1, <3>2, <3>3 DEF SaveDocument, TypeOK, Steps
    <3> QED BY <1>6, <3>3, <3>4, SameStores DEF SaveDocument, IInv
  <2>2. CASE Goto(e, "done") /\ UNCHANGED docs
    <3>1. /\ build' \in [Engines -> [step : Steps, left : SUBSET Files]]
          /\ \A x \in Engines : build'[x].step \in Holding =>
                                  build[x].step \in Holding
      BY <1>6, <2>2, <1>g DEF SaveDocument, Steps, Holding, At
    <3>2. TypeOK'
      BY <1>6, <2>2, <1>t, <3>1 DEF SaveDocument, TypeOK, Steps
    <3> QED BY <1>6, <3>1, <3>2, SameStores DEF SaveDocument, IInv
  <2> QED BY <1>6, <2>1, <2>2 DEF SaveDocument
<1>7. CASE BuildRaises(e)
  <2>1. TypeOK'
    BY <1>7, <1>e, <1>t DEF BuildRaises, TypeOK, Steps
  <2> QED BY <1>7, <1>e, <2>1, SameStores DEF BuildRaises, IInv
<1>8. CASE CreationRaisesLate(e)
  <2>1. CASE /\ store[Id[e]] = NoStore
             /\ store' = [store EXCEPT ![Id[e]].by = e]
             /\ UNCHANGED app
    BY <1>8, <2>1, NewStore DEF CreationRaisesLate
  <2>2. CASE app' = [app EXCEPT ![Id[e]] = e] /\ UNCHANGED store
    <3>1. TypeOK'
      BY <1>8, <2>2, <1>e, <1>t DEF CreationRaisesLate, TypeOK, Steps
    <3> QED BY <1>8, <1>e, <2>2, <3>1, SameStores DEF CreationRaisesLate, IInv
  <2> QED BY <1>8, <2>1, <2>2 DEF CreationRaisesLate
<1>9. CASE BuildCleansUp(e)
  <2>1. /\ build' \in [Engines -> [step : Steps, left : SUBSET Files]]
        /\ \A x \in Engines : build'[x].step \in Holding => build[x].step \in Holding
    <3>1. Goto(e, "failed")
      BY <1>9 DEF BuildCleansUp
    <3> QED BY <3>1, <1>g DEF Steps, Holding
  <2>2. removal' \in [Removers -> {"idle", "docs", "refs", "model", "done"}]
    BY <1>9, <1>t DEF BuildCleansUp, TypeOK
  <2>3. TypeOK'
    BY <1>9, <2>1, <2>2, <1>t DEF BuildCleansUp, DeleteVertexSearch, TypeOK, Steps
  <2> QED
    BY <1>9, <2>1, <2>3, SameStores DEF BuildCleansUp, DeleteVertexSearch, IInv
<1>10. CASE ClientDeletes(e)
  <2>1. removal' \in [Removers -> {"idle", "docs", "refs", "model", "done"}]
    BY <1>10, <1>t DEF ClientDeletes, TypeOK
  <2>2. TypeOK'
    BY <1>10, <2>1, <1>t DEF ClientDeletes, DeleteVertexSearch, TypeOK
  <2> QED
    BY <1>10, <2>2, SameStores DEF ClientDeletes, DeleteVertexSearch, IInv
<1>11. ASSUME NEW by \in {"build", "client"}, Remove(e, by) PROVE IInv'
  <2>1. TypeOK'
    BY <1>11, <1>t DEF Remove, Removers, TypeOK
  <2> QED BY <1>11, <2>1, SameStores DEF Remove, IInv
<1>12. CASE CreationFailsUnseen(e)
  <2>1. PICK step \in {"import", "index"} : Goto(e, step)
    BY <1>12 DEF CreationFailsUnseen
  <2>2. PICK what \in {"store", "app"} :
          /\ unseen' = unseen \cup {<<e, what>>}
          /\ what = "store" \/ build[e].step \in Holding
    BY <1>12 DEF CreationFailsUnseen, At, Holding
  <2>3. UNCHANGED <<model, indexId, store, app, docs, refs, removal, query>>
    BY <1>12 DEF CreationFailsUnseen
  <2>4. /\ build' \in [Engines -> [step : Steps, left : SUBSET Files]]
        /\ \A x \in Engines : x # e => build'[x] = build[x]
    BY <2>1, <1>g DEF Steps
  <2>5. TypeOK'
    BY <2>2, <2>3, <2>4, <1>t DEF TypeOK, Steps
  <2>6. Owns(e)' /\ \A x \in Engines : Owns(x) => Owns(x)'
    BY <2>2, <2>3, <1>t DEF Owns, Unseen, HoldersOwn
  <2>7. HoldersOwn' /\ IndexOwn' /\ FilesOwn' /\ QueryOK'
    BY <2>3, <2>4, <2>6, <1>t DEF HoldersOwn, IndexOwn, FilesOwn, QueryOK
  <2> QED BY <2>5, <2>7 DEF IInv
<1> QED
  BY <1>1, <1>2, <1>3, <1>4, <1>5, <1>6, <1>7, <1>8, <1>9, <1>10, <1>11, <1>12

LEMMA NextIInv == IInv /\ [Next]_vars => IInv'
<1> SUFFICES ASSUME IInv, [Next]_vars PROVE IInv'
  OBVIOUS
<1>1. ASSUME NEW q \in Queries, QueryStep(q) PROVE IInv'
  BY <1>1, QueryKeeps DEF IInv, HoldersOwn, IndexOwn, FilesOwn, Owns, Unseen
<1>2. CASE UNCHANGED vars
  BY <1>2 DEF vars, IInv, TypeOK, HoldersOwn, IndexOwn, FilesOwn, QueryOK, Owns, Unseen
<1> QED BY <1>1, <1>2, BuildKeeps DEF Next, QueryStep

THEOREM Invariance == Spec => []IInv
BY InitIInv, NextIInv, PTL DEF Spec

\* The types of the documents, of the service's resources and of the requests.
THEOREM TypeCorrect == Spec => []TypeOK
<1>1. IInv => TypeOK
  BY DEF IInv
<1> QED BY <1>1, Invariance, PTL

\* The files of an engine's data store, while no creation of its id failed unseen.
LEMMA OwnFiles ==
  ASSUME IInv, NEW e \in Engines, Owns(e), OnlyOwner(Id[e])
  PROVE  store[Id[e]].by = e /\ store[Id[e]].files \subseteq FilesOf[e]
<1>1. \A x \in Engines : Id[x] = Id[e] => ~Unseen(x, "store")
  BY DEF OnlyOwner, Unseen
<1>2. store[Id[e]].by = e
  BY <1>1 DEF Owns
<1>3. ASSUME NEW f \in store[Id[e]].files PROVE f \in FilesOf[e]
  <2>1. PICK x \in Engines : Id[x] = Id[e] /\ f \in FilesOf[x] /\ Owns(x)
    BY <1>3, VertexAssumption DEF IInv, FilesOwn
  <2>2. x = e
    BY <1>1, <1>2, <2>1 DEF Owns
  <2> QED BY <2>1, <2>2
<1> QED BY <1>2, <1>3

\* However many engines ask for one data store id, and wherever their builds
\* fail, a query engine's index is the store its own build created, and that
\* store holds files of its own source only, as far as no creation of that id
\* failed unseen: vertex_search.py, build and query.
THEOREM OwnStoreSound == Spec => []OwnStore
<1>1. IInv => OwnStore
  <2> SUFFICES ASSUME IInv, NEW e \in Engines, indexId[e] # None
               PROVE  /\ <<e, "store">> \notin unseen => store[indexId[e]].by = e
                      /\ OnlyOwner(indexId[e]) =>
                           store[indexId[e]].files \subseteq FilesOf[e]
    BY DEF OwnStore
  <2>1. indexId[e] = Id[e] /\ Owns(e)
    BY DEF IInv, IndexOwn
  <2> QED BY <2>1, OwnFiles DEF Owns, Unseen
<1> QED BY <1>1, Invariance, PTL
-----------------------------------------------------------------------------
(* Documents and references *)

Past == {"index", "docs", "done"}       \* builds with a search engine
Listed == {"engine"} \cup Past          \* builds whose files are reported

Kept(e, f) == \E d \in docs : d.engine = e /\ d.file = f

\* Nobody who deletes the engine has got past its documents.
Standing(e) == \A by \in {"build", "client"} : removal[<<e, by>>] \in {"idle", "docs"}

\* A build owes each file a document, and pays with those it has left.
BuildOwes ==
  \A e \in Engines :
    /\ build[e].step \in Past => app[Id[e]] = e \/ Unseen(e, "app")
    /\ removal[<<e, "build">>] # "idle" => build[e].step = "failed"
    /\ build[e].step = "done" => build[e].left = {}
    /\ build[e].left \subseteq FilesOf[e]
    /\ build[e].step \in Listed /\ removal[<<e, "client">>] = "idle" =>
         \A f \in FilesOf[e] : f \in build[e].left \/ Kept(e, f)

\* A file is of its engine's source, unless files of others can be imported.
Grounded(e, f) == OnlyOwner(Id[e]) => f \in FilesOf[e]

\* Documents are of files of their engine's source, those that a query has in
\* hand too, and what a reference names is there as long as the engine stands.
RefsInv ==
  /\ \A d \in docs \cup refs : Grounded(d.engine, d.file)
  /\ \A d \in refs : Standing(d.engine) => d \in docs
  /\ \A q \in Queries :
       /\ query[q].step # "idle" =>
            \A f \in query[q].left : Grounded(query[q].engine, f)
       /\ query[q].step \in {"create", "refer"} =>
            Grounded(query[q].doc.engine, query[q].doc.file)
       /\ query[q].step = "refer" =>
            (Standing(query[q].doc.engine) => query[q].doc \in docs)

LEMMA InitOwes == Init => BuildOwes /\ RefsInv
BY DEF Init, BuildOwes, RefsInv, Removers, NoQuery, Past, Listed

\* A step of a query adds documents, and references to documents.
LEMMA QueryRefs ==
  ASSUME IInv, BuildOwes, RefsInv, NEW q \in Queries, QueryStep(q)
  PROVE  BuildOwes' /\ RefsInv'
<1>1. UNCHANGED <<model, indexId, store, app, build, removal, unseen>>
  BY QueryKeeps
<1>g. \A e, f : Grounded(e, f)' <=> Grounded(e, f)
  BY <1>1 DEF Grounded, OnlyOwner
<1> HIDE DEF Grounded
<1>2. query \in [Queries -> QueryStates]
  BY DEF IInv, TypeOK, QueryStates
<1>3. \A e : Standing(e)' = Standing(e)
  BY <1>1 DEF Standing
<1>4. ASSUME docs \subseteq docs' PROVE BuildOwes'
  <2>1. \A e, f : Kept(e, f) => Kept(e, f)'
    BY <1>4 DEF Kept
  <2> QED BY <1>1, <2>1 DEF BuildOwes, Unseen
<1>5. CASE \E e \in Engines : Search(q, e)
  <2>1. PICK e \in Engines : Search(q, e)
    BY <1>5
  <2>2. \A f \in store[indexId[e]].files : Grounded(e, f)
    BY <2>1, OwnFiles DEF Search, IInv, IndexOwn, Grounded
  <2>3. PICK hits \in SUBSET store[indexId[e]].files :
          query' = [query EXCEPT ![q] = [step |-> "find", engine |-> e,
                                         left |-> hits, doc |-> None]]
    BY <2>1 DEF Search
  <2>4. UNCHANGED <<docs, refs>>
    BY <2>1 DEF Search
  <2> QED BY <1>2, <1>3, <1>4, <1>g, <2>2, <2>3, <2>4 DEF RefsInv
<1>6. CASE FindDocument(q)
  <2>1. PICK f \in query[q].left, step \in {"create", "refer"}, d \in Document :
          /\ Result(q, f, step, d)
          /\ \/ /\ step = "create"
                /\ d.engine = query[q].engine /\ d.file = f
             \/ step = "refer" /\ d \in docs
    <3>1. PICK f \in query[q].left :
            \/ Result(q, f, "create", [engine |-> query[q].engine, file |-> f, by |-> q])
            \/ \E d \in Found(query[q].engine, f) : Result(q, f, "refer", d)
      BY <1>6 DEF FindDocument
    <3>2. [engine |-> query[q].engine, file |-> f, by |-> q] \in Document
      BY <1>2, <1>6, <3>1 DEF FindDocument, IInv, QueryOK, QueryStates, Document, Makers
    <3>3. Found(query[q].engine, f) \subseteq docs /\ docs \subseteq Document
      BY DEF Found, IInv, TypeOK
    <3> QED BY <3>1, <3>2, <3>3
  <2>2. query[q].step = "find" /\ UNCHANGED <<docs, refs>>
    BY <1>6 DEF FindDocument
  <2>3. Grounded(d.engine, d.file)
    BY <2>1, <2>2 DEF RefsInv
  <2>4. query' = [query EXCEPT ![q] = [step |-> step, engine |-> query[q].engine,
                                       left |-> query[q].left \ {f}, doc |-> d]]
    BY <2>1 DEF Result
  <2> QED BY <1>2, <1>3, <1>4, <1>g, <2>1, <2>2, <2>3, <2>4 DEF RefsInv
<1>7. CASE CreateDocument(q)
  BY <1>2, <1>3, <1>4, <1>g, <1>7 DEF CreateDocument, RefsInv, QueryStates
<1>8. CASE SaveReference(q)
  BY <1>2, <1>3, <1>4, <1>g, <1>8 DEF SaveReference, RefsInv, QueryStates
<1>9. CASE Answer(q)
  BY <1>2, <1>3, <1>4, <1>g, <1>9 DEF Answer, NoQuery, RefsInv
<1> QED BY <1>5, <1>6, <1>7, <1>8, <1>9 DEF QueryStep

\* A step of a build that goes somewhere without new files or documents.
LEMMA WentOwes ==
  ASSUME IInv, BuildOwes, RefsInv, NEW e \in Engines, NEW step \in Steps, Goto(e, step),
         step \in Listed => build[e].step \in Listed,
         step \in Past => app'[Id[e]] = e \/ Unseen(e, "app")',
         step = "done" => build[e].left = {},
         \A x \in Engines : app[Id[x]] # None => app'[Id[x]] = app[Id[x]],
         build[e].step # "failed", unseen \subseteq unseen',
         UNCHANGED <<docs, refs, removal, query>>
  PROVE  BuildOwes' /\ RefsInv'
<1>1. /\ build'[e].step = step
      /\ \A x \in Engines : x # e => build'[x] = build[x]
      /\ \A x \in Engines : build'[x].left = build[x].left
  BY Went DEF IInv, TypeOK, Goto
<1>2. RefsInv'
  <2>1. \A x, f : Grounded(x, f) => Grounded(x, f)'
    BY DEF Grounded, OnlyOwner
  <2> HIDE DEF Grounded
  <2> QED BY <2>1 DEF RefsInv, Standing
<1>3. \A x, f : Kept(x, f)' = Kept(x, f)
  BY DEF Kept
<1>4. ASSUME NEW x \in Engines, build'[x].step \in Past
      PROVE  app'[Id[x]] = x \/ Unseen(x, "app")'
  <2>1. CASE x = e
    BY <1>1, <1>4, <2>1 DEF Unseen
  <2>2. CASE x # e
    <3>1. app[Id[x]] = x \/ Unseen(x, "app")
      BY <1>1, <1>4, <2>2 DEF BuildOwes
    <3>2. x # None
      BY VertexAssumption
    <3> QED BY <3>1, <3>2 DEF Unseen
  <2> QED BY <2>1, <2>2
<1>5. BuildOwes'
  BY <1>1, <1>3, <1>4 DEF BuildOwes
<1> QED BY <1>2, <1>5

\* Every step of the builds and of the deletions keeps documents and references.
LEMMA BuildRefs ==
  ASSUME IInv, BuildOwes, RefsInv, NEW e \in Engines,
         \/ SaveModel(e)          \/ CreateDataStore(e) \/ ImportDocuments(e)
         \/ CreateSearchEngine(e) \/ SaveIndexId(e)     \/ SaveDocument(e)
         \/ BuildRaises(e)        \/ CreationRaisesLate(e) \/ BuildCleansUp(e)
         \/ ClientDeletes(e)      \/ CreationFailsUnseen(e)
         \/ Remove(e, "build")    \/ Remove(e, "client")
  PROVE  BuildOwes' /\ RefsInv'
<1>t. /\ build \in [Engines -> [step : Steps, left : SUBSET Files]]
      /\ removal \in [Removers -> {"idle", "docs", "refs", "model", "done"}]
      /\ app \in [Ids -> Engines \cup {None}] /\ Id[e] \in Ids
  BY VertexAssumption DEF IInv, TypeOK, Steps
<1>u. ASSUME UNCHANGED unseen
      PROVE  /\ \A x : Unseen(x, "app")' <=> Unseen(x, "app")
             /\ \A x, f : Grounded(x, f)' <=> Grounded(x, f)
  BY <1>u DEF Unseen, Grounded, OnlyOwner
<1>1. CASE SaveModel(e)
  BY <1>1, WentOwes DEF SaveModel, At, Steps, Listed, Past
<1>2. CASE CreateDataStore(e)
  BY <1>2, WentOwes DEF CreateDataStore, At, Steps, Listed, Past
<1>3. CASE ImportDocuments(e) /\ store[Id[e]] = NoStore
  BY <1>3, WentOwes DEF ImportDocuments, At, Steps, Listed, Past
<1>13. CASE ImportDocuments(e) /\ store[Id[e]] # NoStore
  <2>1. /\ build' = [build EXCEPT ![e] = [step |-> "engine", left |-> FilesOf[e]]]
        /\ At(e, "import") /\ UNCHANGED <<app, docs, refs, removal, query, unseen>>
    BY <1>13 DEF ImportDocuments
  <2>2. \A x, f : Kept(x, f)' = Kept(x, f)
    BY <2>1 DEF Kept
  <2>3. /\ build'[e].step = "engine" /\ build'[e].left = FilesOf[e]
        /\ \A x \in Engines : x # e => build'[x] = build[x]
    BY <1>t, <2>1
  <2>4. BuildOwes'
    BY <1>u, <2>1, <2>2, <2>3 DEF BuildOwes, At, Past
  <2> QED BY <1>u, <2>1, <2>4 DEF RefsInv, Standing
<1>4. CASE CreateSearchEngine(e)
  <2>1. CASE app[Id[e]] # None
    BY <1>4, <2>1, WentOwes DEF CreateSearchEngine, At, Steps, Listed, Past
  <2>2. CASE app[Id[e]] = None
    <3>1. /\ Goto(e, "index") /\ At(e, "engine") /\ app' = [app EXCEPT ![Id[e]] = e]
          /\ UNCHANGED <<docs, refs, removal, query, unseen>>
      BY <1>4, <2>2 DEF CreateSearchEngine
    <3>2. \A x \in Engines : app[Id[x]] # None => app'[Id[x]] = app[Id[x]]
      BY <2>2, <1>t, <3>1, VertexAssumption
    <3> QED BY <1>t, <3>1, <3>2, WentOwes DEF At, Steps, Listed, Past
  <2> QED BY <2>1, <2>2
<1>5. CASE SaveIndexId(e)
  <2>1. /\ At(e, "index") /\ (app[Id[e]] = e \/ Unseen(e, "app"))
        /\ UNCHANGED <<app, docs, refs, removal, query, unseen>>
    BY <1>5 DEF SaveIndexId, BuildOwes, At, Past
  <2>2. Goto(e, "except") \/ Goto(e, "docs")
    BY <1>5 DEF SaveIndexId
  <2> QED BY <1>u, <2>1, <2>2, WentOwes DEF At, Steps, Listed, Past
<1>6. CASE SaveDocument(e)
  <2>1. /\ At(e, "docs") /\ (app[Id[e]] = e \/ Unseen(e, "app"))
        /\ UNCHANGED <<app, refs, removal, query, unseen>>
    BY <1>6 DEF SaveDocument, BuildOwes, At, Past
  <2>2. CASE \E f \in build[e].left :
               /\ docs' = docs \cup {[engine |-> e, file |-> f, by |-> e]}
               /\ build' = [build EXCEPT ![e].left = @ \ {f}]
    <3>1. PICK f \in build[e].left :
            /\ docs' = docs \cup {[engine |-> e, file |-> f, by |-> e]}
            /\ build' = [build EXCEPT ![e].left = @ \ {f}]
      BY <2>2
    <3>2. /\ \A x \in Engines : build'[x].step = build[x].step
          /\ \A x \in Engines : x # e => build'[x].left = build[x].left
          /\ build'[e].left = build[e].left \ {f}
      BY <1>t, <3>1
    <3>3. \A x, g : Kept(x, g) => Kept(x, g)'
      BY <3>1 DEF Kept
    <3>4. Kept(e, f)'
      <4>1. [engine |-> e, file |-> f, by |-> e] \in docs'
        BY <3>1
      <4> QED BY <4>1 DEF Kept
    <3>5. BuildOwes'
      BY <1>u, <2>1, <3>2, <3>3, <3>4 DEF BuildOwes, At
    <3>6. \A x : Standing(x)' = Standing(x)
      BY <2>1 DEF Standing
    <3>7. \A d \in docs' : d \in docs \/ (d.engine = e /\ d.file = f)
      BY <3>1
    <3>8. f \in FilesOf[e] /\ docs \subseteq docs'
      BY <3>1 DEF BuildOwes
    <3>9. RefsInv'
      <4>1. UNCHANGED <<refs, query>>
        BY <2>1
      <4>2. \A d \in docs' \cup refs : Grounded(d.engine, d.file)'
        <5>1. Grounded(e, f)
          BY <3>8 DEF Grounded
        <5> QED BY <1>u, <2>1, <3>7, <5>1 DEF RefsInv
      <4>3. \A d \in docs : d \in docs'
        BY <3>8
      <4> QED BY <1>u, <2>1, <3>6, <4>1, <4>2, <4>3 DEF RefsInv
    <3> QED BY <3>5, <3>9
  <2>3. CASE build[e].left = {} /\ Goto(e, "done") /\ UNCHANGED docs
    BY <1>u, <2>1, <2>3, WentOwes DEF At, Steps, Listed, Past
  <2> QED BY <1>6, <2>2, <2>3 DEF SaveDocument
<1>7. CASE BuildRaises(e)
  BY <1>7, WentOwes DEF BuildRaises, At, Steps, Listed, Past
<1>8. CASE CreationRaisesLate(e)
  <2>1. /\ Goto(e, "except") /\ build[e].step # "failed"
        /\ UNCHANGED <<docs, refs, removal, query, unseen>>
    BY <1>8 DEF CreationRaisesLate, At
  <2>2. \/ UNCHANGED app
        \/ app[Id[e]] = None /\ app' = [app EXCEPT ![Id[e]] = e]
    BY <1>8 DEF CreationRaisesLate
  <2>3. \A x \in Engines : app[Id[x]] # None => app'[Id[x]] = app[Id[x]]
    BY <1>t, <2>2, VertexAssumption
  <2> QED BY <2>1, <2>3, WentOwes DEF Steps, Listed, Past
<1>9. CASE BuildCleansUp(e)
  <2>1. /\ At(e, "except") /\ Goto(e, "failed")
        /\ UNCHANGED <<app, docs, refs, query, unseen>>
        /\ removal' = [removal EXCEPT ![<<e, "build">>] = "docs"]
    BY <1>9 DEF BuildCleansUp, DeleteVertexSearch
  <2>2. /\ build'[e].step = "failed"
        /\ \A x \in Engines : x # e => build'[x] = build[x]
        /\ \A x \in Engines : build'[x].left = build[x].left
    BY <1>t, <2>1 DEF Goto
  <2>3. /\ \A x \in Engines : removal'[<<x, "client">>] = removal[<<x, "client">>]
        /\ \A x \in Engines : x # e => removal'[<<x, "build">>] = removal[<<x, "build">>]
        /\ removal[<<e, "build">>] = "idle"
    BY <1>t, <2>1 DEF Removers, BuildOwes, At
  <2>4. \A x \in Engines : Standing(x)' = Standing(x)
    BY <1>t, <2>1, <2>3 DEF Standing, Removers
  <2>5. \A x, f : Kept(x, f)' = Kept(x, f)
    BY <2>1 DEF Kept
  <2>7. BuildOwes'
    BY <1>u, <2>1, <2>2, <2>3, <2>5 DEF BuildOwes, Past, Listed
  <2>6. RefsInv'
    BY <1>u, <2>1, <2>4 DEF RefsInv, IInv, TypeOK, QueryOK, Document
  <2> QED BY <2>6, <2>7
<1>10. CASE ClientDeletes(e)
  <2>1. /\ UNCHANGED <<app, docs, refs, build, query, unseen>>
        /\ removal[<<e, "client">>] = "idle"
        /\ removal' = [removal EXCEPT ![<<e, "client">>] = "docs"]
    BY <1>10 DEF ClientDeletes, DeleteVertexSearch
  <2>2. /\ \A x \in Engines : removal'[<<x, "build">>] = removal[<<x, "build">>]
        /\ \A x \in Engines :
             x # e => removal'[<<x, "client">>] = removal[<<x, "client">>]
        /\ removal'[<<e, "client">>] = "docs"
    BY <1>t, <2>1 DEF Removers
  <2>3. \A x \in Engines : Standing(x)' = Standing(x)
    BY <1>t, <2>1, <2>2 DEF Standing, Removers
  <2>4. BuildOwes'
    <3>1. \A x, f : Kept(x, f)' = Kept(x, f)
      BY <2>1 DEF Kept
    <3> QED BY <1>u, <2>1, <2>2, <3>1 DEF BuildOwes
  <2>5. RefsInv'
    BY <1>u, <2>1, <2>3 DEF RefsInv, IInv, TypeOK, QueryOK, Document
  <2> QED BY <2>4, <2>5
<1>11. ASSUME NEW by \in {"build", "client"}, Remove(e, by)
       PROVE  BuildOwes' /\ RefsInv'
  <2>1. /\ UNCHANGED <<app, build, query, unseen>>
        /\ removal[<<e, by>>] \in {"docs", "refs", "model"}
        /\ refs' \subseteq refs
        /\ \/ docs' = docs /\ removal[<<e, by>>] # "docs"
           \/ docs' = {d \in docs : d.engine # e}
    BY <1>11 DEF Remove
  <2>2. PICK step \in {"refs", "model", "done"} :
          removal' = [removal EXCEPT ![<<e, by>>] = step]
    BY <1>11 DEF Remove
  <2>3. /\ \A r \in Removers : r # <<e, by>> => removal'[r] = removal[r]
        /\ removal'[<<e, by>>] = step
    BY <1>t, <2>2 DEF Removers
  <2>4. /\ ~Standing(e)' /\ \A x \in Engines : x # e => Standing(x)' = Standing(x)
    BY <2>3 DEF Standing, Removers
  <2>5. \A x \in Engines : \A f : x # e /\ Kept(x, f) => Kept(x, f)'
    BY <2>1 DEF Kept
  <2>6. ASSUME NEW x \in Engines, build[x].step \in Listed, removal'[<<x, "client">>] = "idle"
        PROVE  \A f \in FilesOf[x] : f \in build[x].left \/ Kept(x, f)'
    <3>1. x # e
      BY <2>1, <2>3, <2>6 DEF BuildOwes, Listed, Past
    <3> QED BY <2>3, <2>5, <2>6, <3>1 DEF BuildOwes, Removers
  <2>7. \A x \in Engines : removal'[<<x, "build">>] # "idle" => build[x].step = "failed"
    BY <2>1, <2>3 DEF BuildOwes, Removers
  <2>8. BuildOwes'
    BY <1>u, <2>1, <2>6, <2>7 DEF BuildOwes
  <2>9. \A d \in Document : Standing(d.engine)' => Standing(d.engine) /\ d.engine # e
    BY <2>4 DEF Document
  <2>10. RefsInv'
    BY <1>u, <2>1, <2>9 DEF RefsInv, IInv, TypeOK, QueryOK
  <2> QED BY <2>8, <2>10
<1>12. CASE CreationFailsUnseen(e)
  BY <1>12, WentOwes DEF CreationFailsUnseen, At, Steps, Listed, Past, Unseen
<1> QED
  BY <1>1, <1>2, <1>3, <1>4, <1>5, <1>6, <1>7, <1>8, <1>9, <1>10, <1>11, <1>12, <1>13

LEMMA RefsInvariance == Spec => [](IInv /\ BuildOwes /\ RefsInv)
<1>1. IInv /\ BuildOwes /\ RefsInv /\ [Next]_vars => BuildOwes' /\ RefsInv'
  <2> SUFFICES ASSUME IInv, BuildOwes, RefsInv, [Next]_vars PROVE BuildOwes' /\ RefsInv'
    OBVIOUS
  <2>1. CASE UNCHANGED vars
    BY <2>1 DEF vars, BuildOwes, RefsInv, Kept, Standing, Unseen, Grounded, OnlyOwner
  <2> QED BY <2>1, QueryRefs, BuildRefs DEF Next, QueryStep
<1> QED BY <1>1, InitIInv, InitOwes, NextIInv, PTL DEF Spec

\* A build that returned owns the search engine of its id, or the creation of that
\* had failed before anybody waited for it, and every file it reported has a
\* document model until a client deletes the engine.
THEOREM FinishedSound == Spec => []FinishedIsComplete
<1>1. BuildOwes => FinishedIsComplete
  BY DEF BuildOwes, FinishedIsComplete, Kept, At, Past, Listed, Unseen
<1> QED BY <1>1, RefsInvariance, PTL

\* A reference is of a file of its engine's source, while no creation of its data
\* store's id failed unseen, and its document model is there until somebody, a
\* failed build or a client, deletes the engine.
THEOREM ReferencesSound == Spec => []ReferencesResolve
<1>1. RefsInv => ReferencesResolve
  BY DEF RefsInv, ReferencesResolve, Standing, Grounded
<1> QED BY <1>1, RefsInvariance, PTL
=============================================================================
