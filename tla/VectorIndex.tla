---------------------------- MODULE VectorIndex ----------------------------
(***************************************************************************)
(* How a query engine's vector store is filled and published, for both     *)
(* kinds of store (vector_store.py, embeddings.py, and build_doc_index of  *)
(* query_service.py as far as it calls them).  The chunks of a document    *)
(* are embedded in batches, each in a thread of its own; they end in any   *)
(* order and any of them may fail.  PGVector is handed the rows of a       *)
(* document in one call and is searched by them at once.  The Matching     *)
(* Engine store goes through a document in rounds, writes the embeddings   *)
(* of each round to a file in a new directory, uploads the directory it    *)
(* used last, and makes an index of the bucket and an endpoint when all    *)
(* documents are there.                                                    *)
(* A document is known by its place in the build.  An embedding is known   *)
(* by the chunk it was computed from.  Documents have different file stems.*)
(***************************************************************************)
EXTENDS Integers, Sequences

CONSTANTS
  Sizes,    \* the documents of a build in order: how many chunks each has
  Process,  \* MAX_NUM_TEXT_CHUNK_PROCESS: how many chunks one round takes
  Stores,   \* the kinds of store a build may use: pgvector, matching
  Items,    \* ITEMS_PER_REQUEST: how many chunks a batch has
  Faults    \* which of FaultKinds may happen

FaultKinds == {"embed",    \* a batch cannot be embedded
               "store",    \* the store or the bucket raises
               "lost",     \* ... after it has done what it was asked
               "save",     \* a document indexed cannot be recorded
               "cloud"}    \* an index or an endpoint cannot be made

ASSUME IndexAssumption ==
  /\ Sizes \in Seq(Nat \ {0})
  /\ Process \in Nat \ {0}
  /\ Stores \subseteq {"pgvector", "matching"}
  /\ Items \in Nat \ {0}
  /\ Faults \subseteq FaultKinds

Documents == DOMAIN Sizes

VARIABLES
  store,      \* the kind of store
  step,       \* where the build stands
  pos,        \* the document it is at
  base,       \* index_base between documents
  first,      \* chunk_index: how many chunks of the document are embedded
  ended,      \* the batches that have ended, with their result, in order
  files,      \* the directory written last
  rows,       \* PGVector
  bucket,     \* the files uploaded
  index,      \* the Matching Engine index
  endpoint,   \* does the engine have the name of an endpoint?
  deployed,   \* is the index deployed to it?
  engine,     \* query_engines: live, its documents going, gone
  docs,       \* query_documents: each document recorded, with index_start
  lost        \* history: was an answer lost, or a document not recorded?

vars == <<store, step, pos, base, first, ended, files, rows, bucket, index,
          endpoint, deployed, engine, docs, lost>>
cloud == <<store, bucket, index, endpoint, deployed, engine>>

Init ==
  /\ store \in Stores
  /\ step = "open" /\ pos = 1 /\ base = 0 /\ first = 0 /\ ended = <<>>
  /\ files = {} /\ rows = {} /\ bucket = {} /\ index = {}
  /\ endpoint = FALSE /\ deployed = FALSE /\ engine = "live"
  /\ docs = {} /\ lost = FALSE

-----------------------------------------------------------------------------
(* embeddings.py *)

\* The chunks this round takes: all that are left, or at most Process.
Left == Sizes[pos] - first
Taken == IF store = "matching" /\ Left > Process THEN Process ELSE Left

\* _generate_batches: the b-th batch starts behind (b - 1) * Items chunks.
Start(b) == (b - 1) * Items
Batches == {b \in 1 .. Taken : Start(b) < Taken}
Slice(b) == {k \in 1 .. Taken : Start(b) < k /\ k <= Start(b) + Items}

Results == {"vectors", "none", "raised"}
Batch == [batch : Nat, result : Results]

Running(b) == \A i \in DOMAIN ended : ended[i].batch # b

\* A thread of the pool ends.  A Vertex model that cannot be had makes a batch
\* of Nones, the other models raise.
BatchEnds(b) ==
  /\ step = "embedding" /\ Running(b)
  /\ \E result \in (IF "embed" \in Faults THEN Results ELSE {"vectors"}) :
       ended' = Append(ended, [batch |-> b, result |-> result])
  /\ UNCHANGED <<step, pos, base, first, files, rows, docs, lost, cloud>>

\* The pool is left when every thread has ended.
Gathered == step = "embedding" /\ \A b \in Batches : ~Running(b)
Embedded == \A i \in DOMAIN ended : ended[i].result = "vectors"

\* (mutant) The results are taken in the order in which the threads end.
PlaceAsEnded(b) == ((CHOOSE i \in DOMAIN ended : ended[i].batch = b) - 1) * Items

\* asyncio.gather returns the results in the order of its arguments: the
\* vectors of the b-th batch follow those of the batches before it.
Place(b) == Start(b)

\* The vectors of the round, numbered from index_base on.
Numbered ==
  UNION {{[id |-> base + first + Place(b) + (k - Start(b)) - 1,
           text |-> <<pos, first + k>>] : k \in Slice(b)} : b \in Batches}

-----------------------------------------------------------------------------
(* index_document *)

\* init_index creates the bucket of a Matching Engine store.
InitIndex ==
  /\ step = "open"
  /\ step' = "next"
  /\ UNCHANGED <<pos, base, first, ended, files, rows, docs, lost, cloud>>

StartDocument ==
  /\ step = "next" /\ pos <= Len(Sizes)
  /\ step' = "embedding"
  /\ UNCHANGED <<pos, base, first, ended, files, rows, docs, lost, cloud>>

\* Whatever index_document raises: process_documents passes the document over.
Skipped ==
  /\ step' = "next" /\ pos' = pos + 1 /\ first' = 0 /\ ended' = <<>> /\ files' = {}

SkipDocument ==
  /\ \/ Gathered /\ ~Embedded
     \/ /\ "store" \in Faults
        /\ \/ step = "upload"
           \/ store = "pgvector" /\ Gathered
  /\ Skipped
  /\ UNCHANGED <<base, rows, docs, lost, cloud>>

\* index_document returns.
Added ==
  /\ step' = "added" /\ first' = 0 /\ ended' = <<>> /\ files' = {}
  /\ UNCHANGED pos

\* The store has done what it was asked: index_document hears of it or raises.
Answered ==
  \/ Added /\ UNCHANGED lost
  \/ "lost" \in Faults /\ Skipped /\ lost' = TRUE

\* LangChainVectorStore: add_embeddings in one call.
AddRows ==
  /\ store = "pgvector" /\ Gathered /\ Embedded
  /\ rows' = rows \cup Numbered
  /\ Answered
  /\ UNCHANGED <<base, docs, cloud>>

\* (mutant) The numbers of a round start from those of the document.
WriteRoundFromBase ==
  /\ store = "matching" /\ Gathered /\ Embedded
  /\ files' = {[x EXCEPT !.id = @ - first] : x \in Numbered}
  /\ first' = first + Taken /\ ended' = <<>>
  /\ step' = IF first' < Sizes[pos] THEN "embedding" ELSE "upload"
  /\ UNCHANGED <<pos, base, rows, docs, lost, cloud>>

\* MatchingEngineVectorStore: every round makes a directory and forgets the
\* one before.
WriteRound ==
  /\ store = "matching" /\ Gathered /\ Embedded
  /\ files' = Numbered
  /\ first' = first + Taken /\ ended' = <<>>
  /\ step' = IF first' < Sizes[pos] THEN "embedding" ELSE "upload"
  /\ UNCHANGED <<pos, base, rows, docs, lost, cloud>>

Upload ==
  /\ step = "upload"
  /\ bucket' = bucket \cup files
  /\ Answered
  /\ UNCHANGED <<store, base, rows, index, endpoint, deployed, engine, docs>>

\* QueryDocument and its chunks are saved under the indexes the document got,
\* and index_base moves on.
Record ==
  /\ step = "added"
  /\ docs' = docs \cup {[doc |-> pos, first |-> base]}
  /\ base' = base + Sizes[pos]
  /\ step' = "next" /\ pos' = pos + 1
  /\ UNCHANGED <<first, ended, files, rows, lost, cloud>>

-----------------------------------------------------------------------------
(* deploy, and the end of the build *)

Processed == step = "next" /\ pos > Len(Sizes) /\ docs # {}

\* The index is made of what the bucket holds by now.
CreateIndex ==
  /\ store = "matching" /\ Processed
  /\ index' = bucket
  /\ step' = "index"
  /\ UNCHANGED <<store, pos, base, first, ended, files, rows, bucket,
                 endpoint, deployed, engine, docs, lost>>

\* The endpoint is made and its name saved with the engine.
CreateEndpoint ==
  /\ step = "index"
  /\ endpoint' = TRUE
  /\ step' = "deploy"
  /\ UNCHANGED <<store, pos, base, first, ended, files, rows, bucket, index,
                 deployed, engine, docs, lost>>

\* deploy_index "consistently times out" and what it raises is swallowed: the
\* index is deployed or it is not, the build is done.
DeployIndex ==
  /\ step = "deploy"
  /\ deployed' \in {TRUE} \cup (IF "cloud" \in Faults THEN {FALSE} ELSE {})
  /\ step' = "done"
  /\ UNCHANGED <<store, pos, base, first, ended, files, rows, bucket, index,
                 endpoint, engine, docs, lost>>

\* A store in a database has nothing to deploy.
DeployNothing ==
  /\ store = "pgvector" /\ Processed
  /\ step' = "done"
  /\ UNCHANGED <<pos, base, first, ended, files, rows, docs, lost, cloud>>

\* Nothing was indexed, or a bucket, an index or an endpoint cannot be made:
\* the build fails.  So it does when a save raises, which no handler of
\* process_documents catches: the rows of the document stay.
FailBuild ==
  /\ \/ /\ \/ step = "next" /\ pos > Len(Sizes) /\ docs = {}
           \/ /\ "cloud" \in Faults /\ store = "matching"
              /\ step \in {"open", "index"} \/ Processed
        /\ UNCHANGED lost
     \/ "save" \in Faults /\ step = "added" /\ lost' = TRUE
  /\ step' = "failed"
  /\ UNCHANGED <<pos, base, first, ended, files, rows, docs, cloud>>

\* delete_engine, for a build that failed or for a client: delete() of a new
\* store object raises for PGVector and knows neither index nor endpoint of a
\* Matching Engine; both keep what they hold.  The documents go first ...
DropDocuments ==
  /\ step \in {"done", "failed"} /\ engine = "live"
  /\ docs' = {} /\ engine' = "going"
  /\ UNCHANGED <<store, step, pos, base, first, ended, files, rows, bucket,
                 index, endpoint, deployed, lost>>

\* ... and the engine after them.
DropEngine ==
  /\ engine = "going"
  /\ engine' = "gone"
  /\ UNCHANGED <<store, step, pos, base, first, ended, files, rows, bucket,
                 index, endpoint, deployed, docs, lost>>

-----------------------------------------------------------------------------

Embedding == step = "embedding" /\ \E b \in Batches : BatchEnds(b)

Next ==
  \/ InitIndex \/ StartDocument \/ Embedding \/ SkipDocument
  \/ AddRows \/ WriteRound \/ Upload \/ Record
  \/ CreateIndex \/ CreateEndpoint \/ DeployIndex \/ DeployNothing
  \/ FailBuild \/ DropDocuments \/ DropEngine

Spec == Init /\ [][Next]_vars

-----------------------------------------------------------------------------
(* Properties *)

\* What similarity_search asks: the collection, or the deployed index.
Found ==
  IF engine = "gone" THEN {}
  ELSE IF store = "pgvector" THEN rows
  ELSE IF endpoint /\ deployed THEN index ELSE {}

Steps == {"open", "next", "embedding", "upload", "added", "index", "deploy",
          "done", "failed"}

\* The types, and that a document's indexes lie below index_base.
TypeOK ==
  /\ store \in Stores /\ step \in Steps
  /\ pos \in 1 .. Len(Sizes) + 1
  /\ base \in Nat /\ first \in Nat
  /\ ended \in Seq(Batch)
  /\ \A es \in {files, rows, bucket, index} :
       es \subseteq [id : Nat, text : Documents \X Nat]
  /\ endpoint \in BOOLEAN /\ deployed \in BOOLEAN
  /\ engine \in {"live", "going", "gone"}
  /\ docs \subseteq [doc : Documents, first : Nat]
  /\ \A d \in docs : d.first + Sizes[d.doc] <= base
  /\ lost \in BOOLEAN

Index == INSTANCE AbstractIndex WITH
  stored <- IF store = "pgvector" THEN rows ELSE bucket,
  next <- base,
  pending <- IF step = "added" THEN {[doc |-> pos, first |-> base]} ELSE {},
  accepted <- docs, orphaned <- lost \/ engine # "live", searchable <- Found

\* Both kinds of store keep the promise, however the threads end and whatever
\* fails.
ImplementsIndex == Index!ASpec

\* What follows from it for a query: a match resolves to the chunk embedded,
\* also while the document is in the store and not yet recorded.
FoundResolve == Index!MatchesResolve

-----------------------------------------------------------------------------
(* What the repository says and the code does not do *)

\* "index to start from; each chunk gets its own index" (VectorStore,
\* index_document): of a document recorded every chunk has a place in the store.
EachChunkIndexed ==
  ~lost => \A d \in docs : Index!Entries(d.doc, d.first) \subseteq
    (IF store = "pgvector" THEN rows ELSE bucket)
=============================================================================
