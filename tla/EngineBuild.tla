----------------------------- MODULE EngineBuild -----------------------------
(***************************************************************************)
(* Building, deleting and updating query engines of the llm_service type   *)
(* over the PGVector store (query_service.query_engine_build and what it   *)
(* calls).  An engine lives in three places that only agree by convention: *)
(*   - Firestore holds the engine, its QueryDocuments with their index     *)
(*     ranges, and one QueryDocumentChunk per index;                       *)
(*   - the vector store holds one row per index, in the collection named   *)
(*     after the engine;                                                   *)
(*   - a search reads rows by the engine's NAME and looks each row's index *)
(*     up among the chunks of the engine's ID.                             *)
(* Builds run as batch jobs, concurrently with each other and with the     *)
(* clients' DELETE and PUT.  Each action is one call to Firestore or to    *)
(* the vector store with the computation up to the next.  Soft and hard    *)
(* deletion are not told apart: every read filters deleted documents out.  *)
(***************************************************************************)
EXTENDS Naturals, Sequences

CONSTANTS
  Builders,    \* build jobs; the engine a job creates has the job as its id
  Clients,     \* threads serving DELETE and PUT on an engine
  Names,       \* engine names
  NameOf,      \* the name each job was asked to build
  Files,       \* the documents at the jobs' URLs, each with its text
  Listing,     \* the order in which a job's URL lists them
  Size,        \* how many chunks the text of a document makes
  Paths, Path, \* the local file a document is downloaded to: its base name
  MayDelete,   \* do clients call DELETE?
  MayRename,   \* do clients call PUT?
  Faults,      \* which of FaultKinds may happen
  NoEngine, NoFile

FaultKinds == {"embed",   \* embeddings of a document cannot be had
               "lost",    \* its rows are stored, the answer to that is lost
               "store",   \* a Firestore write of a build raises
               "pod"}     \* the build's pod dies

ASSUME BuildAssumption ==
  /\ NameOf \in [Builders -> Names]
  /\ Listing \in [Builders -> Seq(Files)]
  /\ Size \in [Files -> Nat]
  /\ Path \in [Files -> Paths]
  /\ NoEngine \notin Names \cup Builders /\ NoFile \notin Files
  /\ MayDelete \in BOOLEAN /\ MayRename \in BOOLEAN
  /\ Faults \subseteq FaultKinds

\* The k-th chunk of the text of f.
Text == Files \X (Nat \ {0})

Document == [engine : Builders, url : Files, start : Nat, end : Nat]
Chunk    == [engine : Builders, url : Files, index : Nat, text : Text]
Row      == [index : Nat, text : Text]

VARIABLES
  engines,    \* query_engines: the name each engine goes by
  docs,       \* query_documents
  chunks,     \* query_document_chunks
  rows,       \* the vector store: one collection of rows per name
  pc,         \* where each build stands
  pos,        \* the next file of its listing
  base,       \* index_base
  saved,      \* how many chunks of the file are saved
  tmp,        \* its temporary directory: whose text a local path holds
  failed,     \* docs_not_processed
  client      \* each client's request: step, engine, new name

NoRequest == [step |-> "idle", engine |-> NoEngine, name |-> NoEngine]

vars == <<engines, docs, chunks, rows, pc, pos, base, saved, tmp, failed, client>>
build == <<pc, pos, base, saved, tmp, failed>>

Live(e) == engines[e] # NoEngine

\* QueryEngine.find_by_name
FoundByName(n) == \E e \in Builders : engines[e] = n

Init ==
  /\ engines = [b \in Builders |-> NoEngine]
  /\ docs = {} /\ chunks = {}
  /\ rows = [n \in Names |-> {}]
  /\ pc = [b \in Builders |-> "start"]
  /\ pos = [b \in Builders |-> 1]
  /\ base = [b \in Builders |-> 0]
  /\ saved = [b \in Builders |-> 0]
  /\ tmp = [b \in Builders |-> [p \in Paths |-> NoFile]]
  /\ failed = [b \in Builders |-> {}]
  /\ client = [c \in Clients |-> NoRequest]

Goto(b, step) == pc' = [pc EXCEPT ![b] = step]

-----------------------------------------------------------------------------
(* query_engine_build *)

\* The engine must not exist yet.
CheckName(b) ==
  /\ pc[b] = "start"
  /\ Goto(b, IF FoundByName(NameOf[b]) THEN "refused" ELSE "named")
  /\ UNCHANGED <<engines, docs, chunks, rows, pos, base, saved, tmp, failed, client>>

CreateEngine(b) ==
  /\ pc[b] = "named"
  /\ engines' = [engines EXCEPT ![b] = NameOf[b]]
  /\ Goto(b, "created")
  /\ UNCHANGED <<docs, chunks, rows, pos, base, saved, tmp, failed, client>>

\* The file a local path holds in the end: the last one listed for it.
Downloaded(b, p) ==
  LET last == {i \in DOMAIN Listing[b] :
                 /\ Path[Listing[b][i]] = p
                 /\ \A j \in DOMAIN Listing[b] : Path[Listing[b][j]] = p => j <= i}
  IN IF last = {} THEN NoFile ELSE Listing[b][CHOOSE i \in last : TRUE]

\* The vector store's type is written back by update(), which fails when the
\* engine's document is gone, not when it is only marked deleted; then the
\* documents are downloaded, each to the base name of its blob, a later one over
\* an earlier one.
Download(b) ==
  /\ pc[b] = "created"
  /\ Goto(b, "indexing") \/ (~Live(b) /\ Goto(b, "failing"))
  /\ tmp' = [tmp EXCEPT ![b] = [p \in Paths |-> Downloaded(b, p)]]
  /\ UNCHANGED <<engines, docs, chunks, rows, pos, base, saved, failed, client>>

-----------------------------------------------------------------------------
(* process_documents, one file *)

File(b) == Listing[b][pos[b]]
Local(b) == tmp[b][Path[File(b)]]
MoreFiles(b) == pc[b] = "indexing" /\ pos[b] <= Len(Listing[b])
Readable(b) == Local(b) # NoFile /\ Size[Local(b)] > 0

\* (mutant) The file is passed over without a note.
SkipFileSilently(b) ==
  /\ MoreFiles(b)
  /\ ~Readable(b) \/ "embed" \in Faults
  /\ pos' = [pos EXCEPT ![b] = @ + 1]
  /\ UNCHANGED <<engines, docs, chunks, rows, pc, base, saved, tmp, failed, client>>

\* A file that cannot be read or has no text, or whose embeddings fail, is
\* noted and passed over.
SkipFile(b) ==
  /\ MoreFiles(b)
  /\ ~Readable(b) \/ "embed" \in Faults
  /\ failed' = [failed EXCEPT ![b] = @ \cup {File(b)}]
  /\ pos' = [pos EXCEPT ![b] = @ + 1]
  /\ UNCHANGED <<engines, docs, chunks, rows, pc, base, saved, tmp, client>>

\* (mutant) The rows are numbered one too low.
RowsTooLow(b) ==
  {[index |-> base[b] + k - 2, text |-> <<Local(b), k>>] : k \in 1 .. Size[Local(b)]}

\* (mutant) The rows are numbered from one.
RowsFromOne(b) ==
  {[index |-> base[b] + k, text |-> <<Local(b), k>>] : k \in 1 .. Size[Local(b)]}

\* index_document: one row per chunk, numbered from index_base.
NewRows(b) ==
  {[index |-> base[b] + k - 1, text |-> <<Local(b), k>>] : k \in 1 .. Size[Local(b)]}

AddRows(b) == rows' = [rows EXCEPT ![NameOf[b]] = @ \cup NewRows(b)]

IndexFile(b) ==
  /\ MoreFiles(b) /\ Readable(b)
  /\ AddRows(b) /\ Goto(b, "indexed")
  /\ UNCHANGED <<engines, docs, chunks, pos, base, saved, tmp, failed, client>>

\* The rows are stored and index_document raises all the same: the file is noted
\* and passed over, and the next one takes its indexes.
LoseAnswer(b) ==
  /\ "lost" \in Faults
  /\ MoreFiles(b) /\ Readable(b)
  /\ AddRows(b)
  /\ failed' = [failed EXCEPT ![b] = @ \cup {File(b)}]
  /\ pos' = [pos EXCEPT ![b] = @ + 1]
  /\ UNCHANGED <<engines, docs, chunks, pc, base, saved, tmp, client>>

\* The QueryDocument records the range of indexes of its chunks.
SaveDocument(b) ==
  /\ pc[b] = "indexed"
  /\ docs' = docs \cup
       {[engine |-> b, url |-> File(b),
         start |-> base[b], end |-> base[b] + Size[Local(b)]]}
  /\ Goto(b, "described")
  /\ UNCHANGED <<engines, chunks, rows, pos, base, saved, tmp, failed, client>>

NewChunk(b) ==
  [engine |-> b, url |-> File(b), index |-> base[b] + saved[b],
   text |-> <<Local(b), saved[b] + 1>>]
LastChunk(b) == saved[b] + 1 = Size[Local(b)]

\* One QueryDocumentChunk per row, each saved on its own.
SaveChunk(b) ==
  /\ pc[b] = "described" /\ ~LastChunk(b)
  /\ chunks' = chunks \cup {NewChunk(b)}
  /\ saved' = [saved EXCEPT ![b] = @ + 1]
  /\ UNCHANGED <<engines, docs, rows, pc, pos, base, tmp, failed, client>>

\* (mutant) index_base is not moved on.
SaveLastChunkAtBase(b) ==
  /\ pc[b] = "described" /\ LastChunk(b)
  /\ chunks' = chunks \cup {NewChunk(b)}
  /\ saved' = [saved EXCEPT ![b] = 0]
  /\ pos' = [pos EXCEPT ![b] = @ + 1]
  /\ tmp' = [tmp EXCEPT ![b][Path[File(b)]] = NoFile]
  /\ Goto(b, "indexing")
  /\ UNCHANGED <<engines, docs, rows, base, failed, client>>

\* With the last one index_base moves on; the local file, which was removed
\* before the document was saved, counts as removed here.
SaveLastChunk(b) ==
  /\ pc[b] = "described" /\ LastChunk(b)
  /\ chunks' = chunks \cup {NewChunk(b)}
  /\ saved' = [saved EXCEPT ![b] = 0]
  /\ base' = [base EXCEPT ![b] = @ + Size[Local(b)]]
  /\ pos' = [pos EXCEPT ![b] = @ + 1]
  /\ tmp' = [tmp EXCEPT ![b][Path[File(b)]] = NoFile]
  /\ Goto(b, "indexing")
  /\ UNCHANGED <<engines, docs, rows, failed, client>>

\* build_doc_index raises when nothing could be processed.
Finish(b) ==
  /\ pc[b] = "indexing" /\ pos[b] > Len(Listing[b])
  /\ Goto(b, IF base[b] = 0 THEN "failing" ELSE "done")
  /\ UNCHANGED <<engines, docs, chunks, rows, pos, base, saved, tmp, failed, client>>

-----------------------------------------------------------------------------
(* delete_engine: documents, chunks, references, results and then the        *)
(* engine, each by a call of its own; references and results are those of    *)
(* UserQueries.  The vector store's delete() raises on PGVector and the      *)
(* error is swallowed: no row is ever removed.                               *)

DropDocuments(e) == docs' = {d \in docs : d.engine # e}
DropChunks(e) == chunks' = {c \in chunks : c.engine # e}
DropEngine(e) == engines' = [engines EXCEPT ![e] = NoEngine]

StepFails(b) ==
  /\ "store" \in Faults
  /\ pc[b] \in {"created", "indexed", "described"}
  /\ Goto(b, "failing")
  /\ UNCHANGED <<engines, docs, chunks, rows, pos, base, saved, tmp, failed, client>>

\* (mutant) The chunks of a failed build are forgotten.
FailDocumentsOnly(b) ==
  /\ pc[b] = "failing"
  /\ DropDocuments(b) /\ Goto(b, "failing-references")
  /\ UNCHANGED <<engines, chunks, rows, pos, base, saved, tmp, failed, client>>

\* A build that raises deletes its engine again.
FailDocuments(b) ==
  /\ pc[b] = "failing"
  /\ DropDocuments(b) /\ Goto(b, "failing-chunks")
  /\ UNCHANGED <<engines, chunks, rows, pos, base, saved, tmp, failed, client>>

FailChunks(b) ==
  /\ pc[b] = "failing-chunks"
  /\ DropChunks(b) /\ Goto(b, "failing-references")
  /\ UNCHANGED <<engines, docs, rows, pos, base, saved, tmp, failed, client>>

FailReferences(b) ==
  /\ pc[b] = "failing-references" /\ Goto(b, "failing-results")
  /\ UNCHANGED <<engines, docs, chunks, rows, pos, base, saved, tmp, failed, client>>

FailResults(b) ==
  /\ pc[b] = "failing-results" /\ Goto(b, "failing-engine")
  /\ UNCHANGED <<engines, docs, chunks, rows, pos, base, saved, tmp, failed, client>>

FailEngine(b) ==
  /\ pc[b] = "failing-engine"
  /\ DropEngine(b) /\ Goto(b, "failed")
  /\ UNCHANGED <<docs, chunks, rows, pos, base, saved, tmp, failed, client>>

PodDies(b) ==
  /\ "pod" \in Faults
  /\ pc[b] \notin {"start", "refused", "done", "failed", "dead"}
  /\ Goto(b, "dead")
  /\ UNCHANGED <<engines, docs, chunks, rows, pos, base, saved, tmp, failed, client>>

Build(b) ==
  \/ CheckName(b) \/ CreateEngine(b) \/ Download(b)
  \/ SkipFile(b) \/ IndexFile(b) \/ LoseAnswer(b) \/ SaveDocument(b)
  \/ SaveChunk(b) \/ SaveLastChunk(b) \/ Finish(b)
  \/ FailDocuments(b) \/ FailChunks(b)
  \/ FailReferences(b) \/ FailResults(b) \/ FailEngine(b)

-----------------------------------------------------------------------------
(* Clients *)

Request(c, step) == client' = [client EXCEPT ![c].step = step]
Done(c) == client' = [client EXCEPT ![c] = NoRequest]

\* DELETE and PUT both look the engine up first; PUT brings a name along.
FindEngine(c) ==
  /\ client[c].step = "idle"
  /\ \E e \in Builders :
       /\ Live(e)
       /\ \/ MayDelete /\ client' = [client EXCEPT ![c] =
                [step |-> "drop-docs", engine |-> e, name |-> NoEngine]]
          \/ MayRename /\ \E n \in Names : client' = [client EXCEPT ![c] =
                [step |-> "rename", engine |-> e, name |-> n]]
  /\ UNCHANGED <<engines, docs, chunks, rows, build>>

DeleteDocuments(c) ==
  /\ client[c].step = "drop-docs"
  /\ DropDocuments(client[c].engine) /\ Request(c, "drop-chunks")
  /\ UNCHANGED <<engines, chunks, rows, build>>

DeleteChunks(c) ==
  /\ client[c].step = "drop-chunks"
  /\ DropChunks(client[c].engine) /\ Request(c, "drop-references")
  /\ UNCHANGED <<engines, docs, rows, build>>

DeleteReferences(c) ==
  /\ client[c].step = "drop-references" /\ Request(c, "drop-results")
  /\ UNCHANGED <<engines, docs, chunks, rows, build>>

DeleteResults(c) ==
  /\ client[c].step = "drop-results" /\ Request(c, "drop-engine")
  /\ UNCHANGED <<engines, docs, chunks, rows, build>>

DeleteEngine(c) ==
  /\ client[c].step = "drop-engine"
  /\ DropEngine(client[c].engine) /\ Done(c)
  /\ UNCHANGED <<docs, chunks, rows, build>>

\* update_query_engine: a full save() of the copy read, under the new name.
UpdateEngine(c) ==
  /\ client[c].step = "rename"
  /\ engines' = [engines EXCEPT ![client[c].engine] = client[c].name]
  /\ Done(c)
  /\ UNCHANGED <<docs, chunks, rows, build>>

Serve(c) == \/ FindEngine(c) \/ DeleteDocuments(c) \/ DeleteChunks(c)
            \/ DeleteReferences(c) \/ DeleteResults(c)
            \/ DeleteEngine(c) \/ UpdateEngine(c)

-----------------------------------------------------------------------------

Next == \/ \E b \in Builders : Build(b) \/ StepFails(b) \/ PodDies(b)
        \/ \E c \in Clients : Serve(c)

Spec == Init /\ [][Next]_vars

-----------------------------------------------------------------------------
(* Properties *)

TypeOK ==
  /\ engines \in [Builders -> Names \cup {NoEngine}]
  /\ docs \subseteq Document
  /\ chunks \subseteq Chunk
  /\ rows \in [Names -> SUBSET Row]
  /\ pc \in [Builders -> {"start", "refused", "named", "created", "indexing",
                          "indexed", "described", "done", "failing",
                          "failing-chunks", "failing-references",
                          "failing-results", "failing-engine", "failed", "dead"}]
  /\ pos \in [Builders -> Nat \ {0}]
  /\ base \in [Builders -> Nat]
  /\ saved \in [Builders -> Nat]
  /\ tmp \in [Builders -> [Paths -> Files \cup {NoFile}]]
  /\ failed \in [Builders -> SUBSET Files]
  /\ client \in [Clients ->
       {NoRequest}
         \cup [step : {"drop-docs", "drop-chunks", "drop-references",
                       "drop-results", "drop-engine"},
               engine : Builders, name : {NoEngine}]
         \cup [step : {"rename"}, engine : Builders, name : Names]]

\* Index ranges: the documents of an engine never share an index, so that an
\* index a search returns belongs to one document.
RangesDisjoint ==
  \A d1, d2 \in docs :
    d1.engine = d2.engine /\ d1 # d2 => d1.end <= d2.start \/ d2.end <= d1.start

\* find_by_index is never ambiguous: an engine has one chunk per index.
ChunkPerIndex ==
  \A c1, c2 \in chunks :
    c1.engine = c2.engine /\ c1.index = c2.index => c1 = c2

\* A build that failed leaves neither documents nor chunks behind, however far
\* it got and whatever clients did meanwhile.
FailedLeavesNothing ==
  \A b \in Builders : pc[b] = "failed" =>
    /\ \A d \in docs : d.engine # b
    /\ \A c \in chunks : c.engine # b

\* Built, and no client is deleting it.
Ready(e) ==
  /\ pc[e] = "done" /\ Live(e)
  /\ \A c \in Clients : client[c].engine # e \/ client[c].step = "rename"

\* A PUT that read an engine before its DELETE writes it back, without its
\* documents.  It takes two clients and both requests.
NoComeback == MayDelete /\ MayRename => \A c1, c2 \in Clients : c1 = c2

\* Every document at the URL of a finished build is accounted for, indexed or
\* reported, whatever failed, while the engine is deleted or renamed by clients
\* that cannot bring it back.
EveryFileReported ==
  NoComeback => \A b \in Builders : Ready(b) =>
    \A i \in DOMAIN Listing[b] :
      \/ Listing[b][i] \in failed[b]
      \/ \E d \in docs : d.engine = b /\ d.url = Listing[b][i]

\* What a search makes of a row of the vector store.
Resolves(e, r) ==
  \E c \in chunks : c.engine = e /\ c.index = r.index /\ c.text = r.text

\* No other build of the engine's name got past its check, and the engine goes
\* by the name it was built under.
OwnsItsName(e) ==
  /\ engines[e] = NameOf[e]
  /\ \A b \in Builders \ {e} :
       NameOf[b] = NameOf[e] => pc[b] \in {"start", "refused"}

\* A row that was stored although the build counts its file as not processed.
Leftover(e, text) == \E f \in failed[e] : text[1] = Downloaded(e, Path[f])

\* A search on a built engine finds, for every row the vector store can return,
\* the chunk whose text was embedded in that row, unless the row is of a file that
\* the build has reported as not processed; and every chunk has a row: whatever
\* failed in the build or next to it, as long as the name is its own and no client
\* brings a deleted engine back.  A build that reports nothing is searched exactly.
SearchSound ==
  NoComeback => \A e \in Builders : Ready(e) /\ OwnsItsName(e) =>
    /\ \A r \in rows[engines[e]] : Resolves(e, r) \/ Leftover(e, r.text)
    /\ \A c \in chunks : c.engine = e =>
         [index |-> c.index, text |-> c.text] \in rows[engines[e]]
=============================================================================
