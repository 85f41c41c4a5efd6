-------------------------- MODULE EngineBuildProofs --------------------------
(***************************************************************************)
(* The safety properties of EngineBuild, for any builds, listings, texts,  *)
(* clients and faults.                                                     *)
(*                                                                         *)
(* That index ranges do not overlap is not inductive: it needs to know     *)
(* that everything a build has saved lies below the index it will use      *)
(* next.  DocsBelow and ChunksBelow say so, at each point of the loop over *)
(* the files; InLoop says what the loop body may rely on about its file;   *)
(* CleanedUp says how far the deletion of a failed build has come.  All    *)
(* four speak of one build, which is what makes them inductive: a step of  *)
(* one build leaves those of the others alone (lemma Others).  KeptInv     *)
(* adds what holds of an engine while nobody deletes it, CleanlyGoing what *)
(* a DELETE that finds it built leaves of it.                              *)
(***************************************************************************)
EXTENDS EngineBuild, TLAPS

\* Between files, or before the document of the file is saved.
Between == {"start", "named", "created", "indexing", "indexed"}

DocsBelow(b) ==
  \A d \in docs : d.engine = b =>
    /\ pc[b] \in Between => d.end <= base[b]
    /\ pc[b] = "described" => d.end <= base[b] + Size[Local(b)]

ChunksBelow(b) ==
  \A c \in chunks : c.engine = b =>
    /\ pc[b] \in Between => c.index < base[b]
    /\ pc[b] = "described" => c.index < base[b] + saved[b]

InLoop(b) ==
  /\ pc[b] \in Between => saved[b] = 0
  /\ pc[b] \in {"indexed", "described"} =>
       pos[b] <= Len(Listing[b]) /\ Readable(b)
  /\ pc[b] = "described" => saved[b] < Size[Local(b)]

ChunksGone == {"failing-references", "failing-results", "failing-engine", "failed"}

CleanedUp(b) ==
  /\ pc[b] \in {"failing-chunks"} \cup ChunksGone => \A d \in docs : d.engine # b
  /\ pc[b] \in ChunksGone => \A c \in chunks : c.engine # b

BuildInv(b) == DocsBelow(b) /\ ChunksBelow(b) /\ InLoop(b) /\ CleanedUp(b)

IInv == /\ TypeOK
        /\ \A b \in Builders : BuildInv(b)
        /\ RangesDisjoint /\ ChunkPerIndex

-----------------------------------------------------------------------------

\* Every initial state satisfies the inductive invariant.
LEMMA InitIInv == Init => IInv
  BY BuildAssumption
  DEF Init, IInv, TypeOK, BuildInv, DocsBelow, ChunksBelow, InLoop, CleanedUp, ChunksGone,
      RangesDisjoint, ChunkPerIndex, Between

\* The file a build stands at is one of the files, and so is what its local
\* path holds, if anything.
LEMMA FileType ==
  ASSUME TypeOK, NEW b \in Builders, pos[b] <= Len(Listing[b])
  PROVE  /\ File(b) \in Files /\ Path[File(b)] \in Paths
         /\ Local(b) \in Files \cup {NoFile}
         /\ Local(b) # NoFile => Size[Local(b)] \in Nat
<1>1. Listing[b] \in Seq(Files) /\ pos[b] \in Nat \ {0}
  BY BuildAssumption DEF TypeOK
<1>2. Listing[b][pos[b]] \in Files
  BY <1>1
<1>3. Path[File(b)] \in Paths
  BY <1>2, BuildAssumption DEF File
<1>4. tmp[b] \in [Paths -> Files \cup {NoFile}]
  BY DEF TypeOK
<1>5. Local(b) \in Files \cup {NoFile}
  BY <1>3, <1>4 DEF Local
<1> QED BY <1>2, <1>3, <1>5, BuildAssumption DEF File

\* Whatever a local path holds after the download is one of the files.
LEMMA DownloadedType ==
  ASSUME NEW b \in Builders, NEW p \in Paths
  PROVE  Downloaded(b, p) \in Files \cup {NoFile}
<1> DEFINE last == {i \in DOMAIN Listing[b] :
                      /\ Path[Listing[b][i]] = p
                      /\ \A j \in DOMAIN Listing[b] :
                           Path[Listing[b][j]] = p => j <= i}
<1>1. CASE last = {}
  BY <1>1 DEF Downloaded
<1>2. CASE last # {}
  <2>1. (CHOOSE i \in last : TRUE) \in DOMAIN Listing[b]
    BY <1>2
  <2>2. Listing[b][CHOOSE i \in last : TRUE] \in Files
    BY <2>1, BuildAssumption
  <2> QED BY <1>2, <2>2 DEF Downloaded
<1> QED BY <1>1, <1>2

\* A step that changes nothing of a build and saves nothing for its engine
\* preserves what is known of the build.
LEMMA Others ==
  ASSUME NEW x \in Builders, BuildInv(x),
         pc'[x] = pc[x], pos'[x] = pos[x], base'[x] = base[x],
         saved'[x] = saved[x], tmp'[x] = tmp[x],
         \A d \in docs' : d.engine = x => d \in docs,
         \A c \in chunks' : c.engine = x => c \in chunks
  PROVE  BuildInv(x)'
<1>1. Local(x)' = Local(x)
  BY DEF Local, File
<1>2. DocsBelow(x)' /\ ChunksBelow(x)'
  BY <1>1 DEF BuildInv, DocsBelow, ChunksBelow
<1>3. InLoop(x)'
  BY <1>1 DEF BuildInv, InLoop, Readable
<1>4. CleanedUp(x)'
  BY DEF BuildInv, CleanedUp
<1> QED BY <1>2, <1>3, <1>4 DEF BuildInv

\* Removing documents and chunks keeps them apart.
LEMMA Fewer ==
  ASSUME RangesDisjoint, ChunkPerIndex, docs' \subseteq docs,
         chunks' \subseteq chunks
  PROVE  RangesDisjoint' /\ ChunkPerIndex'
  BY DEF RangesDisjoint, ChunkPerIndex

-----------------------------------------------------------------------------

\* Every step of a build keeps the types.
LEMMA BuildTypeOK ==
  ASSUME IInv, NEW b \in Builders, Build(b) \/ StepFails(b) \/ PodDies(b)
  PROVE  TypeOK'
<1> USE BuildAssumption DEF Goto
<1>0. TypeOK BY DEF IInv
<1>1. CASE CheckName(b)     BY <1>0, <1>1 DEF CheckName, TypeOK
<1>2. CASE CreateEngine(b)  BY <1>0, <1>2 DEF CreateEngine, TypeOK
<1>3. CASE Download(b)
  <2>1. tmp' \in [Builders -> [Paths -> Files \cup {NoFile}]]
    BY <1>0, <1>3, DownloadedType DEF Download, TypeOK
  <2>2. pc' = [pc EXCEPT ![b] = "indexing"] \/ pc' = [pc EXCEPT ![b] = "failing"]
    BY <1>3 DEF Download
  <2> QED BY <1>0, <1>3, <2>1, <2>2 DEF Download, TypeOK
<1>4. CASE SkipFile(b)
  <2>1. File(b) \in Files
    BY <1>0, <1>4, FileType DEF SkipFile, MoreFiles
  <2> QED BY <1>0, <1>4, <2>1 DEF SkipFile, TypeOK
<1>5. ASSUME IndexFile(b) \/ LoseAnswer(b) PROVE TypeOK'
  <2>1. Local(b) \in Files /\ Size[Local(b)] \in Nat /\ File(b) \in Files
    BY <1>0, <1>5, FileType DEF IndexFile, LoseAnswer, MoreFiles, Readable
  <2>2. base[b] \in Nat /\ NameOf[b] \in Names
    BY <1>0 DEF TypeOK
  <2>3. \A k \in 1 .. Size[Local(b)] :
          [index |-> base[b] + k - 1, text |-> <<Local(b), k>>] \in Row
    BY <2>1, <2>2 DEF Row, Text
  <2>4. rows' \in [Names -> SUBSET Row]
    <3>1. NewRows(b) \subseteq Row
      BY <2>3 DEF NewRows
    <3>2. rows' = [rows EXCEPT ![NameOf[b]] = @ \cup NewRows(b)]
      BY <1>5 DEF IndexFile, LoseAnswer, AddRows
    <3> QED BY <1>0, <2>2, <3>1, <3>2 DEF TypeOK
  <2>5. CASE IndexFile(b)
    BY <1>0, <2>4, <2>5 DEF IndexFile, TypeOK
  <2>6. CASE LoseAnswer(b)
    BY <1>0, <2>1, <2>4, <2>6 DEF LoseAnswer, TypeOK
  <2> QED BY <1>5, <2>5, <2>6
<1>6. CASE SaveDocument(b)
  <2>1. /\ File(b) \in Files /\ base[b] \in Nat
        /\ base[b] + Size[Local(b)] \in Nat
    BY <1>0, <1>6, FileType
    DEF IInv, BuildInv, InLoop, SaveDocument, Readable, TypeOK
  <2>2. docs' \subseteq Document
    BY <1>0, <1>6, <2>1 DEF SaveDocument, Document, TypeOK
  <2> QED BY <1>0, <1>6, <2>2 DEF SaveDocument, TypeOK
<1>7. ASSUME SaveChunk(b) \/ SaveLastChunk(b) PROVE TypeOK'
  <2>1. /\ File(b) \in Files /\ Path[File(b)] \in Paths
        /\ Local(b) \in Files /\ Size[Local(b)] \in Nat
        /\ base[b] \in Nat /\ saved[b] \in Nat
    BY <1>0, <1>7, FileType
    DEF IInv, BuildInv, InLoop, SaveChunk, SaveLastChunk, Readable, TypeOK
  <2>2. NewChunk(b) \in Chunk
    BY <2>1 DEF NewChunk, Chunk, Text
  <2>3. CASE SaveChunk(b)
    BY <1>0, <2>1, <2>2, <2>3 DEF SaveChunk, TypeOK
  <2>4. CASE SaveLastChunk(b)
    <3>1. tmp' \in [Builders -> [Paths -> Files \cup {NoFile}]]
      BY <1>0, <2>1, <2>4 DEF SaveLastChunk, TypeOK
    <3>2. base' \in [Builders -> Nat] /\ pos' \in [Builders -> Nat \ {0}]
      BY <1>0, <2>1, <2>4 DEF SaveLastChunk, TypeOK
    <3> QED BY <1>0, <2>2, <2>4, <3>1, <3>2 DEF SaveLastChunk, TypeOK
  <2> QED BY <1>7, <2>3, <2>4
<1>8. CASE Finish(b)
  <2>1. pc' = [pc EXCEPT ![b] = "failing"] \/ pc' = [pc EXCEPT ![b] = "done"]
    BY <1>8 DEF Finish
  <2> QED BY <1>0, <1>8, <2>1 DEF Finish, TypeOK
<1>9. CASE FailDocuments(b)
  BY <1>0, <1>9 DEF FailDocuments, DropDocuments, TypeOK
<1>10. CASE FailChunks(b) \/ FailReferences(b) \/ FailResults(b)
  BY <1>0, <1>10 DEF FailChunks, FailReferences, FailResults, DropChunks, TypeOK
<1>11. CASE FailEngine(b)
  BY <1>0, <1>11 DEF FailEngine, DropEngine, TypeOK
<1>12. CASE StepFails(b)    BY <1>0, <1>12 DEF StepFails, TypeOK
<1>13. CASE PodDies(b)      BY <1>0, <1>13 DEF PodDies, TypeOK
<1> QED BY <1>1, <1>2, <1>3, <1>4, <1>5, <1>6, <1>7, <1>8, <1>9, <1>10,
           <1>11, <1>12, <1>13 DEF Build

\* A step that writes no document and no chunk and moves no index on, of a
\* build whose place in the code makes no new claim about them.
LEMMA QuietIInv ==
  ASSUME IInv, TypeOK', NEW b \in Builders,
         \/ CheckName(b) \/ CreateEngine(b) \/ Download(b) \/ SkipFile(b)
         \/ IndexFile(b) \/ LoseAnswer(b) \/ Finish(b) \/ StepFails(b) \/ PodDies(b)
  PROVE  IInv'
<1>1. /\ docs' = docs /\ chunks' = chunks /\ base' = base /\ saved' = saved
      /\ \A x \in Builders \ {b} :
           pc'[x] = pc[x] /\ pos'[x] = pos[x] /\ tmp'[x] = tmp[x]
  BY DEF IInv, TypeOK, CheckName, CreateEngine, Download, SkipFile, IndexFile,
         LoseAnswer, Finish, StepFails, PodDies, Goto
<1>2. \A x \in Builders \ {b} : BuildInv(x)'
  BY <1>1, Others DEF IInv
<1>3. RangesDisjoint' /\ ChunkPerIndex'
  BY <1>1, Fewer DEF IInv
<1>4. \/ pc'[b] = pc[b] /\ pc[b] = "indexing"
      \/ pc[b] \in Between /\ pc'[b] \in Between \ {"indexed"}
      \/ pc'[b] \in {"refused", "done", "failing", "dead"}
      \/ IndexFile(b)
  BY DEF IInv, TypeOK, CheckName, CreateEngine, Download, SkipFile, LoseAnswer,
         Finish, StepFails, PodDies, Goto, Between, MoreFiles
<1>5. CASE IndexFile(b)
  <2>1. /\ pc[b] = "indexing" /\ pc'[b] = "indexed"
        /\ pos[b] <= Len(Listing[b]) /\ Readable(b)
        /\ pos' = pos /\ tmp' = tmp
    BY <1>5 DEF IndexFile, MoreFiles, Goto, IInv, TypeOK
  <2>2. Readable(b)'
    BY <2>1 DEF Readable, Local, File
  <2> QED BY <1>1, <1>2, <1>3, <2>1, <2>2
          DEF IInv, BuildInv, DocsBelow, ChunksBelow, InLoop, CleanedUp, ChunksGone, Between
<1>6. CASE ~IndexFile(b)
  BY <1>1, <1>2, <1>3, <1>4, <1>6
  DEF IInv, BuildInv, DocsBelow, ChunksBelow, InLoop, CleanedUp, ChunksGone, Between
<1> QED BY <1>5, <1>6

\* The range of a new document starts where all earlier ones have ended.
LEMMA SaveDocumentIInv ==
  ASSUME IInv, TypeOK', NEW b \in Builders, SaveDocument(b)
  PROVE  IInv'
<1> DEFINE new == [engine |-> b, url |-> File(b),
                   start |-> base[b], end |-> base[b] + Size[Local(b)]]
<1>1. /\ pc[b] = "indexed" /\ pc' = [pc EXCEPT ![b] = "described"]
      /\ docs' = docs \cup {new}
      /\ chunks' = chunks /\ base' = base /\ saved' = saved
      /\ pos' = pos /\ tmp' = tmp
  BY DEF SaveDocument, Goto
<1>2. /\ Readable(b) /\ pos[b] <= Len(Listing[b]) /\ saved[b] = 0
      /\ base[b] \in Nat /\ Size[Local(b)] \in Nat /\ Size[Local(b)] > 0
  BY <1>1, FileType DEF IInv, TypeOK, BuildInv, InLoop, Readable, Between
<1>3. \A d \in docs : d.engine = b => d.end <= base[b] /\ d.end \in Nat
  BY <1>1 DEF IInv, TypeOK, BuildInv, DocsBelow, Between, Document
<1>4. Local(b)' = Local(b) /\ Readable(b)'
  BY <1>1, <1>2 DEF Local, File, Readable
<1>5. new.engine = b /\ new.start = base[b] /\ new.end = base[b] + Size[Local(b)]
  OBVIOUS
<1> HIDE DEF new
<1>6. \A x \in Builders \ {b} : BuildInv(x)'
  BY <1>1, <1>5, Others DEF IInv, TypeOK
<1>7. pc'[b] = "described"
  BY <1>1 DEF IInv, TypeOK
<1>8. DocsBelow(b)'
  BY <1>1, <1>2, <1>3, <1>4, <1>5, <1>7 DEF DocsBelow, Between
<1>9. ChunksBelow(b)' /\ InLoop(b)' /\ CleanedUp(b)'
  BY <1>1, <1>2, <1>4, <1>7
  DEF IInv, TypeOK, BuildInv, ChunksBelow, InLoop, CleanedUp, ChunksGone, Between, Chunk
<1>10. RangesDisjoint'
  BY <1>1, <1>3, <1>5 DEF IInv, RangesDisjoint
<1>11. ChunkPerIndex'
  BY <1>1 DEF IInv, ChunkPerIndex
<1> QED BY <1>6, <1>8, <1>9, <1>10, <1>11 DEF IInv, BuildInv

\* The index of a new chunk is above all earlier ones.
LEMMA SaveChunkIInv ==
  ASSUME IInv, TypeOK', NEW b \in Builders, SaveChunk(b) \/ SaveLastChunk(b)
  PROVE  IInv'
<1>1. /\ pc[b] = "described" /\ docs' = docs
      /\ chunks' = chunks \cup {NewChunk(b)}
  BY DEF SaveChunk, SaveLastChunk
<1>2. /\ Readable(b) /\ pos[b] <= Len(Listing[b])
      /\ base[b] \in Nat /\ saved[b] \in Nat
      /\ Size[Local(b)] \in Nat /\ saved[b] < Size[Local(b)]
  BY <1>1, FileType DEF IInv, TypeOK, BuildInv, InLoop, Readable
<1>3. NewChunk(b).engine = b /\ NewChunk(b).index = base[b] + saved[b]
  BY DEF NewChunk
<1>4. \A c \in chunks : c.engine = b =>
        c.index < base[b] + saved[b] /\ c.index \in Nat
  BY <1>1 DEF IInv, TypeOK, BuildInv, ChunksBelow, Chunk
<1>5. \A d \in docs : d.engine = b =>
        d.end <= base[b] + Size[Local(b)] /\ d.end \in Nat
  BY <1>1 DEF IInv, TypeOK, BuildInv, DocsBelow, Document
<1>6. \A x \in Builders \ {b} : BuildInv(x)'
  <2>1. \A x \in Builders \ {b} :
          /\ pc'[x] = pc[x] /\ pos'[x] = pos[x] /\ base'[x] = base[x]
          /\ saved'[x] = saved[x] /\ tmp'[x] = tmp[x]
    BY DEF IInv, TypeOK, SaveChunk, SaveLastChunk, Goto
  <2> QED BY <1>1, <1>3, <2>1, Others DEF IInv
<1>7. ChunkPerIndex'
  BY <1>1, <1>3, <1>4 DEF IInv, ChunkPerIndex
<1>8. RangesDisjoint'
  BY <1>1 DEF IInv, RangesDisjoint
<1>9. CASE SaveChunk(b)
  <2>1. /\ pc' = pc /\ base' = base /\ pos' = pos /\ tmp' = tmp
        /\ saved'[b] = saved[b] + 1 /\ saved[b] + 1 # Size[Local(b)]
    BY <1>9 DEF SaveChunk, LastChunk, IInv, TypeOK
  <2>2. Local(b)' = Local(b) /\ Readable(b)'
    BY <1>2, <2>1 DEF Local, File, Readable
  <2>3. DocsBelow(b)' /\ ChunksBelow(b)' /\ InLoop(b)' /\ CleanedUp(b)'
    BY <1>1, <1>2, <1>3, <1>4, <1>5, <2>1, <2>2
    DEF DocsBelow, ChunksBelow, InLoop, CleanedUp, ChunksGone, Between
  <2> QED BY <1>6, <1>7, <1>8, <2>3 DEF IInv, BuildInv
<1>10. CASE SaveLastChunk(b)
  <2>1. /\ pc'[b] = "indexing" /\ base'[b] = base[b] + Size[Local(b)]
        /\ saved'[b] = 0
    BY <1>10 DEF SaveLastChunk, Goto, IInv, TypeOK
  <2>2. DocsBelow(b)' /\ ChunksBelow(b)' /\ InLoop(b)' /\ CleanedUp(b)'
    BY <1>1, <1>2, <1>3, <1>4, <1>5, <2>1
    DEF DocsBelow, ChunksBelow, InLoop, CleanedUp, ChunksGone, Between
  <2> QED BY <1>6, <1>7, <1>8, <2>2 DEF IInv, BuildInv
<1> QED BY <1>9, <1>10

\* The deletion of a failed build.
LEMMA FailIInv ==
  ASSUME IInv, TypeOK', NEW b \in Builders,
         \/ FailDocuments(b) \/ FailChunks(b) \/ FailReferences(b) \/ FailResults(b)
         \/ FailEngine(b)
  PROVE  IInv'
<1>1. /\ docs' \subseteq docs /\ chunks' \subseteq chunks
      /\ base' = base /\ saved' = saved /\ pos' = pos /\ tmp' = tmp
  BY DEF FailDocuments, FailChunks, FailReferences, FailResults, FailEngine,
         DropDocuments, DropChunks
<1>2. \A x \in Builders \ {b} : BuildInv(x)'
  <2>1. \A x \in Builders \ {b} : pc'[x] = pc[x]
    BY DEF IInv, TypeOK, FailDocuments, FailChunks, FailReferences, FailResults,
           FailEngine, Goto
  <2> QED BY <1>1, <2>1, Others DEF IInv
<1>3. RangesDisjoint' /\ ChunkPerIndex'
  BY <1>1, Fewer DEF IInv
<1>4. pc'[b] \in {"failing-chunks"} \cup ChunksGone
  BY DEF IInv, TypeOK, FailDocuments, FailChunks, FailReferences, FailResults,
         FailEngine, Goto, ChunksGone
<1>5. CleanedUp(b)'
  BY DEF IInv, TypeOK, BuildInv, CleanedUp, ChunksGone, FailDocuments, FailChunks,
         FailReferences, FailResults, FailEngine, DropDocuments, DropChunks, Goto
<1>6. DocsBelow(b)' /\ ChunksBelow(b)' /\ InLoop(b)'
  BY <1>4 DEF DocsBelow, ChunksBelow, InLoop, Between, ChunksGone
<1> QED BY <1>2, <1>3, <1>5, <1>6 DEF IInv, BuildInv

\* A client only ever removes documents and chunks.
LEMMA ServeIInv ==
  ASSUME IInv, NEW c \in Clients, Serve(c)
  PROVE  IInv'
<1>1. /\ docs' \subseteq docs /\ chunks' \subseteq chunks
      /\ UNCHANGED <<rows, build>>
  BY DEF Serve, FindEngine, DeleteDocuments, DeleteChunks, DeleteReferences,
         DeleteResults, DeleteEngine, UpdateEngine, DropDocuments, DropChunks
<1> DEFINE Deletion == [step : {"drop-docs", "drop-chunks", "drop-references",
                                "drop-results", "drop-engine"},
                        engine : Builders, name : {NoEngine}]
           Renaming == [step : {"rename"}, engine : Builders, name : Names]
<1>2. client \in [Clients -> {NoRequest} \cup Deletion \cup Renaming]
  BY DEF IInv, TypeOK
<1>3. /\ engines' \in [Builders -> Names \cup {NoEngine}]
      /\ client' \in [Clients -> {NoRequest} \cup Deletion \cup Renaming]
  <2>0. engines \in [Builders -> Names \cup {NoEngine}]
    BY DEF IInv, TypeOK
  <2>1. CASE FindEngine(c)
    <3>1. PICK e \in Builders :
            \/ client' = [client EXCEPT ![c] =
                 [step |-> "drop-docs", engine |-> e, name |-> NoEngine]]
            \/ \E n \in Names : client' = [client EXCEPT ![c] =
                 [step |-> "rename", engine |-> e, name |-> n]]
      BY <2>1 DEF FindEngine
    <3>2. engines' = engines
      BY <2>1 DEF FindEngine
    <3> QED BY <1>2, <2>0, <3>1, <3>2
  <2>2. CASE \/ DeleteDocuments(c) \/ DeleteChunks(c)
             \/ DeleteReferences(c) \/ DeleteResults(c)
    <3>1. /\ client[c] \in Deletion /\ engines' = engines
          /\ \E step \in {"drop-chunks", "drop-references", "drop-results", "drop-engine"} :
               client' = [client EXCEPT ![c].step = step]
      BY <1>2, <2>2 DEF DeleteDocuments, DeleteChunks, DeleteReferences, DeleteResults,
                        Request, NoRequest
    <3> QED BY <1>2, <2>0, <3>1
  <2>3. CASE DeleteEngine(c)
    BY <1>2, <2>0, <2>3 DEF DeleteEngine, DropEngine, Done
  <2>4. CASE UpdateEngine(c)
    <3>1. client[c] \in Renaming
      BY <1>2, <2>4 DEF UpdateEngine, NoRequest
    <3> QED BY <1>2, <2>0, <2>4, <3>1 DEF UpdateEngine, Done
  <2> QED BY <2>1, <2>2, <2>3, <2>4 DEF Serve
<1>4. TypeOK'
  BY <1>1, <1>2, <1>3 DEF IInv, TypeOK, build
<1>5. \A x \in Builders : BuildInv(x)'
  BY <1>1, Others DEF IInv, build
<1>6. RangesDisjoint' /\ ChunkPerIndex'
  BY <1>1, Fewer DEF IInv
<1> QED BY <1>4, <1>5, <1>6 DEF IInv

\* The inductive invariant holds in every reachable state.
THEOREM Invariance == Spec => []IInv
<1>1. ASSUME IInv, [Next]_vars PROVE IInv'
  <2>1. ASSUME NEW b \in Builders, Build(b) \/ StepFails(b) \/ PodDies(b)
        PROVE  IInv'
    <3>1. TypeOK' BY <1>1, <2>1, BuildTypeOK
    <3> QED BY <1>1, <2>1, <3>1, QuietIInv, SaveDocumentIInv, SaveChunkIInv,
               FailIInv DEF Build
  <2>2. ASSUME NEW c \in Clients, Serve(c) PROVE IInv'
    BY <1>1, <2>2, ServeIInv
  <2>3. CASE UNCHANGED vars
    <3>1. TypeOK' BY <1>1, <2>3 DEF IInv, TypeOK, vars
    <3>2. \A x \in Builders : BuildInv(x)'
      BY <1>1, <2>3, Others DEF IInv, vars
    <3>3. RangesDisjoint' /\ ChunkPerIndex'
      BY <1>1, <2>3, Fewer DEF IInv, vars
    <3> QED BY <3>1, <3>2, <3>3 DEF IInv
  <2> QED BY <1>1, <2>1, <2>2, <2>3 DEF Next
<1> QED BY <1>1, InitIInv, PTL DEF Spec

\* Engines, documents, chunks, rows, builds and requests keep their types.
THEOREM TypeCorrect == Spec => []TypeOK
  BY Invariance, PTL DEF IInv

\* The documents of an engine never share an index, whatever the builds,
\* their files and the clients' deletions.
THEOREM RangesSound == Spec => []RangesDisjoint
  BY Invariance, PTL DEF IInv

\* An engine has at most one chunk per index: find_by_index is a function.
THEOREM IndexSound == Spec => []ChunkPerIndex
  BY Invariance, PTL DEF IInv

\* A failed build leaves neither documents nor chunks behind.
THEOREM FailureSound == Spec => []FailedLeavesNothing
<1>1. IInv => FailedLeavesNothing
  BY DEF IInv, BuildInv, CleanedUp, ChunksGone, FailedLeavesNothing
<1> QED BY <1>1, Invariance, PTL
-----------------------------------------------------------------------------
(* Engines that are kept *)

\* Under construction or finished, and no client is deleting it.
Unharmed(b) ==
  /\ pc[b] \in {"created", "indexing", "indexed", "described", "done"} /\ Live(b)
  /\ \A c \in Clients : client[c].engine # b \/ client[c].step = "rename"

SoleUser(b) ==
  \A x \in Builders \ {b} : NameOf[x] = NameOf[b] => pc[x] \in {"start", "refused"}

\* The files before the one at hand are indexed or reported.
Accounted(b) ==
  \A i \in DOMAIN Listing[b] :
    i < pos[b] \/ (i = pos[b] /\ pc[b] = "described") =>
      \/ Listing[b][i] \in failed[b]
      \/ \E d \in docs : d.engine = b /\ d.url = Listing[b][i]

\* The rows whose chunk is still to be saved.
UnsavedRow(b, k) == [index |-> base[b] + k - 1, text |-> <<Local(b), k>>]
Unsaved(b) ==
  IF pc[b] \in {"indexed", "described"} THEN saved[b] + 1 .. Size[Local(b)] ELSE {}

RowsAgree(b) ==
  /\ \A r \in rows[NameOf[b]] :
       \/ Resolves(b, r) \/ Leftover(b, r.text)
       \/ \E k \in Unsaved(b) : r = UnsavedRow(b, k)
  /\ \A c \in chunks : c.engine = b =>
       [index |-> c.index, text |-> c.text] \in rows[NameOf[b]]
  /\ \A k \in Unsaved(b) : UnsavedRow(b, k) \in rows[NameOf[b]]

EngineInv(b) ==
  /\ pc[b] \in {"start", "named", "refused"} => ~Live(b)
  /\ pc[b] \in {"start", "named", "created"} =>
       pos[b] = 1 /\ \A c \in chunks : c.engine # b
  /\ pc[b] = "done" => pos[b] > Len(Listing[b])
  /\ Unharmed(b) => Accounted(b)
  /\ Unharmed(b) /\ SoleUser(b) => RowsAgree(b)

\* What a client holds is an engine that was created, and to rename it does
\* not bring it back, or only one whose build has failed.
RequestInv(c) ==
  client[c].step # "idle" =>
    /\ pc[client[c].engine] \notin {"start", "named", "refused"}
    /\ client[c].step = "rename" =>
         MayRename /\ (Live(client[c].engine) \/ pc[client[c].engine] = "failed")
    /\ client[c].step # "rename" => MayDelete

\* Rows come from builds that have begun to index.
RowsInv ==
  \A n \in Names : rows[n] # {} =>
    \E b \in Builders :
      NameOf[b] = n /\ pc[b] \notin {"start", "refused", "named", "created"}

KeptInv == /\ \A b \in Builders : EngineInv(b)
           /\ \A c \in Clients : RequestInv(c)
           /\ RowsInv

\* What is reported stays reported.
LEMMA LeftoverStays ==
  ASSUME NEW b, failed[b] \subseteq failed'[b], NEW t, Leftover(b, t)
  PROVE  Leftover(b, t)'
BY DEF Leftover, Downloaded

\* A step of somebody else that neither harms an engine nor brings it back.
LEMMA KeptOther ==
  ASSUME NEW x \in Builders, EngineInv(x),
         pc'[x] = pc[x], pos'[x] = pos[x], base'[x] = base[x],
         saved'[x] = saved[x], tmp'[x] = tmp[x], failed'[x] = failed[x],
         pc[x] \in {"start", "named", "refused"} => engines'[x] = engines[x],
         \A c \in chunks' : c.engine = x => c \in chunks,
         Unharmed(x)' => Unharmed(x),
         Unharmed(x)' => \A d \in docs : d.engine = x => d \in docs',
         Unharmed(x)' => \A c \in chunks : c.engine = x => c \in chunks',
         SoleUser(x)' => SoleUser(x) /\ rows'[NameOf[x]] = rows[NameOf[x]]
  PROVE  EngineInv(x)'
<1>1. Local(x)' = Local(x) /\ Unsaved(x)' = Unsaved(x)
  BY DEF Local, File, Unsaved
<1>2. \A k : UnsavedRow(x, k)' = UnsavedRow(x, k)
  BY <1>1 DEF UnsavedRow
<1>3. ASSUME Unharmed(x)' PROVE Accounted(x)'
  BY <1>3 DEF EngineInv, Accounted
<1>4. ASSUME Unharmed(x)', SoleUser(x)' PROVE RowsAgree(x)'
  <2>1. RowsAgree(x) /\ rows'[NameOf[x]] = rows[NameOf[x]]
    BY <1>4 DEF EngineInv
  <2>2. \A r \in rows[NameOf[x]] :
          \/ Resolves(x, r)' \/ Leftover(x, r.text)
          \/ \E k \in Unsaved(x) : r = UnsavedRow(x, k)
    BY <1>4, <2>1 DEF RowsAgree, Resolves
  <2>3. \A t : Leftover(x, t) => Leftover(x, t)'
    BY LeftoverStays
  <2> QED BY <1>1, <1>2, <2>1, <2>2, <2>3 DEF RowsAgree
<1> QED BY <1>3, <1>4 DEF EngineInv, Live

LEMMA InitKept == Init => KeptInv
BY BuildAssumption
DEF Init, KeptInv, EngineInv, RequestInv, RowsInv, Unharmed, Accounted, RowsAgree,
    Live, NoRequest

\* What a build's step does to the places of the builds.
LEMMA BuildPlaces ==
  ASSUME IInv, NEW b \in Builders, Build(b) \/ StepFails(b) \/ PodDies(b)
  PROVE  /\ \A x \in Builders \ {b} :
              /\ pc'[x] = pc[x] /\ pos'[x] = pos[x] /\ base'[x] = base[x]
              /\ saved'[x] = saved[x] /\ tmp'[x] = tmp[x]
              /\ failed'[x] = failed[x] /\ engines'[x] = engines[x]
         /\ client' = client
         /\ pc[b] \in {"start", "refused"} <=> CheckName(b)
         /\ pc'[b] \in {"start", "refused"} => pc[b] = "start"
         /\ pc[b] \notin {"start", "named", "refused"} =>
              pc'[b] \notin {"start", "named", "refused"}
         /\ pc[b] # "failed"
         /\ pc[b] \notin {"start", "refused", "named", "created"} =>
              pc'[b] \notin {"start", "refused", "named", "created"}
         /\ Live(b) => Live(b)' \/ pc'[b] = "failed"
BY BuildAssumption
DEF IInv, TypeOK, Build, CheckName, CreateEngine, Download, SkipFile, IndexFile,
    LoseAnswer, SaveDocument, SaveChunk, SaveLastChunk, Finish, FailDocuments,
    FailChunks, FailReferences, FailResults, FailEngine, DropEngine, StepFails,
    PodDies, Goto, Live, MoreFiles

\* What it does to what is stored.
LEMMA BuildStores ==
  ASSUME IInv, NEW b \in Builders, Build(b) \/ StepFails(b) \/ PodDies(b)
  PROVE  /\ \A x \in Builders \ {b} :
              /\ \A d \in docs : d.engine = x => d \in docs'
              /\ \A c \in chunks : c.engine = x => c \in chunks'
              /\ \A c \in chunks' : c.engine = x => c \in chunks
         /\ ~IndexFile(b) /\ ~LoseAnswer(b) => rows' = rows
         /\ IndexFile(b) \/ LoseAnswer(b) =>
              /\ pc[b] = "indexing" /\ pc'[b] \in {"indexing", "indexed"}
              /\ \A n \in Names \ {NameOf[b]} : rows'[n] = rows[n]
<1>1. NewChunk(b).engine = b
  BY DEF NewChunk
<1> QED BY <1>1
  DEF IInv, TypeOK, Build, CheckName, CreateEngine, Download, SkipFile, IndexFile,
      LoseAnswer, AddRows, SaveDocument, SaveChunk, SaveLastChunk, Finish,
      FailDocuments, FailChunks, FailReferences, FailResults, FailEngine, StepFails,
      PodDies, DropDocuments, DropChunks, Goto, MoreFiles

\* A build keeps what is known of the other engines, of requests and of rows.
LEMMA BuildKeepsOthers ==
  ASSUME IInv, KeptInv, NEW b \in Builders, Build(b) \/ StepFails(b) \/ PodDies(b)
  PROVE  /\ \A x \in Builders \ {b} : EngineInv(x)'
         /\ \A c \in Clients : RequestInv(c)'
         /\ RowsInv'
<1>1. NameOf \in [Builders -> Names]
  BY BuildAssumption
<1>2. ASSUME NEW x \in Builders \ {b} PROVE EngineInv(x)'
  <2>1. EngineInv(x) BY DEF KeptInv
  <2>2. Unharmed(x)' => Unharmed(x)
    BY BuildPlaces DEF Unharmed, Live
  <2>3. SoleUser(x)' => SoleUser(x)
    BY BuildPlaces DEF SoleUser
  <2>4. SoleUser(x)' => rows'[NameOf[x]] = rows[NameOf[x]]
    <3>1. CASE IndexFile(b) \/ LoseAnswer(b)
      <4>1. NameOf[b] = NameOf[x] => ~SoleUser(x)'
        BY <3>1, BuildStores DEF SoleUser
      <4> QED BY <1>1, <3>1, <4>1, BuildStores
    <3> QED BY <3>1, BuildStores
  <2>5. /\ pc'[x] = pc[x] /\ pos'[x] = pos[x] /\ base'[x] = base[x]
        /\ saved'[x] = saved[x] /\ tmp'[x] = tmp[x]
        /\ failed'[x] = failed[x] /\ engines'[x] = engines[x]
    BY BuildPlaces
  <2>6. /\ \A d \in docs : d.engine = x => d \in docs'
        /\ \A c \in chunks : c.engine = x => c \in chunks'
        /\ \A c \in chunks' : c.engine = x => c \in chunks
    BY BuildStores
  <2> QED BY <2>1, <2>2, <2>3, <2>4, <2>5, <2>6, KeptOther
<1>3. ASSUME NEW c \in Clients PROVE RequestInv(c)'
  <2>1. RequestInv(c) /\ client'[c] = client[c]
    BY BuildPlaces DEF KeptInv
  <2>2. client[c].step # "idle" => client[c].engine \in Builders
    BY DEF IInv, TypeOK, NoRequest
  <2> QED BY <2>1, <2>2, BuildPlaces DEF RequestInv, Live
<1>4. RowsInv'
  <2> SUFFICES ASSUME NEW n \in Names, rows'[n] # {}
               PROVE  \E y \in Builders :
                        /\ NameOf[y] = n
                        /\ pc'[y] \notin {"start", "refused", "named", "created"}
    BY DEF RowsInv
  <2>1. CASE rows[n] # {}
    <3>1. PICK y \in Builders :
            NameOf[y] = n /\ pc[y] \notin {"start", "refused", "named", "created"}
      BY <2>1 DEF KeptInv, RowsInv
    <3> QED BY <3>1, BuildPlaces
  <2>2. CASE rows[n] = {}
    BY <2>2, BuildStores
  <2> QED BY <2>1, <2>2
<1> QED BY <1>2, <1>3, <1>4

\* A local path holds what was downloaded to it, or nothing.
AsDownloaded == \A b \in Builders, p \in Paths : tmp[b][p] \in {NoFile, Downloaded(b, p)}

LEMMA DownloadedInvariance == Spec => []AsDownloaded
<1>1. Init => AsDownloaded
  BY DEF Init, AsDownloaded
<1>2. ASSUME IInv, AsDownloaded, [Next]_vars PROVE AsDownloaded'
  <2>1. \A b \in Builders, p \in Paths :
          tmp'[b][p] \in {tmp[b][p], NoFile, Downloaded(b, p)}
    <3>0. tmp \in [Builders -> [Paths -> Files \cup {NoFile}]]
      BY <1>2 DEF IInv, TypeOK
    <3>1. ASSUME NEW c \in Builders, Download(c)
          PROVE  \A b \in Builders, p \in Paths :
                   tmp'[b][p] \in {tmp[b][p], NoFile, Downloaded(b, p)}
      BY <3>0, <3>1 DEF Download
    <3>2. ASSUME NEW c \in Builders, SaveLastChunk(c)
          PROVE  \A b \in Builders, p \in Paths :
                   tmp'[b][p] \in {tmp[b][p], NoFile, Downloaded(b, p)}
      BY <3>0, <3>2 DEF SaveLastChunk
    <3>3. tmp' = tmp \/ \E c \in Builders : Download(c) \/ SaveLastChunk(c)
      BY <1>2
      DEF Next, vars, build, Build, CheckName, CreateEngine, SkipFile, IndexFile,
          LoseAnswer, SaveDocument, SaveChunk, Finish, FailDocuments, FailChunks,
          FailReferences, FailResults, FailEngine, StepFails, PodDies, Serve,
          FindEngine, DeleteDocuments, DeleteChunks, DeleteReferences, DeleteResults,
          DeleteEngine, UpdateEngine
    <3> QED BY <3>1, <3>2, <3>3
  <2>2. ASSUME NEW b \in Builders, NEW p \in Paths
        PROVE  tmp'[b][p] \in {NoFile, Downloaded(b, p)}
    BY <1>2, <2>1 DEF AsDownloaded
  <2>3. \A b \in Builders, p \in Paths : Downloaded(b, p)' = Downloaded(b, p)
    BY DEF Downloaded
  <2> QED BY <2>2, <2>3 DEF AsDownloaded
<1> QED BY <1>1, <1>2, Invariance, PTL DEF Spec

\* The rows of a lost answer are left over.
LEMMA LostRows ==
  ASSUME IInv, AsDownloaded, NEW b \in Builders, LoseAnswer(b), NEW r \in NewRows(b)
  PROVE  Leftover(b, r.text)'
<1>1. /\ Path[File(b)] \in Paths /\ Local(b) # NoFile
      /\ File(b) \in failed'[b]
  BY FileType DEF LoseAnswer, MoreFiles, Readable, IInv, TypeOK
<1>2. Local(b) = Downloaded(b, Path[File(b)])
  BY <1>1 DEF AsDownloaded, Local
<1>3. PICK k \in 1 .. Size[Local(b)] :
        r = [index |-> base[b] + k - 1, text |-> <<Local(b), k>>]
  BY DEF NewRows
<1>4. r.text[1] = Local(b)
  BY <1>3
<1>5. PICK f \in failed'[b] : f = File(b)
  BY <1>1
<1>6. r.text[1] = Downloaded(b, Path[f])
  BY <1>2, <1>4, <1>5
<1> QED BY <1>6 DEF Leftover, Downloaded

\* A file is passed over and noted, with or without rows left behind.
LEMMA SkipKept ==
  ASSUME IInv, KeptInv, AsDownloaded, NEW b \in Builders, SkipFile(b) \/ LoseAnswer(b)
  PROVE  EngineInv(b)'
<1>1. /\ pc[b] = "indexing" /\ pc' = pc /\ pos'[b] = pos[b] + 1 /\ pos[b] \in Nat
      /\ failed'[b] = failed[b] \cup {Listing[b][pos[b]]}
      /\ docs' = docs /\ chunks' = chunks
      /\ engines' = engines /\ client' = client
  BY DEF SkipFile, LoseAnswer, MoreFiles, IInv, TypeOK, File
<1>2. Unharmed(b)' => Accounted(b)'
  <2> SUFFICES ASSUME Unharmed(b), NEW i \in DOMAIN Listing[b], i < pos[b] + 1
               PROVE  \/ Listing[b][i] \in failed'[b]
                      \/ \E d \in docs : d.engine = b /\ d.url = Listing[b][i]
    BY <1>1 DEF Unharmed, Live, Accounted
  <2>1. CASE i < pos[b]
    BY <1>1, <2>1 DEF KeptInv, EngineInv, Accounted
  <2>2. CASE i = pos[b]
    BY <1>1, <2>2
  <2>3. i \in Nat
    BY BuildAssumption
  <2> QED BY <1>1, <2>1, <2>2, <2>3
<1>3. ASSUME NEW r \in rows'[NameOf[b]]
      PROVE  r \in rows[NameOf[b]] \/ Leftover(b, r.text)'
  <2>1. CASE SkipFile(b)
    BY <2>1 DEF SkipFile
  <2>2. CASE LoseAnswer(b)
    <3>1. rows'[NameOf[b]] = rows[NameOf[b]] \cup NewRows(b)
      BY <2>2, BuildAssumption DEF LoseAnswer, AddRows, IInv, TypeOK
    <3> QED BY <2>2, <3>1, LostRows
  <2> QED BY <2>1, <2>2
<1>4. rows[NameOf[b]] \subseteq rows'[NameOf[b]]
  BY BuildAssumption DEF SkipFile, LoseAnswer, AddRows, IInv, TypeOK
<1>5. ASSUME Unharmed(b)', SoleUser(b)' PROVE RowsAgree(b)'
  <2>1. Unsaved(b) = {} /\ Unsaved(b)' = {}
    BY <1>1 DEF Unsaved
  <2>2. RowsAgree(b)
    BY <1>1, <1>5 DEF Unharmed, SoleUser, Live, KeptInv, EngineInv
  <2>3. \A t : Leftover(b, t) => Leftover(b, t)'
    BY <1>1, LeftoverStays
  <2>4. \A r \in rows'[NameOf[b]] : Resolves(b, r)' \/ Leftover(b, r.text)'
    BY <1>1, <1>3, <2>1, <2>2, <2>3 DEF RowsAgree, Resolves
  <2>5. \A c \in chunks : c.engine = b =>
          [index |-> c.index, text |-> c.text] \in rows'[NameOf[b]]
    BY <1>4, <2>2 DEF RowsAgree
  <2> QED BY <1>1, <2>1, <2>4, <2>5 DEF RowsAgree
<1> QED BY <1>1, <1>2, <1>5 DEF EngineInv

\* The rows of a file are those whose chunks are still to be saved.
LEMMA IndexKept ==
  ASSUME IInv, KeptInv, NEW b \in Builders, IndexFile(b)
  PROVE  EngineInv(b)'
<1> DEFINE new == NewRows(b)
<1>1. /\ pc[b] = "indexing" /\ pc'[b] = "indexed" /\ saved'[b] = 0 /\ saved' = saved
      /\ \A x \in Builders \ {b} : pc'[x] = pc[x]
      /\ pos' = pos /\ base' = base /\ tmp' = tmp /\ failed' = failed
      /\ docs' = docs /\ chunks' = chunks /\ engines' = engines /\ client' = client
  BY DEF IndexFile, MoreFiles, Goto, IInv, TypeOK, BuildInv, InLoop, Between
<1>2. rows'[NameOf[b]] = rows[NameOf[b]] \cup new
  BY BuildAssumption DEF IndexFile, AddRows, IInv, TypeOK
<1>3. Local(b)' = Local(b) /\ Unsaved(b) = {} /\ Unsaved(b)' = 1 .. Size[Local(b)]
  BY <1>1 DEF Local, File, Unsaved
<1>4. \A k : UnsavedRow(b, k)' = UnsavedRow(b, k)
  BY <1>1, <1>3 DEF UnsavedRow
<1>5. Unharmed(b)' => Unharmed(b)
  BY <1>1 DEF Unharmed, Live
<1>6. SoleUser(b)' => SoleUser(b)
  BY <1>1 DEF SoleUser
<1>7. Unharmed(b)' => Accounted(b)'
  BY <1>1, <1>5 DEF KeptInv, EngineInv, Accounted
<1>8. ASSUME Unharmed(b)', SoleUser(b)' PROVE RowsAgree(b)'
  <2>1. RowsAgree(b)
    BY <1>5, <1>6, <1>8 DEF KeptInv, EngineInv
  <2>0. \A t : Leftover(b, t) => Leftover(b, t)'
    BY <1>1, LeftoverStays
  <2>2. \A r \in rows[NameOf[b]] : Resolves(b, r)' \/ Leftover(b, r.text)'
    BY <1>1, <1>3, <2>0, <2>1 DEF RowsAgree, Resolves
  <2>3. \A k \in Unsaved(b)' : UnsavedRow(b, k)' \in new
    BY <1>3, <1>4 DEF NewRows, UnsavedRow
  <2>4. \A r \in new : \E k \in Unsaved(b)' : r = UnsavedRow(b, k)'
    BY <1>3, <1>4 DEF NewRows, UnsavedRow
  <2> HIDE DEF new
  <2> QED BY <1>1, <1>2, <2>1, <2>2, <2>3, <2>4 DEF RowsAgree
<1> QED BY <1>1, <1>7, <1>8 DEF EngineInv

\* The document of a file is saved.
LEMMA DocumentKept ==
  ASSUME IInv, KeptInv, NEW b \in Builders, SaveDocument(b)
  PROVE  EngineInv(b)'
<1>1. /\ pc[b] = "indexed" /\ pc'[b] = "described"
      /\ \A x \in Builders \ {b} : pc'[x] = pc[x]
      /\ pos' = pos /\ base' = base /\ tmp' = tmp /\ failed' = failed /\ saved' = saved
      /\ chunks' = chunks /\ engines' = engines /\ client' = client /\ rows' = rows
      /\ docs \subseteq docs'
  BY DEF SaveDocument, Goto, IInv, TypeOK
<1>0. \E d \in docs' : d.engine = b /\ d.url = Listing[b][pos[b]]
  <2> DEFINE new == [engine |-> b, url |-> File(b),
                     start |-> base[b], end |-> base[b] + Size[Local(b)]]
  <2>1. new \in docs' /\ new.engine = b /\ new.url = Listing[b][pos[b]]
    BY DEF SaveDocument, File
  <2> QED BY <2>1
<1>2. Unharmed(b)' => Unharmed(b)
  BY <1>1 DEF Unharmed, Live
<1>3. SoleUser(b)' => SoleUser(b)
  BY <1>1 DEF SoleUser
<1>4. Unharmed(b)' => Accounted(b)'
  BY <1>0, <1>1, <1>2 DEF KeptInv, EngineInv, Accounted
<1>5. ASSUME Unharmed(b)', SoleUser(b)' PROVE RowsAgree(b)'
  <2>1. RowsAgree(b)
    BY <1>2, <1>3, <1>5 DEF KeptInv, EngineInv
  <2>2. Local(b)' = Local(b) /\ Unsaved(b)' = Unsaved(b)
    BY <1>1 DEF Local, File, Unsaved
  <2>3. \A k : UnsavedRow(b, k)' = UnsavedRow(b, k)
    BY <1>1, <2>2 DEF UnsavedRow
  <2>4. \A t : Leftover(b, t) => Leftover(b, t)'
    BY <1>1, LeftoverStays
  <2> QED BY <1>1, <2>1, <2>2, <2>3, <2>4 DEF RowsAgree, Resolves
<1> QED BY <1>1, <1>4, <1>5 DEF EngineInv

\* A chunk is saved: its row is no longer one without a chunk.  With the last
\* one the build goes on to the next file.
LEMMA ChunkKept ==
  ASSUME IInv, KeptInv, NEW b \in Builders, SaveChunk(b) \/ SaveLastChunk(b)
  PROVE  EngineInv(b)'
<1>1. /\ pc[b] = "described" /\ pc'[b] \in {"described", "indexing"}
      /\ \A x \in Builders \ {b} : pc'[x] = pc[x]
      /\ pc'[b] = "described" => pos'[b] = pos[b] /\ ~LastChunk(b)
      /\ pc'[b] = "indexing" => pos'[b] = pos[b] + 1 /\ LastChunk(b)
      /\ failed' = failed /\ docs' = docs /\ rows' = rows
      /\ engines' = engines /\ client' = client
      /\ chunks' = chunks \cup {NewChunk(b)}
  BY DEF SaveChunk, SaveLastChunk, Goto, IInv, TypeOK
<1>2. Unharmed(b)' => Unharmed(b)
  BY <1>1 DEF Unharmed, Live
<1>3. SoleUser(b)' => SoleUser(b)
  BY <1>1 DEF SoleUser
<1>4. Unharmed(b)' => Accounted(b)'
  <2>1. pos[b] \in Nat /\ \A i \in DOMAIN Listing[b] : i \in Nat
    BY BuildAssumption DEF IInv, TypeOK
  <2> QED BY <1>1, <1>2, <2>1 DEF KeptInv, EngineInv, Accounted
<1>5. /\ saved[b] \in Nat /\ base[b] \in Nat /\ Size[Local(b)] \in Nat
      /\ saved[b] < Size[Local(b)]
  BY <1>1, FileType DEF IInv, TypeOK, BuildInv, InLoop, Readable
<1>6. /\ NewChunk(b).engine = b
      /\ [index |-> NewChunk(b).index, text |-> NewChunk(b).text]
           = UnsavedRow(b, saved[b] + 1)
  BY <1>5 DEF NewChunk, UnsavedRow
<1>7. ASSUME Unharmed(b)', SoleUser(b)' PROVE RowsAgree(b)'
  <2>1. RowsAgree(b)
    BY <1>2, <1>3, <1>7 DEF KeptInv, EngineInv
  <2>2. Unsaved(b) = saved[b] + 1 .. Size[Local(b)]
    BY <1>1 DEF Unsaved
  <2>3. /\ Unsaved(b)' = Unsaved(b) \ {saved[b] + 1}
        /\ \A k \in Unsaved(b)' : UnsavedRow(b, k)' = UnsavedRow(b, k)
    <3>1. CASE SaveChunk(b)
      <4>1. /\ pc' = pc /\ base' = base /\ pos' = pos /\ tmp' = tmp
            /\ saved'[b] = saved[b] + 1
        BY <3>1 DEF SaveChunk, IInv, TypeOK
      <4>2. Local(b)' = Local(b)
        BY <4>1 DEF Local, File
      <4> QED BY <1>1, <1>5, <2>2, <4>1, <4>2 DEF Unsaved, UnsavedRow
    <3>2. CASE SaveLastChunk(b)
      <4>1. pc'[b] = "indexing" /\ saved[b] + 1 = Size[Local(b)]
        BY <3>2 DEF SaveLastChunk, LastChunk, Goto, IInv, TypeOK
      <4> QED BY <1>5, <2>2, <4>1 DEF Unsaved
    <3> QED BY <3>1, <3>2
  <2>4. ASSUME NEW r \in rows[NameOf[b]]
        PROVE  \/ Resolves(b, r)' \/ Leftover(b, r.text)'
               \/ \E k \in Unsaved(b)' : r = UnsavedRow(b, k)'
    <3>0. CASE Leftover(b, r.text)
      BY <1>1, <3>0, LeftoverStays
    <3>1. CASE Resolves(b, r)
      BY <1>1, <3>1 DEF Resolves
    <3>2. CASE r = UnsavedRow(b, saved[b] + 1)
      <4>1. NewChunk(b).index = r.index /\ NewChunk(b).text = r.text
        BY <1>6, <3>2 DEF UnsavedRow, NewChunk
      <4>2. NewChunk(b) \in chunks'
        BY <1>1
      <4> QED BY <1>6, <4>1, <4>2 DEF Resolves
    <3>3. ASSUME NEW k \in Unsaved(b), k # saved[b] + 1, r = UnsavedRow(b, k)
          PROVE  \E l \in Unsaved(b)' : r = UnsavedRow(b, l)'
      BY <2>3, <3>3
    <3> QED BY <2>1, <3>0, <3>1, <3>2, <3>3 DEF RowsAgree
  <2>5. UnsavedRow(b, saved[b] + 1) \in rows[NameOf[b]]
    BY <1>5, <2>1, <2>2 DEF RowsAgree
  <2>6. \A c \in chunks' : c.engine = b =>
          [index |-> c.index, text |-> c.text] \in rows'[NameOf[b]]
    BY <1>1, <1>6, <2>1, <2>5 DEF RowsAgree
  <2>7. \A k \in Unsaved(b)' : UnsavedRow(b, k)' \in rows'[NameOf[b]]
    BY <1>1, <2>1, <2>3 DEF RowsAgree
  <2> QED BY <1>1, <2>4, <2>6, <2>7 DEF RowsAgree
<1> QED BY <1>1, <1>4, <1>7 DEF EngineInv

\* The other steps: an engine is created, without rows to its name unless
\* somebody else used it; a build ends; a build fails.
LEMMA StepKept ==
  ASSUME IInv, KeptInv, NEW b \in Builders,
         \/ CheckName(b) \/ CreateEngine(b) \/ Download(b) \/ Finish(b)
         \/ FailDocuments(b) \/ FailChunks(b) \/ FailReferences(b) \/ FailResults(b)
         \/ FailEngine(b) \/ StepFails(b) \/ PodDies(b)
  PROVE  EngineInv(b)'
<1>1. \A x \in Builders \ {b} : pc'[x] = pc[x]
  BY DEF IInv, TypeOK, CheckName, CreateEngine, Download, Finish, FailDocuments,
         FailChunks, FailReferences, FailResults, FailEngine, StepFails, PodDies, Goto
<1>2. CASE CheckName(b)
  BY <1>2 DEF CheckName, Goto, IInv, TypeOK, KeptInv, EngineInv, Unharmed, Live
<1>3. CASE CreateEngine(b)
  <2>1. /\ pc[b] = "named" /\ pc'[b] = "created" /\ pos' = pos /\ pos[b] = 1
        /\ chunks' = chunks /\ rows' = rows /\ \A c \in chunks : c.engine # b
    BY <1>3 DEF CreateEngine, Goto, IInv, TypeOK, KeptInv, EngineInv
  <2>2. Accounted(b)'
    BY <2>1, BuildAssumption DEF Accounted
  <2>3. ASSUME SoleUser(b)' PROVE RowsAgree(b)'
    <3>1. \A x \in Builders : NameOf[x] = NameOf[b] =>
            pc[x] \in {"start", "refused", "named"}
      BY <1>1, <2>1, <2>3 DEF SoleUser
    <3>2. rows[NameOf[b]] = {}
      BY <3>1, BuildAssumption DEF KeptInv, RowsInv
    <3> QED BY <2>1, <3>2 DEF RowsAgree, Unsaved
  <2> QED BY <2>1, <2>2, <2>3 DEF EngineInv
<1>4. CASE Download(b) \/ Finish(b)
  <2>1. /\ pc[b] \in {"created", "indexing"} /\ pc'[b] \in {"indexing", "done", "failing"}
        /\ pc'[b] = "done" => pos'[b] > Len(Listing[b])
        /\ pos' = pos /\ chunks' = chunks /\ rows' = rows /\ docs' = docs
        /\ failed' = failed /\ engines' = engines /\ client' = client
    BY <1>4 DEF Download, Finish, Goto, IInv, TypeOK
  <2>2. Unharmed(b)' => Unharmed(b)
    BY <2>1 DEF Unharmed, Live
  <2>3. SoleUser(b)' => SoleUser(b)
    BY <1>1, <2>1 DEF SoleUser
  <2>4. Unharmed(b)' => Accounted(b)'
    BY <2>1, <2>2 DEF KeptInv, EngineInv, Accounted
  <2>5. Unsaved(b) = {} /\ Unsaved(b)' = {}
    BY <2>1 DEF Unsaved
  <2>6. \A t : Leftover(b, t) => Leftover(b, t)'
    BY <2>1, LeftoverStays
  <2>7. Unharmed(b)' /\ SoleUser(b)' => RowsAgree(b)'
    BY <2>1, <2>2, <2>3, <2>5, <2>6 DEF KeptInv, EngineInv, RowsAgree, Resolves
  <2> QED BY <2>1, <2>4, <2>7 DEF EngineInv
<1>5. CASE \/ FailDocuments(b) \/ FailChunks(b) \/ FailReferences(b) \/ FailResults(b)
           \/ FailEngine(b) \/ StepFails(b) \/ PodDies(b)
  <2>1. pc'[b] \in {"failing", "failing-chunks", "dead"} \cup ChunksGone
    BY <1>5 DEF FailDocuments, FailChunks, FailReferences, FailResults, FailEngine,
                StepFails, PodDies, Goto, IInv, TypeOK, ChunksGone
  <2> QED BY <2>1 DEF EngineInv, Unharmed, ChunksGone
<1> QED BY <1>2, <1>3, <1>4, <1>5

\* A client that cannot bring an engine back.
LEMMA ClientKept ==
  ASSUME IInv, KeptInv, NoComeback, NEW c \in Clients, Serve(c)
  PROVE  KeptInv'
<1>1. /\ UNCHANGED <<rows, build>>
      /\ docs' \subseteq docs /\ chunks' \subseteq chunks
      /\ \A x \in Clients \ {c} : client'[x] = client[x]
  BY DEF Serve, FindEngine, DeleteDocuments, DeleteChunks, DeleteReferences,
         DeleteResults, DeleteEngine, UpdateEngine, DropDocuments, DropChunks,
         Request, Done, IInv, TypeOK
<1> DEFINE e == client[c].engine
<1>2. client[c].step # "idle" =>
        /\ e \in Builders /\ pc[e] \notin {"start", "named", "refused"}
        /\ client[c].step = "rename" =>
             MayRename /\ (Live(e) \/ pc[e] = "failed") /\ client[c].name \in Names
        /\ client[c].step # "rename" => MayDelete
  BY DEF KeptInv, RequestInv, IInv, TypeOK, NoRequest
<1>3. CASE FindEngine(c)
  <2>1. PICK f \in Builders :
          /\ Live(f)
          /\ \/ MayDelete /\ client' = [client EXCEPT ![c] =
                  [step |-> "drop-docs", engine |-> f, name |-> NoEngine]]
             \/ MayRename /\ \E n \in Names : client' = [client EXCEPT ![c] =
                  [step |-> "rename", engine |-> f, name |-> n]]
    BY <1>3 DEF FindEngine
  <2>2. /\ client[c].step = "idle" /\ client'[c].engine = f
        /\ \/ client'[c].step = "drop-docs" /\ MayDelete
           \/ client'[c].step = "rename" /\ MayRename
        /\ engines' = engines /\ docs' = docs /\ chunks' = chunks
    BY <1>3, <2>1 DEF FindEngine, IInv, TypeOK
  <2>3. pc[f] \notin {"start", "named", "refused"}
    BY <2>1 DEF KeptInv, EngineInv
  <2>4. \A x \in Clients : RequestInv(x)'
    BY <1>1, <2>1, <2>2, <2>3 DEF KeptInv, RequestInv, Live, build
  <2>5. \A x \in Builders : Unharmed(x)' => Unharmed(x)
    <3>1. client[c].engine \notin Builders
      <4>1. client[c] = NoRequest
        BY <2>2 DEF IInv, TypeOK
      <4> QED BY <4>1, BuildAssumption DEF NoRequest
    <3> QED BY <1>1, <2>2, <3>1 DEF Unharmed, Live, build
  <2>6. \A x \in Builders : EngineInv(x)'
    BY <1>1, <2>2, <2>5, KeptOther DEF KeptInv, SoleUser, build
  <2> QED BY <1>1, <2>4, <2>6 DEF KeptInv, RowsInv, build
<1>4. CASE \/ DeleteDocuments(c) \/ DeleteChunks(c)
           \/ DeleteReferences(c) \/ DeleteResults(c)
  <2>1. /\ engines' = engines
        /\ client[c].step \in {"drop-docs", "drop-chunks", "drop-references", "drop-results"}
        /\ client'[c].step \in {"drop-chunks", "drop-references", "drop-results",
                                "drop-engine"}
        /\ client'[c].engine = e
        /\ \A d \in docs : d.engine # e => d \in docs'
        /\ \A k \in chunks : k.engine # e => k \in chunks'
    BY <1>4 DEF DeleteDocuments, DeleteChunks, DeleteReferences, DeleteResults,
                DropDocuments, DropChunks, Request, IInv, TypeOK, NoRequest
  <2>2. \A x \in Clients : RequestInv(x)'
    BY <1>1, <1>2, <2>1 DEF KeptInv, RequestInv, Live, build
  <2>3. \A x \in Builders : Unharmed(x)' => Unharmed(x) /\ x # e
    BY <1>1, <2>1 DEF Unharmed, Live, build
  <2>4. \A x \in Builders : EngineInv(x)'
    BY <1>1, <2>1, <2>3, KeptOther DEF KeptInv, SoleUser, build
  <2> QED BY <1>1, <2>2, <2>4 DEF KeptInv, RowsInv, build
<1>5. CASE DeleteEngine(c)
  <2>1. /\ client[c].step = "drop-engine" /\ client'[c] = NoRequest
        /\ docs' = docs /\ chunks' = chunks
        /\ engines' = [engines EXCEPT ![e] = NoEngine]
    BY <1>5 DEF DeleteEngine, DropEngine, Done, IInv, TypeOK
  <2>2. engines \in [Builders -> Names \cup {NoEngine}]
    BY DEF IInv, TypeOK
  <2>3. \A x \in Clients \ {c} : client[x].step # "rename"
    <3>1. ASSUME NEW x \in Clients \ {c}, client[x].step = "rename" PROVE FALSE
      <4>1. RequestInv(x)
        BY DEF KeptInv
      <4>2. MayRename /\ MayDelete
        BY <1>2, <2>1, <3>1, <4>1 DEF RequestInv
      <4> QED BY <3>1, <4>2 DEF NoComeback
    <3> QED BY <3>1
  <2>4. \A x \in Clients : RequestInv(x)'
    BY <1>1, <2>1, <2>3 DEF KeptInv, RequestInv, NoRequest, build
  <2>5. engines'[e] = NoEngine
    BY <1>2, <2>1, <2>2
  <2>6. \A x \in Builders : Unharmed(x)' => Unharmed(x)
    BY <1>1, <2>1, <2>2, <2>5 DEF Unharmed, Live, build
  <2>7. \A x \in Builders : x # e => engines'[x] = engines[x]
    BY <2>1, <2>2
  <2>8. \A x \in Builders : EngineInv(x)'
    BY <1>1, <1>2, <2>1, <2>6, <2>7, KeptOther DEF KeptInv, SoleUser, build
  <2> QED BY <1>1, <2>4, <2>8 DEF KeptInv, RowsInv, build
<1>6. CASE UpdateEngine(c)
  <2>1. /\ client[c].step = "rename" /\ client'[c] = NoRequest
        /\ docs' = docs /\ chunks' = chunks
        /\ engines' = [engines EXCEPT ![e] = client[c].name]
    BY <1>6 DEF UpdateEngine, Done, IInv, TypeOK
  <2>2. engines \in [Builders -> Names \cup {NoEngine}]
    BY DEF IInv, TypeOK
  <2>3. \A x \in Builders : Live(x) => Live(x)'
    BY <1>2, <2>1, <2>2, BuildAssumption DEF Live
  <2>4. \A x \in Builders : x # e => engines'[x] = engines[x]
    BY <2>1, <2>2
  <2>5. \A x \in Clients : RequestInv(x)'
    <3>1. \A x \in Clients : client[x].step # "idle" => client[x].engine \in Builders
      BY DEF IInv, TypeOK, NoRequest
    <3> QED BY <1>1, <2>1, <2>3, <3>1 DEF KeptInv, RequestInv, NoRequest, build
  <2>6. \A x \in Builders : Unharmed(x)' => Unharmed(x)
    <3>1. ASSUME NEW x \in Builders, Unharmed(x)' PROVE Unharmed(x)
      <4>1. pc[x] # "failed" /\ pc'[x] = pc[x]
        BY <1>1, <3>1 DEF Unharmed, build
      <4>2. Live(x)
        BY <1>2, <2>1, <2>4, <3>1, <4>1 DEF Unharmed, Live
      <4> QED BY <1>1, <2>1, <3>1, <4>1, <4>2 DEF Unharmed
    <3> QED BY <3>1
  <2>7. \A x \in Builders : EngineInv(x)'
    BY <1>1, <1>2, <2>1, <2>4, <2>6, KeptOther DEF KeptInv, SoleUser, build
  <2> QED BY <1>1, <2>5, <2>7 DEF KeptInv, RowsInv, build
<1> QED BY <1>3, <1>4, <1>5, <1>6 DEF Serve

\* What is known of engines that are kept holds as long as no client can bring
\* a deleted one back.
LEMMA KeptInvariance == ASSUME NoComeback PROVE Spec => []KeptInv
<1>1. ASSUME IInv, KeptInv, AsDownloaded, [Next]_vars PROVE KeptInv'
  <2>1. ASSUME NEW b \in Builders, Build(b) \/ StepFails(b) \/ PodDies(b)
        PROVE  KeptInv'
    <3>1. EngineInv(b)'
      BY <1>1, <2>1, SkipKept, IndexKept, DocumentKept, ChunkKept, StepKept DEF Build
    <3>2. /\ \A x \in Builders \ {b} : EngineInv(x)'
          /\ \A c \in Clients : RequestInv(c)'
          /\ RowsInv'
      BY <1>1, <2>1, BuildKeepsOthers
    <3> QED BY <3>1, <3>2 DEF KeptInv
  <2>2. ASSUME NEW c \in Clients, Serve(c) PROVE KeptInv'
    BY <1>1, <2>2, ClientKept
  <2>3. CASE UNCHANGED vars
    <3>1. \A x \in Builders : EngineInv(x)'
      BY <1>1, <2>3, KeptOther DEF KeptInv, vars, Unharmed, SoleUser, Live
    <3>2. \A c \in Clients : RequestInv(c)'
      BY <1>1, <2>3 DEF KeptInv, RequestInv, vars, Live
    <3> QED BY <1>1, <2>3, <3>1, <3>2 DEF KeptInv, RowsInv, vars
  <2> QED BY <1>1, <2>1, <2>2, <2>3 DEF Next
<1> QED BY <1>1, InitKept, Invariance, DownloadedInvariance, PTL DEF Spec

\* A finished build accounts for every document of its listing.
THEOREM ReportSound == Spec => []EveryFileReported
<1>1. ASSUME IInv, KeptInv PROVE EveryFileReported
  <2> SUFFICES ASSUME NEW b \in Builders, Ready(b), NEW i \in DOMAIN Listing[b]
               PROVE  \/ Listing[b][i] \in failed[b]
                      \/ \E d \in docs : d.engine = b /\ d.url = Listing[b][i]
    BY DEF EveryFileReported
  <2>1. Unharmed(b) /\ pos[b] > Len(Listing[b])
    BY <1>1 DEF Ready, Unharmed, KeptInv, EngineInv
  <2>2. i \in 1 .. Len(Listing[b]) /\ pos[b] \in Nat /\ Len(Listing[b]) \in Nat
    BY <1>1, BuildAssumption DEF IInv, TypeOK
  <2> QED BY <1>1, <2>1, <2>2 DEF KeptInv, EngineInv, Accounted
<1>2. CASE NoComeback
  <2>1. Spec => []KeptInv
    BY <1>2, KeptInvariance
  <2> QED BY <1>1, <2>1, Invariance, PTL
<1>3. CASE ~NoComeback
  <2>1. EveryFileReported
    BY <1>3 DEF EveryFileReported
  <2> QED BY <2>1, PTL
<1> QED BY <1>2, <1>3

\* Of an engine whose name nobody else used, rows and chunks agree, but for rows
\* of files reported as not processed.
THEOREM SearchingSound == Spec => []SearchSound
<1>1. ASSUME IInv, KeptInv PROVE SearchSound
  <2> SUFFICES ASSUME NEW e \in Builders, Ready(e), OwnsItsName(e)
               PROVE  /\ \A r \in rows[engines[e]] :
                           Resolves(e, r) \/ Leftover(e, r.text)
                      /\ \A c \in chunks : c.engine = e =>
                           [index |-> c.index, text |-> c.text] \in rows[engines[e]]
    BY DEF SearchSound
  <2>1. Unharmed(e) /\ SoleUser(e) /\ Unsaved(e) = {}
    BY DEF Ready, Unharmed, OwnsItsName, SoleUser, Unsaved
  <2> QED BY <1>1, <2>1 DEF KeptInv, EngineInv, RowsAgree, OwnsItsName
<1>2. CASE NoComeback
  <2>1. Spec => []KeptInv
    BY <1>2, KeptInvariance
  <2> QED BY <1>1, <2>1, Invariance, PTL
<1>3. CASE ~NoComeback
  <2>1. SearchSound
    BY <1>3 DEF SearchSound
  <2> QED BY <2>1, PTL
<1> QED BY <1>2, <1>3
-----------------------------------------------------------------------------
(* Engines deleted after their build *)

NoDocuments(e) == \A d \in docs : d.engine # e
NoChunks(e) == \A c \in chunks : c.engine # e

\* The steps of a DELETE that has removed the chunks.
ChunksDropped == {"drop-references", "drop-results", "drop-engine"}

\* A built engine stays built, a DELETE has removed what its step says, and an
\* engine that is gone has nothing left.
CleanlyGoing(e) ==
  /\ pc[e] = "done"
  /\ ~Live(e) => NoDocuments(e) /\ NoChunks(e)
  /\ \A c \in Clients : client[c].engine = e =>
       /\ client[c].step \in {"drop-chunks"} \cup ChunksDropped => NoDocuments(e)
       /\ client[c].step \in ChunksDropped => NoChunks(e)

\* Builds write for their own engine only, and this one's is over.
LEMMA BuildLeavesBuilt ==
  ASSUME IInv, NEW b \in Builders, Build(b) \/ StepFails(b) \/ PodDies(b),
         NEW e \in Builders, pc[e] = "done"
  PROVE  /\ pc'[e] = "done" /\ engines'[e] = engines[e] /\ client' = client
         /\ NoDocuments(e) => NoDocuments(e)'
         /\ NoChunks(e) => NoChunks(e)'
<1>0. /\ pc = [x \in Builders |-> pc[x]]
      /\ engines = [x \in Builders |-> engines[x]]
  BY DEF IInv, TypeOK
<1> USE <1>0 DEF Goto, NoDocuments, NoChunks
<1>1. CASE \/ CheckName(b) \/ Download(b) \/ SkipFile(b) \/ IndexFile(b)
           \/ LoseAnswer(b) \/ Finish(b)
  BY <1>1 DEF CheckName, Download, SkipFile, IndexFile, LoseAnswer, Finish, MoreFiles
<1>2. CASE CreateEngine(b)
  BY <1>2 DEF CreateEngine
<1>3. CASE SaveDocument(b)
  BY <1>3 DEF SaveDocument
<1>4. CASE SaveChunk(b) \/ SaveLastChunk(b)
  BY <1>4 DEF SaveChunk, SaveLastChunk, NewChunk
<1>5. CASE FailDocuments(b) \/ FailChunks(b) \/ FailReferences(b) \/ FailResults(b)
  BY <1>5 DEF FailDocuments, FailChunks, FailReferences, FailResults, DropDocuments,
              DropChunks
<1>6. CASE FailEngine(b)
  BY <1>6 DEF FailEngine, DropEngine
<1>7. CASE StepFails(b) \/ PodDies(b)
  BY <1>7 DEF StepFails, PodDies
<1> QED BY <1>1, <1>2, <1>3, <1>4, <1>5, <1>6, <1>7 DEF Build

\* A client only removes, in the order of the invariant.
LEMMA ServeLeavesBuilt ==
  ASSUME IInv, NEW c \in Clients, Serve(c), NEW e \in Builders, CleanlyGoing(e)
  PROVE  CleanlyGoing(e)'
<1>0. /\ engines \in [Builders -> Names \cup {NoEngine}]
      /\ \A x \in Clients : client'[x] = IF x = c THEN client'[c] ELSE client[x]
  BY DEF IInv, TypeOK, NoRequest, Serve, FindEngine, DeleteDocuments, DeleteChunks,
         DeleteReferences, DeleteResults, DeleteEngine, UpdateEngine, Request, Done
<1>1. /\ pc' = pc
      /\ NoDocuments(e) => NoDocuments(e)'
      /\ NoChunks(e) => NoChunks(e)'
  BY DEF Serve, FindEngine, DeleteDocuments, DeleteChunks, DeleteReferences,
         DeleteResults, DeleteEngine, UpdateEngine, DropDocuments, DropChunks, build,
         NoDocuments, NoChunks
<1> USE DEF ChunksDropped
<1>2. ASSUME NEW x \in Clients \ {c}, client'[x].engine = e
      PROVE  /\ client'[x].step \in {"drop-chunks"} \cup ChunksDropped => NoDocuments(e)'
             /\ client'[x].step \in ChunksDropped => NoChunks(e)'
  BY <1>0, <1>1, <1>2 DEF CleanlyGoing
<1>3. CASE FindEngine(c)
  <2>1. engines' = engines /\ client'[c].step \in {"drop-docs", "rename"}
    BY <1>3 DEF FindEngine, IInv, TypeOK
  <2> QED BY <1>1, <1>2, <2>1 DEF CleanlyGoing, Live
<1>4. CASE DeleteDocuments(c)
  <2>1. /\ engines' = engines /\ client'[c].step = "drop-chunks"
        /\ client'[c].engine = e => NoDocuments(e)'
    BY <1>4 DEF DeleteDocuments, DropDocuments, Request, NoDocuments, IInv, TypeOK
  <2> QED BY <1>1, <1>2, <2>1 DEF CleanlyGoing, Live
<1>5. CASE DeleteChunks(c)
  <2>1. /\ engines' = engines /\ client'[c].step = "drop-references"
        /\ client[c].step = "drop-chunks" /\ client'[c].engine = client[c].engine
        /\ client'[c].engine = e => NoChunks(e)'
    BY <1>5 DEF DeleteChunks, DropChunks, Request, NoChunks, IInv, TypeOK
  <2> QED BY <1>1, <1>2, <2>1 DEF CleanlyGoing, Live
<1>6. CASE DeleteEngine(c)
  <2>1. /\ client[c].step = "drop-engine" /\ client'[c] = NoRequest
        /\ e # client[c].engine => engines'[e] = engines[e]
    BY <1>0, <1>6 DEF DeleteEngine, DropEngine, Done, IInv, TypeOK
  <2>2. client'[c].step = "idle"
    BY <2>1 DEF NoRequest
  <2> QED BY <1>1, <1>2, <2>1, <2>2 DEF CleanlyGoing, Live
<1>7. CASE UpdateEngine(c)
  <2>1. /\ client'[c] = NoRequest /\ client[c].step = "rename"
        /\ client[c].name \in Names /\ client[c].engine \in Builders
        /\ engines' = [engines EXCEPT ![client[c].engine] = client[c].name]
    BY <1>7 DEF UpdateEngine, Done, IInv, TypeOK, NoRequest
  <2>2. client'[c].step = "idle" /\ (Live(e) => Live(e)')
    BY <1>0, <2>1, BuildAssumption DEF NoRequest, Live
  <2> QED BY <1>1, <1>2, <2>2 DEF CleanlyGoing
<1>8. CASE DeleteReferences(c) \/ DeleteResults(c)
  <2>1. /\ engines' = engines /\ client[c].step \in {"drop-references", "drop-results"}
        /\ client'[c].engine = client[c].engine
        /\ client[c].engine = e => NoDocuments(e) /\ NoChunks(e)
    <3>1. client[c].engine = e => NoDocuments(e) /\ NoChunks(e)
      BY <1>8 DEF DeleteReferences, DeleteResults, CleanlyGoing
    <3>2. CASE DeleteReferences(c)
      BY <3>1, <3>2 DEF DeleteReferences, Request, IInv, TypeOK, NoRequest
    <3>3. CASE DeleteResults(c)
      BY <3>1, <3>3 DEF DeleteResults, Request, IInv, TypeOK, NoRequest
    <3> QED BY <1>8, <3>2, <3>3
  <2> QED BY <1>1, <1>2, <2>1 DEF CleanlyGoing, Live
<1> QED BY <1>3, <1>4, <1>5, <1>6, <1>7, <1>8 DEF Serve

\* A DELETE that finds its engine built leaves no document and no chunk of it,
\* whatever other clients delete or rename meanwhile and although its five steps
\* are not one: it takes a build still under way to leave some.
THEOREM DeletionSound ==
  ASSUME NEW e \in Builders
  PROVE  Spec => [](Ready(e) => [](~Live(e) => NoDocuments(e) /\ NoChunks(e)))
<1>1. Ready(e) => CleanlyGoing(e)
  BY DEF Ready, CleanlyGoing, ChunksDropped
<1>2. ASSUME IInv, CleanlyGoing(e), [Next]_vars PROVE CleanlyGoing(e)'
  <2>1. ASSUME NEW b \in Builders, Build(b) \/ StepFails(b) \/ PodDies(b)
        PROVE  CleanlyGoing(e)'
    BY <1>2, <2>1, BuildLeavesBuilt DEF CleanlyGoing, Live
  <2>2. ASSUME NEW c \in Clients, Serve(c) PROVE CleanlyGoing(e)'
    BY <1>2, <2>2, ServeLeavesBuilt
  <2>3. CASE UNCHANGED vars
    BY <1>2, <2>3 DEF CleanlyGoing, vars, Live, NoDocuments, NoChunks
  <2> QED BY <1>2, <2>1, <2>2, <2>3 DEF Next
<1>3. CleanlyGoing(e) => (~Live(e) => NoDocuments(e) /\ NoChunks(e))
  BY DEF CleanlyGoing
<1> QED BY <1>1, <1>2, <1>3, Invariance, PTL DEF Spec
=============================================================================
