-------------------------- MODULE VectorIndexProofs --------------------------
(***************************************************************************)
(* Both kinds of vector store implement AbstractIndex, for any documents,  *)
(* sizes of batches and rounds, and faults.  What a store keeps of a       *)
(* recorded document is then said exactly: the vectors of its last round   *)
(* (RoundsInv), which are all of them where one round takes the document.  *)
(***************************************************************************)
EXTENDS VectorIndex, TLAPS

Stored == IF store = "pgvector" THEN rows ELSE bucket

\* What the steps of the build may rely on: how far the document is embedded,
\* what of it lies in the directory, and what the index was made of.
DocumentInv ==
  /\ \A d \in docs : d.doc < pos
  /\ step \in {"embedding", "upload", "added"} => pos \in Documents
  /\ step = "embedding" => first < Sizes[pos]
  /\ step = "embedding" /\ Sizes[pos] <= Process => first = 0
  /\ store = "pgvector" => first = 0 /\ step # "upload"
  /\ step \notin {"embedding", "upload"} => first = 0

FilesInv ==
  step = "upload" =>
    /\ files \subseteq Index!Entries(pos, base)
    /\ Sizes[pos] <= Process => files = Index!Entries(pos, base)

DeployInv ==
  /\ step \in {"index", "deploy"} => store = "matching"
  /\ step \in {"index", "deploy"} => docs # {}
  /\ step \in {"index", "deploy", "done"} /\ store = "matching" => index = bucket
  /\ deployed => step = "done"
  /\ endpoint => step \in {"deploy", "done"}
  /\ step \in {"deploy", "done"} /\ store = "matching" => endpoint
  /\ engine # "live" => step \in {"done", "failed"} /\ docs = {}

IInv == TypeOK /\ DocumentInv /\ FilesInv /\ DeployInv

-----------------------------------------------------------------------------
(* The vectors of a round *)

\* Every chunk of a round falls into one of the batches.
LEMMA BatchOf ==
  ASSUME NEW m \in Nat \ {0}, NEW k \in Nat \ {0}
  PROVE  \E b \in Nat \ {0} : b <= k /\ (b - 1) * m < k /\ k <= (b - 1) * m + m
<1> DEFINE q == (k - 1) \div m
<1>0. k - 1 \in Nat /\ m > 0
  OBVIOUS
<1>1. q \in Nat /\ (k - 1) = (q * m) + ((k - 1) % m) /\ (k - 1) % m \in 0 .. m - 1
  BY <1>0
<1>2. q * m <= k - 1 /\ k - 1 <= q * m + m - 1
  BY <1>1
<1>3. q <= k - 1
  BY <1>1, <1>2
<1> HIDE DEF q
<1>4. (q + 1) - 1 = q
  BY <1>1
<1>5. q + 1 \in Nat \ {0}
  BY <1>1
<1>6. ((q + 1) - 1) * m < k /\ k <= ((q + 1) - 1) * m + m /\ q + 1 <= k
  BY <1>1, <1>2, <1>3, <1>4
<1> QED BY <1>5, <1>6
Round(k) == [id |-> base + first + k - 1, text |-> <<pos, first + k>>]

\* The vectors of a round are those of its chunks, numbered in order.
LEMMA NumberedRound ==
  ASSUME base \in Nat, first \in Nat, Taken \in Nat
  PROVE  Numbered = {Round(k) : k \in 1 .. Taken}
<1> USE IndexAssumption
<1>1. ASSUME NEW b \in Batches, NEW k \in Slice(b)
      PROVE  /\ k \in 1 .. Taken
             /\ base + first + Place(b) + (k - Start(b)) - 1 = base + first + k - 1
  <2>1. b \in Nat /\ k \in Nat /\ k \in 1 .. Taken
    BY DEF Batches, Slice
  <2>2. Start(b) \in Int
    BY <2>1 DEF Start
  <2> QED BY <2>1, <2>2 DEF Place
<1>2. Numbered \subseteq {Round(k) : k \in 1 .. Taken}
  BY <1>1 DEF Numbered, Round
<1>3. ASSUME NEW k \in 1 .. Taken PROVE Round(k) \in Numbered
  <2>0. k \in Nat \ {0} /\ Items \in Nat \ {0}
    OBVIOUS
  <2>1. PICK b \in Nat \ {0} : /\ b <= k /\ (b - 1) * Items < k
                                /\ k <= (b - 1) * Items + Items
    BY <2>0, BatchOf
  <2>2. b \in Batches /\ k \in Slice(b)
    <3>1. (b - 1) * Items \in Int
      BY <2>1
    <3> QED BY <2>1, <3>1 DEF Batches, Slice, Start
  <2>3. Round(k) = [id |-> base + first + Place(b) + (k - Start(b)) - 1,
                    text |-> <<pos, first + k>>]
    BY <1>1, <2>2 DEF Round
  <2>4. Round(k) \in {[id |-> base + first + Place(b) + (j - Start(b)) - 1,
                      text |-> <<pos, first + j>>] : j \in Slice(b)}
    BY <2>2, <2>3
  <2> QED BY <2>2, <2>4 DEF Numbered
<1> QED BY <1>2, <1>3

\* Before a document's chunks are handed over, the round is within it.
LEMMA RoundType ==
  ASSUME IInv, step = "embedding"
  PROVE  /\ pos \in Documents /\ Sizes[pos] \in Nat \ {0} /\ pos \in Nat
         /\ Taken \in Nat \ {0} /\ first + Taken <= Sizes[pos]
         /\ base \in Nat /\ first \in Nat
         /\ Numbered \subseteq Index!Entries(pos, base)
         /\ first = 0 /\ Taken = Sizes[pos] => Numbered = Index!Entries(pos, base)
         /\ store = "pgvector" \/ Sizes[pos] <= Process =>
              first = 0 /\ Taken = Sizes[pos]
<1> USE IndexAssumption
<1>1. /\ pos \in Documents /\ Sizes[pos] \in Nat \ {0} /\ pos \in Nat
      /\ base \in Nat /\ first \in Nat /\ first < Sizes[pos]
  BY DEF IInv, TypeOK, DocumentInv, Documents
<1>2. /\ Taken \in Nat \ {0} /\ first + Taken <= Sizes[pos]
      /\ store = "pgvector" \/ Sizes[pos] <= Process =>
           first = 0 /\ Taken = Sizes[pos]
  BY <1>1 DEF IInv, DocumentInv, Taken, Left
<1>3. Numbered = {Round(k) : k \in 1 .. Taken}
  BY <1>1, <1>2, NumberedRound
<1>4. ASSUME NEW k \in 1 .. Taken PROVE Round(k) \in Index!Entries(pos, base)
  <2>1. first + k \in 1 .. Sizes[pos] /\ base + first + k - 1 = base + (first + k) - 1
    BY <1>1, <1>2
  <2> QED BY <2>1 DEF Round, Index!Entries
<1>5. ASSUME first = 0, Taken = Sizes[pos]
      PROVE  Numbered = Index!Entries(pos, base)
  BY <1>1, <1>3, <1>5 DEF Round, Index!Entries
<1> QED BY <1>1, <1>2, <1>3, <1>4, <1>5

\* The indexes of a document that starts at base.
LEMMA EntriesType ==
  ASSUME NEW d \in Documents, NEW n \in Nat
  PROVE  Index!Entries(d, n) \subseteq [id : Nat, text : Documents \X Nat]
  BY IndexAssumption DEF Index!Entries, Documents

-----------------------------------------------------------------------------
(* The inductive invariant *)

LEMMA InitIInv == Init => IInv
<1> SUFFICES ASSUME Init PROVE IInv
  OBVIOUS
<1>1. ended \in Seq(Batch) /\ 1 \in 1 .. Len(Sizes) + 1
  BY IndexAssumption DEF Init
<1> QED BY <1>1 DEF Init, IInv, TypeOK, Steps, DocumentInv, FilesInv, DeployInv

\* A document is passed over.
LEMMA SkipIInv ==
  ASSUME IInv, pos \in Documents, Skipped, base' = base, docs' = docs,
         step \in {"embedding", "upload"},
         store' = store, index' = index, endpoint' = endpoint,
         deployed' = deployed, engine' = engine, lost' \in BOOLEAN,
         rows' \subseteq [id : Nat, text : Documents \X Nat],
         bucket' \subseteq [id : Nat, text : Documents \X Nat]
  PROVE  IInv'
<1>1. pos \in Nat /\ pos \in 1 .. Len(Sizes) /\ pos' \in 1 .. Len(Sizes) + 1
  BY IndexAssumption DEF Documents, Skipped
<1>2. TypeOK'
  BY <1>1 DEF IInv, TypeOK, Skipped, Steps
<1>3. DocumentInv'
  <2>1. \A d \in docs : d.doc \in Nat /\ d.doc < pos
    BY IndexAssumption DEF IInv, TypeOK, DocumentInv, Documents
  <2>2. pos' = pos + 1 /\ first' = 0 /\ step' = "next"
    BY DEF Skipped
  <2> QED BY <1>1, <2>1, <2>2 DEF DocumentInv
<1>4. FilesInv' /\ DeployInv'
  BY DEF IInv, FilesInv, DeployInv, Skipped
<1> QED BY <1>2, <1>3, <1>4 DEF IInv

\* A document is in the store.
LEMMA AddedIInv ==
  ASSUME IInv, pos \in Documents, Added, base' = base, docs' = docs,
         step \in {"embedding", "upload"},
         store' = store, index' = index, endpoint' = endpoint,
         deployed' = deployed, engine' = engine, lost' = lost,
         rows' \subseteq [id : Nat, text : Documents \X Nat],
         bucket' \subseteq [id : Nat, text : Documents \X Nat]
  PROVE  IInv'
<1>1. TypeOK'
  BY DEF IInv, TypeOK, Added, Steps
<1>2. DocumentInv'
  BY DEF IInv, DocumentInv, Added
<1>3. FilesInv' /\ DeployInv'
  BY DEF IInv, FilesInv, DeployInv, Added
<1> QED BY <1>1, <1>2, <1>3 DEF IInv

\* A document is recorded.
LEMMA RecordIInv == ASSUME IInv, Record PROVE IInv'
<1>1. /\ pos \in Nat /\ pos \in Documents /\ pos' \in 1 .. Len(Sizes) + 1
      /\ Sizes[pos] \in Nat
  BY IndexAssumption DEF Documents, Record, IInv, DocumentInv
<1>2. TypeOK'
  <2>1. base' \in Nat /\ base <= base'
    BY <1>1 DEF IInv, TypeOK, Record
  <2>2. \A d \in docs' : /\ d \in [doc : Documents, first : Nat]
                         /\ d.first + Sizes[d.doc] <= base'
    <3>1. \A d \in docs : /\ d \in [doc : Documents, first : Nat]
                          /\ Sizes[d.doc] \in Nat
                          /\ d.first + Sizes[d.doc] <= base
      BY IndexAssumption DEF IInv, TypeOK, Documents
    <3> QED BY <1>1, <2>1, <3>1 DEF IInv, TypeOK, Record
  <2> QED BY <1>1, <2>1, <2>2 DEF IInv, TypeOK, Record, Steps, cloud
<1>3. DocumentInv'
  <2>1. \A d \in docs : d.doc \in Nat /\ d.doc < pos
    BY IndexAssumption DEF IInv, TypeOK, DocumentInv, Documents
  <2>2. /\ pos' = pos + 1 /\ first' = 0 /\ step' = "next"
        /\ docs' = docs \cup {[doc |-> pos, first |-> base]}
    BY DEF Record, IInv, DocumentInv
  <2> QED BY <1>1, <2>1, <2>2 DEF DocumentInv
<1>4. FilesInv' /\ DeployInv'
  BY DEF IInv, FilesInv, DeployInv, Record, cloud
<1> QED BY <1>2, <1>3, <1>4 DEF IInv

\* Every step of a build preserves the inductive invariant.
LEMMA StepIInv ==
  ASSUME IInv, Next PROVE IInv'
<1> USE IndexAssumption
<1>1. CASE InitIndex
  BY <1>1 DEF InitIndex, IInv, TypeOK, Steps, DocumentInv, FilesInv, DeployInv, cloud
<1>2. CASE StartDocument
  <2>1. /\ pos \in Documents /\ Sizes[pos] \in Nat \ {0} /\ step = "next" /\ first = 0
    BY <1>2 DEF StartDocument, IInv, TypeOK, Documents, DocumentInv
  <2> QED BY <1>2, <2>1
          DEF StartDocument, IInv, TypeOK, Steps, DocumentInv, FilesInv, DeployInv, cloud
<1>3. CASE Embedding
  <2>1. PICK b \in Batches : BatchEnds(b)
    BY <1>3 DEF Embedding
  <2>2. PICK result \in Results : ended' = Append(ended, [batch |-> b, result |-> result])
    BY <2>1 DEF BatchEnds, Results
  <2>3. ended' \in Seq(Batch)
    BY <2>2 DEF IInv, TypeOK, Batch, Batches
  <2> QED BY <2>1, <2>3
          DEF BatchEnds, IInv, TypeOK, DocumentInv, FilesInv, DeployInv, cloud
<1>4. CASE SkipDocument
  <2>1. /\ pos \in Documents /\ step \in {"embedding", "upload"}
        /\ Skipped /\ base' = base /\ docs' = docs /\ lost' = lost /\ rows' = rows
        /\ store' = store /\ bucket' = bucket /\ index' = index
        /\ endpoint' = endpoint /\ deployed' = deployed /\ engine' = engine
    BY <1>4 DEF SkipDocument, Gathered, IInv, DocumentInv, cloud
  <2> QED BY <2>1, SkipIInv DEF IInv, TypeOK
<1>5. CASE AddRows
  <2>1. /\ pos \in Documents /\ step = "embedding" /\ base \in Nat
        /\ Numbered \subseteq Index!Entries(pos, base)
    BY <1>5, RoundType DEF AddRows, Gathered
  <2>2. rows' \subseteq [id : Nat, text : Documents \X Nat]
    BY <1>5, <2>1, EntriesType DEF AddRows, IInv, TypeOK
  <2>3. /\ store' = store /\ bucket' = bucket /\ index' = index
        /\ endpoint' = endpoint /\ deployed' = deployed /\ engine' = engine
        /\ base' = base /\ docs' = docs /\ Answered
    BY <1>5 DEF AddRows, cloud
  <2> QED BY <2>1, <2>2, <2>3, SkipIInv, AddedIInv DEF Answered, IInv, TypeOK
<1>6. CASE WriteRound
  <2>1. step = "embedding" /\ store = "matching"
    BY <1>6 DEF WriteRound, Gathered
  <2>2. /\ pos \in Documents /\ Sizes[pos] \in Nat \ {0} /\ base \in Nat
        /\ Taken \in Nat \ {0} /\ first + Taken <= Sizes[pos] /\ first \in Nat
        /\ Numbered \subseteq Index!Entries(pos, base)
        /\ Sizes[pos] <= Process =>
             /\ first = 0 /\ Taken = Sizes[pos]
             /\ Numbered = Index!Entries(pos, base)
    BY <2>1, RoundType
  <2>3. TypeOK'
    BY <1>6, <2>2, EntriesType DEF WriteRound, IInv, TypeOK, Steps, cloud
  <2>4. DocumentInv' /\ DeployInv'
    BY <1>6, <2>1, <2>2 DEF WriteRound, IInv, DocumentInv, DeployInv, cloud
  <2>5. FilesInv'
    BY <1>6, <2>2 DEF WriteRound, FilesInv, Index!Entries
  <2> QED BY <2>3, <2>4, <2>5 DEF IInv
<1>7. CASE Upload
  <2>1. /\ pos \in Documents /\ step = "upload"
        /\ bucket' \subseteq [id : Nat, text : Documents \X Nat]
        /\ rows' = rows /\ store' = store /\ index' = index
        /\ endpoint' = endpoint /\ deployed' = deployed /\ engine' = engine
        /\ base' = base /\ docs' = docs /\ Answered
    BY <1>7 DEF Upload, IInv, TypeOK, DocumentInv
  <2> QED BY <2>1, SkipIInv, AddedIInv DEF Answered, IInv, TypeOK
<1>8. CASE CreateIndex
  BY <1>8 DEF CreateIndex, Processed, IInv, TypeOK, Steps, DocumentInv, FilesInv, DeployInv
<1>9. CASE CreateEndpoint
  BY <1>9 DEF CreateEndpoint, IInv, TypeOK, Steps, DocumentInv, FilesInv, DeployInv
<1>10. CASE DeployIndex
  BY <1>10 DEF DeployIndex, IInv, TypeOK, Steps, DocumentInv, FilesInv, DeployInv
<1>11. CASE DeployNothing
  BY <1>11 DEF DeployNothing, Processed, IInv, TypeOK, Steps, DocumentInv, FilesInv,
               DeployInv, cloud
<1>12. CASE FailBuild
  BY <1>12 DEF FailBuild, Processed, IInv, TypeOK, Steps, DocumentInv, FilesInv,
               DeployInv, cloud
<1>13. CASE DropDocuments
  BY <1>13 DEF DropDocuments, IInv, TypeOK, DocumentInv, FilesInv, DeployInv
<1>14. CASE DropEngine
  BY <1>14 DEF DropEngine, IInv, TypeOK, DocumentInv, FilesInv, DeployInv
<1>15. CASE Record
  BY <1>15, RecordIInv
<1> QED BY <1>1, <1>2, <1>3, <1>4, <1>5, <1>6, <1>7, <1>8, <1>9, <1>10, <1>11,
           <1>12, <1>13, <1>14, <1>15 DEF Next

\* The inductive invariant holds in every reachable state.
THEOREM Invariance == Spec => []IInv
<1>1. ASSUME IInv, UNCHANGED vars PROVE IInv'
  BY <1>1 DEF IInv, TypeOK, DocumentInv, FilesInv, DeployInv, vars,
              Index!Entries
<1> QED BY <1>1, InitIInv, StepIInv, PTL DEF Spec

-----------------------------------------------------------------------------
(* Refinement *)

\* A store that is empty and keeps nothing to search.
LEMMA InitRefines == Init => Index!AInit
  BY DEF Init, Index!AInit, Found

\* The chunks handed over are a part of the document, all of it if it fits.
LEMMA PartRefines ==
  ASSUME NEW part, part \subseteq Index!Entries(pos, base),
         Sizes[pos] <= Process => part = Index!Entries(pos, base)
  PROVE  part \in Index!Parts(pos)
  BY DEF Index!Parts

\* What the promise calls pending.
Pending == IF step = "added" THEN {[doc |-> pos, first |-> base]} ELSE {}

\* A document whose answer comes is put, one whose answer is lost orphaned.
LEMMA HandOverRefines ==
  ASSUME IInv, pos \in Documents, NEW part, part \in Index!Parts(pos),
         Stored' = Stored \cup part, Found' \in {Found, Stored'},
         step # "added", base' = base, docs' = docs, engine' = engine, Answered
  PROVE  Index!ANext
<1>0. pos \in Index!Documents /\ Pending = {}
  BY DEF Documents, Index!Documents, Pending
<1>1. CASE Added /\ lost' = lost
  <2>1. \A a \in docs : a.doc < pos
    BY DEF IInv, DocumentInv
  <2>2. Pending' = {[doc |-> pos, first |-> base]}
    BY <1>1 DEF Pending, Added
  <2>3. Index!Put(pos)
    BY <1>0, <1>1, <2>1, <2>2 DEF Index!Put, Stored, Pending
  <2> QED BY <1>0, <2>3 DEF Index!ANext
<1>2. CASE Skipped /\ lost' = TRUE
  <2>1. Pending' = {}
    BY <1>2 DEF Pending, Skipped
  <2>2. Index!Orphan(pos)
    BY <1>0, <1>2, <2>1 DEF Index!Orphan, Stored, Pending
  <2> QED BY <1>0, <2>2 DEF Index!ANext
<1> QED BY <1>1, <1>2 DEF Answered

\* Every step of a build is a step of the promise or none at all.
LEMMA StepRefines ==
  ASSUME IInv, Next PROVE [Index!ANext]_Index!avars
<1>1. ASSUME /\ UNCHANGED <<base, docs, lost, engine>> /\ Stored' = Stored /\ Found' = Found
             /\ step # "added" /\ step' # "added"
      PROVE  UNCHANGED Index!avars
  BY <1>1 DEF Index!avars, Stored
<1>2. CASE InitIndex \/ StartDocument \/ Embedding \/ SkipDocument \/ WriteRound
           \/ DeployNothing
  BY <1>1, <1>2 DEF InitIndex, StartDocument, Embedding, BatchEnds, SkipDocument, Gathered,
                    Skipped, Processed, WriteRound, DeployNothing, Stored, Found, cloud,
                    IInv, TypeOK
<1>3. CASE AddRows
  <2>1. /\ store = "pgvector" /\ store' = store /\ rows' = rows \cup Numbered
        /\ engine' = engine /\ step = "embedding" /\ base' = base /\ docs' = docs
        /\ Answered
    BY <1>3 DEF AddRows, Gathered, cloud
  <2>2. Numbered \in Index!Parts(pos) /\ pos \in Documents
    BY <2>1, RoundType, PartRefines
  <2>3. Stored' = Stored \cup Numbered /\ Found' \in {Found, Stored'}
    BY <2>1 DEF Stored, Found
  <2> QED BY <2>1, <2>2, <2>3, HandOverRefines
<1>4. CASE Upload
  <2>1. /\ store = "matching" /\ store' = store /\ bucket' = bucket \cup files
        /\ pos \in Documents /\ step = "upload" /\ engine' = engine
        /\ base' = base /\ docs' = docs /\ Answered
    BY <1>4, IndexAssumption DEF Upload, IInv, TypeOK, DocumentInv
  <2>2. files \in Index!Parts(pos)
    BY <2>1, PartRefines DEF IInv, FilesInv
  <2>3. Stored' = Stored \cup files /\ Found' = Found
    BY <1>4, <2>1 DEF Upload, Stored, Found
  <2> QED BY <2>1, <2>2, <2>3, HandOverRefines
<1>5. CASE CreateIndex
  BY <1>1, <1>5 DEF CreateIndex, Processed, Stored, Found, IInv, DeployInv
<1>6. CASE CreateEndpoint
  BY <1>1, <1>6 DEF CreateEndpoint, Stored, Found, IInv, DeployInv
<1>7. CASE DeployIndex
  <2>1. /\ store = "matching" /\ engine = "live" /\ docs # {} /\ index = bucket /\ ~deployed
        /\ Stored' = Stored /\ UNCHANGED <<base, docs, lost, engine>>
        /\ step # "added" /\ step' # "added"
    BY <1>7 DEF DeployIndex, Stored, IInv, DeployInv
  <2>2. Found' \in {Found, Stored}
    BY <1>7, <2>1 DEF DeployIndex, Found, Stored
  <2>3. CASE Found' = Found
    BY <1>1, <2>1, <2>3
  <2>4. CASE Found' = Stored
    <3>1. Index!Publish
      BY <2>1, <2>4 DEF Index!Publish, Stored
    <3> QED BY <3>1 DEF Index!ANext
  <2> QED BY <2>2, <2>3, <2>4
<1>8. CASE Record
  <2>1. /\ Pending = {[doc |-> pos, first |-> base]} /\ Pending' = {}
        /\ docs' = docs \cup Pending /\ base' = base + Sizes[pos]
        /\ Stored' = Stored /\ Found' = Found /\ UNCHANGED <<lost, engine>>
    BY <1>8 DEF Record, Pending, Stored, Found, cloud
  <2>2. Index!Accept
    BY <2>1 DEF Index!Accept, Stored, Pending
  <2> QED BY <2>2 DEF Index!ANext
<1>9. CASE FailBuild
  <2>1. /\ Stored' = Stored /\ Found' = Found /\ step' # "added"
        /\ UNCHANGED <<base, docs, engine>>
    BY <1>9 DEF FailBuild, Stored, Found, cloud
  <2>2. CASE step = "added"
    <3>1. lost' = TRUE
      BY <1>9, <2>2 DEF FailBuild, Processed
    <3>2. Pending # {} /\ Pending' = {}
      BY <2>1, <2>2 DEF Pending
    <3>3. Index!Drop
      BY <2>1, <3>1, <3>2 DEF Index!Drop, Stored, Pending
    <3> QED BY <3>3 DEF Index!ANext
  <2>3. CASE step # "added"
    <3>1. lost' = lost
      BY <1>9, <2>3 DEF FailBuild
    <3> QED BY <1>1, <2>1, <2>3, <3>1
  <2> QED BY <2>2, <2>3
<1>10. CASE DropDocuments
  <2>1. /\ docs' = {} /\ engine' # "live" /\ Pending' = {} /\ base' = base
        /\ Stored' = Stored /\ Found' = Found
    BY <1>10 DEF DropDocuments, Pending, Stored, Found
  <2>2. Index!Forget
    BY <2>1 DEF Index!Forget, Stored, Pending
  <2> QED BY <2>2 DEF Index!ANext
<1>11. CASE DropEngine
  <2>1. /\ Found' = {} /\ Stored' = Stored /\ Pending' = Pending
        /\ UNCHANGED <<base, docs, lost>> /\ engine # "live" /\ engine' # "live"
    BY <1>11 DEF DropEngine, Found, Stored, Pending
  <2>2. Index!Withdraw
    BY <2>1 DEF Index!Withdraw, Stored, Pending
  <2> QED BY <2>2 DEF Index!ANext
<1> QED BY <1>2, <1>3, <1>4, <1>5, <1>6, <1>7, <1>8, <1>9, <1>10, <1>11 DEF Next

\* Whatever store a build uses, it keeps the promise of AbstractIndex.
THEOREM Refinement == Spec => ImplementsIndex
<1>1. ASSUME IInv, [Next]_vars PROVE [Index!ANext]_Index!avars
  <2>1. CASE Next
    BY <1>1, <2>1, StepRefines
  <2>2. CASE UNCHANGED vars
    BY <2>2 DEF vars, Index!avars, Found
  <2> QED BY <1>1, <2>1, <2>2
<1> QED BY <1>1, InitRefines, Invariance, PTL DEF Spec, ImplementsIndex, Index!ASpec

-----------------------------------------------------------------------------
(* What follows from the promise *)

Apart ==
  \A a, b \in docs : a # b =>
    a.first + Sizes[a.doc] <= b.first \/ b.first + Sizes[b.doc] <= a.first

Known ==
  /\ Found \subseteq Stored
  /\ ~lost /\ engine = "live" =>
       \A x \in Stored : \E a \in docs \cup Pending : x \in Index!Entries(a.doc, a.first)

\* A step that keeps the promise keeps documents apart and entries known.
LEMMA PromiseStep ==
  ASSUME TypeOK, Apart, Known, [Index!ANext]_Index!avars
  PROVE  Apart' /\ Known'
<1> USE DEF Stored, Pending
<1>0. \A a : Index!Entries(a.doc, a.first)' = Index!Entries(a.doc, a.first)
  BY DEF Index!Entries
<1>1. ASSUME NEW d \in Index!Documents, Index!Put(d) PROVE Apart' /\ Known'
  <2>1. PICK part \in Index!Parts(d) : Stored' = Stored \cup part
    BY <1>1 DEF Index!Put
  <2>2. /\ docs' = docs /\ (lost \/ engine # "live")' = (lost \/ engine # "live")
        /\ Pending = {} /\ Pending' = {[doc |-> d, first |-> base]}
        /\ Found' \in {Found, Stored'}
    BY <1>1 DEF Index!Put
  <2>3. Apart'
    BY <2>2 DEF Apart
  <2>4. \A x \in part : x \in Index!Entries(d, base)
    BY <2>1 DEF Index!Parts
  <2>5. Found \subseteq Stored
    BY DEF Known
  <2>6. Found' \subseteq Stored'
    BY <2>1, <2>2, <2>5
  <2>7. ASSUME ~lost', engine' = "live", NEW x \in Stored'
        PROVE  \E a \in docs' \cup Pending' : x \in Index!Entries(a.doc, a.first)
    <3>1. ~lost /\ engine = "live"
      BY <2>2, <2>7
    <3> HIDE DEF Stored, Pending
    <3>2. CASE x \in part
      <4> DEFINE new == [doc |-> d, first |-> base]
      <4>1. new \in docs' \cup Pending' /\ new.doc = d /\ new.first = base
        BY <2>2
      <4> QED BY <2>4, <3>2, <4>1
    <3>3. CASE x \in Stored
      BY <2>2, <3>1, <3>3 DEF Known
    <3> QED BY <2>1, <2>7, <3>2, <3>3
  <2>8. Known'
    BY <1>0, <2>6, <2>7 DEF Known
  <2> QED BY <2>3, <2>8
<1>2. ASSUME Index!Accept PROVE Apart' /\ Known'
  <2>1. Pending = {[doc |-> pos, first |-> base]} /\ docs' = docs \cup Pending
    BY <1>2 DEF Index!Accept
  <2>2. \A a \in docs : a.first + Sizes[a.doc] <= base
    BY DEF TypeOK
  <2>3. Apart'
    BY <2>1, <2>2 DEF Apart
  <2>4. Known'
    BY <1>0, <1>2, <2>1 DEF Index!Accept, Known
  <2> QED BY <2>3, <2>4
<1>3. ASSUME NEW d \in Index!Documents, Index!Orphan(d) PROVE Apart' /\ Known'
  BY <1>3 DEF Index!Orphan, Apart, Known
<1>4. CASE Index!Drop \/ Index!Forget
  BY <1>4 DEF Index!Drop, Index!Forget, Apart, Known
<1>5. CASE Index!Publish \/ Index!Withdraw \/ UNCHANGED Index!avars
  BY <1>0, <1>5 DEF Index!Publish, Index!Withdraw, Index!avars, Apart, Known
<1> QED BY <1>1, <1>2, <1>3, <1>4, <1>5 DEF Index!ANext

\* Documents apart and entries known: an index resolves to its chunk.
LEMMA KnownResolve ==
  ASSUME TypeOK, DocumentInv, Apart, Known PROVE FoundResolve
<1> SUFFICES ASSUME ~lost, engine = "live", NEW x \in Found
             PROVE  /\ \E a \in docs \cup Pending : x \in Index!Entries(a.doc, a.first)
                    /\ \A a \in docs : \A y \in Index!Entries(a.doc, a.first) :
                         y.id = x.id => y = x
  BY DEF FoundResolve, Index!MatchesResolve, Pending
<1>1. PICK a \in docs \cup Pending : x \in Index!Entries(a.doc, a.first)
  BY DEF Known
<1>2. \A d \in docs \cup Pending : d.first \in Nat /\ Sizes[d.doc] \in Nat
  BY IndexAssumption DEF TypeOK, DocumentInv, Documents, Pending
<1>3. PICK k \in 1 .. Sizes[a.doc] : x = [id |-> a.first + k - 1, text |-> <<a.doc, k>>]
  BY <1>1 DEF Index!Entries
<1>4. ASSUME NEW b \in docs, NEW y \in Index!Entries(b.doc, b.first), y.id = x.id
      PROVE  y = x
  <2>1. PICK j \in 1 .. Sizes[b.doc] : y = [id |-> b.first + j - 1, text |-> <<b.doc, j>>]
    BY DEF Index!Entries
  <2>2. b.first + j - 1 = a.first + k - 1
    BY <1>3, <1>4, <2>1
  <2>3. b.first + Sizes[b.doc] <= base
    BY DEF TypeOK
  <2>4. a \in docs
    <3>1. a \notin docs => a.first = base
      BY DEF Pending
    <3>2. a.first # base
      BY <1>2, <2>1, <2>2, <2>3 DEF TypeOK
    <3> QED BY <3>1, <3>2
  <2>5. a = b
    BY <1>2, <2>1, <2>2, <2>4, <1>3 DEF Apart
  <2> QED BY <1>2, <1>3, <2>1, <2>2, <2>5
<1> QED BY <1>1, <1>4

\* Unless entries were left behind (an answer lost, a document that could not be
\* recorded, an engine being deleted), an index a search returns stands for the
\* chunk embedded there, of a document recorded or just put into the store, and
\* for no other chunk of a document recorded.
THEOREM ResolveSound == Spec => []FoundResolve
<1>1. Init => Apart /\ Known
  BY DEF Init, Apart, Known, Found, Stored, Pending
<1>2. ASSUME IInv, Apart, Known, [Next]_vars PROVE Apart' /\ Known'
  <2>1. [Index!ANext]_Index!avars
    <3>1. CASE Next
      BY <1>2, <3>1, StepRefines
    <3>2. CASE UNCHANGED vars
      BY <3>2 DEF vars, Index!avars, Found
    <3> QED BY <1>2, <3>1, <3>2
  <2> QED BY <1>2, <2>1, PromiseStep DEF IInv
<1>3. IInv /\ Apart /\ Known => FoundResolve
  BY KnownResolve DEF IInv
<1> QED BY <1>1, <1>2, <1>3, Invariance, PTL DEF Spec

\* The types hold, and documents lie below index_base.
THEOREM TypeCorrect == Spec => []TypeOK
  BY Invariance, PTL DEF IInv

-----------------------------------------------------------------------------
(* The rounds of a document *)

\* How many chunks of document d come before the last round: a store that takes
\* a document in one call has but one round.
Before(d) == IF store = "pgvector" THEN 0 ELSE ((Sizes[d] - 1) \div Process) * Process

\* The entries of the last round.
LastPart(d, n) == {x \in Index!Entries(d, n) : x.text[2] > Before(d)}

\* What the store holds of a document recorded is what its last round was given.
LastRoundStored ==
  \A d \in docs :
    {x \in Stored : x.text[1] = d.doc} = LastPart(d.doc, d.first)

\* ... and once the engine is built and can be searched, a search may find it.
LastRoundFound ==
  step = "done" /\ engine = "live" /\ (store = "pgvector" \/ deployed) =>
    \A d \in docs : LastPart(d.doc, d.first) \subseteq Found

RoundsInv ==
  /\ step = "embedding" /\ store = "matching" => \E n \in Nat : first = n * Process
  /\ step = "upload" => files = LastPart(pos, base)
  /\ step = "added" => {x \in Stored : x.text[1] = pos} = LastPart(pos, base)
  /\ step \notin {"added", "failed"} => \A x \in Stored : x.text[1] < pos
  /\ \A x \in Stored : x.text[1] <= pos

\* The rounds before the one that reaches the end.
LEMMA RoundsBefore ==
  ASSUME NEW size \in Nat \ {0}, NEW p \in Nat \ {0}, NEW n \in Nat,
         n * p < size, size <= n * p + p
  PROVE  (size - 1) \div p = n
<1> DEFINE m == size - 1
           q == m \div p
<1>1. m \in Nat /\ n * p <= m /\ m < n * p + p /\ n * p \in Nat
  OBVIOUS
<1>2. q \in Nat /\ m = q * p + (m % p) /\ (m % p) \in 0 .. p - 1
  BY <1>1
<1>3. q * p \in Nat /\ q * p <= m /\ m < q * p + p
  BY <1>2
<1> HIDE DEF q, m
<1>4. ASSUME q < n PROVE FALSE
  <2>1. q + 1 <= n
    BY <1>2, <1>4
  <2>2. (q + 1) * p <= n * p
    BY <1>2, <2>1
  <2> QED BY <1>1, <1>2, <1>3, <2>2
<1>5. ASSUME n < q PROVE FALSE
  <2>1. n + 1 <= q
    BY <1>2, <1>5
  <2>2. (n + 1) * p <= q * p
    BY <1>2, <2>1
  <2> QED BY <1>1, <1>2, <1>3, <2>2
<1>6. q = n
  BY <1>2, <1>4, <1>5
<1> QED BY <1>6 DEF q, m

\* The round that reaches the end of a document has the entries of LastPart.
LEMMA LastRound ==
  ASSUME IInv, RoundsInv, step = "embedding", first + Taken = Sizes[pos]
  PROVE  Numbered = LastPart(pos, base)
<1> USE IndexAssumption
<1>1. /\ pos \in Documents /\ Sizes[pos] \in Nat \ {0} /\ Taken \in Nat \ {0}
      /\ base \in Nat /\ first \in Nat
      /\ store = "pgvector" => first = 0
  BY RoundType DEF IInv, DocumentInv
<1>2. Numbered = {Round(k) : k \in 1 .. Taken}
  BY <1>1, NumberedRound
<1>3. Before(pos) = first
  <2>1. CASE store = "pgvector"
    BY <1>1, <2>1 DEF Before
  <2>2. CASE store = "matching"
    <3>1. PICK n \in Nat : first = n * Process
      BY <2>2 DEF RoundsInv
    <3>2. Taken <= Process
      BY <1>1, <2>2 DEF Taken, Left
    <3>3. n * Process < Sizes[pos] /\ Sizes[pos] <= n * Process + Process
      BY <1>1, <3>1, <3>2
    <3>4. (Sizes[pos] - 1) \div Process = n
      BY <1>1, <3>1, <3>3, RoundsBefore
    <3> QED BY <2>2, <3>1, <3>4 DEF Before
  <2> QED BY <2>1, <2>2 DEF IInv, TypeOK
<1>4. ASSUME NEW k \in 1 .. Taken PROVE Round(k) \in LastPart(pos, base)
  <2>1. /\ first + k \in 1 .. Sizes[pos] /\ base + first + k - 1 = base + (first + k) - 1
        /\ first + k > first
    BY <1>1
  <2>2. Round(k) \in Index!Entries(pos, base) /\ Round(k).text[2] = first + k
    BY <2>1 DEF Round, Index!Entries
  <2> QED BY <1>3, <2>1, <2>2 DEF LastPart
<1>5. ASSUME NEW x \in LastPart(pos, base) PROVE x \in {Round(k) : k \in 1 .. Taken}
  <2>1. PICK j \in 1 .. Sizes[pos] : x = [id |-> base + j - 1, text |-> <<pos, j>>]
    BY DEF LastPart, Index!Entries
  <2>2. x.text[2] = j /\ j > first
    BY <1>3, <2>1 DEF LastPart
  <2>3. j - first \in 1 .. Taken /\ base + first + (j - first) - 1 = base + j - 1
        /\ first + (j - first) = j
    BY <1>1, <2>1, <2>2
  <2>4. x = Round(j - first)
    BY <2>1, <2>3 DEF Round
  <2> QED BY <2>3, <2>4
<1> QED BY <1>2, <1>4, <1>5

\* A document handed over, whether its answer comes or not.
LEMMA HandedOver ==
  ASSUME IInv, RoundsInv, LastRoundStored, pos \in Documents, store' = store,
         step \in {"embedding", "upload"}, base' = base, docs' = docs,
         Stored' = Stored \cup LastPart(pos, base), Added \/ Skipped
  PROVE  RoundsInv' /\ LastRoundStored'
<1>1. pos \in Nat
  BY IndexAssumption DEF Documents
<1>2. \A x \in LastPart(pos, base) : x.text[1] = pos
  BY DEF LastPart, Index!Entries
<1>3. \A x \in Stored : x.text[1] \in Nat /\ x.text[1] < pos
  <2>1. Stored \subseteq [id : Nat, text : Documents \X Nat]
    BY DEF IInv, TypeOK, Stored
  <2> QED BY <2>1, IndexAssumption DEF Documents, RoundsInv
<1>4. \A x \in Stored' : x.text[1] \in Nat /\ x.text[1] <= pos
  BY <1>1, <1>2, <1>3
<1>5. \A d, n : LastPart(d, n)' = LastPart(d, n)
  BY DEF LastPart, Before, Index!Entries
<1>6. {x \in Stored' : x.text[1] = pos} = LastPart(pos, base)
  <2>1. \A x \in Stored : x.text[1] # pos
    BY <1>1, <1>3
  <2> QED BY <1>2, <2>1
<1>7. RoundsInv'
  <2>1. CASE Added
    BY <1>1, <1>4, <1>5, <1>6, <2>1 DEF RoundsInv, Added
  <2>2. CASE Skipped
    <3>1. step' = "next" /\ pos' = pos + 1
      BY <2>2 DEF Skipped
    <3>2. \A x \in Stored' : x.text[1] < pos' /\ x.text[1] <= pos'
      BY <1>1, <1>4, <3>1
    <3> QED BY <3>1, <3>2 DEF RoundsInv
  <2> QED BY <2>1, <2>2
<1>8. \A d \in docs : d.doc \in Nat /\ d.doc < pos
  BY IndexAssumption DEF IInv, TypeOK, DocumentInv, Documents
<1>9. ASSUME NEW d \in docs
      PROVE  {x \in Stored' : x.text[1] = d.doc} = LastPart(d.doc, d.first)
  <2>1. {x \in Stored : x.text[1] = d.doc} = LastPart(d.doc, d.first)
    BY DEF LastRoundStored
  <2>2. pos # d.doc
    BY <1>1, <1>8
  <2> QED BY <1>2, <2>1, <2>2
<1> QED BY <1>5, <1>7, <1>9 DEF LastRoundStored

\* A document recorded.
LEMMA RecordRounds ==
  ASSUME IInv, RoundsInv, LastRoundStored, Record
  PROVE  RoundsInv' /\ LastRoundStored'
<1>1. /\ pos \in Nat /\ pos' = pos + 1 /\ step' = "next" /\ step = "added"
      /\ Stored' = Stored /\ store' = store
      /\ docs' = docs \cup {[doc |-> pos, first |-> base]}
  BY IndexAssumption DEF Record, Documents, IInv, DocumentInv, cloud, Stored
<1>2. \A x \in Stored : x.text[1] \in Nat /\ x.text[1] <= pos
  <2>1. Stored \subseteq [id : Nat, text : Documents \X Nat]
    BY DEF IInv, TypeOK, Stored
  <2> QED BY <2>1, IndexAssumption DEF Documents, RoundsInv
<1>3. \A x \in Stored' : x.text[1] < pos' /\ x.text[1] <= pos'
  BY <1>1, <1>2
<1>4. RoundsInv'
  BY <1>1, <1>3 DEF RoundsInv
<1>5. \A d, n : LastPart(d, n)' = LastPart(d, n)
  BY <1>1 DEF LastPart, Before, Index!Entries
<1>6. {x \in Stored : x.text[1] = pos} = LastPart(pos, base)
  BY <1>1 DEF RoundsInv
<1>7. ASSUME NEW d \in docs'
      PROVE  {x \in Stored : x.text[1] = d.doc} = LastPart(d.doc, d.first)
  BY <1>1, <1>6 DEF LastRoundStored
<1> QED BY <1>1, <1>4, <1>5, <1>7 DEF LastRoundStored

\* Every step of a build preserves what is said of the rounds.
LEMMA StepRounds ==
  ASSUME IInv, RoundsInv, LastRoundStored, Next
  PROVE  RoundsInv' /\ LastRoundStored'
<1> USE IndexAssumption
<1>1. ASSUME Stored' = Stored, docs' = docs, store' = store PROVE LastRoundStored'
  BY <1>1 DEF LastRoundStored, LastPart, Before, Index!Entries
<1>2. ASSUME Stored' = Stored, pos' = pos, step' \notin {"embedding", "upload", "added"},
             step # "added" \/ step' = "failed", step = "failed" => step' = "failed"
      PROVE  RoundsInv'
  BY <1>2 DEF RoundsInv
<1>3. CASE InitIndex \/ DeployNothing
  BY <1>1, <1>2, <1>3 DEF InitIndex, DeployNothing, Processed, cloud, Stored
<1>4. CASE StartDocument
  <2>1. /\ step' = "embedding" /\ pos' = pos /\ first' = 0 /\ store' = store
        /\ Stored' = Stored /\ docs' = docs /\ step = "next"
    BY <1>4 DEF StartDocument, cloud, Stored, IInv, DocumentInv
  <2>2. first' = 0 * Process
    BY <2>1
  <2>3. RoundsInv'
    BY <2>1, <2>2 DEF RoundsInv
  <2> QED BY <1>1, <2>1, <2>3
<1>5. CASE Embedding
  <2>1. /\ step = "embedding" /\ step' = step /\ pos' = pos /\ first' = first
        /\ store' = store /\ Stored' = Stored /\ docs' = docs
    BY <1>5 DEF Embedding, BatchEnds, cloud, Stored
  <2>2. RoundsInv'
    BY <2>1 DEF RoundsInv
  <2> QED BY <1>1, <2>1, <2>2
<1>6. CASE SkipDocument
  <2>1. /\ pos \in Nat /\ pos' = pos + 1 /\ step' = "next"
        /\ store' = store /\ Stored' = Stored /\ docs' = docs
        /\ step \in {"embedding", "upload"}
    BY <1>6 DEF SkipDocument, Gathered, Skipped, cloud, Stored, IInv, TypeOK
  <2>2. \A x \in Stored : x.text[1] \in Nat /\ x.text[1] < pos
    BY <2>1 DEF IInv, TypeOK, Stored, RoundsInv, Documents
  <2>3. \A x \in Stored' : x.text[1] < pos' /\ x.text[1] <= pos'
    BY <2>1, <2>2
  <2>4. RoundsInv'
    BY <2>1, <2>3 DEF RoundsInv
  <2> QED BY <1>1, <2>1, <2>4
<1>7. CASE AddRows
  <2>1. /\ store = "pgvector" /\ store' = store /\ step = "embedding"
        /\ rows' = rows \cup Numbered /\ base' = base /\ docs' = docs
        /\ Added \/ Skipped
    BY <1>7 DEF AddRows, Answered, Gathered, cloud
  <2>2. pos \in Documents /\ first + Taken = Sizes[pos]
    BY <2>1, RoundType
  <2>3. Stored' = Stored \cup LastPart(pos, base)
    BY <2>1, <2>2, LastRound DEF Stored
  <2> QED BY <2>1, <2>2, <2>3, HandedOver
<1>8. CASE WriteRound
  <2>1. /\ store = "matching" /\ store' = store /\ step = "embedding"
        /\ files' = Numbered /\ first' = first + Taken /\ pos' = pos /\ base' = base
        /\ step' = IF first' < Sizes[pos] THEN "embedding" ELSE "upload"
        /\ Stored' = Stored /\ docs' = docs
    BY <1>8 DEF WriteRound, Gathered, cloud, Stored
  <2>2. /\ Sizes[pos] \in Nat \ {0} /\ Taken \in Nat \ {0} /\ first \in Nat
        /\ first + Taken <= Sizes[pos]
    BY <2>1, RoundType
  <2>3. CASE first' < Sizes[pos]
    <3>1. PICK n \in Nat : first = n * Process
      BY <2>1 DEF RoundsInv
    <3>2. Taken = Process
      BY <2>1, <2>2, <2>3 DEF Taken, Left
    <3>3. n + 1 \in Nat /\ first' = (n + 1) * Process
      BY <2>1, <3>1, <3>2
    <3>4. RoundsInv'
      BY <2>1, <2>3, <3>3 DEF RoundsInv
    <3> QED BY <1>1, <2>1, <3>4
  <2>4. CASE ~(first' < Sizes[pos])
    <3>1. files' = LastPart(pos, base)
      BY <2>1, <2>2, <2>4, LastRound
    <3>2. LastPart(pos, base)' = LastPart(pos, base)
      BY <2>1 DEF LastPart, Before, Index!Entries
    <3>3. RoundsInv'
      BY <2>1, <2>4, <3>1, <3>2 DEF RoundsInv
    <3> QED BY <1>1, <2>1, <3>3
  <2> QED BY <2>3, <2>4
<1>9. CASE Upload
  <2>1. /\ step = "upload" /\ store = "matching" /\ store' = store
        /\ bucket' = bucket \cup files
        /\ base' = base /\ docs' = docs /\ (Added \/ Skipped)
        /\ pos \in Documents /\ files = LastPart(pos, base)
    BY <1>9 DEF Upload, Answered, IInv, TypeOK, DocumentInv, RoundsInv
  <2>2. Stored' = Stored \cup LastPart(pos, base)
    BY <2>1 DEF Stored
  <2> QED BY <2>1, <2>2, HandedOver
<1>10. CASE CreateIndex \/ CreateEndpoint \/ DeployIndex \/ FailBuild \/ DropEngine
  <2>1. /\ store' = store /\ Stored' = Stored /\ docs' = docs /\ pos' = pos
        /\ step' \notin {"embedding", "upload", "added"}
        /\ step # "added" \/ step' = "failed"
        /\ step = "failed" => step' = "failed"
    BY <1>10 DEF CreateIndex, CreateEndpoint, DeployIndex, FailBuild, DropEngine, Stored,
                 Processed, cloud, IInv, DeployInv
  <2> QED BY <1>1, <1>2, <2>1
<1>11. CASE DropDocuments
  <2>1. /\ Stored' = Stored /\ docs' = {} /\ pos' = pos /\ step' = step
        /\ step \in {"done", "failed"}
    BY <1>11 DEF DropDocuments, Stored
  <2> QED BY <1>2, <2>1 DEF LastRoundStored
<1>12. CASE Record
  BY <1>12, RecordRounds
<1> QED BY <1>3, <1>4, <1>5, <1>6, <1>7, <1>8, <1>9, <1>10, <1>11, <1>12 DEF Next

\* What is said of the rounds holds in every reachable state.
LEMMA RoundsInvariance == Spec => [](RoundsInv /\ LastRoundStored)
<1>1. Init => RoundsInv /\ LastRoundStored
  BY DEF Init, RoundsInv, LastRoundStored, Stored
<1>2. ASSUME IInv, RoundsInv /\ LastRoundStored, [Next]_vars
      PROVE  (RoundsInv /\ LastRoundStored)'
  <2>1. CASE UNCHANGED vars
    BY <1>2, <2>1 DEF vars, RoundsInv, LastRoundStored, LastPart, Before, Stored,
                      Index!Entries
  <2> QED BY <1>2, <2>1, StepRounds
<1> QED BY <1>1, <1>2, Invariance, PTL DEF Spec

\* Of every document recorded the store holds exactly the entries of its last
\* round, whatever documents before and after it failed or were left behind.
THEOREM StoredSound == Spec => []LastRoundStored
  BY RoundsInvariance, PTL

\* Once a build is done and its index deployed, all that the store holds of a
\* recorded document can be found.
THEOREM FoundSound == Spec => []LastRoundFound
<1>1. IInv /\ LastRoundStored => LastRoundFound
  <2> SUFFICES ASSUME IInv, LastRoundStored, step = "done", engine = "live",
                      store = "pgvector" \/ deployed, NEW d \in docs
               PROVE  LastPart(d.doc, d.first) \subseteq Found
    BY DEF LastRoundFound
  <2>1. LastPart(d.doc, d.first) \subseteq Stored
    BY DEF LastRoundStored
  <2>2. store = "matching" \/ store = "pgvector"
    BY IndexAssumption DEF IInv, TypeOK
  <2>3. Found = Stored
    BY <2>2 DEF Found, Stored, IInv, DeployInv
  <2> QED BY <2>1, <2>3
<1> QED BY <1>1, Invariance, RoundsInvariance, PTL

\* A document of one round is stored with every chunk; PGVector takes every
\* document in one round, hence keeps what VectorStore says of index_document.
WholeIndexed ==
  /\ Index!AcceptedWhole
  /\ store = "pgvector" => EachChunkIndexed

\* EachChunkIndexed fails for documents of several rounds only.
THEOREM WholeSound == Spec => []WholeIndexed
<1>1. ASSUME IInv, LastRoundStored, NEW d \in docs,
             store = "pgvector" \/ Sizes[d.doc] <= Process
      PROVE  Index!Entries(d.doc, d.first) \subseteq Stored
  <2>1. Sizes[d.doc] \in Nat \ {0} /\ Process \in Nat \ {0}
    BY <1>1, IndexAssumption DEF IInv, TypeOK, Documents
  <2>2. Before(d.doc) = 0
    <3>1. CASE store = "pgvector"
      BY <3>1 DEF Before
    <3>2. CASE store # "pgvector" /\ Sizes[d.doc] <= Process
      <4>1. (Sizes[d.doc] - 1) \div Process = 0
        BY <2>1, <3>2, RoundsBefore
      <4> QED BY <2>1, <3>2, <4>1 DEF Before
    <3> QED BY <1>1, <3>1, <3>2
  <2>3. ASSUME NEW x \in Index!Entries(d.doc, d.first) PROVE x.text[2] > 0
    <3>1. PICK k \in 1 .. Sizes[d.doc] : x = [id |-> d.first + k - 1, text |-> <<d.doc, k>>]
      BY DEF Index!Entries
    <3> QED BY <2>1, <3>1
  <2>4. LastPart(d.doc, d.first) = Index!Entries(d.doc, d.first)
    BY <2>2, <2>3 DEF LastPart
  <2> QED BY <1>1, <2>4 DEF LastRoundStored
<1>2. IInv /\ LastRoundStored => WholeIndexed
  <2> SUFFICES ASSUME IInv, LastRoundStored PROVE WholeIndexed
    OBVIOUS
  <2> QED BY <1>1 DEF WholeIndexed, Index!AcceptedWhole, EachChunkIndexed, Stored
<1> QED BY <1>2, Invariance, RoundsInvariance, PTL
=============================================================================
