--------------------------- MODULE AbstractIndex ---------------------------
(***************************************************************************)
(* What the build of a query engine may rely on of a vector store          *)
(* (VectorStore in vector_store.py: index_document, deploy, delete,        *)
(* similarity_search), whichever store it is: each chunk of a document     *)
(* gets its own index, counted on from the document before; a document is  *)
(* in the store or it is not; a search finds nothing but what was stored.  *)
(* A document is put into the store first and recorded (QueryDocument and  *)
(* its chunks) after that, and when an engine is deleted its documents go  *)
(* before it does.                                                         *)
(* Three things are not promised and allowed for: a document with more     *)
(* chunks than one round of the Matching Engine store takes is only partly *)
(* there, a call whose answer is lost leaves entries behind whose indexes  *)
(* the next document uses again, and so do the entries of a document that  *)
(* cannot be recorded or is deleted: no document stands for them.          *)
(***************************************************************************)
EXTENDS Naturals, Sequences

CONSTANTS
  Sizes,    \* the documents of a build in order: how many chunks each has
  Process   \* MAX_NUM_TEXT_CHUNK_PROCESS: how many chunks one round takes

Documents == DOMAIN Sizes

VARIABLES
  stored,      \* what the store holds: indexes with the chunk embedded
  next,        \* the index the next document starts from
  pending,     \* the document put into the store and not yet recorded
  accepted,    \* the documents recorded, with their first index
  orphaned,    \* may the store hold entries no document stands for?
  searchable   \* what a search may return

avars == <<stored, next, pending, accepted, orphaned, searchable>>

\* The chunks of document d, numbered from first.
Entries(d, first) ==
  {[id |-> first + k - 1, text |-> <<d, k>>] : k \in 1 .. Sizes[d]}

\* A document that one round takes is stored as a whole.
Parts(d) == {part \in SUBSET Entries(d, next) :
               Sizes[d] <= Process => part = Entries(d, next)}

AInit ==
  /\ stored = {} /\ next = 0 /\ pending = {} /\ accepted = {}
  /\ orphaned = FALSE /\ searchable = {}

\* A store may be searched while it is filled, or only once it is published.
Put(d) ==
  /\ pending = {} /\ \A a \in accepted : a.doc < d
  /\ \E part \in Parts(d) : stored' = stored \cup part
  /\ pending' = {[doc |-> d, first |-> next]}
  /\ searchable' \in {searchable, stored'}
  /\ UNCHANGED <<next, accepted, orphaned>>

\* The document put last is recorded, and the next one starts behind it.
Accept ==
  /\ pending # {}
  /\ accepted' = accepted \cup pending
  /\ \E a \in pending : next' = next + Sizes[a.doc]
  /\ pending' = {}
  /\ UNCHANGED <<stored, orphaned, searchable>>

\* ... or it never is.
Drop ==
  /\ pending # {}
  /\ pending' = {} /\ orphaned' = TRUE
  /\ UNCHANGED <<stored, next, accepted, searchable>>

Orphan(d) ==
  /\ pending = {}
  /\ \E part \in Parts(d) : stored' = stored \cup part
  /\ orphaned' = TRUE
  /\ searchable' \in {searchable, stored'}
  /\ UNCHANGED <<next, pending, accepted>>

Publish ==
  /\ accepted # {}
  /\ searchable' = stored
  /\ UNCHANGED <<stored, next, pending, accepted, orphaned>>

\* The documents are deleted, then what a search asks for.
Forget ==
  /\ accepted' = {} /\ pending' = {} /\ orphaned' = TRUE
  /\ UNCHANGED <<stored, next, searchable>>

Withdraw ==
  /\ searchable' = {}
  /\ UNCHANGED <<stored, next, pending, accepted, orphaned>>

ANext ==
  \/ \E d \in Documents : Put(d) \/ Orphan(d)
  \/ Accept \/ Drop \/ Publish \/ Forget \/ Withdraw

ASpec == AInit /\ [][ANext]_avars

-----------------------------------------------------------------------------
(* What follows from the promise *)

\* A match resolves: unless entries were left behind, an index a search returns
\* stands for the chunk embedded there, of a document recorded or just put into
\* the store, and for no other chunk of a document recorded.
MatchesResolve ==
  ~orphaned =>
    \A x \in searchable :
      /\ \E a \in accepted \cup pending : x \in Entries(a.doc, a.first)
      /\ \A a \in accepted : \A y \in Entries(a.doc, a.first) :
           y.id = x.id => y = x

\* A document recorded, if one round takes it, is stored with every chunk.
AcceptedWhole ==
  \A a \in accepted :
    Sizes[a.doc] <= Process => Entries(a.doc, a.first) \subseteq stored
=============================================================================
