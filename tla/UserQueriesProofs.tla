-------------------------- MODULE UserQueriesProofs --------------------------
(***************************************************************************)
(* Queries, for any number of engines, requests and faults.  The engines   *)
(* of the composition are first shown to be built and deleted as           *)
(* EngineBuild describes it, so that what is proved there holds here.      *)
(*                                                                         *)
(* That the turns of a history stay together is not a fact about stored    *)
(* histories alone: a continuation and a PUT store a copy they read long   *)
(* before.  The invariant claims it of every copy that will be built upon, *)
(* and of a request whose model is being asked that its copy ends with its *)
(* own turn, which is what makes "before the last entry" the right place.  *)
(* The first turn of a query is kept for the same reason (FirstInv), and   *)
(* the references shown cover those an answer used (CoverInv).  A reference*)
(* is good from the match it was made of on (ResultInv, TextInv).          *)
(***************************************************************************)
EXTENDS UserQueries, EngineBuildProofs, SequenceTheorems

\* A step of the composition is one of EngineBuild, or none.
LEMMA StepsAreBuilds == [QueryNext]_allVars => [Next]_vars
<1> SUFFICES ASSUME [QueryNext]_allVars PROVE [Next]_vars
  OBVIOUS
<1>1. EngineStep => Next
  BY DEF EngineStep
<1>2. ASSUME NEW r \in Requests, Serving(r) PROVE UNCHANGED vars
  BY <1>2 DEF Serving, Ask, AskAgain, Search, LookUp, ShowReferences, InsertAnswer,
              SaveResult, CreateQuery, FillQuery, RunBatch, Raise
<1>3. Editing => UNCHANGED vars
  BY DEF Editing, PutWrites, PutReads, DeleteQuery
<1>4. UNCHANGED allVars => UNCHANGED vars
  BY DEF allVars
<1> QED BY <1>1, <1>2, <1>3, <1>4 DEF QueryNext

\* Queries do nothing to engines, documents and rows: what is proved of
\* EngineBuild holds while queries run.
THEOREM QueriesKeepBuilds == QuerySpec => Spec
BY StepsAreBuilds, PTL DEF QuerySpec, QueryInit, Spec

-----------------------------------------------------------------------------
(* Histories *)

\* The histories a request builds upon.
Asking(h, r, refs) == h \o Prompt(r) \o Shown(r, refs)

LEMMA EntryType ==
  ASSUME NEW tag \in {"human", "ai", "references"}, NEW r \in Requests,
         NEW refs \in SUBSET Reference
  PROVE  /\ Entering(tag, r, refs) \in Entry
         /\ Entering(tag, r, refs).tag = tag /\ Entering(tag, r, refs).by = r
BY DEF Entering, Entry

\* A history that begins with turns, and whose other entries stand where they
\* belong.
LEMMA KeepsTurns ==
  ASSUME NEW h \in Seq(Entry), InTurns(h), NEW g \in Seq(Entry), Len(h) <= Len(g),
         \A i \in 1 .. Len(h) : g[i] = h[i],
         \A i \in Len(h) + 1 .. Len(g) :
           /\ g[i].tag = "ai" =>
                \/ i > 1 /\ g[i - 1] = Entering("human", g[i].by, {})
                \/ i < Len(g) /\ g[i + 1] = Entering("human", g[i].by, {})
           /\ g[i].tag = "references" => i > 1 /\ g[i - 1].by = g[i].by
  PROVE  InTurns(g)
<1> SUFFICES ASSUME NEW i \in 1 .. Len(g)
             PROVE /\ g[i].tag = "ai" =>
                        \/ i > 1 /\ g[i - 1] = Entering("human", g[i].by, {})
                        \/ i < Len(g) /\ g[i + 1] = Entering("human", g[i].by, {})
                   /\ g[i].tag = "references" => i > 1 /\ g[i - 1].by = g[i].by
  BY DEF InTurns
<1>1. CASE i > Len(h)
  BY <1>1
<1>2. CASE i <= Len(h)
  <2>1. g[i] = h[i] /\ i \in DOMAIN h
    BY <1>2
  <2>2. i > 1 => g[i - 1] = h[i - 1]
    BY <1>2
  <2>3. i < Len(h) => g[i + 1] = h[i + 1] /\ i < Len(g)
    BY <1>2
  <2> QED BY <2>1, <2>2, <2>3 DEF InTurns
<1> QED BY <1>1, <1>2

\* A prompt with its references continues a history.
LEMMA PromptAppended ==
  ASSUME NEW h \in Seq(Entry), InTurns(h), NEW r \in Requests,
         NEW refs \in SUBSET Reference
  PROVE  Asking(h, r, refs) \in Seq(Entry) /\ InTurns(Asking(h, r, refs))
<1> DEFINE g == Asking(h, r, refs)
           human == Entering("human", r, {})
           shown == Entering("references", r, refs)
<1>1. human \in Entry /\ shown \in Entry /\ human.tag = "human" /\ human.by = r
      /\ shown.tag = "references" /\ shown.by = r
  BY EntryType
<1>2. CASE refs = {}
  <2>1. g = Append(h, human)
    BY <1>1, <1>2 DEF Asking, Prompt, Shown
  <2>2. /\ g \in Seq(Entry) /\ Len(g) = Len(h) + 1 /\ g[Len(h) + 1] = human
        /\ \A i \in 1 .. Len(h) : g[i] = h[i]
    BY <1>1, <2>1
  <2> QED BY <1>1, <2>2, KeepsTurns
<1>3. CASE refs # {}
  <2>1. g = Append(Append(h, human), shown)
    BY <1>1, <1>3 DEF Asking, Prompt, Shown
  <2>2. /\ g \in Seq(Entry) /\ Len(g) = Len(h) + 2 /\ g[Len(h) + 1] = human
        /\ g[Len(h) + 2] = shown
        /\ \A i \in 1 .. Len(h) : g[i] = h[i]
    BY <1>1, <2>1
  <2> QED BY <1>1, <2>2, KeepsTurns
<1> QED BY <1>2, <1>3

\* The beginning and the last entry of a list.
LEMMA Beginning ==
  ASSUME NEW s \in Seq(Entry), NEW n \in Nat, n <= Len(s)
  PROVE  /\ SubSeq(s, 1, n) \in Seq(Entry) /\ Len(SubSeq(s, 1, n)) = n
         /\ \A i \in 1 .. n : SubSeq(s, 1, n)[i] = s[i]
<1>1. \A i \in 1 .. n : s[i] \in Entry
  OBVIOUS
<1> QED BY <1>1, SubSeqProperties

LEMMA LastEntry ==
  ASSUME NEW s \in Seq(Entry), NEW n \in Nat, 1 <= n, n <= Len(s)
  PROVE  /\ SubSeq(s, n, n) \in Seq(Entry) /\ Len(SubSeq(s, n, n)) = 1
         /\ SubSeq(s, n, n)[1] = s[n]
<1>1. \A i \in n .. n : s[i] \in Entry
  OBVIOUS
<1> QED BY <1>1, SubSeqProperties

\* What insert does to a list that is not empty.
LEMMA InsertedBeforeLast ==
  ASSUME NEW s \in Seq(Entry), NEW x \in Entry, NEW n \in Nat, Len(s) = n + 1
  PROVE  /\ BeforeLast(s, <<x>>) \in Seq(Entry)
         /\ Len(BeforeLast(s, <<x>>)) = n + 2
         /\ \A i \in 1 .. n : BeforeLast(s, <<x>>)[i] = s[i]
         /\ BeforeLast(s, <<x>>)[n + 1] = x
         /\ BeforeLast(s, <<x>>)[n + 2] = s[n + 1]
<1> DEFINE a == SubSeq(s, 1, n)
           z == SubSeq(s, n + 1, n + 1)
           b == Append(a, x)
<1>1. /\ a \in Seq(Entry) /\ Len(a) = n
      /\ \A i \in 1 .. n : a[i] = s[i]
  BY Beginning
<1>2. z \in Seq(Entry) /\ Len(z) = 1 /\ z[1] = s[n + 1]
  BY LastEntry
<1>3. BeforeLast(s, <<x>>) = a \o <<x>> \o z
  BY DEF BeforeLast
<1> HIDE DEF a, z
<1>4. a \o <<x>> = b
  BY <1>1
<1>5. /\ b \in Seq(Entry) /\ Len(b) = n + 1 /\ b[n + 1] = x
      /\ \A i \in 1 .. n : b[i] = s[i]
  BY <1>1 DEF b
<1> HIDE DEF b
<1>6. /\ b \o z \in Seq(Entry) /\ Len(b \o z) = n + 2
      /\ \A i \in 1 .. n + 2 : (b \o z)[i] = IF i <= n + 1 THEN b[i] ELSE z[i - (n + 1)]
  <2>1. /\ b \o z \in Seq(Entry) /\ Len(b \o z) = Len(b) + Len(z)
        /\ \A i \in 1 .. Len(b) + Len(z) :
             (b \o z)[i] = IF i <= Len(b) THEN b[i] ELSE z[i - Len(b)]
    BY <1>2, <1>5, ConcatProperties
  <2> QED BY <1>2, <1>5, <2>1
<1>7. /\ \A i \in 1 .. n : (b \o z)[i] = s[i]
      /\ (b \o z)[n + 1] = x /\ (b \o z)[n + 2] = s[n + 1]
  BY <1>2, <1>5, <1>6
<1> QED BY <1>3, <1>4, <1>6, <1>7

\* The answer is put next to that prompt, before it if there are no references.
LEMMA AnswerInserted ==
  ASSUME NEW h \in Seq(Entry), InTurns(h), NEW r \in Requests,
         NEW refs \in SUBSET Reference
  PROVE  /\ BeforeLast(Asking(h, r, refs), Answer(r)) \in Seq(Entry)
         /\ InTurns(BeforeLast(Asking(h, r, refs), Answer(r)))
<1> DEFINE g == Asking(h, r, refs)
           n == BeforeLast(g, Answer(r))
           human == Entering("human", r, {})
           ai == Entering("ai", r, {})
           shown == Entering("references", r, refs)
<1>1. /\ human \in Entry /\ shown \in Entry /\ ai \in Entry
      /\ human.tag = "human" /\ human.by = r /\ ai.tag = "ai" /\ ai.by = r
      /\ shown.tag = "references" /\ shown.by = r
      /\ human = Entering("human", r, {})
  BY EntryType
<1> HIDE DEF human, ai, shown
<1>4. ASSUME NEW k \in Nat, g \in Seq(Entry), Len(g) = k + 1
      PROVE  /\ n \in Seq(Entry) /\ Len(n) = k + 2
             /\ \A i \in 1 .. k : n[i] = g[i]
             /\ n[k + 1] = ai /\ n[k + 2] = g[k + 1]
  <2>1. n = BeforeLast(g, <<ai>>)
    BY DEF Answer, ai
  <2> HIDE DEF g, n
  <2> QED BY <1>1, <1>4, <2>1, InsertedBeforeLast
<1>2. CASE refs = {}
  <2>1. g = Append(h, human)
    BY <1>1, <1>2 DEF Asking, Prompt, Shown, human
  <2>2. /\ g \in Seq(Entry) /\ Len(g) = Len(h) + 1 /\ g[Len(h) + 1] = human
        /\ \A i \in 1 .. Len(h) : g[i] = h[i]
    BY <1>1, <2>1
  <2> HIDE DEF g, n
  <2>3. /\ n \in Seq(Entry) /\ Len(n) = Len(h) + 2
        /\ n[Len(h) + 1] = ai /\ n[Len(h) + 2] = human
        /\ \A i \in 1 .. Len(h) : n[i] = h[i]
    BY <1>1, <1>4, <2>2
  <2>4. \A i \in Len(h) + 1 .. Len(n) :
          /\ n[i].tag = "ai" =>
               \/ i > 1 /\ n[i - 1] = Entering("human", n[i].by, {})
               \/ i < Len(n) /\ n[i + 1] = Entering("human", n[i].by, {})
          /\ n[i].tag = "references" => i > 1 /\ n[i - 1].by = n[i].by
    BY <1>1, <2>3
  <2>5. InTurns(n)
    BY <2>3, <2>4, KeepsTurns
  <2> QED BY <2>3, <2>5 DEF n, g
<1>3. CASE refs # {}
  <2>1. g = Append(Append(h, human), shown)
    BY <1>1, <1>3 DEF Asking, Prompt, Shown, human, shown
  <2>2. /\ g \in Seq(Entry) /\ Len(g) = Len(h) + 2 /\ g[Len(h) + 1] = human
        /\ g[Len(h) + 2] = shown
        /\ \A i \in 1 .. Len(h) : g[i] = h[i]
    BY <1>1, <2>1
  <2> HIDE DEF g, n
  <2>3. /\ n \in Seq(Entry) /\ Len(n) = Len(h) + 3
        /\ n[Len(h) + 1] = human /\ n[Len(h) + 2] = ai /\ n[Len(h) + 3] = shown
        /\ \A i \in 1 .. Len(h) : n[i] = h[i]
    BY <1>1, <1>4, <2>2
  <2>4. \A i \in Len(h) + 1 .. Len(n) :
          /\ n[i].tag = "ai" =>
               \/ i > 1 /\ n[i - 1] = Entering("human", n[i].by, {})
               \/ i < Len(n) /\ n[i + 1] = Entering("human", n[i].by, {})
          /\ n[i].tag = "references" => i > 1 /\ n[i - 1].by = n[i].by
    BY <1>1, <2>3
  <2>5. InTurns(n)
    BY <2>3, <2>4, KeepsTurns
  <2> QED BY <2>3, <2>5 DEF n, g
<1> QED BY <1>2, <1>3

LEMMA Appended ==
  ASSUME NEW h \in Seq(Entry), NEW x \in Entry
  PROVE  /\ Append(h, x) \in Seq(Entry) /\ Len(Append(h, x)) = Len(h) + 1
         /\ Append(h, x)[Len(h) + 1] = x
         /\ \A i \in 1 .. Len(h) : Append(h, x)[i] = h[i]
OBVIOUS

\* The turn a new query begins with.
LEMMA FirstTurn ==
  ASSUME NEW r \in Requests, NEW refs \in SUBSET Reference
  PROVE  /\ Prompt(r) \in Seq(Entry) /\ InTurns(Prompt(r))
         /\ Prompt(r) \o Answer(r) \o Shown(r, refs) \in Seq(Entry)
         /\ InTurns(Prompt(r) \o Answer(r) \o Shown(r, refs))
<1> DEFINE human == Entering("human", r, {})
           ai == Entering("ai", r, {})
           shown == Entering("references", r, refs)
           g == Prompt(r) \o Answer(r) \o Shown(r, refs)
<1>1. /\ human \in Entry /\ shown \in Entry /\ ai \in Entry
      /\ human.tag = "human" /\ human.by = r /\ ai.tag = "ai" /\ ai.by = r
      /\ shown.tag = "references" /\ shown.by = r
      /\ human = Entering("human", r, {})
  BY EntryType
<1>2. Prompt(r) = <<human>> /\ g = <<human, ai>> \o (IF refs = {} THEN <<>> ELSE <<shown>>)
  BY DEF Prompt, Answer, Shown
<1> HIDE DEF human, ai, shown
<1>3. Prompt(r) \in Seq(Entry) /\ InTurns(Prompt(r))
  BY <1>1, <1>2 DEF InTurns
<1>4. CASE refs = {}
  <2>1. g = <<human, ai>>
    BY <1>1, <1>2, <1>4
  <2> HIDE DEF g
  <2>2. g \in Seq(Entry) /\ InTurns(g)
    BY <1>1, <2>1 DEF InTurns
  <2> QED BY <1>3, <2>2 DEF g
<1>5. CASE refs # {}
  <2> DEFINE t == <<human, ai>>
  <2>1. g = Append(t, shown)
    BY <1>1, <1>2, <1>5
  <2>2. t \in Seq(Entry) /\ Len(t) = 2 /\ t[1] = human /\ t[2] = ai
    BY <1>1
  <2> HIDE DEF g, t
  <2>3. /\ g \in Seq(Entry) /\ Len(g) = 3
        /\ g[1] = human /\ g[2] = ai /\ g[3] = shown
    <3>1. /\ g \in Seq(Entry) /\ Len(g) = 2 + 1 /\ g[2 + 1] = shown
          /\ \A i \in 1 .. 2 : g[i] = t[i]
      <4>1. shown \in Entry /\ t \in Seq(Entry) /\ Len(t) = 2
        BY <1>1, <2>2
      <4>2. /\ g \in Seq(Entry) /\ Len(g) = Len(t) + 1
            /\ g[Len(t) + 1] = shown
            /\ \A i \in 1 .. Len(t) : g[i] = t[i]
        BY <2>1, <4>1, Appended
      <4> QED BY <4>1, <4>2
    <3> QED BY <2>2, <3>1
  <2>4. InTurns(g)
    <3>1. DOMAIN g = 1 .. 3
      BY <2>3
    <3> QED BY <1>1, <2>3, <3>1 DEF InTurns
  <2> QED BY <1>3, <2>3, <2>4 DEF g
<1> QED BY <1>4, <1>5

-----------------------------------------------------------------------------
(* The invariant *)

\* What the copies of request r are good for at each of its steps.
CallFits(r, c) ==
  /\ c \in Calls
  /\ c.step \notin {"ask", "done", "failed"} => c.engine \in Builders
  /\ c.step = "search" => c.name \in Names
  /\ c.kind = "continue" /\ c.step \in {"search", "lookup"} => c.on \in Requests
  /\ c.step \in {"ask", "search", "lookup"} => InTurns(c.history)
  /\ c.step = "generate" =>
       /\ c.on \in Requests
       /\ \E h \in Seq(Entry) : InTurns(h) /\ c.history = Asking(h, r, c.found)

EditFits == edit.copy # NoQuery => InTurns(edit.copy.history)

QInv == /\ QueriesTypeOK /\ TurnsTogether /\ EditFits
        /\ \A r \in Requests : CallFits(r, call[r])

LEMMA IdleFits ==
  ASSUME NEW r \in Requests, NEW step \in {"ask", "done", "failed"}
  PROVE  CallFits(r, Idle(step))
<1>1. <<>> \in Seq(Entry) /\ InTurns(<<>>)
  BY DEF InTurns
<1> QED BY <1>1 DEF CallFits, Idle, Calls, Steps, Kinds

LEMMA InitQInv == QueryInit => QInv
<1> SUFFICES ASSUME QueryInit PROVE QInv
  OBVIOUS
<1>1. \A r \in Requests : CallFits(r, call[r])
  BY IdleFits DEF QueryInit, InitQueries
<1>2. call \in [Requests -> Calls]
  BY <1>1, IdleFits DEF QueryInit, InitQueries, CallFits
<1> QED BY <1>1, <1>2 DEF QInv, QueryInit, InitQueries, QueriesTypeOK, TurnsTogether,
                          Exists, EditFits

\* A request goes on with new copies.
LEMMA CallStep ==
  ASSUME QInv, NEW r \in Requests, NEW c, CallFits(r, c),
         call' = [call EXCEPT ![r] = c]
  PROVE  /\ call' \in [Requests -> Calls]
         /\ \A x \in Requests : CallFits(x, call'[x])
<1>1. call \in [Requests -> Calls] /\ c \in Calls
  BY DEF QInv, QueriesTypeOK, CallFits
<1>2. \A x \in Requests : call'[x] = IF x = r THEN c ELSE call[x]
  BY <1>1
<1>3. call' \in [Requests -> Calls]
  BY <1>1
<1> QED BY <1>2, <1>3 DEF QInv

LEMMA EndStep ==
  ASSUME QInv, NEW r \in Requests, NEW step \in {"done", "failed"}, Ends(r, step)
  PROVE  /\ call' \in [Requests -> Calls]
         /\ \A x \in Requests : CallFits(x, call'[x])
BY IdleFits, CallStep DEF Ends

\* A history of turns is stored.
LEMMA StoreStep ==
  ASSUME QInv, NEW q \in Requests, NEW e \in Builders, NEW h \in Seq(Entry),
         InTurns(h), Store(q, e, h)
  PROVE  queries' \in [Requests -> Query \cup {NoQuery}] /\ TurnsTogether'
<1> DEFINE x == [engine |-> e, history |-> h]
<1>1. x \in Query /\ x.history = h
  BY DEF Query
<1>2. queries \in [Requests -> Query \cup {NoQuery}]
  BY DEF QInv, QueriesTypeOK
<1>3. queries' = [queries EXCEPT ![q] = x]
  BY DEF Store
<1> HIDE DEF x
<1>4. \A y \in Requests : queries'[y] = IF y = q THEN x ELSE queries[y]
  BY <1>2, <1>3
<1>5. queries' \in [Requests -> Query \cup {NoQuery}]
  BY <1>1, <1>2, <1>3
<1> QED BY <1>1, <1>4, <1>5 DEF QInv, TurnsTogether, Exists

\* What is left to show of a step that edits no query.
LEMMA StepFits ==
  ASSUME QInv, UNCHANGED edit,
         queries' \in [Requests -> Query \cup {NoQuery}], TurnsTogether',
         call' \in [Requests -> Calls], \A x \in Requests : CallFits(x, call'[x]),
         references' \subseteq [by : Requests, ref : Reference],
         results' \subseteq [by : Requests, engine : Builders, refs : SUBSET Reference],
         early' \subseteq Requests
  PROVE  QInv'
<1>1. QueriesTypeOK'
  BY DEF QInv, QueriesTypeOK
<1>2. EditFits'
  BY DEF QInv, EditFits
<1> QED BY <1>1, <1>2 DEF QInv
\* Each step of a request: what it leaves the request with.
LEMMA AskFits ==
  ASSUME TypeOK, QInv, NEW r \in Requests, Ask(r)
  PROVE  QInv'
<1>1. PICK e \in Builders, kind \in {"query", "batch"} :
        /\ Live(e)
        /\ call' = [call EXCEPT ![r].kind = kind, ![r].engine = e, ![r].name = engines[e],
                      ![r].step = IF kind = "query" THEN "search" ELSE "create"]
  BY DEF Ask
<1> DEFINE c == [call[r] EXCEPT !.kind = kind, !.engine = e, !.name = engines[e],
                   !.step = IF kind = "query" THEN "search" ELSE "create"]
<1>2. /\ call[r].step = "ask" /\ call[r] \in Calls /\ call \in [Requests -> Calls]
      /\ InTurns(call[r].history) /\ engines[e] \in Names
  BY <1>1 DEF Ask, QInv, QueriesTypeOK, CallFits, TypeOK, Live
<1>3. CallFits(r, c)
  BY <1>2 DEF CallFits, Calls, Steps, Kinds
<1>4. call' = [call EXCEPT ![r] = c]
  BY <1>1, <1>2
<1> HIDE DEF c
<1>5. /\ call' \in [Requests -> Calls]
      /\ \A x \in Requests : CallFits(x, call'[x])
  BY <1>3, <1>4, CallStep
<1> QED BY <1>5, StepFits DEF Ask, QInv, QueriesTypeOK, TurnsTogether, Exists

LEMMA AskAgainFits ==
  ASSUME TypeOK, QInv, NEW r \in Requests, AskAgain(r)
  PROVE  QInv'
<1>1. PICK q \in Requests, kind \in {"continue", "batch-continue"} :
        /\ Exists(q)
        /\ early' = IF queries[q].history = <<>> THEN early \cup {q} ELSE early
        /\ \/ Live(queries[q].engine) /\ Continues(r, q, kind)
           \/ ~Live(queries[q].engine) /\ Ends(r, "failed")
  BY DEF AskAgain
<1>2. /\ call[r] \in Calls /\ call \in [Requests -> Calls]
      /\ queries[q] \in Query /\ InTurns(queries[q].history)
  BY <1>1 DEF QInv, QueriesTypeOK, TurnsTogether, Exists
<1>3. /\ call' \in [Requests -> Calls]
      /\ \A x \in Requests : CallFits(x, call'[x])
  <2>1. CASE Live(queries[q].engine) /\ Continues(r, q, kind)
    <3> DEFINE c == [call[r] EXCEPT !.kind = kind, !.engine = queries[q].engine,
                       !.name = engines[queries[q].engine], !.on = q,
                       !.history = queries[q].history,
                       !.step = IF kind = "continue" THEN "search" ELSE "launched"]
    <3>1. /\ queries[q].engine \in Builders /\ queries[q].history \in Seq(Entry)
          /\ engines[queries[q].engine] \in Names
      BY <1>2, <2>1 DEF Query, TypeOK, Live
    <3>2. CallFits(r, c)
      BY <1>2, <3>1 DEF CallFits, Calls, Steps, Kinds
    <3>3. call' = [call EXCEPT ![r] = c]
      BY <1>2, <2>1 DEF Continues
    <3> HIDE DEF c
    <3> QED BY <3>2, <3>3, CallStep
  <2>2. CASE Ends(r, "failed")
    BY <2>2, EndStep
  <2> QED BY <1>1, <2>1, <2>2
<1>4. early' \subseteq Requests
  BY <1>1 DEF QInv, QueriesTypeOK
<1> QED BY <1>3, <1>4, StepFits DEF AskAgain, QInv, QueriesTypeOK, TurnsTogether, Exists

LEMMA SearchFits ==
  ASSUME TypeOK, QInv, NEW r \in Requests, Search(r)
  PROVE  QInv'
<1>1. PICK matches \in SUBSET rows[call[r].name] :
        call' = [call EXCEPT ![r].todo = matches, ![r].step = "lookup"]
  BY DEF Search
<1> DEFINE c == [call[r] EXCEPT !.todo = matches, !.step = "lookup"]
<1>2. /\ call[r].step = "search" /\ call[r] \in Calls /\ call \in [Requests -> Calls]
      /\ CallFits(r, call[r])
  BY DEF Search, QInv, QueriesTypeOK
<1>3. matches \subseteq Row
  BY <1>2 DEF CallFits, TypeOK
<1>4. CallFits(r, c)
  BY <1>2, <1>3 DEF CallFits, Calls, Steps
<1>5. call' = [call EXCEPT ![r] = c]
  BY <1>1, <1>2
<1> HIDE DEF c
<1>6. /\ call' \in [Requests -> Calls]
      /\ \A x \in Requests : CallFits(x, call'[x])
  BY <1>4, <1>5, CallStep
<1> QED BY <1>6, StepFits DEF Search, QInv, QueriesTypeOK, TurnsTogether, Exists

LEMMA LookUpFits ==
  ASSUME TypeOK, QInv, NEW r \in Requests, LookUp(r)
  PROVE  QInv'
<1>1. PICK m \in call[r].todo :
        \/ Ends(r, "failed") /\ UNCHANGED references
        \/ \E c \in {c \in chunks : c.engine = call[r].engine /\ c.index = m.index} :
             /\ DocumentOf(c)
             /\ references' = references \cup {[by |-> r, ref |-> Refer(c, m)]}
             /\ call' = [call EXCEPT ![r].todo = @ \ {m}, ![r].found = @ \cup {Refer(c, m)}]
  BY DEF LookUp
<1>2. /\ call[r].step = "lookup" /\ call[r] \in Calls /\ call \in [Requests -> Calls]
      /\ CallFits(r, call[r])
  BY DEF LookUp, QInv, QueriesTypeOK
<1>3. CASE Ends(r, "failed") /\ UNCHANGED references
  <2>1. /\ call' \in [Requests -> Calls]
        /\ \A x \in Requests : CallFits(x, call'[x])
    BY <1>3, EndStep
  <2> QED BY <1>3, <2>1, StepFits DEF LookUp, QInv, QueriesTypeOK, TurnsTogether, Exists
<1>4. ASSUME NEW k \in chunks,
             references' = references \cup {[by |-> r, ref |-> Refer(k, m)]},
             call' = [call EXCEPT ![r].todo = @ \ {m}, ![r].found = @ \cup {Refer(k, m)}]
      PROVE  QInv'
  <2> DEFINE c == [call[r] EXCEPT !.todo = @ \ {m}, !.found = @ \cup {Refer(k, m)}]
  <2>1. Refer(k, m) \in Reference
    <3>1. k \in Chunk /\ m \in Row
      BY <1>2 DEF TypeOK, Calls
    <3> QED BY <3>1 DEF Refer, Reference, Chunk, Row
  <2>2. CallFits(r, c)
    BY <1>2, <2>1 DEF CallFits, Calls
  <2>3. call' = [call EXCEPT ![r] = c]
    BY <1>2, <1>4
  <2> HIDE DEF c
  <2>4. /\ call' \in [Requests -> Calls]
        /\ \A x \in Requests : CallFits(x, call'[x])
    BY <2>2, <2>3, CallStep
  <2>5. references' \subseteq [by : Requests, ref : Reference]
    BY <1>4, <2>1 DEF QInv, QueriesTypeOK
  <2> QED BY <2>4, <2>5, StepFits DEF LookUp, QInv, QueriesTypeOK, TurnsTogether, Exists
<1> QED BY <1>1, <1>3, <1>4

\* The model is asked.
LEMMA GenerateFits ==
  ASSUME TypeOK, QInv, NEW r \in Requests, ShowReferences(r) \/ InsertAnswer(r)
  PROVE  QInv'
<1>1. /\ call[r] \in Calls /\ call \in [Requests -> Calls] /\ CallFits(r, call[r])
      /\ call[r].found \in SUBSET Reference /\ call[r].history \in Seq(Entry)
  BY DEF QInv, QueriesTypeOK, Calls
<1>2. CASE ShowReferences(r)
  <2> DEFINE h == Asking(call[r].history, r, call[r].found)
             c == [call[r] EXCEPT !.history = h, !.step = "generate"]
  <2>1. /\ call[r].step = "lookup" /\ call[r].kind = "continue"
        /\ Store(call[r].on, call[r].engine, h)
        /\ call' = [call EXCEPT ![r].history = h, ![r].step = "generate"]
    BY <1>2 DEF ShowReferences, Retrieved, Asking
  <2>2. /\ call[r].on \in Requests /\ call[r].engine \in Builders
        /\ InTurns(call[r].history)
    BY <1>1, <2>1 DEF CallFits
  <2>3. h \in Seq(Entry) /\ InTurns(h)
    BY <1>1, <2>2, PromptAppended
  <2>4. queries' \in [Requests -> Query \cup {NoQuery}] /\ TurnsTogether'
    BY <2>1, <2>2, <2>3, StoreStep
  <2>5. /\ c \in Calls /\ c.history = h /\ c.step = "generate"
        /\ c.on = call[r].on /\ c.engine = call[r].engine /\ c.found = call[r].found
    <3> HIDE DEF h
    <3> QED BY <1>1, <2>3 DEF Calls, Steps
  <2>6. call' = [call EXCEPT ![r] = c]
    BY <1>1, <2>1
  <2>7. CallFits(r, c)
    <3>1. c.history = Asking(call[r].history, r, c.found)
      BY <2>5
    <3> HIDE DEF c, h
    <3> QED BY <1>1, <2>2, <2>5, <3>1 DEF CallFits
  <2> HIDE DEF c
  <2>8. /\ call' \in [Requests -> Calls]
        /\ \A x \in Requests : CallFits(x, call'[x])
    BY <2>6, <2>7, CallStep
  <2> QED BY <1>2, <2>4, <2>8, StepFits DEF ShowReferences, QInv, QueriesTypeOK
<1>3. CASE InsertAnswer(r)
  <2> DEFINE h == BeforeLast(call[r].history, Answer(r))
  <2>1. /\ call[r].step = "generate"
        /\ Store(call[r].on, call[r].engine, h)
        /\ \E used \in Fitting(r) :
             call' = [call EXCEPT ![r].history = h, ![r].found = used, ![r].step = "result"]
    BY <1>3 DEF InsertAnswer
  <2>2. PICK used \in SUBSET call[r].found :
          call' = [call EXCEPT ![r].history = h, ![r].found = used, ![r].step = "result"]
    BY <2>1 DEF Fitting
  <2>3. /\ call[r].on \in Requests /\ call[r].engine \in Builders
        /\ \E g \in Seq(Entry) : /\ InTurns(g)
                                 /\ call[r].history = Asking(g, r, call[r].found)
    BY <1>1, <2>1 DEF CallFits
  <2>4. h \in Seq(Entry) /\ InTurns(h)
    BY <1>1, <2>3, AnswerInserted
  <2>5. queries' \in [Requests -> Query \cup {NoQuery}] /\ TurnsTogether'
    BY <2>1, <2>3, <2>4, StoreStep
  <2> HIDE DEF h
  <2> DEFINE c == [call[r] EXCEPT !.history = h, !.found = used, !.step = "result"]
  <2>6. c \in Calls /\ c.step = "result" /\ c.engine = call[r].engine
    BY <1>1, <2>4 DEF Calls, Steps
  <2>7. call' = [call EXCEPT ![r] = c]
    BY <1>1, <2>2
  <2> HIDE DEF c
  <2>8. CallFits(r, c)
    BY <2>3, <2>6 DEF CallFits
  <2>9. /\ call' \in [Requests -> Calls]
        /\ \A x \in Requests : CallFits(x, call'[x])
    BY <2>7, <2>8, CallStep
  <2> QED BY <1>3, <2>5, <2>9, StepFits DEF InsertAnswer, QInv, QueriesTypeOK
<1> QED BY <1>2, <1>3

LEMMA SaveResultFits ==
  ASSUME TypeOK, QInv, NEW r \in Requests, SaveResult(r)
  PROVE  QInv'
<1>1. /\ call[r] \in Calls /\ call \in [Requests -> Calls] /\ CallFits(r, call[r])
  BY DEF QInv, QueriesTypeOK
<1>2. PICK used \in SUBSET call[r].found :
        /\ call[r].step \in {"result", "lookup"}
        /\ results' = results \cup {[by |-> r, engine |-> call[r].engine, refs |-> used]}
        /\ call' = [call EXCEPT ![r].found = used, ![r].step = "create"]
  BY DEF SaveResult, Fitting, Retrieved
<1> DEFINE c == [call[r] EXCEPT !.found = used, !.step = "create"]
<1>3. call[r].engine \in Builders /\ used \in SUBSET Reference
  BY <1>1, <1>2 DEF CallFits, Calls
<1>4. CallFits(r, c)
  BY <1>1, <1>2, <1>3 DEF CallFits, Calls, Steps
<1>5. call' = [call EXCEPT ![r] = c]
  BY <1>1, <1>2
<1> HIDE DEF c
<1>6. /\ call' \in [Requests -> Calls]
      /\ \A x \in Requests : CallFits(x, call'[x])
  BY <1>4, <1>5, CallStep
<1>7. results' \subseteq [by : Requests, engine : Builders, refs : SUBSET Reference]
  BY <1>2, <1>3 DEF QInv, QueriesTypeOK
<1> QED BY <1>6, <1>7, StepFits DEF SaveResult, QInv, QueriesTypeOK, TurnsTogether, Exists

LEMMA SaveQueryFits ==
  ASSUME TypeOK, QInv, NEW r \in Requests, CreateQuery(r) \/ FillQuery(r)
  PROVE  QInv'
<1>1. /\ call[r] \in Calls /\ call \in [Requests -> Calls] /\ CallFits(r, call[r])
      /\ call[r].found \in SUBSET Reference
      /\ call[r].step \in {"create", "fill"} => call[r].engine \in Builders
  BY DEF QInv, QueriesTypeOK, Calls, CallFits
<1>2. CASE CreateQuery(r)
  <2> DEFINE c == [call[r] EXCEPT !.history = <<>>, !.step = "fill"]
  <2>1. /\ call[r].step = "create" /\ Store(r, call[r].engine, <<>>)
        /\ call' = [call EXCEPT ![r].history = <<>>, ![r].step = "fill"]
    BY <1>2 DEF CreateQuery
  <2>2. <<>> \in Seq(Entry) /\ InTurns(<<>>)
    BY DEF InTurns
  <2>3. queries' \in [Requests -> Query \cup {NoQuery}] /\ TurnsTogether'
    BY <1>1, <2>1, <2>2, StoreStep
  <2>4. CallFits(r, c)
    BY <1>1, <2>1, <2>2 DEF CallFits, Calls, Steps
  <2>5. call' = [call EXCEPT ![r] = c]
    BY <1>1, <2>1
  <2> HIDE DEF c
  <2>6. /\ call' \in [Requests -> Calls]
        /\ \A x \in Requests : CallFits(x, call'[x])
    BY <2>4, <2>5, CallStep
  <2> QED BY <1>2, <2>3, <2>6, StepFits DEF CreateQuery, QInv, QueriesTypeOK
<1>3. CASE FillQuery(r)
  <2> DEFINE h == IF call[r].kind = "batch" THEN Prompt(r)
                  ELSE Prompt(r) \o Answer(r) \o Shown(r, call[r].found)
  <2>1. /\ call[r].step = "fill" /\ Store(r, call[r].engine, h)
        /\ IF call[r].kind = "batch" THEN Step(r, "launched") ELSE Ends(r, "done")
    BY <1>3 DEF FillQuery
  <2>2. h \in Seq(Entry) /\ InTurns(h)
    BY <1>1, FirstTurn
  <2> HIDE DEF h
  <2>3. queries' \in [Requests -> Query \cup {NoQuery}] /\ TurnsTogether'
    BY <1>1, <2>1, <2>2, StoreStep
  <2>4. /\ call' \in [Requests -> Calls]
        /\ \A x \in Requests : CallFits(x, call'[x])
    <3>1. CASE Ends(r, "done")
      BY <3>1, EndStep
    <3>2. CASE Step(r, "launched")
      <4> DEFINE c == [call[r] EXCEPT !.step = "launched"]
      <4>1. CallFits(r, c)
        BY <1>1, <2>1 DEF CallFits, Calls, Steps
      <4>2. call' = [call EXCEPT ![r] = c]
        BY <1>1, <3>2 DEF Step
      <4> HIDE DEF c
      <4> QED BY <4>1, <4>2, CallStep
    <3> QED BY <2>1, <3>1, <3>2
  <2> QED BY <1>3, <2>3, <2>4, StepFits DEF FillQuery, QInv, QueriesTypeOK
<1> QED BY <1>2, <1>3

LEMMA ServingFits ==
  ASSUME TypeOK, QInv, NEW r \in Requests, Serving(r)
  PROVE  QInv'
<1>1. ASSUME RunBatch(r) \/ Raise(r) PROVE QInv'
  <2>1. Ends(r, "failed")
    BY <1>1 DEF RunBatch, Raise
  <2>2. /\ call' \in [Requests -> Calls]
        /\ \A x \in Requests : CallFits(x, call'[x])
    BY <2>1, EndStep
  <2> QED BY <1>1, <2>2, StepFits
          DEF RunBatch, Raise, QInv, QueriesTypeOK, TurnsTogether, Exists
<1> QED BY <1>1, AskFits, AskAgainFits, SearchFits, LookUpFits, GenerateFits,
           SaveResultFits, SaveQueryFits DEF Serving

\* A PUT stores a copy of a history in turns.
LEMMA EditingFits ==
  ASSUME QInv, Editing
  PROVE  QInv'
<1>1. ASSUME NEW q \in Requests, PutReads(q) PROVE QInv'
  <2>1. /\ queries[q] \in Query /\ InTurns(queries[q].history)
        /\ edit' = [step |-> "write", query |-> q, copy |-> queries[q]]
        /\ early' \subseteq Requests /\ UNCHANGED <<queries, references, results, call>>
    BY <1>1 DEF PutReads, QInv, QueriesTypeOK, TurnsTogether, Exists
  <2>2. QueriesTypeOK'
    BY <2>1 DEF QInv, QueriesTypeOK
  <2>3. TurnsTogether' /\ EditFits'
    BY <2>1 DEF QInv, TurnsTogether, Exists, EditFits
  <2> QED BY <2>1, <2>2, <2>3 DEF QInv
<1>2. CASE PutWrites
  <2>1. /\ queries' = IF Exists(edit.query) THEN [queries EXCEPT ![edit.query] = edit.copy]
                                            ELSE queries
        /\ edit' = [step |-> "done", query |-> NoQuery, copy |-> NoQuery]
        /\ UNCHANGED <<references, results, call, early>>
        /\ edit.copy \in Query \cup {NoQuery}
        /\ queries \in [Requests -> Query \cup {NoQuery}]
    BY <1>2 DEF PutWrites, QInv, QueriesTypeOK
  <2>2. QueriesTypeOK'
    BY <2>1 DEF QInv, QueriesTypeOK
  <2>3. \A q \in Requests : queries'[q] = queries[q] \/ queries'[q] = edit.copy
    BY <2>1
  <2>4. TurnsTogether' /\ EditFits'
    BY <2>1, <2>3 DEF QInv, TurnsTogether, Exists, EditFits
  <2> QED BY <2>1, <2>2, <2>4 DEF QInv
<1>3. ASSUME NEW q \in Requests, DeleteQuery(q) PROVE QInv'
  <2>1. /\ queries' = [queries EXCEPT ![q] = NoQuery]
        /\ edit' = IF edit.step = "idle" THEN [edit EXCEPT !.step = "done"] ELSE edit
        /\ UNCHANGED <<references, results, call, early>>
        /\ queries \in [Requests -> Query \cup {NoQuery}]
        /\ edit \in [step : {"idle", "write", "done"}, query : Requests \cup {NoQuery},
                     copy : Query \cup {NoQuery}]
    BY <1>3 DEF DeleteQuery, QInv, QueriesTypeOK
  <2>2. QueriesTypeOK' /\ edit'.copy = edit.copy
    BY <2>1 DEF QInv, QueriesTypeOK
  <2>3. \A x \in Requests : queries'[x] = queries[x] \/ queries'[x] = NoQuery
    BY <2>1
  <2>4. TurnsTogether' /\ EditFits'
    BY <2>2, <2>3 DEF QInv, TurnsTogether, Exists, EditFits
  <2> QED BY <2>1, <2>2, <2>4 DEF QInv
<1> QED BY <1>1, <1>2, <1>3 DEF Editing

LEMMA NextQInv == TypeOK /\ QInv /\ [QueryNext]_allVars => QInv'
<1> SUFFICES ASSUME TypeOK, QInv, [QueryNext]_allVars PROVE QInv'
  OBVIOUS
<1>1. ASSUME EngineStep \/ UNCHANGED allVars PROVE QInv'
  <2>1. /\ UNCHANGED <<queries, call, edit, early>>
        /\ references' \subseteq references /\ results' \subseteq results
    BY <1>1 DEF EngineStep, allVars, queryVars
  <2> QED BY <2>1, StepFits DEF QInv, QueriesTypeOK, TurnsTogether, Exists
<1> QED BY <1>1, ServingFits, EditingFits DEF QueryNext

\* The invariant of the queries holds beside that of the builds.
THEOREM QueryInvariance == QuerySpec => []QInv
<1>1. QuerySpec => []TypeOK
  BY QueriesKeepBuilds, TypeCorrect, PTL
<1> QED BY <1>1, InitQInv, NextQInv, PTL DEF QuerySpec

\* Queries, references, results, requests and the PUT keep their types.
THEOREM QueryTypeCorrect == QuerySpec => []QueriesTypeOK
<1>1. QInv => QueriesTypeOK
  BY DEF QInv
<1> QED BY <1>1, QueryInvariance, PTL

\* However continuations, PUTs and deletions of a query overwrite each other,
\* each answer stands next to its prompt and references behind their turn.
THEOREM TurnsSound == QuerySpec => []TurnsTogether
<1>1. QInv => TurnsTogether
  BY DEF QInv
<1> QED BY <1>1, QueryInvariance, PTL
-----------------------------------------------------------------------------
(* What each step makes of the copies of its request *)

\* The copies are those of one record.
LEMMA Became ==
  ASSUME QInv, NEW r \in Requests, NEW c, call' = [call EXCEPT ![r] = c]
  PROVE  call'[r] = c /\ \A x \in Requests \ {r} : call'[x] = call[x]
BY DEF QInv, QueriesTypeOK

\* Beginning.
LEMMA AskFields ==
  ASSUME QInv, NEW r \in Requests, Ask(r)
  PROVE  /\ call[r].step = "ask"
         /\ \A x \in Requests \ {r} : call'[x] = call[x]
         /\ \E e \in Builders : Live(e) /\ call'[r].engine = e /\ call'[r].name = engines[e]
         /\ call'[r].kind \in {"query", "batch"}
         /\ call'[r].step = IF call'[r].kind = "query" THEN "search" ELSE "create"
         /\ call'[r].on = call[r].on /\ call'[r].history = call[r].history
         /\ call'[r].todo = call[r].todo /\ call'[r].found = call[r].found
<1>1. PICK e \in Builders, kind \in {"query", "batch"} :
        /\ Live(e)
        /\ call' = [call EXCEPT ![r].kind = kind, ![r].engine = e, ![r].name = engines[e],
                      ![r].step = IF kind = "query" THEN "search" ELSE "create"]
  BY DEF Ask
<1> DEFINE c == [call[r] EXCEPT !.kind = kind, !.engine = e, !.name = engines[e],
                   !.step = IF kind = "query" THEN "search" ELSE "create"]
<1>2. call[r] \in Calls /\ call' = [call EXCEPT ![r] = c]
  BY <1>1 DEF QInv, QueriesTypeOK
<1>3. /\ c.kind = kind /\ c.engine = e /\ c.name = engines[e]
      /\ c.step = IF kind = "query" THEN "search" ELSE "create"
      /\ c.on = call[r].on /\ c.history = call[r].history
      /\ c.todo = call[r].todo /\ c.found = call[r].found
  BY <1>2 DEF Calls
<1> HIDE DEF c
<1> QED BY <1>1, <1>2, <1>3, Became DEF Ask

LEMMA AskAgainFields ==
  ASSUME QInv, NEW r \in Requests, AskAgain(r)
  PROVE  /\ call[r].step = "ask"
         /\ \A x \in Requests \ {r} : call'[x] = call[x]
         /\ \/ call'[r] = Idle("failed") /\ early \subseteq early'
            \/ \E q \in Requests :
                 /\ Exists(q) /\ Live(queries[q].engine)
                 /\ early' = IF queries[q].history = <<>> THEN early \cup {q} ELSE early
                 /\ call'[r].engine = queries[q].engine
                 /\ call'[r].name = engines[queries[q].engine]
                 /\ call'[r].kind \in {"continue", "batch-continue"}
                 /\ call'[r].step = IF call'[r].kind = "continue" THEN "search"
                                                                  ELSE "launched"
                 /\ call'[r].on = q /\ call'[r].history = queries[q].history
                 /\ call'[r].todo = call[r].todo /\ call'[r].found = call[r].found
<1>1. PICK q \in Requests, kind \in {"continue", "batch-continue"} :
        /\ Exists(q)
        /\ early' = IF queries[q].history = <<>> THEN early \cup {q} ELSE early
        /\ \/ Live(queries[q].engine) /\ Continues(r, q, kind)
           \/ ~Live(queries[q].engine) /\ Ends(r, "failed")
  BY DEF AskAgain
<1>2. call[r] \in Calls
  BY DEF QInv, QueriesTypeOK
<1>3. CASE Ends(r, "failed")
  <2>1. call'[r] = Idle("failed") /\ \A x \in Requests \ {r} : call'[x] = call[x]
    BY <1>3, Became DEF Ends
  <2> QED BY <1>1, <2>1 DEF AskAgain
<1>4. CASE Live(queries[q].engine) /\ Continues(r, q, kind)
  <2> DEFINE c == [call[r] EXCEPT !.kind = kind, !.engine = queries[q].engine,
                     !.name = engines[queries[q].engine], !.on = q,
                     !.history = queries[q].history,
                     !.step = IF kind = "continue" THEN "search" ELSE "launched"]
  <2>1. call' = [call EXCEPT ![r] = c]
    BY <1>4 DEF Continues, QInv, QueriesTypeOK
  <2>2. /\ c.kind = kind /\ c.engine = queries[q].engine
        /\ c.name = engines[queries[q].engine] /\ c.on = q
        /\ c.history = queries[q].history
        /\ c.step = IF kind = "continue" THEN "search" ELSE "launched"
        /\ c.todo = call[r].todo /\ c.found = call[r].found
    BY <1>2 DEF Calls
  <2> HIDE DEF c
  <2>3. call'[r] = c /\ \A x \in Requests \ {r} : call'[x] = call[x]
    BY <2>1, Became
  <2> QED BY <1>1, <1>4, <2>2, <2>3 DEF AskAgain
<1> QED BY <1>1, <1>3, <1>4

\* The rest of a record is as it was.
Same(c, d) ==
  /\ c.kind = d.kind /\ c.engine = d.engine /\ c.name = d.name /\ c.on = d.on

\* Retrieval.
LEMMA SearchFields ==
  ASSUME QInv, NEW r \in Requests, Search(r)
  PROVE  /\ call[r].step = "search" /\ call'[r].step = "lookup"
         /\ \A x \in Requests \ {r} : call'[x] = call[x]
         /\ Same(call'[r], call[r]) /\ call'[r].history = call[r].history
         /\ call'[r].todo \subseteq rows[call[r].name] /\ call'[r].found = call[r].found
<1>1. PICK t \in SUBSET rows[call[r].name] :
        call' = [call EXCEPT ![r].todo = t, ![r].step = "lookup"]
  BY DEF Search
<1> DEFINE c == [call[r] EXCEPT !.todo = t, !.step = "lookup"]
<1>2. call[r] \in Calls /\ call' = [call EXCEPT ![r] = c]
  BY <1>1 DEF QInv, QueriesTypeOK
<1>3. /\ c.step = "lookup" /\ Same(c, call[r]) /\ c.history = call[r].history
      /\ c.todo = t /\ c.found = call[r].found
  BY <1>2 DEF Calls, Same
<1> HIDE DEF c
<1>4. call'[r] = c /\ \A x \in Requests \ {r} : call'[x] = call[x]
  BY <1>2, Became
<1> QED BY <1>3, <1>4 DEF Search

LEMMA LookUpFields ==
  ASSUME QInv, NEW r \in Requests, LookUp(r)
  PROVE  /\ call[r].step = "lookup"
         /\ \A x \in Requests \ {r} : call'[x] = call[x]
         /\ \/ call'[r] = Idle("failed") /\ references' = references
            \/ \E k \in chunks, m \in call[r].todo :
                 /\ k.engine = call[r].engine /\ k.index = m.index
                 /\ references' = references \cup {[by |-> r, ref |-> Refer(k, m)]}
                 /\ call'[r].step = "lookup"
                 /\ Same(call'[r], call[r]) /\ call'[r].history = call[r].history
                 /\ call'[r].todo \subseteq call[r].todo
                 /\ call'[r].found = call[r].found \cup {Refer(k, m)}
<1>1. PICK m \in call[r].todo :
        \/ Ends(r, "failed") /\ UNCHANGED references
        \/ \E k \in {c \in chunks : c.engine = call[r].engine /\ c.index = m.index} :
             /\ references' = references \cup {[by |-> r, ref |-> Refer(k, m)]}
             /\ call' = [call EXCEPT ![r].todo = @ \ {m}, ![r].found = @ \cup {Refer(k, m)}]
  BY DEF LookUp
<1>2. CASE Ends(r, "failed") /\ UNCHANGED references
  <2>1. call'[r] = Idle("failed") /\ \A x \in Requests \ {r} : call'[x] = call[x]
    BY <1>2, Became DEF Ends
  <2> QED BY <1>2, <2>1 DEF LookUp
<1>3. ASSUME NEW k \in chunks, k.engine = call[r].engine, k.index = m.index,
             references' = references \cup {[by |-> r, ref |-> Refer(k, m)]},
             call' = [call EXCEPT ![r].todo = @ \ {m}, ![r].found = @ \cup {Refer(k, m)}]
      PROVE  /\ call'[r].step = "lookup"
             /\ Same(call'[r], call[r]) /\ call'[r].history = call[r].history
             /\ call'[r].todo \subseteq call[r].todo
             /\ call'[r].found = call[r].found \cup {Refer(k, m)}
             /\ \A x \in Requests \ {r} : call'[x] = call[x]
  <2> DEFINE n == Refer(k, m)
             c == [call[r] EXCEPT !.todo = @ \ {m}, !.found = @ \cup {n}]
  <2>1. call[r] \in Calls /\ call' = [call EXCEPT ![r] = c]
    BY <1>3 DEF QInv, QueriesTypeOK
  <2> HIDE DEF n
  <2>2. /\ c.step = call[r].step /\ Same(c, call[r]) /\ c.history = call[r].history
        /\ c.todo \subseteq call[r].todo /\ c.found = call[r].found \cup {n}
    BY <2>1 DEF Calls, Same
  <2> HIDE DEF c
  <2>3. call'[r] = c /\ \A x \in Requests \ {r} : call'[x] = call[x]
    BY <2>1, Became
  <2> QED BY <2>2, <2>3 DEF LookUp, n
<1> QED BY <1>1, <1>2, <1>3 DEF LookUp

\* The model.
LEMMA ShowFields ==
  ASSUME QInv, NEW r \in Requests, ShowReferences(r)
  PROVE  /\ call[r].step = "lookup" /\ call[r].kind = "continue"
         /\ call'[r].step = "generate"
         /\ \A x \in Requests \ {r} : call'[x] = call[x]
         /\ Same(call'[r], call[r])
         /\ call'[r].history = Asking(call[r].history, r, call[r].found)
         /\ call'[r].todo = call[r].todo /\ call'[r].found = call[r].found
         /\ Store(call[r].on, call[r].engine, call'[r].history)
<1> DEFINE h == Asking(call[r].history, r, call[r].found)
           c == [call[r] EXCEPT !.history = h, !.step = "generate"]
<1>1. /\ call[r].step = "lookup" /\ call[r].kind = "continue"
      /\ Store(call[r].on, call[r].engine, h)
      /\ call[r] \in Calls /\ call' = [call EXCEPT ![r] = c]
  BY DEF ShowReferences, Retrieved, Asking, QInv, QueriesTypeOK
<1> HIDE DEF h
<1>2. /\ c.step = "generate" /\ Same(c, call[r]) /\ c.history = h
      /\ c.todo = call[r].todo /\ c.found = call[r].found
  BY <1>1 DEF Calls, Same
<1> HIDE DEF c
<1>3. call'[r] = c /\ \A x \in Requests \ {r} : call'[x] = call[x]
  BY <1>1, Became
<1> QED BY <1>1, <1>2, <1>3 DEF h

LEMMA InsertFields ==
  ASSUME QInv, NEW r \in Requests, InsertAnswer(r)
  PROVE  /\ call[r].step = "generate" /\ call'[r].step = "result"
         /\ \A x \in Requests \ {r} : call'[x] = call[x]
         /\ Same(call'[r], call[r])
         /\ call'[r].history = BeforeLast(call[r].history, Answer(r))
         /\ call'[r].todo = call[r].todo /\ call'[r].found \subseteq call[r].found
         /\ Store(call[r].on, call[r].engine, call'[r].history)
<1> DEFINE h == BeforeLast(call[r].history, Answer(r))
<1>1. PICK used \in SUBSET call[r].found :
        call' = [call EXCEPT ![r].history = h, ![r].found = used, ![r].step = "result"]
  BY DEF InsertAnswer, Fitting
<1>2. /\ call[r].step = "generate" /\ Store(call[r].on, call[r].engine, h)
  BY DEF InsertAnswer
<1> HIDE DEF h
<1> DEFINE c == [call[r] EXCEPT !.history = h, !.found = used, !.step = "result"]
<1>3. call[r] \in Calls /\ call' = [call EXCEPT ![r] = c]
  BY <1>1 DEF QInv, QueriesTypeOK
<1>4. /\ c.step = "result" /\ Same(c, call[r]) /\ c.history = h
      /\ c.todo = call[r].todo /\ c.found = used
  BY <1>3 DEF Calls, Same
<1> HIDE DEF c
<1>5. call'[r] = c /\ \A x \in Requests \ {r} : call'[x] = call[x]
  BY <1>3, Became
<1> QED BY <1>2, <1>4, <1>5 DEF h

\* The result and the query.
LEMMA ResultFields ==
  ASSUME QInv, NEW r \in Requests, SaveResult(r)
  PROVE  /\ \/ call[r].step = "result"
            \/ call[r].step = "lookup" /\ call[r].kind = "query"
         /\ call'[r].step = "create"
         /\ \A x \in Requests \ {r} : call'[x] = call[x]
         /\ Same(call'[r], call[r])
         /\ call'[r].todo = call[r].todo /\ call'[r].found \subseteq call[r].found
         /\ results' = results \cup
              {[by |-> r, engine |-> call[r].engine, refs |-> call'[r].found]}
<1>1. PICK used \in SUBSET call[r].found :
        /\ \/ call[r].step = "result"
           \/ call[r].step = "lookup" /\ call[r].kind = "query"
        /\ results' = results \cup {[by |-> r, engine |-> call[r].engine, refs |-> used]}
        /\ call' = [call EXCEPT ![r].found = used, ![r].step = "create"]
  BY DEF SaveResult, Fitting, Retrieved
<1> DEFINE c == [call[r] EXCEPT !.found = used, !.step = "create"]
<1>2. call[r] \in Calls /\ call' = [call EXCEPT ![r] = c]
  BY <1>1 DEF QInv, QueriesTypeOK
<1>3. /\ c.step = "create" /\ Same(c, call[r])
      /\ c.todo = call[r].todo /\ c.found = used
  BY <1>2 DEF Calls, Same
<1> HIDE DEF c
<1>4. call'[r] = c /\ \A x \in Requests \ {r} : call'[x] = call[x]
  BY <1>2, Became
<1> QED BY <1>1, <1>3, <1>4

LEMMA CreateFields ==
  ASSUME QInv, NEW r \in Requests, CreateQuery(r)
  PROVE  /\ call[r].step = "create" /\ call'[r].step = "fill"
         /\ \A x \in Requests \ {r} : call'[x] = call[x]
         /\ Same(call'[r], call[r])
         /\ call'[r].todo = call[r].todo /\ call'[r].found = call[r].found
         /\ Store(r, call[r].engine, <<>>)
<1> DEFINE c == [call[r] EXCEPT !.history = <<>>, !.step = "fill"]
<1>1. call[r] \in Calls /\ call' = [call EXCEPT ![r] = c]
  BY DEF CreateQuery, QInv, QueriesTypeOK
<1>2. /\ c.step = "fill" /\ Same(c, call[r])
      /\ c.todo = call[r].todo /\ c.found = call[r].found
  BY <1>1 DEF Calls, Same
<1> HIDE DEF c
<1>3. call'[r] = c /\ \A x \in Requests \ {r} : call'[x] = call[x]
  BY <1>1, Became
<1> QED BY <1>2, <1>3 DEF CreateQuery

LEMMA FillFields ==
  ASSUME QInv, NEW r \in Requests, FillQuery(r)
  PROVE  /\ call[r].step = "fill"
         /\ \A x \in Requests \ {r} : call'[x] = call[x]
         /\ \/ /\ call'[r].step = "launched" /\ Same(call'[r], call[r])
               /\ call'[r].todo = call[r].todo /\ call'[r].found = call[r].found
               /\ Store(r, call[r].engine, Prompt(r))
            \/ /\ call'[r] = Idle("done")
               /\ Store(r, call[r].engine,
                        Prompt(r) \o Answer(r) \o Shown(r, call[r].found))
<1>1. call[r] \in Calls
  BY DEF QInv, QueriesTypeOK
<1>2. CASE call[r].kind = "batch"
  <2> DEFINE c == [call[r] EXCEPT !.step = "launched"]
  <2>1. Store(r, call[r].engine, Prompt(r)) /\ call' = [call EXCEPT ![r] = c]
    BY <1>1, <1>2 DEF FillQuery, Step, QInv, QueriesTypeOK
  <2>2. /\ c.step = "launched" /\ Same(c, call[r])
        /\ c.todo = call[r].todo /\ c.found = call[r].found
    BY <1>1 DEF Calls, Same
  <2> HIDE DEF c
  <2>3. call'[r] = c /\ \A x \in Requests \ {r} : call'[x] = call[x]
    BY <2>1, Became
  <2> QED BY <2>1, <2>2, <2>3 DEF FillQuery
<1>3. CASE call[r].kind # "batch"
  <2>1. /\ Ends(r, "done")
        /\ Store(r, call[r].engine, Prompt(r) \o Answer(r) \o Shown(r, call[r].found))
    BY <1>3 DEF FillQuery
  <2>2. call'[r] = Idle("done") /\ \A x \in Requests \ {r} : call'[x] = call[x]
    BY <2>1, Became DEF Ends
  <2> QED BY <2>1, <2>2 DEF FillQuery
<1> QED BY <1>2, <1>3

\* The end without an answer.
LEMMA FailFields ==
  ASSUME QInv, NEW r \in Requests, RunBatch(r) \/ Raise(r)
  PROVE  /\ call'[r] = Idle("failed")
         /\ \A x \in Requests \ {r} : call'[x] = call[x]
         /\ call[r].step \notin {"ask", "done", "failed"}
         /\ UNCHANGED <<vars, queries, references, results, edit, early>>
BY Became DEF RunBatch, Raise, Ends
-----------------------------------------------------------------------------
(* Results and their references.  Where no engine is renamed, one that has   *)
(* been deleted does not come back, so that a request that holds references  *)
(* of it can save a result, but not one that anybody reads.                  *)

\* The build has created its engine, or died at it.
Past(e) == pc[e] \notin {"start", "refused", "named"}

\* It exists, and no deletion has reached its references.
Whole(e) == Live(e) /\ ~BeingRemoved(e)

\* References of one request, on one engine, are saved unless it is deleted.
Kept(refs, r, e) ==
  \A f \in refs : /\ f.engine = e /\ Past(e)
                  /\ Whole(e) => [by |-> r, ref |-> f] \in references

NoRename == \A c \in Clients : client[c].step # "rename"

ResultInv ==
  /\ NoRename
  /\ \A c \in chunks : Past(c.engine)
  /\ \A r \in Requests : /\ Kept(call[r].found, r, call[r].engine)
                         /\ call[r].step = "ask" => call[r].found = {}
  /\ \A x \in results : Kept(x.refs, x.by, x.engine)

\* A chunk is of an engine created, which is not created again.
LEMMA EnginesStayGone ==
  ASSUME TypeOK, ~MayRename, NoRename, [Next]_vars
  PROVE  /\ NoRename'
         /\ \A e \in Builders : Past(e) => Past(e)' /\ (Live(e)' => Live(e))
         /\ \A c \in chunks' : c \in chunks \/ (c.engine \in Builders /\ Past(c.engine)')
<1>1. ASSUME NEW b \in Builders, CreateEngine(b)
      PROVE  \A e \in Builders : Past(e) => Past(e)' /\ (Live(e)' => Live(e))
  BY <1>1 DEF CreateEngine, Goto, Past, Live, TypeOK
<1>2. ASSUME NEW b \in Builders, FailEngine(b)
      PROVE  \A e \in Builders : Past(e) => Past(e)' /\ (Live(e)' => Live(e))
  BY <1>2 DEF FailEngine, DropEngine, Goto, Past, Live, TypeOK
<1>3. ASSUME NEW b \in Builders, SaveChunk(b) \/ SaveLastChunk(b)
      PROVE  /\ \A e \in Builders : Past(e) => Past(e)' /\ (Live(e)' => Live(e))
             /\ \A c \in chunks' : c \in chunks \/ (c.engine \in Builders /\ Past(c.engine)')
  BY <1>3 DEF SaveChunk, SaveLastChunk, NewChunk, Goto, Past, Live, TypeOK
<1>4. ASSUME NEW b \in Builders,
             \/ CheckName(b) \/ Download(b) \/ SkipFile(b) \/ IndexFile(b) \/ LoseAnswer(b)
             \/ SaveDocument(b) \/ Finish(b) \/ FailDocuments(b) \/ FailChunks(b)
             \/ FailReferences(b) \/ FailResults(b) \/ StepFails(b) \/ PodDies(b)
      PROVE  \A e \in Builders : Past(e) => Past(e)' /\ (Live(e)' => Live(e))
  BY <1>4 DEF CheckName, Download, SkipFile, IndexFile, LoseAnswer, SaveDocument, Finish,
              FailDocuments, FailChunks, FailReferences, FailResults, StepFails, PodDies,
              Goto, Past, Live, TypeOK
<1>5. ASSUME NEW b \in Builders, Build(b) \/ StepFails(b) \/ PodDies(b)
      PROVE  NoRename' /\ \/ SaveChunk(b) \/ SaveLastChunk(b)
                          \/ chunks' \subseteq chunks
  BY <1>5 DEF Build, CheckName, CreateEngine, Download, SkipFile, IndexFile, LoseAnswer,
              SaveDocument, SaveChunk, SaveLastChunk, Finish, FailDocuments, FailChunks,
              DropChunks, FailReferences, FailResults, FailEngine, StepFails, PodDies,
              NoRename
<1>6. ASSUME NEW c \in Clients, Serve(c)
      PROVE  /\ NoRename'
             /\ \A e \in Builders : Past(e) => Past(e)' /\ (Live(e)' => Live(e))
             /\ chunks' \subseteq chunks
  <2>1. NoRename'
    <3>1. \E x : x.step # "rename" /\ client' = [client EXCEPT ![c] = x]
      <4>1. CASE FindEngine(c)
        <5>1. PICK e \in Builders :
                client' = [client EXCEPT ![c] =
                  [step |-> "drop-docs", engine |-> e, name |-> NoEngine]]
          BY <4>1 DEF FindEngine
        <5> QED BY <5>1
      <4>2. CASE DeleteDocuments(c)
        <5>1. client' = [client EXCEPT ![c] = [client[c] EXCEPT !.step = "drop-chunks"]]
              /\ [client[c] EXCEPT !.step = "drop-chunks"].step # "rename"
          BY <4>2 DEF DeleteDocuments, Request, TypeOK, NoRequest
        <5> QED BY <5>1
      <4>3. CASE DeleteChunks(c)
        <5>1. client' = [client EXCEPT ![c] = [client[c] EXCEPT !.step = "drop-references"]]
              /\ [client[c] EXCEPT !.step = "drop-references"].step # "rename"
          BY <4>3 DEF DeleteChunks, Request, TypeOK, NoRequest
        <5> QED BY <5>1
      <4>5. CASE DeleteReferences(c)
        <5>1. client' = [client EXCEPT ![c] = [client[c] EXCEPT !.step = "drop-results"]]
              /\ [client[c] EXCEPT !.step = "drop-results"].step # "rename"
          BY <4>5 DEF DeleteReferences, Request, TypeOK, NoRequest
        <5> QED BY <5>1
      <4>6. CASE DeleteResults(c)
        <5>1. client' = [client EXCEPT ![c] = [client[c] EXCEPT !.step = "drop-engine"]]
              /\ [client[c] EXCEPT !.step = "drop-engine"].step # "rename"
          BY <4>6 DEF DeleteResults, Request, TypeOK, NoRequest
        <5> QED BY <5>1
      <4>4. CASE DeleteEngine(c) \/ UpdateEngine(c)
        BY <4>4 DEF DeleteEngine, UpdateEngine, Done, NoRequest
      <4> QED BY <1>6, <4>1, <4>2, <4>3, <4>4, <4>5, <4>6 DEF Serve
    <3> QED BY <3>1 DEF NoRename, TypeOK
  <2>2. ~UpdateEngine(c)
    BY DEF UpdateEngine, NoRename
  <2>3. chunks' \subseteq chunks /\ UNCHANGED pc
    BY <1>6 DEF Serve, FindEngine, DeleteDocuments, DeleteChunks, DropChunks,
                DeleteReferences, DeleteResults, DeleteEngine, UpdateEngine, build
  <2>4. \A e \in Builders : Live(e)' => Live(e)
    BY <1>6, <2>2 DEF Serve, FindEngine, DeleteDocuments, DeleteChunks, DeleteReferences,
                      DeleteResults, DeleteEngine, DropEngine, Live, TypeOK
  <2> QED BY <2>1, <2>3, <2>4 DEF Past
<1>7. CASE UNCHANGED vars
  BY <1>7 DEF vars, NoRename, Past, Live
<1>8. ASSUME NEW b \in Builders, Build(b) \/ StepFails(b) \/ PodDies(b)
      PROVE  /\ \A e \in Builders : Past(e) => Past(e)' /\ (Live(e)' => Live(e))
             /\ \A c \in chunks' : c \in chunks \/ (c.engine \in Builders /\ Past(c.engine)')
  BY <1>1, <1>2, <1>3, <1>4, <1>5, <1>8 DEF Build
<1> QED BY <1>5, <1>6, <1>7, <1>8 DEF Next

\* An engine being removed is so until it is gone.
LEMMA RemovalGoesOn ==
  ASSUME TypeOK, ~MayRename, NoRename, [Next]_vars,
         NEW e \in Builders, Past(e), Whole(e)'
  PROVE  Whole(e)
<1>1. Live(e)
  BY EnginesStayGone DEF Whole
<1>2. SUFFICES ASSUME BeingRemoved(e) PROVE ~Live(e)' \/ BeingRemoved(e)'
  BY <1>1 DEF Whole
<1>3. ASSUME NEW b \in Builders, Build(b) \/ StepFails(b) \/ PodDies(b)
      PROVE  ~Live(e)' \/ BeingRemoved(e)'
  <2>1. /\ client' = client
        /\ pc[e] \in {"failing-results", "failing-engine", "dead"} =>
             pc'[e] \in {"failing-results", "failing-engine", "dead"} \/ ~Live(e)'
    BY <1>3
    DEF TypeOK, Build, CheckName, CreateEngine, Download, SkipFile, IndexFile, LoseAnswer,
        SaveDocument, SaveChunk, SaveLastChunk, Finish, FailDocuments, FailChunks,
        FailReferences, FailResults, FailEngine, DropEngine, StepFails, PodDies, Goto,
        MoreFiles, Live
  <2> QED BY <1>2, <2>1 DEF BeingRemoved
<1>4. ASSUME NEW c \in Clients, Serve(c) PROVE ~Live(e)' \/ BeingRemoved(e)'
  <2>1. /\ pc' = pc /\ \A x \in Clients \ {c} : client'[x] = client[x]
    BY <1>4 DEF Serve, FindEngine, DeleteDocuments, DeleteChunks, DeleteReferences,
                DeleteResults, DeleteEngine, UpdateEngine, Request, Done, build, TypeOK
  <2>2. CASE client[c].engine = e /\ client[c].step = "drop-results"
    <3>1. DeleteResults(c)
      BY <1>4, <2>2 DEF Serve, FindEngine, DeleteDocuments, DeleteChunks,
                        DeleteReferences, DeleteEngine, UpdateEngine
    <3>2. client'[c].engine = e /\ client'[c].step = "drop-engine"
      BY <2>2, <3>1 DEF DeleteResults, Request, TypeOK, NoRequest
    <3> QED BY <3>2 DEF BeingRemoved
  <2>3. CASE client[c].engine = e /\ client[c].step = "drop-engine"
    <3>1. DeleteEngine(c)
      BY <1>4, <2>3 DEF Serve, FindEngine, DeleteDocuments, DeleteChunks,
                        DeleteReferences, DeleteResults, UpdateEngine
    <3> QED BY <2>3, <3>1 DEF DeleteEngine, DropEngine, Live, TypeOK
  <2> QED BY <1>2, <2>1, <2>2, <2>3 DEF BeingRemoved
<1>5. CASE UNCHANGED vars
  BY <1>2, <1>5 DEF BeingRemoved, vars
<1> QED BY <1>3, <1>4, <1>5 DEF Next

\* What a step of a request does to what it holds, and to the results.
LEMMA RequestHolds ==
  ASSUME QInv, ResultInv, NEW r \in Requests, Serving(r)
  PROVE  /\ \A x \in Requests \ {r} : call'[x] = call[x]
         /\ call'[r].step # "ask"
         /\ \/ call'[r].found = {}
            \/ call'[r].found \subseteq call[r].found /\ call'[r].engine = call[r].engine
            \/ \E k \in chunks, m \in call[r].todo :
                 /\ k.engine = call[r].engine /\ call'[r].engine = call[r].engine
                 /\ call'[r].found = call[r].found \cup {Refer(k, m)}
                 /\ [by |-> r, ref |-> Refer(k, m)] \in references'
         /\ references \subseteq references'
         /\ \A x \in results' : \/ x \in results
                                \/ /\ x.by = r /\ x.engine = call[r].engine
                                   /\ x.refs \subseteq call[r].found
<1>1. CASE Ask(r) \/ AskAgain(r)
  <2>1. call[r].found = {} /\ UNCHANGED <<references, results>>
    BY <1>1 DEF Ask, AskAgain, ResultInv
  <2>2. CASE Ask(r)
    BY <2>1, <2>2, AskFields
  <2>3. CASE AskAgain(r)
    <3>1. Idle("failed").found = {} /\ Idle("failed").step = "failed"
      BY DEF Idle
    <3>2. call'[r].found = {} /\ call'[r].step # "ask"
      BY <2>1, <2>3, <3>1, AskAgainFields
    <3> QED BY <2>1, <2>3, <3>2, AskAgainFields
  <2> QED BY <1>1, <2>2, <2>3
<1>2. CASE Search(r) \/ ShowReferences(r) \/ InsertAnswer(r)
  <2>1. UNCHANGED <<references, results>>
    BY <1>2 DEF Search, ShowReferences, InsertAnswer
  <2> QED BY <1>2, <2>1, SearchFields, ShowFields, InsertFields DEF Same
<1>3. CASE LookUp(r)
  <2>1. UNCHANGED results
    BY <1>3 DEF LookUp
  <2> QED BY <1>3, <2>1, LookUpFields DEF Same, Idle
<1>4. CASE SaveResult(r)
  <2>1. UNCHANGED references
    BY <1>4 DEF SaveResult
  <2> QED BY <1>4, <2>1, ResultFields DEF Same
<1>5. CASE CreateQuery(r) \/ FillQuery(r)
  <2>1. UNCHANGED <<references, results>>
    BY <1>5 DEF CreateQuery, FillQuery
  <2> QED BY <1>5, <2>1, CreateFields, FillFields DEF Same, Idle
<1>6. CASE RunBatch(r) \/ Raise(r)
  BY <1>6, FailFields DEF Idle
<1> QED BY <1>1, <1>2, <1>3, <1>4, <1>5, <1>6 DEF Serving

\* A step of a request, its batch job included, keeps what results rely on.
LEMMA ServingKeepsResults ==
  ASSUME QInv, ResultInv, NEW r \in Requests, Serving(r)
  PROVE  ResultInv'
<1>1. UNCHANGED vars
  BY DEF Serving, Ask, AskAgain, Search, LookUp, ShowReferences, InsertAnswer,
         SaveResult, CreateQuery, FillQuery, RunBatch, Raise
<1>2. /\ \A x \in Requests \ {r} : call'[x] = call[x]
      /\ call'[r].step # "ask"
      /\ \/ call'[r].found = {}
         \/ call'[r].found \subseteq call[r].found /\ call'[r].engine = call[r].engine
         \/ \E k \in chunks, m \in call[r].todo :
              /\ k.engine = call[r].engine /\ call'[r].engine = call[r].engine
              /\ call'[r].found = call[r].found \cup {Refer(k, m)}
              /\ [by |-> r, ref |-> Refer(k, m)] \in references'
      /\ references \subseteq references'
      /\ \A x \in results' : \/ x \in results
                             \/ /\ x.by = r /\ x.engine = call[r].engine
                                /\ x.refs \subseteq call[r].found
  BY RequestHolds
<1> DEFINE KeptAfter(refs, x, e) ==
             \A f \in refs : /\ f.engine = e /\ Past(e)
                             /\ Whole(e) => [by |-> x, ref |-> f] \in references'
<1>3. \A refs, x, e : Kept(refs, x, e) => \A less \in SUBSET refs : KeptAfter(less, x, e)
  BY <1>2 DEF Kept
<1>4. NoRename' /\ \A c \in chunks' : Past(c.engine)'
  BY <1>1 DEF ResultInv, NoRename, Past, vars
<1>5. \A x \in results' : KeptAfter(x.refs, x.by, x.engine)
  <2> SUFFICES ASSUME NEW x \in results' PROVE KeptAfter(x.refs, x.by, x.engine)
    OBVIOUS
  <2>1. CASE x \in results
    <3>1. Kept(x.refs, x.by, x.engine)
      BY <2>1 DEF ResultInv
    <3> HIDE DEF KeptAfter
    <3> QED BY <1>3, <3>1
  <2>2. CASE x.by = r /\ x.engine = call[r].engine /\ x.refs \subseteq call[r].found
    <3>1. Kept(call[r].found, r, call[r].engine)
      BY DEF ResultInv
    <3> HIDE DEF KeptAfter
    <3> QED BY <1>3, <2>2, <3>1
  <2> QED BY <1>2, <2>1, <2>2
<1>6. KeptAfter(call'[r].found, r, call'[r].engine)
  <2>1. Kept(call[r].found, r, call[r].engine)
    BY DEF ResultInv
  <2>2. CASE call'[r].found = {}
    BY <2>2
  <2>3. CASE call'[r].found \subseteq call[r].found /\ call'[r].engine = call[r].engine
    <3> HIDE DEF KeptAfter
    <3> QED BY <1>3, <2>1, <2>3
  <2>4. ASSUME NEW k \in chunks, NEW m \in call[r].todo,
               k.engine = call[r].engine, call'[r].engine = call[r].engine,
               call'[r].found = call[r].found \cup {Refer(k, m)},
               [by |-> r, ref |-> Refer(k, m)] \in references'
        PROVE  KeptAfter(call'[r].found, r, call'[r].engine)
    <3>1. Refer(k, m).engine = call[r].engine
      BY <2>4 DEF Refer
    <3>2. Past(call[r].engine)
      BY <2>4 DEF ResultInv
    <3>3. KeptAfter(call[r].found, r, call[r].engine)
      <4> HIDE DEF KeptAfter
      <4> QED BY <1>3, <2>1
    <3> QED BY <2>4, <3>1, <3>2, <3>3
  <2> QED BY <1>2, <2>2, <2>3, <2>4
<1>7. \A x \in Requests : /\ KeptAfter(call'[x].found, x, call'[x].engine)
                          /\ call'[x].step = "ask" => call'[x].found = {}
  <2> SUFFICES ASSUME NEW x \in Requests, x # r
               PROVE  /\ KeptAfter(call'[x].found, x, call'[x].engine)
                      /\ call'[x].step = "ask" => call'[x].found = {}
    BY <1>2, <1>6
  <2>1. /\ call'[x] = call[x] /\ Kept(call[x].found, x, call[x].engine)
        /\ call[x].step = "ask" => call[x].found = {}
    BY <1>2 DEF ResultInv
  <2> HIDE DEF KeptAfter
  <2> QED BY <1>3, <2>1
<1>8. \A e : Whole(e)' <=> Whole(e)
  BY <1>1 DEF Whole, Live, BeingRemoved, vars
<1> QED BY <1>1, <1>4, <1>5, <1>7, <1>8 DEF ResultInv, Kept, Past, vars

\* Deleting an engine takes its references, its results and is for good.
LEMMA EngineKeepsResults ==
  ASSUME TypeOK, QInv, ResultInv, ~MayRename, EngineStep
  PROVE  ResultInv'
<1> DEFINE unreferred == {e \in Builders :
              \/ FailReferences(e)
              \/ \E c \in Clients : DeleteReferences(c) /\ client[c].engine = e}
<1>1. /\ [Next]_vars /\ UNCHANGED call
      /\ references' = {x \in references : x.ref.engine \notin unreferred}
      /\ results' \subseteq results
  BY DEF EngineStep
<1>0. ASSUME NEW e \in unreferred PROVE BeingRemoved(e)'
  <2>1. CASE FailReferences(e)
    <3>1. pc'[e] = "failing-results"
      BY <2>1 DEF FailReferences, Goto, TypeOK
    <3> QED BY <3>1 DEF BeingRemoved
  <2>2. ASSUME NEW c \in Clients, DeleteReferences(c), client[c].engine = e
        PROVE  BeingRemoved(e)'
    <3>1. client'[c].step = "drop-results" /\ client'[c].engine = e
      BY <2>2 DEF DeleteReferences, Request, TypeOK, NoRequest
    <3> QED BY <3>1 DEF BeingRemoved
  <2> QED BY <2>1, <2>2
<1>2. /\ NoRename'
      /\ \A e \in Builders : Past(e) => Past(e)' /\ (Live(e)' => Live(e))
      /\ \A c \in chunks' : c \in chunks \/ (c.engine \in Builders /\ Past(c.engine)')
  BY <1>1, EnginesStayGone DEF ResultInv
<1>3. \A c \in chunks' : Past(c.engine)'
  BY <1>2 DEF ResultInv, TypeOK, Chunk
<1>4. ASSUME NEW refs \in SUBSET Reference, NEW r, NEW e, Kept(refs, r, e)
      PROVE  Kept(refs, r, e)'
  <2> SUFFICES ASSUME NEW f \in refs
               PROVE /\ f.engine = e /\ Past(e)'
                     /\ Whole(e)' => [by |-> r, ref |-> f] \in references'
    BY DEF Kept
  <2>1. f.engine = e /\ e \in Builders /\ Past(e)
    BY <1>4 DEF Kept, Reference
  <2>2. ASSUME Whole(e)' PROVE [by |-> r, ref |-> f] \in references'
    <3>1. Whole(e)
      BY <1>1, <2>1, <2>2, RemovalGoesOn DEF ResultInv
    <3>3. e \notin unreferred
      BY <1>0, <2>2 DEF Whole
    <3>2. [by |-> r, ref |-> f] \in references
      BY <1>4, <3>1 DEF Kept
    <3> HIDE DEF unreferred
    <3> QED BY <1>1, <2>1, <3>2, <3>3
  <2> QED BY <1>2, <2>1, <2>2
<1>5. \A r \in Requests : call[r].found \in SUBSET Reference
  BY DEF QInv, QueriesTypeOK, Calls
<1>6. \A x \in results : x.refs \in SUBSET Reference
  BY DEF QInv, QueriesTypeOK
<1>7. \A r \in Requests : Kept(call[r].found, r, call[r].engine)'
  BY <1>1, <1>4, <1>5 DEF ResultInv
<1>8. \A x \in results' : Kept(x.refs, x.by, x.engine)'
  BY <1>1, <1>4, <1>6 DEF ResultInv
<1> QED BY <1>1, <1>2, <1>3, <1>7, <1>8 DEF ResultInv

\* Where no engine is renamed, every reference of a result can be read for as
\* long as the engine exists and is not being removed, whatever is built, deleted
\* and asked meanwhile.
THEOREM ResultsSound == QuerySpec => []ResultsResolve
<1>1. QueryInit => ResultInv
  BY DEF QueryInit, Init, InitQueries, Idle, NoRequest, ResultInv, NoRename, Kept
<1>2. ~MayRename /\ TypeOK /\ QInv /\ ResultInv /\ [QueryNext]_allVars => ResultInv'
  <2> SUFFICES ASSUME ~MayRename, TypeOK, QInv, ResultInv, [QueryNext]_allVars
               PROVE  ResultInv'
    OBVIOUS
  <2>1. ASSUME Editing \/ UNCHANGED allVars PROVE ResultInv'
    <3>1. UNCHANGED <<vars, references, results, call>>
      BY <2>1 DEF Editing, PutReads, PutWrites, DeleteQuery, allVars, queryVars
    <3>2. \A e : Whole(e)' <=> Whole(e)
      BY <3>1 DEF Whole, Live, BeingRemoved, vars
    <3> QED BY <3>1, <3>2 DEF ResultInv, NoRename, Kept, Past, vars
  <2> QED BY <2>1, EngineKeepsResults, ServingKeepsResults DEF QueryNext
<1>3. ResultInv => ResultsResolve
  BY DEF ResultInv, Kept, Whole, ResultsResolve
<1>4. QuerySpec => []TypeOK
  BY QueriesKeepBuilds, TypeCorrect, PTL
<1>5. CASE ~MayRename
  BY <1>1, <1>2, <1>3, <1>4, <1>5, QueryInvariance, PTL DEF QuerySpec
<1>6. CASE MayRename
  <2>1. ResultsResolve
    BY <1>6 DEF ResultsResolve
  <2> QED BY <2>1, PTL
<1> QED BY <1>5, <1>6

-----------------------------------------------------------------------------
(* References and the text that was matched.  Where names are apart, the     *)
(* rows of a name are those of one build: each index has one text, in row    *)
(* and chunk, but for the rows of lost answers.  A row outlives its engine,  *)
(* so it is of the build that its text is claimed, whatever becomes of the   *)
(* engine.                                                                   *)

\* Rows of the build lie below its index base, but for those of the file at
\* hand and those of lost answers.
RowsBelow(b) ==
  \A w \in rows[NameOf[b]] : ~Leftover(b, w.text) =>
    /\ pc[b] \in Between \ {"indexed"} => w.index < base[b]
    /\ pc[b] \in {"indexed", "described"} =>
         w.index < base[b] \/ \E k \in 1 .. Size[Local(b)] : w = UnsavedRow(b, k)

SameText(b) ==
  \A w \in rows[NameOf[b]], c \in chunks :
    c.engine = b /\ c.index = w.index => c.text = w.text \/ Leftover(b, w.text)

TextInv == /\ \A b \in Builders : RowsBelow(b) /\ SameText(b)
           /\ \A e \in Builders : engines[e] \in {NameOf[e], NoEngine}
           /\ NoRename

\* What is reported stays reported.
LEMMA BuildReports ==
  ASSUME IInv, [Next]_vars, NEW x \in Builders
  PROVE  failed[x] \subseteq failed'[x]
<1>1. ASSUME NEW b \in Builders, Build(b) \/ StepFails(b) \/ PodDies(b)
      PROVE  failed[x] \subseteq failed'[x]
  BY <1>1
  DEF IInv, TypeOK, Build, CheckName, CreateEngine, Download, SkipFile, IndexFile, LoseAnswer,
      SaveDocument, SaveChunk, SaveLastChunk, Finish, FailDocuments, FailChunks,
      FailReferences, FailResults, FailEngine, StepFails, PodDies
<1>2. ASSUME NEW c \in Clients, Serve(c) PROVE failed' = failed
  BY <1>2 DEF Serve, FindEngine, DeleteDocuments, DeleteChunks, DeleteReferences,
              DeleteResults, DeleteEngine, UpdateEngine, build
<1> QED BY <1>1, <1>2 DEF Next, vars

\* What a step of a build does to the rows and chunks of its own name.
LEMMA TextOwn ==
  ASSUME IInv, AsDownloaded, NEW b \in Builders, RowsBelow(b), SameText(b),
         Build(b) \/ StepFails(b) \/ PodDies(b)
  PROVE  RowsBelow(b)' /\ SameText(b)'
<1>1. /\ base[b] \in Nat /\ saved[b] \in Nat
      /\ \A w \in rows[NameOf[b]] : w.index \in Nat
      /\ \A c \in chunks : c.index \in Nat
      /\ ChunksBelow(b) /\ InLoop(b)
  BY BuildAssumption DEF IInv, TypeOK, Row, Chunk, BuildInv
<1>0. \A t : Leftover(b, t) => Leftover(b, t)'
  BY BuildReports, LeftoverStays DEF Next
<1>2. CASE IndexFile(b)
  <2> DEFINE new == NewRows(b)
  <2>1. /\ pc[b] = "indexing" /\ pc'[b] = "indexed"
        /\ base' = base /\ chunks' = chunks /\ tmp' = tmp /\ pos' = pos
    BY <1>2 DEF IndexFile, MoreFiles, Goto, IInv, TypeOK
  <2>2. rows'[NameOf[b]] = rows[NameOf[b]] \cup new
    BY <1>2, BuildAssumption DEF IndexFile, AddRows, IInv, TypeOK
  <2>3. Local(b)' = Local(b) /\ \A k : UnsavedRow(b, k)' = UnsavedRow(b, k)
    BY <2>1 DEF Local, File, UnsavedRow
  <2>4. \A w \in new : (\E k \in 1 .. Size[Local(b)] : w = UnsavedRow(b, k))
                       /\ w.index >= base[b]
    BY <1>1 DEF UnsavedRow, NewRows
  <2>5. \A c \in chunks : c.engine = b => c.index < base[b]
    BY <1>1, <2>1 DEF ChunksBelow, Between
  <2> HIDE DEF new
  <2>6. RowsBelow(b)'
    BY <1>0, <2>1, <2>2, <2>3, <2>4 DEF RowsBelow, Between
  <2>7. SameText(b)'
    <3> SUFFICES ASSUME NEW w \in rows'[NameOf[b]], NEW c \in chunks,
                        c.engine = b, c.index = w.index
                 PROVE  c.text = w.text \/ Leftover(b, w.text)'
      BY <2>1 DEF SameText
    <3>1. w \notin new
      BY <1>1, <2>4, <2>5
    <3> QED BY <1>0, <2>2, <3>1 DEF SameText
  <2> QED BY <2>6, <2>7
<1>3. CASE SaveChunk(b) \/ SaveLastChunk(b)
  <2>1. /\ pc[b] = "described" /\ rows' = rows /\ chunks' = chunks \cup {NewChunk(b)}
        /\ Size[Local(b)] \in Nat /\ saved[b] < Size[Local(b)]
    BY <1>1, <1>3, FileType DEF SaveChunk, SaveLastChunk, InLoop, Readable, IInv
  <2>2. \A w \in rows[NameOf[b]] : ~Leftover(b, w.text) =>
          w.index < base[b] \/ \E k \in 1 .. Size[Local(b)] : w = UnsavedRow(b, k)
    BY <2>1 DEF RowsBelow
  <2>3. SameText(b)'
    <3>1. ASSUME NEW w \in rows[NameOf[b]], NewChunk(b).index = w.index,
                 ~Leftover(b, w.text)
          PROVE  NewChunk(b).text = w.text
      <4>1. PICK k \in 1 .. Size[Local(b)] : w = UnsavedRow(b, k)
        BY <1>1, <2>2, <3>1 DEF NewChunk
      <4>2. w.index = base[b] + k - 1 /\ w.text = <<Local(b), k>>
        BY <4>1 DEF UnsavedRow
      <4>3. k = saved[b] + 1
        <5>1. w.index = base[b] + saved[b] /\ k \in Nat /\ base[b] \in Nat /\ saved[b] \in Nat
          BY <1>1, <2>1, <3>1 DEF NewChunk
        <5> QED BY <4>2, <5>1
      <4> QED BY <4>2, <4>3 DEF NewChunk
    <3> QED BY <1>0, <2>1, <3>1 DEF SameText
  <2>4. RowsBelow(b)'
    <3>1. CASE SaveChunk(b)
      <4>1. pc' = pc /\ base' = base /\ tmp' = tmp /\ pos' = pos
        BY <3>1 DEF SaveChunk
      <4>2. Local(b)' = Local(b) /\ \A k : UnsavedRow(b, k)' = UnsavedRow(b, k)
        BY <4>1 DEF Local, File, UnsavedRow
      <4> QED BY <1>0, <2>1, <4>1, <4>2 DEF RowsBelow
    <3>2. CASE SaveLastChunk(b)
      <4>1. pc'[b] = "indexing" /\ base'[b] = base[b] + Size[Local(b)]
        BY <3>2 DEF SaveLastChunk, Goto, IInv, TypeOK
      <4>2. \A w \in rows[NameOf[b]] : ~Leftover(b, w.text) => w.index < base[b] + Size[Local(b)]
        <5> SUFFICES ASSUME NEW w \in rows[NameOf[b]], ~Leftover(b, w.text)
                     PROVE  w.index < base[b] + Size[Local(b)]
          OBVIOUS
        <5>1. CASE w.index < base[b]
          BY <1>1, <2>1, <5>1
        <5>2. ASSUME NEW k \in 1 .. Size[Local(b)], w = UnsavedRow(b, k)
              PROVE  w.index < base[b] + Size[Local(b)]
          BY <1>1, <2>1, <5>2 DEF UnsavedRow
        <5> QED BY <2>2, <5>1, <5>2
      <4> QED BY <1>0, <2>1, <4>1, <4>2 DEF RowsBelow
    <3> QED BY <1>3, <3>1, <3>2
  <2> QED BY <2>3, <2>4
<1>4. CASE SaveDocument(b)
  <2>1. /\ pc[b] = "indexed" /\ pc'[b] = "described"
        /\ base' = base /\ tmp' = tmp /\ pos' = pos /\ rows' = rows /\ chunks' = chunks
    BY <1>4 DEF SaveDocument, Goto, IInv, TypeOK
  <2>2. Local(b)' = Local(b) /\ \A k : UnsavedRow(b, k)' = UnsavedRow(b, k)
    BY <2>1 DEF Local, File, UnsavedRow
  <2> QED BY <1>0, <2>1, <2>2 DEF RowsBelow, SameText, Between
<1>6. CASE LoseAnswer(b)
  <2>1. /\ pc[b] = "indexing" /\ pc' = pc /\ base' = base /\ chunks' = chunks
        /\ rows'[NameOf[b]] = rows[NameOf[b]] \cup NewRows(b)
    BY <1>6, BuildAssumption DEF LoseAnswer, MoreFiles, AddRows, IInv, TypeOK
  <2>2. \A w \in rows'[NameOf[b]] : w \in rows[NameOf[b]] \/ Leftover(b, w.text)'
    BY <1>6, <2>1, LostRows
  <2> QED BY <1>0, <2>1, <2>2 DEF RowsBelow, SameText
<1>5. CASE \/ CheckName(b) \/ CreateEngine(b) \/ Download(b) \/ SkipFile(b) \/ Finish(b)
           \/ FailDocuments(b) \/ FailChunks(b) \/ FailReferences(b) \/ FailResults(b)
           \/ FailEngine(b) \/ StepFails(b) \/ PodDies(b)
  <2>1. /\ rows' = rows /\ chunks' \subseteq chunks /\ base' = base
        /\ pc'[b] \in Between \ {"indexed"} => pc[b] \in Between \ {"indexed"}
        /\ pc'[b] \notin {"indexed", "described"}
    BY <1>5 DEF CheckName, CreateEngine, Download, SkipFile, Finish, FailDocuments,
                FailChunks, FailReferences, FailResults, FailEngine, DropChunks, StepFails,
                PodDies, Goto, MoreFiles, Between, IInv, TypeOK
  <2> QED BY <1>0, <2>1 DEF RowsBelow, SameText
<1> QED BY <1>2, <1>3, <1>4, <1>5, <1>6 DEF Build

\* Every step of the builds and clients keeps it, and rows stay.
LEMMA TextKept ==
  ASSUME IInv, AsDownloaded, TextInv, NamesApart, [Next]_vars
  PROVE  TextInv' /\ \A n \in Names : rows[n] \subseteq rows'[n]
<1>1. NameOf \in [Builders -> Names] /\ ~MayRename
  BY BuildAssumption DEF NamesApart
<1>2. NoRename'
  BY <1>1, EnginesStayGone DEF TextInv, IInv
<1>0. \A x \in Builders : \A t : Leftover(x, t) => Leftover(x, t)'
  BY BuildReports, LeftoverStays
<1>3. ASSUME NEW b \in Builders, Build(b) \/ StepFails(b) \/ PodDies(b)
      PROVE  TextInv' /\ \A n \in Names : rows[n] \subseteq rows'[n]
  <2>1. \A n \in Names : rows[n] \subseteq rows'[n]
    <3>1. CASE IndexFile(b) \/ LoseAnswer(b)
      BY <1>1, <3>1 DEF IndexFile, LoseAnswer, AddRows, IInv, TypeOK
    <3>2. CASE ~IndexFile(b) /\ ~LoseAnswer(b)
      BY <1>3, <3>2, BuildStores
    <3> QED BY <3>1, <3>2
  <2>2. ASSUME NEW x \in Builders \ {b} PROVE RowsBelow(x)' /\ SameText(x)'
    <3>1. rows'[NameOf[x]] = rows[NameOf[x]]
      <4>1. NameOf[x] # NameOf[b]
        BY DEF NamesApart
      <4> QED BY <1>1, <1>3, <4>1, BuildStores
    <3>2. /\ pc'[x] = pc[x] /\ pos'[x] = pos[x] /\ base'[x] = base[x] /\ tmp'[x] = tmp[x]
      BY <1>3, BuildPlaces
    <3>3. Local(x)' = Local(x) /\ \A k : UnsavedRow(x, k)' = UnsavedRow(x, k)
      BY <3>2 DEF Local, File, UnsavedRow
    <3>4. \A c \in chunks' : c.engine = x => c \in chunks
      BY <1>3, BuildStores
    <3> QED BY <1>0, <3>1, <3>2, <3>3, <3>4 DEF TextInv, RowsBelow, SameText
  <2>3. RowsBelow(b)' /\ SameText(b)'
    BY <1>3, TextOwn DEF TextInv
  <2>4. engines'[b] \in {NameOf[b], NoEngine}
    BY <1>3 DEF TextInv, Build, CheckName, CreateEngine, Download, SkipFile, IndexFile,
                LoseAnswer, SaveDocument, SaveChunk, SaveLastChunk, Finish, FailDocuments,
                FailChunks, FailReferences, FailResults, FailEngine, DropEngine, StepFails,
                PodDies, IInv, TypeOK
  <2>5. \A e \in Builders : engines'[e] \in {NameOf[e], NoEngine}
    BY <1>3, <2>4, BuildPlaces DEF TextInv
  <2> QED BY <1>2, <2>1, <2>2, <2>3, <2>5 DEF TextInv
<1>4. ASSUME NEW c \in Clients, Serve(c)
      PROVE  TextInv' /\ \A n \in Names : rows[n] \subseteq rows'[n]
  <2>1. UNCHANGED <<rows, build>> /\ chunks' \subseteq chunks
    BY <1>4 DEF Serve, FindEngine, DeleteDocuments, DeleteChunks, DeleteReferences,
                DeleteResults, DeleteEngine, UpdateEngine, DropChunks
  <2>2. \A b \in Builders : RowsBelow(b)' /\ SameText(b)'
    BY <1>0, <2>1 DEF TextInv, RowsBelow, SameText, UnsavedRow, Local, File, build
  <2>3. \A e \in Builders : engines'[e] \in {NameOf[e], NoEngine}
    <3>1. ~UpdateEngine(c)
      BY DEF UpdateEngine, TextInv, NoRename
    <3> QED BY <1>4, <3>1 DEF TextInv, Serve, FindEngine, DeleteDocuments, DeleteChunks,
                              DeleteReferences, DeleteResults, DeleteEngine, DropEngine,
                              IInv, TypeOK
  <2> QED BY <1>2, <2>1, <2>2, <2>3 DEF TextInv
<1>5. CASE UNCHANGED vars
  <2>1. \A b \in Builders : RowsBelow(b)' /\ SameText(b)'
    BY <1>0, <1>5 DEF TextInv, RowsBelow, SameText, UnsavedRow, Local, File, vars
  <2> QED BY <1>2, <1>5, <2>1 DEF TextInv, vars
<1> QED BY <1>3, <1>4, <1>5 DEF Next

\* The rows a request has still to look up are of the engine it asks.
GroundInv ==
  /\ TextInv
  /\ \A r \in Requests :
       /\ call[r].step = "ask" => call[r].todo = {}
       /\ call[r].engine \in Builders =>
            /\ call[r].name = NameOf[call[r].engine]
            /\ call[r].todo \subseteq rows[NameOf[call[r].engine]]
       /\ call[r].engine \notin Builders => call[r].todo = {}
  /\ \A x \in references : x.ref.match = x.ref.text \/ Leftover(x.ref.engine, x.ref.match)

LEMMA ServingGrounded ==
  ASSUME IInv, QInv, GroundInv, NEW r \in Requests, Serving(r)
  PROVE  GroundInv'
<1>1. UNCHANGED vars
  BY DEF Serving, Ask, AskAgain, Search, LookUp, ShowReferences, InsertAnswer,
         SaveResult, CreateQuery, FillQuery, RunBatch, Raise
<1> DEFINE Holds(c) ==
             /\ c.step = "ask" => c.todo = {}
             /\ c.engine \in Builders =>
                  /\ c.name = NameOf[c.engine]
                  /\ c.todo \subseteq rows[NameOf[c.engine]]
             /\ c.engine \notin Builders => c.todo = {}
<1>2. Holds(call[r]) /\ \A e \in Builders : Live(e) => engines[e] = NameOf[e]
  BY DEF GroundInv, TextInv, Live
<1>0. \A e, t : Leftover(e, t)' <=> Leftover(e, t)
  BY <1>1 DEF Leftover, Downloaded, vars
<1>3. TextInv'
  BY <1>0, <1>1 DEF GroundInv, TextInv, RowsBelow, SameText, UnsavedRow, Local, File, NoRename,
              vars
<1>4. \A step \in {"done", "failed"} : Holds(Idle(step))
  BY BuildAssumption DEF Idle
<1>5. CASE Ask(r) \/ AskAgain(r)
  <2>1. call[r].todo = {} /\ UNCHANGED references
    BY <1>2, <1>5 DEF Ask, AskAgain
  <2>2. Holds(call'[r])
    <3>1. CASE Ask(r)
      BY <1>2, <2>1, <3>1, AskFields
    <3>2. CASE AskAgain(r)
      <4>1. CASE call'[r] = Idle("failed")
        BY <1>4, <4>1
      <4>2. CASE call'[r] # Idle("failed")
        <5>1. PICK q \in Requests :
                /\ Exists(q) /\ Live(queries[q].engine)
                /\ call'[r].engine = queries[q].engine
                /\ call'[r].name = engines[queries[q].engine]
                /\ call'[r].step \in {"search", "launched"}
                /\ call'[r].todo = call[r].todo
          BY <3>2, <4>2, AskAgainFields
        <5>2. queries[q].engine \in Builders
          BY <5>1 DEF Exists, QInv, QueriesTypeOK, Query
        <5> QED BY <1>2, <2>1, <5>1, <5>2
      <4> QED BY <4>1, <4>2
    <3> QED BY <1>5, <3>1, <3>2
  <2>3. \A x \in Requests \ {r} : call'[x] = call[x]
    BY <1>5, AskFields, AskAgainFields
  <2> QED BY <1>0, <1>1, <1>3, <2>1, <2>2, <2>3 DEF GroundInv, vars
<1>6. CASE LookUp(r)
  <2>1. CASE call'[r] = Idle("failed") /\ references' = references
    BY <1>0, <1>1, <1>3, <1>4, <1>6, <2>1, LookUpFields DEF GroundInv, vars
  <2>2. ASSUME NEW k \in chunks, NEW m \in call[r].todo,
               k.engine = call[r].engine, k.index = m.index,
               references' = references \cup {[by |-> r, ref |-> Refer(k, m)]},
               call'[r].step = "lookup", Same(call'[r], call[r]),
               call'[r].todo \subseteq call[r].todo
        PROVE  GroundInv'
    <3>1. call[r].engine \in Builders
      BY <1>2, <2>2
    <3>2. k.text = m.text \/ Leftover(call[r].engine, m.text)
      <4>1. m \in rows[NameOf[call[r].engine]] /\ SameText(call[r].engine)
        BY <1>2, <3>1 DEF GroundInv, TextInv
      <4> QED BY <2>2, <4>1 DEF SameText
    <3>3. \/ Refer(k, m).match = Refer(k, m).text
          \/ Leftover(Refer(k, m).engine, Refer(k, m).match)
      BY <2>2, <3>2 DEF Refer
    <3>4. \A x \in references' :
            x.ref.match = x.ref.text \/ Leftover(x.ref.engine, x.ref.match)
      BY <2>2, <3>3 DEF GroundInv
    <3>5. Holds(call'[r])
      BY <1>2, <2>2, <3>1 DEF Same
    <3> QED BY <1>0, <1>1, <1>3, <1>6, <3>4, <3>5, LookUpFields DEF GroundInv, vars
  <2> QED BY <1>6, <2>1, <2>2, LookUpFields
<1>7. CASE Search(r)
  <2>1. /\ call'[r].step = "lookup" /\ Same(call'[r], call[r])
        /\ call'[r].todo \subseteq rows[call[r].name] /\ UNCHANGED references
        /\ \A x \in Requests \ {r} : call'[x] = call[x]
    BY <1>7, SearchFields DEF Search
  <2>2. call[r].engine \in Builders
    BY <1>7 DEF Search, QInv, CallFits
  <2>3. Holds(call'[r])
    BY <1>2, <2>1, <2>2 DEF Same
  <2> QED BY <1>0, <1>1, <1>3, <2>1, <2>3 DEF GroundInv, vars
<1>8. CASE \/ ShowReferences(r) \/ InsertAnswer(r) \/ SaveResult(r) \/ CreateQuery(r)
           \/ FillQuery(r) \/ RunBatch(r) \/ Raise(r)
  <2>1. UNCHANGED references
    BY <1>8 DEF ShowReferences, InsertAnswer, SaveResult, CreateQuery, FillQuery,
                RunBatch, Raise
  <2>2. /\ \A x \in Requests \ {r} : call'[x] = call[x]
        /\ \/ call'[r] \in {Idle("done"), Idle("failed")}
           \/ /\ call'[r].step # "ask" /\ Same(call'[r], call[r])
              /\ call'[r].todo = call[r].todo
    BY <1>8, ShowFields, InsertFields, ResultFields, CreateFields, FillFields, FailFields
  <2>3. Holds(call'[r])
    BY <1>2, <1>4, <2>2 DEF Same
  <2> QED BY <1>0, <1>1, <1>3, <2>1, <2>2, <2>3 DEF GroundInv, vars
<1> QED BY <1>5, <1>6, <1>7, <1>8 DEF Serving

\* Where no two engines share a name, a reference holds the text whose
\* embedding was matched, unless that is of a file reported as not processed.
THEOREM GroundedSound == QuerySpec => []ReferencesGrounded
<1>1. QueryInit => GroundInv
  <2> SUFFICES ASSUME QueryInit PROVE GroundInv
    OBVIOUS
  <2>1. TextInv
    BY BuildAssumption
    DEF QueryInit, Init, TextInv, RowsBelow, SameText, NoRename, NoRequest
  <2> QED BY <2>1, BuildAssumption DEF QueryInit, InitQueries, Idle, GroundInv
<1>2. NamesApart /\ IInv /\ AsDownloaded /\ QInv /\ GroundInv /\ [QueryNext]_allVars
        => GroundInv'
  <2> SUFFICES ASSUME NamesApart, IInv, AsDownloaded, QInv, GroundInv, [QueryNext]_allVars
               PROVE  GroundInv'
    OBVIOUS
  <2>1. CASE EngineStep
    <3>1. UNCHANGED call /\ references' \subseteq references /\ [Next]_vars
      BY <2>1 DEF EngineStep
    <3>2. TextInv' /\ \A n \in Names : rows[n] \subseteq rows'[n]
      BY <3>1, TextKept DEF GroundInv
    <3>3. \A e \in Builders : \A t : Leftover(e, t) => Leftover(e, t)'
      BY <3>1, BuildReports, LeftoverStays
    <3>4. \A x \in references : x.ref.engine \in Builders
      BY DEF QInv, QueriesTypeOK, Reference
    <3> QED BY <3>1, <3>2, <3>3, <3>4, BuildAssumption DEF GroundInv
  <2>2. CASE Editing \/ UNCHANGED allVars
    <3>1. UNCHANGED <<vars, references, call>>
      BY <2>2 DEF Editing, PutReads, PutWrites, DeleteQuery, allVars, queryVars
    <3>0. \A e, t : Leftover(e, t)' <=> Leftover(e, t)
      BY <3>1 DEF Leftover, Downloaded, vars
    <3>2. TextInv'
      BY <3>0, <3>1 DEF GroundInv, TextInv, RowsBelow, SameText, UnsavedRow, Local, File,
                        NoRename, vars
    <3> QED BY <3>0, <3>1, <3>2 DEF GroundInv, vars
  <2> QED BY <2>1, <2>2, ServingGrounded DEF QueryNext
<1>3. GroundInv => ReferencesGrounded
  BY DEF GroundInv, ReferencesGrounded
<1>4. QuerySpec => []IInv /\ []AsDownloaded
  BY QueriesKeepBuilds, Invariance, DownloadedInvariance, PTL
<1>5. CASE NamesApart
  BY <1>1, <1>2, <1>3, <1>4, <1>5, QueryInvariance, PTL DEF QuerySpec
<1>6. CASE ~NamesApart
  <2>1. ReferencesGrounded
    BY <1>6 DEF ReferencesGrounded
  <2> QED BY <2>1, PTL
<1> QED BY <1>5, <1>6

-----------------------------------------------------------------------------
(* The first turn of a query.  It is written once, after the query has been  *)
(* created empty; who reads it between the two is in `early`.  So every copy *)
(* of an answered query that is still to be stored begins with its turn.     *)

Opens(q, h) ==
  Len(h) >= 2 /\ h[1] = Entering("human", q, {}) /\ h[2] = Entering("ai", q, {})

Answered(q) == call[q].step = "done" /\ q \notin early

\* The request has created its query, or ended without.
Made(q) == call[q].step \in {"fill", "launched", "done", "failed"}

\* What a copy of the history of q, read some time ago, is good for.
CopyOpens(q, h) ==
  /\ q \in Requests /\ Made(q)
  /\ call[q].step = "fill" => q \in early
  /\ Answered(q) => Opens(q, h)

StoredOpens(q) ==
  Exists(q) =>
    /\ Made(q)
    /\ call[q].step = "fill" => queries[q].history = <<>> \/ q \in early
    /\ Answered(q) => Opens(q, queries[q].history)

Continuing(r) ==
  \/ call[r].step = "generate"
  \/ call[r].kind = "continue" /\ call[r].step \in {"search", "lookup"}

CarriesOn(r) ==
  Continuing(r) =>
    /\ CopyOpens(call[r].on, call[r].history)
    /\ call[r].step = "generate" /\ Answered(call[r].on) => Len(call[r].history) >= 3

FirstInv ==
  /\ \A q \in Requests : StoredOpens(q)
  /\ \A r \in Requests : CarriesOn(r)
  /\ edit.step = "write" => CopyOpens(edit.query, edit.copy.history)

LEMMA AskingOpens ==
  ASSUME NEW h \in Seq(Entry), NEW q \in Requests, Opens(q, h), NEW r \in Requests,
         NEW refs \in SUBSET Reference
  PROVE  Opens(q, Asking(h, r, refs)) /\ Len(Asking(h, r, refs)) >= 3
<1> DEFINE human == Entering("human", r, {})
           shown == Entering("references", r, refs)
           g == Append(h, human)
<1>1. human \in Entry /\ shown \in Entry
  BY EntryType
<1> HIDE DEF human, shown
<1>2. /\ g \in Seq(Entry) /\ Len(g) = Len(h) + 1
      /\ \A i \in 1 .. Len(h) : g[i] = h[i]
  BY <1>1, Appended
<1>3. Opens(q, g) /\ Len(g) >= 3
  BY <1>2 DEF Opens
<1>4. CASE refs = {}
  <2>1. Asking(h, r, refs) = g
    BY <1>1, <1>4 DEF Asking, Prompt, Shown, human
  <2> QED BY <1>3, <2>1
<1>5. CASE refs # {}
  <2>1. Asking(h, r, refs) = Append(g, shown)
    BY <1>1, <1>5 DEF Asking, Prompt, Shown, human, shown
  <2> HIDE DEF g
  <2>2. /\ Len(Append(g, shown)) = Len(g) + 1
        /\ \A i \in 1 .. Len(g) : Append(g, shown)[i] = g[i]
    BY <1>1, <1>2, Appended
  <2> QED BY <1>2, <1>3, <2>1, <2>2 DEF Opens
<1> QED BY <1>4, <1>5

LEMMA InsertOpens ==
  ASSUME NEW s \in Seq(Entry), NEW q \in Requests, Opens(q, s), Len(s) >= 3,
         NEW r \in Requests
  PROVE  Opens(q, BeforeLast(s, Answer(r)))
<1>1. Entering("ai", r, {}) \in Entry
  BY EntryType
<1>2. Len(s) - 1 \in Nat /\ Len(s) = (Len(s) - 1) + 1 /\ Len(s) - 1 >= 2
  OBVIOUS
<1>3. /\ Len(BeforeLast(s, Answer(r))) = (Len(s) - 1) + 2
      /\ \A i \in 1 .. Len(s) - 1 : BeforeLast(s, Answer(r))[i] = s[i]
  BY <1>1, <1>2, InsertedBeforeLast DEF Answer
<1> QED BY <1>2, <1>3 DEF Opens

LEMMA FirstOpens ==
  ASSUME NEW r \in Requests, NEW refs \in SUBSET Reference
  PROVE  Opens(r, Prompt(r) \o Answer(r) \o Shown(r, refs))
<1> DEFINE human == Entering("human", r, {})
           ai == Entering("ai", r, {})
           shown == Entering("references", r, refs)
           t == <<human, ai>>
<1>1. human \in Entry /\ ai \in Entry /\ shown \in Entry
  BY EntryType
<1>2. Prompt(r) \o Answer(r) \o Shown(r, refs) = t \o (IF refs = {} THEN <<>> ELSE <<shown>>)
  BY DEF Prompt, Answer, Shown
<1>3. t \in Seq(Entry) /\ Len(t) = 2 /\ t[1] = human /\ t[2] = ai
  BY <1>1
<1>4. CASE refs = {}
  <2>1. Prompt(r) \o Answer(r) \o Shown(r, refs) = t
    BY <1>2, <1>3, <1>4
  <2> HIDE DEF t
  <2> QED BY <1>3, <2>1 DEF Opens
<1>5. CASE refs # {}
  <2> HIDE DEF human, ai, shown, t
  <2>1. Prompt(r) \o Answer(r) \o Shown(r, refs) = Append(t, shown)
    BY <1>1, <1>2, <1>3, <1>5
  <2>2. /\ Len(Append(t, shown)) = 3 /\ Append(t, shown)[1] = t[1]
        /\ Append(t, shown)[2] = t[2]
    <3>1. /\ Len(Append(t, shown)) = Len(t) + 1
          /\ \A i \in 1 .. Len(t) : Append(t, shown)[i] = t[i]
      BY <1>1, <1>3, Appended
    <3> QED BY <1>3, <3>1
  <2> QED BY <1>3, <2>1, <2>2 DEF Opens, human, ai
<1> QED BY <1>4, <1>5

\* What a step of a request does to those who hold copies.
LEMMA Progress ==
  ASSUME QInv, NEW r \in Requests, Serving(r)
  PROVE  /\ \A x \in Requests \ {r} : call'[x] = call[x]
         /\ call'[r].step = "fill" => CreateQuery(r)
         /\ call'[r].step = "done" => FillQuery(r)
         /\ Made(r) => Made(r)'
         /\ early \subseteq early' /\ edit' = edit
<1>1. early \subseteq early' /\ edit' = edit
  BY DEF Serving, Ask, AskAgain, Search, LookUp, ShowReferences, InsertAnswer,
         SaveResult, CreateQuery, FillQuery, RunBatch, Raise
<1>2. \A step : Idle(step).step = step
  BY DEF Idle
<1>3. CASE Ask(r)
  BY <1>1, <1>3, AskFields DEF Made
<1>4. CASE AskAgain(r)
  BY <1>1, <1>2, <1>4, AskAgainFields DEF Made
<1>5. CASE Search(r) \/ LookUp(r)
  BY <1>1, <1>2, <1>5, SearchFields, LookUpFields DEF Made
<1>6. CASE ShowReferences(r) \/ InsertAnswer(r) \/ SaveResult(r)
  BY <1>1, <1>6, ShowFields, InsertFields, ResultFields DEF Made
<1>7. CASE CreateQuery(r) \/ FillQuery(r)
  BY <1>1, <1>2, <1>7, CreateFields, FillFields DEF Made
<1>8. CASE RunBatch(r) \/ Raise(r)
  BY <1>1, <1>2, <1>8, FailFields DEF Made
<1> QED BY <1>3, <1>4, <1>5, <1>6, <1>7, <1>8 DEF Serving

LEMMA CopyKept ==
  ASSUME QInv, NEW r \in Requests, Serving(r), NEW q, NEW h, CopyOpens(q, h)
  PROVE  CopyOpens(q, h)' /\ (Answered(q)' => Answered(q))
<1>1. /\ \A x \in Requests \ {r} : call'[x] = call[x]
      /\ call'[r].step = "fill" => call[r].step = "create"
      /\ call'[r].step = "done" => call[r].step = "fill"
      /\ Made(r) => Made(r)'
      /\ early \subseteq early'
  BY Progress DEF CreateQuery, FillQuery
<1> QED BY <1>1 DEF CopyOpens, Made, Answered

\* Copies held by the others and by the PUT stay what they are.
LEMMA OthersFirst ==
  ASSUME QInv, FirstInv, NEW r \in Requests, Serving(r)
  PROVE  /\ \A x \in Requests \ {r} : CarriesOn(x)'
         /\ edit'.step = "write" => CopyOpens(edit.query, edit.copy.history)'
<1>1. /\ \A x \in Requests \ {r} : call'[x] = call[x]
      /\ edit' = edit
  BY Progress
<1>2. ASSUME NEW x \in Requests \ {r}, Continuing(x)'
      PROVE  CarriesOn(x)'
  <2>1. PICK q, h : q = call[x].on /\ h = call[x].history
    OBVIOUS
  <2>2. /\ CopyOpens(q, h)
        /\ call[x].step = "generate" /\ Answered(q) => Len(h) >= 3
    BY <1>1, <1>2, <2>1 DEF FirstInv, CarriesOn, Continuing
  <2>3. call'[x].on = q /\ call'[x].history = h /\ call'[x].step = call[x].step
    BY <1>1, <2>1
  <2>4. CopyOpens(q, h)' /\ (Answered(q)' => Answered(q))
    BY <2>2, CopyKept
  <2> QED BY <2>2, <2>3, <2>4 DEF CarriesOn, CopyOpens, Made, Answered
<1>3. ASSUME edit.step = "write" PROVE CopyOpens(edit.query, edit.copy.history)'
  <2>1. PICK q, h : q = edit.query /\ h = edit.copy.history
    OBVIOUS
  <2>2. CopyOpens(q, h)'
    BY <1>3, <2>1, CopyKept DEF FirstInv
  <2>3. edit'.query = q /\ edit'.copy.history = h
    BY <1>1, <2>1
  <2> QED BY <2>2, <2>3 DEF CopyOpens, Made, Answered
<1> QED BY <1>1, <1>2, <1>3 DEF CarriesOn

\* What remains for the step's own request and for what it stores.
LEMMA OwnFirst ==
  ASSUME QInv, FirstInv, NEW r \in Requests, Serving(r),
         \A q \in Requests : StoredOpens(q)', CarriesOn(r)'
  PROVE  FirstInv'
BY OthersFirst DEF FirstInv

\* A query that is not stored, in a step that neither creates nor fills it.
LEMMA StoredKept ==
  ASSUME QInv, FirstInv, NEW r \in Requests, Serving(r), NEW q \in Requests,
         queries'[q] = queries[q], q # r \/ ~(CreateQuery(r) \/ FillQuery(r))
  PROVE  StoredOpens(q)'
<1>1. /\ \A x \in Requests \ {r} : call'[x] = call[x]
      /\ call'[r].step = "fill" => CreateQuery(r)
      /\ call'[r].step = "done" => FillQuery(r)
      /\ Made(r) => Made(r)'
      /\ early \subseteq early'
  BY Progress
<1>2. StoredOpens(q)
  BY DEF FirstInv
<1> QED BY <1>1, <1>2 DEF StoredOpens, Exists, Made, Answered

\* A request reads a query.
LEMMA AskAgainFirst ==
  ASSUME QInv, FirstInv, NEW r \in Requests, AskAgain(r)
  PROVE  FirstInv'
<1>1. Serving(r) /\ queries' = queries /\ call[r].step = "ask"
  BY DEF Serving, AskAgain
<1>2. ~CreateQuery(r) /\ ~FillQuery(r)
  BY <1>1 DEF CreateQuery, FillQuery
<1>3. \A q \in Requests : StoredOpens(q)'
  BY <1>1, <1>2, StoredKept
<1>4. ASSUME Continuing(r)'
      PROVE  CarriesOn(r)'
  <2>1. call'[r] # Idle("failed")
    BY <1>4 DEF Continuing, Idle
  <2>2. PICK q \in Requests :
          /\ Exists(q)
          /\ early' = IF queries[q].history = <<>> THEN early \cup {q} ELSE early
          /\ call'[r].step \in {"search", "launched"}
          /\ call'[r].on = q /\ call'[r].history = queries[q].history
    BY <2>1, AskAgainFields
  <2>3. StoredOpens(q)
    BY DEF FirstInv
  <2>4. q # r
    BY <1>1, <2>2, <2>3 DEF StoredOpens, Made
  <2>5. call'[q] = call[q]
    BY <2>4, AskAgainFields
  <2>6. early \subseteq early'
    BY <2>2
  <2> QED BY <2>2, <2>3, <2>5, <2>6 DEF CarriesOn, StoredOpens, CopyOpens, Made, Answered
<1>5. CarriesOn(r)'
  BY <1>4 DEF CarriesOn
<1> QED BY <1>1, <1>3, <1>5, OwnFirst

\* A continuation stores its copy.
LEMMA StoreFirst ==
  ASSUME QInv, FirstInv, NEW r \in Requests, ShowReferences(r) \/ InsertAnswer(r)
  PROVE  FirstInv'
<1>0. PICK q, h, g : q = call[r].on /\ h = call[r].history /\ g = call'[r].history
  OBVIOUS
<1>1. /\ Serving(r) /\ Continuing(r) /\ ~Made(r) /\ Same(call'[r], call[r])
      /\ Store(q, call[r].engine, g)
      /\ \A x \in Requests \ {r} : call'[x] = call[x]
      /\ early' = early
      /\ call'[r].step \in {"generate", "result"}
  BY <1>0, ShowFields, InsertFields
  DEF Serving, Continuing, Made, ShowReferences, InsertAnswer
<1>2. CopyOpens(q, h)
  BY <1>0, <1>1 DEF FirstInv, CarriesOn
<1>3. q \in Requests /\ q # r
  BY <1>1, <1>2 DEF CopyOpens
<1>4. /\ h \in Seq(Entry) /\ call[r].found \in SUBSET Reference
      /\ queries \in [Requests -> Query \cup {NoQuery}]
  BY <1>0 DEF QInv, QueriesTypeOK, Calls
<1>5. /\ Answered(q) => Opens(q, g)
      /\ Answered(q) /\ call'[r].step = "generate" => Len(g) >= 3
  <2>1. CASE ShowReferences(r)
    <3>1. g = Asking(h, r, call[r].found)
      BY <1>0, <2>1, ShowFields
    <3> QED BY <1>2, <1>3, <1>4, <3>1, AskingOpens DEF CopyOpens
  <2>2. CASE InsertAnswer(r)
    <3>1. g = BeforeLast(h, Answer(r)) /\ call[r].step = "generate"
          /\ call'[r].step = "result"
      BY <1>0, <2>2, InsertFields
    <3>2. Answered(q) => Len(h) >= 3
      BY <1>0, <1>1, <3>1 DEF FirstInv, CarriesOn
    <3> QED BY <1>2, <1>3, <1>4, <3>1, <3>2, InsertOpens DEF CopyOpens
  <2> QED BY <2>1, <2>2
<1>6. call'[q] = call[q] /\ call'[r].on = q
  BY <1>0, <1>1, <1>3 DEF Same
<1>7. queries'[q].history = g /\ \A x \in Requests \ {q} : queries'[x] = queries[x]
  BY <1>1, <1>3, <1>4 DEF Store
<1>8. CopyOpens(q, h)' /\ (Answered(q)' => Answered(q))
  BY <1>1, <1>2, CopyKept
<1>9. StoredOpens(q)'
  BY <1>2, <1>3, <1>5, <1>6, <1>7, <1>8 DEF StoredOpens, CopyOpens, Made, Answered
<1>10. ~CreateQuery(r) /\ ~FillQuery(r)
  BY <1>1 DEF CreateQuery, FillQuery, Continuing
<1>11. \A x \in Requests : StoredOpens(x)'
  BY <1>1, <1>7, <1>9, <1>10, StoredKept
<1>12. CarriesOn(r)'
  BY <1>0, <1>5, <1>6, <1>8 DEF CarriesOn, CopyOpens
<1> QED BY <1>1, <1>11, <1>12, OwnFirst

\* A query is created, before anybody has a copy of it, and gets its turn.
LEMMA CreateFirst ==
  ASSUME QInv, FirstInv, NEW r \in Requests, CreateQuery(r) \/ FillQuery(r)
  PROVE  FirstInv'
<1>1. /\ Serving(r) /\ early' = early
      /\ \A x \in Requests \ {r} : call'[x] = call[x]
  BY CreateFields, FillFields DEF Serving, CreateQuery, FillQuery
<1>2. /\ queries \in [Requests -> Query \cup {NoQuery}]
      /\ call[r].found \in SUBSET Reference
  BY DEF QInv, QueriesTypeOK, Calls
<1>3. StoredOpens(r)' /\ ~Continuing(r)'
      /\ \A x \in Requests \ {r} : queries'[x] = queries[x]
  <2>1. CASE CreateQuery(r)
    <3>1. call'[r].step = "fill" /\ Store(r, call[r].engine, <<>>)
      BY <2>1, CreateFields
    <3>2. queries'[r].history = <<>> /\ \A x \in Requests \ {r} : queries'[x] = queries[x]
      BY <1>2, <3>1 DEF Store
    <3> QED BY <3>1, <3>2 DEF StoredOpens, Made, Answered, Continuing
  <2>2. CASE FillQuery(r)
    <3>1. CASE call'[r].step = "launched"
      <4>1. Store(r, call[r].engine, Prompt(r))
        BY <2>2, <3>1, FillFields DEF Idle
      <4>2. \A x \in Requests \ {r} : queries'[x] = queries[x]
        BY <1>2, <4>1 DEF Store
      <4> QED BY <3>1, <4>2 DEF StoredOpens, Made, Answered, Continuing
    <3>2. CASE call'[r].step # "launched"
      <4>1. /\ call'[r] = Idle("done")
            /\ Store(r, call[r].engine, Prompt(r) \o Answer(r) \o Shown(r, call[r].found))
        BY <2>2, <3>2, FillFields
      <4> DEFINE g == Prompt(r) \o Answer(r) \o Shown(r, call[r].found)
      <4>2. Opens(r, g)
        BY <1>2, FirstOpens
      <4>3. call'[r].step = "done"
        BY <4>1 DEF Idle
      <4> HIDE DEF g
      <4>4. queries'[r].history = g /\ \A x \in Requests \ {r} : queries'[x] = queries[x]
        BY <1>2, <4>1 DEF Store, g
      <4> QED BY <4>2, <4>3, <4>4 DEF StoredOpens, Made, Continuing
    <3> QED BY <3>1, <3>2
  <2> QED BY <2>1, <2>2
<1>4. \A q \in Requests : StoredOpens(q)'
  BY <1>1, <1>3, StoredKept
<1> QED BY <1>1, <1>3, <1>4, OwnFirst DEF CarriesOn

\* The steps that store nothing.
LEMMA ServingFirst ==
  ASSUME QInv, FirstInv, NEW r \in Requests, Serving(r)
  PROVE  FirstInv'
<1>1. CASE AskAgain(r)
  BY <1>1, AskAgainFirst
<1>2. CASE ShowReferences(r) \/ InsertAnswer(r)
  BY <1>2, StoreFirst
<1>3. CASE CreateQuery(r) \/ FillQuery(r)
  BY <1>3, CreateFirst
<1>4. CASE Ask(r) \/ Search(r) \/ LookUp(r) \/ SaveResult(r) \/ RunBatch(r) \/ Raise(r)
  <2>1. queries' = queries
    BY <1>4 DEF Ask, Search, LookUp, SaveResult, RunBatch, Raise
  <2>2. CASE CreateQuery(r) \/ FillQuery(r)
    BY <2>2, CreateFirst
  <2>3. CASE ~(CreateQuery(r) \/ FillQuery(r))
    <3>1. \A q \in Requests : StoredOpens(q)'
      BY <2>1, <2>3, StoredKept
    <3>2. ASSUME Continuing(r)'
          PROVE  CarriesOn(r)'
      <4>1. /\ Continuing(r) /\ call'[r].step = "lookup"
            /\ call'[r].on = call[r].on /\ call'[r].history = call[r].history
        <5>1. CASE Ask(r)
          BY <3>2, <5>1, AskFields DEF Continuing
        <5>2. CASE Search(r)
          BY <3>2, <5>2, SearchFields DEF Continuing, Same
        <5>3. CASE LookUp(r)
          BY <3>2, <5>3, LookUpFields DEF Continuing, Same, Idle
        <5>4. CASE SaveResult(r) \/ RunBatch(r) \/ Raise(r)
          BY <3>2, <5>4, ResultFields, FailFields DEF Continuing, Idle
        <5> QED BY <1>4, <5>1, <5>2, <5>3, <5>4
      <4>2. PICK q, h : q = call[r].on /\ h = call[r].history
        OBVIOUS
      <4>3. CopyOpens(q, h)
        BY <4>1, <4>2 DEF FirstInv, CarriesOn
      <4>4. CopyOpens(q, h)'
        BY <4>3, CopyKept
      <4>5. call'[r].on = q /\ call'[r].history = h
        BY <4>1, <4>2
      <4> QED BY <4>1, <4>4, <4>5 DEF CarriesOn, CopyOpens, Made, Answered
    <3>3. CarriesOn(r)'
      BY <3>2 DEF CarriesOn
    <3> QED BY <3>1, <3>3, OwnFirst
  <2> QED BY <2>2, <2>3
<1> QED BY <1>1, <1>2, <1>3, <1>4 DEF Serving

\* PUT stores the copy it read; DELETE leaves nothing to begin with a turn.
LEMMA EditingFirst ==
  ASSUME QInv, FirstInv, Editing
  PROVE  FirstInv'
<1>1. /\ call' = call /\ early \subseteq early'
      /\ queries \in [Requests -> Query \cup {NoQuery}]
  BY DEF Editing, PutReads, PutWrites, DeleteQuery, QInv, QueriesTypeOK
<1>2. ASSUME NEW r \in Requests
      PROVE  CarriesOn(r)'
  BY <1>1, <1>2 DEF FirstInv, CarriesOn, Continuing, CopyOpens, Made, Answered
<1>3. ASSUME NEW q \in Requests, PutReads(q)
      PROVE  FirstInv'
  <2>1. /\ Exists(q) /\ queries' = queries
        /\ edit'.query = q /\ edit'.copy = queries[q]
        /\ early' = IF queries[q].history = <<>> THEN early \cup {q} ELSE early
    BY <1>3 DEF PutReads
  <2>2. \A x \in Requests : StoredOpens(x)'
    BY <1>1, <2>1 DEF FirstInv, StoredOpens, Exists, Made, Answered
  <2>3. PICK h : h = queries[q].history
    OBVIOUS
  <2>4. CopyOpens(q, h)'
    BY <1>1, <2>1, <2>3 DEF FirstInv, StoredOpens, CopyOpens, Made, Answered
  <2> QED BY <1>2, <2>1, <2>2, <2>3, <2>4 DEF FirstInv, CopyOpens, Made, Answered
<1>4. ASSUME PutWrites
      PROVE  FirstInv'
  <2>1. /\ edit'.step = "done" /\ CopyOpens(edit.query, edit.copy.history)
        /\ queries' = IF Exists(edit.query) THEN [queries EXCEPT ![edit.query] = edit.copy]
                                            ELSE queries
    BY <1>4 DEF PutWrites, FirstInv
  <2>2. ASSUME NEW x \in Requests
        PROVE  StoredOpens(x)'
    <3>1. StoredOpens(x)
      BY DEF FirstInv
    <3>2. CASE queries'[x] = queries[x]
      BY <1>1, <3>1, <3>2 DEF StoredOpens, Exists, Made, Answered
    <3>3. CASE queries'[x] # queries[x]
      <4>1. x = edit.query /\ queries'[x] = edit.copy
        BY <1>1, <2>1, <3>3
      <4> QED BY <1>1, <2>1, <4>1 DEF StoredOpens, CopyOpens, Made, Answered
    <3> QED BY <3>2, <3>3
  <2> QED BY <1>2, <2>1, <2>2 DEF FirstInv
<1>5. ASSUME NEW q \in Requests, DeleteQuery(q)
      PROVE  FirstInv'
  <2>1. /\ queries' = [queries EXCEPT ![q] = NoQuery] /\ early' = early
        /\ edit'.query = edit.query /\ edit'.copy = edit.copy
        /\ edit'.step = "write" => edit.step = "write"
    BY <1>5 DEF DeleteQuery, QInv, QueriesTypeOK
  <2>2. \A x \in Requests : StoredOpens(x)'
    BY <1>1, <2>1 DEF FirstInv, StoredOpens, Exists, Made, Answered
  <2>3. (edit.step = "write" => CopyOpens(edit.query, edit.copy.history))'
    BY <1>1, <2>1 DEF FirstInv, CopyOpens, Made, Answered
  <2> QED BY <1>2, <2>2, <2>3 DEF FirstInv
<1> QED BY <1>3, <1>4, <1>5 DEF Editing

\* It holds beside the invariant of the queries.
LEMMA FirstInvariance == QuerySpec => []FirstInv
<1>1. QueryInit => FirstInv
  BY DEF QueryInit, InitQueries, Idle, FirstInv, StoredOpens, Exists, CarriesOn, Continuing
<1>2. QInv /\ FirstInv /\ [QueryNext]_allVars => FirstInv'
  <2> SUFFICES ASSUME QInv, FirstInv, [QueryNext]_allVars
               PROVE  FirstInv'
    OBVIOUS
  <2>1. CASE EngineStep \/ UNCHANGED allVars
    <3>1. UNCHANGED <<queries, call, edit, early>>
      BY <2>1 DEF EngineStep, allVars, queryVars
    <3> QED BY <3>1 DEF FirstInv, StoredOpens, Exists, CarriesOn, Continuing, CopyOpens,
                        Made, Answered
  <2> QED BY <2>1, ServingFirst, EditingFirst DEF QueryNext
<1> QED BY <1>1, <1>2, QueryInvariance, PTL DEF QuerySpec

\* The query of an answered request begins with its own turn, unless somebody
\* read it in the moment before that turn was saved.
THEOREM FirstTurnSound == QuerySpec => []FirstTurnKept
<1>1. FirstInv => FirstTurnKept
  BY DEF FirstInv, StoredOpens, Answered, Opens, FirstTurnKept
<1> QED BY <1>1, FirstInvariance, PTL

-----------------------------------------------------------------------------
(* The references shown.  Only the set of a history's entries matters here.  *)
(* What an entry shows for a request covers what the request has found from  *)
(* then on, since references are only ever dropped, and so its result; in    *)
(* the query of the request itself it is what the result lists.              *)

Retrieving == {"ask", "search", "lookup"}
Holding == {"generate", "result", "create", "fill"}

Covers(S) ==
  \A e \in S : e.tag = "references" =>
    /\ call[e.by].step \notin Retrieving
    /\ call[e.by].step \in Holding => call[e.by].found \subseteq e.refs
    /\ \A x \in results : x.by = e.by => x.refs \subseteq e.refs

Uses(S, q) == UNION {e.refs : e \in {e \in S : e.by = q}}

Exact(q, S) == Answered(q) => \A x \in results : x.by = q => x.refs = Uses(S, q)

ResultsFound ==
  \A x \in results :
    /\ call[x.by].step \notin Retrieving \cup {"generate", "result"}
    /\ call[x.by].step \in {"create", "fill"} => x.refs = call[x.by].found

StoredCovers(q) ==
  Exists(q) => Covers(Range(queries[q].history)) /\ Exact(q, Range(queries[q].history))

CopyCovers(r) ==
  Continuing(r) => Covers(Range(call[r].history)) /\ Exact(call[r].on, Range(call[r].history))

EditCovers ==
  edit.step = "write" =>
    /\ edit.copy \in Query
    /\ Covers(Range(edit.copy.history)) /\ Exact(edit.query, Range(edit.copy.history))

CoverInv ==
  /\ ResultsFound /\ EditCovers
  /\ \A q \in Requests : StoredCovers(q)
  /\ \A r \in Requests : CopyCovers(r)

\* The entries of a history that grows.
LEMMA RangeAppend ==
  ASSUME NEW h \in Seq(Entry), NEW e \in Entry
  PROVE  Append(h, e) \in Seq(Entry) /\ Range(Append(h, e)) = Range(h) \cup {e}
<1> DEFINE g == Append(h, e)
<1>1. /\ g \in Seq(Entry) /\ Len(g) = Len(h) + 1 /\ g[Len(h) + 1] = e
      /\ \A i \in 1 .. Len(h) : g[i] = h[i]
      /\ Len(h) \in Nat
  BY Appended
<1> HIDE DEF g
<1>2. DOMAIN g = 1 .. Len(h) + 1 /\ DOMAIN h = 1 .. Len(h)
  BY <1>1
<1>3. ASSUME NEW z \in Range(g) PROVE z \in Range(h) \cup {e}
  <2>1. PICK i \in 1 .. Len(h) + 1 : z = g[i]
    BY <1>2 DEF Range
  <2>2. CASE i = Len(h) + 1
    BY <1>1, <2>1, <2>2
  <2>3. CASE i # Len(h) + 1
    <3>1. i \in 1 .. Len(h)
      BY <1>1, <2>3
    <3> QED BY <1>1, <1>2, <2>1, <3>1 DEF Range
  <2> QED BY <2>2, <2>3
<1>4. ASSUME NEW z \in Range(h) \cup {e} PROVE z \in Range(g)
  <2>1. CASE z = e
    <3>1. Len(h) + 1 \in DOMAIN g
      BY <1>1, <1>2
    <3> QED BY <1>1, <2>1, <3>1 DEF Range
  <2>2. CASE z # e
    <3>1. PICK i \in 1 .. Len(h) : z = h[i]
      BY <1>2, <2>2 DEF Range
    <3>2. i \in DOMAIN g /\ z = g[i]
      BY <1>1, <1>2, <3>1
    <3> QED BY <3>2 DEF Range
  <2> QED BY <2>1, <2>2
<1> QED BY <1>1, <1>3, <1>4 DEF g

LEMMA RangeEntries ==
  ASSUME NEW h \in Seq(Entry)
  PROVE  Range(h) \subseteq Entry
BY DEF Range

\* The entries of the histories that requests store.
LEMMA RangeAsking ==
  ASSUME NEW h \in Seq(Entry), NEW r \in Requests, NEW refs \in SUBSET Reference
  PROVE  /\ Range(Asking(h, r, refs)) \subseteq
              Range(h) \cup {Entering("human", r, {}), Entering("references", r, refs)}
         /\ Range(h) \subseteq Range(Asking(h, r, refs))
<1> DEFINE human == Entering("human", r, {})
           shown == Entering("references", r, refs)
           g == Append(h, human)
<1>1. human \in Entry /\ shown \in Entry
  BY EntryType
<1> HIDE DEF human, shown
<1>2. g \in Seq(Entry) /\ Range(g) = Range(h) \cup {human}
  BY <1>1, RangeAppend
<1>3. CASE refs = {}
  <2>1. Asking(h, r, refs) = g
    BY <1>1, <1>3 DEF Asking, Prompt, Shown, human
  <2> QED BY <1>2, <2>1 DEF human, shown
<1>4. CASE refs # {}
  <2>1. Asking(h, r, refs) = Append(g, shown)
    BY <1>1, <1>4 DEF Asking, Prompt, Shown, human, shown
  <2> HIDE DEF g
  <2>2. Range(Append(g, shown)) = Range(g) \cup {shown}
    BY <1>1, <1>2, RangeAppend
  <2> QED BY <1>2, <2>1, <2>2 DEF human, shown
<1> QED BY <1>3, <1>4

\* Such a history is not empty.
LEMMA AskingLength ==
  ASSUME NEW h \in Seq(Entry), NEW r \in Requests, NEW refs \in SUBSET Reference
  PROVE  Asking(h, r, refs) \in Seq(Entry) /\ Len(Asking(h, r, refs)) >= 1
<1> DEFINE human == Entering("human", r, {})
           shown == Entering("references", r, refs)
           g == Append(h, human)
<1>1. human \in Entry /\ shown \in Entry
  BY EntryType
<1> HIDE DEF human, shown
<1>2. g \in Seq(Entry) /\ Len(g) >= 1
  BY <1>1, Appended
<1>3. CASE refs = {}
  BY <1>1, <1>2, <1>3 DEF Asking, Prompt, Shown, human
<1>4. CASE refs # {}
  <2>1. Asking(h, r, refs) = Append(g, shown)
    BY <1>1, <1>4 DEF Asking, Prompt, Shown, human, shown
  <2> HIDE DEF g
  <2>2. Append(g, shown) \in Seq(Entry) /\ Len(Append(g, shown)) = Len(g) + 1
    BY <1>1, <1>2, Appended
  <2> QED BY <1>2, <2>1, <2>2
<1> QED BY <1>3, <1>4

\* Inserting an answer adds no other entry.
LEMMA RangeInsert ==
  ASSUME NEW s \in Seq(Entry), Len(s) >= 1, NEW r \in Requests
  PROVE  Range(BeforeLast(s, Answer(r))) = Range(s) \cup {Entering("ai", r, {})}
<1> DEFINE ai == Entering("ai", r, {})
           g == BeforeLast(s, Answer(r))
<1>1. ai \in Entry /\ g = BeforeLast(s, <<ai>>)
  BY EntryType DEF Answer
<1> HIDE DEF ai, g
<1>2. PICK n \in Nat : Len(s) = n + 1
  <2>1. Len(s) - 1 \in Nat /\ Len(s) = (Len(s) - 1) + 1
    OBVIOUS
  <2> QED BY <2>1
<1>3. /\ g \in Seq(Entry) /\ Len(g) = n + 2
      /\ \A i \in 1 .. n : g[i] = s[i]
      /\ g[n + 1] = ai /\ g[n + 2] = s[n + 1]
  BY <1>1, <1>2, InsertedBeforeLast
<1>4. DOMAIN g = 1 .. n + 2 /\ DOMAIN s = 1 .. n + 1
  BY <1>2, <1>3
<1>5. ASSUME NEW z \in Range(g) PROVE z \in Range(s) \cup {ai}
  <2>1. PICK i \in 1 .. n + 2 : z = g[i]
    BY <1>4 DEF Range
  <2>2. \/ i \in 1 .. n /\ z = s[i]
        \/ z = ai
        \/ z = s[n + 1]
    BY <1>3, <2>1
  <2>3. n + 1 \in DOMAIN s /\ \A k \in 1 .. n : k \in DOMAIN s
    BY <1>4
  <2> QED BY <2>2, <2>3 DEF Range
<1>6. ASSUME NEW z \in Range(s) \cup {ai} PROVE z \in Range(g)
  <2>1. n + 1 \in DOMAIN g /\ n + 2 \in DOMAIN g /\ \A k \in 1 .. n : k \in DOMAIN g
    BY <1>4
  <2>2. CASE z = ai
    BY <1>3, <2>1, <2>2 DEF Range
  <2>3. CASE z # ai
    <3>1. PICK i \in 1 .. n + 1 : z = s[i]
      BY <1>4, <2>3 DEF Range
    <3>2. \/ i \in 1 .. n /\ z = g[i]
          \/ z = g[n + 2]
      BY <1>3, <3>1
    <3> QED BY <2>1, <3>2 DEF Range
  <2> QED BY <2>2, <2>3
<1> QED BY <1>5, <1>6 DEF ai, g

\* The entries of a first turn.
LEMMA RangeFirst ==
  ASSUME NEW r \in Requests, NEW refs \in SUBSET Reference
  PROVE  /\ Range(Prompt(r)) = {Entering("human", r, {})}
         /\ Range(Prompt(r) \o Answer(r) \o Shown(r, refs)) =
              {Entering("human", r, {}), Entering("ai", r, {})} \cup
              (IF refs = {} THEN {} ELSE {Entering("references", r, refs)})
<1> DEFINE human == Entering("human", r, {})
           ai == Entering("ai", r, {})
           shown == Entering("references", r, refs)
           p == <<human>>
           t == <<human, ai>>
<1>1. human \in Entry /\ ai \in Entry /\ shown \in Entry
  BY EntryType
<1>2. /\ Prompt(r) = p
      /\ Prompt(r) \o Answer(r) \o Shown(r, refs) = t \o (IF refs = {} THEN <<>> ELSE <<shown>>)
  BY DEF Prompt, Answer, Shown
<1> HIDE DEF human, ai, shown
<1>3. /\ p \in Seq(Entry) /\ Range(p) = {human}
      /\ t \in Seq(Entry) /\ t = Append(p, ai)
  BY <1>1 DEF Range
<1> HIDE DEF p, t
<1>4. Range(t) = {human, ai}
  BY <1>1, <1>3, RangeAppend
<1>5. CASE refs = {}
  <2>1. t \o <<>> = t
    BY <1>3
  <2> QED BY <1>2, <1>3, <1>4, <1>5, <2>1 DEF human, ai, shown
<1>6. CASE refs # {}
  <2>1. t \o <<shown>> = Append(t, shown)
    BY <1>1, <1>3
  <2>2. Range(Append(t, shown)) = {human, ai} \cup {shown}
    BY <1>1, <1>3, <1>4, RangeAppend
  <2> QED BY <1>2, <1>3, <1>6, <2>1, <2>2 DEF human, ai, shown
<1> QED BY <1>5, <1>6

\* What a step of a request does to what it has found and to the results.
LEMMA FoundProgress ==
  ASSUME QInv, NEW r \in Requests, Serving(r)
  PROVE  /\ \A x \in Requests \ {r} : call'[x] = call[x]
         /\ call[r].step \notin Retrieving =>
              /\ call'[r].step \notin Retrieving
              /\ call'[r].step \in Holding =>
                   call[r].step \in Holding /\ call'[r].found \subseteq call[r].found
         /\ \/ results' = results
            \/ /\ call[r].step \in {"result", "lookup"} /\ call'[r].step = "create"
               /\ call'[r].found \subseteq call[r].found
               /\ results' = results \cup
                    {[by |-> r, engine |-> call[r].engine, refs |-> call'[r].found]}
<1>1. \A step : Idle(step).step = step
  BY DEF Idle
<1>2. CASE Ask(r)
  BY <1>2, AskFields DEF Ask, Retrieving
<1>3. CASE AskAgain(r)
  BY <1>3, AskAgainFields DEF AskAgain, Retrieving
<1>4. CASE Search(r)
  BY <1>4, SearchFields DEF Search, Retrieving
<1>5. CASE LookUp(r)
  BY <1>5, LookUpFields DEF LookUp, Retrieving
<1>6. CASE ShowReferences(r)
  BY <1>6, ShowFields DEF ShowReferences, Retrieving
<1>7. CASE InsertAnswer(r)
  BY <1>7, InsertFields DEF InsertAnswer, Retrieving, Holding
<1>8. CASE SaveResult(r)
  BY <1>8, ResultFields DEF Retrieving, Holding
<1>9. CASE CreateQuery(r)
  BY <1>9, CreateFields DEF CreateQuery, Retrieving, Holding
<1>10. CASE FillQuery(r)
  BY <1>1, <1>10, FillFields DEF FillQuery, Retrieving, Holding
<1>11. CASE RunBatch(r) \/ Raise(r)
  BY <1>1, <1>11, FailFields DEF Retrieving, Holding
<1> QED BY <1>2, <1>3, <1>4, <1>5, <1>6, <1>7, <1>8, <1>9, <1>10, <1>11 DEF Serving

\* A set of entries that covers goes on covering.
LEMMA CoversKept ==
  ASSUME QInv, NEW r \in Requests, Serving(r), NEW S \in SUBSET Entry, Covers(S)
  PROVE  Covers(S)'
<1>1. SUFFICES ASSUME NEW e \in S, e.tag = "references"
               PROVE  /\ call'[e.by].step \notin Retrieving
                      /\ call'[e.by].step \in Holding => call'[e.by].found \subseteq e.refs
                      /\ \A x \in results' : x.by = e.by => x.refs \subseteq e.refs
  BY DEF Covers
<1>2. /\ call[e.by].step \notin Retrieving
      /\ call[e.by].step \in Holding => call[e.by].found \subseteq e.refs
      /\ \A x \in results : x.by = e.by => x.refs \subseteq e.refs
      /\ e.by \in Requests
  BY <1>1 DEF Covers, Entry
<1>3. CASE e.by = r
  <2>1. /\ call'[r].step \notin Retrieving
        /\ call'[r].step \in Holding => call'[r].found \subseteq e.refs
    BY <1>2, <1>3, FoundProgress
  <2>2. CASE results' = results
    BY <1>2, <1>3, <2>1, <2>2
  <2>3. CASE results' # results
    <3>1. /\ call'[r].step = "create"
          /\ results' = results \cup
               {[by |-> r, engine |-> call[r].engine, refs |-> call'[r].found]}
      BY <2>3, FoundProgress
    <3>2. call'[r].found \subseteq e.refs
      BY <2>1, <3>1 DEF Holding
    <3> QED BY <1>2, <1>3, <2>1, <3>1, <3>2
  <2> QED BY <2>2, <2>3
<1>4. CASE e.by # r
  <2>1. \A x \in results' : x \in results \/ x.by = r
    BY FoundProgress
  <2> QED BY <1>2, <1>4, <2>1, FoundProgress
<1> QED BY <1>3, <1>4

\* What is exact goes on being exact; an answered request gets no more results.
LEMMA ExactKept ==
  ASSUME QInv, NEW r \in Requests, Serving(r), NEW S, NEW q \in Requests, Exact(q, S),
         Answered(q)' => Answered(q)
  PROVE  Exact(q, S)'
<1> SUFFICES ASSUME Answered(q)', NEW x \in results', x.by = q
             PROVE  x.refs = Uses(S, q)
  BY DEF Exact, Uses
<1>1. x \in results
  <2>1. x \in results \/ (x.by = r /\ call'[r].step = "create")
    BY FoundProgress
  <2> QED BY <2>1 DEF Answered
<1> QED BY <1>1 DEF Exact

\* A request that goes on without filling its query is not answered by that.
LEMMA AnsweredBefore ==
  ASSUME QInv, NEW r \in Requests, Serving(r), ~FillQuery(r), NEW q \in Requests
  PROVE  Answered(q)' => Answered(q)
BY Progress DEF Answered

\* A result lists what its request holds until that ends.
LEMMA FoundKept ==
  ASSUME QInv, ResultsFound, NEW r \in Requests, Serving(r)
  PROVE  ResultsFound'
<1> SUFFICES ASSUME NEW x \in results'
             PROVE  /\ call'[x.by].step \notin Retrieving \cup {"generate", "result"}
                    /\ call'[x.by].step \in {"create", "fill"} => x.refs = call'[x.by].found
  BY DEF ResultsFound
<1>1. results \subseteq [by : Requests, engine : Builders, refs : SUBSET Reference]
  BY DEF QInv, QueriesTypeOK
<1>2. CASE x \notin results
  <2>1. x.by = r /\ x.refs = call'[r].found /\ call'[r].step = "create"
    BY <1>2, FoundProgress
  <2> QED BY <2>1 DEF Retrieving
<1>3. CASE x \in results /\ x.by # r
  BY <1>1, <1>3, FoundProgress DEF ResultsFound
<1>4. CASE x \in results /\ x.by = r
  <2>1. /\ call[r].step \notin Retrieving \cup {"generate", "result"}
        /\ call[r].step \in {"create", "fill"} => x.refs = call[r].found
    BY <1>4 DEF ResultsFound
  <2>2. /\ call[r].step \in {"create", "fill", "launched"}
        /\ \/ call'[r].step \in {"launched", "done", "failed"}
           \/ call'[r].step = "fill" /\ call'[r].found = call[r].found
              /\ call[r].step = "create"
    <3>1. \A step : Idle(step).step = step
      BY DEF Idle
    <3>2. CASE CreateQuery(r)
      BY <3>2, CreateFields
    <3>3. CASE FillQuery(r)
      BY <3>1, <3>3, FillFields
    <3>4. CASE RunBatch(r) \/ Raise(r)
      BY <2>1, <3>1, <3>4, FailFields DEF Retrieving, QInv, QueriesTypeOK, Calls, Steps
    <3>5. ~Ask(r) /\ ~AskAgain(r) /\ ~Search(r) /\ ~LookUp(r) /\ ~ShowReferences(r)
          /\ ~InsertAnswer(r) /\ ~SaveResult(r)
      BY <2>1, AskFields, AskAgainFields, SearchFields, LookUpFields, ShowFields,
         InsertFields, ResultFields DEF Retrieving
    <3> QED BY <3>2, <3>3, <3>4, <3>5 DEF Serving
  <2> QED BY <1>4, <2>1, <2>2 DEF Retrieving
<1> QED BY <1>2, <1>3, <1>4

\* The copies that others hold, and that of the PUT.
LEMMA OthersCover ==
  ASSUME QInv, FirstInv, CoverInv, NEW r \in Requests, Serving(r)
  PROVE  EditCovers' /\ \A x \in Requests \ {r} : CopyCovers(x)'
<1>1. /\ \A x \in Requests \ {r} : call'[x] = call[x]
      /\ edit' = edit
  BY Progress
<1>2. ASSUME NEW x \in Requests \ {r}, Continuing(x)'
      PROVE  CopyCovers(x)'
  <2>1. PICK q, S : q = call[x].on /\ S = Range(call[x].history)
    OBVIOUS
  <2>2. Continuing(x) /\ call[x].history \in Seq(Entry)
    BY <1>1, <1>2 DEF Continuing, QInv, QueriesTypeOK, Calls
  <2>3. CopyOpens(q, call[x].history) /\ Covers(S) /\ Exact(q, S)
    BY <2>1, <2>2 DEF FirstInv, CarriesOn, CoverInv, CopyCovers
  <2>4. q \in Requests /\ S \in SUBSET Entry /\ (Answered(q)' => Answered(q))
    <3>1. PICK h : h = call[x].history
      OBVIOUS
    <3>2. CopyOpens(q, h)
      BY <2>3, <3>1
    <3> QED BY <2>1, <2>2, <3>2, CopyKept, RangeEntries DEF CopyOpens
  <2>5. Covers(S)' /\ Exact(q, S)'
    BY <2>3, <2>4, CoversKept, ExactKept
  <2>6. call'[x].on = q /\ Range(call'[x].history) = S
    BY <1>1, <2>1
  <2> QED BY <2>5, <2>6 DEF CopyCovers, Covers, Exact, Answered
<1>3. ASSUME edit.step = "write" PROVE EditCovers'
  <2>1. PICK q, h, S : q = edit.query /\ h = edit.copy.history /\ S = Range(h)
    OBVIOUS
  <2>2. CopyOpens(q, h) /\ Covers(S) /\ Exact(q, S) /\ edit.copy \in Query
    BY <1>3, <2>1 DEF FirstInv, CoverInv, EditCovers
  <2>3. q \in Requests /\ S \in SUBSET Entry /\ (Answered(q)' => Answered(q))
    <3>1. h \in Seq(Entry)
      BY <2>1, <2>2 DEF Query
    <3> QED BY <2>1, <2>2, <3>1, CopyKept, RangeEntries DEF CopyOpens
  <2>4. Covers(S)' /\ Exact(q, S)'
    BY <2>2, <2>3, CoversKept, ExactKept
  <2>5. edit'.query = q /\ Range(edit'.copy.history) = S
    BY <1>1, <2>1
  <2> QED BY <1>1, <2>2, <2>4, <2>5 DEF EditCovers, Covers, Exact, Answered
<1> QED BY <1>1, <1>2, <1>3 DEF CopyCovers, EditCovers

\* What remains for the step's own request and for what it stores.
LEMMA OwnCover ==
  ASSUME QInv, FirstInv, CoverInv, NEW r \in Requests, Serving(r),
         \A q \in Requests : StoredCovers(q)', CopyCovers(r)'
  PROVE  CoverInv'
<1>1. EditCovers' /\ \A x \in Requests \ {r} : CopyCovers(x)'
  BY OthersCover
<1>2. ResultsFound'
  BY FoundKept DEF CoverInv
<1> QED BY <1>1, <1>2 DEF CoverInv

\* A set of entries from before the step.
LEMMA SetKept ==
  ASSUME QInv, NEW r \in Requests, Serving(r), NEW q \in Requests, q # r \/ ~FillQuery(r),
         NEW S \in SUBSET Entry, Covers(S), Exact(q, S)
  PROVE  Covers(S)' /\ Exact(q, S)'
<1>1. Answered(q)' => Answered(q)
  <2>1. CASE q # r
    BY <2>1, Progress DEF Answered
  <2>2. CASE ~FillQuery(r)
    BY <2>2, AnsweredBefore
  <2> QED BY <2>1, <2>2
<1> QED BY <1>1, CoversKept, ExactKept

\* A query that is not stored, in a step that does not fill it.
LEMMA StoredCoverKept ==
  ASSUME QInv, CoverInv, NEW r \in Requests, Serving(r), NEW q \in Requests,
         queries'[q] = queries[q], q # r \/ ~FillQuery(r)
  PROVE  StoredCovers(q)'
<1> SUFFICES ASSUME Exists(q)'
             PROVE  (Covers(Range(queries[q].history)) /\ Exact(q, Range(queries[q].history)))'
  BY DEF StoredCovers
<1>1. PICK S : S = Range(queries[q].history)
  OBVIOUS
<1>2. Exists(q) /\ queries[q].history \in Seq(Entry)
  BY DEF Exists, QInv, QueriesTypeOK, Query
<1>3. Covers(S) /\ Exact(q, S) /\ S \in SUBSET Entry
  BY <1>1, <1>2, RangeEntries DEF CoverInv, StoredCovers
<1>4. Covers(S)' /\ Exact(q, S)'
  BY <1>3, SetKept
<1>5. Range(queries'[q].history) = S
  BY <1>1
<1> QED BY <1>4, <1>5 DEF Covers, Exact, Answered

\* A request that goes on with the copy it has, or ends.
LEMMA OwnCopyKept ==
  ASSUME QInv, FirstInv, CoverInv, NEW r \in Requests, Serving(r),
         Continuing(r)' => /\ Continuing(r) /\ call'[r].on = call[r].on
                           /\ call'[r].history = call[r].history
  PROVE  CopyCovers(r)'
<1> SUFFICES ASSUME Continuing(r)'
             PROVE  (Covers(Range(call[r].history)) /\ Exact(call[r].on, Range(call[r].history)))'
  BY DEF CopyCovers
<1>1. PICK q, h, S : q = call[r].on /\ h = call[r].history /\ S = Range(h)
  OBVIOUS
<1>2. Continuing(r) /\ h \in Seq(Entry)
  BY <1>1 DEF QInv, QueriesTypeOK, Calls
<1>3. CopyOpens(q, h) /\ Covers(S) /\ Exact(q, S)
  BY <1>1, <1>2 DEF FirstInv, CarriesOn, CoverInv, CopyCovers
<1>4. q \in Requests /\ S \in SUBSET Entry /\ (Answered(q)' => Answered(q))
  BY <1>1, <1>2, <1>3, CopyKept, RangeEntries DEF CopyOpens
<1>5. Covers(S)' /\ Exact(q, S)'
  BY <1>3, <1>4, CoversKept, ExactKept
<1>6. call'[r].on = q /\ Range(call'[r].history) = S
  BY <1>1
<1> QED BY <1>5, <1>6 DEF Covers, Exact, Answered

\* A request reads a query.
LEMMA AskAgainCover ==
  ASSUME QInv, FirstInv, CoverInv, NEW r \in Requests, AskAgain(r)
  PROVE  CoverInv'
<1>1. Serving(r) /\ queries' = queries /\ ~FillQuery(r)
  BY DEF Serving, AskAgain, FillQuery
<1>2. \A q \in Requests : StoredCovers(q)'
  BY <1>1, StoredCoverKept
<1>3. ASSUME Continuing(r)'
      PROVE  CopyCovers(r)'
  <2>1. call'[r] # Idle("failed")
    BY <1>3 DEF Continuing, Idle
  <2>2. PICK q \in Requests : /\ Exists(q) /\ call'[r].on = q
                              /\ call'[r].history = queries[q].history
    BY <2>1, AskAgainFields
  <2>3. PICK S : S = Range(queries[q].history)
    OBVIOUS
  <2>4. queries[q].history \in Seq(Entry)
    BY <2>2 DEF Exists, QInv, QueriesTypeOK, Query
  <2>5. Covers(S) /\ Exact(q, S) /\ S \in SUBSET Entry
    BY <2>2, <2>3, <2>4, RangeEntries DEF CoverInv, StoredCovers
  <2>6. Covers(S)' /\ Exact(q, S)'
    BY <1>1, <2>5, SetKept
  <2>7. call'[r].on = q /\ Range(call'[r].history) = S
    BY <2>2, <2>3
  <2> QED BY <2>6, <2>7 DEF CopyCovers, Covers, Exact, Answered
<1>4. CopyCovers(r)'
  BY <1>3 DEF CopyCovers
<1> QED BY <1>1, <1>2, <1>4, OwnCover

\* Entries of another request change nothing about what q is shown.
LEMMA UsesGrown ==
  ASSUME NEW S, NEW T, NEW q, S \subseteq T, \A e \in T : e \in S \/ e.by # q
  PROVE  Uses(T, q) = Uses(S, q)
<1>1. {e \in T : e.by = q} = {e \in S : e.by = q}
  OBVIOUS
<1> QED BY <1>1 DEF Uses

\* A request adds its turn to its copy.
LEMMA TurnCovers ==
  ASSUME QInv, ResultsFound, NEW r \in Requests, ShowReferences(r) \/ InsertAnswer(r),
         NEW S \in SUBSET Entry, NEW T, NEW q \in Requests, q # r,
         Covers(S), Exact(q, S), S \subseteq T,
         \A e \in T : \/ e \in S
                      \/ /\ e.by = r
                         /\ e.tag = "references" => ShowReferences(r) /\ e.refs = call[r].found
  PROVE  Covers(T)' /\ Exact(q, T)'
<1>1. Serving(r) /\ ~FillQuery(r) /\ results' = results
  BY DEF Serving, ShowReferences, InsertAnswer, FillQuery, Retrieved
<1>2. Covers(S)' /\ Exact(q, S)'
  BY <1>1, SetKept
<1>3. Uses(T, q) = Uses(S, q)
  BY UsesGrown
<1>4. ASSUME NEW e \in T, e.tag = "references", e \notin S
      PROVE  /\ call'[e.by].step \notin Retrieving
             /\ call'[e.by].step \in Holding => call'[e.by].found \subseteq e.refs
             /\ \A x \in results' : x.by = e.by => x.refs \subseteq e.refs
  <2>1. e.by = r /\ e.refs = call[r].found /\ ShowReferences(r)
    BY <1>4
  <2>2. /\ call[r].step = "lookup" /\ call'[r].step = "generate"
        /\ call'[r].found = call[r].found
    BY <2>1, ShowFields
  <2>3. \A x \in results : x.by # r
    BY <2>2 DEF ResultsFound, Retrieving
  <2> QED BY <1>1, <2>1, <2>2, <2>3 DEF Retrieving
<1>5. Covers(T)'
  BY <1>2, <1>4 DEF Covers
<1>6. Exact(q, T)'
  BY <1>2, <1>3 DEF Exact, Uses
<1> QED BY <1>5, <1>6

\* A continuation stores its copy.
LEMMA StoreCover ==
  ASSUME QInv, FirstInv, CoverInv, NEW r \in Requests, ShowReferences(r) \/ InsertAnswer(r)
  PROVE  CoverInv'
<1>1. PICK q, h, g, S, T : /\ q = call[r].on /\ h = call[r].history /\ g = call'[r].history
                           /\ S = Range(h) /\ T = Range(g)
  OBVIOUS
<1>2. /\ Serving(r) /\ Continuing(r) /\ ~Made(r) /\ Same(call'[r], call[r])
      /\ Store(q, call[r].engine, g) /\ ~FillQuery(r)
  BY <1>1, ShowFields, InsertFields
  DEF Serving, Continuing, Made, ShowReferences, InsertAnswer, FillQuery
<1>3. /\ CopyOpens(q, h) /\ Covers(S) /\ Exact(q, S)
  BY <1>1, <1>2 DEF FirstInv, CarriesOn, CoverInv, CopyCovers
<1>4. q \in Requests /\ q # r
  BY <1>2, <1>3 DEF CopyOpens
<1>5. /\ h \in Seq(Entry) /\ call[r].found \in SUBSET Reference
      /\ queries \in [Requests -> Query \cup {NoQuery}] /\ CallFits(r, call[r])
  BY <1>1 DEF QInv, QueriesTypeOK, Calls
<1>6. /\ S \subseteq T
      /\ \A e \in T : \/ e \in S
                      \/ /\ e.by = r
                         /\ e.tag = "references" => ShowReferences(r) /\ e.refs = call[r].found
  <2>1. CASE ShowReferences(r)
    <3>1. g = Asking(h, r, call[r].found)
      BY <1>1, <2>1, ShowFields
    <3>2. /\ T \subseteq S \cup {Entering("human", r, {}), Entering("references", r, call[r].found)}
          /\ S \subseteq T
      BY <1>1, <1>5, <3>1, RangeAsking
    <3> QED BY <2>1, <3>2 DEF Entering
  <2>2. CASE InsertAnswer(r)
    <3>1. g = BeforeLast(h, Answer(r)) /\ call[r].step = "generate"
      BY <1>1, <2>2, InsertFields
    <3>2. PICK k \in Seq(Entry) : h = Asking(k, r, call[r].found)
      BY <1>1, <1>5, <3>1 DEF CallFits
    <3>3. Len(h) >= 1
      BY <1>5, <3>2, AskingLength
    <3>4. T = S \cup {Entering("ai", r, {})}
      BY <1>1, <1>5, <3>1, <3>3, RangeInsert
    <3> QED BY <3>4 DEF Entering
  <2> QED BY <2>1, <2>2
<1>7. Covers(T)' /\ Exact(q, T)'
  <2>1. ResultsFound /\ S \in SUBSET Entry
    BY <1>1, <1>5, RangeEntries DEF CoverInv
  <2> QED BY <1>3, <1>4, <1>6, <2>1, TurnCovers
<1>8. queries'[q].history = g /\ \A x \in Requests \ {q} : queries'[x] = queries[x]
  BY <1>2, <1>4, <1>5 DEF Store
<1>9. StoredCovers(q)'
  BY <1>1, <1>7, <1>8 DEF StoredCovers, Covers, Exact, Answered
<1>10. \A x \in Requests : StoredCovers(x)'
  BY <1>2, <1>8, <1>9, StoredCoverKept
<1>11. CopyCovers(r)'
  <2>1. call'[r].on = q
    BY <1>1, <1>2 DEF Same
  <2> QED BY <1>1, <1>7, <2>1 DEF CopyCovers, Covers, Exact, Answered
<1> QED BY <1>2, <1>10, <1>11, OwnCover

\* A query is created, empty.
LEMMA NewCover ==
  ASSUME QInv, FirstInv, CoverInv, NEW r \in Requests, CreateQuery(r)
  PROVE  CoverInv'
<1>1. /\ Serving(r) /\ ~FillQuery(r) /\ call'[r].step = "fill"
      /\ Store(r, call[r].engine, <<>>)
  BY CreateFields DEF Serving, CreateQuery, FillQuery
<1>2. queries'[r].history = <<>> /\ \A x \in Requests \ {r} : queries'[x] = queries[x]
  BY <1>1 DEF Store, QInv, QueriesTypeOK
<1>3. Range(queries'[r].history) = {}
  BY <1>2 DEF Range
<1>4. StoredCovers(r)' /\ CopyCovers(r)'
  BY <1>1, <1>3 DEF StoredCovers, Covers, Exact, Answered, CopyCovers, Continuing
<1>5. \A x \in Requests : StoredCovers(x)'
  BY <1>1, <1>2, <1>4, StoredCoverKept
<1> QED BY <1>1, <1>4, <1>5, OwnCover

\* The turn a query is filled with: its references are those of the result.
LEMMA FilledCovers ==
  ASSUME QInv, ResultsFound, NEW r \in Requests, NEW T, FillQuery(r),
         \/ T = {Entering("human", r, {})} /\ call'[r].step = "launched"
         \/ /\ {Entering("human", r, {}), Entering("ai", r, {})} \subseteq T
            /\ T \subseteq {Entering("human", r, {}), Entering("ai", r, {}),
                            Entering("references", r, call[r].found)}
            /\ call[r].found # {} => Entering("references", r, call[r].found) \in T
            /\ call'[r].step = "done"
  PROVE  Covers(T)' /\ Exact(r, T)'
<1> DEFINE found == call[r].found
<1>1. results' = results /\ call[r].step = "fill" /\ call'[r].step \in {"launched", "done"}
  BY DEF FillQuery
<1>2. \A x \in results : x.by = r => x.refs = found
  BY <1>1 DEF ResultsFound
<1>3. \A e \in T : e.by = r /\ (e.tag = "references" => e.refs = found)
  BY DEF Entering
<1>4. Covers(T)'
  BY <1>1, <1>2, <1>3 DEF Covers, Retrieving, Holding
<1>5. ASSUME call'[r].step = "done"
      PROVE  Uses(T, r) = found
  <2>1. \A e \in T : e.refs = {} \/ e.refs = found
    BY DEF Entering
  <2>2. found # {} => \E e \in T : e.by = r /\ e.refs = found
    <3>1. Entering("references", r, found).refs = found /\ Entering("references", r, found).by = r
      BY DEF Entering
    <3> QED BY <1>5, <3>1
  <2> QED BY <2>1, <2>2 DEF Uses
<1>6. Exact(r, T)'
  BY <1>1, <1>2, <1>5 DEF Exact, Answered, Uses
<1> QED BY <1>4, <1>6

\* A query gets its turn.
LEMMA FillCover ==
  ASSUME QInv, FirstInv, CoverInv, NEW r \in Requests, FillQuery(r)
  PROVE  CoverInv'
<1>1. /\ Serving(r) /\ call[r].found \in SUBSET Reference
      /\ queries \in [Requests -> Query \cup {NoQuery}]
  BY DEF Serving, QInv, QueriesTypeOK, Calls
<1>2. Idle("done").step = "done"
  BY DEF Idle
<1>3. PICK g, T : g = queries'[r].history /\ T = Range(g)
  OBVIOUS
<1>4. /\ \A x \in Requests \ {r} : queries'[x] = queries[x]
      /\ call'[r].step \in {"launched", "done"}
      /\ \/ T = {Entering("human", r, {})} /\ call'[r].step = "launched"
         \/ /\ {Entering("human", r, {}), Entering("ai", r, {})} \subseteq T
            /\ T \subseteq {Entering("human", r, {}), Entering("ai", r, {}),
                            Entering("references", r, call[r].found)}
            /\ call[r].found # {} => Entering("references", r, call[r].found) \in T
            /\ call'[r].step = "done"
  <2>1. CASE call'[r].step = "launched" /\ Store(r, call[r].engine, Prompt(r))
    <3>1. g = Prompt(r) /\ \A x \in Requests \ {r} : queries'[x] = queries[x]
      BY <1>1, <1>3, <2>1 DEF Store
    <3>2. T = {Entering("human", r, {})}
      BY <1>1, <1>3, <3>1, RangeFirst
    <3> QED BY <2>1, <3>1, <3>2
  <2>2. CASE /\ call'[r] = Idle("done")
             /\ Store(r, call[r].engine, Prompt(r) \o Answer(r) \o Shown(r, call[r].found))
    <3> DEFINE h == Prompt(r) \o Answer(r) \o Shown(r, call[r].found)
               human == Entering("human", r, {})
               ai == Entering("ai", r, {})
               shown == Entering("references", r, call[r].found)
    <3>1. Range(h) = {human, ai} \cup (IF call[r].found = {} THEN {} ELSE {shown})
      BY <1>1, RangeFirst
    <3> HIDE DEF h, human, ai, shown
    <3>2. g = h /\ \A x \in Requests \ {r} : queries'[x] = queries[x]
      BY <1>1, <1>3, <2>2 DEF Store, h
    <3>3. /\ {human, ai} \subseteq T /\ T \subseteq {human, ai, shown}
          /\ call[r].found # {} => shown \in T
      BY <1>3, <3>1, <3>2
    <3>4. call'[r].step = "done"
      BY <1>2, <2>2
    <3> QED BY <3>2, <3>3, <3>4 DEF human, ai, shown
  <2> QED BY <2>1, <2>2, FillFields
<1>5. Covers(T)' /\ Exact(r, T)'
  BY <1>4, FilledCovers DEF CoverInv
<1>6. StoredCovers(r)'
  BY <1>3, <1>5 DEF StoredCovers, Covers, Exact, Answered
<1>7. \A x \in Requests : StoredCovers(x)'
  BY <1>1, <1>4, <1>6, StoredCoverKept
<1>8. CopyCovers(r)'
  BY <1>4 DEF CopyCovers, Continuing
<1> QED BY <1>1, <1>7, <1>8, OwnCover

\* Every step of a request.
LEMMA ServingCover ==
  ASSUME QInv, FirstInv, CoverInv, NEW r \in Requests, Serving(r)
  PROVE  CoverInv'
<1>1. CASE Ask(r) \/ Search(r) \/ LookUp(r) \/ SaveResult(r) \/ RunBatch(r) \/ Raise(r)
  <2>1. queries' = queries
    BY <1>1 DEF Ask, Search, LookUp, SaveResult, RunBatch, Raise
  <2>2. CASE FillQuery(r)
    BY <2>2, FillCover
  <2>3. CASE ~FillQuery(r)
    <3>1. \A q \in Requests : StoredCovers(q)'
      BY <2>1, <2>3, StoredCoverKept
    <3>2. Continuing(r)' => /\ Continuing(r) /\ call'[r].on = call[r].on
                            /\ call'[r].history = call[r].history
      <4>1. CASE Ask(r)
        BY <4>1, AskFields DEF Continuing
      <4>2. CASE Search(r)
        BY <4>2, SearchFields DEF Continuing, Same
      <4>3. CASE LookUp(r)
        BY <4>3, LookUpFields DEF Continuing, Same, Idle
      <4>4. CASE SaveResult(r) \/ RunBatch(r) \/ Raise(r)
        BY <4>4, ResultFields, FailFields DEF Continuing, Idle
      <4> QED BY <1>1, <4>1, <4>2, <4>3, <4>4
    <3>3. CopyCovers(r)'
      BY <3>2, OwnCopyKept
    <3> QED BY <3>1, <3>3, OwnCover
  <2> QED BY <2>2, <2>3
<1> QED BY <1>1, AskAgainCover, StoreCover, NewCover, FillCover DEF Serving

\* What holds of a set of entries, when requests and results stay.
LEMMA SetStays ==
  ASSUME call' = call, results' \subseteq results, early \subseteq early', NEW S, NEW q
  PROVE  /\ Covers(S) => Covers(S)'
         /\ Exact(q, S) => Exact(q, S)'
<1>1. ASSUME Covers(S) PROVE Covers(S)'
  BY <1>1 DEF Covers
<1>2. ASSUME Exact(q, S) PROVE Exact(q, S)'
  BY <1>2 DEF Exact, Answered, Uses
<1> QED BY <1>1, <1>2

\* So queries that stay do not lose it, nor do copies.
LEMMA QueryStays ==
  ASSUME CoverInv, call' = call, results' \subseteq results, early \subseteq early',
         NEW q \in Requests
  PROVE  /\ queries'[q] = queries[q] => StoredCovers(q)'
         /\ CopyCovers(q)'
<1>1. ASSUME queries'[q] = queries[q] PROVE StoredCovers(q)'
  <2>1. PICK S : S = Range(queries[q].history)
    OBVIOUS
  <2>2. Exists(q) => Covers(S)' /\ Exact(q, S)'
    BY <2>1, SetStays DEF CoverInv, StoredCovers
  <2> QED BY <1>1, <2>1, <2>2 DEF StoredCovers, Covers, Exact, Answered, Exists
<1>2. CopyCovers(q)'
  <2>1. PICK S, x : S = Range(call[q].history) /\ x = call[q].on
    OBVIOUS
  <2>2. Continuing(q) => Covers(S)' /\ Exact(x, S)'
    BY <2>1, SetStays DEF CoverInv, CopyCovers
  <2> QED BY <2>1, <2>2 DEF CopyCovers, Covers, Exact, Answered, Continuing
<1> QED BY <1>1, <1>2

\* PUT stores the copy it read, which covers what it did then.
LEMMA EditingCover ==
  ASSUME QInv, CoverInv, Editing
  PROVE  CoverInv'
<1>1. /\ call' = call /\ results' = results /\ early \subseteq early'
      /\ queries \in [Requests -> Query \cup {NoQuery}]
  BY DEF Editing, PutReads, PutWrites, DeleteQuery, QInv, QueriesTypeOK
<1>2. ResultsFound' /\ \A r \in Requests : CopyCovers(r)'
  BY <1>1, QueryStays DEF CoverInv, ResultsFound
<1>3. ASSUME NEW q \in Requests, PutReads(q)
      PROVE  CoverInv'
  <2>1. Exists(q) /\ queries' = queries /\ edit'.query = q /\ edit'.copy = queries[q]
    BY <1>3 DEF PutReads
  <2>2. \A x \in Requests : StoredCovers(x)'
    BY <1>1, <2>1, QueryStays
  <2>3. PICK S : S = Range(queries[q].history)
    OBVIOUS
  <2>4. Covers(S)' /\ Exact(q, S)' /\ queries[q] \in Query
    BY <1>1, <2>1, <2>3, SetStays DEF CoverInv, StoredCovers, Exists
  <2>5. EditCovers'
    BY <2>1, <2>3, <2>4 DEF EditCovers, Covers, Exact, Answered
  <2> QED BY <1>2, <2>2, <2>5 DEF CoverInv
<1>4. ASSUME PutWrites
      PROVE  CoverInv'
  <2>1. /\ edit'.step = "done" /\ edit.step = "write"
        /\ queries' = IF Exists(edit.query) THEN [queries EXCEPT ![edit.query] = edit.copy]
                                            ELSE queries
    BY <1>4 DEF PutWrites
  <2>2. PICK S, q : S = Range(edit.copy.history) /\ q = edit.query
    OBVIOUS
  <2>3. Covers(S)' /\ Exact(q, S)'
    BY <1>1, <2>1, <2>2, SetStays DEF CoverInv, EditCovers
  <2>4. ASSUME NEW x \in Requests
        PROVE  StoredCovers(x)'
    <3>1. CASE queries'[x] = queries[x]
      BY <1>1, <3>1, QueryStays
    <3>2. CASE queries'[x] # queries[x]
      <4>1. x = q /\ Range(queries'[x].history) = S
        BY <1>1, <2>1, <2>2, <3>2
      <4> QED BY <2>3, <4>1 DEF StoredCovers, Covers, Exact, Answered
    <3> QED BY <3>1, <3>2
  <2>5. EditCovers'
    BY <2>1 DEF EditCovers
  <2> QED BY <1>2, <2>4, <2>5 DEF CoverInv
<1>5. ASSUME NEW q \in Requests, DeleteQuery(q)
      PROVE  CoverInv'
  <2>1. /\ queries' = [queries EXCEPT ![q] = NoQuery]
        /\ edit'.query = edit.query /\ edit'.copy = edit.copy
        /\ edit'.step = "write" => edit.step = "write"
    BY <1>5 DEF DeleteQuery, QInv, QueriesTypeOK
  <2>2. ASSUME NEW x \in Requests
        PROVE  StoredCovers(x)'
    <3>1. CASE x = q
      BY <1>1, <2>1, <3>1 DEF StoredCovers, Exists
    <3>2. CASE x # q
      BY <1>1, <2>1, <3>2, QueryStays
    <3> QED BY <3>1, <3>2
  <2>3. PICK S, x : S = Range(edit.copy.history) /\ x = edit.query
    OBVIOUS
  <2>4. edit.step = "write" => Covers(S)' /\ Exact(x, S)' /\ edit.copy \in Query
    BY <1>1, <2>3, SetStays DEF CoverInv, EditCovers
  <2>5. EditCovers'
    BY <2>1, <2>3, <2>4 DEF EditCovers, Covers, Exact, Answered
  <2> QED BY <1>2, <2>2, <2>5 DEF CoverInv
<1> QED BY <1>3, <1>4, <1>5 DEF Editing

\* A build or a client: results can only be removed.
LEMMA StaysCover ==
  ASSUME CoverInv, EngineStep \/ UNCHANGED allVars
  PROVE  CoverInv'
<1>1. UNCHANGED <<queries, call, edit, early>> /\ results' \subseteq results
  BY DEF EngineStep, allVars, queryVars
<1>2. ResultsFound' /\ \A r \in Requests : StoredCovers(r)' /\ CopyCovers(r)'
  <2>1. ResultsFound'
    BY <1>1 DEF CoverInv, ResultsFound
  <2> QED BY <1>1, <2>1, QueryStays
<1>3. PICK S, q : S = Range(edit.copy.history) /\ q = edit.query
  OBVIOUS
<1>4. edit.step = "write" => Covers(S)' /\ Exact(q, S)' /\ edit.copy \in Query
  BY <1>1, <1>3, SetStays DEF CoverInv, EditCovers
<1>5. EditCovers'
  BY <1>1, <1>3, <1>4 DEF EditCovers, Covers, Exact, Answered
<1> QED BY <1>2, <1>5 DEF CoverInv

\* The references a history shows for an answer cover those the answer was
\* generated from, and are the same in the query of the answer itself.
THEOREM ReferencesShown == QuerySpec => []ShownCoverUsed
<1>1. QueryInit => CoverInv
  BY DEF QueryInit, InitQueries, Idle, CoverInv, ResultsFound, EditCovers, StoredCovers,
         CopyCovers, Exists, Continuing
<1>2. QInv /\ FirstInv /\ CoverInv /\ [QueryNext]_allVars => CoverInv'
  BY ServingCover, EditingCover, StaysCover DEF QueryNext
<1>3. CoverInv => ShownCoverUsed
  <2> SUFFICES ASSUME CoverInv, NEW x \in results, NEW q \in Requests, Exists(q)
               PROVE  /\ \A entry \in Range(queries[q].history) :
                           entry.tag = "references" /\ entry.by = x.by => x.refs \subseteq entry.refs
                      /\ q = x.by /\ call[q].step = "done" /\ q \notin early =>
                           x.refs = ShownFor(q, q)
    BY DEF ShownCoverUsed
  <2>1. Covers(Range(queries[q].history)) /\ Exact(q, Range(queries[q].history))
    BY DEF CoverInv, StoredCovers
  <2>2. ShownFor(q, q) = Uses(Range(queries[q].history), q)
    BY DEF ShownFor, Uses
  <2> QED BY <2>1, <2>2 DEF Covers, Exact, Answered
<1> QED BY <1>1, <1>2, <1>3, QueryInvariance, FirstInvariance, PTL DEF QuerySpec

=============================================================================
