-------------------------- MODULE ChatHistoryProofs --------------------------
(***************************************************************************)
(* The history of a chat, for any requests of any kind, however they       *)
(* overlap, and any PUTs and DELETE.                                       *)
(*                                                                         *)
(* What a save stores is a copy read long before, so an invariant of the   *)
(* stored history holds only if every copy in flight has it too: Good is   *)
(* claimed of all of them.  It is made inductive by Later, which says what *)
(* a request at each step cannot have added to anybody's copy yet, and by  *)
(* AskedWithCopy: an asked request still holds the history it was given;   *)
(* EndingInv says what the copy of a dispatch, or of its job, ends with.     *)
(* Requests that do not overlap lose nothing: CalmInv says why.            *)
(***************************************************************************)
EXTENDS ChatHistory, SequenceTheorems, TLAPS

\* What a request has not added to the history before it leaves this step.
NotYet(step) ==
  CASE step \in {"start", "untitled", "ready"} -> Tags
    [] step \in {"filed", "asked"} -> Tags \ {"file"}
    [] step = "answered" -> {"result", "source"}
    [] step = "resulted" -> {"source"}
    [] step = "ran" -> {"human", "again"}
    [] step \in {"prompted", "intent"} -> {"route", "job", "reply", "late"}
    [] step \in {"chosen", "routed", "queued", "picked"} -> {"job", "reply", "late"}
    [] step \in {"noted", "working"} -> {"reply", "late"}
    [] step = "executed" -> {"log"}
    [] OTHER -> {}

Later(h, steps) ==
  \A i \in 1 .. Len(h) : \A r \in Requests :
    \A kind \in NotYet(steps[r]) : h[i] # <<kind, r>>

Once(h) == \A i, j \in 1 .. Len(h) : h[i] = h[j] => i = j

\* The first n entries are those given.
Begins(h, n, given) == Len(given) = n /\ \A j \in 1 .. n : h[j] = given[j]

\* Answers stand behind their prompts and what their model was given.
InContext(h, given) ==
  \A i \in 1 .. Len(h) : \A r \in Requests :
    /\ \A b \in Behind : h[i] = <<b[1], r>> => i > 1 /\ h[i - 1] = <<b[2], r>>
    /\ h[i] = <<"ai", r>> => Begins(h, i - 2, given[r])
    /\ h[i] = <<"output", r>> => Begins(h, i - 1, given[r])

Good(h, given, steps) ==
  h \in Seq(Entry) /\ InContext(h, given) /\ Once(h) /\ Later(h, steps)

AskedWithCopy ==
  \A r \in Requests : pc[r] = "asked" => mem[r].history = seen[r]

\* What the copy of a request ends with, where an entry will follow that
\* belongs behind it.
Ending(step) ==
  CASE step \in {"prompted", "intent"} -> "human"
    [] step \in {"chosen", "routed"} -> "route"
    [] step \in {"noted", "working"} -> "job"
    [] OTHER -> "none"

EndsIn(h, tag, r) == Len(h) > 0 /\ h[Len(h)] = <<tag, r>>

EndingInv ==
  \A r \in Requests :
    Ending(pc[r]) # "none" => EndsIn(mem[r].history, Ending(pc[r]), r)

IInv ==
  /\ TypeOK /\ AskedWithCopy /\ EndingInv
  /\ Good(chat.history, seen, pc)
  /\ Good(put.copy.history, seen, pc)
  /\ Good(delete.copy.history, seen, pc)
  /\ \A r \in Requests : Good(mem[r].history, seen, pc)

Steps == {"start", "untitled", "ready", "filed", "asked", "answered", "resulted",
          "ran", "prompted", "intent", "chosen", "routed", "queued", "picked", "noted",
          "working", "replied", "executed", "done", "failed"}

-----------------------------------------------------------------------------
(* Histories *)

\* The history of a new chat is good whoever is where.
LEMMA NewGood ==
  ASSUME NEW given, NEW steps
  PROVE  Good(NewChat.history, given, steps)
BY DEF Good, NewChat, InContext, Once, Later

\* A history stays good when requests go on without adding to it.
LEMMA MoveGood ==
  ASSUME NEW h, NEW given, NEW steps, NEW next, Good(h, given, steps),
         \A q \in Requests : NotYet(next[q]) \subseteq NotYet(steps[q])
  PROVE  Good(h, given, next)
BY DEF Good, Later

\* What a request asks with concerns no answer that is already there.
LEMMA AskGood ==
  ASSUME NEW h, NEW given, NEW steps, NEW r \in Requests, NEW asked,
         given \in [Requests -> Seq(Entry)],
         {"ai", "output"} \subseteq NotYet(steps[r]), Good(h, given, steps)
  PROVE  Good(h, [given EXCEPT ![r] = asked], steps)
<1> DEFINE after == [given EXCEPT ![r] = asked]
<1>1. \A q \in Requests \ {r} : after[q] = given[q]
  OBVIOUS
<1>2. \A i \in 1 .. Len(h) : h[i] # <<"ai", r>> /\ h[i] # <<"output", r>>
  BY DEF Good, Later
<1> HIDE DEF after
<1>3. InContext(h, after)
  BY <1>1, <1>2 DEF Good, InContext
<1> QED BY <1>3 DEF Good, after

\* A good history loses nothing but its end and stays good.
LEMMA PrefixGood ==
  ASSUME NEW h, NEW given, NEW steps, NEW n \in 0 .. Len(h),
         Good(h, given, steps)
  PROVE  Good(SubSeq(h, 1, n), given, steps)
<1> DEFINE s == SubSeq(h, 1, n)
<1>1. /\ s \in Seq(Entry) /\ Len(s) = n
      /\ \A i \in 1 .. n : s[i] = h[i]
  <2>1. h \in Seq(Entry) /\ Len(h) \in Nat /\ \A i \in 1 .. n : h[i] \in Entry
    BY DEF Good
  <2> QED BY <2>1, SubSeqProperties
<1> HIDE DEF s
<1>2. Len(h) \in Nat
  BY DEF Good
<1>3. InContext(s, given)
  <2> SUFFICES ASSUME NEW i \in 1 .. Len(s), NEW q \in Requests
               PROVE  /\ \A b \in Behind :
                           s[i] = <<b[1], q>> => i > 1 /\ s[i - 1] = <<b[2], q>>
                      /\ s[i] = <<"ai", q>> => Begins(s, i - 2, given[q])
                      /\ s[i] = <<"output", q>> => Begins(s, i - 1, given[q])
    BY DEF InContext
  <2>1. s[i] = h[i] /\ i \in 1 .. Len(h) /\ i \in 1 .. n
    BY <1>1, <1>2
  <2>2. /\ \A b \in Behind : h[i] = <<b[1], q>> => i > 1 /\ h[i - 1] = <<b[2], q>>
        /\ h[i] = <<"ai", q>> => Begins(h, i - 2, given[q])
        /\ h[i] = <<"output", q>> => Begins(h, i - 1, given[q])
    BY <2>1 DEF Good, InContext
  <2>3. i > 1 => s[i - 1] = h[i - 1]
    BY <1>1, <2>1
  <2>4. ASSUME NEW k \in {1, 2}, Begins(h, i - k, given[q])
        PROVE  Begins(s, i - k, given[q])
    <3>1. \A j \in 1 .. i - k : s[j] = h[j]
      BY <1>1, <2>1
    <3> QED BY <2>4, <3>1 DEF Begins
  <2> QED BY <2>1, <2>2, <2>3, <2>4
<1>4. Once(s) /\ Later(s, steps)
  BY <1>1, <1>2 DEF Good, Once, Later
<1> QED BY <1>1, <1>3, <1>4 DEF Good, s

\* Entries of one request, none of which it had added before, extend a good
\* history; an answer only behind its prompt and the history it was given.
LEMMA ExtendGood ==
  ASSUME NEW h, NEW given, NEW steps, NEW r \in Requests, NEW step,
         NEW e \in Seq(Entry), Once(e),
         steps \in [Requests -> Steps], given \in [Requests -> Seq(Entry)],
         Good(h, given, steps),
         \A i \in 1 .. Len(e) : \E kind \in NotYet(steps[r]) \ NotYet(step) :
            e[i] = <<kind, r>>,
         \A i \in 1 .. Len(e) : \A b \in Behind : e[i] = <<b[1], r>> =>
            /\ i > 1 => e[i - 1] = <<b[2], r>>
            /\ i = 1 => EndsIn(h, b[2], r),
         \A i \in 1 .. Len(e) : e[i] = <<"ai", r>> => i = 2 /\ h = given[r],
         \A i \in 1 .. Len(e) : e[i] = <<"output", r>> => i = 1 /\ h = given[r],
         NotYet(step) \subseteq NotYet(steps[r])
  PROVE  Good(h \o e, given, [steps EXCEPT ![r] = step])
<1> DEFINE s == h \o e
           next == [steps EXCEPT ![r] = step]
<1>1. /\ s \in Seq(Entry) /\ Len(s) = Len(h) + Len(e)
      /\ \A i \in 1 .. Len(h) : s[i] = h[i]
      /\ \A i \in 1 .. Len(e) : s[Len(h) + i] = e[i]
      /\ \A i \in 1 .. Len(s) :
           \/ i \in 1 .. Len(h)
           \/ i - Len(h) \in 1 .. Len(e) /\ s[i] = e[i - Len(h)]
      /\ Len(h) \in Nat /\ Len(e) \in Nat
  <2>1. h \in Seq(Entry) /\ Len(h) \in Nat /\ Len(e) \in Nat
    BY DEF Good
  <2> QED BY <2>1, ConcatProperties
<1>2. \A q \in Requests : NotYet(next[q]) \subseteq NotYet(steps[q])
  OBVIOUS
<1>3. next[r] = step
  OBVIOUS
<1> HIDE DEF s, next
<1>4. Later(s, next)
  <2> SUFFICES ASSUME NEW i \in 1 .. Len(s), NEW q \in Requests,
                      NEW kind \in NotYet(next[q])
               PROVE  s[i] # <<kind, q>>
    BY DEF Later
  <2>1. CASE i <= Len(h)
    <3>1. i \in 1 .. Len(h) /\ s[i] = h[i]
      BY <1>1, <2>1
    <3> QED BY <1>2, <3>1 DEF Good, Later
  <2>2. CASE i - Len(h) \in 1 .. Len(e)
    <3>1. s[i] = e[i - Len(h)]
      BY <1>1, <2>2
    <3>2. PICK k \in NotYet(steps[r]) \ NotYet(step) : s[i] = <<k, r>>
      BY <2>2, <3>1
    <3> QED BY <1>3, <3>2
  <2> QED BY <1>1, <2>1, <2>2
<1>5. Once(s)
  <2> SUFFICES ASSUME NEW i \in 1 .. Len(s), NEW j \in 1 .. Len(s), s[i] = s[j]
               PROVE  i = j
    BY DEF Once
  <2>1. ASSUME NEW a \in 1 .. Len(h), NEW b \in 1 .. Len(e)
        PROVE  h[a] # e[b]
    <3>1. PICK k \in NotYet(steps[r]) : e[b] = <<k, r>>
      OBVIOUS
    <3>2. h[a] # <<k, r>>
      BY DEF Good, Later
    <3> QED BY <3>1, <3>2
  <2>2. CASE i <= Len(h) /\ j <= Len(h)
    BY <1>1, <2>2 DEF Good, Once
  <2>3. CASE i <= Len(h) /\ j - Len(h) \in 1 .. Len(e)
    <3>1. i \in 1 .. Len(h) /\ s[i] = h[i] /\ s[j] = e[j - Len(h)]
      BY <1>1, <2>3
    <3> QED BY <2>1, <2>3, <3>1
  <2>4. CASE i - Len(h) \in 1 .. Len(e) /\ j <= Len(h)
    <3>1. j \in 1 .. Len(h) /\ s[j] = h[j] /\ s[i] = e[i - Len(h)]
      BY <1>1, <2>4
    <3> QED BY <2>1, <2>4, <3>1
  <2>5. CASE i - Len(h) \in 1 .. Len(e) /\ j - Len(h) \in 1 .. Len(e)
    <3>1. s[i] = e[i - Len(h)] /\ s[j] = e[j - Len(h)]
      BY <1>1, <2>5
    <3>2. i - Len(h) = j - Len(h)
      BY <2>5, <3>1 DEF Once
    <3> QED BY <1>1, <3>2
  <2> QED BY <1>1, <2>2, <2>3, <2>4, <2>5
<1>6. InContext(s, given)
  <2> SUFFICES ASSUME NEW i \in 1 .. Len(s), NEW q \in Requests
               PROVE  /\ \A b \in Behind :
                           s[i] = <<b[1], q>> => i > 1 /\ s[i - 1] = <<b[2], q>>
                      /\ s[i] = <<"ai", q>> => Begins(s, i - 2, given[q])
                      /\ s[i] = <<"output", q>> => Begins(s, i - 1, given[q])
    BY DEF InContext
  <2>1. CASE i <= Len(h)
    <3>1. h[i] = s[i] /\ i \in 1 .. Len(h)
      BY <1>1, <2>1
    <3>2. \A k \in Nat : k < i => \A j \in 1 .. k : s[j] = h[j]
      BY <1>1, <2>1
    <3>3. ASSUME NEW k \in {1, 2}, Begins(h, i - k, given[q])
          PROVE  Begins(s, i - k, given[q])
      <4>1. Len(given[q]) \in Nat
        OBVIOUS
      <4>2. i - k \in Nat /\ i - k < i
        BY <3>3, <4>1 DEF Begins
      <4> QED BY <3>2, <3>3, <4>2 DEF Begins
    <3>4. /\ s[i] = <<"ai", q>> => Begins(s, i - 2, given[q])
          /\ s[i] = <<"output", q>> => Begins(s, i - 1, given[q])
      BY <3>1, <3>3 DEF Good, InContext
    <3>5. ASSUME NEW b \in Behind, s[i] = <<b[1], q>>
          PROVE  i > 1 /\ s[i - 1] = <<b[2], q>>
      <4>1. i > 1 /\ h[i - 1] = <<b[2], q>>
        BY <3>1, <3>5 DEF Good, InContext
      <4>2. i - 1 \in 1 .. Len(h)
        BY <1>1, <2>1, <4>1
      <4> QED BY <1>1, <4>1, <4>2
    <3> QED BY <3>4, <3>5
  <2>2. CASE i - Len(h) \in 1 .. Len(e)
    <3>1. s[i] = e[i - Len(h)]
      BY <1>1, <2>2
    <3>2. PICK k \in Tags : s[i] = <<k, r>>
      BY <2>2, <3>1 DEF NotYet, Tags
    <3>3. ASSUME s[i] = <<"ai", q>> \/ s[i] = <<"output", q>>
          PROVE  /\ q = r /\ h = given[r]
                 /\ s[i] = <<"ai", q>> => i = Len(h) + 2
                 /\ s[i] = <<"output", q>> => i = Len(h) + 1
      <4>1. q = r /\ e[i - Len(h)] = s[i]
        BY <3>1, <3>2, <3>3
      <4>2. /\ s[i] = <<"ai", q>> => i - Len(h) = 2 /\ h = given[r]
            /\ s[i] = <<"output", q>> => i - Len(h) = 1 /\ h = given[r]
        BY <2>2, <4>1
      <4> QED BY <1>1, <3>3, <4>1, <4>2
    <3>4. /\ s[i] = <<"ai", q>> => Begins(s, i - 2, given[q])
          /\ s[i] = <<"output", q>> => Begins(s, i - 1, given[q])
      <4>1. h = given[q] => Begins(s, Len(h), given[q])
        BY <1>1 DEF Begins
      <4>2. /\ i = Len(h) + 2 => i - 2 = Len(h)
            /\ i = Len(h) + 1 => i - 1 = Len(h)
        BY <1>1
      <4> QED BY <3>3, <4>1, <4>2
    <3>5. ASSUME NEW b \in Behind, s[i] = <<b[1], q>>
          PROVE  i > 1 /\ s[i - 1] = <<b[2], q>>
      <4>1. q = r /\ e[i - Len(h)] = <<b[1], r>>
        BY <3>1, <3>2, <3>5
      <4>2. CASE i - Len(h) > 1
        <5>1. e[(i - Len(h)) - 1] = <<b[2], r>>
          BY <2>2, <4>1, <4>2
        <5>2. i - 1 = Len(h) + ((i - Len(h)) - 1) /\ (i - Len(h)) - 1 \in 1 .. Len(e)
          BY <1>1, <2>2, <4>2
        <5>3. s[i - 1] = e[(i - Len(h)) - 1]
          BY <1>1, <5>2
        <5> QED BY <1>1, <4>1, <4>2, <5>1, <5>3
      <4>3. CASE i - Len(h) = 1
        <5>1. EndsIn(h, b[2], r)
          BY <2>2, <4>1, <4>3
        <5>2. i - 1 = Len(h) /\ Len(h) \in 1 .. Len(h)
          BY <1>1, <4>3, <5>1 DEF EndsIn
        <5> QED BY <1>1, <4>1, <5>1, <5>2 DEF EndsIn
      <4> QED BY <1>1, <2>2, <4>2, <4>3
    <3> QED BY <3>4, <3>5
  <2> QED BY <1>1, <2>1, <2>2
<1> QED BY <1>1, <1>4, <1>5, <1>6 DEF Good, s, next
-----------------------------------------------------------------------------
(* Steps *)

\* A new chat is a chat.
LEMMA NewChatType == NewChat \in Chat
  BY DEF NewChat, Chat, Titles

\* Every initial state satisfies the inductive invariant.
LEMMA InitIInv == Init => IInv
<1> SUFFICES ASSUME Init PROVE IInv
  OBVIOUS
<1>2. TypeOK /\ AskedWithCopy /\ EndingInv
  BY NewChatType, BoundAssumption DEF Init, TypeOK, AskedWithCopy, EndingInv, Ending
<1>3. /\ chat = NewChat /\ put.copy = NewChat /\ delete.copy = NewChat
      /\ \A r \in Requests : mem[r] = NewChat
  BY DEF Init
<1> QED BY <1>2, <1>3, NewGood DEF IInv

\* A save of request r that moves it to another step than "asked".
LEMMA SaveIInv ==
  ASSUME IInv, NEW r \in Requests, NEW step \in Steps \ {"asked"},
         NEW copy \in Chat, NEW kept \in {copy, NewChat},
         NotYet(step) \subseteq NotYet(pc[r]),
         Good(copy.history, seen, [pc EXCEPT ![r] = step]),
         Ending(step) # "none" => kept = copy /\ EndsIn(copy.history, Ending(step), r),
         chat' = copy, mem' = [mem EXCEPT ![r] = kept], Goto(r, step),
         UNCHANGED <<seen, alone, clients>>
  PROVE  IInv'
<1>1. UNCHANGED <<seen, put, delete, alone, puts>> /\ pc' = [pc EXCEPT ![r] = step]
  BY DEF clients, Goto
<1>3. TypeOK'
  BY <1>1, NewChatType DEF IInv, TypeOK, Steps
<1>2. mem \in [Requests -> Chat] /\ pc \in [Requests -> Steps]
  BY DEF IInv, TypeOK, Steps
<1>4. AskedWithCopy' /\ EndingInv'
  <2>1. /\ mem'[r] = kept /\ pc'[r] = step
        /\ \A q \in Requests : q # r => mem'[q] = mem[q] /\ pc'[q] = pc[q]
    BY <1>1, <1>2
  <2>2. step # "asked" /\ seen' = seen
    BY <1>1
  <2>3. AskedWithCopy'
    BY <2>1, <2>2 DEF IInv, AskedWithCopy
  <2>4. Ending(step) # "none" => EndsIn(kept.history, Ending(step), r)
    OBVIOUS
  <2>5. ASSUME NEW q \in Requests, Ending(pc'[q]) # "none"
        PROVE  EndsIn(mem'[q].history, Ending(pc'[q]), q)
    <3>1. CASE q = r
      BY <2>1, <2>4, <2>5, <3>1
    <3>2. CASE q # r
      BY <2>1, <2>5, <3>2 DEF IInv, EndingInv
    <3> QED BY <3>1, <3>2
  <2> QED BY <2>3, <2>5 DEF EndingInv
<1>5. \A q \in Requests : NotYet(pc'[q]) \subseteq NotYet(pc[q])
  BY <1>1 DEF IInv, TypeOK
<1>6. \A h : Good(h, seen, pc) => Good(h, seen, pc')
  BY <1>5, MoveGood
<1>7. Good(chat.history, seen, pc)'
  BY <1>1
<1>8. Good(put.copy.history, seen, pc)' /\ Good(delete.copy.history, seen, pc)'
  BY <1>1, <1>6 DEF IInv
<1>9. ASSUME NEW q \in Requests PROVE Good(mem[q].history, seen, pc)'
  <2>1. Good(kept.history, seen, pc')
    BY <1>1, NewGood
  <2>2. mem'[q] = IF q = r THEN kept ELSE mem[q]
    BY DEF IInv, TypeOK
  <2>3. Good(mem'[q].history, seen, pc')
    BY <1>6, <2>1, <2>2 DEF IInv
  <2> QED BY <1>1, <2>3
<1> QED BY <1>3, <1>4, <1>7, <1>8, <1>9 DEF IInv

\* A save that adds entries e of request r to its copy.
LEMMA AddIInv ==
  ASSUME IInv, NEW r \in Requests, NEW step \in Steps \ {"asked"},
         NEW e \in Seq(Entry), Once(e),
         NotYet(step) \subseteq NotYet(pc[r]),
         \A i \in 1 .. Len(e) :
           \E kind \in NotYet(pc[r]) \ NotYet(step) : e[i] = <<kind, r>>,
         \A i \in 1 .. Len(e) : \A b \in Behind : e[i] = <<b[1], r>> =>
           /\ i > 1 => e[i - 1] = <<b[2], r>>
           /\ i = 1 => b[2] = Ending(pc[r]),
         \A i \in 1 .. Len(e) : e[i] = <<"ai", r>> => i = 2 /\ pc[r] = "asked",
         \A i \in 1 .. Len(e) : e[i] = <<"output", r>> => i = 1 /\ pc[r] = "asked",
         Ending(step) # "none" => EndsIn(e, Ending(step), r),
         \/ Save(r, With(r, e))
         \/ SaveLast(r, With(r, e)) /\ Ending(step) = "none",
         Goto(r, step),
         UNCHANGED <<seen, alone, clients>>
  PROVE  IInv'
<1> DEFINE copy == With(r, e)
<1>1. mem[r] \in Chat /\ pc \in [Requests -> Steps] /\ seen \in [Requests -> Seq(Entry)]
  BY DEF IInv, TypeOK, Steps
<1>2. copy.history = mem[r].history \o e /\ copy \in Chat
  <2>1. mem[r].history \o e \in Seq(Entry)
    BY <1>1, ConcatProperties DEF Chat
  <2> QED BY <1>1, <2>1 DEF With, Chat
<1>3. Good(mem[r].history, seen, pc)
  BY DEF IInv
<1>4. pc[r] = "asked" => mem[r].history = seen[r]
  BY DEF IInv, AskedWithCopy
<1>5. Good(copy.history, seen, [pc EXCEPT ![r] = step])
  <2> DEFINE h == mem[r].history
  <2>1. Good(h, seen, pc) /\ (pc[r] = "asked" => h = seen[r])
    BY <1>3, <1>4
  <2>4. Ending(pc[r]) # "none" => EndsIn(h, Ending(pc[r]), r)
    BY DEF IInv, EndingInv
  <2> HIDE DEF h
  <2>2. /\ \A i \in 1 .. Len(e) : e[i] = <<"ai", r>> => i = 2 /\ h = seen[r]
        /\ \A i \in 1 .. Len(e) : e[i] = <<"output", r>> => i = 1 /\ h = seen[r]
    BY <2>1
  <2>5. \A i \in 1 .. Len(e) : \A b \in Behind : e[i] = <<b[1], r>> =>
          /\ i > 1 => e[i - 1] = <<b[2], r>>
          /\ i = 1 => EndsIn(h, b[2], r)
    BY <2>4 DEF Behind
  <2>3. Good(h \o e, seen, [pc EXCEPT ![r] = step])
    BY <1>1, <2>1, <2>2, <2>5, ExtendGood
  <2> QED BY <1>2, <2>3 DEF h
<1>8. Ending(step) # "none" => EndsIn(copy.history, Ending(step), r)
  <2>1. mem[r].history \in Seq(Entry)
    BY <1>1 DEF Chat
  <2>2. ASSUME EndsIn(e, Ending(step), r) PROVE EndsIn(mem[r].history \o e, Ending(step), r)
    BY <2>1, <2>2, ConcatProperties DEF EndsIn
  <2> QED BY <1>2, <2>2
<1>6. PICK kept \in {copy, NewChat} :
        mem' = [mem EXCEPT ![r] = kept] /\ (Ending(step) # "none" => kept = copy)
  BY DEF Save, SaveLast
<1>7. chat' = copy
  BY DEF Save, SaveLast
<1> HIDE DEF copy
<1> QED BY <1>2, <1>5, <1>6, <1>7, <1>8, SaveIInv

\* A turn is a prompt and an answer, or a prompt.
LEMMA TurnShape ==
  ASSUME NEW r \in Requests, NEW answered \in BOOLEAN
  PROVE  /\ Turn(r, answered) \in Seq(Entry)
         /\ Len(Turn(r, answered)) = IF answered THEN 2 ELSE 1
         /\ Turn(r, answered)[1] = <<"human", r>>
         /\ answered => Turn(r, answered)[2] = <<"ai", r>>
<1>1. CASE answered  BY <1>1 DEF Turn, Entry, Tags
<1>2. CASE ~answered BY <1>2 DEF Turn, Entry, Tags
<1> QED BY <1>1, <1>2

\* The entries on a query engine are one, or none.
LEMMA SourcesShape ==
  ASSUME NEW r \in Requests, NEW engine \in BOOLEAN
  PROVE  /\ Sources(r, engine) \in Seq(Entry)
         /\ Len(Sources(r, engine)) = IF engine THEN 1 ELSE 0
         /\ engine => Sources(r, engine)[1] = <<"source", r>>
<1>1. CASE engine  BY <1>1 DEF Sources, Entry, Tags
<1>2. CASE ~engine BY <1>2 DEF Sources, Entry, Tags
<1> QED BY <1>1, <1>2

\* The save of a single entry.
LEMMA OneIInv ==
  ASSUME IInv, NEW r \in Requests, NEW step \in Steps \ {"asked"},
         NEW kind \in Tags, kind \in NotYet(pc[r]), kind \notin NotYet(step),
         NotYet(step) \subseteq NotYet(pc[r]),
         \A b \in Behind : kind = b[1] => b[2] = Ending(pc[r]),
         kind \notin {"ai", "output"}, Ending(step) \in {"none", kind},
         \/ Save(r, With(r, <<<<kind, r>>>>))
         \/ SaveLast(r, With(r, <<<<kind, r>>>>)) /\ Ending(step) = "none",
         Goto(r, step), UNCHANGED <<seen, alone, clients>>
  PROVE  IInv'
<1> DEFINE e == <<<<kind, r>>>>
<1>1. e \in Seq(Entry) /\ Len(e) = 1 /\ e[1] = <<kind, r>>
  BY DEF Entry
<1>2. Save(r, With(r, e)) \/ (SaveLast(r, With(r, e)) /\ Ending(step) = "none")
  OBVIOUS
<1> HIDE DEF e
<1>3. Once(e) /\ EndsIn(e, kind, r)
  BY <1>1 DEF Once, EndsIn
<1>4. /\ \A i \in 1 .. Len(e) : \A b \in Behind : e[i] = <<b[1], r>> =>
           /\ i > 1 => e[i - 1] = <<b[2], r>>
           /\ i = 1 => b[2] = Ending(pc[r])
      /\ \A i \in 1 .. Len(e) : e[i] # <<"ai", r>> /\ e[i] # <<"output", r>>
      /\ \A i \in 1 .. Len(e) : \E k \in NotYet(pc[r]) \ NotYet(step) : e[i] = <<k, r>>
  BY <1>1
<1>5. Ending(step) # "none" => EndsIn(e, Ending(step), r)
  BY <1>3
<1> QED BY <1>1, <1>2, <1>3, <1>4, <1>5, AddIInv

\* The saves of a file, of a tool's files and of sources.
LEMMA EntryIInv ==
  ASSUME IInv, NEW r \in Requests, NEW engine \in BOOLEAN,
         AttachFile(r) \/ SaveResults(r) \/ SaveSources(r, engine)
  PROVE  IInv'
<1>1. CASE AttachFile(r)
  <2>1. /\ pc[r] = "ready" /\ Save(r, With(r, <<<<"file", r>>>>)) /\ Goto(r, "filed")
        /\ UNCHANGED <<seen, alone, clients>>
    BY <1>1 DEF AttachFile
  <2>2. /\ "file" \in NotYet(pc[r]) /\ "file" \notin NotYet("filed") /\ "file" \in Tags
        /\ NotYet("filed") \subseteq NotYet(pc[r]) /\ Ending("filed") = "none"
        /\ \A b \in Behind : "file" # b[1]
    BY <2>1 DEF NotYet, Tags, Ending, Behind
  <2> QED BY <2>1, <2>2, OneIInv DEF Steps
<1>2. CASE SaveResults(r)
  <2>1. /\ pc[r] = "answered" /\ Save(r, With(r, <<<<"result", r>>>>)) /\ Goto(r, "resulted")
        /\ UNCHANGED <<seen, alone, clients>>
    BY <1>2 DEF SaveResults
  <2>2. /\ "result" \in NotYet(pc[r]) /\ "result" \notin NotYet("resulted") /\ "result" \in Tags
        /\ NotYet("resulted") \subseteq NotYet(pc[r]) /\ Ending("resulted") = "none"
        /\ \A b \in Behind : "result" # b[1]
    BY <2>1 DEF NotYet, Tags, Ending, Behind
  <2> QED BY <2>1, <2>2, OneIInv DEF Steps
<1>3. CASE SaveSources(r, engine)
  <2> DEFINE e == Sources(r, engine)
  <2>1. /\ e \in Seq(Entry) /\ Once(e) /\ Len(e) \in {0, 1}
        /\ \A i \in 1 .. Len(e) : e[i] = <<"source", r>>
    BY DEF Entry, Tags, Once, Sources
  <2>2. /\ "source" \in NotYet(pc[r]) \ NotYet("done") /\ NotYet("done") \subseteq NotYet(pc[r])
        /\ Ending("done") = "none" /\ \A b \in Behind : "source" # b[1]
    BY <1>3 DEF SaveSources, NotYet, Ending, Behind
  <2> HIDE DEF e
  <2>3. /\ SaveLast(r, With(r, e)) /\ Goto(r, "done")
        /\ UNCHANGED <<seen, alone, clients>>
    BY <1>3 DEF SaveSources, e
  <2>4. /\ \A i \in 1 .. Len(e) : \A b \in Behind : e[i] # <<b[1], r>>
        /\ \A i \in 1 .. Len(e) : e[i] # <<"ai", r>> /\ e[i] # <<"output", r>>
        /\ \A i \in 1 .. Len(e) : \E k \in NotYet(pc[r]) \ NotYet("done") : e[i] = <<k, r>>
    BY <2>1, <2>2
  <2> QED BY <2>1, <2>2, <2>3, <2>4, AddIInv DEF Steps
<1> QED BY <1>1, <1>2, <1>3

\* The saves of a turn.
LEMMA TurnIInv ==
  ASSUME IInv, NEW r \in Requests, NEW answered \in BOOLEAN, NEW engine \in BOOLEAN,
         Answer(r, answered) \/ EndStream(r, answered, engine)
  PROVE  IInv'
<1>1. /\ pc[r] = "asked" /\ {"human", "ai", "source"} \subseteq NotYet(pc[r])
      /\ NotYet("answered") = {"result", "source"} /\ {"result", "source"} \subseteq NotYet(pc[r])
      /\ NotYet("done") = {} /\ Ending("answered") = "none" /\ Ending("done") = "none"
  BY DEF Answer, EndStream, NotYet, Tags, Ending
<1>4. \A b \in Behind : /\ b[1] # "human" /\ b[1] # "source"
                        /\ b[1] = "ai" => b[2] = "human"
  BY DEF Behind
<1>2. CASE Answer(r, answered)
  <2> DEFINE e == Turn(r, answered)
  <2>1. /\ e \in Seq(Entry) /\ Len(e) \in {1, 2} /\ e[1] = <<"human", r>>
        /\ Len(e) = 2 => e[2] = <<"ai", r>>
    BY TurnShape
  <2> HIDE DEF e
  <2>2. Once(e)
    BY <2>1 DEF Once
  <2>3. /\ \A i \in 1 .. Len(e) : \A b \in Behind : e[i] = <<b[1], r>> =>
             i = 2 /\ e[i - 1] = <<b[2], r>>
        /\ \A i \in 1 .. Len(e) : e[i] = <<"ai", r>> => i = 2
        /\ \A i \in 1 .. Len(e) : e[i] # <<"output", r>>
        /\ \A i \in 1 .. Len(e) :
             \E k \in NotYet(pc[r]) \ NotYet("answered") : e[i] = <<k, r>>
    BY <1>1, <1>4, <2>1
  <2>4. /\ Save(r, With(r, e)) /\ Goto(r, "answered")
        /\ UNCHANGED <<seen, alone, clients>>
    BY <1>2 DEF Answer, e
  <2> QED BY <1>1, <2>1, <2>2, <2>3, <2>4, AddIInv DEF Steps
<1>3. CASE EndStream(r, answered, engine)
  <2> DEFINE e == Turn(r, answered) \o Sources(r, engine)
  <2>1. /\ e \in Seq(Entry) /\ Len(e) \in {1, 2, 3} /\ e[1] = <<"human", r>>
        /\ Len(e) = 2 => e[2] = <<"ai", r>> \/ e[2] = <<"source", r>>
        /\ Len(e) = 3 => e[2] = <<"ai", r>> /\ e[3] = <<"source", r>>
    <3> DEFINE t == Turn(r, answered)
               u == Sources(r, engine)
    <3>1. /\ t \in Seq(Entry) /\ u \in Seq(Entry)
          /\ Len(t) = IF answered THEN 2 ELSE 1
          /\ Len(u) = IF engine THEN 1 ELSE 0
          /\ t[1] = <<"human", r>> /\ (answered => t[2] = <<"ai", r>>)
          /\ engine => u[1] = <<"source", r>>
      BY TurnShape, SourcesShape
    <3> HIDE DEF t, u
    <3>2. /\ t \o u \in Seq(Entry) /\ Len(t \o u) = Len(t) + Len(u)
          /\ \A i \in 1 .. Len(t) + Len(u) :
               (t \o u)[i] = IF i <= Len(t) THEN t[i] ELSE u[i - Len(t)]
      BY <3>1, ConcatProperties
    <3>3. CASE answered /\ engine
      <4>1. Len(t \o u) = 3 /\ (t \o u)[1] = t[1] /\ (t \o u)[2] = t[2] /\ (t \o u)[3] = u[1]
        BY <3>1, <3>2, <3>3
      <4> QED BY <3>1, <3>2, <3>3, <4>1 DEF t, u
    <3>4. CASE answered /\ ~engine
      <4>1. Len(t \o u) = 2 /\ (t \o u)[1] = <<"human", r>> /\ (t \o u)[2] = <<"ai", r>>
        BY <3>1, <3>2, <3>4
      <4>2. t \o u \in Seq(Entry)
        BY <3>2
      <4> QED BY <4>1, <4>2 DEF t, u
    <3>5. CASE ~answered BY <3>1, <3>2, <3>5 DEF t, u
    <3> QED BY <3>3, <3>4, <3>5
  <2> HIDE DEF e
  <2>2. Once(e)
    BY <2>1 DEF Once
  <2>3. /\ \A i \in 1 .. Len(e) : \A b \in Behind : e[i] = <<b[1], r>> =>
             i = 2 /\ e[i - 1] = <<b[2], r>>
        /\ \A i \in 1 .. Len(e) : e[i] = <<"ai", r>> => i = 2
        /\ \A i \in 1 .. Len(e) : e[i] # <<"output", r>>
        /\ \A i \in 1 .. Len(e) :
             \E k \in NotYet(pc[r]) \ NotYet("done") : e[i] = <<k, r>>
    <3>1. \A i \in 1 .. Len(e) :
            \/ i = 1 /\ e[i] = <<"human", r>>
            \/ i = 2 /\ e[i] = <<"ai", r>>
            \/ e[i] = <<"source", r>>
      BY <2>1
    <3> QED BY <1>1, <1>4, <2>1, <3>1
  <2>4. /\ SaveLast(r, With(r, e)) /\ Goto(r, "done")
        /\ UNCHANGED <<seen, alone, clients>>
    BY <1>3 DEF EndStream, e
  <2> QED BY <1>1, <2>1, <2>2, <2>3, <2>4, AddIInv DEF Steps
<1> QED BY <1>2, <1>3

\* A save that leaves the history of the copy as it was.
LEMMA SameIInv ==
  ASSUME IInv, NEW r \in Requests, NEW step \in Steps \ {"asked"},
         NEW copy \in Chat, NEW kept \in {copy, NewChat},
         copy.history = mem[r].history,
         NotYet(step) \subseteq NotYet(pc[r]),
         Ending(step) # "none" => kept = copy /\ Ending(step) = Ending(pc[r]),
         chat' = copy, mem' = [mem EXCEPT ![r] = kept], Goto(r, step),
         UNCHANGED <<seen, alone, clients>>
  PROVE  IInv'
<1>1. pc \in [Requests -> Steps]
  BY DEF IInv, TypeOK, Steps
<1>2. Good(copy.history, seen, [pc EXCEPT ![r] = step])
  <2>1. \A q \in Requests : NotYet([pc EXCEPT ![r] = step][q]) \subseteq NotYet(pc[q])
    BY <1>1
  <2>2. Good(mem[r].history, seen, pc)
    BY DEF IInv
  <2> QED BY <2>1, <2>2, MoveGood
<1>3. Ending(step) # "none" => EndsIn(copy.history, Ending(step), r)
  BY DEF IInv, EndingInv
<1> QED BY <1>2, <1>3, SaveIInv

\* A save of the title.
LEMMA SaveTitleIInv ==
  ASSUME IInv, NEW r \in Requests, SaveTitle(r)
  PROVE  IInv'
<1> DEFINE copy == [mem[r] EXCEPT !.title = "summary"]
<1>1. copy \in Chat /\ copy.history = mem[r].history
  BY DEF IInv, TypeOK, Chat, Titles
<1>2. pc[r] = "untitled" /\ chat' = copy /\ UNCHANGED <<seen, alone, clients>>
  BY DEF SaveTitle, Save, SaveLast
<1>3. PICK step \in {"ready", "done"}, kept \in {copy, NewChat} :
        Goto(r, step) /\ mem' = [mem EXCEPT ![r] = kept]
  BY DEF SaveTitle, Save, SaveLast
<1> HIDE DEF copy
<1>4. NotYet(step) \subseteq NotYet(pc[r]) /\ Ending(step) = "none"
  BY <1>2 DEF NotYet, Ending
<1> QED BY <1>1, <1>2, <1>3, <1>4, SameIInv DEF Steps

\* The second save of an entry.
LEMMA SaveAgainIInv ==
  ASSUME IInv, NEW r \in Requests, SaveAgain(r)
  PROVE  IInv'
<1>1. mem[r] \in Chat /\ chat' = mem[r] /\ UNCHANGED <<seen, alone, clients>>
  BY DEF IInv, TypeOK, SaveAgain, Save, SaveLast
<1>2. PICK step \in {"intent", "routed", "queued", "working", "done"} :
        /\ Goto(r, step)
        /\ mem' = [mem EXCEPT ![r] = IF step \in {"queued", "done"} THEN NewChat ELSE mem[r]]
        /\ \/ pc[r] = "prompted" /\ step = "intent"
           \/ pc[r] = "chosen" /\ step = "routed"
           \/ pc[r] = "chosen" /\ step = "queued"
           \/ pc[r] = "noted" /\ step = "working"
           \/ pc[r] = "replied" /\ step = "done"
  BY DEF SaveAgain, Save, SaveLast
<1>3. /\ NotYet(step) \subseteq NotYet(pc[r])
      /\ Ending(step) # "none" => step \notin {"queued", "done"} /\ Ending(step) = Ending(pc[r])
  BY <1>2 DEF NotYet, Ending
<1>4. PICK kept \in {mem[r], NewChat} :
        mem' = [mem EXCEPT ![r] = kept] /\ (Ending(step) # "none" => kept = mem[r])
  BY <1>2, <1>3
<1> QED BY <1>1, <1>2, <1>3, <1>4, SameIInv DEF Steps

\* The single entries of dispatches and plans.
LEMMA DispatchIInv ==
  ASSUME IInv, NEW r \in Requests,
         SavePrompt(r) \/ SaveRoute(r) \/ NoteJob(r) \/ Reply(r) \/ SaveExecuted(r)
  PROVE  IInv'
<1>1. PICK kind \in {"human", "route", "job", "reply", "late", "ran"},
           step \in {"prompted", "chosen", "noted", "replied", "executed"} :
        /\ Save(r, With(r, <<<<kind, r>>>>)) /\ Goto(r, step)
        /\ \/ pc[r] = "ready" /\ kind = "human" /\ step = "prompted"
           \/ pc[r] = "intent" /\ kind = "route" /\ step = "chosen"
           \/ pc[r] = "picked" /\ kind = "job" /\ step = "noted"
           \/ pc[r] = "routed" /\ kind = "reply" /\ step = "replied"
           \/ pc[r] = "working" /\ kind = "late" /\ step = "replied"
           \/ pc[r] = "ready" /\ kind = "ran" /\ step = "executed"
  BY DEF SavePrompt, SaveRoute, NoteJob, Reply, SaveExecuted
<1>2. UNCHANGED <<seen, alone, clients>>
  BY DEF SavePrompt, SaveRoute, NoteJob, Reply, SaveExecuted
<1>3. /\ kind \in Tags /\ kind \in NotYet(pc[r]) /\ kind \notin NotYet(step)
      /\ NotYet(step) \subseteq NotYet(pc[r])
  BY <1>1 DEF NotYet, Tags
<1>4. /\ \A b \in Behind : kind = b[1] => b[2] = Ending(pc[r])
      /\ Ending(step) \in {"none", kind}
  BY <1>1 DEF Behind, Ending
<1> QED BY <1>1, <1>2, <1>3, <1>4, OneIInv DEF Steps

\* The output and the log of an agent, or of a plan.
LEMMA OutputIInv ==
  ASSUME IInv, NEW r \in Requests, NEW answered \in BOOLEAN,
         SaveOutput(r, answered) \/ SavePlanLog(r, answered)
  PROVE  IInv'
<1>1. CASE SaveOutput(r, answered) /\ answered
  <2> DEFINE e == <<<<"output", r>>, <<"log", r>>>>
  <2>1. e \in Seq(Entry) /\ Len(e) = 2 /\ e[1] = <<"output", r>> /\ e[2] = <<"log", r>>
    BY DEF Entry, Tags
  <2>2. /\ pc[r] = "asked" /\ Save(r, With(r, e)) /\ Goto(r, "ran")
        /\ UNCHANGED <<seen, alone, clients>>
    BY <1>1 DEF SaveOutput
  <2> HIDE DEF e
  <2>3. Once(e)
    BY <2>1 DEF Once
  <2>4. /\ {"output", "log"} \subseteq NotYet(pc[r]) \ NotYet("ran")
        /\ NotYet("ran") \subseteq NotYet(pc[r]) /\ Ending("ran") = "none"
        /\ \A b \in Behind : b[1] # "output" /\ b[1] # "log"
    BY <2>2 DEF NotYet, Tags, Ending, Behind
  <2>5. /\ \A i \in 1 .. Len(e) : \A b \in Behind : e[i] # <<b[1], r>>
        /\ \A i \in 1 .. Len(e) : e[i] # <<"ai", r>>
        /\ \A i \in 1 .. Len(e) : e[i] = <<"output", r>> => i = 1
        /\ \A i \in 1 .. Len(e) : \E k \in NotYet(pc[r]) \ NotYet("ran") : e[i] = <<k, r>>
    BY <2>1, <2>4
  <2> QED BY <2>1, <2>2, <2>3, <2>4, <2>5, AddIInv DEF Steps
<1>2. CASE SaveOutput(r, answered) /\ ~answered
  <2>1. /\ pc[r] = "asked" /\ Save(r, With(r, <<<<"log", r>>>>)) /\ Goto(r, "ran")
        /\ UNCHANGED <<seen, alone, clients>>
    BY <1>2 DEF SaveOutput
  <2>2. /\ "log" \in NotYet(pc[r]) /\ "log" \notin NotYet("ran") /\ "log" \in Tags
        /\ NotYet("ran") \subseteq NotYet(pc[r]) /\ Ending("ran") = "none"
        /\ \A b \in Behind : "log" # b[1]
    BY <2>1 DEF NotYet, Tags, Ending, Behind
  <2> QED BY <2>1, <2>2, OneIInv DEF Steps
<1>3. CASE SavePlanLog(r, answered) /\ answered
  <2>1. /\ pc[r] = "executed" /\ Save(r, With(r, <<<<"log", r>>>>)) /\ Goto(r, "replied")
        /\ UNCHANGED <<seen, alone, clients>>
    BY <1>3 DEF SavePlanLog
  <2>2. /\ "log" \in NotYet(pc[r]) /\ "log" \notin NotYet("replied") /\ "log" \in Tags
        /\ NotYet("replied") \subseteq NotYet(pc[r]) /\ Ending("replied") = "none"
        /\ \A b \in Behind : "log" # b[1]
    BY <2>1 DEF NotYet, Tags, Ending, Behind
  <2> QED BY <2>1, <2>2, OneIInv DEF Steps
<1>4. CASE SavePlanLog(r, answered) /\ ~answered
  <2> DEFINE copy == With(r, <<>>)
  <2>1. copy \in Chat /\ copy.history = mem[r].history
    <3>1. mem[r] \in Chat /\ mem[r].history \in Seq(Entry)
      BY DEF IInv, TypeOK, Chat
    <3>2. mem[r].history \o <<>> = mem[r].history
      BY <3>1
    <3> QED BY <3>1, <3>2 DEF With, Chat
  <2>2. /\ pc[r] = "executed" /\ chat' = copy /\ mem' = [mem EXCEPT ![r] = copy]
        /\ Goto(r, "replied") /\ UNCHANGED <<seen, alone, clients>>
    BY <1>4 DEF SavePlanLog, Save
  <2>3. NotYet("replied") \subseteq NotYet(pc[r]) /\ Ending("replied") = "none"
    BY <2>2 DEF NotYet, Ending
  <2> HIDE DEF copy
  <2> QED BY <2>1, <2>2, <2>3, SameIInv DEF Steps
<1> QED BY <1>1, <1>2, <1>3, <1>4

\* The prompt and the output of an agent, once it has run.
LEMMA AgentTurnIInv ==
  ASSUME IInv, NEW r \in Requests, SaveAgentTurn(r)
  PROVE  IInv'
<1> DEFINE e == <<<<"human", r>>, <<"again", r>>>>
<1>1. e \in Seq(Entry) /\ Len(e) = 2 /\ e[1] = <<"human", r>> /\ e[2] = <<"again", r>>
  BY DEF Entry, Tags
<1>2. /\ pc[r] = "ran" /\ SaveLast(r, With(r, e)) /\ Goto(r, "done")
      /\ UNCHANGED <<seen, alone, clients>>
  BY DEF SaveAgentTurn
<1> HIDE DEF e
<1>3. Once(e)
  BY <1>1 DEF Once
<1>4. /\ {"human", "again"} \subseteq NotYet(pc[r]) \ NotYet("done")
      /\ NotYet("done") \subseteq NotYet(pc[r]) /\ Ending("done") = "none"
      /\ \A b \in Behind : b[1] # "human" /\ (b[1] = "again" => b[2] = "human")
  BY <1>2 DEF NotYet, Ending, Behind
<1>5. /\ \A i \in 1 .. Len(e) : \A b \in Behind : e[i] = <<b[1], r>> =>
           i = 2 /\ e[i - 1] = <<b[2], r>>
      /\ \A i \in 1 .. Len(e) : e[i] # <<"ai", r>> /\ e[i] # <<"output", r>>
      /\ \A i \in 1 .. Len(e) : \E k \in NotYet(pc[r]) \ NotYet("done") : e[i] = <<k, r>>
  BY <1>1, <1>4
<1> QED BY <1>1, <1>2, <1>3, <1>4, <1>5, AddIInv DEF Steps

\* A request, or its job, reads the chat, or fails, and no history changes.
LEMMA ReadIInv ==
  ASSUME IInv, NEW r \in Requests, Read(r) \/ PickUp(r) \/ Fail(r)
  PROVE  IInv'
<1>1. PICK kept \in {chat, NewChat}, step \in {"untitled", "ready", "picked", "failed"} :
        /\ mem' = [mem EXCEPT ![r] = kept] /\ pc' = [pc EXCEPT ![r] = step]
        /\ \/ pc[r] = "start" /\ step \in {"untitled", "ready"}
           \/ pc[r] = "queued" /\ step = "picked"
           \/ step = "failed"
  BY DEF Read, PickUp, Fail, Goto
<1>2. /\ UNCHANGED <<chat, seen, put, delete, puts>>
      /\ alone' \in BOOLEAN
  BY DEF Read, PickUp, Fail, clients, IInv, TypeOK
<1>3. TypeOK'
  BY <1>1, <1>2, NewChatType DEF IInv, TypeOK
<1>4. AskedWithCopy' /\ EndingInv'
  <2>1. Ending(step) = "none"
    BY DEF Ending
  <2>2. mem \in [Requests -> Chat] /\ pc \in [Requests -> Steps]
    BY DEF IInv, TypeOK, Steps
  <2>3. /\ pc'[r] = step /\ step # "asked"
        /\ \A q \in Requests : q # r => mem'[q] = mem[q] /\ pc'[q] = pc[q]
    BY <1>1, <2>2
  <2>4. AskedWithCopy'
    BY <1>2, <2>3 DEF IInv, AskedWithCopy
  <2>5. EndingInv'
    BY <2>1, <2>3 DEF IInv, EndingInv
  <2> QED BY <2>4, <2>5
<1>5. \A q \in Requests : NotYet(pc'[q]) \subseteq NotYet(pc[q])
  BY <1>1 DEF IInv, TypeOK, NotYet
<1>6. \A h : Good(h, seen, pc) => Good(h, seen, pc')
  BY <1>5, MoveGood
<1>7. /\ Good(chat.history, seen, pc)' /\ Good(put.copy.history, seen, pc)'
      /\ Good(delete.copy.history, seen, pc)'
  BY <1>2, <1>6 DEF IInv
<1>8. ASSUME NEW q \in Requests PROVE Good(mem[q].history, seen, pc)'
  <2>1. Good(kept.history, seen, pc)
    BY NewGood DEF IInv
  <2>2. mem'[q] = IF q = r THEN kept ELSE mem[q]
    BY <1>1 DEF IInv, TypeOK
  <2>3. Good(mem'[q].history, seen, pc')
    BY <1>6, <2>1, <2>2 DEF IInv
  <2> QED BY <1>2, <2>3
<1> QED BY <1>3, <1>4, <1>7, <1>8 DEF IInv

\* The model is asked: what it is given is noted, and no answer is there yet.
LEMMA AskIInv ==
  ASSUME IInv, NEW r \in Requests, Ask(r)
  PROVE  IInv'
<1>1. /\ pc[r] \in {"ready", "filed"} /\ pc' = [pc EXCEPT ![r] = "asked"]
      /\ seen' = [seen EXCEPT ![r] = mem[r].history]
      /\ UNCHANGED <<chat, mem, alone, put, puts, delete>>
  BY DEF Ask, Goto, clients
<1>2. /\ mem[r].history \in Seq(Entry) /\ seen \in [Requests -> Seq(Entry)]
      /\ pc \in [Requests -> Steps]
  BY DEF IInv, TypeOK, Chat, Steps
<1>3. TypeOK'
  BY <1>1, <1>2 DEF IInv, TypeOK
<1>4. AskedWithCopy' /\ EndingInv'
  <2>1. Ending("asked") = "none"
    BY DEF Ending
  <2> QED BY <1>1, <1>2, <2>1 DEF IInv, AskedWithCopy, EndingInv
<1>5. \A q \in Requests : NotYet(pc'[q]) \subseteq NotYet(pc[q])
  BY <1>1, <1>2 DEF NotYet
<1>6. {"ai", "output"} \subseteq NotYet(pc[r])
  BY <1>1 DEF NotYet, Tags
<1>7. ASSUME NEW h, Good(h, seen, pc) PROVE Good(h, seen', pc')
  <2>1. Good(h, seen', pc)
    BY <1>1, <1>2, <1>6, <1>7, AskGood
  <2> QED BY <1>5, <2>1, MoveGood
<1> QED BY <1>1, <1>3, <1>4, <1>7 DEF IInv

\* What clients store or copy is a copy of the chat, a prefix of it, or new.
LEMMA ClientIInv ==
  ASSUME IInv, Client
  PROVE  IInv'
<1> DEFINE Fine(copy) == copy \in Chat /\ Good(copy.history, seen, pc)
<1>1. Fine(NewChat) /\ Fine(chat) /\ Fine(put.copy) /\ Fine(delete.copy)
  BY NewChatType, NewGood DEF IInv, TypeOK
<1>2. UNCHANGED <<mem, pc, seen>>
  BY DEF Client, PutRead, PutWrite, SoftDeleteRead, SoftDeleteWrite, HardDelete
<1>3. ASSUME Fine(chat'), Fine(put'.copy), Fine(delete'.copy), TypeOK'
      PROVE  IInv'
  BY <1>2, <1>3 DEF IInv, AskedWithCopy, EndingInv
<1>4. CASE \E setsTitle \in BOOLEAN, n \in 0 .. Len(chat.history) : PutRead(setsTitle, n)
  <2>1. PICK setsTitle \in BOOLEAN, n \in 0 .. Len(chat.history) : PutRead(setsTitle, n)
    BY <1>4
  <2>2. Good(SubSeq(chat.history, 1, n), seen, pc)
    BY <1>1, PrefixGood
  <2>3. /\ put'.copy = [chat EXCEPT !.title = IF setsTitle THEN "user" ELSE @,
                                    !.history = SubSeq(@, 1, n)]
        /\ put'.step = "write" /\ put' = [step |-> "write", copy |-> put'.copy]
        /\ puts' = puts + 1 /\ puts < MaxPuts /\ alone' \in BOOLEAN
        /\ UNCHANGED <<chat, delete>>
    BY <2>1 DEF PutRead, IInv, TypeOK
  <2>4. Fine(put'.copy)
    BY <1>1, <2>2, <2>3 DEF Chat, Titles, Good
  <2>5. TypeOK'
    BY <1>2, <2>3, <2>4, BoundAssumption DEF IInv, TypeOK
  <2> QED BY <1>1, <1>3, <2>3, <2>4, <2>5
<1>5. CASE PutWrite
  <2>1. Fine(chat') /\ Fine(put'.copy) /\ Fine(delete'.copy)
    BY <1>1, <1>5 DEF PutWrite
  <2>2. TypeOK'
    BY <1>5, <2>1 DEF IInv, TypeOK, PutWrite
  <2> QED BY <1>3, <2>1, <2>2
<1>6. CASE SoftDeleteRead
  <2>1. Fine(chat') /\ Fine(put'.copy) /\ Fine(delete'.copy)
    BY <1>1, <1>6 DEF SoftDeleteRead
  <2>2. TypeOK'
    BY <1>6, <2>1 DEF IInv, TypeOK, SoftDeleteRead
  <2> QED BY <1>3, <2>1, <2>2
<1>7. CASE SoftDeleteWrite
  <2>1. /\ UNCHANGED <<put, puts, alone>> /\ delete' = [step |-> "done", copy |-> NewChat]
        /\ chat' = chat \/ chat' = [delete.copy EXCEPT !.deleted = TRUE]
    BY <1>7 DEF SoftDeleteWrite
  <2>2. Fine([delete.copy EXCEPT !.deleted = TRUE])
    BY <1>1 DEF Chat
  <2>3. Fine(chat') /\ Fine(put'.copy) /\ Fine(delete'.copy)
    BY <1>1, <2>1, <2>2
  <2>4. TypeOK'
    BY <1>2, <2>1, <2>3 DEF IInv, TypeOK
  <2> QED BY <1>3, <2>3, <2>4
<1>8. CASE HardDelete
  <2>1. /\ UNCHANGED <<put, puts>> /\ delete' = [step |-> "done", copy |-> NewChat]
        /\ alone' \in BOOLEAN /\ chat' = [chat EXCEPT !.there = FALSE]
    BY <1>8 DEF HardDelete, IInv, TypeOK
  <2>2. Fine([chat EXCEPT !.there = FALSE])
    BY <1>1 DEF Chat
  <2>3. Fine(chat') /\ Fine(put'.copy) /\ Fine(delete'.copy)
    BY <1>1, <2>1, <2>2
  <2>4. TypeOK'
    BY <1>2, <2>1, <2>3 DEF IInv, TypeOK
  <2> QED BY <1>3, <2>3, <2>4
<1> QED BY <1>4, <1>5, <1>6, <1>7, <1>8 DEF Client

-----------------------------------------------------------------------------
(* Theorems *)

\* The inductive invariant holds in every reachable state.
THEOREM Invariance == Spec => []IInv
<1>1. ASSUME IInv, [Next]_vars PROVE IInv'
  <2>1. ASSUME NEW r \in Requests, Generate(r) PROVE IInv'
    <3>1. CASE SaveTitle(r)         BY <1>1, <3>1, SaveTitleIInv
    <3>2. CASE Read(r) \/ Fail(r)   BY <1>1, <3>2, ReadIInv
    <3>3. CASE Ask(r)               BY <1>1, <3>3, AskIInv
    <3>4. CASE \E engine \in BOOLEAN :
                 AttachFile(r) \/ SaveResults(r) \/ SaveSources(r, engine)
      BY <1>1, <3>4, EntryIInv
    <3>5. CASE \E answered, engine \in BOOLEAN :
                 Answer(r, answered) \/ EndStream(r, answered, engine)
      BY <1>1, <3>5, TurnIInv
    <3> QED BY <2>1, <3>1, <3>2, <3>3, <3>4, <3>5 DEF Generate
  <2>2. CASE Client
    BY <1>1, <2>2, ClientIInv
  <2>3. CASE UNCHANGED vars
    <3>1. UNCHANGED <<chat, mem, pc, seen, put, puts, delete, alone>>
      BY <2>3 DEF vars
    <3>2. TypeOK' /\ AskedWithCopy' /\ EndingInv'
      BY <1>1, <3>1 DEF IInv, TypeOK, AskedWithCopy, EndingInv
    <3> QED BY <1>1, <3>1, <3>2 DEF IInv
  <2>4. ASSUME NEW r \in Requests, RunAgent(r) PROVE IInv'
    BY <1>1, <2>4, ReadIInv, SaveAgainIInv, DispatchIInv, OutputIInv, AgentTurnIInv
       DEF RunAgent
  <2> QED BY <1>1, <2>1, <2>2, <2>3, <2>4 DEF Next
<1> QED BY <1>1, InitIInv, PTL DEF Spec

\* The chat, the copies and the requests keep their types.
THEOREM TypeCorrect == Spec => []TypeOK
  BY Invariance, PTL DEF IInv

\* Whatever overlaps: an answer stands right behind its own prompt, route or job,
\* and before its prompt stands the history it was generated from.
THEOREM ContextSound == Spec => []AnsweredInContext
<1>1. ASSUME NEW h \in Seq(Entry), NEW n \in Nat, n <= Len(h), NEW given \in Seq(Entry),
             Begins(h, n, given)
      PROVE  SubSeq(h, 1, n) = given
  <2>1. Len(h) \in Nat /\ \A j \in 1 .. n : h[j] \in Entry
    <3>1. Len(h) \in Nat /\ 1 .. n \subseteq 1 .. Len(h)
      BY <1>1
    <3>2. \A j \in 1 .. Len(h) : h[j] \in Entry
      OBVIOUS
    <3> QED BY <3>1, <3>2
  <2>2. /\ SubSeq(h, 1, n) \in Seq(Entry) /\ Len(SubSeq(h, 1, n)) = n
        /\ \A j \in 1 .. n : SubSeq(h, 1, n)[j] = h[j]
    BY <1>1, <2>1, SubSeqProperties
  <2> QED BY <1>1, <2>2, SeqEqual DEF Begins
<1>2. IInv => AnsweredInContext
  <2> DEFINE h == chat.history
  <2> SUFFICES ASSUME IInv, NEW i \in DOMAIN h, NEW r \in Requests
               PROVE  /\ \A b \in Behind : h[i] = <<b[1], r>> =>
                           i > 1 /\ h[i - 1] = <<b[2], r>>
                      /\ h[i] = <<"ai", r>> => SubSeq(h, 1, i - 2) = seen[r]
                      /\ h[i] = <<"output", r>> => SubSeq(h, 1, i - 1) = seen[r]
    BY DEF AnsweredInContext
  <2>1. /\ h \in Seq(Entry) /\ seen[r] \in Seq(Entry) /\ i \in 1 .. Len(h)
        /\ Len(h) \in Nat /\ InContext(h, seen)
    BY DEF IInv, TypeOK, Chat, Good
  <2> HIDE DEF h
  <2>2. /\ \A b \in Behind : h[i] = <<b[1], r>> => i > 1 /\ h[i - 1] = <<b[2], r>>
        /\ h[i] = <<"ai", r>> => i > 1 /\ Begins(h, i - 2, seen[r])
        /\ h[i] = <<"output", r>> => Begins(h, i - 1, seen[r])
    <3>1. <<"ai", "human">> \in Behind
      BY DEF Behind
    <3> QED BY <2>1, <3>1 DEF InContext
  <2>3. ASSUME h[i] = <<"ai", r>> PROVE SubSeq(h, 1, i - 2) = seen[r]
    <3>1. i - 2 \in Nat /\ i - 2 <= Len(h)
      BY <2>1, <2>2, <2>3
    <3> QED BY <1>1, <2>1, <2>2, <2>3, <3>1
  <2>4. ASSUME h[i] = <<"output", r>> PROVE SubSeq(h, 1, i - 1) = seen[r]
    <3>1. i - 1 \in Nat /\ i - 1 <= Len(h)
      BY <2>1
    <3> QED BY <1>1, <2>1, <2>2, <2>4, <3>1
  <2> QED BY <2>2, <2>3, <2>4
<1> QED BY <1>2, Invariance, PTL

\* No entry of a request stands in the history twice.
THEOREM OnceSound == Spec => []EntriesOnce
<1>1. IInv => EntriesOnce
  BY DEF IInv, Good, Once, EntriesOnce
<1> QED BY <1>1, Invariance, PTL
-----------------------------------------------------------------------------
(* Requests that do not overlap *)

Calm == alone /\ puts = 0 /\ delete.step = "idle"

\* A request has saved its prompt.
Served(r) ==
  \/ pc[r] \in {"answered", "resulted", "prompted", "intent", "chosen", "routed", "queued",
               "picked", "noted", "working"}
  \/ pc[r] \in {"replied", "done"} /\ Kind[r] \notin {"summary", "plan"}

Prompted(h, r) == \E i \in 1 .. Len(h) : h[i] = <<"human", r>>

\* As long as nothing overlapped, one request is under way at a time, its copy
\* has the history that is stored, and that has the prompts served so far.
CalmInv ==
  /\ puts = 0 => put.step = "idle"
  /\ \A r \in Requests : pc[r] = "executed" => Kind[r] = "plan"
  /\ Calm =>
       /\ \A r, s \in Requests : pc[r] \notin Final /\ pc[s] \notin Final => r = s
       /\ \A r \in Requests : pc[r] \notin Final => mem[r].history = chat.history
       /\ \A r \in Requests : Served(r) => Prompted(chat.history, r)

\* What a history holds it holds when it is extended.
LEMMA StillPrompted ==
  ASSUME NEW h \in Seq(Entry), NEW e \in Seq(Entry), NEW r \in Requests,
         Prompted(h, r) \/ (Len(e) > 0 /\ e[1] = <<"human", r>>)
  PROVE  Prompted(h \o e, r)
<1>1. /\ Len(h \o e) = Len(h) + Len(e) /\ Len(h) \in Nat /\ Len(e) \in Nat
      /\ \A i \in 1 .. Len(h) : (h \o e)[i] = h[i]
      /\ \A i \in 1 .. Len(e) : (h \o e)[Len(h) + i] = e[i]
  BY ConcatProperties
<1>2. CASE Prompted(h, r)
  <2>1. PICK i \in 1 .. Len(h) : h[i] = <<"human", r>>
    BY <1>2 DEF Prompted
  <2>2. i \in 1 .. Len(h \o e) /\ (h \o e)[i] = <<"human", r>>
    BY <1>1, <2>1
  <2> QED BY <2>2 DEF Prompted
<1>3. CASE Len(e) > 0 /\ e[1] = <<"human", r>>
  <2>1. Len(h) + 1 \in 1 .. Len(h \o e) /\ (h \o e)[Len(h) + 1] = <<"human", r>>
    BY <1>1, <1>3
  <2> QED BY <2>1 DEF Prompted
<1> QED BY <1>2, <1>3

\* A save of the only request under way extends what is stored.
LEMMA SaveCalm ==
  ASSUME IInv, CalmInv, NEW r \in Requests, pc[r] \notin Final,
         NEW e \in Seq(Entry), NEW copy, copy.history = mem[r].history \o e,
         NEW step \in Steps, Goto(r, step), step = "executed" => Kind[r] = "plan",
         Save(r, copy) \/ (SaveLast(r, copy) /\ step \in Final),
         Served(r)' => Served(r) \/ (Len(e) > 0 /\ e[1] = <<"human", r>>),
         UNCHANGED <<alone, clients>>
  PROVE  CalmInv'
<1>1. /\ pc' = [pc EXCEPT ![r] = step] /\ chat' = copy
      /\ UNCHANGED <<alone, put, puts, delete>> /\ pc \in [Requests -> Steps]
      /\ mem \in [Requests -> Chat]
  BY DEF Goto, Save, SaveLast, clients, IInv, TypeOK, Steps
<1>2. /\ pc'[r] = step /\ \A q \in Requests : q # r => pc'[q] = pc[q]
      /\ step \notin Final => mem'[r] = copy
      /\ \A q \in Requests : q # r => mem'[q] = mem[q]
  BY <1>1 DEF Save, SaveLast
<1>3. /\ puts' = 0 => put'.step = "idle"
      /\ \A q \in Requests : pc'[q] = "executed" => Kind[q] = "plan"
  BY <1>1, <1>2 DEF CalmInv
<1>4. SUFFICES ASSUME Calm'
               PROVE  /\ \A q, s \in Requests : pc'[q] \notin Final /\ pc'[s] \notin Final => q = s
                      /\ \A q \in Requests :
                           pc'[q] \notin Final => mem'[q].history = chat'.history
                      /\ \A q \in Requests : Served(q)' => Prompted(chat'.history, q)
  BY <1>3 DEF CalmInv
<1>5. /\ \A q, s \in Requests : pc[q] \notin Final /\ pc[s] \notin Final => q = s
      /\ mem[r].history = chat.history
      /\ \A q \in Requests : Served(q) => Prompted(chat.history, q)
  BY <1>1, <1>4 DEF Calm, CalmInv
<1>6. \A q \in Requests : pc'[q] \notin Final => q = r
  BY <1>2, <1>5
<1>7. chat'.history = chat.history \o e /\ chat.history \in Seq(Entry)
  BY <1>1, <1>5 DEF IInv, Good
<1>8. ASSUME NEW q \in Requests, Served(q)' PROVE Prompted(chat'.history, q)
  <2>1. Served(q) \/ (q = r /\ Len(e) > 0 /\ e[1] = <<"human", r>>)
    BY <1>2, <1>8 DEF Served
  <2>2. Prompted(chat.history \o e, q)
    BY <1>5, <1>7, <2>1, StillPrompted
  <2> QED BY <1>7, <2>2
<1> QED BY <1>1, <1>2, <1>6, <1>8

\* A step that only moves a request, or lets one start that finds all quiet.
LEMMA MoveCalm ==
  ASSUME IInv, CalmInv, NEW r \in Requests, Read(r) \/ PickUp(r) \/ Ask(r) \/ Fail(r)
  PROVE  CalmInv'
<1>1. /\ UNCHANGED <<chat, put, puts, delete>> /\ pc \in [Requests -> Steps]
      /\ mem \in [Requests -> Chat]
  BY DEF Read, PickUp, Ask, Fail, clients, IInv, TypeOK, Steps
<1>2. PICK step \in {"untitled", "ready", "picked", "asked", "failed"} :
        pc' = [pc EXCEPT ![r] = step] /\ (step = "picked" => pc[r] = "queued")
  BY DEF Read, PickUp, Ask, Fail, Goto
<1>3. /\ pc'[r] = step /\ \A q \in Requests : q # r => pc'[q] = pc[q] /\ mem'[q] = mem[q]
      /\ \A q \in Requests : Served(q)' => Served(q)
      /\ \A q \in Requests : pc'[q] = "executed" => Kind[q] = "plan"
  <2>1. pc'[r] = step /\ \A q \in Requests : q # r => pc'[q] = pc[q]
    BY <1>1, <1>2
  <2>2. \A q \in Requests : q # r => mem'[q] = mem[q]
    BY <1>1 DEF Read, PickUp, Ask, Fail
  <2>3. Served(r)' => Served(r)
    BY <1>2, <2>1 DEF Served
  <2>4. \A q \in Requests : Served(q)' => Served(q)
    BY <2>1, <2>3 DEF Served
  <2>5. step # "executed"
    OBVIOUS
  <2> QED BY <2>1, <2>2, <2>4, <2>5 DEF CalmInv
<1>4. CASE Read(r) \/ PickUp(r)
  <2>1. mem'[r] = chat /\ alone' = (alone /\ Quiet)
    BY <1>1, <1>4 DEF Read, PickUp
  <2>2. Calm' => Calm /\ \A q \in Requests : pc[q] \in Final
    BY <1>1, <2>1 DEF Calm, Quiet
  <2> QED BY <1>1, <1>3, <2>1, <2>2 DEF CalmInv
<1>5. CASE Ask(r)
  <2>1. pc[r] \notin Final /\ UNCHANGED <<mem, alone>>
    BY <1>5 DEF Ask, Final
  <2> QED BY <1>1, <1>3, <2>1 DEF CalmInv, Calm
<1>6. CASE Fail(r)
  <2>1. step \in Final /\ UNCHANGED alone
    BY <1>1, <1>2, <1>6 DEF Fail, Goto, Final
  <2> QED BY <1>1, <1>3, <2>1 DEF CalmInv, Calm
<1> QED BY <1>4, <1>5, <1>6

\* Every save of a request extends its copy.
LEMMA SavesCalm ==
  ASSUME IInv, CalmInv, NEW r \in Requests, NEW answered \in BOOLEAN, NEW engine \in BOOLEAN,
         \/ SaveTitle(r) \/ AttachFile(r) \/ SaveResults(r)
         \/ Answer(r, answered) \/ SaveSources(r, engine) \/ EndStream(r, answered, engine)
  PROVE  CalmInv'
<1>1. /\ pc \in [Requests -> Steps] /\ mem[r] \in Chat /\ mem[r].history \in Seq(Entry)
      /\ UNCHANGED <<alone, clients>>
  BY DEF IInv, TypeOK, Steps, Chat, SaveTitle, AttachFile, SaveResults, Answer, SaveSources,
         EndStream
<1>0. \A step : Goto(r, step) => pc'[r] = step
  BY <1>1 DEF Goto
<1>2. \A e \in Seq(Entry) : With(r, e).history = mem[r].history \o e
  BY <1>1 DEF With, Chat
<1>3. CASE SaveTitle(r)
  <2> DEFINE copy == [mem[r] EXCEPT !.title = "summary"]
  <2>1. <<>> \in Seq(Entry) /\ copy.history = mem[r].history \o <<>>
    BY <1>1 DEF Chat
  <2>2. PICK step \in {"ready", "done"} :
          /\ Goto(r, step) /\ pc[r] = "untitled"
          /\ \/ step = "done" /\ Kind[r] = "summary" /\ SaveLast(r, copy)
             \/ step = "ready" /\ Save(r, copy)
    BY <1>3 DEF SaveTitle
  <2>3. ~Served(r)'
    BY <1>0, <2>2 DEF Served
  <2> HIDE DEF copy
  <2> QED BY <1>1, <2>1, <2>2, <2>3, SaveCalm DEF Steps, Final
<1>4. CASE AttachFile(r)
  <2> DEFINE e == <<<<"file", r>>>>
  <2>1. e \in Seq(Entry)
    BY DEF Entry, Tags
  <2>2. pc[r] = "ready" /\ Save(r, With(r, e)) /\ Goto(r, "filed")
    BY <1>4 DEF AttachFile
  <2>3. ~Served(r)'
    BY <1>0, <2>2 DEF Served
  <2> HIDE DEF e
  <2> QED BY <1>1, <1>2, <2>1, <2>2, <2>3, SaveCalm DEF Steps, Final, Served
<1>5. CASE SaveResults(r)
  <2> DEFINE e == <<<<"result", r>>>>
  <2>1. e \in Seq(Entry)
    BY DEF Entry, Tags
  <2>2. pc[r] = "answered" /\ Save(r, With(r, e)) /\ Goto(r, "resulted")
    BY <1>5 DEF SaveResults
  <2> HIDE DEF e
  <2> QED BY <1>1, <1>2, <2>1, <2>2, SaveCalm DEF Steps, Final, Served
<1>6. CASE Answer(r, answered)
  <2> DEFINE e == Turn(r, answered)
  <2>1. e \in Seq(Entry) /\ Len(e) > 0 /\ e[1] = <<"human", r>>
    BY TurnShape
  <2>2. pc[r] = "asked" /\ Save(r, With(r, e)) /\ Goto(r, "answered")
    BY <1>6 DEF Answer
  <2> HIDE DEF e
  <2> QED BY <1>1, <1>2, <2>1, <2>2, SaveCalm DEF Steps, Final
<1>7. CASE SaveSources(r, engine)
  <2> DEFINE e == Sources(r, engine)
  <2>1. e \in Seq(Entry)
    BY SourcesShape
  <2>2. pc[r] \in {"answered", "resulted"} /\ SaveLast(r, With(r, e)) /\ Goto(r, "done")
    BY <1>7 DEF SaveSources
  <2> HIDE DEF e
  <2> QED BY <1>1, <1>2, <2>1, <2>2, SaveCalm DEF Steps, Final, Served
<1>8. CASE EndStream(r, answered, engine)
  <2> DEFINE t == Turn(r, answered)
             u == Sources(r, engine)
             e == t \o u
  <2>1. t \in Seq(Entry) /\ Len(t) > 0 /\ t[1] = <<"human", r>> /\ u \in Seq(Entry)
    BY TurnShape, SourcesShape
  <2>2. pc[r] = "asked" /\ SaveLast(r, With(r, e)) /\ Goto(r, "done")
    BY <1>8 DEF EndStream
  <2> HIDE DEF t, u
  <2>3. e \in Seq(Entry) /\ Len(e) > 0 /\ e[1] = <<"human", r>>
    BY <2>1, ConcatProperties
  <2> HIDE DEF e
  <2> QED BY <1>1, <1>2, <2>2, <2>3, SaveCalm DEF Steps, Final
<1> QED BY <1>3, <1>4, <1>5, <1>6, <1>7, <1>8

\* So does every save of an agent.
LEMMA AgentCalm ==
  ASSUME IInv, CalmInv, NEW r \in Requests, NEW answered \in BOOLEAN,
         \/ SaveAgentTurn(r) \/ SavePrompt(r) \/ SaveRoute(r) \/ NoteJob(r) \/ Reply(r)
         \/ SaveAgain(r) \/ SaveExecuted(r) \/ SaveOutput(r, answered)
         \/ SavePlanLog(r, answered)
  PROVE  CalmInv'
<1>1. /\ pc \in [Requests -> Steps] /\ mem[r] \in Chat /\ mem[r].history \in Seq(Entry)
      /\ UNCHANGED <<alone, clients>>
  BY DEF IInv, TypeOK, Steps, Chat, SaveAgentTurn, SavePrompt, SaveRoute, NoteJob, Reply,
         SaveAgain, SaveExecuted, SaveOutput, SavePlanLog
<1>2. \A step : Goto(r, step) => pc'[r] = step
  BY <1>1 DEF Goto
<1>3. \A e \in Seq(Entry) : With(r, e).history = mem[r].history \o e
  BY <1>1 DEF With, Chat
<1>4. CASE SaveAgain(r)
  <2>1. <<>> \in Seq(Entry) /\ mem[r].history = mem[r].history \o <<>>
    BY <1>1
  <2>2. PICK step \in {"intent", "routed", "queued", "working", "done"} :
          /\ Goto(r, step)
          /\ Save(r, mem[r]) \/ (SaveLast(r, mem[r]) /\ step \in Final)
          /\ pc[r] \in {"prompted", "chosen", "noted", "replied"}
          /\ step = "done" <=> pc[r] = "replied"
    BY <1>4 DEF SaveAgain, Final
  <2>3. pc[r] \notin Final /\ (Served(r)' => Served(r))
    BY <1>2, <2>2 DEF Served, Final
  <2>4. step \in Steps /\ step # "executed"
    BY DEF Steps
  <2> QED BY <1>1, <2>1, <2>2, <2>3, <2>4, SaveCalm
<1>5. ASSUME NEW e \in Seq(Entry), NEW step \in Steps, Goto(r, step), pc[r] \notin Final,
             Save(r, With(r, e)) \/ (SaveLast(r, With(r, e)) /\ step \in Final),
             step = "executed" => Kind[r] = "plan",
             Served(r)' => Served(r) \/ (Len(e) > 0 /\ e[1] = <<"human", r>>)
      PROVE  CalmInv'
  <2>1. With(r, e).history = mem[r].history \o e
    BY <1>3
  <2> QED BY <1>1, <1>5, <2>1, SaveCalm
<1>6. CASE SaveAgentTurn(r)
  <2> DEFINE e == <<<<"human", r>>, <<"again", r>>>>
  <2>1. e \in Seq(Entry) /\ Len(e) > 0 /\ e[1] = <<"human", r>>
    BY DEF Entry, Tags
  <2>2. pc[r] = "ran" /\ SaveLast(r, With(r, e)) /\ Goto(r, "done")
    BY <1>6 DEF SaveAgentTurn
  <2> HIDE DEF e
  <2> QED BY <1>5, <2>1, <2>2 DEF Steps, Final
<1>7. CASE SavePrompt(r)
  <2> DEFINE e == <<<<"human", r>>>>
  <2>1. e \in Seq(Entry) /\ Len(e) > 0 /\ e[1] = <<"human", r>>
    BY DEF Entry, Tags
  <2>2. pc[r] = "ready" /\ Save(r, With(r, e)) /\ Goto(r, "prompted")
    BY <1>7 DEF SavePrompt
  <2> HIDE DEF e
  <2> QED BY <1>5, <2>1, <2>2 DEF Steps, Final
<1>8. CASE SaveRoute(r) \/ NoteJob(r) \/ Reply(r) \/ SaveExecuted(r)
  <2>1. PICK kind \in {"route", "job", "reply", "late", "ran"},
             step \in {"chosen", "noted", "replied", "executed"} :
          /\ Save(r, With(r, <<<<kind, r>>>>)) /\ Goto(r, step)
          /\ \/ pc[r] \in {"intent", "picked", "routed", "working"} /\ step # "executed"
             \/ pc[r] = "ready" /\ step = "executed" /\ Kind[r] = "plan"
    BY <1>8 DEF SaveRoute, NoteJob, Reply, SaveExecuted
  <2> DEFINE e == <<<<kind, r>>>>
  <2>2. e \in Seq(Entry)
    BY DEF Entry, Tags
  <2>3. pc[r] \notin Final /\ (Served(r)' => Served(r)) /\ step \in Steps
    BY <1>2, <2>1 DEF Served, Final, Steps
  <2>4. Save(r, With(r, e))
    BY <2>1
  <2> HIDE DEF e
  <2> QED BY <1>5, <2>1, <2>2, <2>3, <2>4
<1>9. CASE SaveOutput(r, answered)
  <2> DEFINE e == IF answered THEN <<<<"output", r>>, <<"log", r>>>> ELSE <<<<"log", r>>>>
  <2>1. e \in Seq(Entry)
    <3>1. CASE answered  BY <3>1 DEF Entry, Tags
    <3>2. CASE ~answered BY <3>2 DEF Entry, Tags
    <3> QED BY <3>1, <3>2
  <2>2. pc[r] = "asked" /\ Save(r, With(r, e)) /\ Goto(r, "ran")
    BY <1>9 DEF SaveOutput
  <2> HIDE DEF e
  <2>3. ~Served(r)'
    BY <1>2, <2>2 DEF Served
  <2> QED BY <1>5, <2>1, <2>2, <2>3 DEF Steps, Final
<1>10. CASE SavePlanLog(r, answered)
  <2> DEFINE e == IF answered THEN <<<<"log", r>>>> ELSE <<>>
  <2>1. e \in Seq(Entry)
    <3>1. CASE answered  BY <3>1 DEF Entry, Tags
    <3>2. CASE ~answered BY <3>2 DEF Entry, Tags
    <3> QED BY <3>1, <3>2
  <2>2. pc[r] = "executed" /\ Save(r, With(r, e)) /\ Goto(r, "replied")
    BY <1>10 DEF SavePlanLog
  <2> HIDE DEF e
  <2>3. ~Served(r)'
    BY <1>2, <2>2 DEF Served, CalmInv
  <2> QED BY <1>5, <2>1, <2>2, <2>3 DEF Steps, Final
<1> QED BY <1>4, <1>6, <1>7, <1>8, <1>9, <1>10

\* Once a client has intervened nothing is claimed any more.
LEMMA ClientCalm ==
  ASSUME IInv, CalmInv, Client
  PROVE  CalmInv'
<1>1. puts \in Nat /\ \A r \in Requests : pc'[r] = "executed" => Kind[r] = "plan"
  <2>1. puts \in Nat
    BY BoundAssumption DEF IInv, TypeOK
  <2>2. pc' = pc
    BY DEF Client, PutRead, PutWrite, SoftDeleteRead, SoftDeleteWrite, HardDelete
  <2> QED BY <2>1, <2>2 DEF CalmInv
<1>2. ASSUME NEW setsTitle \in BOOLEAN, NEW n \in 0 .. Len(chat.history), PutRead(setsTitle, n)
      PROVE  CalmInv'
  <2>1. puts' # 0
    BY <1>1, <1>2 DEF PutRead
  <2> QED BY <1>1, <2>1 DEF CalmInv, Calm
<1>3. CASE PutWrite
  <2>1. puts # 0 /\ puts' = puts
    BY <1>3 DEF PutWrite, CalmInv
  <2> QED BY <1>1, <2>1 DEF CalmInv, Calm
<1>4. CASE SoftDeleteRead \/ SoftDeleteWrite \/ HardDelete
  <2>1. delete'.step # "idle" /\ UNCHANGED <<put, puts>>
    BY <1>4 DEF SoftDeleteRead, SoftDeleteWrite, HardDelete
  <2> QED BY <1>1, <2>1 DEF CalmInv, Calm
<1> QED BY <1>2, <1>3, <1>4 DEF Client

LEMMA CalmInvariance == Spec => [](IInv /\ CalmInv)
<1>1. Init => CalmInv
  BY DEF Init, CalmInv, Calm, Final, Served
<1>2. IInv /\ CalmInv /\ [Next]_vars => CalmInv'
  <2> SUFFICES ASSUME IInv, CalmInv, [Next]_vars PROVE CalmInv'
    OBVIOUS
  <2>1. ASSUME NEW r \in Requests, Generate(r) PROVE CalmInv'
    BY <2>1, MoveCalm, SavesCalm DEF Generate
  <2>2. CASE UNCHANGED vars
    BY <2>2 DEF vars, CalmInv, Calm, Served
  <2>3. ASSUME NEW r \in Requests, RunAgent(r) PROVE CalmInv'
    BY <2>3, MoveCalm, AgentCalm DEF RunAgent
  <2> QED BY <2>1, <2>2, <2>3, ClientCalm DEF Next
<1> QED BY <1>1, <1>2, Invariance, PTL DEF Spec

\* Without overlaps, PUTs and deletions, no later request loses a prompt that
\* was served, for any number of requests one after the other.
THEOREM ServedSound == Spec => []ServedAreKept
<1>1. IInv /\ CalmInv => ServedAreKept
  <2> SUFFICES ASSUME IInv, CalmInv, Calm, NEW r \in Requests,
                      pc[r] = "done", Kind[r] \notin {"summary", "plan"}
               PROVE  \E i \in DOMAIN chat.history : chat.history[i] = <<"human", r>>
    BY DEF ServedAreKept, Calm
  <2>1. Prompted(chat.history, r)
    BY DEF CalmInv, Served
  <2>2. chat.history \in Seq(Entry)
    BY DEF IInv, Good
  <2> QED BY <2>1, <2>2 DEF Prompted
<1> QED BY <1>1, CalmInvariance, PTL
=============================================================================
