-------------------------- MODULE ChatClientProofs --------------------------
(***************************************************************************)
(* Proofs about ChatClient, for every number of rooms, requests,           *)
(* submissions, messages and moves, and every size of a listing: its type  *)
(* invariant and how often a submission makes its message.                 *)
(***************************************************************************)
EXTENDS ChatClient, SequenceTheorems, FiniteSetTheorems, TLAPS

-----------------------------------------------------------------------------
(* The invariants *)

Sent(t, w) == {e \in ToSet(w) : e.type = t}

LogType == log \in Seq(Entry) /\ Len(log) <= MaxLog /\ telling \subseteq DOMAIN log

\* The socket carries messages of the log.
WireType ==
  /\ wire \in Seq(Item) /\ Len(wire) <= MaxWire
  /\ \A e \in Sent("message", wire) : e.id <= Len(log)

FetchType ==
  [pc : {"idle", "asked", "answered"}, older : BOOLEAN, room : Room \cup {None}, offset : Nat,
   ids : Seq(1 .. MaxLog)]

ListenerType == [room : Room \cup {None}, offset : Nat]

PageType == page \in Page /\ listener \in ListenerType /\ fetch \in [Fetch -> FetchType]

FlagType ==
  /\ joined \subseteq Room /\ asking \subseteq Room
  /\ up \in BOOLEAN /\ disturbed \in BOOLEAN /\ moves \in 0 .. MaxMoves

SubRecord ==
  [at : {"new", "socket", "rest", "answer", "ok", "failed"}, srv : {"none", "sent", "made", "done"},
   live : BOOLEAN, room : Room \cup {None}, id : 0 .. MaxLog, fell : BOOLEAN]

\* What was submitted was submitted to a room; a REST answer has a message that
\* is in the log, in the room it was submitted to.
Submitted(s, l) ==
  /\ s.at # "new" => s.room \in Room
  /\ s.srv # "none" => s.at # "new"
  /\ s.at = "answer" => s.id \in DOMAIN l /\ l[s.id].room = s.room /\ ~l[s.id].reply

\* A message that is about to be broadcast is of nobody here or of a submission
\* that has made it.
Own == \A id \in telling : log[id].by # None => sub[log[id].by].srv \in {"made", "done"}

SubTyped == sub \in [Submission -> SubRecord] /\ (\A x \in Submission : Submitted(sub[x], log)) /\ Own

\* Types, with what makes them last.
Typed == LogType /\ WireType /\ PageType /\ FlagType /\ SubTyped

LEMMA TypedIs == Typed => TypeOK
BY DEF Typed, LogType, WireType, PageType, FlagType, SubTyped, FetchType, ListenerType, SubRecord, TypeOK

-----------------------------------------------------------------------------
(* The socket *)

Message(id) == [type |-> "message", id |-> id]

Acknowledgement(x, ok) == [type |-> "ack", sub |-> x, ok |-> ok]

Refusal(r) == [type |-> "refused", room |-> r]

LEMMA ItemTypes ==
  /\ \A id \in 1 .. MaxLog : Message(id) \in Item /\ Message(id).type = "message" /\ Message(id).id = id
  /\ \A x \in Submission, ok \in BOOLEAN :
       /\ Acknowledgement(x, ok) \in Item /\ Acknowledgement(x, ok).type = "ack"
       /\ Acknowledgement(x, ok).sub = x /\ Acknowledgement(x, ok).ok = ok
  /\ \A r \in Room : Refusal(r) \in Item /\ Refusal(r).type = "refused"
  /\ \A e \in Item : /\ e.type = "message" => e.id \in 1 .. MaxLog
                     /\ e.type = "refused" => e.room \in Room
                     /\ e.type = "ack" => e.sub \in Submission /\ e.ok \in BOOLEAN
                     /\ e.type \in {"message", "refused", "ack"}
BY DEF Item, Message, Acknowledgement, Refusal

\* What is in two sequences one after the other.
LEMMA ToSetConcat ==
  ASSUME NEW X, NEW v \in Seq(X), NEW w \in Seq(X)
  PROVE  v \o w \in Seq(X) /\ ToSet(v \o w) = ToSet(v) \cup ToSet(w)
<1> DEFINE u == v \o w
           k == Len(v)
           n == Len(w)
<1>1. /\ u \in Seq(X) /\ k \in Nat /\ n \in Nat /\ DOMAIN v = 1 .. k /\ DOMAIN w = 1 .. n
      /\ DOMAIN u = 1 .. k + n
      /\ \A i \in 1 .. k + n : u[i] = IF i <= k THEN v[i] ELSE w[i - k]
  BY ConcatProperties, LenProperties
<1> HIDE DEF u, k, n
<1>2. ASSUME NEW i \in 1 .. k + n PROVE u[i] \in ToSet(v) \cup ToSet(w)
  <2>1. CASE i <= k
    <3>1. i \in 1 .. k /\ u[i] = v[i]
      BY <1>1, <2>1
    <3>2. DOMAIN v = 1 .. k
      BY <1>1
    <3> QED BY <3>1, <3>2 DEF ToSet
  <2>2. CASE ~(i <= k)
    <3>1. i - k \in 1 .. n /\ u[i] = w[i - k]
      BY <1>1, <2>2
    <3>2. DOMAIN w = 1 .. n
      BY <1>1
    <3> QED BY <3>1, <3>2 DEF ToSet
  <2> QED BY <2>1, <2>2
<1>3. ASSUME NEW i \in 1 .. k PROVE v[i] \in ToSet(u)
  <2> i \in 1 .. k + n /\ u[i] = v[i]
    BY <1>1
  <2> QED BY <1>1 DEF ToSet
<1>4. ASSUME NEW i \in 1 .. n PROVE w[i] \in ToSet(u)
  <2>1. k + i \in 1 .. k + n /\ ~(k + i <= k) /\ (k + i) - k = i
    BY <1>1
  <2>2. u[k + i] = w[i]
    BY <1>1, <2>1
  <2> QED BY <1>1, <2>1, <2>2 DEF ToSet
<1>5. ToSet(u) \subseteq ToSet(v) \cup ToSet(w)
  BY <1>1, <1>2 DEF ToSet
<1>6. ToSet(v) \subseteq ToSet(u) /\ ToSet(w) \subseteq ToSet(u)
  BY <1>1, <1>3, <1>4 DEF ToSet
<1> QED BY <1>1, <1>5, <1>6 DEF u

LEMMA ToSetSmall ==
  /\ ToSet(<<>>) = {}
  /\ \A e : ToSet(<<e>>) = {e}
BY DEF ToSet

LEMMA SendIs ==
  ASSUME WireType, NEW items \in Seq(Item), Send(items)
  PROVE  /\ wire' \in Seq(Item) /\ Len(wire') <= MaxWire
         /\ \A t : Sent(t, wire') = Sent(t, wire) \cup Sent(t, items)
<1>1. wire \in Seq(Item) /\ wire' = wire \o items /\ Len(wire') <= MaxWire
  BY DEF WireType, Send
<1>2. wire' \in Seq(Item) /\ ToSet(wire') = ToSet(wire) \cup ToSet(items)
  BY <1>1, ToSetConcat
<1> QED BY <1>1, <1>2 DEF Sent

LEMMA ReceiveIs ==
  ASSUME WireType, Received
  PROVE  /\ wire' \in Seq(Item) /\ Len(wire') <= MaxWire /\ Head(wire) \in Item
         /\ \A t : Sent(t, wire) = Sent(t, wire') \cup (IF Head(wire).type = t THEN {Head(wire)} ELSE {})
<1>1. wire \in Seq(Item) /\ wire # <<>> /\ wire' = Tail(wire) /\ Len(wire) <= MaxWire /\ MaxWire \in Nat
  BY ChatClientAssumption DEF WireType, Received
<1>2. /\ Head(wire) \in Item /\ Tail(wire) \in Seq(Item) /\ Len(wire) \in Nat
      /\ Len(Tail(wire)) = Len(wire) - 1
  BY <1>1, HeadTailProperties, LenProperties
<1>3. wire = <<Head(wire)>> \o Tail(wire)
  BY <1>1
<1>4. <<Head(wire)>> \in Seq(Item)
  BY <1>2
<1>5. ToSet(wire) = ToSet(<<Head(wire)>>) \cup ToSet(Tail(wire))
  BY <1>2, <1>3, <1>4, ToSetConcat
<1>6. ToSet(wire) = {Head(wire)} \cup ToSet(wire')
  BY <1>1, <1>5, ToSetSmall
<1>7. \A t : Sent(t, wire) = Sent(t, wire') \cup (IF Head(wire).type = t THEN {Head(wire)} ELSE {})
  BY <1>6 DEF Sent
<1>8. Len(wire') <= MaxWire
  BY <1>1, <1>2
<1> QED BY <1>1, <1>2, <1>7, <1>8

\* What a handler sends when it is done with message id of submission x.
Items(id, told, x, ok) == (IF told THEN <<Message(id)>> ELSE <<>>) \o Ack(x, ok)

LEMMA ItemsIs ==
  ASSUME NEW id \in 1 .. MaxLog, NEW told \in BOOLEAN, NEW x \in Submission \cup {None}, NEW ok \in BOOLEAN
  PROVE  /\ Items(id, told, x, ok) \in Seq(Item) /\ Ack(x, ok) \in Seq(Item)
         /\ Sent("message", Items(id, told, x, ok)) = IF told THEN {Message(id)} ELSE {}
         /\ Sent("message", Ack(x, ok)) = {}
         /\ Sent("ack", Items(id, told, x, ok)) = Sent("ack", Ack(x, ok))
         /\ Sent("ack", Ack(x, ok)) \subseteq IF x = None THEN {} ELSE {Acknowledgement(x, ok)}
<1> DEFINE m == IF told THEN <<Message(id)>> ELSE <<>>
           a == Ack(x, ok)
<1>1. m \in Seq(Item) /\ ToSet(m) = IF told THEN {Message(id)} ELSE {}
  <2> DEFINE one == Message(id)
  <2>1. one \in Item
    BY ItemTypes
  <2> HIDE DEF one
  <2>2. <<one>> \in Seq(Item) /\ <<>> \in Seq(Item)
    BY <2>1
  <2> QED BY <2>2, ToSetSmall DEF one
<1>2. /\ a \in Seq(Item)
      /\ x = None => ToSet(a) = {}
      /\ x # None => a = <<>> \/ a = <<Acknowledgement(x, ok)>>
      /\ x # None => ToSet(a) \subseteq {Acknowledgement(x, ok)}
  <2>1. CASE x = None
    <3> a = <<>>
      BY <2>1 DEF Ack
    <3> QED BY <2>1, ToSetSmall
  <2>2. CASE x # None
    <3>1. x \in Submission /\ Acknowledgement(x, ok) \in Item
      BY <2>2, ItemTypes
    <3>2. a = <<>> \/ a = <<Acknowledgement(x, ok)>>
      BY <2>2 DEF Ack, Acknowledgement
    <3> DEFINE one == Acknowledgement(x, ok)
    <3> HIDE DEF a, one
    <3>3. <<one>> \in Seq(Item) /\ <<>> \in Seq(Item)
      BY <3>1 DEF one
    <3>4. CASE a = <<>>
      BY <2>2, <3>3, <3>4, ToSetSmall
    <3>5. CASE a = <<one>>
      BY <2>2, <3>3, <3>5, ToSetSmall DEF one
    <3> QED BY <3>2, <3>4, <3>5 DEF one
  <2> QED BY <2>1, <2>2
<1>3. Items(id, told, x, ok) = m \o a
  BY DEF Items
<1> HIDE DEF m, a
<1>4. m \o a \in Seq(Item) /\ ToSet(m \o a) = ToSet(m) \cup ToSet(a)
  BY <1>1, <1>2, ToSetConcat
<1>5. Message(id).type = "message" /\ (x # None => Acknowledgement(x, ok).type = "ack")
  BY ItemTypes
<1> QED BY <1>1, <1>2, <1>3, <1>4, <1>5 DEF Sent, a

-----------------------------------------------------------------------------
(* What the actions are made of *)

LEMMA CreateIs ==
  ASSUME Typed, NEW r \in Room, NEW reply \in BOOLEAN, NEW x \in Submission \cup {None}, NEW unheard,
         Create(r, reply, x, unheard)
  PROVE  /\ log \in Seq(Entry) /\ log' \in Seq(Entry) /\ Len(log) \in Nat /\ Len(log) + 1 \in 1 .. MaxLog
         /\ Len(log') = Len(log) + 1 /\ Len(log') <= MaxLog
         /\ DOMAIN log = 1 .. Len(log) /\ DOMAIN log' = 1 .. Len(log) + 1
         /\ \A i \in 1 .. Len(log) : log'[i] = log[i]
         /\ log'[Len(log) + 1].room = r /\ log'[Len(log) + 1].reply = reply /\ log'[Len(log) + 1].by = x
         /\ log'[Len(log) + 1].at \in Nat
         /\ disturbed' \in BOOLEAN
<1>1. PICK at \in Second :
        /\ Len(log) < MaxLog
        /\ log' = Append(log, [room |-> r, reply |-> reply, by |-> x, at |-> at])
        /\ \E cond : Disturb(cond)
  BY DEF Create
<1> DEFINE e == [room |-> r, reply |-> reply, by |-> x, at |-> at]
<1>2. e \in Entry /\ e.room = r /\ e.reply = reply /\ e.by = x /\ e.at = at /\ at \in Nat
  BY ChatClientAssumption DEF Entry
<1>3. /\ log \in Seq(Entry) /\ Len(log) \in Nat /\ Len(log) < MaxLog /\ MaxLog \in Nat
      /\ log' = Append(log, e)
  BY <1>1, ChatClientAssumption DEF Typed, LogType
<1>4. disturbed' \in BOOLEAN
  BY <1>1 DEF Disturb
<1> HIDE DEF e
<1>5. /\ log' \in Seq(Entry) /\ Len(log') = Len(log) + 1 /\ log'[Len(log) + 1] = e
      /\ \A i \in 1 .. Len(log) : log'[i] = log[i]
  BY <1>2, <1>3, AppendProperties
<1>6. DOMAIN log = 1 .. Len(log) /\ DOMAIN log' = 1 .. Len(log) + 1
  BY <1>3, <1>5, LenProperties
<1> QED BY <1>2, <1>3, <1>4, <1>5, <1>6

LEMMA RenderType ==
  ASSUME PageType, NEW p \in Page, Render(p)
  PROVE  page' \in Page /\ listener' \in ListenerType
<1>1. p.room \in Room \cup {None} /\ p.list \in Seq(1 .. MaxLog)
  BY DEF Page
<1>2. Len(p.list) \in Nat
  BY <1>1
<1> QED BY <1>1, <1>2 DEF PageType, ListenerType, Render

LEMMA NoFetchType == NoFetch \in FetchType
<1> <<>> \in Seq(1 .. MaxLog)
  OBVIOUS
<1> QED BY DEF NoFetch, FetchType

LEMMA AskType ==
  ASSUME PageType, NEW f \in Fetch, NEW older \in BOOLEAN, NEW r \in Room, NEW offset \in Nat,
         Ask(f, older, r, offset)
  PROVE  fetch' \in [Fetch -> FetchType]
<1>1. fetch \in [Fetch -> FetchType]
  BY DEF PageType
<1>2. [NoFetch EXCEPT !.pc = "asked", !.older = older, !.room = r, !.offset = offset] \in FetchType
  BY NoFetchType DEF FetchType
<1> QED BY <1>1, <1>2 DEF Ask

LEMMA DoneType ==
  ASSUME PageType, NEW f \in Fetch, Done(f)
  PROVE  fetch' \in [Fetch -> FetchType]
<1>1. fetch \in [Fetch -> FetchType]
  BY DEF PageType
<1> QED BY <1>1, NoFetchType DEF Done

\* A room's thread is a finite set of messages of the log, and each of its orders
\* goes through it.
LEMMA ThreadType ==
  ASSUME LogType, NEW r
  PROVE  /\ Thread(r) \subseteq 1 .. Len(log) /\ Len(log) \in Nat /\ 1 .. Len(log) \subseteq 1 .. MaxLog
         /\ IsFiniteSet(Thread(r)) /\ Cardinality(Thread(r)) \in Nat
<1>1. Len(log) \in Nat /\ DOMAIN log = 1 .. Len(log) /\ Len(log) <= MaxLog /\ MaxLog \in Nat
  BY ChatClientAssumption, LenProperties DEF LogType
<1>2. Thread(r) \subseteq 1 .. Len(log)
  BY <1>1 DEF Thread
<1>3. IsFiniteSet(1 .. Len(log))
  <2> 1 \in Int /\ Len(log) \in Int
    BY <1>1
  <2> QED BY FS_Interval
<1>4. IsFiniteSet(Thread(r))
  BY <1>2, <1>3, FS_Subset
<1> QED BY <1>1, <1>2, <1>4, FS_CardinalityType

LEMMA OrdersType ==
  ASSUME LogType, NEW r, NEW t \in Orders(r)
  PROVE  /\ t \in Seq(1 .. MaxLog) /\ Len(t) = Cardinality(Thread(r)) /\ DOMAIN t = 1 .. Len(t)
         /\ ToSet(t) = Thread(r) /\ IsInjective(t)
<1> DEFINE S == Thread(r)
           n == Cardinality(S)
           D == 1 .. n
<1>1. n \in Nat /\ IsFiniteSet(S) /\ S \subseteq 1 .. MaxLog
  BY ThreadType
<1>2. t \in [D -> S] /\ \A i, j \in D : i # j => t[i] # t[j]
  BY DEF Orders, SetToSeqs
<1>3. IsFiniteSet(D) /\ Cardinality(D) = n
  <2> HIDE DEF n
  <2>1. 1 \in Int /\ n \in Int
    BY <1>1
  <2>2. IsFiniteSet(1 .. n) /\ Cardinality(1 .. n) = IF 1 > n THEN 0 ELSE n - 1 + 1
    BY <2>1, FS_Interval
  <2> QED BY <1>1, <2>2
<1> HIDE DEF n, D, S
<1>4. t \in Injection(D, S)
  BY <1>2 DEF Injection, IsInjective
<1>5. t \in Surjection(D, S)
  BY <1>1, <1>3, <1>4, FS_Injection DEF n
<1>6. DOMAIN t = D /\ Len(t) = n /\ t \in Seq(1 .. MaxLog)
  <2>1. t \in [1 .. n -> S]
    BY <1>2 DEF D
  <2>2. t \in Seq(S) /\ Len(t) = n
    BY <1>1, <2>1
  <2>3. t \in Seq(1 .. MaxLog)
    BY <1>1, <2>2, SeqMonotonic
  <2> QED BY <2>1, <2>2, <2>3 DEF D
<1>7. ToSet(t) = S
  <2>1. \A s \in S : \E i \in D : t[i] = s
    BY <1>5 DEF Surjection
  <2> QED BY <1>2, <1>6, <2>1 DEF ToSet
<1>8. IsInjective(t)
  BY <1>4 DEF Injection, IsInjective
<1> QED BY <1>6, <1>7, <1>8 DEF D, n, S

LEMMA ListingType ==
  ASSUME LogType, NEW r, NEW offset \in Nat, NEW ids \in Listing(r, offset)
  PROVE  ids \in Seq(1 .. MaxLog)
<1>1. PICK t \in Orders(r) :
        LET n == Len(t) - Smaller(offset, Len(t)) IN ids = SubSeq(t, n - Smaller(Batch, n) + 1, n)
  BY DEF Listing
<1>2. t \in Seq(1 .. MaxLog) /\ Len(t) \in Nat /\ Batch \in Nat
  BY ChatClientAssumption, OrdersType
<1> DEFINE n == Len(t) - Smaller(offset, Len(t))
           m == n - Smaller(Batch, n) + 1
<1>3. n \in Int /\ m \in Int /\ n <= Len(t) /\ 1 <= m
  <2>1. Smaller(offset, Len(t)) \in Nat /\ Smaller(offset, Len(t)) <= Len(t)
    BY <1>2 DEF Smaller
  <2>2. n \in Nat /\ n <= Len(t)
    BY <1>2, <2>1
  <2> HIDE DEF n
  <2>3. Smaller(Batch, n) \in Nat /\ Smaller(Batch, n) <= n
    BY <1>2, <2>2 DEF Smaller
  <2> QED BY <2>2, <2>3
<1>4. ids = SubSeq(t, m, n)
  BY <1>1
<1> HIDE DEF m, n
<1>5. \A i \in m .. n : t[i] \in 1 .. MaxLog
  <2> SUFFICES ASSUME NEW i \in m .. n PROVE t[i] \in 1 .. MaxLog
    OBVIOUS
  <2> i \in 1 .. Len(t)
    BY <1>2, <1>3
  <2> QED BY <1>2, ElementOfSeq
<1> QED BY <1>3, <1>4, <1>5, SubSeqProperties

-----------------------------------------------------------------------------
(* Types *)

LEMMA TypedInit == ASSUME Init PROVE Typed
<1>1. PICK r \in Room \cup {None} :
        /\ log = <<>> /\ telling = {}
        /\ up = FALSE /\ joined = {} /\ wire = <<>> /\ asking = {r} \ {None}
        /\ page = [room |-> r, list |-> <<>>, loading |-> TRUE, hasMore |-> TRUE, more |-> FALSE]
        /\ listener = [room |-> r, offset |-> 0]
        /\ fetch = [f \in Fetch |-> IF f = 1 /\ r # None THEN [NoFetch EXCEPT !.pc = "asked", !.room = r]
                                    ELSE NoFetch]
        /\ sub = [x \in Submission |-> NewSub]
        /\ moves = 0 /\ disturbed = TRUE
  BY DEF Init
<1>2. <<>> \in Seq(1 .. MaxLog) /\ Len(<<>>) = 0 /\ MaxLog \in Nat /\ MaxWire \in Nat /\ MaxMoves \in Nat
  BY ChatClientAssumption
<1>3. [NoFetch EXCEPT !.pc = "asked", !.room = r] \in FetchType
  BY NoFetchType DEF FetchType
<1>4. fetch \in [Fetch -> FetchType]
  BY <1>1, <1>3, NoFetchType
<1>5. NewSub \in SubRecord /\ NewSub.at = "new" /\ NewSub.srv = "none"
  BY <1>2 DEF NewSub, SubRecord
<1>6. PageType
  <2> page \in Page /\ listener \in ListenerType
    BY <1>1, <1>2 DEF Page, ListenerType
  <2> QED BY <1>4 DEF PageType
<1>7. LogType
  BY <1>1, <1>2 DEF LogType
<1>8. WireType
  BY <1>1, <1>2, ToSetSmall DEF WireType, Sent
<1>9. FlagType
  <2>1. joined \subseteq Room /\ asking \subseteq Room
    BY <1>1
  <2>2. up \in BOOLEAN /\ disturbed \in BOOLEAN
    BY <1>1, Zenon
  <2>3. moves \in 0 .. MaxMoves
    BY <1>1, <1>2
  <2> QED BY <2>1, <2>2, <2>3 DEF FlagType
<1>10. SubTyped
  BY <1>1, <1>5 DEF SubTyped, Submitted, Own
<1> QED BY <1>6, <1>7, <1>8, <1>9, <1>10 DEF Typed

\* The log keeps what it has.
Grows == \A i \in DOMAIN log : i \in DOMAIN log' /\ log'[i] = log[i]

\* What keeps the types of a part.
LEMMA Kept ==
  ASSUME Typed
  PROVE  /\ log' = log => Grows
         /\ log' = log /\ telling' \subseteq telling => LogType'
         /\ log' = log /\ wire' = wire => WireType'
         /\ log' = log /\ Received => WireType'
         /\ page' = page /\ listener' = listener /\ fetch' = fetch => PageType'
<1>1. LogType /\ WireType /\ PageType
  BY DEF Typed
<1>2. ASSUME log' = log, Received PROVE WireType'
  BY <1>1, <1>2, ReceiveIs DEF WireType
<1>3. log' = log => Grows
  BY DEF Grows
<1> QED BY <1>1, <1>2, <1>3 DEF LogType, WireType, PageType, Sent

LEMMA SentType ==
  ASSUME Typed, log' = log, NEW items \in Seq(Item), Send(items),
         \A e \in Sent("message", items) : e.id <= Len(log)
  PROVE  WireType'
<1> WireType
  BY DEF Typed
<1> QED BY SendIs DEF WireType

LEMMA CreatedType ==
  ASSUME Typed, NEW r \in Room, NEW reply \in BOOLEAN, NEW x \in Submission \cup {None}, NEW unheard,
         Create(r, reply, x, unheard), wire' = wire, telling' \subseteq telling \cup {Len(log) + 1}
  PROVE  LogType' /\ WireType' /\ Grows
<1>1. LogType /\ WireType
  BY DEF Typed
<1>2. LogType'
  <2>1. /\ log' \in Seq(Entry) /\ Len(log') <= MaxLog /\ Len(log) \in Nat
        /\ DOMAIN log = 1 .. Len(log) /\ DOMAIN log' = 1 .. Len(log) + 1
    BY CreateIs
  <2>2. telling' \subseteq 1 .. Len(log) + 1
    <3> telling \subseteq 1 .. Len(log)
      BY <1>1, <2>1 DEF LogType
    <3> QED BY <2>1
  <2> QED BY <2>1, <2>2 DEF LogType
<1>3. WireType'
  <2>1. Sent("message", wire') = Sent("message", wire) /\ Len(log') = Len(log) + 1 /\ Len(log) \in Nat
    BY CreateIs DEF Sent
  <2>2. \A e \in Sent("message", wire) : e.id \in Nat
    <3> \A e \in ToSet(wire) : e \in Item
      BY <1>1, LenProperties, ElementOfSeq DEF WireType, ToSet
    <3> QED BY ItemTypes DEF Sent
  <2> QED BY <1>1, <2>1, <2>2 DEF WireType
<1>4. Grows
  <2>1. /\ Len(log) \in Nat /\ DOMAIN log = 1 .. Len(log) /\ DOMAIN log' = 1 .. Len(log) + 1
        /\ \A i \in 1 .. Len(log) : log'[i] = log[i]
    BY CreateIs
  <2> QED BY <2>1 DEF Grows
<1> QED BY <1>2, <1>3, <1>4

LEMMA SubUpdate ==
  ASSUME Typed, Grows, NEW x \in Submission, NEW new \in SubRecord, sub' = [sub EXCEPT ![x] = new],
         Submitted(new, log'),
         sub[x].srv \in {"made", "done"} => new.srv \in {"made", "done"},
         \A id \in telling' : \/ id \in telling
                              \/ log'[id].by = None
                              \/ log'[id].by = x /\ new.srv \in {"made", "done"}
  PROVE  SubTyped'
<1>1. /\ sub \in [Submission -> SubRecord] /\ telling \subseteq DOMAIN log /\ Own
      /\ \A y \in Submission : Submitted(sub[y], log)
      /\ log \in Seq(Entry)
  BY DEF Typed, SubTyped, LogType
<1>2. sub' \in [Submission -> SubRecord] /\ sub'[x] = new /\ \A y \in Submission \ {x} : sub'[y] = sub[y]
  BY <1>1
<1>3. \A y \in Submission : Submitted(sub'[y], log')
  <2>1. Submitted(sub'[x], log')
    BY <1>2
  <2>2. \A y \in Submission \ {x} : Submitted(sub[y], log')
    BY <1>1 DEF Submitted, Grows
  <2> QED BY <1>2, <2>1, <2>2
<1>4. ASSUME NEW id \in telling', log'[id].by # None PROVE sub'[log'[id].by].srv \in {"made", "done"}
  <2>1. CASE id \in telling
    <3>1. id \in DOMAIN log /\ log'[id] = log[id]
      BY <1>1, <2>1 DEF Grows
    <3>2. log[id] \in Entry
      BY <1>1, <3>1
    <3>3. log[id].by \in Submission
      BY <1>4, <3>1, <3>2 DEF Entry
    <3>4. sub[log[id].by].srv \in {"made", "done"}
      BY <1>1, <1>4, <2>1, <3>1 DEF Own
    <3> QED BY <1>2, <3>1, <3>3, <3>4
  <2>2. CASE log'[id].by = x /\ new.srv \in {"made", "done"}
    BY <1>2, <2>2
  <2> QED BY <1>4, <2>1, <2>2
<1> QED BY <1>2, <1>3, <1>4 DEF SubTyped, Own

LEMMA SubKept ==
  ASSUME Typed, Grows, sub' = sub, \A id \in telling' : id \in telling \/ log'[id].by = None
  PROVE  SubTyped'
<1>1. /\ sub \in [Submission -> SubRecord] /\ telling \subseteq DOMAIN log /\ Own
      /\ \A y \in Submission : Submitted(sub[y], log)
  BY DEF Typed, SubTyped, LogType
<1>2. \A y \in Submission : Submitted(sub[y], log')
  BY <1>1 DEF Submitted, Grows
<1>3. \A id \in telling' : log'[id].by # None => sub[log'[id].by].srv \in {"made", "done"}
  BY <1>1 DEF Own, Grows
<1> QED BY <1>1, <1>2, <1>3 DEF SubTyped, Own

LEMMA FlagsKept ==
  ASSUME Typed, joined' \subseteq Room, asking' \subseteq Room, up' \in BOOLEAN, disturbed' \in BOOLEAN,
         Move \/ moves' = moves
  PROVE  FlagType'
BY ChatClientAssumption DEF Typed, FlagType, Move

\* A handler is done with a message.
LEMMA ToldType ==
  ASSUME Typed, NEW id, Told(id), log' = log
  PROVE  /\ id \in 1 .. Len(log) /\ id \in 1 .. MaxLog /\ log[id] \in Entry
         /\ LogType' /\ SubTyped'
<1>1. /\ id \in telling /\ telling \subseteq DOMAIN log /\ log \in Seq(Entry) /\ Len(log) \in Nat
      /\ Len(log) <= MaxLog /\ MaxLog \in Nat /\ DOMAIN log = 1 .. Len(log)
      /\ telling' \subseteq telling
  BY ChatClientAssumption DEF Typed, LogType, Told
<1>2. id \in 1 .. Len(log) /\ id \in 1 .. MaxLog /\ log[id] \in Entry /\ LogType' /\ Grows
  BY <1>1, Kept
<1>3. SubTyped'
  <2>1. CASE log[id].by = None
    <3> sub' = sub
      BY <2>1 DEF Told
    <3> QED BY <1>1, <1>2, SubKept
  <2>2. CASE log[id].by # None
    <3>1. PICK x \in Submission : x = log[id].by
      BY <1>2, <2>2 DEF Entry
    <3>2. PICK q \in SubRecord : q = sub[x]
      BY DEF Typed, SubTyped
    <3> DEFINE new == [q EXCEPT !.srv = "done"]
    <3>3. new \in SubRecord /\ new.srv = "done" /\ new.at = q.at /\ new.room = q.room /\ new.id = q.id
      BY DEF SubRecord
    <3>4. sub' = [sub EXCEPT ![x] = new]
      BY <2>2, <3>1, <3>2 DEF Told
    <3>5. Submitted(q, log) /\ q.srv \in {"made", "done"}
      BY <1>1, <2>2, <3>1, <3>2 DEF Typed, SubTyped, Own
    <3> HIDE DEF new
    <3>6. Submitted(new, log')
      BY <3>3, <3>5 DEF Submitted
    <3> QED BY <1>1, <1>2, <3>3, <3>4, <3>6, SubUpdate
  <2> QED BY <2>1, <2>2
<1> QED BY <1>2, <1>3

LEMMA TypedStep == ASSUME Typed, [Next]_vars PROVE Typed'
<1>0. /\ LogType /\ WireType /\ PageType /\ FlagType /\ SubTyped
      /\ page \in Page /\ page.room \in Room \cup {None} /\ page.list \in Seq(1 .. MaxLog)
      /\ Len(page.list) \in Nat /\ <<>> \in Seq(1 .. MaxLog)
      /\ fetch \in [Fetch -> FetchType] /\ listener \in ListenerType
      /\ sub \in [Submission -> SubRecord] /\ \A x \in Submission : Submitted(sub[x], log)
      /\ joined \subseteq Room /\ asking \subseteq Room /\ up \in BOOLEAN /\ disturbed \in BOOLEAN
  BY DEF Typed, PageType, Page, FlagType, SubTyped
<1>01. ASSUME log' = log, telling' \subseteq telling, sub' = sub PROVE LogType' /\ SubTyped'
  BY <1>01, Kept, SubKept
<1>1. ASSUME NEW f \in Fetch, NEW r \in Room, Open(f, r) PROVE Typed'
  <2>1. /\ log' = log /\ telling' = telling /\ wire' = wire /\ joined' = joined /\ up' = up /\ sub' = sub
        /\ asking' = asking \cup {r} /\ Move /\ Ask(f, FALSE, r, 0) /\ disturbed' \in BOOLEAN
    BY <1>1 DEF Open, server
  <2>2. PageType'
    <3>1. [page EXCEPT !.room = r, !.list = <<>>, !.loading = TRUE, !.hasMore = TRUE] \in Page
      BY <1>0 DEF Page
    <3>2. page' \in Page /\ listener' \in ListenerType
      BY <1>0, <1>1, <3>1, RenderType DEF Open
    <3>3. fetch' \in [Fetch -> FetchType]
      BY <1>0, <2>1, AskType
    <3> QED BY <3>2, <3>3 DEF PageType
  <2>3. WireType' /\ FlagType'
    BY <1>0, <2>1, Kept, FlagsKept
  <2> QED BY <1>01, <2>1, <2>2, <2>3 DEF Typed
<1>2. ASSUME NEW f \in Fetch, NEW r \in Room \cup {None}, NEW offset \in Nat, LoadMore(f, r, offset)
      PROVE  Typed'
  <2>1. /\ log' = log /\ telling' = telling /\ wire' = wire /\ joined' = joined /\ up' = up /\ sub' = sub
        /\ asking' = asking /\ Move /\ Ask(f, TRUE, r, offset) /\ r \in Room /\ disturbed' \in BOOLEAN
    BY <1>2 DEF LoadMore, server, Disturb
  <2>2. PageType'
    <3>1. [page EXCEPT !.more = TRUE] \in Page
      BY <1>0 DEF Page
    <3>2. page' \in Page /\ listener' \in ListenerType
      BY <1>0, <1>2, <3>1, RenderType DEF LoadMore
    <3>3. fetch' \in [Fetch -> FetchType]
      BY <1>0, <2>1, AskType
    <3> QED BY <3>2, <3>3 DEF PageType
  <2>3. WireType' /\ FlagType'
    BY <1>0, <2>1, Kept, FlagsKept
  <2> QED BY <1>01, <2>1, <2>2, <2>3 DEF Typed
<1>3. ASSUME NEW f \in Fetch, Answer(f) PROVE Typed'
  <2>1. PICK ids \in Listing(fetch[f].room, fetch[f].offset) :
          /\ log' = log /\ telling' = telling /\ wire' = wire /\ joined' = joined /\ up' = up /\ sub' = sub
          /\ asking' = asking /\ page' = page /\ listener' = listener /\ moves' = moves
          /\ disturbed' = IF fetch[f].older THEN disturbed \/ ~Continues(f)
                          ELSE (disturbed /\ ~page.loading) \/ ~Begins(f, ids)
          /\ fetch' = [fetch EXCEPT ![f].pc = "answered", ![f].ids = ids]
    BY <1>3 DEF Answer, server
  <2>2. PICK q \in FetchType : q = fetch[f]
    BY <1>0
  <2>3. q.offset \in Nat
    BY DEF FetchType
  <2>4. ids \in Seq(1 .. MaxLog)
    BY <1>0, <2>2, <2>3, ListingType
  <2>5. PageType'
    <3>1. [q EXCEPT !.pc = "answered", !.ids = ids] \in FetchType
      BY <2>4 DEF FetchType
    <3>2. fetch' = [fetch EXCEPT ![f] = [q EXCEPT !.pc = "answered", !.ids = ids]]
      BY <1>0, <2>1, <2>2
    <3>3. fetch' \in [Fetch -> FetchType]
      BY <1>0, <3>1, <3>2
    <3> QED BY <1>0, <2>1, <3>3 DEF PageType
  <2>6. disturbed' \in BOOLEAN
    <3>1. CASE fetch[f].older
      BY <2>1, <3>1
    <3>2. CASE ~fetch[f].older
      BY <2>1, <3>2
    <3> QED BY <3>1, <3>2
  <2>7. WireType' /\ FlagType'
    BY <1>0, <2>1, <2>6, Kept, FlagsKept
  <2> QED BY <1>01, <2>1, <2>5, <2>7 DEF Typed
<1>4. ASSUME NEW f \in Fetch, ShowFirst(f) \/ ShowOlder(f) \/ FetchFails(f) PROVE Typed'
  <2>1. /\ log' = log /\ telling' = telling /\ wire' = wire /\ joined' = joined /\ up' = up /\ sub' = sub
        /\ asking' = asking /\ (Move \/ moves' = moves) /\ Done(f) /\ disturbed' \in BOOLEAN
    BY <1>0, <1>4 DEF ShowFirst, ShowOlder, FetchFails, server, Disturb
  <2>2. page' \in Page /\ listener' \in ListenerType
    <3>1. PICK ids \in Seq(1 .. MaxLog) : ids = fetch[f].ids /\ ids \o page.list \in Seq(1 .. MaxLog)
      <4> fetch[f].ids \in Seq(1 .. MaxLog)
        BY <1>0 DEF FetchType
      <4> QED BY <1>0
    <3> DEFINE b == Len(ids) >= Batch
    <3>2. b \in BOOLEAN
      OBVIOUS
    <3> HIDE DEF b
    <3>3. /\ [page EXCEPT !.list = ids, !.loading = FALSE, !.hasMore = b] \in Page
          /\ [page EXCEPT !.list = ids \o @, !.more = FALSE, !.hasMore = b] \in Page
          /\ [page EXCEPT !.more = FALSE] \in Page /\ [page EXCEPT !.loading = FALSE] \in Page
      BY <1>0, <3>1, <3>2 DEF Page
    <3>4. \/ Render([page EXCEPT !.list = ids, !.loading = FALSE, !.hasMore = b])
          \/ Render([page EXCEPT !.list = ids \o @, !.more = FALSE, !.hasMore = b])
          \/ Render([page EXCEPT !.more = FALSE])
          \/ Render([page EXCEPT !.loading = FALSE])
      BY <1>4, <3>1 DEF ShowFirst, ShowOlder, FetchFails, b
    <3> QED BY <1>0, <3>3, <3>4, RenderType
  <2>3. PageType'
    <3> fetch' \in [Fetch -> FetchType]
      BY <1>0, <2>1, DoneType
    <3> QED BY <2>2 DEF PageType
  <2>4. WireType' /\ FlagType'
    BY <1>0, <2>1, Kept, FlagsKept
  <2> QED BY <1>01, <2>1, <2>3, <2>4 DEF Typed
<1>5. ASSUME NEW r \in Room, NEW reply \in BOOLEAN, Post(r, reply) \/ PostOverRest(r) PROVE Typed'
  <2>1. /\ joined' = joined /\ up' = up /\ sub' = sub /\ asking' = asking /\ wire' = wire
        /\ page' = page /\ listener' = listener /\ fetch' = fetch /\ (Move \/ moves' = moves)
        /\ telling' \subseteq telling \cup {Len(log) + 1}
    BY <1>5 DEF Post, PostOverRest
  <2>2. PICK b \in BOOLEAN, unheard \in BOOLEAN : Create(r, b, None, unheard)
    BY <1>5 DEF Post, PostOverRest
  <2>3. disturbed' \in BOOLEAN /\ log'[Len(log) + 1].by = None
    BY <2>2, CreateIs
  <2>4. LogType' /\ WireType' /\ Grows
    BY <2>1, <2>2, CreatedType
  <2>5. SubTyped'
    BY <2>1, <2>3, <2>4, SubKept
  <2>6. FlagType' /\ PageType'
    BY <1>0, <2>1, <2>3, FlagsKept, Kept
  <2> QED BY <2>4, <2>5, <2>6 DEF Typed
<1>6. ASSUME NEW id, Broadcast(id) \/ ReloadFails(id) PROVE Typed'
  <2>1. /\ log' = log /\ joined' = joined /\ up' = up /\ asking' = asking /\ Told(id)
        /\ page' = page /\ listener' = listener /\ fetch' = fetch /\ (Move \/ moves' = moves)
        /\ disturbed' \in BOOLEAN
    BY <1>6 DEF Broadcast, ReloadFails, Disturb
  <2>2. id \in 1 .. Len(log) /\ id \in 1 .. MaxLog /\ log[id] \in Entry /\ LogType' /\ SubTyped'
    BY <2>1, ToldType
  <2>3. PICK x \in Submission \cup {None} : x = log[id].by
    BY <2>2 DEF Entry
  <2> DEFINE told == log[id].room \in joined
  <2>4. \/ Send(Items(id, told, x, TRUE))
        \/ Send(Ack(x, FALSE))
    BY <1>6, <2>3 DEF Broadcast, ReloadFails, Items, Message
  <2>5. told \in BOOLEAN
    OBVIOUS
  <2> HIDE DEF told
  <2>6. WireType'
    <3>1. \A ok \in BOOLEAN :
            /\ Items(id, told, x, ok) \in Seq(Item) /\ Ack(x, ok) \in Seq(Item)
            /\ Sent("message", Items(id, told, x, ok)) \subseteq {Message(id)}
            /\ Sent("message", Ack(x, ok)) = {}
      BY <2>2, <2>5, ItemsIs
    <3>2. Message(id).id = id /\ id <= Len(log)
      BY <2>2 DEF Message
    <3>3. CASE Send(Items(id, told, x, TRUE))
      BY <2>1, <3>1, <3>2, <3>3, SentType
    <3>4. CASE Send(Ack(x, FALSE))
      BY <2>1, <3>1, <3>4, SentType
    <3> QED BY <2>4, <3>3, <3>4
  <2>7. FlagType' /\ PageType'
    BY <1>0, <2>1, FlagsKept, Kept
  <2> QED BY <2>2, <2>6, <2>7 DEF Typed
<1>7. ASSUME NEW x \in Submission, Submit(x) PROVE Typed'
  <2>1. /\ log' = log /\ telling' = telling /\ wire' = wire /\ joined' = joined /\ up' = up
        /\ asking' = asking /\ page' = page /\ listener' = listener /\ fetch' = fetch
        /\ disturbed' = disturbed /\ Move /\ sub[x].at = "new" /\ page.room \in Room
    BY <1>0, <1>7 DEF Submit, server
  <2>2. PICK q \in SubRecord : q = sub[x]
    BY <1>0
  <2> DEFINE new == [q EXCEPT !.room = page.room, !.at = IF up THEN "socket" ELSE "rest",
                              !.srv = IF up THEN "sent" ELSE "none", !.live = up]
  <2>3. sub' = [sub EXCEPT ![x] = new]
    BY <1>0, <1>7, <2>2 DEF Submit
  <2>4. /\ new \in SubRecord /\ new.room = page.room /\ new.at \in {"socket", "rest"}
        /\ new.srv \in {"sent", "none"}
    BY <1>0, <2>1 DEF SubRecord
  <2>5. q.srv = "none"
    <3> Submitted(q, log)
      BY <1>0, <2>2
    <3> QED BY <2>1, <2>2 DEF Submitted
  <2> HIDE DEF new
  <2>6. Submitted(new, log')
    BY <2>1, <2>4 DEF Submitted
  <2>7. SubTyped' /\ LogType'
    BY <2>1, <2>2, <2>3, <2>4, <2>5, <2>6, SubUpdate, Kept
  <2>8. WireType' /\ PageType' /\ FlagType'
    BY <1>0, <2>1, FlagsKept, Kept
  <2> QED BY <2>7, <2>8 DEF Typed
<1>8. ASSUME NEW x \in Submission, ServeSend(x) PROVE Typed'
  <2>1. /\ joined' = joined /\ up' = up /\ asking' = asking /\ moves' = moves /\ wire' = wire
        /\ page' = page /\ listener' = listener /\ fetch' = fetch
        /\ Create(sub[x].room, FALSE, x, FALSE) /\ telling' = telling \cup {Len(log) + 1}
        /\ sub[x].srv = "sent" /\ sub' = [sub EXCEPT ![x].srv = "made"]
    BY <1>8 DEF ServeSend
  <2>2. PICK q \in SubRecord : q = sub[x] /\ Submitted(q, log) /\ q.room \in Room
    BY <1>0, <2>1 DEF Submitted
  <2>3. Create(q.room, FALSE, x, FALSE)
    BY <2>1, <2>2
  <2>4. disturbed' \in BOOLEAN /\ log'[Len(log) + 1].by = x
    BY <2>2, <2>3, CreateIs
  <2>5. LogType' /\ WireType' /\ Grows
    BY <2>1, <2>2, <2>3, CreatedType
  <2>6. SubTyped'
    <3> DEFINE new == [q EXCEPT !.srv = "made"]
    <3>1. /\ new \in SubRecord /\ new.srv = "made" /\ new.at = q.at /\ new.room = q.room /\ new.id = q.id
          /\ sub' = [sub EXCEPT ![x] = new]
      BY <2>1, <2>2 DEF SubRecord
    <3> HIDE DEF new
    <3>2. Submitted(new, log')
      BY <2>1, <2>2, <2>5, <3>1 DEF Submitted, Grows
    <3> QED BY <2>1, <2>4, <2>5, <3>1, <3>2, SubUpdate
  <2>7. FlagType' /\ PageType'
    BY <1>0, <2>1, <2>4, FlagsKept, Kept
  <2> QED BY <2>5, <2>6, <2>7 DEF Typed
<1>9. ASSUME NEW x \in Submission, RefuseSend(x) PROVE Typed'
  <2>1. /\ log' = log /\ telling' = telling /\ joined' = joined /\ up' = up /\ asking' = asking
        /\ moves' = moves /\ page' = page /\ listener' = listener /\ fetch' = fetch
        /\ disturbed' = disturbed /\ Send(Ack(x, FALSE))
        /\ sub[x].srv = "sent" /\ sub' = [sub EXCEPT ![x].srv = "done"]
    BY <1>9 DEF RefuseSend
  <2>2. PICK q \in SubRecord : q = sub[x] /\ Submitted(q, log)
    BY <1>0
  <2>3. SubTyped' /\ LogType'
    <3> DEFINE new == [q EXCEPT !.srv = "done"]
    <3>1. /\ new \in SubRecord /\ new.srv = "done" /\ new.at = q.at /\ new.room = q.room /\ new.id = q.id
          /\ sub' = [sub EXCEPT ![x] = new]
      BY <2>1, <2>2 DEF SubRecord
    <3> HIDE DEF new
    <3>2. Submitted(new, log')
      BY <2>1, <2>2, <3>1 DEF Submitted
    <3> QED BY <2>1, <3>1, <3>2, SubUpdate, Kept
  <2>4. WireType'
    <3>1. Ack(x, FALSE) \in Seq(Item) /\ Sent("message", Ack(x, FALSE)) = {}
      <4>2. Ack(x, FALSE) = <<>> \/ Ack(x, FALSE) = <<Acknowledgement(x, FALSE)>>
        BY DEF Ack, Acknowledgement
      <4> DEFINE one == Acknowledgement(x, FALSE)
      <4>3. one \in Item /\ one.type = "ack"
        BY ItemTypes
      <4> HIDE DEF one
      <4>4. <<one>> \in Seq(Item) /\ <<>> \in Seq(Item)
        BY <4>3
      <4>5. Sent("message", <<one>>) = {} /\ Sent("message", <<>>) = {}
        BY <4>3, ToSetSmall DEF Sent
      <4> QED BY <4>2, <4>4, <4>5 DEF one
    <3> QED BY <2>1, <3>1, SentType
  <2>5. FlagType' /\ PageType'
    BY <1>0, <2>1, FlagsKept, Kept
  <2> QED BY <2>3, <2>4, <2>5 DEF Typed
<1>10. ASSUME NEW x \in Submission, TimeOut(x) \/ RestFails(x) PROVE Typed'
  <2>1. /\ log' = log /\ telling' = telling /\ wire' = wire /\ joined' = joined /\ up' = up
        /\ asking' = asking /\ moves' = moves /\ page' = page /\ listener' = listener /\ fetch' = fetch
        /\ disturbed' \in BOOLEAN /\ sub[x].at # "new"
    BY <1>0, <1>10 DEF TimeOut, RestFails, server, Disturb
  <2>2. PICK q \in SubRecord : q = sub[x] /\ Submitted(q, log)
    BY <1>0
  <2>3. PICK new \in SubRecord : /\ sub' = [sub EXCEPT ![x] = new] /\ new.srv = q.srv /\ new.room = q.room
                                 /\ new.at \in {"rest", "failed"}
    <3>1. CASE TimeOut(x)
      <4> DEFINE new == [q EXCEPT !.at = "rest", !.fell = TRUE]
      <4>1. new \in SubRecord /\ new.srv = q.srv /\ new.room = q.room /\ new.at = "rest"
        BY DEF SubRecord
      <4>2. sub' = [sub EXCEPT ![x] = new]
        BY <2>2, <3>1 DEF TimeOut
      <4> QED BY <4>1, <4>2
    <3>2. CASE RestFails(x)
      <4> DEFINE new == [q EXCEPT !.at = "failed"]
      <4>1. new \in SubRecord /\ new.srv = q.srv /\ new.room = q.room /\ new.at = "failed"
        BY DEF SubRecord
      <4>2. sub' = [sub EXCEPT ![x] = new]
        BY <2>2, <3>2 DEF RestFails
      <4> QED BY <4>1, <4>2
    <3> QED BY <1>10, <3>1, <3>2
  <2>4. Submitted(new, log')
    BY <2>1, <2>2, <2>3 DEF Submitted
  <2>5. SubTyped' /\ LogType'
    BY <2>1, <2>2, <2>3, <2>4, SubUpdate, Kept
  <2>6. WireType' /\ FlagType' /\ PageType'
    BY <1>0, <2>1, FlagsKept, Kept
  <2> QED BY <2>5, <2>6 DEF Typed
<1>11. ASSUME NEW x \in Submission, RestCreate(x) PROVE Typed'
  <2>1. /\ joined' = joined /\ up' = up /\ asking' = asking /\ moves' = moves /\ wire' = wire
        /\ page' = page /\ listener' = listener /\ fetch' = fetch /\ telling' = telling
        /\ Create(sub[x].room, FALSE, x, FALSE) /\ sub[x].at = "rest"
        /\ sub' = [sub EXCEPT ![x].at = "answer", ![x].id = Len(log) + 1]
    BY <1>11 DEF RestCreate
  <2>2. PICK q \in SubRecord : q = sub[x] /\ Submitted(q, log) /\ q.room \in Room
    BY <1>0, <2>1 DEF Submitted
  <2>3. Create(q.room, FALSE, x, FALSE)
    BY <2>1, <2>2
  <2>4. PICK n \in 1 .. MaxLog : /\ n = Len(log) + 1 /\ n \in DOMAIN log' /\ disturbed' \in BOOLEAN
                                 /\ log'[n].room = q.room /\ ~log'[n].reply
    <3>1. /\ Len(log) \in Nat /\ Len(log) + 1 \in 1 .. MaxLog /\ DOMAIN log' = 1 .. Len(log) + 1
          /\ log'[Len(log) + 1].room = q.room /\ log'[Len(log) + 1].reply = FALSE
          /\ disturbed' \in BOOLEAN
      BY <2>2, <2>3, CreateIs
    <3> QED BY <3>1
  <2>5. LogType' /\ WireType' /\ Grows
    BY <2>1, <2>2, <2>3, CreatedType
  <2>6. SubTyped'
    <3> DEFINE new == [q EXCEPT !.at = "answer", !.id = n]
    <3>1. n \in 0 .. MaxLog
      BY ChatClientAssumption
    <3>2. /\ new \in SubRecord /\ new.srv = q.srv /\ new.at = "answer" /\ new.room = q.room /\ new.id = n
          /\ sub' = [sub EXCEPT ![x] = new]
      BY <2>1, <2>2, <2>4, <3>1 DEF SubRecord
    <3> HIDE DEF new
    <3>3. Submitted(new, log')
      BY <2>1, <2>2, <2>4, <3>2 DEF Submitted
    <3> QED BY <2>1, <2>2, <2>5, <3>2, <3>3, SubUpdate
  <2>7. FlagType' /\ PageType'
    BY <1>0, <2>1, <2>4, FlagsKept, Kept
  <2> QED BY <2>5, <2>6, <2>7 DEF Typed
<1>12. ASSUME NEW x \in Submission, RestAnswer(x) PROVE Typed'
  <2>1. /\ log' = log /\ telling' = telling /\ wire' = wire /\ joined' = joined /\ up' = up
        /\ asking' = asking /\ moves' = moves /\ fetch' = fetch
        /\ sub[x].at = "answer" /\ sub' = [sub EXCEPT ![x].at = "ok"]
        /\ Render([page EXCEPT !.list = Append(page.list, sub[x].id)])
    BY <1>12 DEF RestAnswer, server, Answered
  <2>2. disturbed' \in BOOLEAN
    BY <1>12 DEF RestAnswer, Disturb
  <2>3. PICK q \in SubRecord : q = sub[x] /\ Submitted(q, log) /\ q.id \in 1 .. MaxLog
    <3>1. Submitted(sub[x], log) /\ sub[x].id \in DOMAIN log
      BY <1>0, <2>1 DEF Submitted
    <3>2. Len(log) \in Nat /\ DOMAIN log = 1 .. Len(log) /\ Len(log) <= MaxLog /\ MaxLog \in Nat
      BY <1>0, ChatClientAssumption, LenProperties DEF LogType
    <3> QED BY <1>0, <3>1, <3>2
  <2>4. PageType'
    <3>1. Append(page.list, q.id) \in Seq(1 .. MaxLog)
      BY <1>0, <2>3, AppendProperties
    <3>2. [page EXCEPT !.list = Append(page.list, q.id)] \in Page
      BY <1>0, <3>1 DEF Page
    <3>3. page' \in Page /\ listener' \in ListenerType
      BY <1>0, <2>1, <2>3, <3>2, RenderType
    <3> QED BY <1>0, <2>1, <3>3 DEF PageType
  <2>5. SubTyped' /\ LogType'
    <3> DEFINE new == [q EXCEPT !.at = "ok"]
    <3>1. /\ new \in SubRecord /\ new.srv = q.srv /\ new.at = "ok" /\ new.room = q.room
          /\ sub' = [sub EXCEPT ![x] = new]
      BY <2>1, <2>3 DEF SubRecord
    <3> HIDE DEF new
    <3>2. Submitted(new, log')
      BY <2>1, <2>3, <3>1 DEF Submitted
    <3> QED BY <2>1, <2>3, <3>1, <3>2, SubUpdate, Kept
  <2>6. WireType' /\ FlagType'
    BY <1>0, <2>1, <2>2, FlagsKept, Kept
  <2> QED BY <2>4, <2>5, <2>6 DEF Typed
<1>13. ASSUME Hear PROVE Typed'
  <2>1. /\ log' = log /\ telling' = telling /\ joined' = joined /\ up' = up /\ asking' = asking
        /\ moves' = moves /\ fetch' = fetch /\ sub' = sub /\ Received /\ Head(wire).type = "message"
        /\ disturbed' \in BOOLEAN
        /\ \/ Render(page)
           \/ Render([page EXCEPT !.list = Add(Head(wire).id)])
    BY <1>13 DEF Hear, Disturb
  <2>2. PICK id \in 1 .. MaxLog : id = Head(wire).id
    BY <1>0, <2>1, ReceiveIs, ItemTypes
  <2>3. PageType'
    <3>1. Add(id) \in Seq(1 .. MaxLog)
      BY <1>0, AppendProperties DEF Add
    <3>2. [page EXCEPT !.list = Add(id)] \in Page
      BY <1>0, <3>1 DEF Page
    <3>3. page' \in Page /\ listener' \in ListenerType
      BY <1>0, <2>1, <2>2, <3>2, RenderType
    <3> QED BY <1>0, <2>1, <3>3 DEF PageType
  <2>4. WireType' /\ FlagType'
    BY <1>0, <2>1, FlagsKept, Kept
  <2> QED BY <1>01, <2>1, <2>3, <2>4 DEF Typed
<1>14. ASSUME NEW f \in Fetch, HearRefusal(f) PROVE Typed'
  <2>1. /\ log' = log /\ telling' = telling /\ joined' = joined /\ up' = up /\ asking' = asking
        /\ moves' = moves /\ disturbed' = disturbed /\ sub' = sub
        /\ Received /\ Head(wire).type = "refused"
        /\ Ask(f, FALSE, Head(wire).room, 0) /\ Render([page EXCEPT !.loading = TRUE])
    BY <1>14 DEF HearRefusal
  <2>2. PICK r \in Room : r = Head(wire).room
    BY <1>0, <2>1, ReceiveIs, ItemTypes
  <2>3. PageType'
    <3>1. [page EXCEPT !.loading = TRUE] \in Page
      BY <1>0 DEF Page
    <3>2. page' \in Page /\ listener' \in ListenerType
      BY <1>0, <2>1, <3>1, RenderType
    <3>3. fetch' \in [Fetch -> FetchType]
      BY <1>0, <2>1, <2>2, AskType
    <3> QED BY <3>2, <3>3 DEF PageType
  <2>4. WireType' /\ FlagType'
    BY <1>0, <2>1, FlagsKept, Kept
  <2> QED BY <1>01, <2>1, <2>3, <2>4 DEF Typed
<1>15. ASSUME HearAck PROVE Typed'
  <2>1. /\ log' = log /\ telling' = telling /\ joined' = joined /\ up' = up /\ asking' = asking
        /\ moves' = moves /\ page' = page /\ listener' = listener /\ fetch' = fetch
        /\ disturbed' = disturbed /\ Received /\ Head(wire).type = "ack"
    BY <1>15 DEF HearAck
  <2>2. PICK x \in Submission, ok \in BOOLEAN : x = Head(wire).sub /\ ok = Head(wire).ok
    BY <1>0, <2>1, ReceiveIs, ItemTypes
  <2>3. SubTyped' /\ LogType'
    <3>1. CASE sub[x].at # "socket"
      <4> sub' = sub
        BY <1>15, <2>2, <3>1 DEF HearAck
      <4> QED BY <1>01, <2>1
    <3>2. CASE sub[x].at = "socket"
      <4>1. PICK q \in SubRecord : q = sub[x] /\ Submitted(q, log)
        BY <1>0
      <4>2. PICK a \in {"ok", "rest"}, b \in BOOLEAN : a = Acked(ok) /\ b = (Acked(ok) = "rest")
        BY DEF Acked
      <4> DEFINE new == [q EXCEPT !.at = a, !.fell = b]
      <4>3. sub' = [sub EXCEPT ![x].at = a, ![x].fell = b]
        BY <1>15, <2>2, <3>2, <4>2 DEF HearAck
      <4>4. new \in SubRecord /\ new.srv = q.srv /\ new.at = a /\ new.room = q.room
        BY DEF SubRecord
      <4>5. sub' = [sub EXCEPT ![x] = new]
        BY <1>0, <4>1, <4>3
      <4> HIDE DEF new
      <4>6. Submitted(new, log')
        BY <2>1, <3>2, <4>1, <4>4 DEF Submitted
      <4> QED BY <2>1, <4>1, <4>4, <4>5, <4>6, SubUpdate, Kept
    <3> QED BY <3>1, <3>2
  <2>4. WireType' /\ FlagType' /\ PageType'
    BY <1>0, <2>1, FlagsKept, Kept
  <2> QED BY <2>3, <2>4 DEF Typed
<1>16. ASSUME NEW r \in Room, ServeJoin(r) \/ AnswerJoin(r) \/ RefuseJoin(r) PROVE Typed'
  <2>1. /\ log' = log /\ telling' = telling /\ up' = up /\ moves' = moves /\ sub' = sub
        /\ page' = page /\ listener' = listener /\ fetch' = fetch /\ disturbed' = disturbed
        /\ joined' \subseteq Room /\ asking' \subseteq Room
        /\ wire' = wire \/ Send(<<Refusal(r)>>)
    BY <1>0, <1>16 DEF ServeJoin, AnswerJoin, RefuseJoin, server, Refusal
  <2> DEFINE e == Refusal(r)
  <2>2. e \in Item /\ e.type = "refused"
    BY ItemTypes
  <2> HIDE DEF e
  <2>3. <<e>> \in Seq(Item) /\ Sent("message", <<e>>) = {}
    BY <2>2, ToSetSmall DEF Sent
  <2>4. WireType'
    BY <2>1, <2>3, Kept, SentType DEF e
  <2>5. FlagType' /\ PageType'
    BY <1>0, <2>1, FlagsKept, Kept
  <2> QED BY <1>01, <2>1, <2>4, <2>5 DEF Typed
<1>17. ASSUME Drop PROVE Typed'
  <2>1. /\ log' = log /\ telling' = telling /\ up' = FALSE /\ Move
        /\ page' = page /\ listener' = listener /\ fetch' = fetch /\ disturbed' \in BOOLEAN
        /\ joined' = {} /\ asking' = {} /\ wire' = <<>>
        /\ sub' = [x \in Submission |-> [sub[x] EXCEPT !.live = FALSE]]
    BY <1>17 DEF Drop, Disturb
  <2>2. ASSUME NEW x \in Submission
        PROVE  sub'[x] \in SubRecord /\ Submitted(sub'[x], log) /\ sub'[x].srv = sub[x].srv
    <3>1. PICK q \in SubRecord : q = sub[x] /\ Submitted(q, log)
      BY <1>0
    <3> DEFINE new == [q EXCEPT !.live = FALSE]
    <3>2. /\ new \in SubRecord /\ new.srv = q.srv /\ new.at = q.at /\ new.room = q.room /\ new.id = q.id
          /\ sub'[x] = new
      BY <2>1, <3>1 DEF SubRecord
    <3> HIDE DEF new
    <3> QED BY <3>1, <3>2 DEF Submitted
  <2>3. SubTyped'
    <3>1. sub' \in [Submission -> SubRecord] /\ \A x \in Submission : Submitted(sub'[x], log')
      BY <2>1, <2>2
    <3>2. ASSUME NEW id \in telling', log'[id].by # None PROVE sub'[log'[id].by].srv \in {"made", "done"}
      <4>1. id \in telling /\ log' = log /\ id \in DOMAIN log /\ log[id] \in Entry
        BY <1>0, <2>1 DEF LogType
      <4>2. log[id].by \in Submission
        BY <3>2, <4>1 DEF Entry
      <4>3. sub[log[id].by].srv \in {"made", "done"}
        BY <1>0, <3>2, <4>1 DEF SubTyped, Own
      <4> QED BY <2>2, <4>1, <4>2, <4>3
    <3> QED BY <3>1, <3>2 DEF SubTyped, Own
  <2>4. WireType'
    BY <1>0, <2>1, ToSetSmall, ChatClientAssumption DEF WireType, Sent
  <2>5. FlagType' /\ PageType' /\ LogType'
    <3> FALSE \in BOOLEAN /\ {} \subseteq Room
      OBVIOUS
    <3> QED BY <1>0, <2>1, FlagsKept, Kept
  <2> QED BY <2>3, <2>4, <2>5 DEF Typed
<1>18. ASSUME Reconnect \/ JoinMine \/ UNCHANGED vars PROVE Typed'
  <2>1. /\ log' = log /\ telling' = telling /\ wire' = wire /\ moves' = moves /\ sub' = sub
        /\ asking' = asking /\ page' = page /\ listener' = listener /\ fetch' = fetch
        /\ disturbed' = disturbed /\ joined' \subseteq Room /\ up' \in BOOLEAN
    BY <1>0, <1>18, ChatClientAssumption DEF Reconnect, JoinMine, vars, server
  <2>2. WireType' /\ FlagType' /\ PageType'
    BY <1>0, <2>1, FlagsKept, Kept
  <2> QED BY <1>01, <2>1, <2>2 DEF Typed
<1>19. ASSUME NEW f \in Fetch, ClickOlder(f) \/ ScrollUp(f) PROVE Typed'
  <2>1. listener.room \in Room \cup {None} /\ listener.offset \in Nat
    BY <1>0 DEF ListenerType
  <2> QED BY <1>0, <1>2, <1>19, <2>1 DEF ClickOlder, ScrollUp
<1> QED
  BY <1>1, <1>3, <1>4, <1>5, <1>6, <1>7, <1>8, <1>9, <1>10, <1>11, <1>12, <1>13, <1>14, <1>15, <1>16, <1>17,
     <1>18, <1>19 DEF Next, Fetching, Resting

\* The page, its socket and its requests are of their types.
THEOREM ClientTypeCorrect == Spec => []TypeOK
<1>1. Spec => []Typed
  BY TypedInit, TypedStep, PTL DEF Spec
<1> QED BY <1>1, TypedIs, PTL

-----------------------------------------------------------------------------
(* How often a submission makes a message *)

\* Where a submission is says how often the socket and REST have made its
\* message.
BySocket(s) == IF s.srv \in {"made", "done"} THEN 1 ELSE 0

ByRest(s) == IF s.at \in {"answer", "ok", "failed"} /\ (s.fell \/ s.srv = "none") THEN 1 ELSE 0

\* An acknowledgement is of a submission the server is done with, and true.
Counted(x) ==
  /\ Cardinality(Copies(x)) <= BySocket(sub[x]) + ByRest(sub[x])
  /\ sub[x].at \in {"answer", "ok"} => Copies(x) # {}
  /\ sub[x].at = "socket" => ~sub[x].fell /\ sub[x].srv # "none"
  /\ sub[x].at \in {"rest", "answer", "failed"} => sub[x].fell \/ sub[x].srv = "none"
  /\ sub[x].srv = "none" => ~sub[x].fell
  /\ sub[x].srv = "made" => Copies(x) # {}
  /\ \A e \in Sent("ack", wire) : e.sub = x => sub[x].srv = "done" /\ (e.ok => Copies(x) # {})

AllCounted == \A x \in Submission : Counted(x)

LEMMA CopiesIs ==
  ASSUME LogType, NEW x
  PROVE  IsFiniteSet(Copies(x)) /\ Cardinality(Copies(x)) \in Nat /\ Copies(x) \subseteq 1 .. Len(log)
<1>1. Len(log) \in Nat /\ DOMAIN log = 1 .. Len(log)
  BY DEF LogType
<1>2. Copies(x) \subseteq 1 .. Len(log)
  BY <1>1 DEF Copies
<1>3. IsFiniteSet(Copies(x))
  <2> 1 \in Int /\ Len(log) \in Int
    BY <1>1
  <2> IsFiniteSet(1 .. Len(log))
    BY FS_Interval
  <2> QED BY <1>2, FS_Subset
<1> QED BY <1>2, <1>3, FS_CardinalityType

\* A message is one more of the submission that made it.
LEMMA CopiesCreate ==
  ASSUME Typed, NEW r \in Room, NEW reply \in BOOLEAN, NEW y \in Submission \cup {None}, NEW unheard,
         Create(r, reply, y, unheard), NEW x \in Submission
  PROVE  /\ y # x => Copies(x)' = Copies(x)
         /\ y = x => Copies(x)' # {} /\ Cardinality(Copies(x)') = Cardinality(Copies(x)) + 1
<1>1. /\ Len(log) \in Nat /\ DOMAIN log = 1 .. Len(log) /\ DOMAIN log' = 1 .. Len(log) + 1
      /\ \A i \in 1 .. Len(log) : log'[i] = log[i]
      /\ log'[Len(log) + 1].by = y
  BY CreateIs
<1>2. CASE y # x
  BY <1>1, <1>2 DEF Copies
<1>3. CASE y = x
  <2>1. Copies(x)' = Copies(x) \cup {Len(log) + 1} /\ Len(log) + 1 \notin Copies(x)
    BY <1>1, <1>3 DEF Copies
  <2> QED BY <1>3, <2>1, CopiesIs, FS_AddElement DEF Typed
<1> QED BY <1>2, <1>3

\* A submission is counted as before if nothing of it changes.
LEMMA CountedKept ==
  ASSUME NEW x \in Submission, Counted(x), sub'[x] = sub[x], Copies(x)' = Copies(x),
         \A e \in Sent("ack", wire') : e.sub = x => e \in Sent("ack", wire)
  PROVE  Counted(x)'
BY DEF Counted

LEMMA CountedInit == ASSUME Init PROVE AllCounted
<1> SUFFICES ASSUME NEW x \in Submission PROVE Counted(x)
  BY DEF AllCounted
<1>1. log = <<>> /\ wire = <<>> /\ sub[x] = NewSub
  BY DEF Init
<1>2. Copies(x) = {} /\ Cardinality(Copies(x)) = 0 /\ Sent("ack", wire) = {}
  BY <1>1, FS_EmptySet, ToSetSmall DEF Copies, Sent
<1> QED BY <1>1, <1>2 DEF Counted, NewSub, BySocket, ByRest

LEMMA CountedStep == ASSUME Typed, AllCounted, [Next]_vars PROVE AllCounted'
<1> USE DEF AllCounted
<1>0. /\ LogType /\ WireType /\ wire \in Seq(Item) /\ sub \in [Submission -> SubRecord] /\ None \notin Submission
      /\ \A x \in Submission : Submitted(sub[x], log)
      /\ \A x \in Submission : Cardinality(Copies(x)) \in Nat
  BY ChatClientAssumption, CopiesIs DEF Typed, WireType, SubTyped
<1>1. ASSUME log' = log, sub' = sub, Sent("ack", wire') \subseteq Sent("ack", wire) PROVE AllCounted'
  BY <1>1, CountedKept DEF Copies
<1>2. ASSUME NEW r \in Room, NEW reply \in BOOLEAN, Post(r, reply) \/ PostOverRest(r) PROVE AllCounted'
  <2>1. PICK b \in BOOLEAN, unheard \in BOOLEAN : Create(r, b, None, unheard)
    BY <1>2 DEF Post, PostOverRest
  <2>2. sub' = sub /\ wire' = wire
    BY <1>2 DEF Post, PostOverRest
  <2>3. \A x \in Submission : Copies(x)' = Copies(x)
    BY <1>0, <2>1, CopiesCreate
  <2> QED BY <2>2, <2>3, CountedKept
<1>3. ASSUME NEW x \in Submission, Submit(x) PROVE AllCounted'
  <2>1. /\ log' = log /\ wire' = wire /\ sub[x].at = "new"
        /\ \A y \in Submission \ {x} : sub'[y] = sub[y]
        /\ sub'[x].fell = sub[x].fell
        /\ \/ sub'[x].at = "socket" /\ sub'[x].srv = "sent"
           \/ sub'[x].at = "rest" /\ sub'[x].srv = "none"
    BY <1>0, <1>3 DEF Submit, server, SubRecord
  <2>2. sub[x].srv = "none" /\ ~sub[x].fell
    BY <1>0, <2>1 DEF Submitted, Counted
  <2>3. Cardinality(Copies(x)) <= 0 /\ \A e \in Sent("ack", wire) : e.sub # x
    BY <2>1, <2>2 DEF Counted, BySocket, ByRest
  <2>4. Counted(x)'
    BY <1>0, <2>1, <2>2, <2>3 DEF Counted, BySocket, ByRest, Copies
  <2> QED BY <2>1, <2>4, CountedKept DEF Copies
<1>4. ASSUME NEW x \in Submission, ServeSend(x) PROVE AllCounted'
  <2>1. /\ sub[x].srv = "sent" /\ wire' = wire /\ \A y \in Submission \ {x} : sub'[y] = sub[y]
        /\ sub'[x].srv = "made" /\ sub'[x].at = sub[x].at /\ sub'[x].fell = sub[x].fell
        /\ sub[x].room \in Room /\ Create(sub[x].room, FALSE, x, FALSE)
    BY <1>0, <1>4 DEF ServeSend, SubRecord, Submitted
  <2>2. /\ Copies(x)' # {} /\ Cardinality(Copies(x)') = Cardinality(Copies(x)) + 1
        /\ \A y \in Submission \ {x} : Copies(y)' = Copies(y)
    BY <1>0, <2>1, CopiesCreate
  <2>3. Counted(x)'
    <3>1. /\ Counted(x) /\ BySocket(sub[x]) = 0 /\ BySocket(sub'[x]) = 1
          /\ ByRest(sub'[x]) = ByRest(sub[x]) /\ ByRest(sub[x]) \in Nat
      BY <2>1 DEF BySocket, ByRest
    <3>2. Cardinality(Copies(x)') <= BySocket(sub'[x]) + ByRest(sub'[x])
      BY <1>0, <2>2, <3>1 DEF Counted
    <3>3. \A e \in Sent("ack", wire) : e.sub # x
      BY <2>1, <3>1 DEF Counted
    <3> QED BY <2>1, <2>2, <3>1, <3>2, <3>3 DEF Counted
  <2> QED BY <2>1, <2>2, <2>3, CountedKept
<1>5. ASSUME NEW x \in Submission, RefuseSend(x) PROVE AllCounted'
  <2> DEFINE no == Acknowledgement(x, FALSE)
  <2>1. /\ sub[x].srv = "sent" /\ log' = log /\ \A y \in Submission \ {x} : sub'[y] = sub[y]
        /\ sub'[x].srv = "done" /\ sub'[x].at = sub[x].at /\ sub'[x].fell = sub[x].fell
        /\ Send(Ack(x, FALSE))
    BY <1>0, <1>5 DEF RefuseSend, SubRecord
  <2>2. no \in Item /\ no.type = "ack" /\ no.sub = x /\ ~no.ok
    BY ItemTypes
  <2>3. Ack(x, FALSE) = <<>> \/ Ack(x, FALSE) = <<no>>
    BY DEF Ack, Acknowledgement
  <2> HIDE DEF no
  <2>4. Ack(x, FALSE) \in Seq(Item) /\ Sent("ack", Ack(x, FALSE)) \subseteq {no}
    <3> <<>> \in Seq(Item) /\ <<no>> \in Seq(Item)
      BY <2>2
    <3> QED BY <2>3, ToSetSmall DEF Sent
  <2>5. Sent("ack", wire') \subseteq Sent("ack", wire) \cup {no}
    BY <1>0, <2>1, <2>4, SendIs
  <2>6. \A y \in Submission : Copies(y)' = Copies(y)
    BY <2>1 DEF Copies
  <2>7. Counted(x)'
    <3>1. /\ Counted(x) /\ BySocket(sub[x]) = 0 /\ BySocket(sub'[x]) = 1
          /\ ByRest(sub'[x]) = ByRest(sub[x]) /\ ByRest(sub[x]) \in Nat
      BY <2>1 DEF BySocket, ByRest
    <3>2. Cardinality(Copies(x)') <= BySocket(sub'[x]) + ByRest(sub'[x])
      BY <1>0, <2>6, <3>1 DEF Counted
    <3>3. \A e \in Sent("ack", wire') : e.sub = x => ~e.ok
      BY <2>1, <2>2, <2>5, <3>1 DEF Counted
    <3> QED BY <2>1, <2>6, <3>1, <3>2, <3>3 DEF Counted
  <2>8. ASSUME NEW y \in Submission \ {x} PROVE Counted(y)'
    BY <2>1, <2>2, <2>5, <2>6, CountedKept
  <2> QED BY <2>7, <2>8
<1>6. ASSUME NEW id, Broadcast(id) \/ ReloadFails(id) PROVE AllCounted'
  <2>1. /\ log' = log /\ Told(id)
        /\ \/ Send(Items(id, log[id].room \in joined, log[id].by, TRUE))
           \/ Send(Ack(log[id].by, FALSE))
    BY <1>6 DEF Broadcast, ReloadFails, Items, Message
  <2>2. id \in 1 .. Len(log) /\ id \in 1 .. MaxLog /\ log[id] \in Entry
    BY <2>1, ToldType
  <2>3. PICK x \in Submission \cup {None} : x = log[id].by
    BY <2>2 DEF Entry
  <2>4. PICK told \in BOOLEAN : told = (log[id].room \in joined)
    <3> (log[id].room \in joined) \in BOOLEAN
      OBVIOUS
    <3> QED BY Zenon
  <2>5. \A y \in Submission : Copies(y)' = Copies(y)
    BY <2>1 DEF Copies
  <2>6. \A e \in Sent("ack", wire') : e \in Sent("ack", wire) \/ (x # None /\ e.sub = x)
    <3>1. \A ok \in BOOLEAN :
            /\ Items(id, told, x, ok) \in Seq(Item) /\ Ack(x, ok) \in Seq(Item)
            /\ \A e \in Sent("ack", Items(id, told, x, ok)) \cup Sent("ack", Ack(x, ok)) :
                 x # None /\ e.sub = x
      <4> SUFFICES ASSUME NEW ok \in BOOLEAN
          PROVE  /\ Items(id, told, x, ok) \in Seq(Item) /\ Ack(x, ok) \in Seq(Item)
                 /\ \A e \in Sent("ack", Items(id, told, x, ok)) \cup Sent("ack", Ack(x, ok)) :
                      x # None /\ e.sub = x
        OBVIOUS
      <4>1. x # None => Acknowledgement(x, ok).sub = x
        BY DEF Acknowledgement
      <4> QED BY <2>2, <4>1, ItemsIs
    <3>2. CASE Send(Items(id, told, x, TRUE))
      <4>1. Items(id, told, x, TRUE) \in Seq(Item)
        BY <3>1
      <4>2. Sent("ack", wire') = Sent("ack", wire) \cup Sent("ack", Items(id, told, x, TRUE))
        BY <1>0, <3>2, <4>1, SendIs
      <4> QED BY <3>1, <4>2
    <3>3. CASE Send(Ack(x, FALSE))
      <4>1. Ack(x, FALSE) \in Seq(Item)
        BY <3>1
      <4>2. Sent("ack", wire') = Sent("ack", wire) \cup Sent("ack", Ack(x, FALSE))
        BY <1>0, <3>3, <4>1, SendIs
      <4> QED BY <3>1, <4>2
    <3> QED BY <2>1, <2>3, <2>4, <3>2, <3>3
  <2>7. CASE x = None
    <3> sub' = sub
      BY <2>1, <2>3, <2>7 DEF Told
    <3> QED BY <1>1, <2>1, <2>6, <2>7
  <2>8. CASE x # None
    <3>1. /\ x \in Submission /\ sub' = [sub EXCEPT ![x].srv = "done"]
          /\ sub[x].srv \in {"made", "done"}
      BY <2>1, <2>3, <2>8 DEF Told, Typed, SubTyped, Own
    <3>2. /\ sub'[x].srv = "done" /\ sub'[x].at = sub[x].at /\ sub'[x].fell = sub[x].fell
          /\ \A y \in Submission \ {x} : sub'[y] = sub[y]
      BY <1>0, <3>1 DEF SubRecord
    <3>3. Copies(x) # {}
      <4> id \in DOMAIN log
        BY <1>0, <2>2, LenProperties DEF LogType
      <4> QED BY <2>3 DEF Copies
    <3>4. Counted(x)'
      <4>1. Counted(x) /\ BySocket(sub[x]) = 1 /\ BySocket(sub'[x]) = 1 /\ ByRest(sub'[x]) = ByRest(sub[x])
        BY <3>1, <3>2 DEF BySocket, ByRest
      <4> QED BY <2>5, <3>1, <3>2, <3>3, <4>1 DEF Counted
    <3>5. ASSUME NEW y \in Submission \ {x} PROVE Counted(y)'
      BY <2>5, <2>6, <3>2, CountedKept
    <3> QED BY <3>4, <3>5
  <2> QED BY <2>7, <2>8
<1>7. ASSUME NEW x \in Submission, TimeOut(x) PROVE AllCounted'
  <2>1. /\ log' = log /\ wire' = wire /\ sub[x].at = "socket"
        /\ \A y \in Submission \ {x} : sub'[y] = sub[y]
        /\ sub'[x].fell /\ sub'[x].at = "rest" /\ sub'[x].srv = sub[x].srv
    BY <1>0, <1>7 DEF TimeOut, server, SubRecord
  <2>2. Counted(x)'
    BY <1>0, <2>1 DEF Counted, BySocket, ByRest, Copies
  <2> QED BY <2>1, <2>2, CountedKept DEF Copies
<1>8. ASSUME NEW x \in Submission, RestCreate(x) PROVE AllCounted'
  <2>1. /\ Create(sub[x].room, FALSE, x, FALSE) /\ wire' = wire /\ sub[x].at = "rest"
        /\ \A y \in Submission \ {x} : sub'[y] = sub[y]
        /\ sub'[x].fell = sub[x].fell /\ sub'[x].at = "answer" /\ sub'[x].srv = sub[x].srv
        /\ sub[x].room \in Room
    BY <1>0, <1>8 DEF RestCreate, SubRecord, Submitted
  <2>2. /\ Copies(x)' # {} /\ Cardinality(Copies(x)') = Cardinality(Copies(x)) + 1
        /\ \A y \in Submission \ {x} : Copies(y)' = Copies(y)
    BY <1>0, <2>1, CopiesCreate
  <2>3. Counted(x)'
    BY <1>0, <2>1, <2>2 DEF Counted, BySocket, ByRest
  <2> QED BY <2>1, <2>2, <2>3, CountedKept
<1>9. ASSUME NEW x \in Submission, RestAnswer(x) \/ RestFails(x) PROVE AllCounted'
  <2>1. /\ log' = log /\ wire' = wire
        /\ \A y \in Submission \ {x} : sub'[y] = sub[y]
        /\ sub'[x].fell = sub[x].fell /\ sub'[x].srv = sub[x].srv
        /\ \/ sub[x].at = "answer" /\ sub'[x].at = "ok"
           \/ sub[x].at \in {"rest", "answer"} /\ sub'[x].at = "failed"
    BY <1>0, <1>9 DEF RestAnswer, RestFails, server, SubRecord
  <2>2. Counted(x)'
    <3>1. /\ Counted(x) /\ Copies(x)' = Copies(x) /\ Sent("ack", wire') = Sent("ack", wire)
          /\ BySocket(sub'[x]) = BySocket(sub[x]) /\ BySocket(sub[x]) \in Nat
      BY <2>1 DEF BySocket, Copies
    <3>2. sub[x].fell \/ sub[x].srv = "none"
      BY <2>1, <3>1 DEF Counted
    <3>3. ByRest(sub'[x]) = 1 /\ ByRest(sub[x]) \in {0, 1}
      BY <2>1, <3>2 DEF ByRest
    <3>4. Cardinality(Copies(x)') <= BySocket(sub'[x]) + ByRest(sub'[x])
      BY <1>0, <3>1, <3>3 DEF Counted
    <3> QED BY <2>1, <3>1, <3>2, <3>4 DEF Counted
  <2> QED BY <2>1, <2>2, CountedKept DEF Copies
<1>10. ASSUME HearAck PROVE AllCounted'
  <2>1. log' = log /\ Received /\ Head(wire).type = "ack"
    BY <1>10 DEF HearAck
  <2>2. /\ Head(wire) \in Item /\ Head(wire) \in Sent("ack", wire)
        /\ Sent("ack", wire') \subseteq Sent("ack", wire)
    BY <1>0, <2>1, ReceiveIs
  <2>3. PICK x \in Submission, ok \in BOOLEAN : x = Head(wire).sub /\ ok = Head(wire).ok
    BY <2>1, <2>2, ItemTypes
  <2>4. CASE sub' = sub
    BY <1>1, <2>1, <2>2, <2>4
  <2>5. CASE sub[x].at = "socket"
    <3>1. /\ \A y \in Submission \ {x} : sub'[y] = sub[y]
          /\ sub'[x].srv = sub[x].srv
          /\ \/ ok /\ sub'[x].at = "ok" /\ ~sub'[x].fell
             \/ ~ok /\ sub'[x].at = "rest" /\ sub'[x].fell
      BY <1>0, <1>10, <2>3, <2>5 DEF HearAck, Acked, SubRecord
    <3>2. \A y \in Submission : Copies(y)' = Copies(y)
      BY <2>1 DEF Copies
    <3>3. Counted(x)'
      <4>1. Counted(x) /\ sub[x].srv = "done" /\ (ok => Copies(x) # {})
        BY <2>2, <2>3 DEF Counted
      <4>2. \A d \in Sent("ack", wire') : d.sub = x => sub[x].srv = "done" /\ (d.ok => Copies(x) # {})
        BY <2>2, <4>1 DEF Counted
      <4>3. CASE ok /\ sub'[x].at = "ok" /\ ~sub'[x].fell
        BY <1>0, <2>5, <3>1, <3>2, <4>1, <4>2, <4>3 DEF Counted, BySocket, ByRest
      <4>4. CASE sub'[x].at = "rest" /\ sub'[x].fell
        BY <1>0, <2>5, <3>1, <3>2, <4>1, <4>2, <4>4 DEF Counted, BySocket, ByRest
      <4> QED BY <3>1, <4>3, <4>4
    <3>4. ASSUME NEW y \in Submission \ {x} PROVE Counted(y)'
      BY <2>2, <3>1, <3>2, CountedKept
    <3> QED BY <3>3, <3>4
  <2> QED BY <1>10, <2>3, <2>4, <2>5 DEF HearAck
<1>11. ASSUME Drop PROVE AllCounted'
  <2> SUFFICES ASSUME NEW x \in Submission PROVE Counted(x)'
    OBVIOUS
  <2>1. /\ log' = log /\ Sent("ack", wire') = {}
        /\ sub'[x].at = sub[x].at /\ sub'[x].fell = sub[x].fell /\ sub'[x].srv = sub[x].srv
    <3> Sent("ack", <<>>) = {}
      BY ToSetSmall DEF Sent
    <3> QED BY <1>0, <1>11 DEF Drop, SubRecord
  <2>2. Copies(x)' = Copies(x)
    BY <2>1 DEF Copies
  <2> QED BY <2>1, <2>2 DEF Counted, BySocket, ByRest
<1>12. ASSUME NEW f \in Fetch, NEW r, NEW offset, Open(f, r) \/ LoadMore(f, r, offset) \/ Fetching(f)
       PROVE  AllCounted'
  <2> log' = log /\ sub' = sub /\ wire' = wire
    BY <1>12 DEF Open, LoadMore, Fetching, Answer, ShowFirst, ShowOlder, FetchFails, server
  <2> QED BY <1>1
<1>13. ASSUME Reconnect \/ JoinMine \/ UNCHANGED vars PROVE AllCounted'
  BY <1>1, <1>13 DEF Reconnect, JoinMine, vars, server
<1>14. ASSUME Hear \/ \E f \in Fetch : HearRefusal(f) PROVE AllCounted'
  <2>1. log' = log /\ sub' = sub /\ Received
    BY <1>14 DEF Hear, HearRefusal
  <2> QED BY <1>0, <1>1, <2>1, ReceiveIs
<1>15. ASSUME NEW r \in Room, ServeJoin(r) \/ AnswerJoin(r) \/ RefuseJoin(r) PROVE AllCounted'
  <2> DEFINE e == Refusal(r)
  <2>1. log' = log /\ sub' = sub /\ (wire' = wire \/ Send(<<e>>))
    BY <1>15 DEF ServeJoin, AnswerJoin, RefuseJoin, server, Refusal
  <2>2. e \in Item /\ e.type = "refused"
    BY ItemTypes
  <2> HIDE DEF e
  <2>3. <<e>> \in Seq(Item) /\ Sent("ack", <<e>>) = {}
    BY <2>2, ToSetSmall DEF Sent
  <2>4. Sent("ack", wire') = Sent("ack", wire)
    BY <1>0, <2>1, <2>3, SendIs
  <2> QED BY <1>1, <2>1, <2>4
<1> QED
  BY <1>2, <1>3, <1>4, <1>5, <1>6, <1>7, <1>8, <1>9, <1>10, <1>11, <1>12, <1>13, <1>14, <1>15
  DEF Next, ClickOlder, ScrollUp, Resting

\* A submission makes one message, or two if it fell back to REST from the
\* socket; if it was answered, at least one.
THEOREM ClientSentOnce == Spec => []SentOnce
<1>1. Init => Typed /\ AllCounted
  BY TypedInit, CountedInit
<1>2. Typed /\ AllCounted /\ [Next]_vars => (Typed /\ AllCounted)'
  BY TypedStep, CountedStep
<1>3. Typed /\ AllCounted => SentOnce
  <2> SUFFICES ASSUME Typed, AllCounted, NEW x \in Submission
               PROVE  /\ Cardinality(Copies(x)) <= IF sub[x].fell THEN 2 ELSE 1
                      /\ sub[x].at = "ok" => Copies(x) # {}
    BY DEF SentOnce
  <2>1. Cardinality(Copies(x)) \in Nat
    BY CopiesIs DEF Typed
  <2> QED BY <2>1 DEF AllCounted, Counted, BySocket, ByRest
<1> QED BY <1>1, <1>2, <1>3, PTL DEF Spec
=============================================================================
