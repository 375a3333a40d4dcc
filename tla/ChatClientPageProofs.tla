------------------------ MODULE ChatClientPageProofs ------------------------
(***************************************************************************)
(* Proof about ChatClient that the disturbances it names are all there     *)
(* are: outside them the page has the newest messages of its room, for     *)
(* every number of rooms, requests and messages and every size of a        *)
(* listing.                                                                *)
(***************************************************************************)
EXTENDS ChatClientProofs

-----------------------------------------------------------------------------
(* Listings *)

\* Thread, by log l.
ThreadOf(l, q) == {i \in DOMAIN l : l[i].room = q /\ ~l[i].reply}

\* S are newest messages of room q by log l, and all of them if whole.
Newest(l, S, q, whole) ==
  /\ S \subseteq ThreadOf(l, q)
  /\ \A i \in ThreadOf(l, q) \ S, j \in S : l[i].at <= l[j].at
  /\ whole => S = ThreadOf(l, q)

\* In an order of a thread, messages that are newer than all others come last.
LEMMA NewerComeLast ==
  ASSUME LogType, NEW r, NEW t \in Orders(r), NEW S, S \subseteq Thread(r),
         \A i \in Thread(r) \ S, j \in S : log[i].at < log[j].at
  PROVE  /\ Cardinality(S) \in Nat /\ Cardinality(S) <= Len(t)
         /\ S = {t[k] : k \in Len(t) - Cardinality(S) + 1 .. Len(t)}
<1> DEFINE N == Len(t)
           c == Cardinality(S)
           K == {k \in 1 .. N : t[k] \in S}
           T == N - c + 1 .. N
<1>1. /\ t \in Seq(1 .. MaxLog) /\ N = Cardinality(Thread(r)) /\ DOMAIN t = 1 .. N
      /\ ToSet(t) = Thread(r) /\ IsInjective(t) /\ N \in Nat /\ IsFiniteSet(Thread(r))
      /\ \A a \in Thread(r) : log[a].at \in Nat
  <2>1. \A a \in Thread(r) : a \in DOMAIN log /\ log[a] \in Entry
    BY DEF Thread, LogType
  <2> QED BY <2>1, OrdersType, ThreadType, ChatClientAssumption DEF Entry
<1>2. \A m, n \in 1 .. N : m < n => log[t[m]].at <= log[t[n]].at
  BY <1>1 DEF Orders
<1>3. IsFiniteSet(S) /\ c \in Nat /\ c <= N
  BY <1>1, FS_Subset, FS_CardinalityType
<1> HIDE DEF N, c
<1>4. IsFiniteSet(K) /\ Cardinality(K) = c
  <2>1. IsFiniteSet(K)
    <3>1. 1 \in Int /\ N \in Int
      BY <1>1
    <3>2. IsFiniteSet(1 .. N)
      BY <3>1, FS_Interval
    <3> QED BY <3>2, FS_Subset
  <2> DEFINE f == [k \in K |-> t[k]]
  <2>2. f \in Injection(K, S)
    BY <1>1 DEF Injection, IsInjective
  <2>3. f \in Surjection(K, S)
    <3>1. \A s \in S : \E k \in K : t[k] = s
      BY <1>1 DEF ToSet
    <3> QED BY <3>1 DEF Surjection
  <2> HIDE DEF f
  <2>4. ExistsBijection(K, S)
    BY <2>2, <2>3 DEF ExistsBijection, Bijection
  <2> QED BY <2>1, <2>4, FS_Bijection DEF c
<1>5. K \subseteq T
  <2> SUFFICES ASSUME NEW k \in K, k \notin T PROVE FALSE
    OBVIOUS
  <2>1. k \in 1 .. N /\ k <= N - c
    BY <1>1, <1>3
  <2>2. k .. N \subseteq K
    <3> SUFFICES ASSUME NEW n \in k .. N, t[n] \notin S PROVE FALSE
      BY <2>1
    <3>1. k < n \/ n = k
      BY <2>1
    <3>2. t[n] \in Thread(r) \ S /\ t[k] \in S /\ k \in 1 .. N /\ n \in 1 .. N /\ k < n
      <4> n \in 1 .. N
        BY <2>1
      <4> QED BY <1>1, <2>1, <3>1 DEF ToSet
    <3>3. log[t[n]].at < log[t[k]].at /\ log[t[k]].at <= log[t[n]].at
      BY <1>2, <3>2
    <3>4. log[t[n]].at \in Nat /\ log[t[k]].at \in Nat
      BY <1>1, <3>2
    <3> QED BY <3>3, <3>4
  <2>3. IsFiniteSet(k .. N) /\ Cardinality(k .. N) = N - k + 1
    <3>1. k \in Int /\ N \in Int /\ ~(k > N)
      BY <1>1, <2>1
    <3> QED BY <3>1, FS_Interval
  <2>4. Cardinality(k .. N) <= c
    BY <1>4, <2>2, FS_Subset
  <2> QED BY <1>1, <1>3, <2>1, <2>3, <2>4
<1>6. IsFiniteSet(T) /\ Cardinality(T) = c
  <2>1. N - c + 1 \in Int /\ N \in Int
    BY <1>1, <1>3
  <2>2. /\ IsFiniteSet(N - c + 1 .. N)
        /\ Cardinality(N - c + 1 .. N) = IF N - c + 1 > N THEN 0 ELSE N - (N - c + 1) + 1
    BY <2>1, FS_Interval
  <2> QED BY <1>1, <1>3, <2>2
<1>7. K = T
  <2> HIDE DEF K, T
  <2> QED BY <1>4, <1>5, <1>6, FS_Subset
<1>8. S = {t[k] : k \in K}
  BY <1>1 DEF ToSet
<1> QED BY <1>3, <1>7, <1>8 DEF N, c

\* A listing whose offset counts messages that are newer than all others brings
\* none of them, and goes on with the next newest.
LEMMA ListingGoesOn ==
  ASSUME LogType, NEW r, NEW S, S \subseteq Thread(r),
         \A i \in Thread(r) \ S, j \in S : log[i].at < log[j].at,
         NEW ids \in Listing(r, Cardinality(S))
  PROVE  /\ IsInjective(ids) /\ ToSet(ids) \cap S = {}
         /\ Newest(log, ToSet(ids) \cup S, r, Len(ids) < Batch)
<1> DEFINE c == Cardinality(S)
<1>1. PICK t \in Orders(r) :
        LET n == Len(t) - Smaller(c, Len(t)) IN ids = SubSeq(t, n - Smaller(Batch, n) + 1, n)
  BY DEF Listing
<1> DEFINE N == Len(t)
           n == N - c
           m == n - Smaller(Batch, n) + 1
<1>2. /\ t \in Seq(1 .. MaxLog) /\ DOMAIN t = 1 .. N /\ N \in Nat
      /\ ToSet(t) = Thread(r) /\ IsInjective(t)
      /\ \A j, k \in 1 .. N : j < k => log[t[j]].at <= log[t[k]].at
  BY OrdersType DEF Orders
<1>3. c \in Nat /\ c <= N /\ S = {t[k] : k \in n + 1 .. N}
  BY NewerComeLast
<1> HIDE DEF c, N
<1>4. n \in Nat /\ n <= N /\ m \in Nat /\ 1 <= m /\ m <= n + 1 /\ (n - m + 1 < Batch => m = 1)
  <2>1. n \in Nat /\ n <= N
    BY <1>2, <1>3
  <2> HIDE DEF n
  <2>2. /\ Smaller(Batch, n) \in Nat /\ Smaller(Batch, n) <= n
        /\ Smaller(Batch, n) < Batch => Smaller(Batch, n) = n
    BY <2>1, ChatClientAssumption DEF Smaller
  <2> QED BY <2>1, <2>2
<1>5. ids = SubSeq(t, m, n)
  <2> Smaller(c, N) = c
    BY <1>2, <1>3 DEF Smaller
  <2> QED BY <1>1 DEF N
<1> HIDE DEF m, n
<1>6. /\ Len(ids) = n - m + 1 /\ DOMAIN ids = 1 .. n - m + 1
      /\ \A i \in 1 .. n - m + 1 : ids[i] = t[m + i - 1]
  <2>1. m \in Int /\ n \in Int /\ \A i \in m .. n : t[i] \in 1 .. MaxLog
    <3> SUFFICES ASSUME NEW i \in m .. n PROVE t[i] \in 1 .. MaxLog
      BY <1>4
    <3>1. i \in 1 .. Len(t)
      BY <1>2, <1>4 DEF N
    <3> QED BY <1>2, <3>1, ElementOfSeq
  <2>2. /\ ids \in Seq(1 .. MaxLog) /\ Len(ids) = IF m <= n THEN n - m + 1 ELSE 0
        /\ \A i \in 1 .. n - m + 1 : ids[i] = t[m + i - 1]
    BY <1>5, <2>1, SubSeqProperties
  <2>3. Len(ids) = n - m + 1
    BY <1>4, <2>2
  <2> QED BY <2>2, <2>3, LenProperties
<1>7. IsInjective(ids)
  <2> SUFFICES ASSUME NEW i \in 1 .. n - m + 1, NEW j \in 1 .. n - m + 1, ids[i] = ids[j] PROVE i = j
    BY <1>6 DEF IsInjective
  <2>1. m + i - 1 \in 1 .. N /\ m + j - 1 \in 1 .. N
    BY <1>2, <1>4
  <2>2. t[m + i - 1] = t[m + j - 1]
    BY <1>6
  <2>3. m + i - 1 = m + j - 1
    <3> \A a, b \in 1 .. N : t[a] = t[b] => a = b
      BY <1>2 DEF IsInjective
    <3> QED BY <2>1, <2>2
  <2> QED BY <1>4, <2>3
<1>8. ToSet(ids) = {t[k] : k \in m .. n}
  <2>1. ASSUME NEW i \in 1 .. n - m + 1 PROVE \E k \in m .. n : ids[i] = t[k]
    <3> m + i - 1 \in m .. n
      BY <1>4
    <3> QED BY <1>6
  <2>2. ASSUME NEW k \in m .. n PROVE \E i \in 1 .. n - m + 1 : ids[i] = t[k]
    <3>1. k - m + 1 \in 1 .. n - m + 1 /\ m + (k - m + 1) - 1 = k
      BY <1>4
    <3> QED BY <1>6, <3>1
  <2>3. ToSet(ids) = {ids[i] : i \in 1 .. n - m + 1}
    BY <1>6 DEF ToSet
  <2> QED BY <2>1, <2>2, <2>3
<1> DEFINE U == ToSet(ids) \cup S
<1>9. ToSet(ids) \cap S = {}
  <2> SUFFICES ASSUME NEW j \in m .. n, NEW k \in n + 1 .. N, t[j] = t[k] PROVE FALSE
    BY <1>3, <1>8
  <2>1. j \in 1 .. N /\ k \in 1 .. N /\ j # k
    BY <1>2, <1>4
  <2> QED BY <1>2, <2>1 DEF IsInjective
<1>10. U = {t[k] : k \in m .. N}
  <2>1. \A k : k \in m .. N <=> k \in m .. n \/ k \in n + 1 .. N
    BY <1>2, <1>4
  <2> QED BY <1>3, <1>8, <2>1
<1>11. U \subseteq Thread(r)
  <2> \A k \in m .. N : k \in DOMAIN t
    BY <1>2, <1>4
  <2> QED BY <1>2, <1>10 DEF ToSet
<1>12. ASSUME NEW i \in Thread(r) \ U, NEW j \in U PROVE log[i].at <= log[j].at
  <2>1. PICK k \in m .. N : j = t[k]
    BY <1>10
  <2>2. PICK h \in 1 .. N : i = t[h]
    BY <1>2 DEF ToSet
  <2>3. h \notin m .. N
    BY <1>10, <2>2
  <2>4. k \in 1 .. N /\ h < k
    BY <1>2, <1>4, <2>3
  <2> QED BY <1>2, <2>1, <2>2, <2>4
<1>13. Len(ids) < Batch => U = Thread(r)
  <2> SUFFICES ASSUME Len(ids) < Batch PROVE Thread(r) \subseteq U
    BY <1>11
  <2>1. m = 1
    BY <1>4, <1>6
  <2> QED BY <1>2, <1>10, <2>1 DEF ToSet
<1>14. ThreadOf(log, r) = Thread(r)
  BY DEF ThreadOf, Thread
<1> HIDE DEF U
<1> QED BY <1>7, <1>9, <1>11, <1>12, <1>13, <1>14 DEF Newest, U

-----------------------------------------------------------------------------
(* The invariant *)

\* A first page that is about to be shown, an older one that was asked for, and
\* what may be under way beside them.
FirstIn(a) == a.pc = "answered" /\ ~a.older
OlderIn(a) == a.pc # "idle" /\ a.older
Waits(a) == a.pc = "idle" \/ (a.pc = "asked" /\ ~a.older)

\* Page p is in step by log l if C is to come, and stays so when the answers to
\* its requests F are shown.
InStepWith(p, F, C, l) ==
  /\ \A f \in Fetch : OlderIn(F[f]) => F[f].room = p.room
  /\ \A f, g \in Fetch : f # g /\ (OlderIn(F[f]) \/ FirstIn(F[f])) => Waits(F[g])
  /\ \A f \in Fetch : FirstIn(F[f]) =>
       /\ IsInjective(F[f].ids)
       /\ Newest(l, ToSet(F[f].ids) \cup C, p.room, Len(F[f].ids) < Batch)
  /\ ~p.loading =>
       /\ IsInjective(p.list)
       /\ Newest(l, ToSet(p.list) \cup C, p.room, ~p.hasMore)
       /\ \A f \in Fetch : OlderIn(F[f]) /\ F[f].pc = "answered" =>
            /\ IsInjective(F[f].ids)
            /\ ToSet(F[f].ids) \cap (ToSet(p.list) \cup C) = {}
            /\ Newest(l, ToSet(F[f].ids) \cup (ToSet(p.list) \cup C), p.room, Len(F[f].ids) < Batch)

\* Coming, by its parts.
Arriving(w) == {e.id : e \in Sent("message", w)}
Answering(s) == {s[x].id : x \in {y \in Submission : s[y].at = "answer"}}
ComingIn(l, tell, w, s, q) == ThreadOf(l, q) \cap (tell \cup Arriving(w) \cup Answering(s))

\* First pages are asked for from the newest message.
AtNewest == \A f \in Fetch : ~fetch[f].older => fetch[f].offset = 0

Undisturbed ==
  ~disturbed => InStepWith(page, fetch, ComingIn(log, telling, wire, sub, page.room), log)

LEMMA ComingIs ==
  /\ \A q : Thread(q) = ThreadOf(log, q)
  /\ \A q : Coming(q) = ComingIn(log, telling, wire, sub, q)
<1>1. \A q : Thread(q) = ThreadOf(log, q)
  BY DEF Thread, ThreadOf
<1>2. {wire[n].id : n \in {m \in DOMAIN wire : wire[m].type = "message"}} = Arriving(wire)
  BY DEF Arriving, Sent, ToSet
<1> QED BY <1>1, <1>2 DEF Coming, ComingIn, Answering

-----------------------------------------------------------------------------
(* What keeps a page in step *)

\* What came is on the page, and on the first page that is about to be shown.
LEMMA StillInStep ==
  ASSUME NEW p, NEW p2, NEW F, NEW C, NEW C2, NEW l, InStepWith(p, F, C, l),
         p2.room = p.room, p2.loading = p.loading, p2.hasMore = p.hasMore, C2 \subseteq C,
         \A c \in C \ C2 : \A f \in Fetch : FirstIn(F[f]) => c \in ToSet(F[f].ids),
         ~p.loading => IsInjective(p2.list) /\ ToSet(p2.list) \cup C2 = ToSet(p.list) \cup C
  PROVE  InStepWith(p2, F, C2, l)
<1>1. ASSUME NEW f \in Fetch, FirstIn(F[f])
      PROVE  ToSet(F[f].ids) \cup C2 = ToSet(F[f].ids) \cup C
  BY <1>1
<1>2. ASSUME NEW f \in Fetch, FirstIn(F[f])
      PROVE  IsInjective(F[f].ids) /\ Newest(l, ToSet(F[f].ids) \cup C2, p2.room, Len(F[f].ids) < Batch)
  BY <1>1, <1>2 DEF InStepWith
<1>3. ASSUME ~p2.loading
      PROVE  /\ IsInjective(p2.list)
             /\ Newest(l, ToSet(p2.list) \cup C2, p2.room, ~p2.hasMore)
             /\ \A f \in Fetch : OlderIn(F[f]) /\ F[f].pc = "answered" =>
                  /\ IsInjective(F[f].ids)
                  /\ ToSet(F[f].ids) \cap (ToSet(p2.list) \cup C2) = {}
                  /\ Newest(l, ToSet(F[f].ids) \cup (ToSet(p2.list) \cup C2), p2.room, Len(F[f].ids) < Batch)
  BY <1>3 DEF InStepWith
<1> QED BY <1>2, <1>3 DEF InStepWith

\* A set of newest messages and one more of the log.
LEMMA NewestGrows ==
  ASSUME NEW l \in Seq(Entry), NEW l2 \in Seq(Entry), NEW n \in Nat, DOMAIN l = 1 .. n,
         DOMAIN l2 = 1 .. n + 1, \A i \in 1 .. n : l2[i] = l[i], NEW q, NEW S, NEW whole,
         Newest(l, S, q, whole)
  PROVE  /\ l2[n + 1].room = q /\ ~l2[n + 1].reply
              /\ (\A i \in ThreadOf(l, q) : l[i].at <= l2[n + 1].at)
           => Newest(l2, S \cup {n + 1}, q, whole)
         /\ l2[n + 1].room # q \/ l2[n + 1].reply => Newest(l2, S, q, whole)
<1> DEFINE T == ThreadOf(l, q)
           T2 == ThreadOf(l2, q)
<1>1. T \subseteq 1 .. n /\ S \subseteq T
  BY DEF ThreadOf, Newest
<1>2. \A i \in T : l2[i] = l[i]
  BY <1>1
<1>3. T2 = T \cup (IF l2[n + 1].room = q /\ ~l2[n + 1].reply THEN {n + 1} ELSE {})
  <2>1. \A i : i \in 1 .. n + 1 <=> i \in 1 .. n \/ i = n + 1
    OBVIOUS
  <2> QED BY <2>1 DEF ThreadOf
<1> HIDE DEF T, T2
<1>4. CASE l2[n + 1].room = q /\ ~l2[n + 1].reply
  BY <1>1, <1>2, <1>3, <1>4 DEF Newest, T, T2
<1>5. CASE ~(l2[n + 1].room = q /\ ~l2[n + 1].reply)
  BY <1>1, <1>2, <1>3, <1>5 DEF Newest, T, T2
<1> QED BY <1>4, <1>5

\* A message is committed: it is to come, or not of the thread, or the page has a
\* first page to come that was not read.
LEMMA InStepGrows ==
  ASSUME NEW l \in Seq(Entry), NEW l2 \in Seq(Entry), NEW n \in Nat, DOMAIN l = 1 .. n,
         DOMAIN l2 = 1 .. n + 1, \A i \in 1 .. n : l2[i] = l[i],
         NEW p, NEW F, NEW C, NEW C2, InStepWith(p, F, C, l),
         \/ /\ l2[n + 1].room = p.room /\ ~l2[n + 1].reply
            /\ \A i \in ThreadOf(l, p.room) : l[i].at <= l2[n + 1].at
            /\ C2 = C \cup {n + 1}
         \/ (l2[n + 1].room # p.room \/ l2[n + 1].reply) /\ C2 = C
         \/ p.loading /\ \A f \in Fetch : ~FirstIn(F[f])
  PROVE  InStepWith(p, F, C2, l2)
<1>1. CASE p.loading /\ \A f \in Fetch : ~FirstIn(F[f])
  BY <1>1 DEF InStepWith
<1>2. CASE (l2[n + 1].room # p.room \/ l2[n + 1].reply) /\ C2 = C
  <2> \A S, whole : Newest(l, S, p.room, whole) => Newest(l2, S, p.room, whole)
    BY <1>2, NewestGrows
  <2> QED BY <1>2 DEF InStepWith
<1>3. CASE /\ l2[n + 1].room = p.room /\ ~l2[n + 1].reply
           /\ \A i \in ThreadOf(l, p.room) : l[i].at <= l2[n + 1].at
           /\ C2 = C \cup {n + 1}
  <2>1. \A S, whole : Newest(l, S, p.room, whole) => Newest(l2, S \cup {n + 1}, p.room, whole)
    BY <1>3, NewestGrows
  <2>2. \A S : S \cup C2 = (S \cup C) \cup {n + 1}
    BY <1>3
  <2>3. ASSUME NEW f \in Fetch, FirstIn(F[f])
        PROVE  IsInjective(F[f].ids) /\ Newest(l2, ToSet(F[f].ids) \cup C2, p.room, Len(F[f].ids) < Batch)
    <3> Newest(l, ToSet(F[f].ids) \cup C, p.room, Len(F[f].ids) < Batch) /\ IsInjective(F[f].ids)
      BY <2>3 DEF InStepWith
    <3> QED BY <2>1, <2>2
  <2>4. ASSUME ~p.loading
        PROVE  /\ IsInjective(p.list)
               /\ Newest(l2, ToSet(p.list) \cup C2, p.room, ~p.hasMore)
    <3> IsInjective(p.list) /\ Newest(l, ToSet(p.list) \cup C, p.room, ~p.hasMore)
      BY <2>4 DEF InStepWith
    <3> QED BY <2>1, <2>2
  <2>5. ASSUME ~p.loading, NEW f \in Fetch, OlderIn(F[f]), F[f].pc = "answered"
        PROVE  /\ IsInjective(F[f].ids)
               /\ ToSet(F[f].ids) \cap (ToSet(p.list) \cup C2) = {}
               /\ Newest(l2, ToSet(F[f].ids) \cup (ToSet(p.list) \cup C2), p.room, Len(F[f].ids) < Batch)
    <3> DEFINE ids == F[f].ids
               S == ToSet(ids) \cup (ToSet(p.list) \cup C)
    <3>1. /\ IsInjective(ids) /\ ToSet(ids) \cap (ToSet(p.list) \cup C) = {}
          /\ Newest(l, S, p.room, Len(ids) < Batch)
      BY <2>5 DEF InStepWith
    <3>2. ToSet(ids) \cup (ToSet(p.list) \cup C2) = S \cup {n + 1}
      BY <1>3
    <3>3. n + 1 \notin ToSet(ids)
      <4> S \subseteq 1 .. n
        BY <3>1 DEF Newest, ThreadOf
      <4> QED OBVIOUS
    <3>4. ToSet(ids) \cap (ToSet(p.list) \cup C2) = {}
      BY <1>3, <3>1, <3>3
    <3> HIDE DEF S, ids
    <3>5. Newest(l2, S \cup {n + 1}, p.room, Len(ids) < Batch)
      BY <2>1, <3>1
    <3> QED BY <3>1, <3>2, <3>4, <3>5 DEF ids
  <2> QED BY <2>3, <2>4, <2>5 DEF InStepWith
<1> QED BY <1>1, <1>2, <1>3

-----------------------------------------------------------------------------
(* Requests *)

LEMMA AskIs ==
  ASSUME Typed, NEW f \in Fetch, NEW older, NEW r, NEW offset, Ask(f, older, r, offset)
  PROVE  /\ fetch[f].pc = "idle" /\ fetch'[f].pc = "asked" /\ fetch'[f].older = older
         /\ fetch'[f].room = r /\ fetch'[f].offset = offset
         /\ \A g \in Fetch \ {f} : fetch'[g] = fetch[g]
<1> fetch \in [Fetch -> FetchType]
  BY DEF Typed, PageType
<1> QED BY DEF Ask, NoFetch

LEMMA DoneIs ==
  ASSUME Typed, NEW f \in Fetch, Done(f)
  PROVE  /\ fetch'[f].pc = "idle" /\ ~fetch'[f].older /\ fetch'[f].offset = 0
         /\ \A g \in Fetch \ {f} : fetch'[g] = fetch[g]
<1> fetch \in [Fetch -> FetchType]
  BY DEF Typed, PageType
<1> QED BY DEF Done, NoFetch

LEMMA AnswerIs ==
  ASSUME Typed, NEW f \in Fetch, Answer(f)
  PROVE  /\ fetch[f].pc = "asked" /\ fetch'[f].pc = "answered" /\ fetch'[f].older = fetch[f].older
         /\ fetch'[f].room = fetch[f].room /\ fetch'[f].offset = fetch[f].offset
         /\ fetch'[f].ids \in Listing(fetch[f].room, fetch[f].offset)
         /\ disturbed' = IF fetch[f].older THEN disturbed \/ ~Continues(f)
                         ELSE (disturbed /\ ~page.loading) \/ ~Begins(f, fetch'[f].ids)
         /\ \A g \in Fetch \ {f} : fetch'[g] = fetch[g]
<1>1. PICK ids \in Listing(fetch[f].room, fetch[f].offset) :
        /\ fetch[f].pc = "asked"
        /\ fetch' = [fetch EXCEPT ![f].pc = "answered", ![f].ids = ids]
        /\ disturbed' = IF fetch[f].older THEN disturbed \/ ~Continues(f)
                        ELSE (disturbed /\ ~page.loading) \/ ~Begins(f, ids)
  BY DEF Answer
<1>2. PICK q \in FetchType : q = fetch[f]
  BY DEF Typed, PageType
<1> DEFINE new == [q EXCEPT !.pc = "answered", !.ids = ids]
<1>3. /\ new.pc = "answered" /\ new.ids = ids /\ new.older = q.older /\ new.room = q.room
      /\ new.offset = q.offset
  BY DEF FetchType
<1>4. fetch \in [Fetch -> FetchType] /\ fetch' = [fetch EXCEPT ![f] = new]
  BY <1>1, <1>2 DEF Typed, PageType
<1> HIDE DEF new
<1>5. fetch'[f] = new /\ \A g \in Fetch \ {f} : fetch'[g] = fetch[g]
  BY <1>4
<1> QED BY <1>1, <1>2, <1>3, <1>5

LEMMA AtNewestInit == ASSUME Init PROVE AtNewest
BY DEF Init, AtNewest, NoFetch

LEMMA AtNewestStep == ASSUME Typed, AtNewest, [Next]_vars PROVE AtNewest'
<1>1. ASSUME NEW f \in Fetch, NEW older, NEW r, NEW offset, Ask(f, older, r, offset), older \/ offset = 0
      PROVE  AtNewest'
  <2> DEFINE new == fetch'
  <2>1. /\ new[f].older = older /\ new[f].offset = offset
        /\ \A g \in Fetch \ {f} : new[g] = fetch[g]
    BY <1>1, AskIs
  <2> QED BY <1>1, <2>1 DEF AtNewest
<1>2. ASSUME NEW f \in Fetch, Done(f) PROVE AtNewest'
  BY <1>2, DoneIs DEF AtNewest
<1>3. ASSUME NEW f \in Fetch, Answer(f) PROVE AtNewest'
  BY <1>3, AnswerIs DEF AtNewest
<1>4. ASSUME fetch' = fetch PROVE AtNewest'
  BY <1>4 DEF AtNewest
<1>5. ASSUME NEW f \in Fetch, NEW r \in Room, Open(f, r) PROVE AtNewest'
  BY <1>1, <1>5 DEF Open
<1>6. ASSUME NEW f \in Fetch, ClickOlder(f) \/ ScrollUp(f) PROVE AtNewest'
  BY <1>1, <1>6 DEF ClickOlder, ScrollUp, LoadMore
<1>7. ASSUME NEW f \in Fetch, HearRefusal(f) PROVE AtNewest'
  BY <1>1, <1>7 DEF HearRefusal
<1>8. ASSUME NEW f \in Fetch, Fetching(f) PROVE AtNewest'
  BY <1>2, <1>3, <1>8 DEF Fetching, ShowFirst, ShowOlder, FetchFails
<1>9. ASSUME NEW r \in Room, \/ PostOverRest(r) \/ ServeJoin(r) \/ AnswerJoin(r) \/ RefuseJoin(r)
                             \/ \E b \in BOOLEAN : Post(r, b)
      PROVE  AtNewest'
  BY <1>4, <1>9 DEF PostOverRest, ServeJoin, AnswerJoin, RefuseJoin, Post
<1>10. ASSUME NEW id, Broadcast(id) \/ ReloadFails(id) PROVE AtNewest'
  BY <1>4, <1>10 DEF Broadcast, ReloadFails
<1>11. ASSUME NEW x \in Submission, Submit(x) \/ ServeSend(x) \/ RefuseSend(x) \/ TimeOut(x) \/ Resting(x)
       PROVE  AtNewest'
  BY <1>4, <1>11 DEF Submit, ServeSend, RefuseSend, TimeOut, Resting, RestCreate, RestAnswer, RestFails
<1>12. ASSUME Hear \/ HearAck \/ Drop \/ Reconnect \/ JoinMine \/ UNCHANGED vars PROVE AtNewest'
  BY <1>4, <1>12 DEF Hear, HearAck, Drop, Reconnect, JoinMine, vars
<1> QED BY <1>5, <1>6, <1>7, <1>8, <1>9, <1>10, <1>11, <1>12 DEF Next

-----------------------------------------------------------------------------
(* Steps *)

C0 == ComingIn(log, telling, wire, sub, page.room)
C1 == ComingIn(log', telling', wire', sub', page'.room)

\* The page does nothing, and of what was to come only that is not any more that
\* it does not miss.
LEMMA PageStays ==
  ASSUME Undisturbed, ~disturbed' => ~disturbed, page' = page, fetch' = fetch, log' = log,
         C1 \subseteq C0, ~disturbed' => \A c \in C0 \ C1 : ~Misses(page.room, c)
  PROVE  Undisturbed'
<1> SUFFICES ASSUME ~disturbed' PROVE InStepWith(page, fetch, C1, log)
  BY DEF Undisturbed, C1
<1>1. InStepWith(page, fetch, C0, log)
  BY DEF Undisturbed, C0
<1>2. \A c \in C0 \ C1 : \A f \in Fetch : FirstIn(fetch[f]) => c \in ToSet(fetch[f].ids)
  BY DEF Misses, Overtaken, FirstIn
<1>3. ~page.loading => \A c \in C0 \ C1 : c \in ToSet(page.list)
  BY DEF Misses
<1>4. ~page.loading => IsInjective(page.list) /\ ToSet(page.list) \cup C1 = ToSet(page.list) \cup C0
  BY <1>1, <1>3 DEF InStepWith
<1> HIDE DEF C0, C1
<1> QED BY <1>1, <1>2, <1>4, StillInStep

\* What is sent that is no message, and what of submissions is no REST answer.
LEMMA SentOthers ==
  ASSUME Typed, NEW items \in Seq(Item), Send(items), Sent("message", items) = {}
  PROVE  Arriving(wire') = Arriving(wire)
BY SendIs DEF Typed, Arriving

LEMMA HeardOthers ==
  ASSUME Typed, Received
  PROVE  /\ Head(wire) \in Item
         /\ Head(wire).type # "message" => Arriving(wire') = Arriving(wire)
         /\ Head(wire).type = "message" => Arriving(wire) = Arriving(wire') \cup {Head(wire).id}
                                           /\ Head(wire).id \in 1 .. Len(log)
<1> DEFINE e == Head(wire)
<1>1. /\ e \in Item
      /\ \A t : Sent(t, wire) = Sent(t, wire') \cup (IF e.type = t THEN {e} ELSE {})
  BY ReceiveIs DEF Typed
<1>2. \A d \in Sent("message", wire) : d.id <= Len(log)
  BY DEF Typed, WireType
<1>3. e.type = "message" => e.id \in 1 .. MaxLog
  BY <1>1, ItemTypes
<1>4. Len(log) \in Nat /\ MaxLog \in Nat
  BY ChatClientAssumption DEF Typed, LogType
<1> HIDE DEF e
<1>5. e.type # "message" => Arriving(wire') = Arriving(wire)
  BY <1>1 DEF Arriving
<1>6. e.type = "message" => Arriving(wire) = Arriving(wire') \cup {e.id}
  BY <1>1 DEF Arriving
<1>7. e.type = "message" => e.id \in 1 .. Len(log)
  BY <1>1, <1>2, <1>3, <1>4
<1> QED BY <1>1, <1>5, <1>6, <1>7 DEF e

LEMMA AnsweringIs ==
  /\ (\A x \in Submission : /\ sub'[x].at = "answer" <=> sub[x].at = "answer"
                            /\ sub'[x].id = sub[x].id)
     => Answering(sub') = Answering(sub)
  /\ \A x \in Submission :
       /\ \A y \in Submission \ {x} : sub'[y] = sub[y]
       /\ sub[x].at = "answer" /\ sub'[x].at # "answer"
       => Answering(sub') \subseteq Answering(sub) /\ Answering(sub) \subseteq Answering(sub') \cup {sub[x].id}
  /\ \A x \in Submission :
       /\ \A y \in Submission \ {x} : sub'[y] = sub[y]
       /\ sub[x].at # "answer" /\ sub'[x].at = "answer"
       => Answering(sub') = Answering(sub) \cup {sub'[x].id}
BY DEF Answering

LEMMA ToldIs ==
  ASSUME Typed, NEW id, Told(id), log' = log
  PROVE  /\ telling' \subseteq telling /\ telling \subseteq telling' \cup {id} /\ id \in telling
         /\ id \in 1 .. Len(log) /\ id \in 1 .. MaxLog /\ log[id] \in Entry
         /\ Answering(sub') = Answering(sub)
<1>1. id \in 1 .. Len(log) /\ id \in 1 .. MaxLog /\ log[id] \in Entry
  BY ToldType
<1>2. sub \in [Submission -> SubRecord]
  BY DEF Typed, SubTyped
<1>3. \A x \in Submission : sub'[x].at = sub[x].at /\ sub'[x].id = sub[x].id
  BY <1>2 DEF Told, SubRecord
<1>4. Answering(sub') = Answering(sub)
  BY <1>3, AnsweringIs
<1> QED BY <1>1, <1>4 DEF Told

LEMMA PageGetsOne ==
  ASSUME Typed, Undisturbed, NEW r \in Room, NEW reply \in BOOLEAN, NEW x \in Submission \cup {None},
         NEW unheard \in BOOLEAN, Create(r, reply, x, unheard), page' = page, fetch' = fetch, wire' = wire,
         IF unheard THEN telling' = telling /\ sub' = sub
         ELSE telling' \cup Answering(sub') = telling \cup Answering(sub) \cup {Len(log) + 1}
  PROVE  Undisturbed'
<1> DEFINE q == page.room
           n == Len(log)
           T == ThreadOf(log, q)
           T2 == ThreadOf(log', q)
           K == telling \cup Arriving(wire) \cup Answering(sub)
           K2 == telling' \cup Arriving(wire') \cup Answering(sub')
<1> SUFFICES ASSUME ~disturbed' PROVE InStepWith(page, fetch, T2 \cap K2, log')
  BY DEF Undisturbed, ComingIn
<1>1. /\ log \in Seq(Entry) /\ log' \in Seq(Entry) /\ n \in Nat /\ DOMAIN log = 1 .. n
      /\ DOMAIN log' = 1 .. n + 1 /\ \A i \in 1 .. n : log'[i] = log[i]
      /\ log'[n + 1].room = r /\ log'[n + 1].reply = reply /\ log'[n + 1].at \in Nat
  BY CreateIs
<1>2. PICK at \in Second :
        /\ log' = Append(log, [room |-> r, reply |-> reply, by |-> x, at |-> at])
        /\ Disturb(/\ r = page.room /\ ~reply
                   /\ (unheard /\ Misses(r, Len(log) + 1)) \/ \E i \in Thread(r) : log[i].at > at)
  BY DEF Create
<1>3. /\ ~disturbed
      /\ r = q /\ ~reply => /\ ~(unheard /\ Misses(q, n + 1))
                            /\ \A i \in T : ~(log[i].at > at)
  BY <1>2, ComingIs DEF Disturb
<1>4. InStepWith(page, fetch, T \cap K, log)
  BY <1>3 DEF Undisturbed, ComingIn
<1>5. log'[n + 1].at = at
  <2> [room |-> r, reply |-> reply, by |-> x, at |-> at] \in Entry
    BY DEF Entry
  <2> QED BY <1>1, <1>2
<1>6. T \subseteq 1 .. n /\ \A i \in T : log[i].at \in Nat
  <2>1. \A i \in 1 .. n : log[i].at \in Nat
    <3> SUFFICES ASSUME NEW i \in 1 .. n PROVE log[i].at \in Nat
      OBVIOUS
    <3>1. log[i] \in Entry
      BY <1>1, ElementOfSeq
    <3> QED BY <3>1, ChatClientAssumption DEF Entry
  <2> QED BY <1>1, <2>1 DEF ThreadOf
<1>7. T2 = T \cup (IF r = q /\ ~reply THEN {n + 1} ELSE {})
  <2>1. \A i : i \in 1 .. n + 1 <=> i \in 1 .. n \/ i = n + 1
    BY <1>1
  <2> HIDE DEF n, q
  <2> QED BY <1>1, <2>1 DEF ThreadOf
<1>8. n + 1 \notin T
  BY <1>1, <1>6
<1>9. K2 = IF unheard THEN K ELSE K \cup {n + 1}
  OBVIOUS
<1> HIDE DEF q, n, T, T2, K, K2
<1>10. CASE ~(r = q /\ ~reply)
  <2> T2 \cap K2 = T \cap K
    BY <1>7, <1>8, <1>9, <1>10
  <2> QED BY <1>1, <1>4, <1>10, InStepGrows DEF q
<1>11. CASE r = q /\ ~reply /\ ~unheard
  <2>1. T2 \cap K2 = (T \cap K) \cup {n + 1}
    BY <1>7, <1>8, <1>9, <1>11
  <2>2. \A i \in T : log[i].at <= log'[n + 1].at
    BY <1>1, <1>3, <1>5, <1>6, <1>11
  <2> QED BY <1>1, <1>4, <1>11, <2>1, <2>2, InStepGrows DEF q, T
<1>12. CASE r = q /\ ~reply /\ unheard
  <2>1. ~Misses(q, n + 1)
    BY <1>3, <1>12
  <2>2. ~Overtaken(n + 1) /\ (page.loading \/ n + 1 \in ToSet(page.list))
    BY <2>1 DEF Misses, q
  <2>3. \A f \in Fetch : ~FirstIn(fetch[f])
    <3> SUFFICES ASSUME NEW f \in Fetch, FirstIn(fetch[f]) PROVE FALSE
      OBVIOUS
    <3>1. n + 1 \in ToSet(fetch[f].ids)
      BY <2>2 DEF Overtaken, FirstIn
    <3>2. ToSet(fetch[f].ids) \subseteq T
      BY <1>4 DEF InStepWith, Newest, T, q
    <3> QED BY <1>8, <3>1, <3>2
  <2>4. page.loading
    <3> SUFFICES ASSUME ~page.loading PROVE FALSE
      OBVIOUS
    <3>1. ToSet(page.list) \subseteq T
      BY <1>4 DEF InStepWith, Newest, T, q
    <3> QED BY <1>8, <2>2, <3>1
  <2> QED BY <1>1, <1>4, <2>3, <2>4, InStepGrows
<1> QED BY <1>10, <1>11, <1>12

\* A listing is read.
LEMMA PageIsRead ==
  ASSUME Typed, AtNewest, Undisturbed, NEW f \in Fetch, Answer(f)
  PROVE  Undisturbed'
<1> DEFINE q == page.room
           S == ToSet(page.list) \cup C0
           ids == fetch'[f].ids
<1>1. /\ page' = page /\ log' = log /\ C1 = C0
      /\ fetch[f].pc = "asked" /\ fetch'[f].pc = "answered" /\ fetch'[f].older = fetch[f].older
      /\ fetch'[f].room = fetch[f].room /\ fetch[f].offset \in Nat
      /\ ids \in Listing(fetch[f].room, fetch[f].offset)
      /\ disturbed' = IF fetch[f].older THEN disturbed \/ ~Continues(f)
                      ELSE (disturbed /\ ~page.loading) \/ ~Begins(f, ids)
      /\ \A g \in Fetch \ {f} : fetch'[g] = fetch[g]
  <2> fetch[f] \in FetchType
    BY DEF Typed, PageType
  <2> page' = page /\ log' = log /\ wire' = wire /\ telling' = telling /\ sub' = sub
    BY DEF Answer, server
  <2> QED BY AnswerIs DEF FetchType, C0, C1
<1>2. LogType /\ C0 = Coming(q) /\ Has = S /\ \A r : Thread(r) = ThreadOf(log, r)
  BY ComingIs DEF Typed, Has, C0
<1> SUFFICES ASSUME ~disturbed' PROVE InStepWith(page, fetch', C0, log)
  BY <1>1 DEF Undisturbed, C1
<1> DEFINE F == fetch'
<1>3. ~disturbed => InStepWith(page, fetch, C0, log)
  BY DEF Undisturbed, C0
<1> HIDE DEF q, S, ids, F
<1>4. CASE fetch[f].older
  <2>1. InStepWith(page, fetch, C0, log) /\ Continues(f)
    BY <1>1, <1>3, <1>4
  <2>2. fetch[f].room = q /\ \A g \in Fetch \ {f} : Waits(fetch[g])
    BY <1>1, <1>4, <2>1 DEF InStepWith, OlderIn, q
  <2>3. ~FirstIn(F[f]) /\ \A g \in Fetch \ {f} : ~FirstIn(F[g]) /\ ~OlderIn(F[g]) /\ Waits(F[g])
    BY <1>1, <1>4, <2>2 DEF Waits, FirstIn, OlderIn, F
  <2>4. ASSUME ~page.loading
        PROVE  IsInjective(ids) /\ ToSet(ids) \cap S = {} /\ Newest(log, ToSet(ids) \cup S, q, Len(ids) < Batch)
    <3>1. S \subseteq Thread(q)
      BY <1>2, <2>1, <2>4 DEF InStepWith, Newest, q, S
    <3>2. fetch[f].offset = Cardinality(S) /\ \A i \in Thread(q) \ S, j \in S : log[i].at < log[j].at
      BY <1>2, <2>1 DEF Continues, q
    <3>3. ids \in Listing(q, Cardinality(S))
      BY <1>1, <2>2, <3>2
    <3> QED BY <1>2, <3>1, <3>2, <3>3, ListingGoesOn
  <2>5. ~page.loading => IsInjective(page.list) /\ Newest(log, S, q, ~page.hasMore)
    BY <2>1 DEF InStepWith, S, q
  <2>6. F[f].room = q /\ F[f].ids = ids
    BY <1>1, <2>2 DEF F, ids
  <2> QED BY <2>3, <2>4, <2>5, <2>6 DEF InStepWith, F, S, q
<1>5. CASE ~fetch[f].older
  <2>1. Begins(f, ids) /\ (~page.loading => InStepWith(page, fetch, C0, log))
    BY <1>1, <1>3, <1>5
  <2>2. /\ fetch[f].room = q /\ C0 \subseteq ToSet(ids)
        /\ \A g \in Fetch \ {f} : F[g].pc = "idle"
    BY <1>1, <1>2, <2>1 DEF Begins, q, F
  <2>3. ~OlderIn(F[f]) /\ \A g \in Fetch \ {f} : ~FirstIn(F[g]) /\ ~OlderIn(F[g]) /\ Waits(F[g])
    BY <1>1, <1>5, <2>2 DEF Waits, FirstIn, OlderIn, F
  <2>4. IsInjective(ids) /\ Newest(log, ToSet(ids), q, Len(ids) < Batch)
    <3> DEFINE E == {}
    <3>1. fetch[f].offset = Cardinality(E)
      BY <1>5, FS_EmptySet DEF AtNewest
    <3>2. ids \in Listing(q, Cardinality(E))
      BY <1>1, <2>2, <3>1
    <3>3. E \subseteq Thread(q) /\ \A i \in Thread(q) \ E, j \in E : log[i].at < log[j].at
      OBVIOUS
    <3> HIDE DEF E
    <3>4. IsInjective(ids) /\ Newest(log, ToSet(ids) \cup E, q, Len(ids) < Batch)
      BY <1>2, <3>2, <3>3, ListingGoesOn
    <3>5. ToSet(ids) \cup E = ToSet(ids)
      BY DEF E
    <3> QED BY <3>4, <3>5
  <2>5. ToSet(ids) \cup C0 = ToSet(ids)
    BY <2>2
  <2>6. F[f].ids = ids
    BY DEF F, ids
  <2>7. ~page.loading => IsInjective(page.list) /\ Newest(log, ToSet(page.list) \cup C0, q, ~page.hasMore)
    BY <2>1 DEF InStepWith, q
  <2> QED BY <2>3, <2>4, <2>5, <2>6, <2>7 DEF InStepWith, F, q
<1> QED BY <1>4, <1>5

\* What a concatenation has, and has twice.
LEMMA ConcatIs ==
  ASSUME NEW X, NEW v \in Seq(X), NEW w \in Seq(X), IsInjective(v), IsInjective(w),
         ToSet(v) \cap ToSet(w) = {}
  PROVE  v \o w \in Seq(X) /\ ToSet(v \o w) = ToSet(v) \cup ToSet(w) /\ IsInjective(v \o w)
<1> DEFINE u == v \o w
           k == Len(v)
           n == Len(w)
<1>1. u \in Seq(X) /\ ToSet(u) = ToSet(v) \cup ToSet(w)
  BY ToSetConcat
<1>2. /\ k \in Nat /\ n \in Nat /\ DOMAIN v = 1 .. k /\ DOMAIN w = 1 .. n /\ DOMAIN u = 1 .. k + n
      /\ \A i \in 1 .. k + n : u[i] = IF i <= k THEN v[i] ELSE w[i - k]
  BY ConcatProperties, LenProperties
<1> HIDE DEF u, k, n
<1>3. ASSUME NEW i \in 1 .. k + n, NEW j \in 1 .. k + n, u[i] = u[j] PROVE i = j
  <2>1. CASE i <= k /\ j <= k
    <3> i \in 1 .. k /\ j \in 1 .. k /\ v[i] = v[j]
      BY <1>2, <1>3, <2>1
    <3> QED BY <1>2 DEF IsInjective
  <2>2. CASE ~(i <= k) /\ ~(j <= k)
    <3>1. i - k \in 1 .. n /\ j - k \in 1 .. n /\ w[i - k] = w[j - k]
      BY <1>2, <1>3, <2>2
    <3>2. i - k = j - k
      BY <1>2, <3>1 DEF IsInjective
    <3> QED BY <1>2, <3>2
  <2>3. CASE i <= k /\ ~(j <= k)
    <3> i \in 1 .. k /\ j - k \in 1 .. n /\ v[i] = w[j - k]
      BY <1>2, <1>3, <2>3
    <3> QED BY <1>2 DEF ToSet
  <2>4. CASE ~(i <= k) /\ j <= k
    <3> j \in 1 .. k /\ i - k \in 1 .. n /\ w[i - k] = v[j]
      BY <1>2, <1>3, <2>4
    <3> QED BY <1>2 DEF ToSet
  <2> QED BY <2>1, <2>2, <2>3, <2>4
<1>4. IsInjective(u)
  BY <1>2, <1>3 DEF IsInjective
<1> QED BY <1>1, <1>4 DEF u

LEMMA AppendIs ==
  ASSUME NEW X, NEW v \in Seq(X), NEW c \in X
  PROVE  /\ ToSet(Append(v, c)) = ToSet(v) \cup {c}
         /\ IsInjective(v) /\ c \notin ToSet(v) => IsInjective(Append(v, c))
<1>1. Append(v, c) = v \o <<c>> /\ <<c>> \in Seq(X) /\ ToSet(<<c>>) = {c} /\ IsInjective(<<c>>)
  BY ToSetSmall DEF IsInjective
<1> DEFINE w == <<c>>
<1>2. w \in Seq(X) /\ ToSet(w) = {c} /\ IsInjective(w) /\ Append(v, c) = v \o w
  BY <1>1
<1> HIDE DEF w
<1>3. ToSet(v \o w) = ToSet(v) \cup {c}
  BY <1>2, ToSetConcat
<1>4. IsInjective(v) /\ c \notin ToSet(v) => IsInjective(v \o w)
  BY <1>2, ConcatIs
<1> QED BY <1>2, <1>3, <1>4

\* A request is made, answered or fails.
LEMMA PageAsks ==
  ASSUME Typed, Undisturbed, NEW f \in Fetch,
         \/ \E r, offset : LoadMore(f, r, offset)
         \/ HearRefusal(f)
         \/ FetchFails(f)
  PROVE  Undisturbed'
<1>0. page \in Page /\ fetch \in [Fetch -> FetchType]
  BY DEF Typed, PageType
<1>1. ASSUME NEW r, NEW offset, LoadMore(f, r, offset) PROVE Undisturbed'
  <2>1. /\ C1 = C0 /\ log' = log /\ page'.room = page.room /\ page'.loading = page.loading
        /\ page'.list = page.list /\ page'.hasMore = page.hasMore
        /\ Ask(f, TRUE, r, offset) /\ disturbed' = (disturbed \/ (InFlight \/ r # page.room))
    BY <1>0, <1>1 DEF LoadMore, Render, server, Disturb, C0, C1, Page
  <2> SUFFICES ASSUME ~disturbed' PROVE InStepWith(page', fetch', C0, log)
    BY <2>1 DEF Undisturbed, C1
  <2>2. InStepWith(page, fetch, C0, log) /\ ~InFlight /\ r = page.room
    BY <2>1 DEF Undisturbed, C0
  <2> DEFINE F == fetch'
             p == page'
  <2>3. /\ F[f].pc = "asked" /\ F[f].older /\ F[f].room = page.room
        /\ \A g \in Fetch \ {f} : F[g].pc = "idle"
    <3>1. Ask(f, TRUE, r, offset)
      BY <2>1
    <3>2. /\ fetch'[f].pc = "asked" /\ fetch'[f].older = TRUE /\ fetch'[f].room = r
          /\ \A g \in Fetch \ {f} : fetch'[g] = fetch[g]
      BY <3>1, AskIs
    <3> QED BY <2>2, <3>2 DEF InFlight
  <2>4. /\ p.room = page.room /\ p.loading = page.loading /\ p.list = page.list /\ p.hasMore = page.hasMore
    BY <2>1
  <2> HIDE DEF F, p
  <2> QED BY <2>2, <2>3, <2>4 DEF InStepWith, FirstIn, OlderIn, Waits, F, p
<1>2. ASSUME HearRefusal(f) PROVE Undisturbed'
  <2>1. /\ log' = log /\ page'.room = page.room /\ page'.loading /\ Received /\ Head(wire).type = "refused"
        /\ Ask(f, FALSE, Head(wire).room, 0) /\ disturbed' = disturbed /\ telling' = telling /\ sub' = sub
    BY <1>0, <1>2 DEF HearRefusal, Render, Page
  <2>2. C1 = C0
    BY <2>1, HeardOthers DEF C0, C1, ComingIn
  <2> SUFFICES ASSUME ~disturbed' PROVE InStepWith(page', fetch', C0, log)
    BY <2>1, <2>2 DEF Undisturbed, C1
  <2>3. InStepWith(page, fetch, C0, log)
    BY <2>1 DEF Undisturbed, C0
  <2> DEFINE F == fetch'
             p == page'
  <2>4. F[f].pc = "asked" /\ ~F[f].older /\ fetch[f].pc = "idle" /\ \A g \in Fetch \ {f} : F[g] = fetch[g]
    BY <2>1, AskIs
  <2>5. p.room = page.room /\ p.loading
    BY <2>1
  <2> HIDE DEF F, p
  <2>6. ~OlderIn(F[f]) /\ ~FirstIn(F[f]) /\ Waits(F[f])
    BY <2>4 DEF OlderIn, FirstIn, Waits
  <2> QED BY <2>3, <2>4, <2>5, <2>6 DEF InStepWith, F, p
<1>3. ASSUME FetchFails(f) PROVE Undisturbed'
  <2>1. /\ C1 = C0 /\ log' = log /\ Done(f) /\ disturbed' = (disturbed \/ ~fetch[f].older)
        /\ fetch[f].older => /\ page'.room = page.room /\ page'.loading = page.loading
                             /\ page'.list = page.list /\ page'.hasMore = page.hasMore
    BY <1>0, <1>3 DEF FetchFails, Render, server, Disturb, C0, C1, Page
  <2> SUFFICES ASSUME ~disturbed' PROVE InStepWith(page', fetch', C0, log)
    BY <2>1 DEF Undisturbed, C1
  <2>2. InStepWith(page, fetch, C0, log) /\ fetch[f].older
    BY <2>1 DEF Undisturbed, C0
  <2> DEFINE F == fetch'
             p == page'
  <2>3. F[f].pc = "idle" /\ \A g \in Fetch \ {f} : F[g] = fetch[g]
    BY <2>1, DoneIs
  <2>4. /\ p.room = page.room /\ p.loading = page.loading /\ p.list = page.list /\ p.hasMore = page.hasMore
    BY <2>1, <2>2
  <2> HIDE DEF F, p
  <2>5. ~OlderIn(F[f]) /\ ~FirstIn(F[f]) /\ Waits(F[f])
    BY <2>3 DEF OlderIn, FirstIn, Waits
  <2> QED BY <2>2, <2>3, <2>4, <2>5 DEF InStepWith, F, p
<1> QED BY <1>1, <1>2, <1>3

\* An answer is shown.
LEMMA PageShows ==
  ASSUME Typed, Undisturbed, NEW f \in Fetch, ShowFirst(f) \/ ShowOlder(f)
  PROVE  Undisturbed'
<1> DEFINE F == fetch'
           p == page'
           ids == fetch[f].ids
<1>0. page \in Page /\ page.list \in Seq(1 .. MaxLog) /\ ids \in Seq(1 .. MaxLog) /\ Len(ids) \in Nat
  <2> page \in Page /\ fetch[f] \in FetchType
    BY DEF Typed, PageType
  <2> QED BY DEF Page, FetchType
<1>1. /\ C1 = C0 /\ log' = log /\ Done(f) /\ disturbed' = disturbed /\ fetch[f].pc = "answered"
      /\ p.room = page.room
  BY <1>0 DEF ShowFirst, ShowOlder, Render, server, C0, C1, Page
<1> SUFFICES ASSUME ~disturbed' PROVE InStepWith(p, F, C0, log)
  BY <1>1 DEF Undisturbed, C1
<1>2. InStepWith(page, fetch, C0, log)
  BY <1>1 DEF Undisturbed, C0
<1>3. F[f].pc = "idle" /\ \A g \in Fetch \ {f} : F[g] = fetch[g]
  BY <1>1, DoneIs
<1>4. \A g \in Fetch \ {f} : Waits(fetch[g])
  BY <1>1, <1>2 DEF InStepWith, OlderIn, FirstIn
<1>5. \A g \in Fetch : ~OlderIn(F[g]) /\ ~FirstIn(F[g])
  BY <1>3, <1>4 DEF OlderIn, FirstIn, Waits
<1>6. ASSUME ~p.loading
      PROVE  IsInjective(p.list) /\ Newest(log, ToSet(p.list) \cup C0, p.room, ~p.hasMore)
  <2>1. CASE ~fetch[f].older
    <3>1. p.list = ids /\ p.hasMore = (Len(ids) >= Batch)
      BY <1>0, <2>1 DEF ShowFirst, ShowOlder, Render, Page
    <3>2. IsInjective(ids) /\ Newest(log, ToSet(ids) \cup C0, page.room, Len(ids) < Batch)
      BY <1>1, <1>2, <2>1 DEF InStepWith, FirstIn
    <3>3. (Len(ids) < Batch) = (~(Len(ids) >= Batch))
      BY <1>0, ChatClientAssumption
    <3> HIDE DEF p
    <3> QED BY <1>1, <3>1, <3>2, <3>3
  <2>2. CASE fetch[f].older
    <3>1. p.list = ids \o page.list /\ p.hasMore = (Len(ids) >= Batch) /\ ~page.loading
      <4>1. page' = [page EXCEPT !.list = ids \o page.list, !.more = FALSE, !.hasMore = Len(ids) >= Batch]
        BY <2>2 DEF ShowFirst, ShowOlder, Render
      <4> HIDE DEF ids
      <4> QED BY <1>0, <1>6, <4>1 DEF Page
    <3>2. /\ IsInjective(ids) /\ IsInjective(page.list) /\ ToSet(ids) \cap (ToSet(page.list) \cup C0) = {}
          /\ Newest(log, ToSet(ids) \cup (ToSet(page.list) \cup C0), page.room, Len(ids) < Batch)
      BY <1>1, <1>2, <2>2, <3>1 DEF InStepWith, OlderIn
    <3>3. (Len(ids) < Batch) = (~(Len(ids) >= Batch))
      BY <1>0, ChatClientAssumption
    <3>4. IsInjective(p.list) /\ ToSet(p.list) = ToSet(ids) \cup ToSet(page.list)
      <4> ToSet(ids) \cap ToSet(page.list) = {}
        BY <3>2
      <4> HIDE DEF p, ids
      <4> QED BY <1>0, <3>1, <3>2, ConcatIs
    <3>5. ToSet(p.list) \cup C0 = ToSet(ids) \cup (ToSet(page.list) \cup C0)
      BY <3>4
    <3> HIDE DEF p
    <3> QED BY <1>1, <3>1, <3>2, <3>3, <3>4, <3>5
  <2> QED BY <2>1, <2>2
<1> HIDE DEF F, p, ids
<1> QED BY <1>5, <1>6 DEF InStepWith

\* A message that was to come has come.
LEMMA PageHas ==
  ASSUME Undisturbed, NEW p, NEW c, page' = p, fetch' = fetch, log' = log, ~disturbed,
         p.room = page.room, p.loading = page.loading, p.hasMore = page.hasMore,
         C1 \subseteq C0, C0 \subseteq C1 \cup {c}, c \in C0 => ~Overtaken(c),
         ~page.loading => /\ c \in C0
                          /\ ToSet(p.list) = ToSet(page.list) \cup {c}
                          /\ IsInjective(page.list) => IsInjective(p.list)
  PROVE  Undisturbed'
<1> SUFFICES InStepWith(p, fetch, C1, log)
  BY DEF Undisturbed, C1
<1>1. InStepWith(page, fetch, C0, log)
  BY DEF Undisturbed, C0
<1>2. \A d \in C0 \ C1 : \A f \in Fetch : FirstIn(fetch[f]) => d \in ToSet(fetch[f].ids)
  BY DEF Overtaken, FirstIn
<1>3. ~page.loading => IsInjective(p.list) /\ ToSet(p.list) \cup C1 = ToSet(page.list) \cup C0
  BY <1>1 DEF InStepWith
<1> HIDE DEF C0, C1
<1> QED BY <1>1, <1>2, <1>3, StillInStep

LEMMA PageHears ==
  ASSUME Typed, Undisturbed, Hear
  PROVE  Undisturbed'
<1> DEFINE id == Head(wire).id
<1>0. page \in Page /\ page.list \in Seq(1 .. MaxLog)
  BY DEF Typed, PageType, Page
<1>1. /\ log' = log /\ telling' = telling /\ sub' = sub /\ fetch' = fetch /\ Received
      /\ Head(wire).type = "message"
      /\ Render(IF Here(id) THEN [page EXCEPT !.list = Add(id)] ELSE page)
      /\ disturbed' = (disturbed \/ (Here(id) /\ IF log[id].reply THEN ~page.loading ELSE Overtaken(id)))
  BY DEF Hear, Disturb
<1>2. Arriving(wire) = Arriving(wire') \cup {id} /\ id \in 1 .. Len(log)
  BY <1>1, HeardOthers
<1>3. id \in 1 .. MaxLog /\ id \in DOMAIN log
  <2> log \in Seq(Entry) /\ Len(log) \in Nat /\ Len(log) <= MaxLog /\ MaxLog \in Nat
    BY ChatClientAssumption DEF Typed, LogType
  <2> QED BY <1>2, LenProperties
<1> HIDE DEF id
<1> SUFFICES ASSUME ~disturbed' PROVE Undisturbed'
  BY DEF Undisturbed
<1>4. /\ ~disturbed
      /\ Here(id) => IF log[id].reply THEN page.loading ELSE ~Overtaken(id)
  BY <1>1
<1>5. page'.room = page.room
  BY <1>0, <1>1 DEF Render, Page
<1>6. /\ C1 \subseteq C0 /\ C0 \subseteq C1 \cup {id}
      /\ id \in C0 <=> log[id].room = page.room /\ ~log[id].reply
      /\ id \notin C0 => C1 = C0
  BY <1>1, <1>2, <1>3, <1>5 DEF C0, C1, ComingIn, ThreadOf
<1>7. CASE Here(id)
  <2> DEFINE p == [page EXCEPT !.list = Add(id)]
  <2>1. /\ page' = p /\ p.room = page.room /\ p.loading = page.loading /\ p.hasMore = page.hasMore
        /\ p.list = Add(id)
    BY <1>0, <1>1, <1>7 DEF Render, Page
  <2>2. /\ ToSet(Add(id)) = ToSet(page.list) \cup {id}
        /\ IsInjective(page.list) => IsInjective(Add(id))
    <3>1. CASE id \in ToSet(page.list)
      BY <3>1 DEF Add
    <3>2. CASE id \notin ToSet(page.list)
      <4>1. Add(id) = Append(page.list, id)
        BY <3>2 DEF Add
      <4>2. /\ ToSet(Append(page.list, id)) = ToSet(page.list) \cup {id}
            /\ IsInjective(page.list) /\ id \notin ToSet(page.list) => IsInjective(Append(page.list, id))
        BY <1>0, <1>3, AppendIs
      <4> HIDE DEF p
      <4> QED BY <3>2, <4>1, <4>2
    <3> QED BY <3>1, <3>2
  <2>3. log[id].room = page.room
    BY <1>7 DEF Here
  <2>4. id \in C0 => ~Overtaken(id)
    BY <1>4, <1>6, <1>7
  <2>5. ~page.loading => id \in C0
    BY <1>4, <1>6, <1>7, <2>3
  <2> HIDE DEF p
  <2> QED BY <1>1, <1>4, <1>6, <2>1, <2>2, <2>4, <2>5, PageHas
<1>8. CASE ~Here(id)
  <2>1. page' = page /\ C1 = C0
    BY <1>1, <1>6, <1>8 DEF Render, Here
  <2> QED BY <1>1, <1>4, <2>1, PageStays
<1> QED BY <1>7, <1>8

LEMMA PageIsAnswered ==
  ASSUME Typed, Undisturbed, NEW x \in Submission, RestAnswer(x)
  PROVE  Undisturbed'
<1> DEFINE id == sub[x].id
           p == [page EXCEPT !.list = Answered(id)]
<1>0. /\ page \in Page /\ page.list \in Seq(1 .. MaxLog) /\ sub \in [Submission -> SubRecord]
      /\ Submitted(sub[x], log) /\ log \in Seq(Entry) /\ Len(log) \in Nat /\ Len(log) <= MaxLog
      /\ MaxLog \in Nat
  BY ChatClientAssumption DEF Typed, PageType, Page, SubTyped, LogType
<1>1. /\ log' = log /\ telling' = telling /\ wire' = wire /\ fetch' = fetch /\ sub[x].at = "answer"
      /\ sub' = [sub EXCEPT ![x].at = "ok"] /\ page' = p
      /\ disturbed' = (disturbed \/
           (IF sub[x].room = page.room THEN Overtaken(id) \/ (~page.loading /\ id \in ToSet(page.list))
            ELSE ~page.loading))
  BY DEF RestAnswer, Disturb, Render, server
<1>2. /\ p.room = page.room /\ p.loading = page.loading /\ p.hasMore = page.hasMore
      /\ p.list = Append(page.list, id)
  BY <1>0 DEF Page, Answered
<1>3. id \in DOMAIN log /\ log[id].room = sub[x].room /\ ~log[id].reply /\ id \in 1 .. MaxLog
  <2> DOMAIN log = 1 .. Len(log)
    BY <1>0, LenProperties
  <2> QED BY <1>0, <1>1 DEF Submitted
<1> HIDE DEF p
<1>4. /\ Answering(sub') \subseteq Answering(sub) /\ id \in Answering(sub)
      /\ Answering(sub) \subseteq Answering(sub') \cup {id}
  <2>1. sub'[x].at = "ok" /\ \A y \in Submission \ {x} : sub'[y] = sub[y]
    BY <1>0, <1>1 DEF SubRecord
  <2>2. id \in Answering(sub)
    BY <1>1 DEF Answering
  <2> QED BY <1>1, <2>1, <2>2, AnsweringIs
<1> HIDE DEF id
<1> SUFFICES ASSUME ~disturbed' PROVE Undisturbed'
  BY DEF Undisturbed
<1>5. /\ C1 \subseteq C0 /\ C0 \subseteq C1 \cup {id}
      /\ id \in C0 <=> sub[x].room = page.room
  BY <1>1, <1>2, <1>3, <1>4 DEF C0, C1, ComingIn, ThreadOf
<1>6. /\ ~disturbed
      /\ sub[x].room = page.room => ~Overtaken(id) /\ (page.loading \/ id \notin ToSet(page.list))
      /\ sub[x].room # page.room => page.loading
  BY <1>1
<1>7. /\ ToSet(p.list) = ToSet(page.list) \cup {id}
      /\ IsInjective(page.list) /\ id \notin ToSet(page.list) => IsInjective(p.list)
  BY <1>0, <1>2, <1>3, AppendIs
<1>8. ~page.loading => id \in C0 /\ (IsInjective(page.list) => IsInjective(p.list))
  BY <1>5, <1>6, <1>7
<1> QED BY <1>1, <1>2, <1>5, <1>6, <1>7, <1>8, PageHas

\* The handler of a message is done with it.
LEMMA PageIsTold ==
  ASSUME Typed, Undisturbed, NEW id, Broadcast(id) \/ ReloadFails(id)
  PROVE  Undisturbed'
<1>1. /\ Told(id) /\ log' = log /\ page' = page /\ fetch' = fetch
      /\ \/ Send(Items(id, log[id].room \in joined, log[id].by, TRUE))
         \/ Send(Ack(log[id].by, FALSE))
  BY DEF Broadcast, ReloadFails, Items, Message
<1>2. /\ telling' \subseteq telling /\ telling \subseteq telling' \cup {id} /\ id \in telling
      /\ id \in 1 .. MaxLog /\ log[id] \in Entry /\ Answering(sub') = Answering(sub)
  BY <1>1, ToldIs
<1>3. PICK x \in Submission \cup {None} : x = log[id].by
  BY <1>2 DEF Entry
<1>4. PICK told \in BOOLEAN : told = (log[id].room \in joined)
  <2> (log[id].room \in joined) \in BOOLEAN
    OBVIOUS
  <2> QED BY Zenon
<1>5. /\ Items(id, told, x, TRUE) \in Seq(Item) /\ Ack(x, FALSE) \in Seq(Item)
      /\ Sent("message", Items(id, told, x, TRUE)) = IF told THEN {Message(id)} ELSE {}
      /\ Sent("message", Ack(x, FALSE)) = {}
  <2>1. TRUE \in BOOLEAN /\ FALSE \in BOOLEAN
    OBVIOUS
  <2> QED BY <1>2, <2>1, ItemsIs
<1>6. Message(id).id = id
  BY DEF Message
<1>7. CASE Broadcast(id) /\ told
  <2>1. Send(Items(id, told, x, TRUE)) /\ (~disturbed' => ~disturbed)
    BY <1>3, <1>4, <1>7 DEF Broadcast, Items, Message, Disturb
  <2>2. Sent("message", wire') = Sent("message", wire) \cup {Message(id)}
    BY <1>5, <1>7, <2>1, SendIs DEF Typed
  <2>3. Arriving(wire') = Arriving(wire) \cup {id}
    <3> DEFINE m == Message(id)
    <3> HIDE DEF m
    <3> QED BY <1>6, <2>2 DEF Arriving, m
  <2>4. C1 = C0
    BY <1>1, <1>2, <2>3 DEF C0, C1, ComingIn
  <2> QED BY <1>1, <2>1, <2>4, PageStays
<1>8. CASE ReloadFails(id) \/ ~told
  <2>1. \/ Send(Items(id, told, x, TRUE)) /\ ~told
        \/ Send(Ack(x, FALSE))
    BY <1>3, <1>4, <1>8 DEF Broadcast, ReloadFails, Items, Message
  <2>2. Arriving(wire') = Arriving(wire)
    BY <1>5, <2>1, SentOthers
  <2>3. /\ ~disturbed' => ~disturbed
        /\ ~disturbed' => log[id].reply \/ ~Misses(log[id].room, id)
    BY <1>4, <1>8 DEF Broadcast, ReloadFails, Disturb
  <2>4. /\ C1 \subseteq C0 /\ C0 \subseteq C1 \cup {id}
        /\ id \in C0 => ~log[id].reply /\ log[id].room = page.room
    BY <1>1, <1>2, <2>2 DEF C0, C1, ComingIn, ThreadOf
  <2>5. ~disturbed' => \A c \in C0 \ C1 : ~Misses(page.room, c)
    BY <2>3, <2>4
  <2> QED BY <1>1, <2>3, <2>4, <2>5, PageStays
<1> QED BY <1>1, <1>7, <1>8

LEMMA UndisturbedStep == ASSUME Typed, AtNewest, Undisturbed, [Next]_vars PROVE Undisturbed'
<1>0. /\ sub \in [Submission -> SubRecord] /\ None \notin Submission
      /\ \A x \in Submission : Submitted(sub[x], log)
  BY ChatClientAssumption DEF Typed, SubTyped
<1>1. ASSUME page' = page, fetch' = fetch, log' = log, telling' = telling, disturbed' = disturbed,
             Arriving(wire') = Arriving(wire), Answering(sub') = Answering(sub)
      PROVE  Undisturbed'
  <2> C1 = C0
    BY <1>1 DEF C0, C1, ComingIn
  <2> QED BY <1>1, PageStays
<1>2. ASSUME NEW f \in Fetch, NEW r \in Room, Open(f, r) PROVE Undisturbed'
  BY <1>2 DEF Open, Undisturbed
<1>3. ASSUME NEW f \in Fetch, ClickOlder(f) \/ ScrollUp(f) \/ HearRefusal(f) PROVE Undisturbed'
  BY <1>3, PageAsks DEF ClickOlder, ScrollUp
<1>4. ASSUME NEW f \in Fetch, Fetching(f) PROVE Undisturbed'
  BY <1>4, PageIsRead, PageShows, PageAsks DEF Fetching
<1>5. ASSUME NEW r \in Room, PostOverRest(r) PROVE Undisturbed'
  BY <1>5, PageGetsOne DEF PostOverRest
<1>6. ASSUME NEW r \in Room, NEW b \in BOOLEAN, Post(r, b) PROVE Undisturbed'
  <2> telling' \cup Answering(sub') = telling \cup Answering(sub) \cup {Len(log) + 1}
    BY <1>6 DEF Post
  <2> QED BY <1>6, PageGetsOne DEF Post
<1>7. ASSUME NEW r \in Room, ServeJoin(r) \/ AnswerJoin(r) PROVE Undisturbed'
  BY <1>1, <1>7 DEF ServeJoin, AnswerJoin, server
<1>8. ASSUME NEW r \in Room, RefuseJoin(r) PROVE Undisturbed'
  <2> DEFINE e == Refusal(r)
  <2>1. Send(<<e>>)
    BY <1>8 DEF RefuseJoin, Refusal
  <2>2. e \in Item /\ e.type = "refused"
    BY ItemTypes
  <2> HIDE DEF e
  <2>3. <<e>> \in Seq(Item) /\ Sent("message", <<e>>) = {}
    BY <2>2, ToSetSmall DEF Sent
  <2>4. Arriving(wire') = Arriving(wire)
    BY <2>1, <2>3, SentOthers
  <2> QED BY <1>1, <1>8, <2>4 DEF RefuseJoin
<1>9. ASSUME NEW id, Broadcast(id) \/ ReloadFails(id) PROVE Undisturbed'
  BY <1>9, PageIsTold
<1>10. ASSUME NEW x \in Submission, Submit(x) \/ TimeOut(x) PROVE Undisturbed'
  <2>1. \A y \in Submission : sub'[y].id = sub[y].id /\ (sub'[y].at = "answer" <=> sub[y].at = "answer")
    BY <1>0, <1>10 DEF Submit, TimeOut, SubRecord
  <2>2. Answering(sub') = Answering(sub)
    BY <2>1, AnsweringIs
  <2> QED BY <1>1, <1>10, <2>2 DEF Submit, TimeOut, server
<1>11. ASSUME NEW x \in Submission, ServeSend(x) PROVE Undisturbed'
  <2>1. \A y \in Submission : sub'[y].id = sub[y].id /\ (sub'[y].at = "answer" <=> sub[y].at = "answer")
    BY <1>0, <1>11 DEF ServeSend, SubRecord
  <2>2. Answering(sub') = Answering(sub)
    BY <2>1, AnsweringIs
  <2>3. telling' \cup Answering(sub') = telling \cup Answering(sub) \cup {Len(log) + 1}
    BY <1>11, <2>2 DEF ServeSend
  <2>4. sub[x].room \in Room
    BY <1>0, <1>11 DEF ServeSend, Submitted
  <2> QED BY <1>11, <2>3, <2>4, PageGetsOne DEF ServeSend
<1>12. ASSUME NEW x \in Submission, RefuseSend(x) PROVE Undisturbed'
  <2>1. \A y \in Submission : sub'[y].id = sub[y].id /\ (sub'[y].at = "answer" <=> sub[y].at = "answer")
    BY <1>0, <1>12 DEF RefuseSend, SubRecord
  <2>2. Answering(sub') = Answering(sub)
    BY <2>1, AnsweringIs
  <2>3. Arriving(wire') = Arriving(wire)
    <3> DEFINE no == Acknowledgement(x, FALSE)
    <3>1. Send(Ack(x, FALSE)) /\ (Ack(x, FALSE) = <<>> \/ Ack(x, FALSE) = <<no>>)
      BY <1>12 DEF RefuseSend, Ack, Acknowledgement
    <3>2. no \in Item /\ no.type = "ack"
      BY ItemTypes
    <3> HIDE DEF no
    <3>3. <<>> \in Seq(Item) /\ <<no>> \in Seq(Item)
      BY <3>2
    <3>4. Ack(x, FALSE) \in Seq(Item) /\ Sent("message", Ack(x, FALSE)) = {}
      BY <3>1, <3>2, <3>3, ToSetSmall DEF Sent
    <3> QED BY <3>1, <3>4, SentOthers
  <2> QED BY <1>1, <1>12, <2>2, <2>3 DEF RefuseSend
<1>13. ASSUME NEW x \in Submission, RestCreate(x) PROVE Undisturbed'
  <2>1. /\ sub[x].at = "rest" /\ sub'[x].at = "answer" /\ sub'[x].id = Len(log) + 1
        /\ \A y \in Submission \ {x} : sub'[y] = sub[y]
    BY <1>0, <1>13 DEF RestCreate, SubRecord
  <2>2. Answering(sub') = Answering(sub) \cup {Len(log) + 1}
    BY <2>1, AnsweringIs
  <2>3. telling' \cup Answering(sub') = telling \cup Answering(sub) \cup {Len(log) + 1}
    BY <1>13, <2>2 DEF RestCreate
  <2>4. sub[x].room \in Room
    BY <1>0, <2>1 DEF Submitted
  <2> QED BY <1>13, <2>3, <2>4, PageGetsOne DEF RestCreate
<1>14. ASSUME NEW x \in Submission, RestAnswer(x) PROVE Undisturbed'
  BY <1>14, PageIsAnswered
<1>15. ASSUME NEW x \in Submission, RestFails(x) PROVE Undisturbed'
  <2>1. /\ log' = log /\ telling' = telling /\ wire' = wire /\ page' = page /\ fetch' = fetch
        /\ sub'[x].at = "failed" /\ \A y \in Submission \ {x} : sub'[y] = sub[y]
        /\ sub'[x].id = sub[x].id
    BY <1>0, <1>15 DEF RestFails, server, SubRecord
  <2>2. CASE sub[x].at # "answer"
    <3>1. \A y \in Submission : sub'[y].id = sub[y].id /\ (sub'[y].at = "answer" <=> sub[y].at = "answer")
      BY <2>1, <2>2
    <3>2. Answering(sub') = Answering(sub) /\ disturbed' = disturbed
      <4>1. disturbed \in BOOLEAN
        BY DEF Typed, FlagType
      <4> QED BY <1>15, <2>2, <3>1, <4>1, AnsweringIs DEF RestFails, Disturb
    <3> QED BY <1>1, <2>1, <3>2
  <2>3. CASE sub[x].at = "answer"
    <3>1. /\ Answering(sub') \subseteq Answering(sub)
          /\ Answering(sub) \subseteq Answering(sub') \cup {sub[x].id}
      BY <2>1, <2>3, AnsweringIs
    <3>2. log[sub[x].id].room = sub[x].room
      BY <1>0, <2>3 DEF Submitted
    <3>3. /\ C1 \subseteq C0 /\ C0 \subseteq C1 \cup {sub[x].id}
          /\ sub[x].id \in C0 => sub[x].room = page.room
      BY <2>1, <3>1, <3>2 DEF C0, C1, ComingIn, ThreadOf
    <3>4. ~disturbed' => ~disturbed /\ ~Misses(sub[x].room, sub[x].id)
      BY <1>15, <2>3 DEF RestFails, Disturb
    <3>5. ~disturbed' => \A c \in C0 \ C1 : ~Misses(page.room, c)
      BY <3>3, <3>4
    <3> QED BY <2>1, <3>3, <3>4, <3>5, PageStays
  <2> QED BY <2>2, <2>3
<1>16. ASSUME Hear PROVE Undisturbed'
  BY <1>16, PageHears
<1>17. ASSUME HearAck PROVE Undisturbed'
  <2>1. /\ Received /\ Head(wire).type = "ack"
        /\ \/ sub' = sub
           \/ LET x == Head(wire).sub IN
                /\ sub[x].at = "socket"
                /\ sub' = [sub EXCEPT ![x].at = Acked(Head(wire).ok),
                                      ![x].fell = Acked(Head(wire).ok) = "rest"]
    BY <1>17 DEF HearAck
  <2>2. Head(wire) \in Item /\ Arriving(wire') = Arriving(wire)
    BY <2>1, HeardOthers
  <2>3. PICK x \in Submission, ok \in BOOLEAN : x = Head(wire).sub /\ ok = Head(wire).ok
    BY <2>1, <2>2, ItemTypes
  <2>4. \A y \in Submission : sub'[y].id = sub[y].id /\ (sub'[y].at = "answer" <=> sub[y].at = "answer")
    <3>1. Acked(ok) \in {"ok", "rest"}
      BY DEF Acked
    <3> QED BY <1>0, <2>1, <2>3, <3>1 DEF SubRecord
  <2>5. Answering(sub') = Answering(sub)
    BY <2>4, AnsweringIs
  <2> QED BY <1>1, <1>17, <2>2, <2>5 DEF HearAck
<1>18. ASSUME Drop PROVE Undisturbed'
  <2>1. /\ log' = log /\ telling' = telling /\ wire' = <<>> /\ page' = page /\ fetch' = fetch
        /\ ~disturbed' => /\ ~disturbed
                          /\ \A n \in DOMAIN wire :
                               wire[n].type = "message" /\ ~log[wire[n].id].reply
                               => ~Misses(log[wire[n].id].room, wire[n].id)
    BY <1>18 DEF Drop, Disturb
  <2>2. \A y \in Submission : sub'[y].id = sub[y].id /\ (sub'[y].at = "answer" <=> sub[y].at = "answer")
    BY <1>0, <1>18 DEF Drop, SubRecord
  <2>3. Answering(sub') = Answering(sub)
    BY <2>2, AnsweringIs
  <2>4. Arriving(wire') = {}
    <3> Sent("message", <<>>) = {}
      BY ToSetSmall DEF Sent
    <3> QED BY <2>1 DEF Arriving
  <2>5. \A c \in Arriving(wire) : \E n \in DOMAIN wire : wire[n].type = "message" /\ wire[n].id = c
    BY DEF Arriving, Sent, ToSet
  <2>6. /\ C1 \subseteq C0
        /\ \A c \in C0 \ C1 : c \in Arriving(wire) /\ log[c].room = page.room /\ ~log[c].reply
    BY <2>1, <2>3, <2>4 DEF C0, C1, ComingIn, ThreadOf
  <2>7. ~disturbed' => \A c \in C0 \ C1 : ~Misses(page.room, c)
    BY <2>1, <2>5, <2>6
  <2> QED BY <2>1, <2>6, <2>7, PageStays
<1>19. ASSUME Reconnect \/ JoinMine \/ UNCHANGED vars PROVE Undisturbed'
  BY <1>1, <1>19 DEF Reconnect, JoinMine, vars, server
<1> QED
  BY <1>2, <1>3, <1>4, <1>5, <1>6, <1>7, <1>8, <1>9, <1>10, <1>11, <1>12, <1>13, <1>14, <1>15,
     <1>16, <1>17, <1>18, <1>19
  DEF Next, Resting

-----------------------------------------------------------------------------
\* Unless something that InStep names disturbs it, the page has the newest
\* messages of its room once it has shown a first page.
THEOREM ClientInStep == Spec => []InStep
<1>1. Init => Typed /\ AtNewest /\ Undisturbed
  <2> Init => Undisturbed
    BY DEF Init, Undisturbed
  <2> QED BY TypedInit, AtNewestInit
<1>2. Typed /\ AtNewest /\ Undisturbed /\ [Next]_vars => (Typed /\ AtNewest /\ Undisturbed)'
  BY TypedStep, AtNewestStep, UndisturbedStep
<1>3. Undisturbed => InStep
  <2> SUFFICES ASSUME Undisturbed, ~disturbed, ~page.loading
               PROVE  /\ IsInjective(page.list)
                      /\ Newest(log, Has, page.room, ~page.hasMore)
    BY ComingIs DEF InStep, Newest
  <2>1. Has = ToSet(page.list) \cup ComingIn(log, telling, wire, sub, page.room)
    BY ComingIs DEF Has
  <2> QED BY <2>1 DEF Undisturbed, InStepWith
<1> QED BY <1>1, <1>2, <1>3, PTL DEF Spec
=============================================================================
