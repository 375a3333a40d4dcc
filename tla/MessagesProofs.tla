--------------------------- MODULE MessagesProofs ---------------------------
(***************************************************************************)
(* Proofs about Messages, for every set of users, rooms, messages,         *)
(* contents, reaction ids and request slots.                               *)
(***************************************************************************)
EXTENDS Messages, TLAPS

EditPC == {"write", "unmention", "mention"}
TogglePC == {"add", "remove"}
OnMessage == {"load", "erase", "lookup"} \cup EditPC \cup TogglePC

\* Which kinds of request can be where, and the fields that are filled there.
Shape(r) ==
  /\ ~At(r, "idle") => req[r].kind \in Kind /\ req[r].caller \in User
  /\ req[r].pc \in {"parent", "insert"} =>
       Of(r, "create") /\ req[r].room \in Room /\ req[r].text \in Content
  /\ At(r, "parent") => req[r].parent \in Message
  /\ req[r].pc \in OnMessage => req[r].msg \in Message
  /\ At(r, "load") => req[r].kind \in {"update", "delete"}
  /\ Of(r, "update") => req[r].text \in Content
  /\ req[r].pc \in EditPC => Of(r, "update")
  /\ At(r, "erase") => Of(r, "delete")
  /\ At(r, "remove") => req[r].row \in ReactionId

\* What the checks a request has passed still say.
Checked(r) ==
  LET q == req[r] IN
  /\ At(r, "insert") => q.parent = None \/ (q.parent \in Message /\ Log!Thread(q.parent))
  /\ q.pc \in EditPC \cup {"erase"} => Log!Posted(q.msg) /\ message[q.msg].sender = q.caller
  /\ q.pc \in {"load", "write"} /\ q.dead => Log!Posted(q.msg) /\ message[q.msg].deleted
  /\ At(r, "write") => ~q.dead
  /\ At(r, "remove") => reaction[q.row] = Gone \/ q.row \in ReactionsOf(q.msg, q.caller)

Own(r) == Shape(r) /\ Checked(r)

Editing(r, m) == req[r].msg = m /\ req[r].pc \in EditPC

\* A message that is not mixed has one edit under way at most, and each stage
\* of it leaves the content and the mentions in a state of their own.
Mentions(m) ==
  Log!Posted(m) /\ m \notin hist.mixed =>
    /\ \A r, s \in Req : Editing(r, m) /\ Editing(s, m) => r = s
    /\ \A r \in Req : Editing(r, m) =>
         /\ At(r, "write") => req[r].snap = message[m].content
         /\ ~At(r, "write") => message[m].content = req[r].text
         /\ At(r, "mention") => mention[m] = {}
    /\ (\A r \in Req : Editing(r, m) => At(r, "write")) => mention[m] = message[m].content

Toggling(r, m, u) == req[r].msg = m /\ req[r].caller = u /\ req[r].pc \in TogglePC

\* A pair that did not race has one toggle under way at most, and what it
\* looked up is still so.
Reactions(m, u) ==
  <<m, u>> \notin hist.raced =>
    /\ \A r, s \in Req : Toggling(r, m, u) /\ Toggling(s, m, u) => r = s
    /\ \A r \in Req : Toggling(r, m, u) =>
         /\ At(r, "add") => ReactionsOf(m, u) = {}
         /\ At(r, "remove") => req[r].row \in ReactionsOf(m, u)
    /\ \A k, l \in ReactionsOf(m, u) : k = l
    /\ ReactionsOf(m, u) # {} <=> <<m, u>> \in hist.flipped

IInv ==
  /\ TypeOK
  /\ \A r \in Req : Own(r)
  /\ \A m \in Message : Mentions(m)
  /\ \A m \in Message, u \in User : Reactions(m, u)

-----------------------------------------------------------------------------
(* Types, and what every step leaves of the tables *)

\* A posted message has a row.
LEMMA RowType ==
  ASSUME TypeOK, NEW m \in Message, Log!Posted(m)
  PROVE  message[m] \in Log!MessageRow
BY DEF TypeOK, Log!Posted

\* Messages stay posted, keep their sender, parent and deletion, and reactions
\* change only to Gone.
Evolves ==
  /\ \A m \in Message : Log!Posted(m) =>
       /\ Log!Posted(m)'
       /\ message'[m].sender = message[m].sender
       /\ message'[m].parent = message[m].parent
       /\ message[m].deleted => message'[m].deleted
  /\ \A k \in ReactionId :
       /\ reaction[k] = Gone => reaction'[k] = Gone
       /\ Present(k) => reaction'[k] = Gone \/ (reaction'[k] = reaction[k])

\* Unchanged tables evolve.
LEMMA Still ==
  ASSUME UNCHANGED <<message, reaction>>
  PROVE  Evolves
BY DEF Evolves, Log!Posted, Present

\* A step of one request leaves what is known of the others.
LEMMA Bystander ==
  ASSUME TypeOK, NEW s \in Req, Own(s), Evolves, req'[s] = req[s]
  PROVE  Own(s)'
<1>1. Shape(s)'
  BY DEF Own, Shape, At, Of
<1>2. /\ req[s].pc \in OnMessage => req[s].msg \in Message
      /\ At(s, "remove") => req[s].row \in ReactionId
  BY DEF Own, Shape
<1>3. /\ req[s].pc \in EditPC \cup {"erase", "load", "write", "remove"} => req[s].pc \in OnMessage
  BY DEF EditPC, TogglePC, OnMessage
<1>4. At(s, "insert") => req[s].parent = None \/ (req[s].parent \in Message /\ Log!Thread(req[s].parent)')
  BY DEF Own, Checked, Evolves, Log!Thread
<1>5. At(s, "remove") =>
        reaction'[req[s].row] = Gone \/ req[s].row \in ReactionsOf(req[s].msg, req[s].caller)'
  <2> SUFFICES ASSUME At(s, "remove")
               PROVE reaction'[req[s].row] = Gone \/ req[s].row \in ReactionsOf(req[s].msg, req[s].caller)'
    OBVIOUS
  <2>1. PICK k \in ReactionId : k = req[s].row
    BY <1>2
  <2>2. reaction[k] = Gone \/ k \in ReactionsOf(req[s].msg, req[s].caller)
    BY <2>1 DEF Own, Checked
  <2> QED BY <2>1, <2>2 DEF Evolves, ReactionsOf, Present
<1>6. Checked(s)'
  BY <1>2, <1>3, <1>4, <1>5 DEF Own, Checked, Evolves, At
<1> QED BY <1>1, <1>6 DEF Own

\* What is known of a message whose row and mentions a step leaves alone, and
\* which it neither starts nor goes on editing.
LEMMA MentionsKept ==
  ASSUME TypeOK, NEW m \in Message, Mentions(m), NEW r \in Req, NEW q \in Request,
         req' = [req EXCEPT ![r] = q],
         message'[m] = message[m], mention'[m] = mention[m], hist.mixed \subseteq hist'.mixed,
         ~(q.msg = m /\ q.pc \in EditPC),
         req[r].msg = m /\ req[r].pc \in {"unmention", "mention"} => m \in hist'.mixed
  PROVE  Mentions(m)'
<1> SUFFICES ASSUME Log!Posted(m), m \notin hist'.mixed PROVE Mentions(m)'
  BY DEF Mentions, Log!Posted
<1>1. \A s \in Req : s # r => req'[s] = req[s]
  BY DEF TypeOK
<1>2. req'[r] = q
  BY DEF TypeOK
<1>3. \A s \in Req : Editing(s, m)' => Editing(s, m) /\ req'[s] = req[s]
  BY <1>1, <1>2 DEF Editing
<1>4. \A s \in Req : Editing(s, m) /\ ~At(s, "write") => Editing(s, m)' /\ At(s, "write")' = At(s, "write")
  <2> SUFFICES ASSUME NEW s \in Req, Editing(s, m), ~At(s, "write")
               PROVE  Editing(s, m)' /\ At(s, "write")' = At(s, "write")
    OBVIOUS
  <2>1. s # r
    BY DEF Editing, At, EditPC
  <2> QED BY <1>1, <2>1 DEF Editing, At
<1> QED BY <1>3, <1>4 DEF Mentions, At, Log!Posted

\* What is known of a pair whose reactions a step leaves alone, and which it
\* does not start toggling.
LEMMA ReactionsKept ==
  ASSUME TypeOK, NEW m \in Message, NEW u \in User, Reactions(m, u), NEW r \in Req, NEW q \in Request,
         req' = [req EXCEPT ![r] = q],
         ReactionsOf(m, u)' = ReactionsOf(m, u),
         hist.raced \subseteq hist'.raced,
         <<m, u>> \in hist'.flipped <=> <<m, u>> \in hist.flipped,
         ~(q.msg = m /\ q.caller = u /\ q.pc \in TogglePC)
  PROVE  Reactions(m, u)'
<1>1. \A s \in Req : s # r => req'[s] = req[s]
  BY DEF TypeOK
<1>2. req'[r] = q
  BY DEF TypeOK
<1>3. \A s \in Req : Toggling(s, m, u)' => Toggling(s, m, u) /\ req'[s] = req[s]
  BY <1>1, <1>2 DEF Toggling
<1> QED BY <1>3 DEF Reactions, At

\* A step of one request keeps the invariant if it keeps its parts.
LEMMA WholeStep ==
  ASSUME IInv, NEW r \in Req, NEW q \in Request, req' = [req EXCEPT ![r] = q],
         message' \in [Message -> Log!MessageRow \cup {Unused}],
         mention' \in [Message -> SUBSET User],
         reaction' \in [ReactionId -> Reaction \cup {Unused, Gone}],
         hist' \in History,
         Evolves, Own(r)',
         \A m \in Message : Mentions(m)',
         \A m \in Message, u \in User : Reactions(m, u)'
  PROVE  IInv'
<1>1. TypeOK'
  BY DEF IInv, TypeOK
<1>2. ASSUME NEW s \in Req PROVE Own(s)'
  <2>1. CASE s = r
    BY <2>1
  <2>2. CASE s # r
    <3>1. req'[s] = req[s]
      BY <2>2 DEF IInv, TypeOK
    <3> QED BY <3>1, Bystander DEF IInv
  <2> QED BY <2>1, <2>2
<1> QED BY <1>1, <1>2 DEF IInv

\* A step that leaves the tables alone, and is not towards an edit or a toggle.
LEMMA QuietStep ==
  ASSUME IInv, NEW r \in Req, NEW q \in Request, req' = [req EXCEPT ![r] = q],
         UNCHANGED <<message, mention, reaction>>,
         hist' \in History, hist.mixed \subseteq hist'.mixed,
         hist'.raced = hist.raced, hist'.flipped = hist.flipped,
         q.pc \notin EditPC \cup TogglePC,
         req[r].pc \in {"unmention", "mention"} => req[r].msg \in hist'.mixed,
         Own(r)'
  PROVE  IInv'
<1>t. TypeOK
  BY DEF IInv
<1>1. ASSUME NEW m \in Message PROVE Mentions(m)'
  BY <1>t, MentionsKept DEF IInv
<1>2. ASSUME NEW m \in Message, NEW u \in User PROVE Reactions(m, u)'
  <2>1. ReactionsOf(m, u)' = ReactionsOf(m, u)
    BY DEF ReactionsOf, Present
  <2> QED BY <1>t, <2>1, ReactionsKept DEF IInv
<1>3. Evolves
  BY Still
<1>4. /\ message' \in [Message -> Log!MessageRow \cup {Unused}]
      /\ mention' \in [Message -> SUBSET User]
      /\ reaction' \in [ReactionId -> Reaction \cup {Unused, Gone}]
  BY <1>t DEF TypeOK
<1> QED BY <1>1, <1>2, <1>3, <1>4, WholeStep

-----------------------------------------------------------------------------
(* The steps that leave the tables alone *)

\* Nothing is posted, and no request is under way.
LEMMA InitIInv == Init => IInv
<1> SUFFICES ASSUME Init PROVE IInv
  OBVIOUS
<1> USE MessagesAssumption DEF Init
<1>1. TypeOK
  BY DEF TypeOK, Request, History, Idle, PC
<1>2. ASSUME NEW r \in Req PROVE Own(r)
  BY DEF Own, Shape, Checked, At, Of, Idle, OnMessage, EditPC, TogglePC, Kind
<1>3. ASSUME NEW m \in Message PROVE Mentions(m)
  BY DEF Mentions, Log!Posted
<1>4. ASSUME NEW m \in Message, NEW u \in User PROVE Reactions(m, u)
  <2>1. ReactionsOf(m, u) = {}
    BY DEF ReactionsOf, Present
  <2>2. \A r \in Req : ~Toggling(r, m, u)
    BY DEF Toggling, Idle, TogglePC
  <2> QED BY <2>1, <2>2 DEF Reactions
<1> QED BY <1>1, <1>2, <1>3, <1>4 DEF IInv

LEMMA StartCreateStep ==
  ASSUME IInv, NEW r \in Req, NEW c \in User, NEW i \in Room, NEW p \in Message \cup {None},
         NEW t \in Content, StartCreate(r, c, i, p, t)
  PROVE  IInv'
<1>1. PICK q : q = [Idle EXCEPT !.kind = "create", !.caller = c, !.room = i, !.parent = p, !.text = t,
                      !.pc = IF p = None THEN "insert" ELSE "parent"]
  OBVIOUS
<1>2. q \in Request
  BY <1>1 DEF Request, Idle, PC, Kind
<1>3. /\ q.pc = (IF p = None THEN "insert" ELSE "parent") /\ q.kind = "create" /\ q.caller = c
      /\ q.room = i /\ q.parent = p /\ q.text = t
  BY <1>1 DEF Idle
<1>4. req' = [req EXCEPT ![r] = q] /\ UNCHANGED <<message, mention, reaction, hist>> /\ req[r].pc = "idle"
  BY <1>1 DEF StartCreate, At
<1>5. req'[r] = q
  BY <1>4 DEF IInv, TypeOK
<1>6. Own(r)'
  BY <1>3, <1>5 DEF Own, Shape, Checked, At, Of, OnMessage, EditPC, TogglePC, Kind
<1>7. q.pc \notin EditPC \cup TogglePC
  BY <1>3 DEF EditPC, TogglePC
<1> QED BY <1>2, <1>4, <1>6, <1>7, QuietStep DEF IInv, TypeOK

LEMMA StartOnStep ==
  ASSUME IInv, NEW r \in Req, NEW kind \in {"update", "delete", "react"}, NEW c \in User,
         NEW m \in Message, NEW t \in Content \cup {None}, kind = "update" => t \in Content,
         StartOn(r, kind, c, m, t)
  PROVE  IInv'
<1>1. PICK dead \in BOOLEAN : dead = (Log!Posted(m) /\ message[m].deleted)
  <2>1. Log!Posted(m) => message[m].deleted \in BOOLEAN
    BY RowType DEF IInv, Log!MessageRow
  <2> QED BY <2>1
<1>2. PICK q : q = [Idle EXCEPT !.kind = kind, !.caller = c, !.msg = m, !.text = t, !.dead = dead,
                      !.pc = IF kind = "react" THEN "lookup" ELSE "load"]
  OBVIOUS
<1>3. q \in Request
  BY <1>2 DEF Request, Idle, PC, Kind
<1>4. /\ q.pc = (IF kind = "react" THEN "lookup" ELSE "load") /\ q.kind = kind /\ q.caller = c
      /\ q.msg = m /\ q.text = t /\ q.dead = dead
  BY <1>2 DEF Idle
<1>5. req' = [req EXCEPT ![r] = q] /\ UNCHANGED <<message, mention, reaction, hist>> /\ req[r].pc = "idle"
  BY <1>1, <1>2 DEF StartOn, At
<1>6. req'[r] = q
  BY <1>5 DEF IInv, TypeOK
<1>7. Shape(r)'
  BY <1>4, <1>6 DEF Shape, At, Of, OnMessage, EditPC, TogglePC, Kind
<1>8. Checked(r)'
  BY <1>1, <1>4, <1>5, <1>6 DEF Checked, At, EditPC, Log!Posted
<1>9. q.pc \notin EditPC \cup TogglePC
  BY <1>4 DEF EditPC, TogglePC
<1> QED BY <1>3, <1>5, <1>7, <1>8, <1>9, QuietStep DEF IInv, TypeOK, Own

\* A step that only moves a request on, not to an edit or a toggle.
LEMMA GoStep ==
  ASSUME IInv, NEW r \in Req, NEW pc \in PC, Go(r, pc), UNCHANGED <<message, mention, reaction>>,
         hist' \in History, hist.mixed \subseteq hist'.mixed,
         hist'.raced = hist.raced, hist'.flipped = hist.flipped,
         req[r].pc \in {"unmention", "mention"} => req[r].msg \in hist'.mixed,
         pc \in {"insert", "reload", "ok", "failed"}, ~At(r, "idle"),
         pc = "insert" => At(r, "parent") /\ Log!Thread(req[r].parent)
  PROVE  IInv'
<1>t. TypeOK /\ Own(r) /\ req[r] \in Request
  BY DEF IInv, TypeOK
<1>1. PICK q : q = [req[r] EXCEPT !.pc = pc]
  OBVIOUS
<1>2. /\ q \in Request /\ q.pc = pc /\ q.kind = req[r].kind /\ q.caller = req[r].caller
      /\ q.room = req[r].room /\ q.parent = req[r].parent /\ q.text = req[r].text
      /\ q.msg = req[r].msg
  BY <1>t, <1>1 DEF Request
<1>3. req' = [req EXCEPT ![r] = q] /\ req'[r] = q
  BY <1>t, <1>1 DEF Go, TypeOK
<1>4. pc \notin OnMessage /\ pc \notin EditPC \cup TogglePC /\ pc # "parent"
  BY DEF OnMessage, EditPC, TogglePC
<1>5. Shape(r)'
  BY <1>t, <1>2, <1>3, <1>4 DEF Own, Shape, At, Of, OnMessage
<1>6. Checked(r)'
  BY <1>t, <1>2, <1>3, <1>4 DEF Own, Shape, Checked, At, OnMessage, EditPC, TogglePC, Log!Thread, Log!Posted
<1> QED BY <1>2, <1>3, <1>4, <1>5, <1>6, QuietStep DEF Own

LEMMA FindParentStep == ASSUME IInv, NEW r \in Req, FindParent(r) PROVE IInv'
BY GoStep DEF FindParent, At, PC, IInv, TypeOK

LEMMA ReloadStep == ASSUME IInv, NEW r \in Req, Reload(r) PROVE IInv'
BY GoStep DEF Reload, At, PC, IInv, TypeOK

\* A failure between the statements of an edit mixes its message.
LEMMA FailStep == ASSUME IInv, NEW r \in Req, Fail(r) PROVE IInv'
<1>t. TypeOK /\ Own(r) /\ hist \in History
  BY DEF IInv, TypeOK
<1>1. req[r].pc \in {"unmention", "mention"} => req[r].msg \in Message
  BY <1>t DEF Own, Shape, OnMessage, EditPC
<1>2. PICK M \in SUBSET Message :
        M = IF req[r].pc \in {"unmention", "mention"} THEN hist.mixed \cup {req[r].msg} ELSE hist.mixed
  BY <1>t, <1>1 DEF History
<1>3. hist' = [hist EXCEPT !.mixed = M]
  BY <1>2 DEF Fail
<1>4. /\ hist' \in History /\ hist'.mixed = M
      /\ hist'.raced = hist.raced /\ hist'.flipped = hist.flipped
  BY <1>t, <1>3 DEF History
<1> QED BY <1>2, <1>4, GoStep DEF Fail, At, PC

-----------------------------------------------------------------------------
(* Edits *)

\* The first edit of a message that is not mixed loads what is in the tables;
\* another one that is under way mixes it.
LEMMA LoadStep == ASSUME IInv, NEW r \in Req, Load(r) PROVE IInv'
<1>t. TypeOK /\ Own(r) /\ req[r] \in Request /\ hist \in History
  BY DEF IInv, TypeOK
<1>u. UNCHANGED <<message, mention, reaction>> /\ req[r].pc = "load"
  BY DEF Load, At
<1>k. /\ req[r].msg \in Message /\ req[r].kind \in {"update", "delete"} /\ req[r].caller \in User
      /\ req[r].kind = "update" => req[r].text \in Content
  BY <1>t, <1>u DEF Own, Shape, At, Of, OnMessage
<1>1. CASE Go(r, "failed") /\ UNCHANGED hist
  BY <1>1, <1>t, <1>u, GoStep DEF At, PC
<1>2. CASE ~(Go(r, "failed") /\ UNCHANGED hist)
  <2>1. PICK m \in Message : m = req[r].msg
    BY <1>k
  <2>2. PICK pc \in {"write", "erase"} : pc = IF req[r].kind = "update" THEN "write" ELSE "erase"
    OBVIOUS
  <2>3. Taken(req[r])
    BY <1>2 DEF Load
  <2>4. /\ Log!Posted(m) /\ message[m].sender = req[r].caller
        /\ req[r].kind = "update" => ~message[m].deleted
    BY <2>1, <2>3 DEF Taken
  <2>5. message[m] \in Log!MessageRow
    BY <1>t, <2>4, RowType
  <2>6. PICK q : q = [req[r] EXCEPT !.snap = message[m].content, !.pc = pc]
    OBVIOUS
  <2>7. /\ q \in Request /\ q.pc = pc /\ q.snap = message[m].content /\ q.msg = m
        /\ q.kind = req[r].kind /\ q.caller = req[r].caller /\ q.text = req[r].text
        /\ q.dead = req[r].dead
    <3>1. PICK c \in Content : c = message[m].content
      BY <2>5 DEF Log!MessageRow
    <3>2. q = [req[r] EXCEPT !.snap = c, !.pc = pc] /\ pc \in PC
      BY <2>6, <3>1 DEF PC
    <3>3. q \in Request
      BY <1>t, <3>2 DEF Request
    <3> QED BY <1>t, <2>1, <3>1, <3>2, <3>3 DEF Request
  <2>8. req' = [req EXCEPT ![r] = q]
    BY <1>2, <2>1, <2>2, <2>6 DEF Load, Of
  <2>9. req'[r] = q /\ \A s \in Req : s # r => req'[s] = req[s]
    BY <1>t, <2>8 DEF TypeOK
  <2>10. PICK M \in SUBSET Message :
           M = IF req[r].kind = "update" /\ EditUnderWay(r, m) THEN hist.mixed \cup {m} ELSE hist.mixed
    BY <1>t DEF History
  <2>11. hist' = [hist EXCEPT !.mixed = M]
    BY <1>2, <2>1, <2>10 DEF Load
  <2>12. /\ hist' \in History /\ hist'.mixed = M
         /\ hist'.raced = hist.raced /\ hist'.flipped = hist.flipped
    BY <1>t, <2>11 DEF History
  <2>13. Shape(r)'
    BY <1>k, <2>2, <2>7, <2>9, <2>1 DEF Shape, At, Of, OnMessage, EditPC, TogglePC, Kind
  <2>14. Checked(r)'
    <3>1. pc = "write" => ~req[r].dead
      BY <1>t, <1>u, <2>1, <2>2, <2>4 DEF Own, Checked
    <3> QED BY <1>u, <2>4, <2>7, <2>9, <3>1 DEF Checked, At, EditPC, Log!Posted
  <2>15. ASSUME NEW n \in Message PROVE Mentions(n)'
    <3>0. Mentions(n)
      BY DEF IInv
    <3>1. CASE n # m \/ pc = "erase"
      <4>1. ~(q.msg = n /\ q.pc \in EditPC)
        BY <2>7, <3>1 DEF EditPC
      <4> QED BY <1>t, <1>u, <2>7, <2>8, <2>10, <2>12, <3>0, <4>1, MentionsKept
    <3>2. CASE n = m /\ pc = "write"
      <4> SUFFICES ASSUME m \notin M PROVE Mentions(n)'
        BY <2>12, <3>2 DEF Mentions
      <4>1. ~EditUnderWay(r, m) /\ m \notin hist.mixed
        BY <2>2, <2>10, <3>2
      <4>2. \A s \in Req : ~Editing(s, m)
        <5>1. ~Editing(r, m)
          BY <1>u DEF Editing, EditPC
        <5>2. ASSUME NEW s \in Req \ {r}, Editing(s, m) PROVE FALSE
          BY <4>1, <5>2 DEF EditUnderWay, Editing, EditPC, IInv, Own, Shape
        <5> QED BY <5>1, <5>2
      <4>3. mention[m] = message[m].content
        BY <2>4, <3>0, <3>2, <4>1, <4>2 DEF Mentions
      <4>4. \A s \in Req : Editing(s, m)' => s = r
        BY <2>9, <4>2 DEF Editing
      <4> QED BY <1>u, <2>7, <2>9, <3>2, <4>3, <4>4 DEF Mentions, At
    <3> QED BY <2>2, <3>1, <3>2
  <2>16. ASSUME NEW n \in Message, NEW u \in User PROVE Reactions(n, u)'
    <3>1. ReactionsOf(n, u)' = ReactionsOf(n, u)
      BY <1>u DEF ReactionsOf, Present
    <3>2. q.pc \notin TogglePC
      BY <2>7 DEF TogglePC
    <3> QED BY <1>t, <2>7, <2>8, <2>12, <3>1, <3>2, ReactionsKept DEF IInv
  <2>17. Evolves
    BY <1>u, Still
  <2> QED BY <1>t, <1>u, <2>7, <2>8, <2>12, <2>13, <2>14, <2>15, <2>16, <2>17, WholeStep DEF Own, TypeOK
<1> QED BY <1>1, <1>2

\* A step that writes message m or its mentions, and moves on a request on it.
LEMMA MessageStep ==
  ASSUME IInv, NEW r \in Req, NEW m \in Message, NEW pc \in PC \ TogglePC,
         NEW row \in Log!MessageRow, NEW S \in SUBSET User,
         req[r].pc \in EditPC \cup {"erase"}, req[r].msg = m, Go(r, pc),
         message' = [message EXCEPT ![m] = row],
         mention' = [mention EXCEPT ![m] = S],
         UNCHANGED <<reaction, hist>>,
         row.sender = message[m].sender, row.parent = message[m].parent,
         message[m].deleted => row.deleted,
         pc \notin {"idle", "parent", "insert", "load", "lookup", "write", "erase"},
         pc \in EditPC => Of(r, "update"),
         Mentions(m)'
  PROVE  IInv'
<1>t. TypeOK /\ Own(r) /\ req[r] \in Request
  BY DEF IInv, TypeOK
<1>1. PICK q : q = [req[r] EXCEPT !.pc = pc]
  OBVIOUS
<1>2. /\ q \in Request /\ q.pc = pc /\ q.msg = m /\ q.kind = req[r].kind
      /\ q.caller = req[r].caller /\ q.text = req[r].text
  BY <1>t, <1>1 DEF Request
<1>3. req' = [req EXCEPT ![r] = q] /\ req'[r] = q
  BY <1>t, <1>1 DEF Go, TypeOK
<1>4. row # Unused
  BY MessagesAssumption DEF Log!MessageRow
<1>5. /\ message'[m] = row /\ Log!Posted(m)'
      /\ \A n \in Message : n # m => message'[n] = message[n] /\ mention'[n] = mention[n]
  BY <1>t, <1>4 DEF TypeOK, Log!Posted
<1>6. Evolves
  BY <1>5 DEF Evolves, Log!Posted, Present
<1>7. Shape(r)'
  BY <1>t, <1>2, <1>3 DEF Own, Shape, At, Of, OnMessage, EditPC, TogglePC
<1>8. Checked(r)'
  BY <1>t, <1>2, <1>3, <1>5 DEF Own, Checked, At, TogglePC
<1>9. ASSUME NEW n \in Message PROVE Mentions(n)'
  <2>1. CASE n = m
    BY <2>1
  <2>2. CASE n # m
    BY <1>t, <1>2, <1>3, <1>5, <2>2, MentionsKept DEF IInv
  <2> QED BY <2>1, <2>2
<1>10. ASSUME NEW n \in Message, NEW u \in User PROVE Reactions(n, u)'
  <2>1. ReactionsOf(n, u)' = ReactionsOf(n, u)
    BY DEF ReactionsOf, Present
  <2> QED BY <1>t, <1>2, <1>3, <2>1, ReactionsKept DEF IInv
<1>11. /\ message' \in [Message -> Log!MessageRow \cup {Unused}]
       /\ mention' \in [Message -> SUBSET User]
       /\ reaction' \in [ReactionId -> Reaction \cup {Unused, Gone}]
       /\ hist' \in History
  BY <1>t DEF TypeOK
<1> QED BY <1>2, <1>3, <1>6, <1>7, <1>8, <1>9, <1>10, <1>11, WholeStep DEF Own

\* What a request that edits a message knows of it.
LEMMA EditorKnows ==
  ASSUME IInv, NEW r \in Req, req[r].pc \in EditPC \cup {"erase"}
  PROVE  /\ req[r] \in Request /\ req[r].msg \in Message
         /\ Log!Posted(req[r].msg) /\ message[req[r].msg] \in Log!MessageRow
         /\ req[r].pc \in EditPC => Of(r, "update") /\ req[r].text \in Content
<1>1. TypeOK /\ Own(r)
  BY DEF IInv
<1>2. req[r].msg \in Message /\ Log!Posted(req[r].msg)
  BY <1>1 DEF Own, Shape, Checked, OnMessage
<1> QED BY <1>1, <1>2, RowType DEF TypeOK, Own, Shape, Of

\* Of a message that is not mixed, the request that edits it is the only one.
LEMMA OnlyEditor ==
  ASSUME IInv, NEW r \in Req, NEW m \in Message, Editing(r, m), m \notin hist.mixed, Log!Posted(m),
         NEW pc, Go(r, pc), NEW s \in Req, Editing(s, m)' \/ Editing(s, m)
  PROVE  s = r
<1>1. s # r => req'[s] = req[s]
  BY DEF Go, IInv, TypeOK
<1> QED BY <1>1 DEF IInv, Mentions, Editing

\* The content written is the one asked for, or was there when it was loaded.
LEMMA WriteStep == ASSUME IInv, NEW r \in Req, Write(r) PROVE IInv'
<1>t. TypeOK /\ req[r].pc = "write" /\ req[r].pc \in EditPC
  BY DEF IInv, Write, At, EditPC
<1>1. PICK m \in Message : m = req[r].msg
  BY <1>t, EditorKnows
<1>2. /\ Log!Posted(m) /\ message[m] \in Log!MessageRow /\ req[r].text \in Content
      /\ Of(r, "update") /\ req[r] \in Request
  BY <1>t, <1>1, EditorKnows
<1>3. PICK row : row = [message[m] EXCEPT !.content = IF req[r].text # req[r].snap THEN req[r].text ELSE @]
  OBVIOUS
<1>4. /\ row \in Log!MessageRow
      /\ row.sender = message[m].sender /\ row.parent = message[m].parent
      /\ row.deleted = message[m].deleted
      /\ row.content = IF req[r].text # req[r].snap THEN req[r].text ELSE message[m].content
  BY <1>2, <1>3 DEF Log!MessageRow
<1>5. message' = [message EXCEPT ![m] = row] /\ Go(r, "unmention") /\ UNCHANGED <<mention, reaction, hist>>
  BY <1>1, <1>3 DEF Write, Written
<1>6. mention[m] \in SUBSET User /\ mention' = [mention EXCEPT ![m] = mention[m]]
  BY <1>t, <1>5 DEF TypeOK
<1>7. Mentions(m)'
  <2> SUFFICES ASSUME m \notin hist.mixed PROVE Mentions(m)'
    BY <1>5 DEF Mentions
  <2>1. Editing(r, m)
    BY <1>1, <1>t DEF Editing
  <2>2. \A s \in Req : Editing(s, m)' => s = r
    BY <1>2, <1>5, <2>1, OnlyEditor
  <2>3. req[r].snap = message[m].content
    BY <1>2, <1>t, <2>1 DEF IInv, Mentions, At
  <2>4. message'[m].content = req[r].text
    BY <1>4, <1>5, <1>t, <2>3 DEF TypeOK
  <2>5. req'[r].pc = "unmention" /\ req'[r].text = req[r].text /\ req'[r].msg = m
    BY <1>1, <1>2, <1>5, <1>t DEF Go, TypeOK, Request
  <2> QED BY <2>2, <2>4, <2>5 DEF Mentions, At, Editing, EditPC
<1> QED BY <1>t, <1>1, <1>2, <1>4, <1>5, <1>6, <1>7, MessageStep DEF PC, TogglePC

LEMMA UnmentionStep == ASSUME IInv, NEW r \in Req, Unmention(r) PROVE IInv'
<1>t. TypeOK /\ req[r].pc = "unmention" /\ req[r].pc \in EditPC
  BY DEF IInv, Unmention, At, EditPC
<1>1. PICK m \in Message : m = req[r].msg
  BY <1>t, EditorKnows
<1>2. /\ Log!Posted(m) /\ message[m] \in Log!MessageRow /\ req[r].text \in Content
      /\ Of(r, "update") /\ req[r] \in Request
  BY <1>t, <1>1, EditorKnows
<1>3. PICK pc \in {"reload", "mention"} : pc = IF req[r].text = {} THEN "reload" ELSE "mention"
  OBVIOUS
<1>4. /\ mention' = [mention EXCEPT ![m] = {}] /\ Go(r, pc) /\ UNCHANGED <<message, reaction, hist>>
  BY <1>1, <1>3 DEF Unmention
<1>5. message' = [message EXCEPT ![m] = message[m]]
  BY <1>4, <1>t DEF TypeOK
<1>6. Mentions(m)'
  <2> SUFFICES ASSUME m \notin hist.mixed PROVE Mentions(m)'
    BY <1>4 DEF Mentions
  <2>1. Editing(r, m)
    BY <1>1, <1>t DEF Editing
  <2>2. \A s \in Req : Editing(s, m)' => s = r
    BY <1>2, <1>4, <2>1, OnlyEditor
  <2>3. message'[m].content = req[r].text
    BY <1>2, <1>4, <1>t, <2>1 DEF IInv, Mentions, At
  <2>4. req'[r].pc = pc /\ req'[r].text = req[r].text /\ req'[r].msg = m /\ mention'[m] = {}
    BY <1>1, <1>2, <1>4, <1>t DEF Go, TypeOK, Request
  <2> QED BY <1>3, <2>2, <2>3, <2>4 DEF Mentions, At, Editing, EditPC
<1>7. /\ pc \in PC \ TogglePC /\ {} \in SUBSET User
      /\ pc \notin {"idle", "parent", "insert", "load", "lookup", "write", "erase"}
  BY DEF PC, TogglePC
<1> QED BY <1>t, <1>1, <1>2, <1>4, <1>5, <1>6, <1>7, MessageStep

LEMMA SaveMentionsStep == ASSUME IInv, NEW r \in Req, SaveMentions(r) PROVE IInv'
<1>t. TypeOK /\ req[r].pc = "mention" /\ req[r].pc \in EditPC
  BY DEF IInv, SaveMentions, At, EditPC
<1>1. PICK m \in Message : m = req[r].msg
  BY <1>t, EditorKnows
<1>2. /\ Log!Posted(m) /\ message[m] \in Log!MessageRow /\ req[r].text \in Content
      /\ Of(r, "update") /\ req[r] \in Request
  BY <1>t, <1>1, EditorKnows
<1>3. PICK S \in SUBSET User : S = mention[m] \cup req[r].text
  BY <1>2, <1>t, MessagesAssumption DEF TypeOK
<1>4. mention' = [mention EXCEPT ![m] = S] /\ Go(r, "reload") /\ UNCHANGED <<message, reaction, hist>>
  BY <1>1, <1>3 DEF SaveMentions
<1>5. message' = [message EXCEPT ![m] = message[m]]
  BY <1>4, <1>t DEF TypeOK
<1>6. Mentions(m)'
  <2> SUFFICES ASSUME m \notin hist.mixed PROVE Mentions(m)'
    BY <1>4 DEF Mentions
  <2>1. Editing(r, m)
    BY <1>1, <1>t DEF Editing
  <2>2. \A s \in Req : Editing(s, m)' => s = r
    BY <1>2, <1>4, <2>1, OnlyEditor
  <2>3. message'[m].content = req[r].text /\ mention[m] = {}
    BY <1>2, <1>4, <1>t, <2>1 DEF IInv, Mentions, At
  <2>4. req'[r].pc = "reload" /\ mention'[m] = S
    BY <1>2, <1>4, <1>t DEF Go, TypeOK, Request
  <2> QED BY <1>3, <2>2, <2>3, <2>4 DEF Mentions, Editing, EditPC
<1> QED BY <1>t, <1>1, <1>2, <1>4, <1>5, <1>6, MessageStep DEF PC, TogglePC

LEMMA EraseStep == ASSUME IInv, NEW r \in Req, Erase(r) PROVE IInv'
<1>t. TypeOK /\ req[r].pc = "erase" /\ req[r].pc \notin EditPC
  BY DEF IInv, Erase, At, EditPC
<1>1. PICK m \in Message : m = req[r].msg
  BY <1>t, EditorKnows
<1>2. Log!Posted(m) /\ message[m] \in Log!MessageRow /\ req[r] \in Request
  BY <1>t, <1>1, EditorKnows
<1>3. PICK row : row = [message[m] EXCEPT !.deleted = TRUE]
  OBVIOUS
<1>4. /\ row \in Log!MessageRow /\ row.sender = message[m].sender /\ row.parent = message[m].parent
      /\ row.deleted /\ row.content = message[m].content
  BY <1>2, <1>3 DEF Log!MessageRow
<1>5. message' = [message EXCEPT ![m] = row] /\ Go(r, "ok") /\ UNCHANGED <<mention, reaction, hist>>
  BY <1>1, <1>3 DEF Erase
<1>6. mention[m] \in SUBSET User /\ mention' = [mention EXCEPT ![m] = mention[m]]
  BY <1>t, <1>5 DEF TypeOK
<1>7. Mentions(m)'
  <2>1. \A s \in Req : s # r => req'[s] = req[s]
    BY <1>5, <1>t DEF Go, TypeOK
  <2>2. req'[r].pc = "ok"
    BY <1>5, <1>t, <1>2 DEF Go, TypeOK, Request
  <2>3. \A s \in Req : Editing(s, m)' <=> Editing(s, m)
    BY <1>t, <2>1, <2>2 DEF Editing, EditPC
  <2>4. \A s \in Req : Editing(s, m) => req'[s] = req[s]
    BY <1>t, <2>1 DEF Editing
  <2>5. message'[m].content = message[m].content
    BY <1>4, <1>5, <1>t DEF TypeOK
  <2>6. Mentions(m)
    BY DEF IInv
  <2> QED BY <1>2, <1>5, <2>3, <2>4, <2>5, <2>6 DEF Mentions, At
<1> QED BY <1>t, <1>1, <1>4, <1>5, <1>6, <1>7, MessageStep DEF PC, TogglePC, EditPC

-----------------------------------------------------------------------------
(* Posting *)

\* A message that is posted has no edits under way, for they have loaded it.
LEMMA InsertStep ==
  ASSUME IInv, NEW r \in Req, NEW m \in Message, Insert(r, m)
  PROVE  IInv'
<1>t. TypeOK /\ Own(r) /\ req[r] \in Request
  BY DEF IInv, TypeOK
<1>1. /\ req[r].pc = "insert" /\ ~Log!Posted(m) /\ UNCHANGED <<reaction, hist>>
      /\ req' = [req EXCEPT ![r].pc = "reload", ![r].msg = m]
      /\ mention' = [mention EXCEPT ![m] = req[r].text]
  BY DEF Insert, At
<1>2. /\ Of(r, "create") /\ req[r].caller \in User /\ req[r].room \in Room /\ req[r].text \in Content
      /\ req[r].parent \in Message \cup {None}
  BY <1>t, <1>1 DEF Own, Shape, Checked, At
<1>3. PICK q : q = [req[r] EXCEPT !.pc = "reload", !.msg = m]
  OBVIOUS
<1>4. /\ q \in Request /\ q.pc = "reload" /\ q.msg = m /\ q.kind = "create" /\ q.caller \in User
  BY <1>t, <1>2, <1>3 DEF Request, PC, Of
<1>5. req' = [req EXCEPT ![r] = q] /\ req'[r] = q
  BY <1>t, <1>1, <1>3 DEF TypeOK
<1>6. NewRow(req[r]) \in Log!MessageRow /\ NewRow(req[r]) # Unused /\ NewRow(req[r]).content = req[r].text
  <2>1. NewRow(req[r]) \in Log!MessageRow
    BY <1>2 DEF NewRow, Log!MessageRow
  <2>2. Unused \notin Log!MessageRow
    BY MessagesAssumption DEF Log!MessageRow
  <2> QED BY <2>1, <2>2 DEF NewRow
<1>7. PICK row \in Log!MessageRow : row = NewRow(req[r])
  BY <1>6
<1>8. message' = [message EXCEPT ![m] = row]
  BY <1>7 DEF Insert
<1>9. /\ message'[m] = row /\ mention'[m] = req[r].text
      /\ \A n \in Message : n # m => message'[n] = message[n] /\ mention'[n] = mention[n]
  BY <1>t, <1>1, <1>8 DEF TypeOK
<1>10. Evolves
  BY <1>1, <1>9 DEF Evolves, Log!Posted, Present
<1>11. Own(r)'
  BY <1>4, <1>5 DEF Own, Shape, Checked, At, Of, OnMessage, EditPC, TogglePC, Kind
<1>12. ASSUME NEW n \in Message PROVE Mentions(n)'
  <2>1. CASE n # m
    <3>1. ~(q.msg = n /\ q.pc \in EditPC)
      BY <1>4, <2>1
    <3> QED BY <1>t, <1>1, <1>4, <1>5, <1>9, <2>1, <3>1, MentionsKept DEF IInv
  <2>2. CASE n = m
    <3>1. ASSUME NEW s \in Req, Editing(s, m)' PROVE FALSE
      <4>1. s # r
        BY <1>4, <1>5, <3>1 DEF Editing, EditPC
      <4>2. req'[s] = req[s]
        BY <1>5, <1>t, <4>1 DEF TypeOK
      <4>3. Log!Posted(m)
        BY <3>1, <4>2 DEF Editing, IInv, Own, Checked
      <4> QED BY <1>1, <4>3
    <3> QED BY <1>6, <1>7, <1>9, <2>2, <3>1 DEF Mentions
  <2> QED BY <2>1, <2>2
<1>13. ASSUME NEW n \in Message, NEW u \in User PROVE Reactions(n, u)'
  <2>1. ReactionsOf(n, u)' = ReactionsOf(n, u)
    BY <1>1 DEF ReactionsOf, Present
  <2>2. q.pc \notin TogglePC
    BY <1>4 DEF TogglePC
  <2>3. Reactions(n, u) /\ hist' = hist
    BY <1>1 DEF IInv
  <2> QED BY <1>t, <1>4, <1>5, <2>1, <2>2, <2>3, ReactionsKept
<1>14. req[r].text \in SUBSET User
  BY <1>2, MessagesAssumption
<1>15. /\ message' \in [Message -> Log!MessageRow \cup {Unused}]
       /\ mention' \in [Message -> SUBSET User]
       /\ reaction' \in [ReactionId -> Reaction \cup {Unused, Gone}]
       /\ hist' \in History
  BY <1>t, <1>1, <1>8, <1>14 DEF TypeOK
<1> QED BY <1>4, <1>5, <1>10, <1>11, <1>12, <1>13, <1>15, WholeStep

-----------------------------------------------------------------------------
(* Toggles *)

\* The first toggle of a pair that did not race looks up what is in the table;
\* another one that is under way makes it a race.
LEMMA LookupStep == ASSUME IInv, NEW r \in Req, Lookup(r) PROVE IInv'
<1>t. TypeOK /\ Own(r) /\ req[r] \in Request /\ hist \in History
  BY DEF IInv, TypeOK
<1>u. UNCHANGED <<message, mention, reaction>> /\ req[r].pc = "lookup"
  BY DEF Lookup, At
<1>1. PICK m \in Message, u \in User : m = req[r].msg /\ u = req[r].caller
  BY <1>t, <1>u DEF Own, Shape, At, OnMessage
<1>2. /\ req[r].kind \in Kind
      /\ Of(r, "update") => req[r].text \in Content
  BY <1>t, <1>u DEF Own, Shape, At
<1>3. PICK R \in SUBSET (Message \X User) :
        R = IF \E s \in Req \ {r} : /\ req[s].pc \in {"add", "remove"}
                                    /\ req[s].msg = m /\ req[s].caller = u
            THEN hist.raced \cup {<<m, u>>} ELSE hist.raced
  <2>1. hist.raced \in SUBSET (Message \X User)
    BY <1>t DEF History
  <2>2. hist.raced \cup {<<m, u>>} \in SUBSET (Message \X User)
    BY <2>1
  <2> QED BY <2>1, <2>2
<1>4. hist' = [hist EXCEPT !.raced = R]
  BY <1>1, <1>3 DEF Lookup
<1>5. /\ hist' \in History /\ hist'.raced = R
      /\ hist'.mixed = hist.mixed /\ hist'.flipped = hist.flipped
  BY <1>t, <1>4 DEF History
<1>6. PICK q \in Request :
        /\ req' = [req EXCEPT ![r] = q]
        /\ q.pc \in TogglePC /\ q.msg = m /\ q.caller = u /\ q.kind = req[r].kind /\ q.text = req[r].text
        /\ q.pc = "add" => ReactionsOf(m, u) = {}
        /\ q.pc = "remove" => q.row \in ReactionsOf(m, u)
  <2>1. CASE \E k \in ReactionsOf(m, u) : req' = [req EXCEPT ![r].pc = "remove", ![r].row = k]
    <3>1. PICK k \in ReactionsOf(m, u) : req' = [req EXCEPT ![r].pc = "remove", ![r].row = k]
      BY <2>1
    <3>2. PICK q : q = [req[r] EXCEPT !.pc = "remove", !.row = k]
      OBVIOUS
    <3>3. k \in ReactionId
      BY DEF ReactionsOf
    <3>4. q \in Request /\ q.pc = "remove" /\ q.row = k
      BY <1>t, <3>2, <3>3 DEF Request, PC
    <3>5. q.msg = m /\ q.caller = u /\ q.kind = req[r].kind /\ q.text = req[r].text
      BY <1>t, <1>1, <3>2 DEF Request
    <3>6. req' = [req EXCEPT ![r] = q]
      BY <3>1, <3>2
    <3> QED BY <3>4, <3>5, <3>6 DEF TogglePC
  <2>2. CASE ReactionsOf(m, u) = {} /\ Go(r, "add")
    <3>1. PICK q : q = [req[r] EXCEPT !.pc = "add"]
      OBVIOUS
    <3>2. q \in Request /\ q.pc = "add"
      BY <1>t, <3>1 DEF Request, PC
    <3>3. q.msg = m /\ q.caller = u /\ q.kind = req[r].kind /\ q.text = req[r].text
      BY <1>t, <1>1, <3>1 DEF Request
    <3>4. req' = [req EXCEPT ![r] = q]
      BY <2>2, <3>1 DEF Go
    <3> QED BY <2>2, <3>2, <3>3, <3>4 DEF TogglePC
  <2> QED BY <1>1, <2>1, <2>2 DEF Lookup
<1>7. req'[r] = q /\ \A s \in Req : s # r => req'[s] = req[s]
  BY <1>t, <1>6 DEF TypeOK
<1>8. \A n \in Message, v \in User : ReactionsOf(n, v)' = ReactionsOf(n, v)
  BY <1>u DEF ReactionsOf, Present
<1>9. q.pc \notin EditPC
  BY <1>6 DEF TogglePC, EditPC
<1>10. Shape(r)'
  <2>1. q.pc = "remove" => q.row \in ReactionId
    BY <1>6 DEF ReactionsOf
  <2>2. q.pc \notin {"idle", "parent", "insert", "load", "erase"} /\ q.caller \in User
    BY <1>6 DEF TogglePC
  <2>3. q.msg \in Message /\ q.kind \in Kind
    BY <1>2, <1>6
  <2>4. q.kind = "update" => q.text \in Content
    BY <1>2, <1>6 DEF Of
  <2> QED BY <1>7, <1>9, <2>1, <2>2, <2>3, <2>4 DEF Shape, At, Of
<1>11. Checked(r)'
  BY <1>6, <1>7, <1>8, <1>9 DEF Checked, At, TogglePC
<1>12. ASSUME NEW n \in Message PROVE Mentions(n)'
  BY <1>t, <1>u, <1>5, <1>6, <1>9, MentionsKept DEF IInv
<1>13. ASSUME NEW n \in Message, NEW v \in User PROVE Reactions(n, v)'
  <2>0. Reactions(n, v)
    BY DEF IInv
  <2>1. CASE n # m \/ v # u
    BY <1>t, <1>3, <1>5, <1>6, <1>8, <2>0, <2>1, ReactionsKept
  <2>2. CASE n = m /\ v = u
    <3> SUFFICES ASSUME <<m, u>> \notin R PROVE Reactions(n, v)'
      BY <1>5, <2>2 DEF Reactions
    <3>1. \A s \in Req : ~Toggling(s, m, u)
      BY <1>3, <1>u DEF Toggling, TogglePC
    <3>2. <<m, u>> \notin hist.raced
      BY <1>3
    <3>3. \A s \in Req : Toggling(s, m, u)' => s = r
      BY <1>7, <3>1 DEF Toggling
    <3> QED BY <1>5, <1>6, <1>7, <1>8, <2>0, <2>2, <3>2, <3>3 DEF Reactions, At
  <2> QED BY <2>1, <2>2
<1>14. Evolves
  BY <1>u, Still
<1> QED BY <1>t, <1>u, <1>5, <1>6, <1>10, <1>11, <1>12, <1>13, <1>14, WholeStep DEF Own, TypeOK

\* The commit of a toggle.
LEMMA ToggleStep ==
  ASSUME IInv, NEW r \in Req, NEW m \in Message, NEW u \in User,
         req[r].pc \in TogglePC, req[r].msg = m, req[r].caller = u, Go(r, "ok"),
         UNCHANGED <<message, mention>>, hist' = Flipped(req[r]),
         reaction' \in [ReactionId -> Reaction \cup {Unused, Gone}],
         Evolves,
         \A n \in Message, v \in User : n # m \/ v # u => ReactionsOf(n, v)' = ReactionsOf(n, v),
         <<m, u>> \notin hist.raced =>
           /\ \A k, l \in ReactionsOf(m, u)' : k = l
           /\ ReactionsOf(m, u)' = {} <=> ReactionsOf(m, u) # {}
  PROVE  IInv'
<1>t. TypeOK /\ Own(r) /\ req[r] \in Request /\ hist \in History
  BY DEF IInv, TypeOK
<1>1. PICK q : q = [req[r] EXCEPT !.pc = "ok"]
  OBVIOUS
<1>2. /\ q \in Request /\ q.pc = "ok" /\ q.msg = m /\ q.caller = u
      /\ q.kind = req[r].kind /\ q.text = req[r].text
  BY <1>t, <1>1 DEF Request, PC
<1>3. req' = [req EXCEPT ![r] = q] /\ req'[r] = q /\ \A s \in Req : s # r => req'[s] = req[s]
  BY <1>t, <1>1 DEF Go, TypeOK
<1>4. PICK F \in SUBSET (Message \X User) :
        F = IF <<m, u>> \in hist.flipped THEN hist.flipped \ {<<m, u>>} ELSE hist.flipped \cup {<<m, u>>}
  <2>1. hist.flipped \in SUBSET (Message \X User)
    BY <1>t DEF History
  <2>2. hist.flipped \cup {<<m, u>>} \in SUBSET (Message \X User)
    BY <2>1
  <2> QED BY <2>1, <2>2
<1>5. hist' = [hist EXCEPT !.flipped = F]
  BY <1>4 DEF Flipped
<1>6. /\ hist' \in History /\ hist'.flipped = F
      /\ hist'.mixed = hist.mixed /\ hist'.raced = hist.raced
  BY <1>t, <1>5 DEF History
<1>7. Own(r)'
  BY <1>t, <1>2, <1>3 DEF Own, Shape, Checked, At, Of, OnMessage, EditPC, TogglePC
<1>8. q.pc \notin EditPC \cup TogglePC /\ req[r].pc \notin {"unmention", "mention"}
  BY <1>2 DEF EditPC, TogglePC
<1>9. ASSUME NEW n \in Message PROVE Mentions(n)'
  BY <1>t, <1>2, <1>3, <1>6, <1>8, MentionsKept DEF IInv
<1>10. ASSUME NEW n \in Message, NEW v \in User PROVE Reactions(n, v)'
  <2>0. Reactions(n, v)
    BY DEF IInv
  <2>1. CASE n # m \/ v # u
    <3>1. <<n, v>> \in F <=> <<n, v>> \in hist.flipped
      BY <1>4, <2>1
    <3> QED BY <1>t, <1>2, <1>3, <1>6, <1>8, <2>0, <2>1, <3>1, ReactionsKept
  <2>2. CASE n = m /\ v = u
    <3> SUFFICES ASSUME <<m, u>> \notin hist.raced PROVE Reactions(n, v)'
      BY <1>6, <2>2 DEF Reactions
    <3>1. Toggling(r, m, u)
      BY DEF Toggling
    <3>2. \A s \in Req : ~Toggling(s, m, u)'
      <4> SUFFICES ASSUME NEW s \in Req, Toggling(s, m, u)' PROVE FALSE
        OBVIOUS
      <4>1. s # r
        BY <1>3, <1>8 DEF Toggling
      <4>2. Toggling(s, m, u)
        BY <1>3, <4>1 DEF Toggling
      <4> QED BY <2>0, <2>2, <3>1, <4>1, <4>2 DEF Reactions
    <3>3. <<m, u>> \in F <=> <<m, u>> \notin hist.flipped
      BY <1>4
    <3>4. ReactionsOf(m, u) # {} <=> <<m, u>> \in hist.flipped
      BY <2>0, <2>2 DEF Reactions
    <3> QED BY <1>6, <2>2, <3>2, <3>3, <3>4 DEF Reactions
  <2> QED BY <2>1, <2>2
<1>11. message' \in [Message -> Log!MessageRow \cup {Unused}] /\ mention' \in [Message -> SUBSET User]
  BY <1>t DEF TypeOK
<1> QED BY <1>2, <1>3, <1>6, <1>7, <1>9, <1>10, <1>11, WholeStep

LEMMA AddReactionStep ==
  ASSUME IInv, NEW r \in Req, NEW k \in ReactionId, AddReaction(r, k)
  PROVE  IInv'
<1>t. TypeOK /\ Own(r) /\ req[r].pc = "add" /\ req[r].pc \in TogglePC
  BY DEF IInv, AddReaction, At, TogglePC
<1>1. PICK m \in Message, u \in User : m = req[r].msg /\ u = req[r].caller
  BY <1>t DEF Own, Shape, At, OnMessage
<1>2. PICK x \in Reaction : x = [msg |-> m, user |-> u]
  BY DEF Reaction
<1>3. x.msg = m /\ x.user = u /\ x # Unused /\ x # Gone
  BY <1>2, MessagesAssumption
<1>4. /\ reaction[k] = Unused /\ reaction' = [reaction EXCEPT ![k] = x]
      /\ Go(r, "ok") /\ UNCHANGED <<message, mention>> /\ hist' = Flipped(req[r])
  BY <1>1, <1>2 DEF AddReaction
<1>5. reaction' \in [ReactionId -> Reaction \cup {Unused, Gone}]
  BY <1>t, <1>4 DEF TypeOK
<1>6. reaction'[k] = x /\ \A l \in ReactionId : l # k => reaction'[l] = reaction[l]
  BY <1>t, <1>4 DEF TypeOK
<1>7. Evolves
  BY <1>4, <1>6, MessagesAssumption DEF Evolves, Present, Log!Posted
<1>8. ASSUME NEW n \in Message, NEW v \in User
      PROVE  ReactionsOf(n, v)' = ReactionsOf(n, v) \cup (IF n = m /\ v = u THEN {k} ELSE {})
  BY <1>3, <1>4, <1>6 DEF ReactionsOf, Present
<1>9. <<m, u>> \notin hist.raced => ReactionsOf(m, u) = {}
  <2>1. Toggling(r, m, u)
    BY <1>t, <1>1 DEF Toggling
  <2> QED BY <1>t, <2>1 DEF IInv, Reactions, At
<1>10. \A n \in Message, v \in User : n # m \/ v # u => ReactionsOf(n, v)' = ReactionsOf(n, v)
  BY <1>8
<1>11. ReactionsOf(m, u)' = ReactionsOf(m, u) \cup {k}
  BY <1>8
<1>12. <<m, u>> \notin hist.raced =>
         /\ \A x1, x2 \in ReactionsOf(m, u)' : x1 = x2
         /\ ReactionsOf(m, u)' = {} <=> ReactionsOf(m, u) # {}
  BY <1>9, <1>11
<1>13. UNCHANGED <<message, mention>> /\ Go(r, "ok") /\ hist' = Flipped(req[r])
  BY <1>4
<1> QED BY <1>t, <1>1, <1>5, <1>7, <1>10, <1>12, <1>13, ToggleStep

LEMMA RemoveReactionStep ==
  ASSUME IInv, NEW r \in Req, RemoveReaction(r)
  PROVE  IInv'
<1>t. TypeOK /\ Own(r) /\ req[r].pc = "remove" /\ req[r].pc \in TogglePC
  BY DEF IInv, RemoveReaction, At, TogglePC
<1>1. PICK m \in Message, u \in User : m = req[r].msg /\ u = req[r].caller
  BY <1>t DEF Own, Shape, At, OnMessage
<1>2. PICK k \in ReactionId : k = req[r].row
  BY <1>t DEF Own, Shape, At
<1>3. reaction[k] = Gone \/ k \in ReactionsOf(m, u)
  BY <1>t, <1>1, <1>2 DEF Own, Checked, At
<1>4. /\ reaction' = [reaction EXCEPT ![k] = Gone]
      /\ Go(r, "ok") /\ UNCHANGED <<message, mention>> /\ hist' = Flipped(req[r])
  BY <1>2 DEF RemoveReaction
<1>5. reaction' \in [ReactionId -> Reaction \cup {Unused, Gone}]
  BY <1>t, <1>4 DEF TypeOK
<1>6. reaction'[k] = Gone /\ \A l \in ReactionId : l # k => reaction'[l] = reaction[l]
  BY <1>t, <1>4 DEF TypeOK
<1>7. Evolves
  BY <1>4, <1>6 DEF Evolves, Present, Log!Posted
<1>8. ASSUME NEW n \in Message, NEW v \in User
      PROVE  ReactionsOf(n, v)' = ReactionsOf(n, v) \ {k}
  BY <1>6 DEF ReactionsOf, Present
<1>9. ASSUME NEW n \in Message, NEW v \in User, n # m \/ v # u PROVE k \notin ReactionsOf(n, v)
  BY <1>3, <1>9 DEF ReactionsOf, Present
<1>10. <<m, u>> \notin hist.raced => ReactionsOf(m, u) = {k}
  <2>1. Toggling(r, m, u)
    BY <1>t, <1>1 DEF Toggling
  <2> QED BY <1>t, <1>2, <2>1 DEF IInv, Reactions, At
<1>11. \A n \in Message, v \in User : n # m \/ v # u => ReactionsOf(n, v)' = ReactionsOf(n, v)
  BY <1>8, <1>9
<1>12. ReactionsOf(m, u)' = ReactionsOf(m, u) \ {k}
  BY <1>8
<1>13. <<m, u>> \notin hist.raced =>
         /\ \A x1, x2 \in ReactionsOf(m, u)' : x1 = x2
         /\ ReactionsOf(m, u)' = {} <=> ReactionsOf(m, u) # {}
  BY <1>10, <1>12
<1>14. UNCHANGED <<message, mention>> /\ Go(r, "ok") /\ hist' = Flipped(req[r])
  BY <1>4
<1> QED BY <1>t, <1>1, <1>5, <1>7, <1>11, <1>13, <1>14, ToggleStep

-----------------------------------------------------------------------------
(* The invariant *)

LEMMA NextIInv == IInv /\ [Next]_vars => IInv'
<1> SUFFICES ASSUME IInv, [Next]_vars PROVE IInv'
  OBVIOUS
<1>1. CASE UNCHANGED vars
  <2>1. \A r \in Req : Own(r)'
    BY <1>1 DEF vars, IInv, Own, Shape, Checked, At, Of, ReactionsOf, Present, Log!Thread, Log!Posted
  <2>2. \A m \in Message : Mentions(m)'
    BY <1>1 DEF vars, IInv, Mentions, Editing, At, Log!Posted
  <2>3. \A m \in Message, u \in User : Reactions(m, u)'
    <3>1. \A m \in Message, u \in User : ReactionsOf(m, u)' = ReactionsOf(m, u)
      BY <1>1 DEF vars, ReactionsOf, Present
    <3> QED BY <1>1, <3>1 DEF vars, IInv, Reactions, Toggling, At
  <2>4. TypeOK'
    BY <1>1 DEF vars, IInv, TypeOK
  <2> QED BY <2>1, <2>2, <2>3, <2>4 DEF IInv
<1>2. ASSUME NEW r \in Req, Start(r) PROVE IInv'
  BY <1>2, StartCreateStep, StartOnStep DEF Start
<1>3. ASSUME NEW r \in Req, Continue(r) PROVE IInv'
  BY <1>3, FindParentStep, InsertStep, ReloadStep, LoadStep, WriteStep, UnmentionStep, SaveMentionsStep,
     EraseStep, LookupStep, AddReactionStep, RemoveReactionStep DEF Continue
<1> QED BY <1>1, <1>2, <1>3, FailStep DEF Next

LEMMA Invariant == Spec => []IInv
BY InitIInv, NextIInv, PTL DEF Spec

-----------------------------------------------------------------------------
(* The theorems *)

\* The tables and the requests are well typed in every state.
THEOREM MessagesTypeCorrect == Spec => []TypeOK
<1>1. IInv => TypeOK
  BY DEF IInv
<1> QED BY <1>1, Invariant, PTL

\* The mention table agrees with every content no edit is under way of, unless
\* two edits overlapped or one failed half way.
THEOREM MentionsAgree == Spec => []MentionsFollowContent
<1>1. ASSUME IInv, NEW m \in Message, Log!Posted(m), m \notin hist.mixed,
             \A r \in Req : req[r].msg = m => req[r].pc \notin {"unmention", "mention"}
      PROVE  mention[m] = message[m].content
  <2>1. \A r \in Req : Editing(r, m) => At(r, "write")
    BY <1>1 DEF Editing, At, EditPC
  <2> QED BY <1>1, <2>1 DEF IInv, Mentions
<1>2. IInv => MentionsFollowContent
  BY <1>1 DEF MentionsFollowContent
<1> QED BY <1>2, Invariant, PTL

\* Toggles of one user on one message that do not overlap alternate between no
\* row and one row.
THEOREM TogglesAlternate == Spec => []ReactionFollowsToggles
<1>1. ASSUME IInv, NEW m \in Message, NEW u \in User, <<m, u>> \notin hist.raced
      PROVE  /\ \A k, l \in ReactionsOf(m, u) : k = l
             /\ ReactionsOf(m, u) # {} <=> <<m, u>> \in hist.flipped
  BY <1>1 DEF IInv, Reactions
<1>2. IInv => ReactionFollowsToggles
  BY <1>1 DEF ReactionFollowsToggles
<1> QED BY <1>2, Invariant, PTL

\* The steps that change the message table.
LEMMA Writers ==
  ASSUME [Next]_vars
  PROVE  \/ UNCHANGED message
         \/ \E r \in Req : (\E m \in Message : Insert(r, m)) \/ Write(r) \/ Erase(r)
<1>1. CASE UNCHANGED vars
  BY <1>1 DEF vars
<1>2. ASSUME NEW r \in Req, Start(r) PROVE UNCHANGED message
  BY <1>2 DEF Start, StartCreate, StartOn
<1>3. ASSUME NEW r \in Req, Fail(r) PROVE UNCHANGED message
  BY <1>3 DEF Fail
<1>4. ASSUME NEW r \in Req,
             \/ FindParent(r) \/ Reload(r) \/ Load(r) \/ Unmention(r) \/ SaveMentions(r) \/ Lookup(r)
             \/ RemoveReaction(r)
             \/ \E k \in ReactionId : AddReaction(r, k)
      PROVE  UNCHANGED message
  BY <1>4 DEF FindParent, Reload, Load, Unmention, SaveMentions, Lookup, RemoveReaction, AddReaction
<1> QED BY <1>1, <1>2, <1>3, <1>4 DEF Next, Continue

\* A change of a posted message is a flush of an edit or a deletion, for its
\* sender.
LEMMA MessageChange ==
  ASSUME IInv, [Next]_vars, NEW m \in Message, Log!Posted(m), message'[m] # message[m]
  PROVE  \E r \in Req :
           /\ req'[r].pc # req[r].pc /\ req[r].msg = m /\ req[r].caller = message[m].sender
           /\ \/ /\ Of(r, "update") /\ ~req[r].dead /\ message'[m].deleted = message[m].deleted
              \/ /\ Of(r, "delete") /\ message'[m].content = message[m].content
<1>t. TypeOK /\ message[m] \in Log!MessageRow
  BY RowType DEF IInv
<1>g. ASSUME NEW r \in Req, NEW pc, Go(r, pc) PROVE req'[r].pc = pc
  BY <1>t, <1>g DEF Go, TypeOK, Request
<1>1. ASSUME NEW r \in Req, NEW n \in Message, Insert(r, n) PROVE FALSE
  BY <1>1, <1>t DEF Insert, TypeOK, Log!Posted
<1>2. ASSUME NEW r \in Req, Write(r)
      PROVE  /\ req'[r].pc # req[r].pc /\ req[r].msg = m /\ req[r].caller = message[m].sender
             /\ Of(r, "update") /\ ~req[r].dead /\ message'[m].deleted = message[m].deleted
  <2>1. req[r].pc = "write" /\ req'[r].pc = "unmention" /\ req[r].pc \in EditPC
    BY <1>2, <1>g DEF Write, At, EditPC
  <2>2. req[r].msg = m /\ message'[m] = Written(req[r])
    BY <1>2, <1>t DEF Write, TypeOK
  <2>3. message'[m].deleted = message[m].deleted
    BY <1>t, <2>2 DEF Written, Log!MessageRow
  <2>4. Own(r)
    BY DEF IInv
  <2>5. req[r].caller = message[m].sender /\ Of(r, "update") /\ ~req[r].dead
    BY <2>1, <2>2, <2>4 DEF Own, Shape, Checked, At
  <2> QED BY <2>1, <2>2, <2>3, <2>5
<1>3. ASSUME NEW r \in Req, Erase(r)
      PROVE  /\ req'[r].pc # req[r].pc /\ req[r].msg = m /\ req[r].caller = message[m].sender
             /\ Of(r, "delete") /\ message'[m].content = message[m].content
  <2>1. req[r].pc = "erase" /\ req'[r].pc = "ok"
    BY <1>3, <1>g DEF Erase, At
  <2>2. req[r].msg = m /\ message'[m].content = message[m].content
    BY <1>3, <1>t DEF Erase, TypeOK, Log!MessageRow
  <2>3. Own(r)
    BY DEF IInv
  <2>4. req[r].caller = message[m].sender /\ Of(r, "delete")
    BY <2>1, <2>2, <2>3 DEF Own, Shape, Checked, At
  <2> QED BY <2>1, <2>2, <2>4
<1> QED BY <1>1, <1>2, <1>3, Writers

\* Only the sender changes or deletes a message, and nobody changes one that
\* was deleted when the request began.
THEOREM OnlySendersGovern == Spec => SenderGoverns
<1>1. IInv /\ [Next]_vars =>
        [\A m \in Message : Log!Posted(m) =>
           /\ message'[m].content # message[m].content =>
                \E r \in Req : /\ req'[r].pc # req[r].pc /\ Of(r, "update") /\ req[r].msg = m
                               /\ req[r].caller = message[m].sender /\ ~req[r].dead
           /\ message'[m].deleted # message[m].deleted =>
                \E r \in Req : /\ req'[r].pc # req[r].pc /\ Of(r, "delete") /\ req[r].msg = m
                               /\ req[r].caller = message[m].sender]_vars
  <2>1. ASSUME IInv, [Next]_vars, NEW m \in Message, Log!Posted(m)
        PROVE  /\ message'[m].content # message[m].content =>
                    \E r \in Req : /\ req'[r].pc # req[r].pc /\ Of(r, "update") /\ req[r].msg = m
                                   /\ req[r].caller = message[m].sender /\ ~req[r].dead
               /\ message'[m].deleted # message[m].deleted =>
                    \E r \in Req : /\ req'[r].pc # req[r].pc /\ Of(r, "delete") /\ req[r].msg = m
                                   /\ req[r].caller = message[m].sender
    <3>1. message'[m].content # message[m].content \/ message'[m].deleted # message[m].deleted
            => message'[m] # message[m]
      OBVIOUS
    <3> QED BY <2>1, <3>1, MessageChange
  <2> QED BY <2>1
<1> QED BY <1>1, Invariant, PTL DEF Spec, SenderGoverns

\* Every step of the requests is a step of the message log, or none.
LEMMA LogStep ==
  ASSUME IInv, [Next]_vars
  PROVE  [Log!Next]_message
<1>t. TypeOK
  BY DEF IInv
<1>1. ASSUME NEW r \in Req, NEW m \in Message, Insert(r, m) PROVE Log!Next
  <2>1. Own(r) /\ At(r, "insert")
    BY <1>1 DEF IInv, Insert
  <2>2. /\ req[r].room \in Room /\ req[r].caller \in User /\ req[r].text \in Content
        /\ req[r].parent = None \/ (req[r].parent \in Message /\ Log!Thread(req[r].parent))
    BY <2>1 DEF Own, Shape, Checked, At
  <2>3. Log!Post(m, req[r].room, req[r].caller, req[r].parent, req[r].text)
    BY <1>1, <2>2 DEF Insert, NewRow, Log!Post
  <2> QED BY <2>2, <2>3 DEF Log!Next
<1>2. ASSUME NEW r \in Req, Write(r) PROVE Log!Next
  <2>1. PICK m \in Message : m = req[r].msg
    BY <1>2, EditorKnows DEF Write, At, EditPC
  <2>2. Log!Posted(m) /\ message[m] \in Log!MessageRow /\ req[r].text \in Content
    BY <1>2, <2>1, EditorKnows DEF Write, At, EditPC
  <2>3. PICK c \in Content : c = IF req[r].text # req[r].snap THEN req[r].text ELSE message[m].content
    BY <2>2 DEF Log!MessageRow
  <2>4. message' = [message EXCEPT ![m].content = c]
    BY <1>2, <2>1, <2>3 DEF Write, Written
  <2>5. Log!Edit(m, c)
    BY <2>2, <2>4 DEF Log!Edit
  <2> QED BY <2>5 DEF Log!Next
<1>3. ASSUME NEW r \in Req, Erase(r) PROVE Log!Next
  <2>1. PICK m \in Message : m = req[r].msg
    BY <1>3, EditorKnows DEF Erase, At
  <2>2. Log!Posted(m)
    BY <1>3, <2>1, EditorKnows DEF Erase, At
  <2>3. Log!Delete(m)
    BY <1>3, <2>1, <2>2 DEF Erase, Log!Delete
  <2> QED BY <2>3 DEF Log!Next
<1> QED BY <1>1, <1>2, <1>3, Writers

\* The concurrent requests implement the message log.
THEOREM ImplementsLog == Spec => LogSpec
<1>1. Init => Log!Init
  BY DEF Init, Log!Init
<1>2. IInv /\ [Next]_vars => [Log!Next]_message
  BY LogStep
<1> QED BY <1>1, <1>2, Invariant, PTL DEF Spec, LogSpec, Log!Spec
=============================================================================
