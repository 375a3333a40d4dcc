------------------------- MODULE ChatGatewayProofs -------------------------
(***************************************************************************)
(* Proofs about ChatGateway with the Sockets it extends, for every set of  *)
(* users, rooms, connections, messages, contents and handlers, and every   *)
(* number of REST steps and restarts.                                      *)
(***************************************************************************)
EXTENDS ChatGateway, TLAPS

-----------------------------------------------------------------------------
(* The invariant *)

\* The history has everyone who is a member and every room that is open or
\* that the identity map takes for open.
RoomsRecorded ==
  \A i \in Room :
    /\ member[i] \subseteq hist.everIn[i]
    /\ open[i] => i \in hist.opened
    /\ loaded[i] = TRUE => i \in hist.opened

\* A socket has a user once it is authenticated, and the channels it is in or
\* about to join are ones its user has a right to.
Entitled(s) ==
  LET k == sock[s] IN
  /\ k.pc = "new" => ~k.live
  /\ k.pc \in {"new", "auth"} => k.user = None /\ k.in = {} /\ k.found = {}
  /\ k.pc \in {"list", "join"} => k.user \in User
  /\ k.user # None => RoomsOf(k.user) \subseteq hist.rights[s]
  /\ k.found \subseteq hist.rights[s] \cup hist.opened
  /\ k.in \subseteq hist.rights[s] \cup hist.opened

\* A user who is not blurred has one connected socket at most, and a socket
\* that is being connected for one is there.
Presence(u) ==
  u \notin hist.blurred =>
    /\ \A s, t \in Socket :
         sock[s].live /\ sock[s].user = u /\ sock[t].live /\ sock[t].user = u => s = t
    /\ \A s \in Socket : sock[s].user = u /\ sock[s].pc \in {"list", "join"} => sock[s].live
    /\ presence[u] = "online" <=>
         \E s \in Socket : sock[s].live /\ sock[s].pc = "done" /\ sock[s].user = u

SocketsTyped ==
  /\ member \in [Room -> SUBSET User] /\ open \in [Room -> BOOLEAN]
  /\ loaded \in [Room -> BOOLEAN \cup {None}]
  /\ sock \in [Socket -> Sock]
  /\ presence \in [User -> {"online", "offline"}]
  /\ hist \in SockHistory
  /\ rest \in 0 .. MaxRest

SocketsInv ==
  /\ SocketsTyped /\ RoomsRecorded
  /\ \A s \in Socket : Entitled(s)
  /\ \A u \in User : Presence(u)

Still == {"idle", "ok", "failed"}

InRoom == {"room", "member", "seen", "parent", "create"}

\* Whose a handler is, the fields that are filled where it is, and what the
\* checks it has passed still say.
Handler(h) ==
  LET q == job[h] IN
  /\ q.pc \notin Still => q.sock \in Socket /\ q.user \in User /\ q.user = sock[q.sock].user
  /\ q.pc \in InRoom => q.room \in Room /\ q.kind \in {"join", "new", "reply"}
  /\ q.pc \in InRoom /\ q.kind # "join" => q.text \in Content
  /\ q.pc \in {"parent", "create"} =>
       /\ q.kind # "join"
       /\ q.user \in hist.everIn[q.room] \/ q.room \in hist.opened
  /\ q.pc \in {"can", "load", "write", "reload", "emit"} => q.msg \in Message /\ q.text \in Content
  /\ q.pc \in {"write", "reload", "emit"} => Log!Posted(q.msg)
  /\ q.pc = "write" => known[q.msg] # None

\* A message that is not mixed has one broadcast outstanding at most, which
\* will be of its content, and the identity map has that content or none.
Broadcast(m) ==
  Log!Posted(m) /\ m \notin mixed =>
    /\ known[m] # None => known[m].content = message[m].content
    /\ \A g, h \in Owed(m) : g = h
    /\ \A h \in Owed(m) : At(h, "emit") => job[h].text = message[m].content
    /\ Owed(m) = {} => shown[m] = message[m].content

TableTyped ==
  /\ message \in [Message -> Log!MessageRow \cup {Unused}]
  /\ known \in [Message -> Copy \cup {None}]
  /\ shown \in [Message -> Content \cup {None}]
  /\ job \in [Job -> JobRow] /\ mixed \subseteq Message

TableInv ==
  /\ TableTyped
  /\ \A h \in Job : Handler(h)
  /\ \A m \in Message : Broadcast(m)

IInv == SocketsInv /\ TableInv

-----------------------------------------------------------------------------
(* Connections *)

\* A socket keeps its user, and the history of rooms only grows.
Keeps ==
  /\ \A s \in Socket : sock[s].user # None => sock'[s].user = sock[s].user
  /\ \A i \in Room : hist.everIn[i] \subseteq hist'.everIn[i]
  /\ hist.opened \subseteq hist'.opened

\* The record of a socket.
LEMMA SockType ==
  ASSUME SocketsTyped, NEW s \in Socket
  PROVE  /\ sock[s] \in Sock /\ sock[s].live \in BOOLEAN
         /\ sock[s].in \subseteq Room /\ sock[s].found \subseteq Room
         /\ sock[s].user \in User \cup {None}
BY DEF SocketsTyped, Sock

\* A step that changes one socket and neither the rooms nor the history.
LEMMA OneSocket ==
  ASSUME SocketsInv, NEW s \in Socket, NEW k \in Sock, sock' = [sock EXCEPT ![s] = k],
         UNCHANGED <<member, open, rest, hist>>,
         loaded' \in [Room -> BOOLEAN \cup {None}],
         \A i \in Room : loaded'[i] = TRUE => i \in hist.opened,
         presence' \in [User -> {"online", "offline"}],
         Entitled(s)', sock[s].user # None => k.user = sock[s].user,
         \A u \in User : Presence(u)'
  PROVE  SocketsInv' /\ Keeps
<1>1. sock'[s] = k /\ \A t \in Socket : t # s => sock'[t] = sock[t]
  BY DEF SocketsInv, SocketsTyped
<1>2. SocketsTyped'
  BY DEF SocketsInv, SocketsTyped
<1>3. RoomsRecorded'
  BY DEF SocketsInv, RoomsRecorded
<1>4. ASSUME NEW t \in Socket PROVE Entitled(t)'
  BY <1>1 DEF SocketsInv, Entitled, RoomsOf
<1>5. Keeps
  BY <1>1 DEF Keeps
<1> QED BY <1>2, <1>3, <1>4, <1>5 DEF SocketsInv

LEMMA ConnectStep ==
  ASSUME SocketsInv, NEW s \in Socket, Connect(s)
  PROVE  SocketsInv' /\ Keeps
<1>t. SocketsTyped /\ Entitled(s) /\ sock[s].pc = "new" /\ sock[s] \in Sock
  BY SockType DEF SocketsInv, Connect
<1>1. PICK k : k = [sock[s] EXCEPT !.pc = "auth", !.live = TRUE]
  OBVIOUS
<1>2. /\ k \in Sock /\ k.pc = "auth" /\ k.live /\ k.user = None /\ k.in = {} /\ k.found = {}
  BY <1>t, <1>1 DEF Sock, SockPC, Entitled
<1>3. sock' = [sock EXCEPT ![s] = k] /\ UNCHANGED <<member, open, rest, loaded, presence, hist>>
  BY <1>1 DEF Connect, roomTables
<1>4. sock'[s] = k /\ \A t \in Socket : t # s => sock'[t] = sock[t]
  BY <1>t, <1>3 DEF SocketsTyped
<1>5. Entitled(s)'
  BY <1>2, <1>4 DEF Entitled
<1>6. ASSUME NEW u \in User PROVE Presence(u)'
  <2>1. sock[s].user # u /\ sock'[s].user # u
    BY <1>t, <1>2, <1>4, ChatGatewayAssumption DEF Entitled
  <2>2. Presence(u)
    BY DEF SocketsInv
  <2> QED BY <1>3, <1>4, <2>1, <2>2 DEF Presence
<1>7. sock[s].user = None
  BY <1>t DEF Entitled
<1> QED BY <1>t, <1>2, <1>3, <1>5, <1>6, <1>7, OneSocket DEF SocketsInv, SocketsTyped, RoomsRecorded

LEMMA ReadRoomsStep ==
  ASSUME SocketsInv, NEW s \in Socket, ReadRooms(s)
  PROVE  SocketsInv' /\ Keeps
<1>t. /\ SocketsTyped /\ RoomsRecorded /\ Entitled(s) /\ sock[s].pc = "list" /\ sock[s] \in Sock
      /\ sock[s].user \in User
  BY SockType DEF SocketsInv, ReadRooms, Entitled
<1>1. PICK F \in SUBSET Room : F = RoomsOf(sock[s].user)
  BY DEF RoomsOf
<1>2. PICK k : k = [sock[s] EXCEPT !.pc = "join", !.found = F]
  OBVIOUS
<1>3. /\ k \in Sock /\ k.pc = "join" /\ k.live = sock[s].live /\ k.user = sock[s].user
      /\ k.in = sock[s].in /\ k.found = F
  BY <1>t, <1>2 DEF Sock, SockPC
<1>4. /\ sock' = [sock EXCEPT ![s] = k] /\ UNCHANGED <<member, open, rest, presence, hist>>
      /\ loaded' = [i \in Room |-> IF i \in F THEN open[i] ELSE loaded[i]]
  BY <1>1, <1>2 DEF ReadRooms, roomTables
<1>5. sock'[s] = k /\ \A t \in Socket : t # s => sock'[t] = sock[t]
  BY <1>t, <1>4 DEF SocketsTyped
<1>6. /\ loaded' \in [Room -> BOOLEAN \cup {None}]
      /\ \A i \in Room : loaded'[i] = TRUE => i \in hist.opened
  <2>1. \A i \in Room : loaded'[i] = IF i \in F THEN open[i] ELSE loaded[i]
    BY <1>4
  <2>2. \A i \in Room : open[i] \in BOOLEAN /\ loaded[i] \in BOOLEAN \cup {None}
    BY <1>t DEF SocketsTyped
  <2>3. loaded' \in [Room -> BOOLEAN \cup {None}]
    BY <1>4, <2>2
  <2>4. ASSUME NEW i \in Room, loaded'[i] = TRUE PROVE i \in hist.opened
    BY <1>t, <2>1, <2>4 DEF RoomsRecorded
  <2> QED BY <2>3, <2>4
<1>7. Entitled(s)'
  BY <1>t, <1>1, <1>3, <1>4, <1>5, ChatGatewayAssumption DEF Entitled, RoomsOf
<1>8. ASSUME NEW u \in User PROVE Presence(u)'
  <2>2. Presence(u)
    BY DEF SocketsInv
  <2> QED BY <1>t, <1>3, <1>4, <1>5, <2>2 DEF Presence
<1> QED BY <1>t, <1>3, <1>4, <1>6, <1>7, <1>8, OneSocket DEF SocketsTyped

LEMMA JoinRoomsStep ==
  ASSUME SocketsInv, NEW s \in Socket, JoinRooms(s)
  PROVE  SocketsInv' /\ Keeps
<1>t. /\ SocketsTyped /\ RoomsRecorded /\ Entitled(s) /\ sock[s].pc = "join" /\ sock[s] \in Sock
      /\ sock[s].user \in User
  BY SockType DEF SocketsInv, JoinRooms, Entitled
<1>1. PICK C \in SUBSET Room : C = sock[s].in \cup sock[s].found
  BY <1>t, SockType
<1>2. PICK k : k = [sock[s] EXCEPT !.pc = "done", !.in = C, !.found = {}]
  OBVIOUS
<1>3. /\ k \in Sock /\ k.pc = "done" /\ k.live = sock[s].live /\ k.user = sock[s].user
      /\ k.in = C /\ k.found = {}
  BY <1>t, <1>2 DEF Sock, SockPC
<1>4. /\ sock' = [sock EXCEPT ![s] = k] /\ UNCHANGED <<member, open, rest, loaded, hist>>
      /\ presence' = [presence EXCEPT ![sock[s].user] = "online"]
  BY <1>1, <1>2 DEF JoinRooms, roomTables
<1>5. sock'[s] = k /\ \A t \in Socket : t # s => sock'[t] = sock[t]
  BY <1>t, <1>4 DEF SocketsTyped
<1>6. presence' \in [User -> {"online", "offline"}]
  BY <1>t, <1>4 DEF SocketsTyped
<1>7. Entitled(s)'
  BY <1>t, <1>1, <1>3, <1>4, <1>5 DEF Entitled, RoomsOf
<1>8. ASSUME NEW u \in User PROVE Presence(u)'
  <2>1. Presence(u)
    BY DEF SocketsInv
  <2>2. presence'[u] = IF u = sock[s].user THEN "online" ELSE presence[u]
    BY <1>t, <1>4 DEF SocketsTyped
  <2> QED BY <1>t, <1>3, <1>4, <1>5, <2>1, <2>2 DEF Presence
<1> QED BY <1>t, <1>3, <1>4, <1>6, <1>7, <1>8, OneSocket DEF SocketsTyped, RoomsRecorded

\* Who is told to be offline when a socket goes away.
LEMMA DepartedType ==
  ASSUME SocketsTyped, NEW s \in Socket
  PROVE  /\ Departed(s) \in [User -> {"online", "offline"}]
         /\ \A u \in User : Departed(s)[u] = IF sock[s].user = u THEN "offline" ELSE presence[u]
BY DEF SocketsTyped, Departed

\* The transport of a socket closes.
LEMMA DisconnectStep ==
  ASSUME SocketsInv, NEW s \in Socket, Disconnect(s)
  PROVE  SocketsInv' /\ Keeps
<1>t. /\ SocketsTyped /\ RoomsRecorded /\ Entitled(s) /\ sock[s].live /\ sock[s] \in Sock
      /\ sock[s].user \in User \cup {None} /\ hist \in SockHistory
  BY SockType DEF SocketsInv, SocketsTyped, Disconnect
<1>1. PICK k : k = [sock[s] EXCEPT !.live = FALSE, !.in = {}]
  OBVIOUS
<1>2. /\ k \in Sock /\ k.pc = sock[s].pc /\ k.live = FALSE /\ k.user = sock[s].user
      /\ k.in = {} /\ k.found = sock[s].found
  BY <1>t, <1>1 DEF Sock
<1>3. PICK B \in SUBSET User :
        B = IF sock[s].pc # "done" THEN hist.blurred \cup ({sock[s].user} \ {None}) ELSE hist.blurred
  <2>1. hist.blurred \in SUBSET User
    BY <1>t DEF SockHistory
  <2>2. hist.blurred \cup ({sock[s].user} \ {None}) \in SUBSET User
    BY <1>t, <2>1
  <2> QED BY <2>1, <2>2
<1>4. /\ sock' = [sock EXCEPT ![s] = k] /\ UNCHANGED <<member, open, rest, loaded>>
      /\ presence' = Departed(s) /\ hist' = [hist EXCEPT !.blurred = B]
  BY <1>1, <1>3 DEF Disconnect, roomTables
<1>5. sock'[s] = k /\ \A t \in Socket : t # s => sock'[t] = sock[t]
  BY <1>t, <1>4 DEF SocketsTyped
<1>6. /\ hist' \in SockHistory /\ hist'.blurred = B /\ hist'.everIn = hist.everIn
      /\ hist'.opened = hist.opened /\ hist'.rights = hist.rights
  BY <1>t, <1>4 DEF SockHistory
<1>7. SocketsTyped'
  BY <1>t, <1>2, <1>4, <1>6, DepartedType DEF SocketsTyped
<1>8. RoomsRecorded'
  BY <1>t, <1>4, <1>6 DEF RoomsRecorded
<1>9. ASSUME NEW t \in Socket PROVE Entitled(t)'
  <2>1. Entitled(t)
    BY DEF SocketsInv
  <2> QED BY <1>2, <1>4, <1>5, <1>6, <2>1 DEF Entitled, RoomsOf
<1>10. ASSUME NEW u \in User PROVE Presence(u)'
  <2>1. Presence(u)
    BY DEF SocketsInv
  <2>2. presence'[u] = IF sock[s].user = u THEN "offline" ELSE presence[u]
    BY <1>t, <1>4, DepartedType
  <2> SUFFICES ASSUME u \notin B PROVE Presence(u)'
    BY <1>6 DEF Presence
  <2>3. u \notin hist.blurred /\ (sock[s].user = u => sock[s].pc = "done")
    BY <1>3, ChatGatewayAssumption
  <2>4. \A t \in Socket : sock'[t].user = sock[t].user /\ sock'[t].pc = sock[t].pc
    BY <1>2, <1>5
  <2>5. \A t \in Socket : sock'[t].live <=> sock[t].live /\ t # s
    BY <1>2, <1>5
  <2>6. \A t \in Socket : sock'[t].user = u /\ sock'[t].pc \in {"list", "join"} => sock'[t].live
    BY <2>1, <2>3, <2>4, <2>5 DEF Presence
  <2>7. CASE sock[s].user = u
    BY <1>t, <2>1, <2>2, <2>3, <2>4, <2>5, <2>6, <2>7 DEF Presence
  <2>8. CASE sock[s].user # u
    BY <1>t, <2>1, <2>2, <2>3, <2>4, <2>5, <2>6, <2>8 DEF Presence
  <2> QED BY <2>7, <2>8
<1>11. Keeps
  BY <1>2, <1>5, <1>6 DEF Keeps
<1> QED BY <1>7, <1>8, <1>9, <1>10, <1>11 DEF SocketsInv

LEMMA RejectStep ==
  ASSUME SocketsInv, NEW s \in Socket, Reject(s)
  PROVE  SocketsInv' /\ Keeps
<1>t. /\ SocketsTyped /\ RoomsRecorded /\ Entitled(s) /\ sock[s] \in Sock
      /\ sock[s].pc \in {"auth", "list", "join"}
  BY SockType DEF SocketsInv, Reject
<1>1. PICK k : k = [sock[s] EXCEPT !.pc = "done", !.live = FALSE, !.in = {}, !.found = {}]
  OBVIOUS
<1>2. /\ k \in Sock /\ k.pc = "done" /\ k.live = FALSE /\ k.user = sock[s].user
      /\ k.in = {} /\ k.found = {}
  BY <1>t, <1>1 DEF Sock, SockPC
<1>3. /\ sock' = [sock EXCEPT ![s] = k] /\ UNCHANGED <<member, open, rest, loaded, hist>>
      /\ presence' = IF sock[s].live THEN Departed(s) ELSE presence
  BY <1>1 DEF Reject, roomTables
<1>4. sock'[s] = k /\ \A t \in Socket : t # s => sock'[t] = sock[t]
  BY <1>t, <1>3 DEF SocketsTyped
<1>5. presence' \in [User -> {"online", "offline"}]
  BY <1>t, <1>3, DepartedType DEF SocketsTyped
<1>6. Entitled(s)'
  BY <1>t, <1>2, <1>3, <1>4 DEF Entitled, RoomsOf
<1>7. ASSUME NEW u \in User PROVE Presence(u)'
  <2>1. Presence(u)
    BY DEF SocketsInv
  <2>2. presence'[u] = IF sock[s].live /\ sock[s].user = u THEN "offline" ELSE presence[u]
    BY <1>t, <1>3, DepartedType
  <2> SUFFICES ASSUME u \notin hist.blurred PROVE Presence(u)'
    BY <1>3 DEF Presence
  <2>3. \A t \in Socket : sock'[t].user = sock[t].user
    BY <1>2, <1>4
  <2>4. \A t \in Socket : sock'[t].live <=> sock[t].live /\ t # s
    BY <1>2, <1>4
  <2>5. \A t \in Socket : t # s => sock'[t].pc = sock[t].pc
    BY <1>4
  <2>6. sock[s].user = u => sock[s].live
    BY <1>t, <2>1, ChatGatewayAssumption DEF Entitled, Presence
  <2>7. \A t \in Socket : sock'[t].user = u /\ sock'[t].pc \in {"list", "join"} => sock'[t].live
    BY <1>2, <1>4, <2>1 DEF Presence
  <2>8. CASE sock[s].user = u
    BY <2>1, <2>2, <2>3, <2>4, <2>5, <2>6, <2>7, <2>8, <1>3 DEF Presence
  <2>9. CASE sock[s].user # u
    BY <1>t, <2>1, <2>2, <2>3, <2>4, <2>5, <2>7, <2>9, <1>3 DEF Presence
  <2> QED BY <2>8, <2>9
<1> QED BY <1>t, <1>2, <1>3, <1>5, <1>6, <1>7, OneSocket DEF SocketsTyped, RoomsRecorded

\* A socket gets its user, with the rights the user has then.
LEMMA AuthenticateStep ==
  ASSUME SocketsInv, NEW s \in Socket, NEW u \in User, Authenticate(s, u)
  PROVE  SocketsInv' /\ Keeps
<1>t. /\ SocketsTyped /\ RoomsRecorded /\ Entitled(s) /\ sock[s] \in Sock /\ sock[s].pc = "auth"
      /\ hist \in SockHistory
  BY SockType DEF SocketsInv, SocketsTyped, Authenticate
<1>1. PICK k : k = [sock[s] EXCEPT !.pc = "list", !.user = u]
  OBVIOUS
<1>2. /\ k \in Sock /\ k.pc = "list" /\ k.live = sock[s].live /\ k.user = u
      /\ k.in = {} /\ k.found = {}
  BY <1>t, <1>1 DEF Sock, SockPC, Entitled
<1>3. PICK B \in SUBSET User : B = IF Blurs(s, u) THEN hist.blurred \cup {u} ELSE hist.blurred
  <2>1. hist.blurred \in SUBSET User
    BY <1>t DEF SockHistory
  <2>2. hist.blurred \cup {u} \in SUBSET User
    BY <2>1
  <2> QED BY <2>1, <2>2
<1>4. PICK R \in [Socket -> SUBSET Room] : R = [hist.rights EXCEPT ![s] = RoomsOf(u)]
  BY <1>t DEF SockHistory, RoomsOf
<1>5. /\ sock' = [sock EXCEPT ![s] = k] /\ UNCHANGED <<member, open, rest, loaded, presence>>
      /\ hist' = [hist EXCEPT !.rights = R, !.blurred = B]
  BY <1>1, <1>3, <1>4 DEF Authenticate, roomTables
<1>6. sock'[s] = k /\ \A t \in Socket : t # s => sock'[t] = sock[t]
  BY <1>t, <1>5 DEF SocketsTyped
<1>7. /\ hist' \in SockHistory /\ hist'.blurred = B /\ hist'.everIn = hist.everIn
      /\ hist'.opened = hist.opened /\ hist'.rights = R
  BY <1>t, <1>5 DEF SockHistory
<1>8. R[s] = RoomsOf(u) /\ \A t \in Socket : t # s => R[t] = hist.rights[t]
  BY <1>t, <1>4 DEF SockHistory
<1>9. SocketsTyped'
  BY <1>t, <1>2, <1>5, <1>7 DEF SocketsTyped
<1>10. RoomsRecorded'
  BY <1>t, <1>5, <1>7 DEF RoomsRecorded
<1>11. ASSUME NEW t \in Socket PROVE Entitled(t)'
  <2>1. CASE t = s
    BY <1>2, <1>5, <1>6, <1>7, <1>8, <2>1 DEF Entitled, RoomsOf
  <2>2. CASE t # s
    <3>1. Entitled(t)
      BY DEF SocketsInv
    <3> QED BY <1>5, <1>6, <1>7, <1>8, <2>2, <3>1 DEF Entitled, RoomsOf
  <2> QED BY <2>1, <2>2
<1>12. ASSUME NEW v \in User PROVE Presence(v)'
  <2>1. Presence(v)
    BY DEF SocketsInv
  <2> SUFFICES ASSUME v \notin B PROVE Presence(v)'
    BY <1>7 DEF Presence
  <2>2. v \notin hist.blurred /\ (v = u => ~Blurs(s, u))
    BY <1>3
  <2>3. CASE v = u
    <3>1. sock[s].live /\ \A t \in Socket : t # s => ~(sock[t].live /\ sock[t].user = u)
      BY <2>2, <2>3 DEF Blurs
    <3>2. ~(sock[s].pc = "done") /\ sock'[s].live /\ sock'[s].pc = "list"
      BY <1>t, <1>2, <1>6, <3>1
    <3>3. presence'[v] # "online"
      BY <1>5, <2>1, <2>2, <2>3, <3>1, <3>2 DEF Presence
    <3> QED BY <1>6, <2>1, <2>2, <2>3, <3>1, <3>2, <3>3 DEF Presence
  <2>4. CASE v # u
    <3>1. sock[s].user # v /\ sock'[s].user # v
      BY <1>t, <1>2, <1>6, <2>4, ChatGatewayAssumption DEF Entitled
    <3> QED BY <1>5, <1>6, <2>1, <2>2, <3>1 DEF Presence
  <2> QED BY <2>3, <2>4
<1>13. Keeps
  BY <1>t, <1>6, <1>7 DEF Keeps, Entitled
<1> QED BY <1>9, <1>10, <1>11, <1>12, <1>13 DEF SocketsInv

-----------------------------------------------------------------------------
(* REST requests on the rooms *)

\* Nobody's presence depends on the rooms.
LEMMA PresenceKept ==
  ASSUME SocketsInv, UNCHANGED <<sock, presence>>, hist'.blurred = hist.blurred, NEW u \in User
  PROVE  Presence(u)'
BY DEF SocketsInv, Presence

LEMMA SpendType ==
  ASSUME SocketsTyped, Spend
  PROVE  rest' \in 0 .. MaxRest
BY ChatGatewayAssumption DEF SocketsTyped, Spend

\* Whoever becomes a member has the right to the channel from now on.
LEMMA AdmitStep ==
  ASSUME SocketsInv, NEW i \in Room, NEW u \in User, Admit(i, u)
  PROVE  SocketsInv' /\ Keeps
<1>t. SocketsTyped /\ RoomsRecorded /\ hist \in SockHistory
  BY DEF SocketsInv, SocketsTyped
<1>1. PICK M \in [Room -> SUBSET User] : M = [member EXCEPT ![i] = @ \cup {u}]
  BY <1>t DEF SocketsTyped
<1>2. PICK E \in [Room -> SUBSET User] : E = [hist.everIn EXCEPT ![i] = @ \cup {u}]
  BY <1>t DEF SockHistory
<1>3. PICK R \in [Socket -> SUBSET Room] :
        R = [s \in Socket |-> IF sock[s].user = u THEN hist.rights[s] \cup {i} ELSE hist.rights[s]]
  BY <1>t DEF SockHistory
<1>4. /\ member' = M /\ hist' = [hist EXCEPT !.everIn = E, !.rights = R]
      /\ UNCHANGED <<open, loaded, sock, presence>> /\ Spend
  BY <1>1, <1>2, <1>3 DEF Admit
<1>5. /\ hist' \in SockHistory /\ hist'.blurred = hist.blurred /\ hist'.everIn = E
      /\ hist'.opened = hist.opened /\ hist'.rights = R
  BY <1>t, <1>4 DEF SockHistory
<1>6. \A j \in Room : /\ M[j] = IF j = i THEN member[j] \cup {u} ELSE member[j]
                      /\ E[j] = IF j = i THEN hist.everIn[j] \cup {u} ELSE hist.everIn[j]
  BY <1>t, <1>1, <1>2 DEF SocketsTyped, SockHistory
<1>7. SocketsTyped'
  BY <1>t, <1>4, <1>5, SpendType DEF SocketsTyped
<1>8. RoomsRecorded'
  BY <1>t, <1>4, <1>5, <1>6 DEF RoomsRecorded
<1>9. ASSUME NEW s \in Socket PROVE Entitled(s)'
  <2>1. Entitled(s)
    BY DEF SocketsInv
  <2>2. RoomsOf(sock[s].user)' \subseteq RoomsOf(sock[s].user) \cup (IF sock[s].user = u THEN {i} ELSE {})
    BY <1>4, <1>6 DEF RoomsOf
  <2>3. R[s] = hist.rights[s] \cup (IF sock[s].user = u THEN {i} ELSE {})
    BY <1>3
  <2> QED BY <1>4, <1>5, <2>1, <2>2, <2>3 DEF Entitled
<1>10. \A v \in User : Presence(v)'
  BY <1>4, <1>5, PresenceKept
<1>11. Keeps
  BY <1>4, <1>5, <1>6 DEF Keeps
<1> QED BY <1>7, <1>8, <1>9, <1>10, <1>11 DEF SocketsInv

LEMMA ExpelStep ==
  ASSUME SocketsInv, NEW i \in Room, NEW u \in User, Expel(i, u)
  PROVE  SocketsInv' /\ Keeps
<1>t. SocketsTyped /\ RoomsRecorded
  BY DEF SocketsInv
<1>1. PICK M \in [Room -> SUBSET User] : M = [member EXCEPT ![i] = @ \ {u}]
  BY <1>t DEF SocketsTyped
<1>2. /\ member' = M /\ UNCHANGED <<open, loaded, sock, presence, hist>> /\ Spend
  BY <1>1 DEF Expel
<1>3. \A j \in Room : M[j] \subseteq member[j]
  BY <1>t, <1>1 DEF SocketsTyped
<1>4. SocketsTyped'
  BY <1>t, <1>2, SpendType DEF SocketsTyped
<1>5. RoomsRecorded'
  BY <1>t, <1>2, <1>3 DEF RoomsRecorded
<1>6. ASSUME NEW s \in Socket PROVE Entitled(s)'
  <2>1. Entitled(s)
    BY DEF SocketsInv
  <2>2. RoomsOf(sock[s].user)' \subseteq RoomsOf(sock[s].user)
    BY <1>2, <1>3 DEF RoomsOf
  <2> QED BY <1>2, <2>1, <2>2 DEF Entitled
<1>7. \A v \in User : Presence(v)'
  BY <1>2, PresenceKept
<1>8. Keeps
  BY <1>2 DEF Keeps
<1> QED BY <1>4, <1>5, <1>6, <1>7, <1>8 DEF SocketsInv

LEMMA SetOpenStep ==
  ASSUME SocketsInv, NEW i \in Room, SetOpen(i)
  PROVE  SocketsInv' /\ Keeps
<1>t. SocketsTyped /\ RoomsRecorded /\ hist \in SockHistory
  BY DEF SocketsInv, SocketsTyped
<1>1. PICK O \in SUBSET Room : O = hist.opened \cup {i}
  BY <1>t DEF SockHistory
<1>2. /\ open' = [open EXCEPT ![i] = ~@] /\ hist' = [hist EXCEPT !.opened = O]
      /\ UNCHANGED <<member, loaded, sock, presence>> /\ Spend
  BY <1>1 DEF SetOpen
<1>3. /\ hist' \in SockHistory /\ hist'.blurred = hist.blurred /\ hist'.everIn = hist.everIn
      /\ hist'.opened = O /\ hist'.rights = hist.rights
  BY <1>t, <1>2 DEF SockHistory
<1>4. open' \in [Room -> BOOLEAN] /\ \A j \in Room : j # i => open'[j] = open[j]
  BY <1>t, <1>2 DEF SocketsTyped
<1>5. SocketsTyped'
  BY <1>t, <1>2, <1>3, <1>4, SpendType DEF SocketsTyped
<1>6. RoomsRecorded'
  BY <1>t, <1>1, <1>2, <1>3, <1>4 DEF RoomsRecorded
<1>7. ASSUME NEW s \in Socket PROVE Entitled(s)'
  <2>1. Entitled(s)
    BY DEF SocketsInv
  <2> QED BY <1>1, <1>2, <1>3, <2>1 DEF Entitled, RoomsOf
<1>8. \A v \in User : Presence(v)'
  BY <1>2, <1>3, PresenceKept
<1>9. Keeps
  BY <1>1, <1>2, <1>3 DEF Keeps
<1> QED BY <1>5, <1>6, <1>7, <1>8, <1>9 DEF SocketsInv

\* Every step of the sockets and the rooms.
LEMMA SocketsStep ==
  ASSUME SocketsInv, SocketsNext
  PROVE  SocketsInv' /\ Keeps
BY ConnectStep, ReadRoomsStep, JoinRoomsStep, DisconnectStep, RejectStep, AuthenticateStep,
   SetOpenStep, AdmitStep, ExpelStep DEF SocketsNext

-----------------------------------------------------------------------------
(* Handlers *)

\* Steps that leave the sockets alone, or only spend a REST step.
LEMMA SocketsAlone ==
  ASSUME SocketsInv, UNCHANGED <<member, open, loaded, sock, presence, hist>>,
         rest' \in 0 .. MaxRest
  PROVE  SocketsInv' /\ Keeps
BY DEF SocketsInv, SocketsTyped, RoomsRecorded, Entitled, RoomsOf, Presence, Keeps

\* The fields of a handler.
LEMMA JobType ==
  ASSUME TableTyped, NEW h \in Job
  PROVE  /\ job[h] \in JobRow
         /\ job[h].parent \in Message \cup {None}
BY DEF TableTyped, JobRow

LEMMA RowType ==
  ASSUME TableTyped, NEW m \in Message, Log!Posted(m)
  PROVE  message[m] \in Log!MessageRow
BY DEF TableTyped, Log!Posted

\* Messages stay posted, and the identity map loses nothing but at a restart.
Grows ==
  \A m \in Message :
    /\ Log!Posted(m) => Log!Posted(m)'
    /\ known[m] # None => known'[m] # None

\* A handler that a step leaves alone.
LEMMA HandlerKept ==
  ASSUME Keeps, Grows, NEW h \in Job, Handler(h), job'[h] = job[h], ChatGatewayAssumption
  PROVE  Handler(h)'
<1>1. job[h].pc \notin Still => sock'[job[h].sock].user = job[h].user
  BY DEF Handler, Keeps
<1>2. job[h].pc \in {"parent", "create"} =>
        job[h].user \in hist'.everIn[job[h].room] \/ job[h].room \in hist'.opened
  BY DEF Handler, Keeps, InRoom
<1>3. job[h].pc \in {"write", "reload", "emit"} => Log!Posted(job[h].msg)'
  BY DEF Handler, Grows
<1>4. job[h].pc = "write" => known'[job[h].msg] # None
  BY DEF Handler, Grows
<1> QED BY <1>1, <1>2, <1>3, <1>4 DEF Handler

\* A step that leaves message m alone, and is not towards a broadcast of it.
LEMMA BroadcastKept ==
  ASSUME TableTyped, NEW m \in Message, Broadcast(m), NEW h \in Job, NEW q \in JobRow,
         job' = [job EXCEPT ![h] = q],
         message'[m] = message[m], shown'[m] = shown[m], mixed \subseteq mixed',
         \/ known'[m] = known[m]
         \/ m \notin mixed' /\ Log!Posted(m) => known'[m].content = message[m].content,
         q.pc \notin {"reload", "emit"} \/ q.msg # m,
         h \in Owed(m) => m \in mixed'
  PROVE  Broadcast(m)'
<1> SUFFICES ASSUME Log!Posted(m), m \notin mixed' PROVE Broadcast(m)'
  BY DEF Broadcast, Log!Posted
<1>1. \A g \in Job : g # h => job'[g] = job[g]
  BY DEF TableTyped
<1>2. job'[h] = q
  BY DEF TableTyped
<1>3. Owed(m)' = Owed(m)
  BY <1>1, <1>2 DEF Owed
<1>4. \A g \in Owed(m) : job'[g] = job[g]
  BY <1>1
<1> QED BY <1>3, <1>4 DEF Broadcast, At

\* A step of one handler keeps the invariant if it keeps its parts.
LEMMA HandlerStep ==
  ASSUME IInv, SocketsInv', Keeps, Grows, NEW h \in Job, NEW q \in JobRow,
         job' = [job EXCEPT ![h] = q],
         message' \in [Message -> Log!MessageRow \cup {Unused}],
         known' \in [Message -> Copy \cup {None}],
         shown' \in [Message -> Content \cup {None}],
         mixed' \subseteq Message,
         Handler(h)', \A m \in Message : Broadcast(m)'
  PROVE  IInv'
<1>1. TableTyped'
  BY DEF IInv, TableInv, TableTyped
<1>2. ASSUME NEW g \in Job PROVE Handler(g)'
  <2>1. CASE g = h
    BY <2>1
  <2>2. CASE g # h
    <3>1. job'[g] = job[g]
      BY <2>2 DEF IInv, TableInv, TableTyped
    <3> QED BY <3>1, HandlerKept, ChatGatewayAssumption DEF IInv, TableInv
  <2> QED BY <2>1, <2>2
<1> QED BY <1>1, <1>2 DEF IInv, TableInv

\* The table is left alone, and the identity map gains at most copies that are
\* right of what is not mixed.
LooksUp ==
  /\ UNCHANGED <<message, shown, mixed>>
  /\ known' \in [Message -> Copy \cup {None}]
  /\ \A n \in Message :
       /\ known[n] # None => known'[n] # None
       /\ \/ known'[n] = known[n]
          \/ n \notin mixed /\ Log!Posted(n) => known'[n].content = message[n].content

\* What is found of a message is a copy, and of one that is not mixed its
\* content.
LEMMA FoundType ==
  ASSUME IInv, NEW m \in Message, Log!Posted(m), NEW e \in Found(m)
  PROVE  /\ e \in Copy /\ e # None
         /\ m \notin mixed => e.content = message[m].content
<1>t. TableTyped /\ Broadcast(m) /\ message[m] \in Log!MessageRow
  BY RowType DEF IInv, TableInv
<1>1. CASE e = [content |-> message[m].content, deleted |-> message[m].deleted]
  <2>1. message[m].content \in Content /\ message[m].deleted \in BOOLEAN
    BY <1>t DEF Log!MessageRow
  <2>2. e \in Copy
    BY <1>1, <2>1 DEF Copy
  <2> QED BY <1>1, <2>2, ChatGatewayAssumption DEF Copy
<1>2. CASE e = known[m] /\ known[m] # None
  BY <1>t, <1>2 DEF TableTyped, Broadcast
<1> QED BY <1>1, <1>2 DEF Found

\* A lookup by primary key, or none.
LEMMA LookedType ==
  ASSUME IInv, NEW p, NEW k \in Looked(p) \cup {known}
  PROVE  /\ k \in [Message -> Copy \cup {None}]
         /\ \A n \in Message :
              /\ known[n] # None => k[n] # None
              /\ \/ k[n] = known[n]
                 \/ n \notin mixed /\ Log!Posted(n) => k[n].content = message[n].content
<1>t. TableTyped
  BY DEF IInv, TableInv
<1>1. CASE k = known
  BY <1>t, <1>1 DEF TableTyped
<1>2. CASE k # known
  <2>1. p \in Message /\ Log!Posted(p)
    BY <1>2 DEF Looked
  <2>2. PICK e \in Found(p) : k = [known EXCEPT ![p] = e]
    BY <1>2, <2>1 DEF Looked
  <2>3. e \in Copy /\ e # None /\ (p \notin mixed => e.content = message[p].content)
    BY <2>1, FoundType
  <2>4. k[p] = e /\ \A n \in Message : n # p => k[n] = known[n]
    BY <1>t, <2>1, <2>2 DEF TableTyped
  <2>5. k \in [Message -> Copy \cup {None}]
    BY <1>t, <2>2, <2>3 DEF TableTyped
  <2> QED BY <2>3, <2>4, <2>5
<1> QED BY <1>1, <1>2

\* A step of a handler that leaves the table alone, and owes nothing before or
\* after it.
LEMMA LookStep ==
  ASSUME IInv, SocketsInv', Keeps, NEW h \in Job, NEW q \in JobRow,
         job' = [job EXCEPT ![h] = q], LooksUp,
         job[h].pc \notin {"reload", "emit"}, q.pc \notin {"reload", "emit"},
         Handler(h)'
  PROVE  IInv'
<1>t. TableTyped
  BY DEF IInv, TableInv
<1>1. Grows
  BY DEF Grows, LooksUp, Log!Posted
<1>2. ASSUME NEW m \in Message PROVE Broadcast(m)'
  <2>1. h \notin Owed(m)
    BY DEF Owed
  <2>2. Broadcast(m)
    BY DEF IInv, TableInv
  <2>3. \/ known'[m] = known[m]
        \/ m \notin mixed' /\ Log!Posted(m) => known'[m].content = message[m].content
    BY DEF LooksUp
  <2> QED BY <1>t, <2>1, <2>2, <2>3, BroadcastKept DEF LooksUp
<1>3. /\ message' \in [Message -> Log!MessageRow \cup {Unused}]
      /\ known' \in [Message -> Copy \cup {None}]
      /\ shown' \in [Message -> Content \cup {None}]
      /\ mixed' \subseteq Message
  BY <1>t DEF LooksUp, TableTyped
<1> QED BY <1>1, <1>2, <1>3, HandlerStep

LEMMA NoLookup == ASSUME IInv, UNCHANGED table PROVE LooksUp
BY DEF IInv, TableInv, TableTyped, LooksUp, table

LEMMA QuietStep ==
  ASSUME IInv, SocketsInv', Keeps, NEW h \in Job, NEW q \in JobRow,
         job' = [job EXCEPT ![h] = q], UNCHANGED table,
         job[h].pc \notin {"reload", "emit"}, q.pc \notin {"reload", "emit"},
         Handler(h)'
  PROVE  IInv'
BY LookStep, NoLookup

\* A handler that moves on keeps its fields, unless it has ended.
LEMMA MovedRow ==
  ASSUME NEW r \in JobRow, NEW pc \in PC
  PROVE  /\ Moved(r, pc) \in JobRow /\ Moved(r, pc).pc = pc
         /\ pc \notin {"ok", "failed"} =>
              /\ Moved(r, pc).kind = r.kind /\ Moved(r, pc).sock = r.sock
              /\ Moved(r, pc).user = r.user /\ Moved(r, pc).room = r.room
              /\ Moved(r, pc).text = r.text /\ Moved(r, pc).msg = r.msg
<1>1. CASE pc \in {"ok", "failed"}
  <2>1. Moved(r, pc) = [Idle EXCEPT !.pc = pc]
    BY <1>1 DEF Moved
  <2>2. [Idle EXCEPT !.pc = pc] \in JobRow /\ [Idle EXCEPT !.pc = pc].pc = pc
    BY DEF Idle, JobRow
  <2> QED BY <1>1, <2>1, <2>2
<1>2. CASE pc \notin {"ok", "failed"}
  <2>1. Moved(r, pc) = [r EXCEPT !.pc = pc]
    BY <1>2 DEF Moved
  <2> QED BY <2>1 DEF JobRow
<1> QED BY <1>1, <1>2

\* An event of an authenticated socket.
LEMMA StartInStep ==
  ASSUME IInv, NEW h \in Job, NEW s \in Socket, NEW kind \in {"join", "new", "reply"}, NEW i \in Room,
         NEW p \in Message \cup {None}, NEW t \in Content \cup {None}, kind # "join" => t \in Content,
         StartIn(h, s, kind, i, p, t)
  PROVE  IInv'
<1>t. SocketsTyped /\ TableTyped
  BY DEF IInv, SocketsInv, TableInv
<1>1. PICK u \in User : u = sock[s].user
  BY <1>t, SockType DEF StartIn
<1>2. PICK q : q = [Idle EXCEPT !.kind = kind, !.pc = "room", !.sock = s, !.user = u,
                      !.room = i, !.parent = p, !.text = t]
  OBVIOUS
<1>3. q \in JobRow
  BY <1>2 DEF JobRow, Idle, PC, Kind
<1>4. /\ q.pc = "room" /\ q.kind = kind /\ q.sock = s /\ q.user = u /\ q.room = i /\ q.text = t
  BY <1>2 DEF Idle
<1>5. job' = [job EXCEPT ![h] = q] /\ UNCHANGED sockets /\ UNCHANGED table /\ job[h].pc = "idle"
  BY <1>1, <1>2 DEF StartIn, At
<1>6. job'[h] = q
  BY <1>t, <1>5 DEF TableTyped
<1>7. SocketsInv' /\ Keeps
  BY <1>t, <1>5, SocketsAlone DEF IInv, sockets, SocketsTyped
<1>8. sock'[s].user = u
  BY <1>1, <1>5 DEF sockets
<1>9. Handler(h)'
  BY <1>4, <1>6, <1>8 DEF Handler, InRoom
<1> QED BY <1>3, <1>4, <1>5, <1>7, <1>9, QuietStep

LEMMA StartEditStep ==
  ASSUME IInv, NEW h \in Job, NEW s \in Socket, NEW m \in Message, NEW t \in Content,
         StartEdit(h, s, m, t)
  PROVE  IInv'
<1>t. SocketsTyped /\ TableTyped
  BY DEF IInv, SocketsInv, TableInv
<1>1. PICK u \in User : u = sock[s].user
  BY <1>t, SockType DEF StartEdit
<1>2. PICK q : q = [Idle EXCEPT !.kind = "edit", !.pc = "can", !.sock = s, !.user = u,
                      !.msg = m, !.text = t]
  OBVIOUS
<1>3. q \in JobRow
  BY <1>2 DEF JobRow, Idle, PC, Kind
<1>4. /\ q.pc = "can" /\ q.kind = "edit" /\ q.sock = s /\ q.user = u /\ q.msg = m /\ q.text = t
  BY <1>2 DEF Idle
<1>5. job' = [job EXCEPT ![h] = q] /\ UNCHANGED sockets /\ UNCHANGED table /\ job[h].pc = "idle"
  BY <1>1, <1>2 DEF StartEdit, At
<1>6. job'[h] = q
  BY <1>t, <1>5 DEF TableTyped
<1>7. SocketsInv' /\ Keeps
  BY <1>t, <1>5, SocketsAlone DEF IInv, sockets, SocketsTyped
<1>8. sock'[s].user = u
  BY <1>1, <1>5 DEF sockets
<1>9. Handler(h)'
  BY <1>4, <1>6, <1>8 DEF Handler, InRoom
<1> QED BY <1>3, <1>4, <1>5, <1>7, <1>9, QuietStep

LEMMA StartReactStep ==
  ASSUME IInv, NEW h \in Job, NEW s \in Socket, NEW m \in Message, StartReact(h, s, m)
  PROVE  IInv'
<1>t. SocketsTyped /\ TableTyped
  BY DEF IInv, SocketsInv, TableInv
<1>1. PICK u \in User : u = sock[s].user
  BY <1>t, SockType DEF StartReact
<1>2. PICK q : q = [Idle EXCEPT !.kind = "react", !.pc = "react", !.sock = s, !.user = u, !.msg = m]
  OBVIOUS
<1>3. q \in JobRow
  BY <1>2 DEF JobRow, Idle, PC, Kind
<1>4. /\ q.pc = "react" /\ q.kind = "react" /\ q.sock = s /\ q.user = u /\ q.msg = m
  BY <1>2 DEF Idle
<1>5. job' = [job EXCEPT ![h] = q] /\ UNCHANGED sockets /\ UNCHANGED table /\ job[h].pc = "idle"
  BY <1>1, <1>2 DEF StartReact, At
<1>6. job'[h] = q
  BY <1>t, <1>5 DEF TableTyped
<1>7. SocketsInv' /\ Keeps
  BY <1>t, <1>5, SocketsAlone DEF IInv, sockets, SocketsTyped
<1>8. sock'[s].user = u
  BY <1>1, <1>5 DEF sockets
<1>9. Handler(h)'
  BY <1>4, <1>6, <1>8 DEF Handler, InRoom
<1> QED BY <1>3, <1>4, <1>5, <1>7, <1>9, QuietStep

\* A handler that moves on, with the rooms and the sockets kept.
LEMMA GoLookStep ==
  ASSUME IInv, SocketsInv', Keeps, NEW h \in Job, NEW pc \in PC, Go(h, pc), LooksUp,
         job[h].pc \notin {"idle", "ok", "failed", "reload", "emit"},
         \/ pc \in {"ok", "failed"}
         \/ pc \in {"member", "seen"} /\ job[h].pc \in InRoom
         \/ /\ pc \in {"parent", "create"} /\ job[h].pc \in InRoom /\ job[h].kind # "join"
            /\ \/ job[h].user \in hist'.everIn[job[h].room]
               \/ job[h].room \in hist'.opened
  PROVE  IInv'
<1>t. TableTyped /\ Handler(h) /\ job[h] \in JobRow
  BY JobType DEF IInv, TableInv
<1>1. PICK q : q = Moved(job[h], pc)
  OBVIOUS
<1>2. q \in JobRow /\ q.pc = pc
  BY <1>t, <1>1, MovedRow
<1>3. job' = [job EXCEPT ![h] = q] /\ job'[h] = q
  BY <1>t, <1>1 DEF Go, TableTyped
<1>4. pc \notin {"idle", "can", "load", "write", "reload", "emit"}
  OBVIOUS
<1>5. CASE pc \in {"ok", "failed"}
  <2>1. Handler(h)'
    BY <1>2, <1>3, <1>5 DEF Handler, InRoom, Still
  <2> QED BY <1>2, <1>3, <1>4, <2>1, LookStep
<1>6. CASE pc \notin {"ok", "failed"}
  <2>1. /\ q.kind = job[h].kind /\ q.sock = job[h].sock /\ q.user = job[h].user
        /\ q.room = job[h].room /\ q.text = job[h].text /\ q.msg = job[h].msg
    BY <1>t, <1>1, <1>6, MovedRow
  <2>2. sock'[q.sock].user = q.user /\ q.sock \in Socket /\ q.user \in User
    BY <1>t, <2>1, ChatGatewayAssumption DEF Handler, Keeps, Still
  <2>3. pc \in InRoom => job[h].pc \in InRoom
    BY <1>6 DEF InRoom
  <2>4. Handler(h)'
    BY <1>t, <1>2, <1>3, <1>4, <1>6, <2>1, <2>2, <2>3 DEF Handler
  <2> QED BY <1>2, <1>3, <1>4, <2>4, LookStep
<1> QED BY <1>5, <1>6

LEMMA GoStep ==
  ASSUME IInv, SocketsInv', Keeps, NEW h \in Job, NEW pc \in PC, Go(h, pc), UNCHANGED table,
         job[h].pc \notin {"idle", "ok", "failed", "reload", "emit"},
         \/ pc \in {"ok", "failed"}
         \/ pc \in {"member", "seen"} /\ job[h].pc \in InRoom
         \/ /\ pc \in {"parent", "create"} /\ job[h].pc \in InRoom /\ job[h].kind # "join"
            /\ \/ job[h].user \in hist'.everIn[job[h].room]
               \/ job[h].room \in hist'.opened
  PROVE  IInv'
BY GoLookStep, NoLookup

\* The identity map takes a room for open only if it has been.
LEMMA FindRoomStep ==
  ASSUME IInv, NEW h \in Job, FindRoom(h)
  PROVE  IInv'
<1>t. SocketsInv /\ SocketsTyped /\ RoomsRecorded
  BY DEF IInv, SocketsInv
<1>1. PICK i : i = job[h].room
  OBVIOUS
<1>2. /\ loaded' = [loaded EXCEPT ![i] = IF @ = None THEN open[i] ELSE @] /\ Go(h, "member")
      /\ UNCHANGED <<member, open, rest, sock, presence, hist>> /\ UNCHANGED table /\ job[h].pc = "room"
  BY <1>1 DEF FindRoom, roomTables, At
<1>3. \A j \in Room : loaded'[j] \in {loaded[j], open[j]}
  BY <1>t, <1>2 DEF SocketsTyped
<1>4. SocketsTyped'
  <2>1. \A j \in Room : open[j] \in BOOLEAN
    BY <1>t DEF SocketsTyped
  <2>2. loaded' \in [Room -> BOOLEAN \cup {None}]
    BY <1>t, <1>2, <2>1 DEF SocketsTyped
  <2> QED BY <1>t, <1>2, <2>2 DEF SocketsTyped
<1>5. RoomsRecorded'
  <2>1. ASSUME NEW j \in Room, loaded'[j] = TRUE PROVE j \in hist.opened
    BY <1>t, <1>3, <2>1 DEF RoomsRecorded
  <2> QED BY <1>t, <1>2, <2>1 DEF RoomsRecorded
<1>6. (\A s \in Socket : Entitled(s))' /\ (\A u \in User : Presence(u))'
  BY <1>t, <1>2 DEF SocketsInv, Entitled, RoomsOf, Presence
<1>7. SocketsInv' /\ Keeps
  BY <1>2, <1>4, <1>5, <1>6 DEF SocketsInv, Keeps
<1> QED BY <1>2, <1>7, GoStep DEF PC, InRoom

\* Whoever enters a room has been a member, or it has been open.
LEMMA EntersRecorded ==
  ASSUME SocketsInv, NEW u \in User, NEW i \in Room, Enters(u, i)
  PROVE  /\ u \in hist.everIn[i] \/ i \in hist.opened
         /\ i \in RoomsOf(u) \/ i \in hist.opened
BY DEF SocketsInv, RoomsRecorded, Enters, RoomsOf

LEMMA CheckMemberStep ==
  ASSUME IInv, NEW h \in Job, CheckMember(h)
  PROVE  IInv'
<1>t. /\ SocketsInv /\ SocketsTyped /\ TableTyped /\ Handler(h) /\ job[h].pc = "member"
      /\ UNCHANGED <<member, open, rest, loaded, presence, hist>> /\ UNCHANGED table
  BY DEF IInv, SocketsInv, TableInv, CheckMember, At, roomTables
<1>1. PICK s \in Socket, u \in User, i \in Room : s = job[h].sock /\ u = job[h].user /\ i = job[h].room
  BY <1>t DEF Handler, InRoom, Still
<1>2. u = sock[s].user /\ u # None
  BY <1>t, <1>1, ChatGatewayAssumption DEF Handler, Still
<1>3. CASE ~Enters(u, i) /\ Go(h, "failed") /\ UNCHANGED sock
  <2>1. SocketsInv' /\ Keeps
    BY <1>t, <1>3, SocketsAlone DEF SocketsTyped
  <2> QED BY <1>t, <1>3, <2>1, GoStep DEF PC
<1>4. CASE Enters(u, i) /\ Go(h, "seen") /\ sock' = [sock EXCEPT ![s].in = @ \cup {i}]
  <2>0. Entitled(s) /\ sock[s] \in Sock /\ sock[s].in \subseteq Room
    BY <1>t, SockType DEF SocketsInv
  <2>1. PICK C \in SUBSET Room : C = sock[s].in \cup {i}
    BY <2>0
  <2>2. PICK k : k = [sock[s] EXCEPT !.in = C]
    OBVIOUS
  <2>3. /\ k \in Sock /\ k.pc = sock[s].pc /\ k.live = sock[s].live /\ k.user = sock[s].user
        /\ k.in = C /\ k.found = sock[s].found
    BY <2>0, <2>2 DEF Sock
  <2>4. sock' = [sock EXCEPT ![s] = k]
    BY <1>4, <2>1, <2>2
  <2>5. sock'[s] = k /\ \A t \in Socket : t # s => sock'[t] = sock[t]
    BY <1>t, <2>4 DEF SocketsTyped
  <2>6. Entitled(s)'
    <3>1. i \in hist.rights[s] \cup hist.opened
      BY <1>t, <1>2, <1>4, <2>0, EntersRecorded DEF Entitled
    <3> QED BY <1>t, <1>2, <2>0, <2>1, <2>3, <2>5, <3>1 DEF Entitled, RoomsOf
  <2>7. ASSUME NEW v \in User PROVE Presence(v)'
    <3>1. Presence(v)
      BY <1>t DEF SocketsInv
    <3>2. \A t \in Socket : /\ sock'[t].user = sock[t].user /\ sock'[t].pc = sock[t].pc
                            /\ sock'[t].live = sock[t].live
      BY <2>3, <2>5
    <3> QED BY <1>t, <3>1, <3>2 DEF Presence
  <2>8. /\ loaded' \in [Room -> BOOLEAN \cup {None}] /\ presence' \in [User -> {"online", "offline"}]
        /\ \A j \in Room : loaded'[j] = TRUE => j \in hist.opened
    BY <1>t DEF SocketsTyped, SocketsInv, RoomsRecorded
  <2>9. SocketsInv' /\ Keeps
    BY <1>t, <2>3, <2>4, <2>6, <2>7, <2>8, OneSocket
  <2> QED BY <1>t, <1>4, <2>9, GoStep DEF PC, InRoom
<1>5. ASSUME NEW pc \in {"parent", "create"}, Enters(u, i), Go(h, pc), UNCHANGED sock, ~Of(h, "join")
      PROVE  IInv'
  <2>1. SocketsInv' /\ Keeps
    BY <1>t, <1>5, SocketsAlone DEF SocketsTyped
  <2>2. u \in hist'.everIn[i] \/ i \in hist'.opened
    BY <1>t, <1>5, EntersRecorded
  <2> QED BY <1>t, <1>1, <1>5, <2>1, <2>2, GoStep DEF PC, InRoom, Of
<1> QED BY <1>1, <1>3, <1>4, <1>5 DEF CheckMember, Of

LEMMA LastSeenStep == ASSUME IInv, NEW h \in Job, LastSeen(h) PROVE IInv'
<1>1. SocketsInv' /\ Keeps
  BY SocketsAlone DEF IInv, SocketsInv, SocketsTyped, LastSeen, sockets
<1> QED BY <1>1, GoStep DEF LastSeen, At, PC

LEMMA FindParentStep == ASSUME IInv, NEW h \in Job, FindParent(h) PROVE IInv'
<1>1. /\ SocketsInv' /\ Keeps
      /\ UNCHANGED <<message, shown, mixed>> /\ UNCHANGED hist /\ job[h].pc = "parent" /\ Handler(h)
      /\ known' \in Looked(job[h].parent)
  BY SocketsAlone DEF IInv, SocketsInv, SocketsTyped, TableInv, FindParent, sockets, At
<1>2. /\ job[h].pc \in InRoom /\ job[h].kind # "join"
      /\ job[h].user \in hist'.everIn[job[h].room] \/ job[h].room \in hist'.opened
  BY <1>1 DEF Handler, InRoom
<1>3. LooksUp
  BY <1>1, LookedType DEF LooksUp
<1>4. CASE Go(h, "create")
  BY <1>1, <1>2, <1>3, <1>4, GoLookStep DEF PC
<1>5. CASE Go(h, "failed")
  BY <1>1, <1>3, <1>5, GoLookStep DEF PC
<1> QED BY <1>4, <1>5 DEF FindParent

-----------------------------------------------------------------------------
(* Posting and editing *)

\* A handler that changes nothing of the sockets.
LEMMA TableOnly ==
  ASSUME IInv, UNCHANGED sockets
  PROVE  SocketsInv' /\ Keeps
BY SocketsAlone DEF IInv, SocketsInv, SocketsTyped, sockets

\* What a post leaves of a message: a row with its content.
LEMMA PostRow ==
  ASSUME TableTyped, NEW m \in Message, NEW i \in Room, NEW u \in User,
         NEW p \in Message \cup {None}, NEW c \in Content, Log!Post(m, i, u, p, c)
  PROVE  /\ message' \in [Message -> Log!MessageRow \cup {Unused}]
         /\ ~Log!Posted(m) /\ Log!Posted(m)' /\ message'[m].content = c
         /\ message'[m].sender = u /\ message'[m].room = i
         /\ \A n \in Message : n # m => message'[n] = message[n]
<1>1. PICK row \in Log!MessageRow : row = [room |-> i, sender |-> u, parent |-> p, content |-> c, deleted |-> FALSE]
  BY DEF Log!MessageRow
<1>2. row # Unused
  BY ChatGatewayAssumption DEF Log!MessageRow
<1>3. message' = [message EXCEPT ![m] = row] /\ ~Log!Posted(m)
  BY <1>1 DEF Log!Post
<1>4. message'[m] = row
  BY <1>3 DEF TableTyped
<1> QED BY <1>1, <1>2, <1>3, <1>4 DEF TableTyped, Log!Posted

LEMMA CreateStep ==
  ASSUME IInv, NEW h \in Job, NEW m \in Message, Create(h, m)
  PROVE  IInv'
<1>t. /\ TableTyped /\ Handler(h) /\ job[h] \in JobRow /\ job[h].pc = "create"
      /\ UNCHANGED sockets /\ UNCHANGED <<shown, mixed>>
  BY JobType DEF IInv, TableInv, Create, At
<1>k. SocketsInv' /\ Keeps
  BY <1>t, TableOnly
<1>1. PICK i \in Room, u \in User, p \in Message \cup {None}, c \in Content :
        i = job[h].room /\ u = job[h].user /\ p = job[h].parent /\ c = job[h].text
  <2>1. /\ job[h].room \in Room /\ job[h].user \in User /\ job[h].text \in Content
        /\ job[h].parent \in Message \cup {None}
    BY <1>t, JobType DEF Handler, InRoom, Still
  <2> QED BY <2>1
<1>2. /\ Log!Post(m, i, u, p, c) /\ job' = [job EXCEPT ![h].pc = "emit", ![h].msg = m]
      /\ \E k \in Looked(p) : known' = [k EXCEPT ![m] = [content |-> c, deleted |-> FALSE]]
  BY <1>1 DEF Create
<1>3. PICK e \in Copy : e = [content |-> c, deleted |-> FALSE] /\ e.content = c
  <2>1. [content |-> c, deleted |-> FALSE] \in Copy
    BY DEF Copy
  <2> QED BY <2>1
<1>4. e # None
  BY ChatGatewayAssumption DEF Copy
<1>5. PICK q : q = [job[h] EXCEPT !.pc = "emit", !.msg = m]
  OBVIOUS
<1>6. /\ q \in JobRow /\ q.pc = "emit" /\ q.msg = m /\ q.sock = job[h].sock /\ q.user = job[h].user
      /\ q.text = c
  BY <1>t, <1>1, <1>5 DEF JobRow, PC
<1>7. PICK k \in Looked(p) : job' = [job EXCEPT ![h] = q] /\ known' = [k EXCEPT ![m] = e]
  BY <1>2, <1>3, <1>5
<1>l. /\ k \in [Message -> Copy \cup {None}]
      /\ \A n \in Message :
           /\ known[n] # None => k[n] # None
           /\ \/ k[n] = known[n]
              \/ n \notin mixed /\ Log!Posted(n) => k[n].content = message[n].content
  BY LookedType
<1>8. /\ job'[h] = q /\ known'[m] = e /\ \A g \in Job : g # h => job'[g] = job[g]
      /\ \A n \in Message : n # m => known'[n] = k[n]
  BY <1>t, <1>7, <1>l DEF TableTyped
<1>9. /\ message' \in [Message -> Log!MessageRow \cup {Unused}]
      /\ ~Log!Posted(m) /\ Log!Posted(m)' /\ message'[m].content = c
      /\ \A n \in Message : n # m => message'[n] = message[n]
  BY <1>t, <1>2, PostRow
<1>10. Grows
  BY <1>4, <1>8, <1>9, <1>l DEF Grows, Log!Posted
<1>11. Handler(h)'
  BY <1>t, <1>6, <1>8, <1>9 DEF Handler, InRoom, sockets, Still
<1>12. ASSUME NEW n \in Message PROVE Broadcast(n)'
  <2>0. Broadcast(n)
    BY DEF IInv, TableInv
  <2>1. CASE n # m
    <3>1. h \notin Owed(n)
      BY <1>t DEF Owed
    <3>2. \/ known'[n] = known[n]
          \/ n \notin mixed' /\ Log!Posted(n) => known'[n].content = message[n].content
      BY <1>t, <1>8, <1>l, <2>1
    <3> QED BY <1>t, <1>6, <1>7, <1>8, <1>9, <2>0, <2>1, <3>1, <3>2, BroadcastKept
  <2>2. CASE n = m
    <3>1. ASSUME NEW g \in Job, g # h, job'[g].msg = m, job'[g].pc \in {"reload", "emit"} PROVE FALSE
      <4>1. Handler(g)
        BY DEF IInv, TableInv
      <4> QED BY <1>8, <1>9, <3>1, <4>1 DEF Handler
    <3>2. Owed(m)' = {h}
      BY <1>6, <1>8, <3>1 DEF Owed
    <3> QED BY <1>3, <1>6, <1>8, <1>9, <2>2, <3>2 DEF Broadcast
  <2> QED BY <2>1, <2>2
<1>13. known' \in [Message -> Copy \cup {None}]
  BY <1>7, <1>l
<1> QED BY <1>t, <1>k, <1>6, <1>7, <1>9, <1>10, <1>11, <1>12, <1>13, HandlerStep DEF TableTyped

LEMMA CheckEditStep ==
  ASSUME IInv, NEW h \in Job, CheckEdit(h)
  PROVE  IInv'
<1>t. /\ TableTyped /\ Handler(h) /\ job[h] \in JobRow /\ job[h].pc \in {"can", "load"}
      /\ UNCHANGED sockets /\ UNCHANGED <<message, shown, mixed>>
  BY JobType DEF IInv, TableInv, CheckEdit
<1>k. SocketsInv' /\ Keeps
  BY <1>t, TableOnly
<1>1. CASE ~Log!Posted(job[h].msg) /\ Go(h, "failed") /\ UNCHANGED known
  BY <1>t, <1>k, <1>1, GoStep DEF PC, table
<1>2. CASE Log!Posted(job[h].msg)
  <2>1. PICK m \in Message : m = job[h].msg
    BY <1>t DEF Handler
  <2>2. PICK e \in Found(m) :
          /\ known' = [known EXCEPT ![m] = e]
          /\ Go(h, IF message[m].sender # job[h].user \/ e.deleted THEN "failed"
                   ELSE IF job[h].pc = "can" THEN "load" ELSE "write")
    BY <1>2, <2>1 DEF CheckEdit
  <2>3. m \notin mixed => e.content = message[m].content
    BY <1>2, <2>1, FoundType
  <2>4. PICK pc \in {"failed", "load", "write"} :
          pc = IF message[m].sender # job[h].user \/ e.deleted THEN "failed"
               ELSE IF job[h].pc = "can" THEN "load" ELSE "write"
    OBVIOUS
  <2>5. PICK q : q = Moved(job[h], pc)
    OBVIOUS
  <2>6. /\ q \in JobRow /\ q.pc = pc
        /\ pc # "failed" => /\ q.msg = m /\ q.sock = job[h].sock /\ q.user = job[h].user
                            /\ q.text = job[h].text
    <3>1. pc \in PC
      BY DEF PC
    <3> QED BY <1>t, <2>1, <2>5, <3>1, MovedRow
  <2>7. job' = [job EXCEPT ![h] = q]
    BY <2>2, <2>4, <2>5 DEF Go
  <2>8. job'[h] = q /\ known'[m] = e /\ \A n \in Message : n # m => known'[n] = known[n]
    BY <1>t, <2>2, <2>7 DEF TableTyped
  <2>9. Log!Posted(m) /\ e \in Copy /\ e # None
    BY <1>2, <2>1, FoundType
  <2>10. Grows
    BY <1>t, <2>8, <2>9 DEF Grows, Log!Posted
  <2>11. Handler(h)'
    <3>1. pc # "failed" =>
            q.sock \in Socket /\ q.user \in User /\ q.user = sock'[q.sock].user /\ q.text \in Content
      BY <1>t, <2>6 DEF Handler, sockets, Still
    <3>2. Log!Posted(m)' /\ known'[m] # None
      BY <1>t, <2>8, <2>9 DEF Log!Posted
    <3>3. pc \notin InRoom
      BY DEF InRoom
    <3>4. CASE pc = "failed"
      BY <2>6, <2>8, <3>4 DEF Handler, InRoom, Still
    <3>5. CASE pc # "failed"
      BY <2>6, <2>8, <3>1, <3>2, <3>3, <3>5 DEF Handler, InRoom
    <3> QED BY <3>4, <3>5
  <2>12. ASSUME NEW n \in Message PROVE Broadcast(n)'
    <3>0. Broadcast(n) /\ h \notin Owed(n)
      BY <1>t DEF IInv, TableInv, Owed
    <3>1. \/ known'[n] = known[n]
          \/ n \notin mixed' /\ Log!Posted(n) => known'[n].content = message[n].content
      <4>1. CASE n = m
        BY <1>t, <2>3, <2>8, <4>1
      <4>2. CASE n # m
        BY <2>8, <4>2
      <4> QED BY <4>1, <4>2
    <3>2. q.pc \notin {"reload", "emit"}
      BY <2>6
    <3>3. message'[n] = message[n] /\ shown'[n] = shown[n] /\ mixed \subseteq mixed'
      BY <1>t
    <3> QED BY <1>t, <2>6, <2>7, <3>0, <3>1, <3>2, <3>3, BroadcastKept
  <2>13. known' \in [Message -> Copy \cup {None}]
    BY <1>t, <2>2, <2>9 DEF TableTyped
  <2>14. /\ message' \in [Message -> Log!MessageRow \cup {Unused}]
         /\ shown' \in [Message -> Content \cup {None}] /\ mixed' \subseteq Message
    BY <1>t DEF TableTyped
  <2> QED BY <1>k, <2>6, <2>7, <2>10, <2>11, <2>12, <2>13, <2>14, HandlerStep
<1>3. CASE ~Log!Posted(job[h].msg)
  BY <1>1, <1>3 DEF CheckEdit
<1> QED BY <1>2, <1>3

\* An edit that is written while another broadcast is owed mixes the message;
\* one that is not writes what it was asked to.
LEMMA WriteEditStep ==
  ASSUME IInv, NEW h \in Job, WriteEdit(h)
  PROVE  IInv'
<1>t. /\ TableTyped /\ Handler(h) /\ job[h] \in JobRow /\ job[h].pc = "write"
      /\ UNCHANGED sockets /\ UNCHANGED shown
  BY JobType DEF IInv, TableInv, WriteEdit, At
<1>k. SocketsInv' /\ Keeps
  BY <1>t, TableOnly
<1>1. PICK m \in Message, c \in Content : m = job[h].msg /\ c = job[h].text
  BY <1>t DEF Handler
<1>2. Log!Posted(m) /\ known[m] # None /\ known[m] \in Copy /\ message[m] \in Log!MessageRow
  BY <1>t, <1>1, RowType DEF Handler, TableTyped
<1>3. PICK row : row = [message[m] EXCEPT !.content = IF c # known[m].content THEN c ELSE @]
  OBVIOUS
<1>4. row \in Log!MessageRow /\ row.content = IF c # known[m].content THEN c ELSE message[m].content
  BY <1>2, <1>3 DEF Log!MessageRow
<1>5. row # Unused
  BY <1>4, ChatGatewayAssumption DEF Log!MessageRow
<1>6. PICK e : e = [known[m] EXCEPT !.content = c]
  OBVIOUS
<1>7. e \in Copy /\ e.content = c
  BY <1>2, <1>6 DEF Copy
<1>8. e # None
  BY <1>7, ChatGatewayAssumption DEF Copy
<1>9. PICK q : q = [job[h] EXCEPT !.pc = "reload"]
  OBVIOUS
<1>10. /\ q \in JobRow /\ q.pc = "reload" /\ q.msg = m /\ q.sock = job[h].sock /\ q.user = job[h].user
       /\ q.text = c
  BY <1>t, <1>1, <1>9 DEF JobRow, PC
<1>11. /\ job' = [job EXCEPT ![h] = q] /\ known' = [known EXCEPT ![m] = e]
       /\ message' = [message EXCEPT ![m] = row]
       /\ mixed' = IF Owed(m) # {} THEN mixed \cup {m} ELSE mixed
  BY <1>1, <1>3, <1>6, <1>9 DEF WriteEdit, Go, Moved
<1>12. /\ job'[h] = q /\ \A g \in Job : g # h => job'[g] = job[g]
       /\ known'[m] = e /\ message'[m] = row
       /\ \A n \in Message : n # m => known'[n] = known[n] /\ message'[n] = message[n]
  BY <1>t, <1>11 DEF TableTyped
<1>13. Grows
  BY <1>5, <1>8, <1>12 DEF Grows, Log!Posted
<1>14. Handler(h)'
  BY <1>t, <1>5, <1>10, <1>12 DEF Handler, InRoom, sockets, Log!Posted, Still
<1>15. mixed' \subseteq Message /\ mixed \subseteq mixed'
  BY <1>t, <1>11 DEF TableTyped
<1>16. ASSUME NEW n \in Message PROVE Broadcast(n)'
  <2>0. Broadcast(n) /\ h \notin Owed(n)
    BY <1>t DEF IInv, TableInv, Owed
  <2>1. CASE n # m
    BY <1>t, <1>10, <1>11, <1>12, <1>15, <2>0, <2>1, BroadcastKept
  <2>2. CASE n = m
    <3> SUFFICES ASSUME m \notin mixed' PROVE Broadcast(n)'
      BY <2>2 DEF Broadcast
    <3>1. Owed(m) = {} /\ m \notin mixed
      BY <1>11
    <3>2. message'[m].content = c
      BY <1>2, <1>4, <1>12, <2>0, <2>2, <3>1 DEF Broadcast
    <3>3. Owed(m)' = {h}
      BY <1>10, <1>12, <3>1 DEF Owed
    <3> QED BY <1>7, <1>10, <1>12, <2>2, <3>2, <3>3 DEF Broadcast, At
  <2> QED BY <2>1, <2>2
<1>17. /\ message' \in [Message -> Log!MessageRow \cup {Unused}]
       /\ known' \in [Message -> Copy \cup {None}]
  BY <1>t, <1>4, <1>7, <1>11 DEF TableTyped
<1> QED BY <1>t, <1>k, <1>10, <1>11, <1>13, <1>14, <1>15, <1>16, <1>17, HandlerStep DEF TableTyped

LEMMA ReloadStep ==
  ASSUME IInv, NEW h \in Job, Reload(h)
  PROVE  IInv'
<1>t. /\ TableTyped /\ Handler(h) /\ job[h] \in JobRow /\ job[h].pc = "reload"
      /\ UNCHANGED sockets /\ UNCHANGED <<message, shown, mixed>>
  BY JobType DEF IInv, TableInv, Reload, At
<1>k. SocketsInv' /\ Keeps
  BY <1>t, TableOnly
<1>1. PICK m \in Message : m = job[h].msg
  BY <1>t DEF Handler
<1>2. Log!Posted(m)
  BY <1>t, <1>1 DEF Handler
<1>3. PICK e \in Found(m) :
        /\ known' = [known EXCEPT ![m] = e]
        /\ job' = [job EXCEPT ![h].pc = "emit", ![h].text = e.content]
  BY <1>1 DEF Reload
<1>4. e \in Copy /\ e # None
  BY <1>2, FoundType
<1>5. m \notin mixed => e.content = message[m].content
  BY <1>2, FoundType
<1>6. PICK c \in Content : c = e.content
  BY <1>4 DEF Copy
<1>7. PICK q : q = [job[h] EXCEPT !.pc = "emit", !.text = c]
  OBVIOUS
<1>8. /\ q \in JobRow /\ q.pc = "emit" /\ q.msg = m /\ q.sock = job[h].sock /\ q.user = job[h].user
      /\ q.text = c
  BY <1>t, <1>1, <1>7 DEF JobRow, PC
<1>9. job' = [job EXCEPT ![h] = q]
  BY <1>3, <1>6, <1>7
<1>10. /\ job'[h] = q /\ \A g \in Job : g # h => job'[g] = job[g]
       /\ known'[m] = e /\ \A n \in Message : n # m => known'[n] = known[n]
  BY <1>t, <1>3, <1>9 DEF TableTyped
<1>11. Grows
  BY <1>t, <1>4, <1>10 DEF Grows, Log!Posted
<1>12. Handler(h)'
  BY <1>t, <1>2, <1>8, <1>10 DEF Handler, InRoom, sockets, Log!Posted, Still
<1>13. ASSUME NEW n \in Message PROVE Broadcast(n)'
  <2>0. Broadcast(n)
    BY DEF IInv, TableInv
  <2>1. CASE n # m
    <3>1. h \notin Owed(n)
      BY <1>1, <2>1 DEF Owed
    <3> QED BY <1>t, <1>8, <1>9, <1>10, <2>0, <2>1, <3>1, BroadcastKept
  <2>2. CASE n = m
    <3> SUFFICES ASSUME m \notin mixed PROVE Broadcast(n)'
      BY <1>t, <2>2 DEF Broadcast
    <3>1. \A g \in Owed(m)' : g \in Owed(m)
      BY <1>t, <1>1, <1>10 DEF Owed
    <3>2. h \in Owed(m) /\ h \in Owed(m)'
      BY <1>t, <1>1, <1>8, <1>10 DEF Owed
    <3>3. \A g \in Owed(m)' : g = h
      BY <1>2, <2>0, <2>2, <3>1, <3>2 DEF Broadcast
    <3> QED BY <1>t, <1>5, <1>6, <1>8, <1>10, <2>2, <3>2, <3>3 DEF Broadcast, At
  <2> QED BY <2>1, <2>2
<1>14. known' \in [Message -> Copy \cup {None}]
  BY <1>t, <1>3, <1>4 DEF TableTyped
<1> QED BY <1>t, <1>k, <1>8, <1>9, <1>11, <1>12, <1>13, <1>14, HandlerStep DEF TableTyped

LEMMA EmitStep ==
  ASSUME IInv, NEW h \in Job, Emit(h)
  PROVE  IInv'
<1>t. /\ TableTyped /\ Handler(h) /\ job[h] \in JobRow /\ job[h].pc = "emit"
      /\ UNCHANGED sockets /\ UNCHANGED <<message, known, mixed>>
  BY JobType DEF IInv, TableInv, Emit, At
<1>k. SocketsInv' /\ Keeps
  BY <1>t, TableOnly
<1>1. PICK m \in Message, c \in Content : m = job[h].msg /\ c = job[h].text
  BY <1>t DEF Handler
<1>2. PICK q : q = Moved(job[h], "ok")
  OBVIOUS
<1>3. q \in JobRow /\ q.pc = "ok"
  BY <1>t, <1>2, MovedRow DEF PC
<1>4. job' = [job EXCEPT ![h] = q] /\ shown' = [shown EXCEPT ![m] = c]
  BY <1>1, <1>2 DEF Emit, Go
<1>5. /\ job'[h] = q /\ \A g \in Job : g # h => job'[g] = job[g]
      /\ shown'[m] = c /\ \A n \in Message : n # m => shown'[n] = shown[n]
  BY <1>t, <1>4 DEF TableTyped
<1>6. Grows
  BY <1>t DEF Grows, Log!Posted
<1>7. Handler(h)'
  BY <1>3, <1>5 DEF Handler, InRoom, Still
<1>8. ASSUME NEW n \in Message PROVE Broadcast(n)'
  <2>0. Broadcast(n)
    BY DEF IInv, TableInv
  <2>1. CASE n # m
    <3>1. h \notin Owed(n)
      BY <1>1, <2>1 DEF Owed
    <3> QED BY <1>t, <1>3, <1>4, <1>5, <2>0, <2>1, <3>1, BroadcastKept
  <2>2. CASE n = m
    <3> SUFFICES ASSUME m \notin mixed, Log!Posted(m) PROVE Broadcast(n)'
      BY <1>t, <2>2 DEF Broadcast, Log!Posted
    <3>1. h \in Owed(m)
      BY <1>t, <1>1 DEF Owed
    <3>2. \A g \in Owed(m) : g = h
      BY <2>0, <2>2, <3>1 DEF Broadcast
    <3>3. Owed(m)' = {}
      BY <1>3, <1>5, <3>2 DEF Owed
    <3>4. c = message[m].content
      BY <1>t, <1>1, <2>0, <2>2, <3>1 DEF Broadcast, At
    <3> QED BY <1>t, <1>5, <2>0, <2>2, <3>3, <3>4 DEF Broadcast
  <2> QED BY <2>1, <2>2
<1>9. shown' \in [Message -> Content \cup {None}]
  BY <1>t, <1>4 DEF TableTyped
<1> QED BY <1>t, <1>k, <1>3, <1>4, <1>6, <1>7, <1>8, <1>9, HandlerStep DEF TableTyped

LEMMA ReactStep == ASSUME IInv, NEW h \in Job, React(h) PROVE IInv'
<1>1. /\ UNCHANGED sockets /\ UNCHANGED <<message, shown, mixed>> /\ job[h].pc = "react"
      /\ known' \in Looked(job[h].msg) /\ Go(h, "ok")
  BY DEF React, At
<1>2. LooksUp
  BY <1>1, LookedType DEF LooksUp
<1> QED BY <1>1, <1>2, TableOnly, GoLookStep DEF PC

\* A failure after a message was written mixes it.
LEMMA FailStep ==
  ASSUME IInv, NEW h \in Job, Fail(h)
  PROVE  IInv'
<1>t. /\ TableTyped /\ Handler(h) /\ job[h] \in JobRow
      /\ UNCHANGED sockets /\ UNCHANGED <<message, shown>> /\ mixed' = mixed \cup Lost(h)
      /\ known' \in Looked(job[h].parent) \cup {known}
  BY JobType DEF IInv, TableInv, Fail
<1>l. /\ known' \in [Message -> Copy \cup {None}]
      /\ \A n \in Message :
           /\ known[n] # None => known'[n] # None
           /\ \/ known'[n] = known[n]
              \/ n \notin mixed /\ Log!Posted(n) => known'[n].content = message[n].content
  BY <1>t, LookedType
<1>k. SocketsInv' /\ Keeps
  BY <1>t, TableOnly
<1>1. Lost(h) \subseteq Message
  BY <1>t DEF Lost, Handler
<1>2. PICK q : q = Moved(job[h], "failed")
  OBVIOUS
<1>3. q \in JobRow /\ q.pc = "failed"
  BY <1>t, <1>2, MovedRow DEF PC
<1>4. job' = [job EXCEPT ![h] = q] /\ job'[h] = q
  BY <1>t, <1>2 DEF Fail, Go, TableTyped
<1>5. Grows
  BY <1>t, <1>l DEF Grows, Log!Posted
<1>6. Handler(h)'
  BY <1>3, <1>4 DEF Handler, InRoom, Still
<1>7. ASSUME NEW n \in Message PROVE Broadcast(n)'
  <2>1. Broadcast(n)
    BY DEF IInv, TableInv
  <2>2. (h \in Owed(n) => n \in mixed') /\ mixed \subseteq mixed'
    BY <1>t DEF Owed, Lost
  <2>3. \/ known'[n] = known[n]
        \/ n \notin mixed' /\ Log!Posted(n) => known'[n].content = message[n].content
    BY <1>l, <2>2
  <2> QED BY <1>t, <1>3, <1>4, <2>1, <2>2, <2>3, BroadcastKept
<1>8. mixed' \subseteq Message
  BY <1>t, <1>1 DEF TableTyped
<1> QED BY <1>t, <1>k, <1>l, <1>3, <1>4, <1>5, <1>6, <1>7, <1>8, HandlerStep DEF TableTyped

-----------------------------------------------------------------------------
(* REST requests on messages, and restarts *)

\* A step that no handler takes keeps the handlers.
LEMMA RestStep ==
  ASSUME IInv, UNCHANGED <<member, open, loaded, sock, presence, hist, known, shown, job>>, Spend,
         message' \in [Message -> Log!MessageRow \cup {Unused}],
         \A m \in Message : Log!Posted(m) => Log!Posted(m)',
         mixed' \subseteq Message,
         \A m \in Message : m \notin mixed' => m \notin mixed,
         \A m \in Message : m \notin mixed' =>
           Log!Posted(m)' = Log!Posted(m) /\ message'[m].content = message[m].content
  PROVE  IInv'
<1>1. SocketsInv' /\ Keeps
  BY SocketsAlone, SpendType DEF IInv, SocketsInv
<1>2. Grows
  BY DEF Grows
<1>3. ASSUME NEW h \in Job PROVE Handler(h)'
  BY <1>1, <1>2, HandlerKept, ChatGatewayAssumption DEF IInv, TableInv
<1>4. ASSUME NEW m \in Message PROVE Broadcast(m)'
  <2> SUFFICES ASSUME m \notin mixed', Log!Posted(m)' PROVE Broadcast(m)'
    BY DEF Broadcast
  <2>1. Log!Posted(m) /\ m \notin mixed /\ message'[m].content = message[m].content
    OBVIOUS
  <2>2. Owed(m)' = Owed(m) /\ known' = known /\ shown' = shown /\ job' = job
    BY DEF Owed
  <2>3. Broadcast(m)
    BY DEF IInv, TableInv
  <2> QED BY <2>1, <2>2, <2>3 DEF Broadcast, At
<1>5. TableTyped'
  BY DEF IInv, TableInv, TableTyped
<1> QED BY <1>1, <1>3, <1>4, <1>5 DEF IInv, TableInv

LEMMA RestPostStep ==
  ASSUME IInv, NEW m \in Message, NEW i \in Room, NEW u \in User, NEW p \in Message \cup {None},
         NEW c \in Content, RestPost(m, i, u, p, c)
  PROVE  IInv'
<1>t. TableTyped
  BY DEF IInv, TableInv
<1>1. Log!Post(m, i, u, p, c) /\ mixed' = mixed \cup {m}
  BY DEF RestPost
<1>2. /\ message' \in [Message -> Log!MessageRow \cup {Unused}]
      /\ ~Log!Posted(m) /\ Log!Posted(m)'
      /\ \A n \in Message : n # m => message'[n] = message[n]
  BY <1>t, <1>1, PostRow
<1>3. \A n \in Message : n # m => Log!Posted(n)' = Log!Posted(n)
  BY <1>2 DEF Log!Posted
<1>4. mixed' \subseteq Message
  BY <1>t, <1>1 DEF TableTyped
<1> QED BY <1>1, <1>2, <1>3, <1>4, RestStep DEF RestPost

\* A posted message that changes keeps being one.
LEMMA ChangedRow ==
  ASSUME TableTyped, NEW m \in Message, NEW row \in Log!MessageRow, Log!Posted(m),
         message' = [message EXCEPT ![m] = row]
  PROVE  /\ message' \in [Message -> Log!MessageRow \cup {Unused}]
         /\ \A n \in Message : Log!Posted(n)' = Log!Posted(n)
         /\ \A n \in Message : n # m => message'[n] = message[n]
         /\ message'[m] = row
<1>1. row # Unused
  BY ChatGatewayAssumption DEF Log!MessageRow
<1>2. message'[m] = row /\ \A n \in Message : n # m => message'[n] = message[n]
  BY DEF TableTyped
<1> QED BY <1>1, <1>2 DEF TableTyped, Log!Posted

LEMMA RestEditStep ==
  ASSUME IInv, NEW m \in Message, NEW c \in Content, RestEdit(m, c)
  PROVE  IInv'
<1>t. TableTyped
  BY DEF IInv, TableInv
<1>1. Log!Posted(m) /\ mixed' = mixed \cup {m} /\ message' = [message EXCEPT ![m].content = c]
  BY DEF RestEdit, Log!Edit
<1>2. PICK row \in Log!MessageRow : row = [message[m] EXCEPT !.content = c]
  <2>1. message[m] \in Log!MessageRow
    BY <1>t, <1>1, RowType
  <2>2. [message[m] EXCEPT !.content = c] \in Log!MessageRow
    BY <2>1 DEF Log!MessageRow
  <2> QED BY <2>2
<1>3. message' = [message EXCEPT ![m] = row]
  BY <1>1, <1>2
<1>4. /\ message' \in [Message -> Log!MessageRow \cup {Unused}]
      /\ \A n \in Message : Log!Posted(n)' = Log!Posted(n)
      /\ \A n \in Message : n # m => message'[n] = message[n]
  BY <1>t, <1>1, <1>3, ChangedRow
<1>5. mixed' \subseteq Message
  BY <1>t, <1>1 DEF TableTyped
<1> QED BY <1>1, <1>4, <1>5, RestStep DEF RestEdit

LEMMA RestDeleteStep ==
  ASSUME IInv, NEW m \in Message, RestDelete(m)
  PROVE  IInv'
<1>t. TableTyped
  BY DEF IInv, TableInv
<1>1. Log!Posted(m) /\ mixed' = mixed /\ message' = [message EXCEPT ![m].deleted = TRUE]
  BY DEF RestDelete, Log!Delete
<1>2. PICK row \in Log!MessageRow :
        row = [message[m] EXCEPT !.deleted = TRUE] /\ row.content = message[m].content
  <2>1. message[m] \in Log!MessageRow
    BY <1>t, <1>1, RowType
  <2>2. [message[m] EXCEPT !.deleted = TRUE] \in Log!MessageRow
    BY <2>1 DEF Log!MessageRow
  <2>3. [message[m] EXCEPT !.deleted = TRUE].content = message[m].content
    BY <2>1 DEF Log!MessageRow
  <2> QED BY <2>2, <2>3
<1>3. message' = [message EXCEPT ![m] = row]
  BY <1>1, <1>2
<1>4. /\ message' \in [Message -> Log!MessageRow \cup {Unused}]
      /\ \A n \in Message : Log!Posted(n)' = Log!Posted(n)
      /\ \A n \in Message : n # m => message'[n] = message[n]
      /\ message'[m] = row
  BY <1>t, <1>1, <1>3, ChangedRow
<1>5. \A n \in Message : message'[n].content = message[n].content
  BY <1>2, <1>4
<1>6. mixed' \subseteq Message
  BY <1>t, <1>1 DEF TableTyped
<1> QED BY <1>1, <1>4, <1>5, <1>6, RestStep DEF RestDelete

\* At a restart nobody is connected any more, and whoever was online is blurred.
LEMMA RestartSockets ==
  ASSUME SocketsInv, Restart
  PROVE  SocketsInv' /\ Keeps
<1>t. SocketsTyped /\ RoomsRecorded /\ hist \in SockHistory
  BY DEF SocketsInv, SocketsTyped
<1>1. PICK B \in SUBSET User : B = hist.blurred \cup {u \in User : presence[u] = "online"}
  <2>1. hist.blurred \in SUBSET User
    BY <1>t DEF SockHistory
  <2>2. hist.blurred \cup {u \in User : presence[u] = "online"} \in SUBSET User
    BY <2>1
  <2> QED BY <2>2
<1>2. /\ hist' = [hist EXCEPT !.blurred = B] /\ Spend /\ UNCHANGED <<member, open, presence>>
      /\ loaded' = [i \in Room |-> None]
  BY <1>1 DEF Restart
<1>3. /\ hist' \in SockHistory /\ hist'.blurred = B /\ hist'.everIn = hist.everIn
      /\ hist'.opened = hist.opened /\ hist'.rights = hist.rights
  BY <1>t, <1>2 DEF SockHistory
<1>4. ASSUME NEW s \in Socket
      PROVE  /\ sock'[s] \in Sock /\ sock'[s].live = FALSE /\ sock'[s].user = sock[s].user
             /\ sock'[s].in = {} /\ sock'[s].found = {} /\ sock'[s].pc \in {"new", "done"}
             /\ sock'[s].pc = "new" => sock'[s].user = None
  <2>0. Entitled(s) /\ sock[s] \in Sock /\ sock[s].live \in BOOLEAN
    BY <1>t, SockType DEF SocketsInv
  <2>1. sock'[s] = IF sock[s].pc = "new" THEN sock[s]
                   ELSE [sock[s] EXCEPT !.pc = "done", !.live = FALSE, !.in = {}, !.found = {}]
    BY DEF Restart
  <2>2. CASE sock[s].pc = "new"
    BY <2>0, <2>1, <2>2 DEF Entitled
  <2>3. CASE sock[s].pc # "new"
    <3>1. PICK k : k = [sock[s] EXCEPT !.pc = "done", !.live = FALSE, !.in = {}, !.found = {}]
      OBVIOUS
    <3>2. k \in Sock /\ k.pc = "done" /\ k.live = FALSE /\ k.user = sock[s].user /\ k.in = {} /\ k.found = {}
      BY <2>0, <3>1 DEF Sock, SockPC
    <3> QED BY <2>1, <2>3, <3>1, <3>2
  <2> QED BY <2>2, <2>3
<1>5. sock' \in [Socket -> Sock]
  <2>1. sock' = [s \in Socket |-> sock'[s]]
    BY DEF Restart
  <2> QED BY <1>4, <2>1
<1>6. SocketsTyped'
  BY <1>t, <1>2, <1>3, <1>5, SpendType DEF SocketsTyped
<1>7. RoomsRecorded'
  <2>1. \A i \in Room : loaded'[i] # TRUE
    BY <1>2, ChatGatewayAssumption
  <2> QED BY <1>t, <1>2, <1>3, <2>1 DEF RoomsRecorded
<1>8. ASSUME NEW s \in Socket PROVE Entitled(s)'
  <2>1. Entitled(s)
    BY DEF SocketsInv
  <2>2. sock[s].user # None => RoomsOf(sock[s].user) \subseteq hist.rights[s]
    BY <2>1 DEF Entitled
  <2>3. \A u : {i \in Room : u \in member'[i]} = RoomsOf(u)
    BY <1>2 DEF RoomsOf
  <2>4. sock'[s].user # None => RoomsOf(sock[s].user)' \subseteq hist'.rights[s]
    BY <1>3, <1>4, <2>2, <2>3 DEF RoomsOf
  <2>5. sock'[s].pc \in {"new", "auth"} => sock'[s].user = None
    BY <1>4
  <2>6. sock'[s].pc \notin {"list", "join"}
    BY <1>4
  <2> QED BY <1>3, <1>4, <2>4, <2>5, <2>6 DEF Entitled, RoomsOf
<1>9. ASSUME NEW u \in User PROVE Presence(u)'
  <2> SUFFICES ASSUME u \notin B PROVE Presence(u)'
    BY <1>3 DEF Presence
  <2>1. presence'[u] # "online"
    BY <1>1, <1>2
  <2>2. \A s \in Socket : ~sock'[s].live /\ sock'[s].pc \notin {"list", "join"}
    BY <1>4
  <2> QED BY <2>1, <2>2 DEF Presence
<1>10. Keeps
  BY <1>3, <1>4 DEF Keeps
<1> QED BY <1>6, <1>7, <1>8, <1>9, <1>10 DEF SocketsInv

\* ... and the handlers have failed.
LEMMA RestartStep == ASSUME IInv, Restart PROVE IInv'
<1>t. TableTyped /\ UNCHANGED <<message, shown>>
  BY DEF IInv, TableInv, Restart
<1>1. SocketsInv' /\ Keeps
  BY RestartSockets DEF IInv
<1>2. ASSUME NEW h \in Job
      PROVE  job'[h] \in JobRow /\ job'[h].pc \in {"idle", "failed"}
  <2>0. job[h] \in JobRow
    BY <1>t, JobType
  <2>1. job'[h] = IF job[h].pc = "idle" THEN job[h] ELSE Moved(job[h], "failed")
    BY DEF Restart, At
  <2>2. Moved(job[h], "failed") \in JobRow /\ Moved(job[h], "failed").pc = "failed"
    BY <2>0, MovedRow DEF PC
  <2> QED BY <2>0, <2>1, <2>2
<1>3. job' \in [Job -> JobRow]
  <2>1. job' = [h \in Job |-> job'[h]]
    BY DEF Restart
  <2> QED BY <1>2, <2>1
<1>4. \A h \in Job : Lost(h) \subseteq Message
  BY DEF IInv, TableInv, Lost, Handler
<1>5. mixed' \subseteq Message /\ mixed \subseteq mixed' /\ \A h \in Job : Lost(h) \subseteq mixed'
  <2>1. mixed' = mixed \cup UNION {Lost(h) : h \in Job}
    BY DEF Restart
  <2>2. mixed \subseteq Message
    BY <1>t DEF TableTyped
  <2> QED BY <1>4, <2>1, <2>2
<1>6. known' = [m \in Message |-> None]
  BY DEF Restart
<1>7. TableTyped'
  BY <1>t, <1>3, <1>5, <1>6 DEF TableTyped
<1>8. ASSUME NEW h \in Job PROVE Handler(h)'
  BY <1>2 DEF Handler, InRoom, Still
<1>9. ASSUME NEW m \in Message PROVE Broadcast(m)'
  <2> SUFFICES ASSUME Log!Posted(m), m \notin mixed' PROVE Broadcast(m)'
    BY <1>t DEF Broadcast, Log!Posted
  <2>1. Owed(m) = {}
    BY <1>5 DEF Owed, Lost
  <2>2. Owed(m)' = {}
    BY <1>2 DEF Owed
  <2>3. shown[m] = message[m].content
    BY <1>5, <2>1 DEF IInv, TableInv, Broadcast
  <2> QED BY <1>t, <1>6, <2>2, <2>3 DEF Broadcast
<1> QED BY <1>1, <1>7, <1>8, <1>9 DEF IInv, TableInv

-----------------------------------------------------------------------------
(* The invariant *)

LEMMA InitIInv == Init => IInv
<1> SUFFICES ASSUME Init PROVE IInv
  OBVIOUS
<1> USE ChatGatewayAssumption DEF Init, SocketsInit
<1>1. SocketsTyped
  <2>1. hist \in SockHistory
    BY DEF SockHistory
  <2>2. sock \in [Socket -> Sock]
    BY DEF Sock, SockPC
  <2>3. rest \in 0 .. MaxRest
    OBVIOUS
  <2>4. /\ loaded \in [Room -> BOOLEAN \cup {None}]
        /\ presence \in [User -> {"online", "offline"}]
    OBVIOUS
  <2> QED BY <2>1, <2>2, <2>3, <2>4 DEF SocketsTyped
<1>2. RoomsRecorded
  BY DEF RoomsRecorded
<1>3. ASSUME NEW s \in Socket PROVE Entitled(s)
  BY DEF Entitled
<1>4. ASSUME NEW u \in User PROVE Presence(u)
  BY DEF Presence
<1>5. TableTyped
  BY DEF TableTyped, JobRow, Idle, PC
<1>6. ASSUME NEW h \in Job PROVE Handler(h)
  BY DEF Handler, Idle, InRoom, Still
<1>7. ASSUME NEW m \in Message PROVE Broadcast(m)
  BY DEF Broadcast, Log!Posted
<1> QED BY <1>1, <1>2, <1>3, <1>4, <1>5, <1>6, <1>7 DEF IInv, SocketsInv, TableInv

\* A step of the sockets leaves the table and the handlers alone.
LEMMA SocketsNextStep ==
  ASSUME IInv, SocketsNext, UNCHANGED <<table, job>>
  PROVE  IInv'
<1>1. SocketsInv' /\ Keeps
  BY SocketsStep DEF IInv
<1>2. Grows
  BY DEF Grows, table, Log!Posted
<1>3. ASSUME NEW h \in Job PROVE Handler(h)'
  BY <1>1, <1>2, HandlerKept, ChatGatewayAssumption DEF IInv, TableInv
<1>4. ASSUME NEW m \in Message PROVE Broadcast(m)'
  BY DEF IInv, TableInv, Broadcast, Owed, At, Log!Posted, table
<1>5. TableTyped'
  BY DEF IInv, TableInv, TableTyped, table
<1> QED BY <1>1, <1>3, <1>4, <1>5 DEF IInv, TableInv

LEMMA NextIInv == IInv /\ [Next]_vars => IInv'
<1> SUFFICES ASSUME IInv, [Next]_vars PROVE IInv'
  OBVIOUS
<1>1. CASE UNCHANGED vars
  <2>1. SocketsInv' /\ Keeps
    BY <1>1, TableOnly DEF vars
  <2>2. Grows
    BY <1>1 DEF Grows, vars, table, Log!Posted
  <2>3. ASSUME NEW h \in Job PROVE Handler(h)'
    BY <1>1, <2>1, <2>2, HandlerKept, ChatGatewayAssumption DEF IInv, TableInv, vars
  <2>4. ASSUME NEW m \in Message PROVE Broadcast(m)'
    BY <1>1 DEF IInv, TableInv, Broadcast, Owed, At, Log!Posted, vars, table
  <2>5. TableTyped'
    BY <1>1 DEF IInv, TableInv, TableTyped, vars, table
  <2> QED BY <2>1, <2>3, <2>4, <2>5 DEF IInv, TableInv
<1>2. ASSUME NEW h \in Job, NEW s \in Socket, Start(h, s) PROVE IInv'
  BY <1>2, StartInStep, StartEditStep, StartReactStep DEF Start
<1>3. ASSUME NEW h \in Job, Continue(h) PROVE IInv'
  BY <1>3, FindRoomStep, CheckMemberStep, LastSeenStep, FindParentStep, CreateStep, CheckEditStep,
     WriteEditStep, ReloadStep, EmitStep, ReactStep DEF Continue
<1>4. CASE Rest
  BY <1>4, RestPostStep, RestEditStep, RestDeleteStep DEF Rest
<1> QED BY <1>1, <1>2, <1>3, <1>4, SocketsNextStep, FailStep, RestartStep DEF Next

LEMMA Invariant == Spec => []IInv
BY InitIInv, NextIInv, PTL DEF Spec

-----------------------------------------------------------------------------
(* The theorems *)

\* The sockets, the tables and the handlers are well typed in every state.
THEOREM GatewayTypeCorrect == Spec => []TypeOK
<1>1. IInv => TypeOK
  BY DEF IInv, SocketsInv, SocketsTyped, TableInv, TableTyped, TypeOK
<1> QED BY <1>1, Invariant, PTL

\* Whatever was read before an await, a connected socket is in channels of
\* rooms its user was a member of since it was authenticated, or that were
\* open.
THEOREM ChannelsNeedRights == Spec => []ChannelsByRight
<1>1. IInv => ChannelsByRight
  BY DEF IInv, SocketsInv, Entitled, ChannelsByRight
<1> QED BY <1>1, Invariant, PTL

\* The presence last announced of a user who had one socket at a time is right.
THEOREM PresenceIsRight == Spec => []PresenceFollowsSockets
<1>1. ASSUME IInv, NEW u \in User, u \notin hist.blurred
      PROVE  presence[u] = "online" <=>
               \E s \in Socket : sock[s].live /\ sock[s].pc = "done" /\ sock[s].user = u
  BY <1>1 DEF IInv, SocketsInv, Presence
<1>2. IInv => PresenceFollowsSockets
  BY <1>1 DEF PresenceFollowsSockets
<1> QED BY <1>2, Invariant, PTL

\* What was broadcast last of a message is its content, whatever copy the
\* identity map answers with.
THEOREM BroadcastsFollow == Spec => []ShownFollowsContent
<1>1. IInv => ShownFollowsContent
  BY DEF IInv, TableInv, Broadcast, ShownFollowsContent
<1> QED BY <1>1, Invariant, PTL

\* A message is posted over a socket by someone who has been a member of its
\* room, unless the room has been open.
THEOREM PostsNeedRights == Spec => PostsByRight
<1>1. ASSUME IInv, [Next]_vars, NEW m \in Message, ~Log!Posted(m), message'[m] # Unused, job' # job
      PROVE  \/ message'[m].sender \in hist.everIn[message'[m].room]
             \/ message'[m].room \in hist.opened
  <2>t. TableTyped
    BY <1>1 DEF IInv, TableInv
  <2>1. ASSUME NEW h \in Job, NEW n \in Message, Create(h, n)
        PROVE  \/ message'[m].sender \in hist.everIn[message'[m].room]
               \/ message'[m].room \in hist.opened
    <3>1. Handler(h) /\ job[h].pc = "create"
      BY <1>1, <2>1 DEF IInv, TableInv, Create, At
    <3>2. PICK i \in Room, u \in User, p \in Message \cup {None}, c \in Content :
            i = job[h].room /\ u = job[h].user /\ p = job[h].parent /\ c = job[h].text
      <4>1. /\ job[h].room \in Room /\ job[h].user \in User /\ job[h].text \in Content
            /\ job[h].parent \in Message \cup {None}
        BY <2>t, <3>1, JobType DEF Handler, InRoom, Still
      <4> QED BY <4>1
    <3>3. Log!Post(n, i, u, p, c)
      BY <2>1, <3>2 DEF Create
    <3>4. message'[n].sender = u /\ message'[n].room = i /\ \A k \in Message : k # n => message'[k] = message[k]
      BY <2>t, <3>3, PostRow
    <3>5. m = n
      BY <1>1, <3>4 DEF Log!Posted
    <3>6. u \in hist.everIn[i] \/ i \in hist.opened
      BY <3>1, <3>2 DEF Handler
    <3> QED BY <3>4, <3>5, <3>6
  <2>2. ASSUME NEW h \in Job, WriteEdit(h) PROVE FALSE
    <3>1. Handler(h) /\ job[h].pc = "write"
      BY <1>1, <2>2 DEF IInv, TableInv, WriteEdit, At
    <3>2. job[h].msg # m
      BY <1>1, <3>1 DEF Handler
    <3>3. message'[m] = message[m]
      BY <2>2, <2>t, <3>2 DEF WriteEdit, TableTyped
    <3> QED BY <1>1, <3>3 DEF Log!Posted
  <2>3. ASSUME UNCHANGED message PROVE FALSE
    BY <1>1, <2>3 DEF Log!Posted
  <2>4. CASE UNCHANGED vars
    BY <1>1, <2>4 DEF vars
  <2>5. CASE SocketsNext /\ UNCHANGED <<table, job>>
    BY <1>1, <2>5
  <2>6. ASSUME NEW h \in Job, NEW s \in Socket, Start(h, s) PROVE FALSE
    BY <2>3, <2>6 DEF Start, StartIn, StartEdit, StartReact, table
  <2>7. ASSUME NEW h \in Job,
               FindRoom(h) \/ CheckMember(h) \/ LastSeen(h) \/ FindParent(h) \/ CheckEdit(h) \/ Reload(h)
                 \/ Emit(h) \/ React(h) \/ Fail(h)
        PROVE  FALSE
    BY <2>3, <2>7 DEF FindRoom, CheckMember, LastSeen, FindParent, CheckEdit, Reload, Emit, React, Fail,
      table
  <2>8. CASE Rest
    BY <1>1, <2>8 DEF Rest, RestPost, RestEdit, RestDelete
  <2>9. CASE Restart
    BY <2>3, <2>9 DEF Restart
  <2>10. ASSUME NEW h \in Job, Continue(h)
         PROVE  \/ message'[m].sender \in hist.everIn[message'[m].room]
                \/ message'[m].room \in hist.opened
    BY <2>1, <2>2, <2>7, <2>10 DEF Continue
  <2>11. CASE Next
    BY <2>5, <2>6, <2>7, <2>8, <2>9, <2>10, <2>11 DEF Next
  <2> QED BY <1>1, <2>4, <2>11
<1>2. IInv /\ [Next]_vars =>
        [\A m \in Message :
           ~Log!Posted(m) /\ message'[m] # Unused /\ job' # job =>
             \/ message'[m].sender \in hist.everIn[message'[m].room]
             \/ message'[m].room \in hist.opened]_vars
  BY <1>1
<1> QED BY <1>2, Invariant, PTL DEF Spec, PostsByRight

\* Messages stay their sender's, whatever is written of them.
LEMMA SenderKept ==
  ASSUME IInv, [Next]_vars, NEW m \in Message, Log!Posted(m)
  PROVE  message'[m].sender = message[m].sender
<1>t. TableTyped /\ message[m] \in Log!MessageRow
  BY RowType DEF IInv, TableInv
<1>1. ASSUME UNCHANGED message PROVE message'[m].sender = message[m].sender
  BY <1>1
<1>2. ASSUME NEW n \in Message, NEW c, message' = [message EXCEPT ![n].content = c]
      PROVE  message'[m].sender = message[m].sender
  BY <1>2, <1>t DEF TableTyped, Log!MessageRow
<1>3. ASSUME NEW n \in Message, Log!Delete(n) PROVE message'[m].sender = message[m].sender
  BY <1>3, <1>t DEF TableTyped, Log!MessageRow, Log!Delete
<1>4. ASSUME NEW n \in Message, NEW i, NEW u, NEW p, NEW c, Log!Post(n, i, u, p, c)
      PROVE  message'[m].sender = message[m].sender
  BY <1>4, <1>t DEF TableTyped, Log!Post
<1>5. ASSUME NEW h \in Job, WriteEdit(h) PROVE message'[m].sender = message[m].sender
  <2>1. job[h].msg \in Message
    BY <1>5 DEF WriteEdit, At, IInv, TableInv, Handler
  <2> QED BY <1>2, <1>5, <2>1 DEF WriteEdit
<1>6. ASSUME NEW h \in Job, Continue(h) PROVE message'[m].sender = message[m].sender
  BY <1>1, <1>4, <1>5, <1>6 DEF Continue, FindRoom, CheckMember, LastSeen, FindParent, Create, CheckEdit,
     Reload, Emit, React, table
<1>7. ASSUME NEW h \in Job, NEW s \in Socket, Start(h, s) PROVE UNCHANGED message
  BY <1>7 DEF Start, StartIn, StartEdit, StartReact, table
<1>8. CASE Rest
  BY <1>2, <1>3, <1>4, <1>8 DEF Rest, RestPost, RestEdit, RestDelete, Log!Edit
<1> QED BY <1>1, <1>6, <1>7, <1>8 DEF Next, vars, table, Fail, Restart

\* A handler comes to its flush by the checks on its message alone.
LEMMA ComesToWrite ==
  ASSUME IInv, [Next]_vars, NEW h \in Job, At(h, "write")', job'[h] # job[h]
  PROVE  /\ job'[h].msg = job[h].msg /\ job'[h].user = job[h].user
         /\ job[h].msg \in Message /\ Log!Posted(job[h].msg)
         /\ message[job[h].msg].sender = job[h].user
<1>t. TableTyped /\ job[h] \in JobRow
  BY JobType DEF IInv, TableInv
<1>1. ASSUME NEW g \in Job, NEW pc \in PC, pc # "write", Go(g, pc) PROVE FALSE
  <2>1. g = h /\ job'[h] = Moved(job[h], pc)
    BY <1>t, <1>1 DEF Go, TableTyped
  <2>2. job'[h].pc = pc
    BY <1>t, <2>1, MovedRow
  <2> QED BY <1>1, <2>2 DEF At
<1>3. ASSUME NEW g \in Job, NEW s \in Socket, Start(g, s) PROVE FALSE
  <2>0. ASSUME NEW q, job' = [job EXCEPT ![g] = q], q.pc # "write" PROVE FALSE
    BY <1>t, <2>0 DEF TableTyped, At
  <2>1. ASSUME NEW kind, NEW i, NEW p, NEW t, StartIn(g, s, kind, i, p, t) PROVE FALSE
    <3>1. PICK q : q = [Idle EXCEPT !.kind = kind, !.pc = "room", !.sock = s, !.user = sock[s].user,
                                    !.room = i, !.parent = p, !.text = t]
      OBVIOUS
    <3>2. job' = [job EXCEPT ![g] = q] /\ q.pc = "room"
      BY <2>1, <3>1 DEF StartIn, Idle
    <3> QED BY <2>0, <3>2
  <2>2. ASSUME NEW m, NEW t, StartEdit(g, s, m, t) PROVE FALSE
    <3>1. PICK q : q = [Idle EXCEPT !.kind = "edit", !.pc = "can", !.sock = s, !.user = sock[s].user,
                                    !.msg = m, !.text = t]
      OBVIOUS
    <3>2. job' = [job EXCEPT ![g] = q] /\ q.pc = "can"
      BY <2>2, <3>1 DEF StartEdit, Idle
    <3> QED BY <2>0, <3>2
  <2>3. ASSUME NEW m, StartReact(g, s, m) PROVE FALSE
    <3>1. PICK q : q = [Idle EXCEPT !.kind = "react", !.pc = "react", !.sock = s, !.user = sock[s].user,
                                    !.msg = m]
      OBVIOUS
    <3>2. job' = [job EXCEPT ![g] = q] /\ q.pc = "react"
      BY <2>3, <3>1 DEF StartReact, Idle
    <3> QED BY <2>0, <3>2
  <2> QED BY <1>3, <2>1, <2>2, <2>3 DEF Start
<1>4. ASSUME NEW g \in Job, FindRoom(g) \/ CheckMember(g) \/ LastSeen(g) \/ FindParent(g) \/ React(g)
                              \/ WriteEdit(g) \/ Emit(g) \/ Fail(g)
      PROVE  FALSE
  BY <1>1, <1>4 DEF FindRoom, CheckMember, LastSeen, FindParent, React, WriteEdit, Emit, Fail, PC
<1>5. ASSUME NEW g \in Job, NEW m \in Message, Create(g, m) PROVE FALSE
  BY <1>t, <1>5 DEF Create, TableTyped, JobRow, At
<1>6. ASSUME NEW g \in Job, Reload(g) PROVE FALSE
  BY <1>t, <1>6 DEF Reload, TableTyped, JobRow, At
<1>7. ASSUME Restart PROVE FALSE
  <2>1. job'[h] = IF At(h, "idle") THEN job[h] ELSE Moved(job[h], "failed")
    BY <1>7 DEF Restart
  <2>2. Moved(job[h], "failed").pc = "failed"
    BY <1>t, MovedRow DEF PC
  <2> QED BY <2>1, <2>2 DEF At
<1>8. ASSUME NEW g \in Job, CheckEdit(g)
      PROVE  /\ job'[h].msg = job[h].msg /\ job'[h].user = job[h].user
             /\ job[h].msg \in Message /\ Log!Posted(job[h].msg)
             /\ message[job[h].msg].sender = job[h].user
  <2>1. PICK pc \in {"failed", "load", "write"} :
          /\ Go(g, pc)
          /\ pc = "write" => Log!Posted(job[g].msg) /\ message[job[g].msg].sender = job[g].user
    BY <1>8 DEF CheckEdit
  <2>2. pc = "write"
    BY <1>1, <2>1 DEF PC
  <2>3. g = h /\ job'[h] = Moved(job[h], "write")
    BY <1>t, <2>1, <2>2 DEF Go, TableTyped
  <2>4. job'[h].msg = job[h].msg /\ job'[h].user = job[h].user
    BY <1>t, <2>3, MovedRow DEF PC
  <2>5. job[h].msg \in Message
    BY <1>8, <2>3 DEF CheckEdit, IInv, TableInv, Handler
  <2> QED BY <2>1, <2>2, <2>3, <2>4, <2>5
<1>9. ASSUME NEW g \in Job, Continue(g)
      PROVE  /\ job'[h].msg = job[h].msg /\ job'[h].user = job[h].user
             /\ job[h].msg \in Message /\ Log!Posted(job[h].msg)
             /\ message[job[h].msg].sender = job[h].user
  BY <1>4, <1>5, <1>6, <1>8, <1>9 DEF Continue
<1>10. ASSUME UNCHANGED job PROVE FALSE
  BY <1>10
<1> QED BY <1>3, <1>4, <1>7, <1>9, <1>10 DEF Next, vars, Rest, RestPost, RestEdit, RestDelete

\* What a handler that is about to flush has checked still holds.
Checked == \A h \in Job : At(h, "write") => message[job[h].msg].sender = job[h].user

LEMMA CheckedInit == Init => Checked
BY DEF Init, Checked, At, Idle

LEMMA CheckedStep == IInv /\ Checked /\ [Next]_vars => Checked'
<1> SUFFICES ASSUME IInv, Checked, [Next]_vars, NEW h \in Job, At(h, "write")'
             PROVE  message'[job'[h].msg].sender = job'[h].user
  BY DEF Checked
<1>1. CASE job'[h] = job[h]
  <2>1. At(h, "write")
    BY <1>1 DEF At
  <2>2. job[h].msg \in Message /\ Log!Posted(job[h].msg)
    BY <2>1 DEF IInv, TableInv, Handler, At
  <2> QED BY <1>1, <2>1, <2>2, SenderKept DEF Checked
<1>2. CASE job'[h] # job[h]
  BY <1>2, ComesToWrite, SenderKept
<1> QED BY <1>1, <1>2

\* What a handler's step does to a message that is posted.
LEMMA EditStep ==
  ASSUME IInv, Checked, [Next]_vars, NEW m \in Message, Log!Posted(m), m \notin mixed,
         message'[m] # message[m], job' # job
  PROVE  \E h \in Job :
           /\ At(h, "write") /\ job[h].msg = m /\ job[h].user = message[m].sender
           /\ message'[m] = [message[m] EXCEPT !.content = job[h].text]
<1>t. TableTyped
  BY DEF IInv, TableInv
<1>1. ASSUME NEW h \in Job, WriteEdit(h)
      PROVE  /\ At(h, "write") /\ job[h].msg = m /\ job[h].user = message[m].sender
             /\ message'[m] = [message[m] EXCEPT !.content = job[h].text]
  <2>1. At(h, "write") /\ job[h].msg = m
    BY <1>1, <1>t DEF WriteEdit, TableTyped
  <2>2. job[h].user = message[m].sender
    BY <2>1 DEF Checked
  <2>3. message'[m] = [message[m] EXCEPT !.content = IF job[h].text # known[m].content THEN job[h].text ELSE @]
    BY <1>1, <1>t, <2>1 DEF WriteEdit, TableTyped
  <2>4. message'[m] = [message[m] EXCEPT !.content = job[h].text]
    <3>1. job[h].text # known[m].content
      BY <2>3, <1>t, RowType DEF Log!MessageRow
    <3> QED BY <2>3, <3>1
  <2> QED BY <2>1, <2>2, <2>4
<1>2. ASSUME NEW h \in Job, NEW n \in Message, Create(h, n) PROVE FALSE
  BY <1>2, <1>t DEF Create, Log!Post, TableTyped
<1>3. ASSUME NEW h \in Job,
             FindRoom(h) \/ CheckMember(h) \/ LastSeen(h) \/ FindParent(h) \/ CheckEdit(h) \/ Reload(h)
               \/ Emit(h) \/ React(h) \/ Fail(h)
      PROVE  FALSE
  BY <1>3 DEF FindRoom, CheckMember, LastSeen, FindParent, CheckEdit, Reload, Emit, React, Fail, table
<1>4. ASSUME NEW h \in Job, NEW s \in Socket, Start(h, s) PROVE FALSE
  BY <1>4 DEF Start, StartIn, StartEdit, StartReact, table
<1>5. CASE Rest
  BY <1>5 DEF Rest, RestPost, RestEdit, RestDelete
<1>6. CASE Restart
  BY <1>6 DEF Restart
<1> QED BY <1>1, <1>2, <1>3, <1>4, <1>5, <1>6 DEF Next, Continue, vars

\* An edit over a socket is its sender's, however stale the copy of the message
\* it was checked on.
THEOREM SendersEdit == Spec => EditsBySender
<1>1. Init /\ [][Next]_vars => [](IInv /\ Checked)
  <2>1. IInv /\ Checked /\ [Next]_vars => (IInv /\ Checked)'
    BY NextIInv, CheckedStep
  <2> QED BY <2>1, InitIInv, CheckedInit, PTL
<1>2. IInv /\ Checked /\ [Next]_vars =>
        [\A m \in Message :
           Log!Posted(m) /\ m \notin mixed /\ message'[m] # message[m] /\ job' # job =>
             \E h \in Job :
               /\ At(h, "write") /\ job[h].msg = m /\ job[h].user = message[m].sender
               /\ message'[m] = [message[m] EXCEPT !.content = job[h].text]]_vars
  BY EditStep
<1> QED BY <1>1, <1>2, PTL DEF Spec, EditsBySender
=============================================================================
