---------------------------- MODULE RoomsProofs ----------------------------
(***************************************************************************)
(* Proofs about Rooms, for every set of users, rooms, row ids and request  *)
(* slots.                                                                  *)
(***************************************************************************)
EXTENDS Rooms, TLAPS

OnMember == {"add", "join", "remove", "role"}
OnRoom == OnMember \cup {"update", "delete"}
Loaded == {"access", "lookup", "insert", "removal", "findRow", "setRole", "write"}

\* Which kinds of request can be where, and the fields that are filled there.
Shape(r) ==
  /\ ~At(r, "idle") => req[r].caller \in User /\ Of(r, Kind)
  /\ req[r].pc \in {"findDirect", "insertRoom"} => Of(r, {"create"}) /\ req[r].caller \in req[r].users
  /\ req[r].pc \in Loaded \cup {"load"} => Of(r, OnRoom)
  /\ At(r, "access") => Of(r, OnMember)
  /\ req[r].pc \in {"lookup", "insert"} => Of(r, {"add", "join"})
  /\ At(r, "removal") => Of(r, {"remove"})
  /\ req[r].pc \in {"findRow", "setRole"} => Of(r, {"role"})
  /\ At(r, "write") => Of(r, {"update", "delete"})
  /\ Of(r, OnRoom) => req[r].room \in Room /\ Created(req[r].room)
  /\ Of(r, OnMember) => req[r].target \in User
  /\ req[r].pc \in Loaded => req[r].snap \in RoomRow
  /\ At(r, "setRole") => req[r].row \in RoomUserId

\* What remains true of the room a request has loaded: its owner, whether it is
\* direct, and that it has been open if it was then.
Snapshot(r) ==
  LET q == req[r] IN
  q.pc \in Loaded =>
    /\ q.snap.isActive
    /\ q.snap.isDirect = room[q.room].isDirect
    /\ q.snap.ownerId = room[q.room].ownerId
    /\ Open(q.snap) => hist[q.room].opened
    /\ Of(r, {"add", "join"}) => ~q.snap.isDirect
    /\ Of(r, {"join"}) => Open(q.snap)

\* What the checks a request has passed still say.
Checked(r) ==
  LET q == req[r] IN
  /\ q.pc \in {"lookup", "insert"} => q.caller \in hist[q.room].everIn \/ hist[q.room].opened
  /\ At(r, "removal") => q.caller \in {q.snap.ownerId, q.target}
  /\ q.pc \in {"findRow", "setRole", "write"} => q.caller = q.snap.ownerId
  /\ At(r, "setRole") => roomUser[q.row] = Gone \/ (Present(q.row) /\ roomUser[q.row].room = q.room)

\* The memberships a removal saw are its own or gone, and gone when it is
\* answered; the answer of a creation.
Done(r) ==
  LET q == req[r] IN
  /\ Of(r, {"remove"}) => \A k \in q.seen : roomUser[k] = Gone \/ k \in RowsOf(q.room, q.target)
  /\ Of(r, {"remove"}) /\ At(r, "ok") => \A k \in q.seen : roomUser[k] = Gone
  /\ Of(r, {"create"}) /\ At(r, "ok") =>
       q.room \in Room /\ Created(q.room) /\ q.users \subseteq hist[q.room].everIn

Own(r) == Shape(r) /\ Snapshot(r) /\ Checked(r) /\ Done(r)

\* The history agrees with the tables.
Recorded ==
  /\ \A k \in RoomUserId : Present(k) =>
       Created(roomUser[k].room) /\ roomUser[k].user \in hist[roomUser[k].room].everIn
  /\ \A i \in Room : Created(i) /\ Open(room[i]) => hist[i].opened

IInv ==
  /\ TypeOK
  /\ Recorded /\ DirectRoomsClosed /\ PrivateByInvitation
  /\ \A r \in Req : Own(r)

-----------------------------------------------------------------------------
(* Types, and what every step leaves of the tables *)

\* A created room has a row.
LEMMA RoomType ==
  ASSUME TypeOK, NEW i \in Room, Created(i)
  PROVE  room[i] \in RoomRow
BY DEF TypeOK, Created

\* A membership that is present has a row.
LEMMA MembershipType ==
  ASSUME TypeOK, NEW k \in RoomUserId, Present(k)
  PROVE  roomUser[k] \in RoomUser
BY DEF TypeOK, Present

\* Rooms are never removed, turned direct or given away, memberships move only
\* to Gone, and the history only grows.
Evolves ==
  /\ \A i \in Room : Created(i) =>
       /\ Created(i)'
       /\ room'[i].isDirect = room[i].isDirect
       /\ room'[i].ownerId = room[i].ownerId
       /\ hist[i].everIn \subseteq hist'[i].everIn
       /\ hist[i].opened => hist'[i].opened
  /\ \A k \in RoomUserId :
       /\ roomUser[k] = Gone => roomUser'[k] = Gone
       /\ Present(k) =>
            \/ roomUser'[k] = Gone
            \/ /\ Present(k)'
               /\ roomUser'[k].room = roomUser[k].room
               /\ roomUser'[k].user = roomUser[k].user

\* A step of one request leaves what is known of the others.
LEMMA Bystander ==
  ASSUME TypeOK, NEW s \in Req, Own(s), Evolves, req'[s] = req[s]
  PROVE  Own(s)'
<1>t. req[s] \in Request
  BY DEF TypeOK
<1>1. Shape(s)'
  BY DEF Own, Shape, Evolves, At, Of
<1>2. req[s].pc \in Loaded => req[s].room \in Room /\ Created(req[s].room)
  BY DEF Own, Shape, Loaded, Of, At
<1>3. Snapshot(s)'
  BY <1>2 DEF Own, Snapshot, Evolves, Of, Open
<1>4. Checked(s)'
  <2>1. req[s].pc \in {"lookup", "insert", "setRole"} => req[s].pc \in Loaded
    BY DEF Loaded
  <2>2. At(s, "setRole") => req[s].row \in RoomUserId
    BY DEF Own, Shape
  <2> QED BY <1>2, <2>1, <2>2 DEF Own, Checked, Evolves, At, Present
<1>5. Done(s)'
  <2>1. ASSUME Of(s, {"remove"}), NEW k \in req[s].seen
        PROVE  /\ roomUser'[k] = Gone \/ (k \in RowsOf(req[s].room, req[s].target))'
               /\ At(s, "ok") => roomUser'[k] = Gone
    <3>1. k \in RoomUserId
      BY <1>t, <2>1 DEF Request
    <3>2. roomUser[k] = Gone \/ k \in RowsOf(req[s].room, req[s].target)
      BY <2>1 DEF Own, Done
    <3>3. At(s, "ok") => roomUser[k] = Gone
      BY <2>1 DEF Own, Done
    <3> QED BY <3>1, <3>2, <3>3 DEF Evolves, RowsOf
  <2>2. Of(s, {"create"})' /\ At(s, "ok")' =>
          /\ req'[s].room \in Room /\ (Created(req[s].room))'
          /\ req'[s].users \subseteq hist'[req'[s].room].everIn
    BY DEF Own, Done, Of, At, Evolves
  <2> QED BY <2>1, <2>2 DEF Done, Of, At
<1> QED BY <1>1, <1>3, <1>4, <1>5 DEF Own

\* Unchanged tables evolve.
LEMMA Still ==
  ASSUME UNCHANGED <<room, roomUser, hist>>
  PROVE  Evolves
BY DEF Evolves, Created, Present

\* A step of one request that leaves the tables alone.
LEMMA QuietStep ==
  ASSUME IInv, NEW r \in Req, NEW q \in Request, req' = [req EXCEPT ![r] = q],
         UNCHANGED <<room, roomUser, hist>>, Own(r)'
  PROVE  IInv'
<1>1. TypeOK'
  BY DEF IInv, TypeOK
<1>2. /\ Recorded'
      /\ DirectRoomsClosed'
      /\ PrivateByInvitation'
  BY DEF IInv, Recorded, DirectRoomsClosed, PrivateByInvitation, Created, Present
<1>3. ASSUME NEW s \in Req PROVE Own(s)'
  <2>1. CASE s = r
    BY <2>1
  <2>2. CASE s # r
    <3>1. req'[s] = req[s]
      BY <2>2 DEF IInv, TypeOK
    <3> QED BY <3>1, Still, Bystander DEF IInv
  <2> QED BY <2>1, <2>2
<1> QED BY <1>1, <1>2, <1>3 DEF IInv

-----------------------------------------------------------------------------
(* The steps that leave the tables alone *)

\* Init and the history agree.
LEMMA InitIInv == Init => IInv
<1> SUFFICES ASSUME Init PROVE IInv
  OBVIOUS
<1> USE RoomsAssumption, RoomTableAssumption DEF Init
<1>1. TypeOK
  BY DEF TypeOK, Request, History, Idle, NoForm, Form, Role, PC
<1>2. Recorded /\ DirectRoomsClosed /\ PrivateByInvitation
  BY DEF Recorded, DirectRoomsClosed, PrivateByInvitation, Created, Present
<1>3. ASSUME NEW r \in Req PROVE Own(r)
  <2>1. req[r] = Idle
    OBVIOUS
  <2>2. /\ Idle.pc = "idle" /\ Idle.kind = None
        /\ None \notin OnRoom /\ None \notin {"remove"} /\ None \notin {"create"}
    BY DEF Idle, OnRoom, OnMember, Kind
  <2> QED BY <2>1, <2>2 DEF Own, Shape, Snapshot, Checked, Done, At, Of, Loaded, OnRoom, OnMember
<1> QED BY <1>1, <1>2, <1>3 DEF IInv

\* A request that is created names a caller and the users it is for.
LEMMA StartCreateStep ==
  ASSUME IInv, NEW r \in Req, NEW c \in User, NEW S \in SUBSET User, NEW form \in Form,
         StartCreate(r, c, S, form)
  PROVE  IInv'
<1>1. PICK q : q = [Idle EXCEPT !.kind = "create", !.caller = c, !.users = S \cup {c}, !.form = form,
                      !.pc = IF form.isDirect THEN "findDirect" ELSE "insertRoom"]
  OBVIOUS
<1>2. q \in Request
  BY <1>1 DEF Request, Idle, NoForm, Form, Role, PC, Kind
<1>3. req' = [req EXCEPT ![r] = q] /\ UNCHANGED <<room, roomUser, hist>>
  BY <1>1 DEF StartCreate
<1>4. req'[r] = q
  BY <1>3 DEF IInv, TypeOK
<1>5. /\ q.pc \in {"findDirect", "insertRoom"} /\ q.kind = "create"
      /\ q.caller \in User /\ q.caller \in q.users
  BY <1>1 DEF Idle
<1>6. Own(r)'
  BY <1>4, <1>5 DEF Own, Shape, Snapshot, Checked, Done, At, Of, Loaded, OnRoom, OnMember, Kind
<1> QED BY <1>2, <1>3, <1>6, QuietStep

\* A request on a room names its caller, the room and, if it has one, its target.
LEMMA StartOnStep ==
  ASSUME IInv, NEW r \in Req, NEW kind \in OnRoom, NEW c \in User, NEW t \in User \cup {None},
         NEW i \in Room, NEW form \in Form, NEW role \in Role,
         kind \in OnMember => t \in User,
         StartOn(r, kind, c, t, i, form, role)
  PROVE  IInv'
<1>1. PICK seen : seen = {k \in RoomUserId : \E u \in User : u = t /\ k \in RowsOf(i, u)}
  OBVIOUS
<1>2. PICK q : q = [Idle EXCEPT !.kind = kind, !.pc = "load", !.caller = c, !.target = t, !.room = i,
                      !.form = form, !.role = role, !.seen = seen]
  OBVIOUS
<1>3. q \in Request
  BY <1>1, <1>2 DEF Request, Idle, NoForm, Form, Role, PC, Kind, OnRoom, OnMember
<1>4. req' = [req EXCEPT ![r] = q] /\ UNCHANGED <<room, roomUser, hist>> /\ Created(i)
  BY <1>1, <1>2 DEF StartOn
<1>5. req'[r] = q
  BY <1>4 DEF IInv, TypeOK
<1>6. /\ q.pc = "load" /\ q.kind = kind /\ q.caller = c /\ q.target = t
      /\ q.room = i /\ q.seen = seen
  BY <1>2 DEF Idle
<1>7. (Shape(r) /\ Snapshot(r) /\ Checked(r))'
  BY <1>4, <1>5, <1>6 DEF Shape, Snapshot, Checked, At, Of, Loaded, OnRoom, OnMember, Kind, Created
<1>8. \A k \in seen : k \in RowsOf(i, t)'
  BY <1>1, <1>4 DEF RowsOf, Present
<1>9. Done(r)'
  <2>1. q.pc # "ok" /\ q.kind # "create"
    BY <1>6 DEF OnRoom, OnMember
  <2> QED BY <1>5, <1>6, <1>8, <2>1 DEF Done, At, Of
<1> QED BY <1>3, <1>4, <1>7, <1>9, QuietStep DEF Own

\* A step that only moves a request on.
LEMMA GoStep ==
  ASSUME IInv, NEW r \in Req, NEW pc \in PC, Go(r, pc), UNCHANGED <<room, roomUser, hist>>,
         Own(r)'
  PROVE  IInv'
<1>1. [req[r] EXCEPT !.pc = pc] \in Request
  BY DEF IInv, TypeOK, Request
<1>2. req' = [req EXCEPT ![r] = [req[r] EXCEPT !.pc = pc]]
  BY DEF Go
<1> QED BY <1>1, <1>2, QuietStep

\* The direct room found has all the users among its members.
LEMMA FindDirectStep ==
  ASSUME IInv, NEW r \in Req, FindDirect(r)
  PROVE  IInv'
<1> DEFINE q == req[r]
<1>t. TypeOK /\ Own(r) /\ req[r] \in Request
  BY DEF IInv, TypeOK
<1>u. UNCHANGED <<room, roomUser, hist>> /\ At(r, "findDirect")
  BY DEF FindDirect
<1>k. Of(r, {"create"}) /\ req[r].caller \in User /\ req[r].caller \in req[r].users
  BY <1>t, <1>u DEF Own, Shape, At
<1>1. CASE Go(r, "insertRoom")
  <2>1. req'[r] = [req[r] EXCEPT !.pc = "insertRoom"]
    BY <1>1, <1>t DEF Go, TypeOK
  <2>2. Own(r)'
    BY <1>k, <2>1, <1>t
    DEF Own, Shape, Snapshot, Checked, Done, At, Of, Loaded, OnRoom, OnMember, Kind, Request
  <2> QED BY <1>1, <1>u, <2>2, GoStep DEF PC
<1>2. ASSUME NEW i \in DirectRoomsWith(req[r].users),
             req' = [req EXCEPT ![r].pc = "ok", ![r].room = i]
      PROVE  IInv'
  <2>1. PICK p : p = [req[r] EXCEPT !.pc = "ok", !.room = i]
    OBVIOUS
  <2>2. i \in Room /\ Created(i) /\ req[r].users \subseteq MembersOf(i)
    BY <1>2 DEF DirectRoomsWith
  <2>3. MembersOf(i) \subseteq hist[i].everIn
    BY DEF MembersOf, IsUserInRoom, RowsOf, IInv, Recorded
  <2>4. p \in Request
    BY <1>t, <2>1, <2>2 DEF Request, PC
  <2>5. req' = [req EXCEPT ![r] = p]
    BY <1>2, <2>1
  <2>6. req'[r] = p
    BY <2>5, <1>t DEF TypeOK
  <2>7. /\ p.pc = "ok" /\ p.kind = "create" /\ p.caller \in User
        /\ p.room = i /\ p.users = req[r].users
    BY <1>k, <1>t, <2>1 DEF Of, Request
  <2>8. Done(r)'
    BY <1>u, <2>2, <2>3, <2>6, <2>7 DEF Done, At, Of, Created
  <2>9. (Shape(r) /\ Snapshot(r) /\ Checked(r))'
    BY <2>6, <2>7 DEF Shape, Snapshot, Checked, At, Of, Loaded, OnRoom, OnMember, Kind
  <2> QED BY <1>u, <2>4, <2>5, <2>8, <2>9, QuietStep DEF Own
<1> QED BY <1>1, <1>2 DEF FindDirect

\* A request that ends without success keeps nothing to account for.
LEMMA EndStep ==
  ASSUME IInv, NEW r \in Req, NEW pc \in {"failed", "ok"}, ~At(r, "idle"), Go(r, pc),
         UNCHANGED <<room, roomUser, hist>>,
         pc = "ok" => ~Of(r, {"create", "remove"})
  PROVE  IInv'
<1>t. TypeOK /\ Own(r) /\ req[r] \in Request
  BY DEF IInv, TypeOK
<1>1. req'[r] = [req[r] EXCEPT !.pc = pc]
  BY <1>t DEF Go, TypeOK
<1>2. req'[r].pc = pc /\ pc \notin Loaded \cup {"load", "idle", "findDirect", "insertRoom"}
  BY <1>1, <1>t DEF Request, Loaded
<1>3. (Shape(r) /\ Snapshot(r) /\ Checked(r))'
  BY <1>1, <1>2, <1>t DEF Own, Shape, Snapshot, Checked, At, Of, Loaded, Created, Request
<1>4. Done(r)'
  BY <1>1, <1>2, <1>t DEF Own, Done, At, Of, RowsOf, Present, Request
<1>5. Own(r)'
  BY <1>3, <1>4 DEF Own
<1> QED BY <1>5, GoStep DEF PC

LEMMA FailStep == ASSUME IInv, NEW r \in Req, Fail(r) PROVE IInv'
BY EndStep DEF Fail, At

\* What getRoomById returned passed the checks of Refused.
LEMMA LoadRoomStep ==
  ASSUME IInv, NEW r \in Req, LoadRoom(r)
  PROVE  IInv'
<1>t. TypeOK /\ Own(r) /\ req[r] \in Request
  BY DEF IInv, TypeOK
<1>u. UNCHANGED <<room, roomUser, hist>> /\ At(r, "load")
  BY DEF LoadRoom
<1>k. /\ Of(r, OnRoom) /\ req[r].caller \in User
      /\ req[r].room \in Room /\ Created(req[r].room)
  BY <1>t, <1>u DEF Own, Shape, At, Loaded
<1>1. CASE Go(r, "failed")
  BY <1>u, <1>1, EndStep DEF At
<1>2. CASE ~Go(r, "failed")
  <2>1. PICK rm : rm = room[req[r].room]
    OBVIOUS
  <2>2. rm \in RoomRow
    BY <1>t, <1>k, <2>1, RoomType
  <2>3. PICK pc \in {"write", "access"} : pc = IF Of(r, {"update", "delete"}) THEN "write" ELSE "access"
    OBVIOUS
  <2>4. PICK p : p = [req[r] EXCEPT !.snap = rm, !.pc = pc]
    OBVIOUS
  <2>5. ~Refused(req[r], rm) /\ req' = [req EXCEPT ![r] = p]
    BY <1>2, <2>1, <2>3, <2>4 DEF LoadRoom
  <2>6. p \in Request
    BY <1>t, <2>2, <2>4 DEF Request, PC
  <2>7. req'[r] = p
    BY <1>t, <2>5 DEF TypeOK
  <2>8. /\ p.pc = pc /\ p.snap = rm /\ p.kind = req[r].kind /\ p.caller = req[r].caller
        /\ p.room = req[r].room /\ p.target = req[r].target /\ p.seen = req[r].seen
    BY <1>t, <2>4 DEF Request
  <2>9. Shape(r)'
    BY <1>k, <1>t, <1>u, <2>2, <2>3, <2>7, <2>8
    DEF Own, Shape, At, Of, Loaded, OnRoom, OnMember, Created
  <2>10. Snapshot(r)'
    <3>1. Open(rm) => hist[req[r].room].opened
      BY <1>k, <2>1 DEF IInv, Recorded
    <3>2. rm.isActive
      BY <2>5 DEF Refused
    <3>3. /\ Of(r, {"add", "join"}) => ~rm.isDirect
          /\ Of(r, {"join"}) => ~rm.isPrivate
      BY <2>5 DEF Refused, Of
    <3> QED BY <1>u, <2>1, <2>7, <2>8, <3>1, <3>2, <3>3 DEF Snapshot, Of, Open
  <2>11. Checked(r)'
    BY <2>3, <2>5, <2>7, <2>8 DEF Checked, At, Of, Refused
  <2>12. Done(r)'
    BY <1>t, <1>u, <2>3, <2>7, <2>8 DEF Own, Done, At, Of, RowsOf, Present
  <2> QED BY <1>u, <2>5, <2>6, <2>9, <2>10, <2>11, <2>12, QuietStep DEF Own
<1> QED BY <1>1, <1>2

\* A step to another check or statement, whose conditions have been tested.
LEMMA AdvanceStep ==
  ASSUME IInv, NEW r \in Req, NEW pc \in Loaded, req[r].pc \in Loaded,
         Go(r, pc), UNCHANGED <<room, roomUser, hist>>,
         /\ pc \in {"lookup", "insert"} => Of(r, {"add", "join"})
         /\ pc = "removal" => Of(r, {"remove"})
         /\ pc = "findRow" => Of(r, {"role"})
         /\ pc \notin {"setRole", "write", "access"},
         /\ pc \in {"lookup", "insert"} =>
              req[r].caller \in hist[req[r].room].everIn \/ hist[req[r].room].opened
         /\ pc = "removal" => req[r].caller \in {req[r].snap.ownerId, req[r].target}
         /\ pc = "findRow" => req[r].caller = req[r].snap.ownerId
  PROVE  IInv'
<1>t. TypeOK /\ Own(r) /\ req[r] \in Request
  BY DEF IInv, TypeOK
<1>1. PICK p : p = [req[r] EXCEPT !.pc = pc]
  OBVIOUS
<1>2. req'[r] = p
  BY <1>t, <1>1 DEF Go, TypeOK
<1>3. /\ p.pc = pc /\ p.snap = req[r].snap /\ p.kind = req[r].kind /\ p.caller = req[r].caller
      /\ p.room = req[r].room /\ p.target = req[r].target /\ p.seen = req[r].seen
  BY <1>t, <1>1 DEF Request
<1>4. Shape(r)'
  BY <1>2, <1>3, <1>t DEF Own, Shape, At, Of, Loaded, Created
<1>5. Snapshot(r)'
  BY <1>2, <1>3, <1>t DEF Own, Snapshot, Of
<1>6. Checked(r)'
  BY <1>2, <1>3 DEF Checked, At
<1>7. Done(r)'
  <2>1. pc # "ok"
    BY DEF Loaded
  <2> QED BY <1>2, <1>3, <1>t, <2>1 DEF Own, Done, At, Of, RowsOf, Present
<1> QED BY <1>4, <1>5, <1>6, <1>7, GoStep DEF Own, PC, Loaded

\* A member is on record as having been one.
LEMMA MembersRecorded ==
  ASSUME Recorded, NEW u \in User, NEW i \in Room, IsUserInRoom(u, i)
  PROVE  u \in hist[i].everIn
BY DEF Recorded, IsUserInRoom, RowsOf

\* Whoever passes the checks is a member, or the room has been open.
LEMMA AccessStep ==
  ASSUME IInv, NEW r \in Req, Access(r)
  PROVE  IInv'
<1>t. TypeOK /\ Own(r) /\ req[r] \in Request /\ Recorded
  BY DEF IInv, TypeOK
<1>u. UNCHANGED <<room, roomUser, hist>> /\ req[r].pc = "access"
  BY DEF Access, At
<1>k. req[r].pc \in Loaded /\ ~At(r, "idle")
  BY <1>u DEF Loaded, At
<1>c. req[r].caller \in User /\ req[r].room \in Room
  BY <1>t, <1>k DEF Own, Shape, At, Of
<1>m. IsUserInRoom(req[r].caller, req[r].room) => req[r].caller \in hist[req[r].room].everIn
  BY <1>t, <1>c, MembersRecorded
<1>o. Open(req[r].snap) => hist[req[r].room].opened
  BY <1>t, <1>k DEF Own, Snapshot
<1>1. ASSUME Go(r, "failed") PROVE IInv'
  BY <1>1, <1>u, <1>k, EndStep
<1>2. ASSUME req[r].kind \in {"add", "join"}, Go(r, "lookup"),
             \/ IsUserInRoom(req[r].caller, req[r].room)
             \/ Open(req[r].snap)
      PROVE  IInv'
  <2>1. "lookup" \in Loaded
    BY DEF Loaded
  <2> QED BY <1>2, <1>u, <1>k, <1>m, <1>o, <2>1, AdvanceStep DEF Of
<1>3. CASE req[r].kind = "join"
  <2>1. Open(req[r].snap)
    BY <1>t, <1>k, <1>3 DEF Own, Snapshot, Of
  <2>2. ASSUME Go(r, "ok") PROVE IInv'
    BY <2>2, <1>3, <1>u, <1>k, EndStep DEF Of
  <2> QED BY <1>2, <1>3, <2>1, <2>2 DEF Access
<1>4. CASE req[r].kind = "add"
  BY <1>1, <1>2, <1>4 DEF Access, CanUserJoin
<1>5. CASE req[r].kind = "remove"
  <2>1. ASSUME Go(r, "removal"), req[r].snap.ownerId = req[r].caller \/ req[r].target = req[r].caller
        PROVE  IInv'
    <3>1. "removal" \in Loaded
      BY DEF Loaded
    <3> QED BY <2>1, <3>1, <1>5, <1>u, <1>k, AdvanceStep DEF Of
  <2> QED BY <1>1, <1>5, <2>1 DEF Access
<1>6. CASE req[r].kind = "role"
  <2>1. ASSUME Go(r, "findRow"), req[r].snap.ownerId = req[r].caller PROVE IInv'
    <3>1. "findRow" \in Loaded
      BY DEF Loaded
    <3> QED BY <2>1, <3>1, <1>6, <1>u, <1>k, AdvanceStep DEF Of
  <2> QED BY <1>1, <1>6, <2>1 DEF Access
<1> QED BY <1>3, <1>4, <1>5, <1>6 DEF Access

LEMMA LookupStep ==
  ASSUME IInv, NEW r \in Req, Lookup(r)
  PROVE  IInv'
<1>t. Own(r) /\ UNCHANGED <<room, roomUser, hist>> /\ req[r].pc = "lookup"
  BY DEF IInv, Lookup, At
<1>k. /\ req[r].pc \in Loaded /\ ~At(r, "idle") /\ Of(r, {"add", "join"})
      /\ req[r].caller \in hist[req[r].room].everIn \/ hist[req[r].room].opened
  BY <1>t DEF Loaded, At, Own, Shape, Checked
<1>1. ASSUME Go(r, "insert") PROVE IInv'
  <2>1. "insert" \in Loaded
    BY DEF Loaded
  <2> QED BY <1>1, <1>t, <1>k, <2>1, AdvanceStep
<1>2. ASSUME Go(r, "ok") PROVE IInv'
  BY <1>2, <1>t, <1>k, EndStep DEF Of
<1> QED BY <1>1, <1>2 DEF Lookup

\* The row updateUserRole finds is one of the room.
LEMMA FindRowStep ==
  ASSUME IInv, NEW r \in Req, FindRow(r)
  PROVE  IInv'
<1>t. TypeOK /\ Own(r) /\ req[r] \in Request
  BY DEF IInv, TypeOK
<1>u. UNCHANGED <<room, roomUser, hist>> /\ req[r].pc = "findRow"
  BY DEF FindRow, At
<1>k. /\ req[r].pc \in Loaded /\ ~At(r, "idle") /\ Of(r, {"role"})
      /\ req[r].caller = req[r].snap.ownerId
  BY <1>t, <1>u DEF Loaded, At, Own, Shape, Checked
<1>1. CASE Go(r, "failed")
  BY <1>1, <1>u, <1>k, EndStep
<1>2. ASSUME NEW k \in RowsOf(req[r].room, req[r].target),
             NEW pc \in {"ok", "setRole"},
             req' = [req EXCEPT ![r].row = k, ![r].pc = pc]
      PROVE  IInv'
  <2>1. k \in RoomUserId /\ Present(k) /\ roomUser[k].room = req[r].room
    BY DEF RowsOf
  <2>2. PICK p : p = [req[r] EXCEPT !.row = k, !.pc = pc]
    OBVIOUS
  <2>3. p \in Request
    BY <1>t, <2>1, <2>2 DEF Request, PC
  <2>4. req' = [req EXCEPT ![r] = p]
    BY <1>2, <2>2
  <2>5. req'[r] = p
    BY <1>t, <2>4 DEF TypeOK
  <2>6. /\ p.pc = pc /\ p.row = k /\ p.snap = req[r].snap /\ p.kind = req[r].kind
        /\ p.caller = req[r].caller /\ p.room = req[r].room /\ p.target = req[r].target
    BY <1>t, <2>2 DEF Request
  <2>7. Shape(r)'
    BY <1>k, <1>t, <1>u, <2>1, <2>5, <2>6 DEF Own, Shape, At, Of, Loaded, Created
  <2>8. Snapshot(r)'
    BY <1>k, <1>t, <1>u, <2>5, <2>6 DEF Own, Snapshot, Of
  <2>9. Checked(r)'
    BY <1>k, <1>u, <2>1, <2>5, <2>6 DEF Checked, At, Present
  <2>10. Done(r)'
    BY <1>k, <2>5, <2>6 DEF Done, At, Of
  <2> QED BY <1>u, <2>3, <2>4, <2>7, <2>8, <2>9, <2>10, QuietStep DEF Own
<1> QED BY <1>1, <1>2 DEF FindRow

-----------------------------------------------------------------------------
(* The steps that write *)

\* A step that changes the tables the way every step may, and answers.
LEMMA WriteStep ==
  ASSUME IInv, NEW r \in Req, NEW q \in Request, req' = [req EXCEPT ![r] = q], Evolves,
         room' \in [Room -> RoomRow \cup {Unused}],
         roomUser' \in [RoomUserId -> RoomUser \cup {Unused, Gone}],
         hist' \in [Room -> History],
         Recorded', DirectRoomsClosed', PrivateByInvitation', Own(r)'
  PROVE  IInv'
<1>1. TypeOK'
  BY DEF IInv, TypeOK
<1>2. ASSUME NEW s \in Req PROVE Own(s)'
  <2>1. CASE s = r
    BY <2>1
  <2>2. CASE s # r
    <3>1. req'[s] = req[s]
      BY <2>2 DEF IInv, TypeOK
    <3> QED BY <3>1, Bystander DEF IInv
  <2> QED BY <2>1, <2>2
<1> QED BY <1>1, <1>2 DEF IInv

\* The answer to a request on a room.
LEMMA AnswerStep ==
  ASSUME IInv, NEW r \in Req, Evolves, Go(r, "ok"), req[r].pc \in Loaded,
         Of(r, {"remove"}) => \A k \in req[r].seen : roomUser'[k] = Gone,
         room' \in [Room -> RoomRow \cup {Unused}],
         roomUser' \in [RoomUserId -> RoomUser \cup {Unused, Gone}],
         hist' \in [Room -> History],
         Recorded', DirectRoomsClosed', PrivateByInvitation'
  PROVE  IInv'
<1>t. TypeOK /\ Own(r) /\ req[r] \in Request
  BY DEF IInv, TypeOK
<1>1. PICK p : p = [req[r] EXCEPT !.pc = "ok"]
  OBVIOUS
<1>2. p \in Request
  BY <1>t, <1>1 DEF Request, PC
<1>3. req' = [req EXCEPT ![r] = p]
  BY <1>1 DEF Go
<1>4. req'[r] = p
  BY <1>t, <1>3 DEF TypeOK
<1>5. /\ p.pc = "ok" /\ p.kind = req[r].kind /\ p.caller = req[r].caller
      /\ p.room = req[r].room /\ p.target = req[r].target /\ p.seen = req[r].seen
  BY <1>t, <1>1 DEF Request
<1>6. /\ req[r].kind \in OnRoom /\ req[r].caller \in User
      /\ req[r].room \in Room /\ Created(req[r].room)
      /\ Of(r, OnMember) => req[r].target \in User
  BY <1>t DEF Own, Shape, Loaded, At, Of
<1>7. (Created(req[r].room))'
  BY <1>4, <1>5, <1>6 DEF Evolves
<1>8. Shape(r)'
  BY <1>4, <1>5, <1>6, <1>7 DEF Shape, At, Of, Loaded, OnRoom, OnMember, Kind
<1>9. (Snapshot(r) /\ Checked(r))'
  BY <1>4, <1>5 DEF Snapshot, Checked, At, Loaded
<1>10. Done(r)'
  <2>1. req[r].kind # "create"
    BY <1>6 DEF OnRoom, OnMember
  <2> QED BY <1>4, <1>5, <2>1 DEF Done, At, Of
<1> QED BY <1>2, <1>3, <1>8, <1>9, <1>10, WriteStep DEF Own

\* The member inserted was checked against a room that cannot have become direct.
LEMMA InsertStep ==
  ASSUME IInv, NEW r \in Req, NEW k \in RoomUserId, Insert(r, k)
  PROVE  IInv'
<1> USE RoomTableAssumption
<1>t. /\ TypeOK /\ Own(r) /\ req[r] \in Request
      /\ Recorded /\ DirectRoomsClosed /\ PrivateByInvitation
  BY DEF IInv, TypeOK
<1>u. /\ req[r].pc = "insert" /\ roomUser[k] = Unused /\ room' = room /\ Go(r, "ok")
      /\ roomUser' = Joined(k, req[r].room, req[r].target)
  BY DEF Insert, At
<1>k. /\ req[r].pc \in Loaded /\ ~Of(r, {"remove"}) /\ Of(r, {"add", "join"})
      /\ req[r].room \in Room /\ Created(req[r].room) /\ req[r].target \in User
      /\ req[r].caller \in User
  BY <1>t, <1>u DEF Own, Shape, At, Of, Loaded, OnRoom, OnMember
<1>1. PICK i \in Room : i = req[r].room
  BY <1>k
<1>2. PICK t \in User : t = req[r].target
  BY <1>k
<1>3. /\ Created(i) /\ ~room[i].isDirect
      /\ req[r].caller \in hist[i].everIn \/ hist[i].opened
  BY <1>t, <1>u, <1>k, <1>1 DEF Own, Snapshot, Checked
<1>4. PICK row : row = [room |-> i, user |-> t, role |-> "member"]
  OBVIOUS
<1>5. row \in RoomUser /\ row # Gone /\ row # Unused /\ row.room = i /\ row.user = t
  BY <1>4 DEF RoomUser, Role
<1>6. roomUser' = [roomUser EXCEPT ![k] = row]
  BY <1>1, <1>2, <1>4, <1>u DEF Joined
<1>7. PICK h : h = [hist[i] EXCEPT !.everIn = @ \cup {t},
                      !.uninvited = IF req[r].caller \in hist[i].everIn THEN @ ELSE @ \cup {t}]
  OBVIOUS
<1>8. hist' = [hist EXCEPT ![i] = h]
  BY <1>1, <1>2, <1>7, <1>t DEF Insert, TypeOK, History
<1>9. /\ h \in History /\ h.everIn = hist[i].everIn \cup {t} /\ h.opened = hist[i].opened
      /\ h.founders = hist[i].founders
      /\ req[r].caller \in hist[i].everIn => h.uninvited = hist[i].uninvited
  BY <1>7, <1>t DEF TypeOK, History
<1>10. hist'[i] = h /\ \A j \in Room : j # i => hist'[j] = hist[j]
  BY <1>8, <1>t DEF TypeOK
<1>11. roomUser'[k] = row /\ \A l \in RoomUserId : l # k => roomUser'[l] = roomUser[l]
  BY <1>6, <1>t DEF TypeOK
<1>12. /\ roomUser' \in [RoomUserId -> RoomUser \cup {Unused, Gone}]
       /\ hist' \in [Room -> History]
       /\ room' \in [Room -> RoomRow \cup {Unused}]
  BY <1>5, <1>6, <1>8, <1>9, <1>t, <1>u DEF TypeOK
<1>13. Evolves
  BY <1>u, <1>9, <1>10, <1>11 DEF Evolves, Created, Present
<1>14. Recorded'
  <2>1. ASSUME NEW l \in RoomUserId, Present(l)'
        PROVE  /\ (Created(roomUser[l].room))'
               /\ roomUser'[l].user \in hist'[roomUser'[l].room].everIn
    <3>1. CASE l = k
      BY <3>1, <1>3, <1>5, <1>9, <1>10, <1>11, <1>u DEF Created
    <3>2. CASE l # k
      <4>1. roomUser'[l] = roomUser[l] /\ Present(l)
        BY <3>2, <2>1, <1>11 DEF Present
      <4>2. roomUser[l].room \in Room
        BY <4>1, <1>t, MembershipType DEF RoomUser
      <4>3. Created(roomUser[l].room) /\ roomUser[l].user \in hist[roomUser[l].room].everIn
        BY <4>1, <1>t DEF Recorded
      <4> QED BY <4>1, <4>2, <4>3, <1>9, <1>10, <1>u DEF Created
    <3> QED BY <3>1, <3>2
  <2>2. \A j \in Room : Created(j)' /\ Open(room'[j]) => hist'[j].opened
    BY <1>t, <1>u, <1>9, <1>10 DEF Recorded, Created
  <2> QED BY <2>1, <2>2 DEF Recorded
<1>15. DirectRoomsClosed'
  BY <1>t, <1>u, <1>3, <1>10 DEF DirectRoomsClosed, Created
<1>16. PrivateByInvitation'
  BY <1>t, <1>u, <1>3, <1>9, <1>10 DEF PrivateByInvitation, Created
<1> QED BY <1>u, <1>k, <1>12, <1>13, <1>14, <1>15, <1>16, AnswerStep

\* One DELETE takes every row of the target, those the removal saw included.
LEMMA RemoveStep ==
  ASSUME IInv, NEW r \in Req, Remove(r)
  PROVE  IInv'
<1> USE RoomTableAssumption
<1>t. /\ TypeOK /\ Own(r) /\ req[r] \in Request
      /\ Recorded /\ DirectRoomsClosed /\ PrivateByInvitation
  BY DEF IInv, TypeOK
<1>u. /\ req[r].pc = "removal" /\ room' = room /\ hist' = hist /\ Go(r, "ok")
      /\ roomUser' = Removed(req[r].room, req[r].target)
  BY DEF Remove, At
<1>k. req[r].pc \in Loaded /\ Of(r, {"remove"})
  BY <1>t, <1>u DEF Own, Shape, At, Of, Loaded
<1>1. \A k \in RoomUserId :
        roomUser'[k] = IF k \in RowsOf(req[r].room, req[r].target) THEN Gone ELSE roomUser[k]
  BY <1>u DEF Removed
<1>2. /\ roomUser' \in [RoomUserId -> RoomUser \cup {Unused, Gone}]
      /\ room' \in [Room -> RoomRow \cup {Unused}]
      /\ hist' \in [Room -> History]
  BY <1>t, <1>u DEF TypeOK, Removed
<1>3. Evolves
  BY <1>u, <1>1 DEF Evolves, Created, Present
<1>4. \A k \in req[r].seen : roomUser'[k] = Gone
  BY <1>t, <1>k, <1>1 DEF Own, Done, Request
<1>5. Recorded'
  <2>1. ASSUME NEW k \in RoomUserId, Present(k)'
        PROVE  /\ (Created(roomUser[k].room))'
               /\ roomUser'[k].user \in hist'[roomUser'[k].room].everIn
    <3>1. roomUser'[k] = roomUser[k] /\ Present(k)
      BY <1>1, <2>1 DEF Present
    <3>2. Created(roomUser[k].room) /\ roomUser[k].user \in hist[roomUser[k].room].everIn
      BY <1>t, <3>1 DEF Recorded
    <3> QED BY <3>1, <3>2, <1>u DEF Created
  <2> QED BY <2>1, <1>t, <1>u DEF Recorded, Created
<1>6. DirectRoomsClosed' /\ PrivateByInvitation'
  BY <1>t, <1>u DEF DirectRoomsClosed, PrivateByInvitation, Created
<1> QED BY <1>u, <1>k, <1>2, <1>3, <1>4, <1>5, <1>6, AnswerStep

\* A role is set on a row that is there, and on nothing if it is gone.
LEMMA SetRoleStep ==
  ASSUME IInv, NEW r \in Req, SetRole(r)
  PROVE  IInv'
<1> USE RoomTableAssumption
<1>t. /\ TypeOK /\ Own(r) /\ req[r] \in Request
      /\ Recorded /\ DirectRoomsClosed /\ PrivateByInvitation
  BY DEF IInv, TypeOK
<1>u. /\ req[r].pc = "setRole" /\ room' = room /\ hist' = hist /\ Go(r, "ok")
      /\ roomUser' = IF Present(req[r].row)
                     THEN [roomUser EXCEPT ![req[r].row].role = req[r].role] ELSE roomUser
  BY DEF SetRole, At
<1>k. req[r].pc \in Loaded /\ ~Of(r, {"remove"}) /\ req[r].row \in RoomUserId
  BY <1>t, <1>u DEF Own, Shape, At, Of, Loaded
<1>1. ASSUME NEW k \in RoomUserId
      PROVE  \/ roomUser'[k] = roomUser[k]
             \/ /\ Present(k) /\ roomUser'[k] \in RoomUser
                /\ roomUser'[k].room = roomUser[k].room /\ roomUser'[k].user = roomUser[k].user
  <2>1. CASE Present(k) /\ k = req[r].row
    <3>1. roomUser[k] \in RoomUser
      BY <2>1, <1>t, MembershipType
    <3>2. roomUser'[k] = [roomUser[k] EXCEPT !.role = req[r].role]
      BY <2>1, <1>u, <1>t DEF TypeOK
    <3>3. req[r].role \in Role
      BY <1>t DEF Request
    <3> QED BY <2>1, <3>1, <3>2, <3>3 DEF RoomUser
  <2>2. CASE ~(Present(k) /\ k = req[r].row)
    BY <2>2, <1>u, <1>t DEF TypeOK
  <2> QED BY <2>1, <2>2
<1>2. roomUser' \in [RoomUserId -> RoomUser \cup {Unused, Gone}]
  <2>1. roomUser' = [k \in RoomUserId |-> roomUser'[k]]
    BY <1>u, <1>t DEF TypeOK
  <2>2. \A k \in RoomUserId : roomUser'[k] \in RoomUser \cup {Unused, Gone}
    BY <1>1, <1>t DEF TypeOK
  <2> QED BY <2>1, <2>2
<1>3. /\ room' \in [Room -> RoomRow \cup {Unused}]
      /\ hist' \in [Room -> History]
  BY <1>t, <1>u DEF TypeOK
<1>5. Evolves
  BY <1>u, <1>1 DEF Evolves, Created, Present
<1>6. Recorded'
  <2>1. ASSUME NEW k \in RoomUserId, Present(k)'
        PROVE  /\ (Created(roomUser[k].room))'
               /\ roomUser'[k].user \in hist'[roomUser'[k].room].everIn
    <3>1. /\ Present(k)
          /\ roomUser'[k].room = roomUser[k].room /\ roomUser'[k].user = roomUser[k].user
      BY <1>1, <2>1 DEF Present
    <3>2. Created(roomUser[k].room) /\ roomUser[k].user \in hist[roomUser[k].room].everIn
      BY <1>t, <3>1 DEF Recorded
    <3> QED BY <3>1, <3>2, <1>u DEF Created
  <2> QED BY <2>1, <1>t, <1>u DEF Recorded, Created
<1>7. DirectRoomsClosed' /\ PrivateByInvitation'
  BY <1>t, <1>u DEF DirectRoomsClosed, PrivateByInvitation, Created
<1> QED BY <1>u, <1>k, <1>2, <1>3, <1>5, <1>6, <1>7, AnswerStep

\* What an update or a deletion leaves of the room's row, and that it cannot
\* make an inactive room active: it was active in the snapshot, so the flush
\* writes isActive only as FALSE.
LEMMA WrittenRow ==
  ASSUME TypeOK, NEW r \in Req, Own(r), Write(r)
  PROVE  \E rm \in RoomRow :
           /\ rm = IF req[r].kind = "update" THEN Written(req[r])
                   ELSE [room[req[r].room] EXCEPT !.isActive = FALSE]
           /\ req[r].room \in Room /\ Created(req[r].room)
           /\ rm.isDirect = room[req[r].room].isDirect
           /\ rm.ownerId = room[req[r].room].ownerId
           /\ ~room[req[r].room].isActive => ~rm.isActive
<1>t. req[r] \in Request /\ req[r].pc = "write" /\ req[r].pc \in Loaded
  BY DEF TypeOK, Write, At, Loaded
<1>k. /\ req[r].room \in Room /\ Created(req[r].room) /\ req[r].snap.isActive
      /\ req[r].snap \in RoomRow
  BY <1>t DEF Own, Shape, Snapshot, At, Of, OnRoom
<1>1. room[req[r].room] \in RoomRow
  BY <1>k, RoomType
<1>2. PICK row \in RoomRow : row = room[req[r].room]
  BY <1>1
<1>3. req[r].form \in Form
  BY <1>t DEF Request
<1>4. PICK rm : rm = IF req[r].kind = "update" THEN Written(req[r])
                     ELSE [room[req[r].room] EXCEPT !.isActive = FALSE]
  OBVIOUS
<1>5. /\ rm \in RoomRow /\ rm.isDirect = row.isDirect /\ rm.ownerId = row.ownerId
      /\ ~row.isActive => ~rm.isActive
  <2>1. CASE req[r].kind = "update"
    <3>1. PICK p \in BOOLEAN :
            p = IF req[r].form.isPrivate # req[r].snap.isPrivate THEN req[r].form.isPrivate ELSE row.isPrivate
      BY <1>2, <1>3 DEF Form, RoomRow
    <3>2. PICK a \in BOOLEAN :
            a = IF req[r].form.isActive # req[r].snap.isActive THEN req[r].form.isActive ELSE row.isActive
      BY <1>2, <1>3 DEF Form, RoomRow
    <3>3. rm = [row EXCEPT !.isPrivate = p, !.isActive = a]
      BY <1>2, <1>4, <2>1, <3>1, <3>2 DEF Written, RoomRow
    <3>4. ~row.isActive => ~a
      BY <1>k, <1>2, <1>3, <3>2 DEF Form, RoomRow
    <3> QED BY <1>2, <3>3, <3>4 DEF RoomRow
  <2>2. CASE req[r].kind # "update"
    BY <1>2, <1>4, <2>2 DEF RoomRow
  <2> QED BY <2>1, <2>2
<1> QED BY <1>k, <1>2, <1>4, <1>5

\* A room that becomes open is recorded as having been.
LEMMA UpdateStep ==
  ASSUME IInv, NEW r \in Req, Write(r)
  PROVE  IInv'
<1> USE RoomTableAssumption
<1>t. /\ TypeOK /\ Own(r) /\ req[r] \in Request
      /\ Recorded /\ DirectRoomsClosed /\ PrivateByInvitation
  BY DEF IInv, TypeOK
<1>1. PICK rm \in RoomRow :
        /\ rm = IF req[r].kind = "update" THEN Written(req[r])
                ELSE [room[req[r].room] EXCEPT !.isActive = FALSE]
        /\ req[r].room \in Room /\ Created(req[r].room)
        /\ rm.isDirect = room[req[r].room].isDirect
        /\ rm.ownerId = room[req[r].room].ownerId
  BY <1>t, WrittenRow
<1>2. PICK i \in Room : i = req[r].room
  BY <1>1
<1>3. PICK h : h = [hist[i] EXCEPT !.opened = @ \/ Open(rm)]
  OBVIOUS
<1>u. /\ req[r].pc = "write" /\ roomUser' = roomUser /\ Go(r, "ok")
      /\ room' = [room EXCEPT ![i] = rm] /\ hist' = [hist EXCEPT ![i] = h]
  BY <1>1, <1>2, <1>3 DEF Write, At
<1>k. req[r].pc \in Loaded /\ ~Of(r, {"remove"})
  BY <1>t, <1>u DEF Own, Shape, At, Of, Loaded
<1>4. Open(rm) \in BOOLEAN
  BY DEF Open, RoomRow
<1>5. /\ h \in History /\ h.everIn = hist[i].everIn /\ h.founders = hist[i].founders
      /\ h.uninvited = hist[i].uninvited /\ h.opened = (hist[i].opened \/ Open(rm))
  BY <1>3, <1>4, <1>t DEF TypeOK, History
<1>6. /\ room'[i] = rm /\ hist'[i] = h
      /\ \A j \in Room : j # i => room'[j] = room[j] /\ hist'[j] = hist[j]
  BY <1>u, <1>t DEF TypeOK
<1>7. /\ roomUser' \in [RoomUserId -> RoomUser \cup {Unused, Gone}]
      /\ room' \in [Room -> RoomRow \cup {Unused}]
      /\ hist' \in [Room -> History]
  BY <1>5, <1>t, <1>u DEF TypeOK
<1>8. rm # Unused /\ Created(i)
  BY <1>1, <1>2
<1>9. \A j \in Room : Created(j)' <=> Created(j)
  BY <1>6, <1>8 DEF Created
<1>10. Evolves
  BY <1>1, <1>2, <1>5, <1>6, <1>9, <1>u DEF Evolves, Present
<1>11. Recorded'
  <2>1. ASSUME NEW k \in RoomUserId, Present(k)'
        PROVE  /\ (Created(roomUser[k].room))'
               /\ roomUser'[k].user \in hist'[roomUser'[k].room].everIn
    <3>1. roomUser'[k] = roomUser[k] /\ Present(k)
      BY <1>u, <2>1 DEF Present
    <3>2. Created(roomUser[k].room) /\ roomUser[k].user \in hist[roomUser[k].room].everIn
      BY <1>t, <3>1 DEF Recorded
    <3>3. PICK j \in Room : j = roomUser[k].room
      BY <1>t, <3>1, MembershipType DEF RoomUser
    <3>4. Created(j)' /\ hist'[j].everIn = hist[j].everIn
      BY <1>5, <1>6, <1>9, <3>2, <3>3
    <3> QED BY <1>u, <3>1, <3>2, <3>3, <3>4 DEF Created
  <2>2. ASSUME NEW j \in Room, Created(j)', Open(room'[j]) PROVE hist'[j].opened
    BY <1>t, <1>5, <1>6, <1>9, <2>2 DEF Recorded
  <2> QED BY <2>1, <2>2 DEF Recorded
<1>12. DirectRoomsClosed'
  BY <1>t, <1>1, <1>2, <1>5, <1>6, <1>9 DEF DirectRoomsClosed
<1>13. PrivateByInvitation'
  BY <1>t, <1>5, <1>6, <1>9 DEF PrivateByInvitation
<1> QED BY <1>u, <1>k, <1>7, <1>10, <1>11, <1>12, <1>13, AnswerStep

\* A new room has no history, its founders are its members, and the ids their
\* rows get had none.
LEMMA InsertRoomStep ==
  ASSUME IInv, NEW r \in Req, NEW i \in Room, NEW f \in FreshIds(req[r].users),
         InsertRoom(r, i, f)
  PROVE  IInv'
<1> USE RoomTableAssumption
<1>t. /\ TypeOK /\ Own(r) /\ req[r] \in Request
      /\ Recorded /\ DirectRoomsClosed /\ PrivateByInvitation
  BY DEF IInv, TypeOK
<1>1. PICK q \in Request : q = req[r]
  BY <1>t
<1>k. /\ q.pc = "insertRoom" /\ q.kind = "create" /\ q.caller \in User
      /\ q.users \subseteq User /\ q.form \in Form
  BY <1>t, <1>1 DEF Own, Shape, At, Of, InsertRoom, Request
<1>2. PICK rm : rm = [isDirect |-> q.form.isDirect, isPrivate |-> q.form.isPrivate,
                       isActive |-> TRUE, ownerId |-> q.caller]
  OBVIOUS
<1>3. rm \in RoomRow /\ Open(rm) \in BOOLEAN
  BY <1>2, <1>k DEF RoomRow, Form, Open
<1>4. PICK h : h = [founders |-> q.users, everIn |-> q.users, opened |-> Open(rm), uninvited |-> {}]
  OBVIOUS
<1>5. /\ h \in History /\ h.founders = q.users /\ h.everIn = q.users
      /\ h.opened = Open(rm) /\ h.uninvited = {}
  BY <1>3, <1>4, <1>k DEF History
<1>6. PICK p : p = [q EXCEPT !.pc = "ok", !.room = i]
  OBVIOUS
<1>7. /\ p \in Request /\ p.pc = "ok" /\ p.room = i /\ p.kind = "create"
      /\ p.caller \in User /\ p.users = q.users
  BY <1>6, <1>k DEF Request, PC
<1>u. /\ ~Created(i) /\ room' = [room EXCEPT ![i] = rm] /\ hist' = [hist EXCEPT ![i] = h]
      /\ req' = [req EXCEPT ![r] = p]
  BY <1>1, <1>2, <1>4, <1>6 DEF InsertRoom
<1>8. ASSUME NEW k \in RoomUserId
      PROVE  \/ roomUser'[k] = roomUser[k]
             \/ /\ roomUser[k] = Unused /\ roomUser'[k] \in RoomUser
                /\ roomUser'[k].room = i /\ roomUser'[k].user \in q.users
  <2>1. roomUser'[k] = IF \E u \in q.users : f[u] = k
                       THEN LET u == CHOOSE v \in q.users : f[v] = k IN
                            [room |-> i, user |-> u, role |-> IF u = q.caller THEN "owner" ELSE "member"]
                       ELSE roomUser[k]
    BY <1>1 DEF InsertRoom
  <2>2. CASE \E u \in q.users : f[u] = k
    <3>1. PICK u \in q.users : u = (CHOOSE v \in q.users : f[v] = k) /\ f[u] = k
      BY <2>2
    <3>2. roomUser[k] = Unused
      BY <3>1, <1>1 DEF FreshIds
    <3>3. roomUser'[k] = [room |-> i, user |-> u, role |-> IF u = q.caller THEN "owner" ELSE "member"]
      BY <2>1, <2>2, <3>1
    <3> QED BY <3>1, <3>2, <3>3, <1>k DEF RoomUser, Role
  <2>3. CASE ~\E u \in q.users : f[u] = k
    BY <2>1, <2>3
  <2> QED BY <2>2, <2>3
<1>9. roomUser' \in [RoomUserId -> RoomUser \cup {Unused, Gone}]
  <2>1. roomUser' = [k \in RoomUserId |-> roomUser'[k]]
    BY DEF InsertRoom
  <2>2. \A k \in RoomUserId : roomUser'[k] \in RoomUser \cup {Unused, Gone}
    BY <1>8, <1>t DEF TypeOK
  <2> QED BY <2>1, <2>2
<1>10. /\ room'[i] = rm /\ hist'[i] = h /\ req'[r] = p
       /\ \A j \in Room : j # i => room'[j] = room[j] /\ hist'[j] = hist[j]
  BY <1>u, <1>t DEF TypeOK
<1>11. /\ room' \in [Room -> RoomRow \cup {Unused}]
       /\ hist' \in [Room -> History]
  BY <1>3, <1>5, <1>t, <1>u DEF TypeOK
<1>12. rm # Unused
  BY <1>3
<1>13. \A j \in Room : Created(j)' <=> Created(j) \/ j = i
  BY <1>10, <1>12 DEF Created
<1>14. Evolves
  <2>1. \A j \in Room : Created(j) => j # i
    BY <1>u
  <2>2. \A k \in RoomUserId : roomUser[k] # Unused => roomUser'[k] = roomUser[k]
    BY <1>8
  <2> QED BY <1>10, <1>13, <2>1, <2>2 DEF Evolves, Present
<1>15. Recorded'
  <2>1. ASSUME NEW k \in RoomUserId, Present(k)'
        PROVE  /\ (Created(roomUser[k].room))'
               /\ roomUser'[k].user \in hist'[roomUser'[k].room].everIn
    <3>1. CASE roomUser'[k] = roomUser[k]
      <4>1. Present(k)
        BY <2>1, <3>1 DEF Present
      <4>2. PICK j \in Room : j = roomUser[k].room
        BY <1>t, <4>1, MembershipType DEF RoomUser
      <4>3. Created(j) /\ roomUser[k].user \in hist[j].everIn /\ j # i
        BY <1>t, <1>u, <4>1, <4>2 DEF Recorded
      <4> QED BY <3>1, <4>2, <4>3, <1>10 DEF Created
    <3>2. CASE roomUser'[k] # roomUser[k]
      <4>1. roomUser'[k].room = i /\ roomUser'[k].user \in q.users
        BY <1>8, <3>2
      <4> QED BY <4>1, <1>5, <1>10, <1>12 DEF Created
    <3> QED BY <3>1, <3>2
  <2>2. ASSUME NEW j \in Room, Created(j)', Open(room'[j]) PROVE hist'[j].opened
    BY <1>t, <1>5, <1>10, <1>13, <2>2 DEF Recorded
  <2> QED BY <2>1, <2>2 DEF Recorded
<1>16. DirectRoomsClosed'
  BY <1>t, <1>5, <1>10, <1>13 DEF DirectRoomsClosed
<1>17. PrivateByInvitation'
  BY <1>t, <1>5, <1>10, <1>13 DEF PrivateByInvitation
<1>18. Own(r)'
  <2>1. (Shape(r) /\ Snapshot(r) /\ Checked(r))'
    BY <1>7, <1>10 DEF Shape, Snapshot, Checked, At, Of, Loaded, OnRoom, OnMember, Kind
  <2>2. Done(r)'
    BY <1>5, <1>7, <1>10, <1>12 DEF Done, At, Of, Created
  <2> QED BY <2>1, <2>2 DEF Own
<1> QED BY <1>u, <1>7, <1>9, <1>11, <1>14, <1>15, <1>16, <1>17, <1>18, WriteStep

-----------------------------------------------------------------------------
(* The invariant *)

LEMMA NextIInv == IInv /\ [Next]_vars => IInv'
<1> SUFFICES ASSUME IInv, [Next]_vars PROVE IInv'
  OBVIOUS
<1>1. CASE UNCHANGED vars
  BY <1>1 DEF vars, IInv, TypeOK, Recorded, DirectRoomsClosed, PrivateByInvitation, Own, Shape,
              Snapshot, Checked, Done, At, Of, Created, Present, RowsOf
<1>2. ASSUME NEW r \in Req, Start(r) PROVE IInv'
  <2>1. /\ {"add", "remove", "role", "join", "delete", "update"} \subseteq OnRoom
        /\ {"delete", "update"} \cap OnMember = {}
        /\ NoForm \in Form /\ "member" \in Role
        /\ \A d, p, a \in BOOLEAN : [isDirect |-> d, isPrivate |-> p, isActive |-> a] \in Form
    BY DEF OnRoom, OnMember, NoForm, Form, Role
  <2>2. ASSUME NEW c \in User, NEW S \in SUBSET User, NEW d \in BOOLEAN, NEW p \in BOOLEAN,
               StartCreate(r, c, S, [isDirect |-> d, isPrivate |-> p, isActive |-> TRUE])
        PROVE  IInv'
    BY <2>1, <2>2, StartCreateStep
  <2>3. ASSUME NEW c \in User, NEW t \in User, NEW i \in Room, NEW kind \in {"add", "remove"},
               StartOn(r, kind, c, t, i, NoForm, "member")
        PROVE  IInv'
    BY <2>1, <2>3, StartOnStep
  <2>4. ASSUME NEW c \in User, NEW t \in User, NEW i \in Room, NEW role \in Role,
               StartOn(r, "role", c, t, i, NoForm, role)
        PROVE  IInv'
    BY <2>1, <2>4, StartOnStep
  <2>5. ASSUME NEW c \in User, NEW i \in Room, StartOn(r, "join", c, c, i, NoForm, "member")
        PROVE  IInv'
    BY <2>1, <2>5, StartOnStep
  <2>6. ASSUME NEW c \in User, NEW i \in Room, StartOn(r, "delete", c, None, i, NoForm, "member")
        PROVE  IInv'
    BY <2>1, <2>6, StartOnStep
  <2>7. ASSUME NEW c \in User, NEW i \in Room, NEW p \in BOOLEAN, NEW a \in BOOLEAN,
               StartOn(r, "update", c, None, i,
                       [isDirect |-> FALSE, isPrivate |-> p, isActive |-> a], "member")
        PROVE  IInv'
    BY <2>1, <2>7, StartOnStep
  <2> QED BY <1>2, <2>2, <2>3, <2>4, <2>5, <2>6, <2>7 DEF Start
<1>3. ASSUME NEW r \in Req, Continue(r) PROVE IInv'
  BY <1>3, FindDirectStep, InsertRoomStep, LoadRoomStep, AccessStep, LookupStep, InsertStep,
     RemoveStep, FindRowStep, SetRoleStep, UpdateStep DEF Continue
<1> QED BY <1>1, <1>2, <1>3, FailStep DEF Next

LEMMA Invariant == Spec => []IInv
BY InitIInv, NextIInv, PTL DEF Spec

-----------------------------------------------------------------------------
(* The theorems *)

\* The tables and the requests are well typed in every state.
THEOREM RoomsTypeCorrect == Spec => []TypeOK
<1>1. IInv => TypeOK
  BY DEF IInv
<1> QED BY <1>1, Invariant, PTL

\* No add or join in flight, however stale its checks, puts anyone into a
\* direct room but those it was created with.
THEOREM DirectStaysClosed == Spec => []DirectRoomsClosed
<1>1. IInv => DirectRoomsClosed
  BY DEF IInv
<1> QED BY <1>1, Invariant, PTL

\* Until a room has been open, its new members were added by members, present
\* or past.
THEOREM PrivateNeedsInvitation == Spec => []PrivateByInvitation
<1>1. IInv => PrivateByInvitation
  BY DEF IInv
<1> QED BY <1>1, Invariant, PTL

\* A removal answered with success has removed, for good, every membership of
\* the user that existed when it began.
THEOREM RemovalIsComplete == Spec => []RemovalComplete
<1>1. IInv => RemovalComplete
  BY DEF IInv, Own, Done, RemovalComplete, Present
<1> QED BY <1>1, Invariant, PTL

\* The room a creation answers with has, or had, all the users asked for.
THEOREM CreateAnswers == Spec => []CreateAnswersItsRoom
<1>1. IInv => CreateAnswersItsRoom
  BY DEF IInv, Own, Done, CreateAnswersItsRoom
<1> QED BY <1>1, Invariant, PTL

\* The steps that touch a table.
LEMMA Writers ==
  ASSUME [Next]_vars
  PROVE  \/ UNCHANGED <<room, roomUser, hist>>
         \/ \E r \in Req :
              \/ \E i \in Room : \E f \in FreshIds(req[r].users) : InsertRoom(r, i, f)
              \/ \E k \in RoomUserId : Insert(r, k)
              \/ Remove(r) \/ SetRole(r) \/ Write(r)
<1>1. CASE UNCHANGED vars
  BY <1>1 DEF vars
<1>2. ASSUME NEW r \in Req, Start(r) PROVE UNCHANGED <<room, roomUser, hist>>
  BY <1>2 DEF Start, StartCreate, StartOn
<1>3. ASSUME NEW r \in Req, Fail(r) PROVE UNCHANGED <<room, roomUser, hist>>
  BY <1>3 DEF Fail
<1>4. ASSUME NEW r \in Req, FindDirect(r) \/ LoadRoom(r) \/ Access(r) \/ Lookup(r) \/ FindRow(r)
      PROVE  UNCHANGED <<room, roomUser, hist>>
  BY <1>4 DEF FindDirect, LoadRoom, Access, Lookup, FindRow
<1> QED BY <1>1, <1>2, <1>3, <1>4 DEF Next, Continue

\* A change of a created room is a flush for its owner, and revives nothing.
LEMMA RoomChange ==
  ASSUME IInv, [Next]_vars, NEW i \in Room, Created(i), room'[i] # room[i]
  PROVE  /\ \E r \in Req : Write(r) /\ req[r].room = i /\ req[r].caller = room[i].ownerId
         /\ ~room[i].isActive => ~room'[i].isActive
<1>t. TypeOK
  BY DEF IInv
<1>1. ASSUME NEW r \in Req, Write(r)
      PROVE  /\ \E s \in Req : Write(s) /\ req[s].room = i /\ req[s].caller = room[i].ownerId
             /\ ~room[i].isActive => ~room'[i].isActive
  <2>1. Own(r)
    BY DEF IInv
  <2>2. PICK rm \in RoomRow :
          /\ rm = IF req[r].kind = "update" THEN Written(req[r])
                  ELSE [room[req[r].room] EXCEPT !.isActive = FALSE]
          /\ ~room[req[r].room].isActive => ~rm.isActive
    BY <1>1, <1>t, <2>1, WrittenRow
  <2>3. room' = [room EXCEPT ![req[r].room] = rm]
    BY <1>1, <2>2 DEF Write
  <2>4. req[r].room = i /\ room'[i] = rm
    BY <1>t, <2>3 DEF TypeOK
  <2>5. req[r].pc = "write" /\ req[r].pc \in Loaded
    BY <1>1 DEF Write, At, Loaded
  <2>6. req[r].caller = room[i].ownerId
    BY <2>1, <2>4, <2>5 DEF Own, Checked, Snapshot
  <2> QED BY <1>1, <2>2, <2>4, <2>6
<1>2. ASSUME NEW r \in Req, NEW j \in Room, NEW f \in FreshIds(req[r].users), InsertRoom(r, j, f)
      PROVE  FALSE
  BY <1>2 DEF InsertRoom, Created
<1>3. ASSUME NEW r \in Req, NEW k \in RoomUserId, Insert(r, k) PROVE FALSE
  BY <1>3 DEF Insert
<1>4. ASSUME NEW r \in Req, Remove(r) \/ SetRole(r) PROVE FALSE
  BY <1>4 DEF Remove, SetRole
<1> QED BY <1>1, <1>2, <1>3, <1>4, Writers

\* A membership is changed for the owner of its room or, if it is a removal,
\* for its user.
LEMMA MembershipChange ==
  ASSUME IInv, [Next]_vars, NEW k \in RoomUserId, Present(k), roomUser'[k] # roomUser[k]
  PROVE  \E r \in Req :
           /\ req'[r].pc # req[r].pc
           /\ req[r].caller \in {room[roomUser[k].room].ownerId, roomUser[k].user}
           /\ Of(r, {"role"}) => req[r].caller = room[roomUser[k].room].ownerId
<1> USE RoomTableAssumption
<1>t. TypeOK
  BY DEF IInv
<1>g. ASSUME NEW r \in Req, NEW pc, Go(r, pc) PROVE req'[r].pc = pc
  BY <1>t, <1>g DEF Go, TypeOK, Request
<1>1. ASSUME NEW r \in Req, Remove(r)
      PROVE  /\ req'[r].pc # req[r].pc /\ ~Of(r, {"role"})
             /\ req[r].caller \in {room[roomUser[k].room].ownerId, roomUser[k].user}
  <2>1. Own(r)
    BY DEF IInv
  <2>2. req[r].pc = "removal" /\ req[r].pc \in Loaded /\ req'[r].pc = "ok"
    BY <1>1, <1>g DEF Remove, At, Loaded
  <2>3. k \in RowsOf(req[r].room, req[r].target)
    BY <1>1 DEF Remove, Removed
  <2>4. roomUser[k].room = req[r].room /\ roomUser[k].user = req[r].target
    BY <2>3 DEF RowsOf
  <2>5. /\ req[r].caller \in {req[r].snap.ownerId, req[r].target}
        /\ req[r].snap.ownerId = room[req[r].room].ownerId /\ Of(r, {"remove"})
    BY <2>1, <2>2 DEF Own, Shape, Snapshot, Checked, At
  <2> QED BY <2>2, <2>4, <2>5 DEF Of
<1>2. ASSUME NEW r \in Req, SetRole(r)
      PROVE  /\ req'[r].pc # req[r].pc
             /\ req[r].caller = room[roomUser[k].room].ownerId
  <2>1. Own(r)
    BY DEF IInv
  <2>2. req[r].pc = "setRole" /\ req[r].pc \in Loaded /\ req'[r].pc = "ok"
    BY <1>2, <1>g DEF SetRole, At, Loaded
  <2>3. k = req[r].row
    BY <1>2, <1>t DEF SetRole, TypeOK
  <2>4. /\ roomUser[k].room = req[r].room
        /\ req[r].caller = req[r].snap.ownerId
        /\ req[r].snap.ownerId = room[req[r].room].ownerId
    BY <2>1, <2>2, <2>3 DEF Own, Snapshot, Checked, At, Present
  <2> QED BY <2>2, <2>4
<1>3. ASSUME NEW r \in Req, NEW i \in Room, NEW f \in FreshIds(req[r].users), InsertRoom(r, i, f)
      PROVE  FALSE
  <2>1. CASE \E u \in req[r].users : f[u] = k
    BY <2>1 DEF FreshIds, Present
  <2>2. CASE ~\E u \in req[r].users : f[u] = k
    BY <1>3, <2>2 DEF InsertRoom
  <2> QED BY <2>1, <2>2
<1>4. ASSUME NEW r \in Req, NEW l \in RoomUserId, Insert(r, l) PROVE FALSE
  BY <1>4, <1>t DEF Insert, Joined, TypeOK, Present
<1>5. ASSUME NEW r \in Req, Write(r) PROVE FALSE
  BY <1>5 DEF Write
<1> QED BY <1>1, <1>2, <1>3, <1>4, <1>5, Writers

\* Nothing revives a deleted room, not even an update that loaded it before.
THEOREM DeletionStays == Spec => DeletionIsFinal
<1>1. ASSUME IInv, [Next]_vars, NEW i \in Room, Created(i), ~room[i].isActive
      PROVE  ~room'[i].isActive
  BY <1>1, RoomChange
<1>2. IInv /\ [Next]_vars => [\A i \in Room : Created(i) /\ ~room[i].isActive => ~room'[i].isActive]_vars
  BY <1>1
<1> QED BY <1>2, Invariant, PTL DEF Spec, DeletionIsFinal

\* Rooms and other people's memberships change on behalf of the room's owner
\* only, however long ago the owner was read.
THEOREM OnlyOwnersGovern == Spec => OwnerGoverns
<1>1. IInv /\ [Next]_vars =>
        [/\ \A i \in Room : Created(i) /\ room'[i] # room[i] =>
              \E r \in Req : Write(r) /\ req[r].room = i /\ req[r].caller = room[i].ownerId
         /\ \A k \in RoomUserId : Present(k) /\ roomUser'[k] # roomUser[k] =>
              \E r \in Req : /\ req'[r].pc # req[r].pc
                             /\ req[r].caller \in {room[roomUser[k].room].ownerId, roomUser[k].user}
                             /\ Of(r, {"role"}) => req[r].caller = room[roomUser[k].room].ownerId]_vars
  BY RoomChange, MembershipChange
<1> QED BY <1>1, Invariant, PTL DEF Spec, OwnerGoverns

-----------------------------------------------------------------------------
(* The refinement of RoomPolicy *)

\* A room's members follow its rows.
LEMMA SameMembers ==
  ASSUME NEW i \in Room,
         \A k \in RoomUserId :
           /\ (Present(k) /\ roomUser[k].room = i)' <=> Present(k) /\ roomUser[k].room = i
           /\ Present(k) /\ roomUser[k].room = i => roomUser'[k].user = roomUser[k].user
  PROVE  MembersOf(i)' = MembersOf(i)
<1>1. \A u : RowsOf(i, u)' = RowsOf(i, u)
  BY DEF RowsOf
<1> QED BY <1>1 DEF MembersOf, IsUserInRoom

\* Membership changes in one room at a time.
LEMMA OneRoom ==
  ASSUME NEW i \in Room, NEW S, MembersOf(i)' = S,
         \A j \in Room : j # i => MembersOf(j)' = MembersOf(j)
  PROVE  [j \in Room |-> MembersOf(j)]' = [[j \in Room |-> MembersOf(j)] EXCEPT ![i] = S]
OBVIOUS

LEMMA NoRoom ==
  ASSUME \A j \in Room : MembersOf(j)' = MembersOf(j)
  PROVE  [j \in Room |-> MembersOf(j)]' = [j \in Room |-> MembersOf(j)]
OBVIOUS

\* No row is there before the first request.
LEMMA PolicyInit == Init => Policy!Init
<1> SUFFICES ASSUME Init PROVE Policy!Init
  OBVIOUS
<1>1. ASSUME NEW i \in Room PROVE MembersOf(i) = {}
  BY DEF Init, MembersOf, IsUserInRoom, RowsOf, Present
<1> QED BY <1>1 DEF Init, Policy!Init

\* A creation founds a room: no row could name it before, and each user it was
\* for gets a row of their own.
LEMMA PolicyFound ==
  ASSUME IInv, NEW r \in Req, NEW i \in Room, NEW f \in FreshIds(req[r].users),
         InsertRoom(r, i, f)
  PROVE  Policy!Next
<1> USE RoomTableAssumption
<1>t. TypeOK /\ Recorded /\ Own(r)
  BY DEF IInv
<1>1. PICK q \in Request : q = req[r]
  BY <1>t DEF TypeOK
<1>2. /\ q.caller \in User /\ q.caller \in q.users
      /\ q.users \subseteq User /\ q.form \in Form
  BY <1>t, <1>1 DEF Own, Shape, At, Of, InsertRoom, Request
<1>3. PICK rm : rm = [isDirect |-> q.form.isDirect, isPrivate |-> q.form.isPrivate,
                       isActive |-> TRUE, ownerId |-> q.caller]
  OBVIOUS
<1>4. rm \in RoomRow /\ rm.isActive /\ rm.ownerId = q.caller
  BY <1>2, <1>3 DEF RoomRow, Form
<1>5. room' = [room EXCEPT ![i] = rm] /\ ~Created(i)
  BY <1>1, <1>3 DEF InsertRoom
<1>6. \A k \in RoomUserId : Present(k) => roomUser[k].room # i
  BY <1>t, <1>5 DEF Recorded
<1>7. \A u, v \in q.users : f[u] = f[v] => u = v
  BY <1>1 DEF FreshIds
<1>8. \A u \in q.users : f[u] \in RoomUserId /\ roomUser[f[u]] = Unused
  BY <1>1 DEF FreshIds
<1>9. ASSUME NEW u \in q.users
      PROVE  /\ Present(f[u])'
             /\ roomUser'[f[u]].room = i /\ roomUser'[f[u]].user = u
  <2>1. (CHOOSE v \in q.users : f[v] = f[u]) = u
    BY <1>7
  <2>2. roomUser'[f[u]] = [room |-> i, user |-> u, role |-> IF u = q.caller THEN "owner" ELSE "member"]
    BY <1>1, <1>8, <2>1 DEF InsertRoom
  <2>3. roomUser'[f[u]] \in RoomUser
    BY <1>2, <2>2 DEF RoomUser, Role
  <2> QED BY <2>2, <2>3 DEF Present
<1>10. ASSUME NEW k \in RoomUserId, \A u \in q.users : f[u] # k
       PROVE  roomUser'[k] = roomUser[k]
  BY <1>1, <1>10 DEF InsertRoom
<1>11. MembersOf(i)' = q.users
  <2>1. ASSUME NEW u \in q.users PROVE u \in MembersOf(i)'
    BY <1>2, <1>8, <1>9 DEF MembersOf, IsUserInRoom, RowsOf
  <2>2. ASSUME NEW u \in MembersOf(i)' PROVE u \in q.users
    <3>1. PICK k \in RoomUserId : Present(k)' /\ roomUser'[k].room = i /\ roomUser'[k].user = u
      BY <2>2 DEF MembersOf, IsUserInRoom, RowsOf
    <3>2. CASE \A v \in q.users : f[v] # k
      BY <1>6, <1>10, <3>1, <3>2 DEF Present
    <3>3. CASE \E v \in q.users : f[v] = k
      BY <1>9, <3>1, <3>3
    <3> QED BY <3>2, <3>3
  <2> QED BY <2>1, <2>2
<1>12. ASSUME NEW j \in Room, j # i PROVE MembersOf(j)' = MembersOf(j)
  <2>1. ASSUME NEW k \in RoomUserId
        PROVE  /\ (Present(k) /\ roomUser[k].room = j)' <=> Present(k) /\ roomUser[k].room = j
               /\ Present(k) /\ roomUser[k].room = j => roomUser'[k].user = roomUser[k].user
    <3>1. CASE \A v \in q.users : f[v] # k
      BY <1>10, <3>1 DEF Present
    <3>2. CASE \E v \in q.users : f[v] = k
      BY <1>8, <1>9, <1>12, <3>2 DEF Present
    <3> QED BY <3>1, <3>2
  <2> QED BY <2>1, SameMembers
<1>13. Policy!Found(i, rm, q.users)
  <2>1. ~Policy!Founded(i)
    BY <1>5 DEF Created, Policy!Founded
  <2>2. [j \in Room |-> MembersOf(j)]' = [[j \in Room |-> MembersOf(j)] EXCEPT ![i] = q.users]
    BY <1>11, <1>12, OneRoom
  <2> QED BY <1>2, <1>4, <1>5, <2>1, <2>2 DEF Policy!Found
<1>14. rm \in Policy!RoomRow /\ q.users \in SUBSET User
  BY <1>2, <1>4 DEF RoomRow, Policy!RoomRow
<1> QED BY <1>13, <1>14 DEF Policy!Next

\* Who is inserted enters a room that is not direct, unless there already.
LEMMA PolicyEnter ==
  ASSUME IInv, NEW r \in Req, NEW k \in RoomUserId, Insert(r, k)
  PROVE  [Policy!Next]_<<room, [i \in Room |-> MembersOf(i)]>>
<1> USE RoomTableAssumption
<1>t. TypeOK /\ Own(r)
  BY DEF IInv
<1>u. /\ req[r].pc = "insert" /\ roomUser[k] = Unused /\ room' = room
      /\ roomUser' = Joined(k, req[r].room, req[r].target)
  BY DEF Insert, At
<1>k. /\ req[r].pc \in Loaded /\ Of(r, {"add", "join"})
      /\ req[r].room \in Room /\ Created(req[r].room) /\ req[r].target \in User
  BY <1>t, <1>u DEF Own, Shape, At, Of, Loaded, OnRoom, OnMember
<1>1. PICK i \in Room : i = req[r].room
  BY <1>k
<1>2. PICK t \in User : t = req[r].target
  BY <1>k
<1>3. Created(i) /\ ~room[i].isDirect
  BY <1>t, <1>k, <1>1 DEF Own, Snapshot
<1>4. PICK row : row = [room |-> i, user |-> t, role |-> "member"]
  OBVIOUS
<1>5. row \in RoomUser /\ row.room = i /\ row.user = t
  BY <1>4 DEF RoomUser, Role
<1>6. roomUser'[k] = row /\ \A l \in RoomUserId : l # k => roomUser'[l] = roomUser[l]
  BY <1>1, <1>2, <1>4, <1>u, <1>t DEF Joined, TypeOK
<1>7. Present(k)' /\ ~Present(k)
  BY <1>5, <1>6, <1>u DEF Present
<1>8. ASSUME NEW j \in Room, j # i PROVE MembersOf(j)' = MembersOf(j)
  <2>1. \A l \in RoomUserId :
          /\ (Present(l) /\ roomUser[l].room = j)' <=> Present(l) /\ roomUser[l].room = j
          /\ Present(l) /\ roomUser[l].room = j => roomUser'[l].user = roomUser[l].user
    BY <1>5, <1>6, <1>7, <1>8 DEF Present
  <2> QED BY <2>1, SameMembers
<1>9. MembersOf(i)' = MembersOf(i) \cup {t}
  <2>1. ASSUME NEW u \in User
        PROVE  RowsOf(i, u)' = IF u = t THEN RowsOf(i, u) \cup {k} ELSE RowsOf(i, u)
    BY <1>5, <1>6, <1>7 DEF RowsOf, Present
  <2> QED BY <2>1 DEF MembersOf, IsUserInRoom
<1>10. CASE t \in MembersOf(i)
  <2>1. \A j \in Room : MembersOf(j)' = MembersOf(j)
    BY <1>8, <1>9, <1>10
  <2>2. [j \in Room |-> MembersOf(j)]' = [j \in Room |-> MembersOf(j)]
    BY <2>1, NoRoom
  <2> QED BY <1>u, <2>2
<1>11. CASE t \notin MembersOf(i)
  <2>1. [j \in Room |-> MembersOf(j)]' =
          [[j \in Room |-> MembersOf(j)] EXCEPT ![i] = MembersOf(i) \cup {t}]
    BY <1>8, <1>9, OneRoom
  <2>2. Policy!Enter(i, t)
    BY <1>3, <1>11, <1>u, <2>1 DEF Created, Policy!Founded, Policy!Enter
  <2> QED BY <2>2 DEF Policy!Next
<1> QED BY <1>10, <1>11

\* A removal takes all rows of one user, so that the user leaves.
LEMMA PolicyLeave ==
  ASSUME IInv, NEW r \in Req, Remove(r)
  PROVE  [Policy!Next]_<<room, [i \in Room |-> MembersOf(i)]>>
<1> USE RoomTableAssumption
<1>t. TypeOK /\ Own(r)
  BY DEF IInv
<1>u. /\ req[r].pc = "removal" /\ room' = room
      /\ roomUser' = Removed(req[r].room, req[r].target)
  BY DEF Remove, At
<1>k. req[r].room \in Room /\ req[r].target \in User
  BY <1>t, <1>u DEF Own, Shape, At, Of, OnRoom, OnMember
<1>1. PICK i \in Room : i = req[r].room
  BY <1>k
<1>2. PICK t \in User : t = req[r].target
  BY <1>k
<1>3. \A k \in RoomUserId : roomUser'[k] = IF k \in RowsOf(i, t) THEN Gone ELSE roomUser[k]
  BY <1>1, <1>2, <1>u DEF Removed
<1>4. ASSUME NEW j \in Room, j # i PROVE MembersOf(j)' = MembersOf(j)
  <2>1. \A l \in RoomUserId :
          /\ (Present(l) /\ roomUser[l].room = j)' <=> Present(l) /\ roomUser[l].room = j
          /\ Present(l) /\ roomUser[l].room = j => roomUser'[l].user = roomUser[l].user
    BY <1>3, <1>4 DEF Present, RowsOf
  <2> QED BY <2>1, SameMembers
<1>5. MembersOf(i)' = MembersOf(i) \ {t}
  <2>1. ASSUME NEW u \in User
        PROVE  RowsOf(i, u)' = IF u = t THEN {} ELSE RowsOf(i, u)
    BY <1>3 DEF RowsOf, Present
  <2> QED BY <2>1 DEF MembersOf, IsUserInRoom
<1>6. CASE t \in MembersOf(i)
  <2>1. [j \in Room |-> MembersOf(j)]' =
          [[j \in Room |-> MembersOf(j)] EXCEPT ![i] = MembersOf(i) \ {t}]
    BY <1>4, <1>5, OneRoom
  <2>2. Policy!Leave(i, t)
    BY <1>6, <1>u, <2>1 DEF Policy!Leave
  <2> QED BY <2>2 DEF Policy!Next
<1>7. CASE t \notin MembersOf(i)
  <2>1. \A j \in Room : MembersOf(j)' = MembersOf(j)
    BY <1>4, <1>5, <1>7
  <2>2. [j \in Room |-> MembersOf(j)]' = [j \in Room |-> MembersOf(j)]
    BY <2>1, NoRoom
  <2> QED BY <1>u, <2>2
<1> QED BY <1>6, <1>7

\* A role is nobody's membership.
LEMMA PolicyRole ==
  ASSUME IInv, NEW r \in Req, SetRole(r)
  PROVE  UNCHANGED <<room, [i \in Room |-> MembersOf(i)]>>
<1> USE RoomTableAssumption
<1>t. TypeOK /\ req[r] \in Request
  BY DEF IInv, TypeOK
<1>u. /\ room' = room
      /\ roomUser' = IF Present(req[r].row)
                     THEN [roomUser EXCEPT ![req[r].row].role = req[r].role] ELSE roomUser
  BY DEF SetRole
<1>1. ASSUME NEW k \in RoomUserId
      PROVE  \/ roomUser'[k] = roomUser[k]
             \/ /\ Present(k) /\ roomUser'[k] \in RoomUser
                /\ roomUser'[k].room = roomUser[k].room /\ roomUser'[k].user = roomUser[k].user
  <2>1. CASE Present(k) /\ k = req[r].row
    <3>1. roomUser[k] \in RoomUser
      BY <2>1, <1>t, MembershipType
    <3>2. roomUser'[k] = [roomUser[k] EXCEPT !.role = req[r].role]
      BY <2>1, <1>u, <1>t DEF TypeOK
    <3>3. req[r].role \in Role
      BY <1>t DEF Request
    <3> QED BY <2>1, <3>1, <3>2, <3>3 DEF RoomUser
  <2>2. CASE ~(Present(k) /\ k = req[r].row)
    BY <2>2, <1>u, <1>t DEF TypeOK
  <2> QED BY <2>1, <2>2
<1>2. ASSUME NEW j \in Room PROVE MembersOf(j)' = MembersOf(j)
  <2>1. \A k \in RoomUserId :
          /\ (Present(k) /\ roomUser[k].room = j)' <=> Present(k) /\ roomUser[k].room = j
          /\ Present(k) /\ roomUser[k].room = j => roomUser'[k].user = roomUser[k].user
    BY <1>1 DEF Present
  <2> QED BY <2>1, SameMembers
<1> QED BY <1>2, <1>u, NoRoom

\* A flush changes the two columns that may change, and revives nothing.
LEMMA PolicyChange ==
  ASSUME IInv, NEW r \in Req, Write(r)
  PROVE  Policy!Next
<1> USE RoomTableAssumption
<1>t. TypeOK /\ Own(r)
  BY DEF IInv
<1>1. PICK rm \in RoomRow :
        /\ rm = IF req[r].kind = "update" THEN Written(req[r])
                ELSE [room[req[r].room] EXCEPT !.isActive = FALSE]
        /\ req[r].room \in Room /\ Created(req[r].room)
        /\ rm.isDirect = room[req[r].room].isDirect
        /\ rm.ownerId = room[req[r].room].ownerId
        /\ ~room[req[r].room].isActive => ~rm.isActive
  BY <1>t, WrittenRow
<1>2. PICK i \in Room : i = req[r].room
  BY <1>1
<1>3. PICK row \in RoomRow : row = room[i]
  BY <1>1, <1>2, <1>t, RoomType
<1>4. PICK p \in BOOLEAN, a \in BOOLEAN : p = rm.isPrivate /\ a = rm.isActive
  BY DEF RoomRow
<1>5. rm = [row EXCEPT !.isPrivate = p, !.isActive = a]
  BY <1>1, <1>2, <1>3, <1>4 DEF RoomRow
<1>6. room' = [room EXCEPT ![i].isPrivate = p, ![i].isActive = a]
  BY <1>1, <1>2, <1>3, <1>5, <1>t DEF Write, TypeOK
<1>7. a => room[i].isActive
  BY <1>1, <1>2, <1>4
<1>8. [j \in Room |-> MembersOf(j)]' = [j \in Room |-> MembersOf(j)]
  BY DEF Write, MembersOf, IsUserInRoom, RowsOf, Present
<1>9. Policy!Change(i, p, a)
  BY <1>1, <1>2, <1>6, <1>7, <1>8 DEF Created, Policy!Founded, Policy!Change
<1> QED BY <1>9 DEF Policy!Next

\* Whatever the requests interleave to, a step founds a room, lets one user in
\* or out, or changes one room, and no step does what RoomPolicy forbids.
THEOREM RoomsImplementPolicy == Spec => PolicySpec
<1>1. Init => Policy!Init
  BY PolicyInit
<1>2. IInv /\ [Next]_vars => [Policy!Next]_<<room, [i \in Room |-> MembersOf(i)]>>
  <2> SUFFICES ASSUME IInv, [Next]_vars
               PROVE  [Policy!Next]_<<room, [i \in Room |-> MembersOf(i)]>>
    OBVIOUS
  <2>1. CASE UNCHANGED <<room, roomUser, hist>>
    BY <2>1 DEF MembersOf, IsUserInRoom, RowsOf, Present
  <2> QED BY <2>1, Writers, PolicyFound, PolicyEnter, PolicyLeave, PolicyRole, PolicyChange
<1> QED BY <1>1, <1>2, Invariant, PTL DEF Spec, PolicySpec, Policy!Spec
=============================================================================
