------------------------------- MODULE Rooms -------------------------------
(***************************************************************************)
(* The REST requests that change rooms and memberships                     *)
(* (rooms/rooms.controller.ts over rooms/rooms.service.ts), running        *)
(* concurrently.  Every await is the end of a step and may reject.         *)
(*                                                                         *)
(* Each HTTP request has an entity manager of its own, whose identity map  *)
(* answers a second lookup of a room by primary key without a query: what  *)
(* getRoomById loaded (snap) is what canUserJoinRoom, addUserToRoom and    *)
(* updateRoom go on with, and an update writes the columns that differ     *)
(* from it.  Lookups of memberships always query.                          *)
(***************************************************************************)
EXTENDS RoomTable

CONSTANTS Req,    \* request slots, each used once
          None    \* an empty field

Kind == {"create", "add", "join", "remove", "role", "update", "delete"}

ASSUME RoomsAssumption ==
  None \notin User \cup Room \cup RoomRow \cup RoomUserId \cup Kind

VARIABLES req,    \* the requests, by slot
          hist    \* history of each room, read by properties only

vars == <<room, roomUser, req, hist>>

\* What the body of a create or update asks for.
Form == [isDirect : BOOLEAN, isPrivate : BOOLEAN, isActive : BOOLEAN]
NoForm == [isDirect |-> FALSE, isPrivate |-> FALSE, isActive |-> TRUE]

PC == {"idle", "findDirect", "insertRoom", "load", "access", "lookup", "insert",
       "removal", "findRow", "setRole", "write", "ok", "failed"}

\* seen is history: the rows of the target in the room when the request began.
Request ==
  [kind : Kind \cup {None}, pc : PC, caller : User \cup {None}, target : User \cup {None},
   room : Room \cup {None}, snap : RoomRow \cup {None}, row : RoomUserId \cup {None},
   users : SUBSET User, form : Form, role : Role, seen : SUBSET RoomUserId]

Idle ==
  [kind |-> None, pc |-> "idle", caller |-> None, target |-> None, room |-> None,
   snap |-> None, row |-> None, users |-> {}, form |-> NoForm, role |-> "member", seen |-> {}]

\* founders: the members it was created with.  everIn: everyone who has been a
\* member.  opened: it has been open to outsiders.  uninvited: members inserted
\* on the request of someone who had never been a member.
History ==
  [founders : SUBSET User, everIn : SUBSET User, opened : BOOLEAN, uninvited : SUBSET User]

At(r, pc) == req[r].pc = pc
Of(r, kinds) == req[r].kind \in kinds
Go(r, pc) == req' = [req EXCEPT ![r].pc = pc]

-----------------------------------------------------------------------------
(* POST rooms *)

\* createRoom: the callers' list and the caller, without repetitions.  The ids
\* given are those of accounts.
StartCreate(r, c, S, form) ==
  /\ At(r, "idle")
  /\ req' = [req EXCEPT ![r] =
       [Idle EXCEPT !.kind = "create", !.caller = c, !.users = S \cup {c}, !.form = form,
                    !.pc = IF form.isDirect THEN "findDirect" ELSE "insertRoom"]]
  /\ UNCHANGED <<room, roomUser, hist>>

\* The first direct room found is the answer; which one is up to the database.
FindDirect(r) ==
  /\ At(r, "findDirect")
  /\ \/ \E i \in DirectRoomsWith(req[r].users) :
          req' = [req EXCEPT ![r].pc = "ok", ![r].room = i]
     \/ DirectRoomsWith(req[r].users) = {} /\ Go(r, "insertRoom")
  /\ UNCHANGED <<room, roomUser, hist>>

\* The commit of the transaction: the room and, with the ids f gives them, its
\* members.  isActive of the body is not looked at.
InsertRoom(r, i, f) ==
  LET q == req[r]
      rm == [isDirect |-> q.form.isDirect, isPrivate |-> q.form.isPrivate,
             isActive |-> TRUE, ownerId |-> q.caller] IN
  /\ At(r, "insertRoom") /\ ~Created(i)
  /\ room' = [room EXCEPT ![i] = rm]
  /\ roomUser' = [k \in RoomUserId |->
       IF \E u \in q.users : f[u] = k
       THEN LET u == CHOOSE v \in q.users : f[v] = k IN
            [room |-> i, user |-> u, role |-> IF u = q.caller THEN "owner" ELSE "member"]
       ELSE roomUser[k]]
  /\ req' = [req EXCEPT ![r].pc = "ok", ![r].room = i]
  /\ hist' = [hist EXCEPT ![i] = [founders |-> q.users, everIn |-> q.users,
                                  opened |-> Open(rm), uninvited |-> {}]]

-----------------------------------------------------------------------------
(* The requests on an existing room *)

\* Caller c asks for something about target t in room i: join and leave have
\* the caller as target, update and delete have none.
StartOn(r, kind, c, t, i, form, role) ==
  /\ At(r, "idle") /\ Created(i)
  /\ req' = [req EXCEPT ![r] =
       [Idle EXCEPT !.kind = kind, !.pc = "load", !.caller = c, !.target = t, !.room = i,
                    !.form = form, !.role = role,
                    !.seen = {k \in RoomUserId : \E u \in User : u = t /\ k \in RowsOf(i, u)}]]
  /\ UNCHANGED <<room, roomUser, hist>>

\* Mutant: addUser and joinRoom take direct rooms too.
RefusedOnlyPrivate(q, rm) ==
  \/ ~rm.isActive
  \/ q.kind = "join" /\ rm.isPrivate
  \/ q.kind \in {"update", "delete"} /\ rm.ownerId # q.caller

\* Mutant: update and delete do not ask who the owner is.
RefusedToNobody(q, rm) ==
  \/ ~rm.isActive
  \/ q.kind \in {"add", "join"} /\ rm.isDirect
  \/ q.kind = "join" /\ rm.isPrivate

\* What the controllers refuse after getRoomById, which finds active rooms only.
Refused(q, rm) ==
  \/ ~rm.isActive
  \/ q.kind \in {"add", "join"} /\ rm.isDirect
  \/ q.kind = "join" /\ rm.isPrivate
  \/ q.kind \in {"update", "delete"} /\ rm.ownerId # q.caller

\* getRoomById and the checks on what it returned.
LoadRoom(r) ==
  LET rm == room[req[r].room] IN
  /\ At(r, "load")
  /\ \/ Refused(req[r], rm) /\ Go(r, "failed")
     \/ /\ ~Refused(req[r], rm)
        /\ req' = [req EXCEPT ![r].snap = rm,
                              ![r].pc = IF Of(r, {"update", "delete"}) THEN "write" ELSE "access"]
  /\ UNCHANGED <<room, roomUser, hist>>

\* Mutant: addUser forgets canUserJoinRoom.
AccessWithoutCheck(r) ==
  LET q == req[r] IN
  /\ At(r, "access")
  /\ Go(r, CASE q.kind = "join" -> IF IsUserInRoom(q.caller, q.room) THEN "ok" ELSE "lookup"
             [] q.kind = "add" -> "lookup"
             [] q.kind = "remove" -> IF q.snap.ownerId = q.caller \/ q.target = q.caller
                                     THEN "removal" ELSE "failed"
             [] q.kind = "role" -> "findRow")
  /\ UNCHANGED <<room, roomUser, hist>>

\* isUserInRoom for the caller (within canUserJoinRoom for addUser), and the
\* checks that follow it.  Someone who joins twice has the answer already.
Access(r) ==
  LET q == req[r]
      member == IsUserInRoom(q.caller, q.room)
      owner == q.snap.ownerId = q.caller IN
  /\ At(r, "access")
  /\ \/ q.kind = "join" /\ Go(r, IF member THEN "ok" ELSE "lookup")
     \/ q.kind = "add" /\ Go(r, IF CanUserJoin(q.caller, q.room, q.snap) THEN "lookup" ELSE "failed")
     \/ q.kind = "remove" /\ Go(r, IF member /\ (owner \/ q.target = q.caller) THEN "removal" ELSE "failed")
     \/ q.kind = "role" /\ Go(r, IF member /\ owner THEN "findRow" ELSE "failed")
  /\ UNCHANGED <<room, roomUser, hist>>

\* addUserToRoom: an existing membership is the answer ...
Lookup(r) ==
  /\ At(r, "lookup")
  /\ Go(r, IF IsUserInRoom(req[r].target, req[r].room) THEN "ok" ELSE "insert")
  /\ UNCHANGED <<room, roomUser, hist>>

\* ... and otherwise a row is inserted.
Insert(r, k) ==
  LET q == req[r] IN
  /\ At(r, "insert") /\ roomUser[k] = Unused
  /\ roomUser' = Joined(k, q.room, q.target)
  /\ hist' = [hist EXCEPT ![q.room].everIn = @ \cup {q.target},
                          ![q.room].uninvited = IF q.caller \in hist[q.room].everIn
                                                THEN @ ELSE @ \cup {q.target}]
  /\ Go(r, "ok")
  /\ UNCHANGED room

\* removeUserFromRoom
Remove(r) ==
  /\ At(r, "removal")
  /\ roomUser' = Removed(req[r].room, req[r].target)
  /\ Go(r, "ok")
  /\ UNCHANGED <<room, hist>>

\* updateUserRole finds a row of the target, any one if there are several; if
\* it has the role already there is nothing to flush ...
FindRow(r) ==
  LET rows == RowsOf(req[r].room, req[r].target) IN
  /\ At(r, "findRow")
  /\ \/ \E k \in rows :
          req' = [req EXCEPT ![r].row = k,
                             ![r].pc = IF roomUser[k].role = req[r].role THEN "ok" ELSE "setRole"]
     \/ rows = {} /\ Go(r, "failed")
  /\ UNCHANGED <<room, roomUser, hist>>

\* Mutant: the row is upserted, as found.
SetRoleUpserting(r) ==
  LET q == req[r] IN
  /\ At(r, "setRole")
  /\ roomUser' = [roomUser EXCEPT ![q.row] = [room |-> q.room, user |-> q.target, role |-> q.role]]
  /\ Go(r, "ok")
  /\ UNCHANGED <<room, hist>>

\* ... and updates it by primary key, which affects nothing if it is gone.
SetRole(r) ==
  LET k == req[r].row IN
  /\ At(r, "setRole")
  /\ roomUser' = IF Present(k) THEN [roomUser EXCEPT ![k].role = req[r].role] ELSE roomUser
  /\ Go(r, "ok")
  /\ UNCHANGED <<room, hist>>

\* Mutant: the update writes every column of the form.
WrittenWhole(q) == [room[q.room] EXCEPT !.isPrivate = q.form.isPrivate, !.isActive = q.form.isActive]

\* The columns a flush writes are those the request changed in its snapshot.
Written(q) ==
  [room[q.room] EXCEPT
     !.isPrivate = IF q.form.isPrivate # q.snap.isPrivate THEN q.form.isPrivate ELSE @,
     !.isActive = IF q.form.isActive # q.snap.isActive THEN q.form.isActive ELSE @]

\* updateRoom, and deleteRoom, which is an update of isActive.  A room that
\* becomes open is recorded as opened.
Write(r) ==
  LET q == req[r]
      rm == IF q.kind = "update" THEN Written(q) ELSE [room[q.room] EXCEPT !.isActive = FALSE] IN
  /\ At(r, "write")
  /\ room' = [room EXCEPT ![q.room] = rm]
  /\ hist' = [hist EXCEPT ![q.room].opened = @ \/ Open(rm)]
  /\ Go(r, "ok")
  /\ UNCHANGED roomUser

\* Any await may reject, which answers the request.
Fail(r) ==
  /\ req[r].pc \notin {"idle", "ok", "failed"}
  /\ Go(r, "failed")
  /\ UNCHANGED <<room, roomUser, hist>>

-----------------------------------------------------------------------------
Init ==
  /\ room = [i \in Room |-> Unused]
  /\ roomUser = [k \in RoomUserId |-> Unused]
  /\ req = [r \in Req |-> Idle]
  /\ hist = [i \in Room |-> [founders |-> {}, everIn |-> {}, opened |-> FALSE, uninvited |-> {}]]

\* Ids for the members a new room inserts.
FreshIds(S) ==
  {f \in [S -> {k \in RoomUserId : roomUser[k] = Unused}] :
     \A u, v \in S : f[u] = f[v] => u = v}

Start(r) ==
  \/ \E c \in User, S \in SUBSET User, d, p \in BOOLEAN :
       StartCreate(r, c, S, [isDirect |-> d, isPrivate |-> p, isActive |-> TRUE])
  \/ \E c, t \in User, i \in Room :
       \/ \E kind \in {"add", "remove"} : StartOn(r, kind, c, t, i, NoForm, "member")
       \/ \E role \in Role : StartOn(r, "role", c, t, i, NoForm, role)
  \/ \E c \in User, i \in Room :
       \/ StartOn(r, "join", c, c, i, NoForm, "member")
       \/ StartOn(r, "delete", c, None, i, NoForm, "member")
       \/ \E p, a \in BOOLEAN :
            StartOn(r, "update", c, None, i,
                    [isDirect |-> FALSE, isPrivate |-> p, isActive |-> a], "member")

Continue(r) ==
  \/ FindDirect(r)
  \/ \E i \in Room : \E f \in FreshIds(req[r].users) : InsertRoom(r, i, f)
  \/ LoadRoom(r) \/ Access(r) \/ Lookup(r)
  \/ \E k \in RoomUserId : Insert(r, k)
  \/ Remove(r) \/ FindRow(r) \/ SetRole(r) \/ Write(r)

Next == \E r \in Req : Start(r) \/ Continue(r) \/ Fail(r)

Spec == Init /\ [][Next]_vars

-----------------------------------------------------------------------------
(* Properties *)

\* Type invariant of the room tables and of the requests on them.
TypeOK ==
  /\ room \in [Room -> RoomRow \cup {Unused}]
  /\ roomUser \in [RoomUserId -> RoomUser \cup {Unused, Gone}]
  /\ req \in [Req -> Request]
  /\ hist \in [Room -> History]

\* Nobody who was not named when a direct room was created ever becomes a
\* member of it, whatever add and join requests are in flight while it is
\* created, changed or deactivated (the isDirect checks of addUser and
\* joinRoom, which are two or three awaits before the INSERT).
DirectRoomsClosed ==
  \A i \in Room : Created(i) /\ room[i].isDirect => hist[i].everIn \subseteq hist[i].founders

\* As long as a room has never been open, each new member was added on the
\* request of somebody who was or had been a member: stale checks of addUser
\* and joinRoom let nobody else in.
PrivateByInvitation ==
  \A i \in Room : Created(i) /\ ~hist[i].opened => hist[i].uninvited = {}

\* A removal answered with success has removed every membership of the user
\* that existed when it began, duplicates included, and no other request has
\* brought one of them back (removeUserFromRoom, updateUserRole).
RemovalComplete ==
  \A r \in Req :
    At(r, "ok") /\ Of(r, {"remove"}) => \A k \in req[r].seen : ~Present(k)

\* A create answered with success names a room that all the users it asked for
\* are or were members of, be it an existing direct room or a new one.
CreateAnswersItsRoom ==
  \A r \in Req :
    At(r, "ok") /\ Of(r, {"create"}) =>
      Created(req[r].room) /\ req[r].users \subseteq hist[req[r].room].everIn

\* A deleted room stays deleted: an update that loaded the room before the
\* deletion, and asks for isActive = true, does not revive it (the request
\* writes only what it changed in its snapshot, which was active).
DeletionIsFinal ==
  [][\A i \in Room : Created(i) /\ ~room[i].isActive => ~room'[i].isActive]_vars

\* The requests, with their awaits, stale checks, duplicate rows and failures,
\* implement RoomPolicy: seen through the rows that are there, every step
\* founds a room, lets one user in or out, or changes one room (the whole of
\* rooms.service.ts).  A second row of a member, or a removal of a nonmember,
\* is no step.
Policy == INSTANCE RoomPolicy WITH members <- [i \in Room |-> MembersOf(i)]
PolicySpec == Policy!Spec

\* Someone else's membership is removed, and a role or a room is changed, only
\* on behalf of the room's owner, although the owner was read several awaits
\* before; one's own membership also by oneself.
OwnerGoverns ==
  [][/\ \A i \in Room : Created(i) /\ room'[i] # room[i] =>
          \E r \in Req : Write(r) /\ req[r].room = i /\ req[r].caller = room[i].ownerId
     /\ \A k \in RoomUserId : Present(k) /\ roomUser'[k] # roomUser[k] =>
          \E r \in Req : /\ req'[r].pc # req[r].pc
                         /\ req[r].caller \in {room[roomUser[k].room].ownerId, roomUser[k].user}
                         /\ Of(r, {"role"}) => req[r].caller = room[roomUser[k].room].ownerId]_vars
=============================================================================
