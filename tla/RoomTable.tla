----------------------------- MODULE RoomTable -----------------------------
(***************************************************************************)
(* The room and room_user tables (entities/Room.entity.ts and              *)
(* RoomUser.entity.ts) and the statements and tests rooms.service.ts makes *)
(* on them.  room_user has no unique key on (room, user).  Ids are         *)
(* auto-increment, hence never used twice.                                 *)
(***************************************************************************)
EXTENDS Naturals, FiniteSets

CONSTANTS User,
          Room,         \* room ids
          RoomUserId,   \* room_user ids
          Unused,       \* an id no row has had yet
          Gone          \* the id of a row that was deleted

Role == {"owner", "admin", "member"}
RoomRow == [isDirect : BOOLEAN, isPrivate : BOOLEAN, isActive : BOOLEAN, ownerId : User]
RoomUser == [room : Room, user : User, role : Role]

ASSUME RoomTableAssumption ==
  /\ Unused \notin RoomRow \cup RoomUser
  /\ Gone \notin RoomUser \cup {Unused}

VARIABLES room,         \* Room -> row, or Unused
          roomUser      \* RoomUserId -> row, Unused or Gone

Created(i) == room[i] # Unused
Present(k) == roomUser[k] \notin {Unused, Gone}

RowsOf(i, u) ==
  {k \in RoomUserId : Present(k) /\ roomUser[k].room = i /\ roomUser[k].user = u}

\* isUserInRoom
IsUserInRoom(u, i) == RowsOf(i, u) # {}
MembersOf(i) == {u \in User : IsUserInRoom(u, i)}

\* What an outsider may join.
Open(rm) == ~rm.isPrivate /\ ~rm.isDirect /\ rm.isActive

\* canUserJoinRoom, for the room row rm it has read.
CanUserJoin(u, i, rm) == IsUserInRoom(u, i) \/ Open(rm)

\* Mutant: the rooms of any of the users, without the HAVING clause.
DirectRoomsWithAny(S) ==
  {i \in Room : Created(i) /\ room[i].isDirect /\ room[i].isActive /\ S \cap MembersOf(i) # {}}

\* The query of createRoom: direct rooms in which every user of S is a member
\* (COUNT(distinct ru.user_id) over the rows of users of S), and maybe others.
DirectRoomsWith(S) ==
  {i \in Room : Created(i) /\ room[i].isDirect /\ room[i].isActive /\ S \subseteq MembersOf(i)}

\* Mutant: the role is left to a default the table does not have.
JoinedWithoutRole(k, i, u) == [roomUser EXCEPT ![k] = [room |-> i, user |-> u]]

\* INSERT of a membership with an id never used.
Joined(k, i, u) ==
  [roomUser EXCEPT ![k] = [room |-> i, user |-> u, role |-> "member"]]

\* Mutant: the DELETE does not name the user.
RemovedEveryone(i, u) ==
  [k \in RoomUserId |-> IF Present(k) /\ roomUser[k].room = i THEN Gone ELSE roomUser[k]]

\* nativeDelete of removeUserFromRoom: every row of the user in the room.
Removed(i, u) ==
  [k \in RoomUserId |-> IF k \in RowsOf(i, u) THEN Gone ELSE roomUser[k]]
=============================================================================
