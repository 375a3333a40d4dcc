----------------------------- MODULE RoomPolicy -----------------------------
(***************************************************************************)
(* What the requests on rooms promise, with no requests, rows or checks:   *)
(* a room is founded with its members, its owner among them, and then one  *)
(* user at a time enters or leaves.  Who owns a room, and whether it is    *)
(* direct, never changes; nobody enters a direct room, and a room that was *)
(* deleted, which makes it inactive, is never active again.                *)
(***************************************************************************)
CONSTANTS User,
          Room,      \* room ids
          Unused     \* an id no room has had yet

VARIABLES room,      \* Room -> row, or Unused
          members    \* Room -> the users who are members

RoomRow == [isDirect : BOOLEAN, isPrivate : BOOLEAN, isActive : BOOLEAN, ownerId : User]

Founded(i) == room[i] # Unused

Found(i, rm, S) ==
  /\ ~Founded(i)
  /\ rm.isActive /\ rm.ownerId \in S
  /\ room' = [room EXCEPT ![i] = rm]
  /\ members' = [members EXCEPT ![i] = S]

Enter(i, u) ==
  /\ Founded(i) /\ ~room[i].isDirect
  /\ u \notin members[i]
  /\ members' = [members EXCEPT ![i] = @ \cup {u}]
  /\ UNCHANGED room

Leave(i, u) ==
  /\ u \in members[i]
  /\ members' = [members EXCEPT ![i] = @ \ {u}]
  /\ UNCHANGED room

Change(i, private, active) ==
  /\ Founded(i)
  /\ active => room[i].isActive
  /\ room' = [room EXCEPT ![i].isPrivate = private, ![i].isActive = active]
  /\ UNCHANGED members

Init ==
  /\ room = [i \in Room |-> Unused]
  /\ members = [i \in Room |-> {}]

Next ==
  \E i \in Room :
    \/ \E rm \in RoomRow, S \in SUBSET User : Found(i, rm, S)
    \/ \E u \in User : Enter(i, u) \/ Leave(i, u)
    \/ \E p, a \in BOOLEAN : Change(i, p, a)

Spec == Init /\ [][Next]_<<room, members>>
=============================================================================
