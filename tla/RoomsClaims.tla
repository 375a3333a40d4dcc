---------------------------- MODULE RoomsClaims ----------------------------
(***************************************************************************)
(* A statement about rooms which a test of the repository makes and the    *)
(* code does not keep.                                                     *)
(***************************************************************************)
EXTENDS Rooms

\* "Creating a DM room with a user already in a DM returns the existing room"
\* (test/e2e/rooms.e2e-spec.ts:458): no two active direct rooms are created
\* with the same users, for createRoom looks for the first before it inserts
\* the second, in one transaction.
DirectRoomUnique ==
  \A i, j \in Room :
    /\ i # j /\ Created(i) /\ Created(j)
    /\ room[i].isDirect /\ room[i].isActive /\ room[j].isDirect /\ room[j].isActive
    /\ MembersOf(i) = hist[i].founders /\ MembersOf(j) = hist[j].founders
    => hist[i].founders # hist[j].founders
=============================================================================
