------------------------------ MODULE MCRooms ------------------------------
(* Model checking of Rooms on small instances. *)
EXTENDS Rooms, TLC

\* Ids and users are interchangeable: no definition names one.
Symmetry ==
  Permutations(Req) \cup Permutations(Room) \cup Permutations(RoomUserId) \cup Permutations(User)
=============================================================================
