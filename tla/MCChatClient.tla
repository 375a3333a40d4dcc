---------------------------- MODULE MCChatClient ----------------------------
(* Model checking of ChatClient on small instances. *)
EXTENDS ChatClient, TLC

\* Rooms are interchangeable where the user is a member of none; not for
\* liveness.
Symmetry == Permutations(Room)
=============================================================================
