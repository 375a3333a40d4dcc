--------------------------- MODULE MCChatGateway ---------------------------
(* Model checking of ChatGateway on small instances. *)
EXTENDS ChatGateway, TLC

\* Slots, ids, users and contents are interchangeable: no definition names one.
Symmetry ==
  UNION {Permutations(S) : S \in {Job, Socket, Message, User, Room, Content} \ {{}}}
=============================================================================
