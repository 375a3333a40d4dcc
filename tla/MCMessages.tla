----------------------------- MODULE MCMessages -----------------------------
(* Model checking of Messages on small instances. *)
EXTENDS Messages, TLC

\* Slots and ids are interchangeable; the users are not, for a content names
\* the ones it mentions.
Symmetry == Permutations(Req) \cup Permutations(Message) \cup Permutations(ReactionId)
=============================================================================
