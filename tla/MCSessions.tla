---------------------------- MODULE MCSessions ----------------------------
(* Model checking of Sessions on small instances. *)
EXTENDS Sessions, TLC

\* Slots and refresh token strings are interchangeable, and so are users: no
\* definition names one.  Used by the safety runs only.
Symmetry == Permutations(Req) \cup Permutations(RefreshToken) \cup Permutations(User)
=============================================================================
