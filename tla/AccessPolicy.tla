---------------------------- MODULE AccessPolicy ----------------------------
(***************************************************************************)
(* What the session endpoints promise about access tokens, with no maps,   *)
(* tables or requests: at any moment some tokens are live.  Ending a       *)
(* user's sessions kills all of the user's live tokens in one step;        *)
(* signing in does that and issues a token; a refresh issues one more.     *)
(* Only tokens issued at the present second can become live, and a token   *)
(* killed before its expiry never does again.                              *)
(***************************************************************************)
EXTENDS Naturals

CONSTANTS User, AccessTTL

VARIABLES now,
          live,      \* the tokens a guard would let through
          killed     \* tokens killed that have not reached their expiry

Token == [user : User, iat : Nat]
TokenNow(u) == [user |-> u, iat |-> now]
LiveOf(u) == {t \in live : t.user = u}

Init == now = 0 /\ live = {} /\ killed = {}

EndSessions(u) ==
  /\ live' = live \ LiveOf(u)
  /\ killed' = killed \cup LiveOf(u)
  /\ UNCHANGED now

\* A token signed a second time within the second it was killed stays dead.
SignIn(u) ==
  /\ killed' = killed \cup LiveOf(u)
  /\ live' = (live \ LiveOf(u)) \cup ({TokenNow(u)} \ killed')
  /\ UNCHANGED now

Refresh(u) ==
  /\ live' = live \cup ({TokenNow(u)} \ killed)
  /\ UNCHANGED <<now, killed>>

Pass ==
  /\ now' = now + 1
  /\ live' = {t \in live : t.iat + AccessTTL > now'}
  /\ killed' = {t \in killed : t.iat + AccessTTL > now'}

Next == \/ \E u \in User : EndSessions(u) \/ SignIn(u) \/ Refresh(u)
        \/ Pass

Spec == Init /\ [][Next]_<<now, live, killed>>
=============================================================================
