---------------------------- MODULE ServerClock ----------------------------
(***************************************************************************)
(* The wall clock of the backend process, shared by the services that      *)
(* compare it with an expiry, and the set of user ids.  One tick is one    *)
(* second: AuthService.login and refreshTokens stamp the access token with *)
(* Math.floor(Date.now() / 1000), so nothing finer reaches the token.      *)
(***************************************************************************)
EXTENDS Naturals

CONSTANTS User,      \* user ids
          MaxTime    \* bound of the model: the clock stops there

ASSUME ClockAssumption == MaxTime \in Nat

VARIABLE now         \* Math.floor(Date.now() / 1000)

\* Time passes.  The bound only ends the exploration.
Tick == /\ now < MaxTime
        /\ now' = now + 1
=============================================================================
