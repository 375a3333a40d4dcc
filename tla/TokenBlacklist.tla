--------------------------- MODULE TokenBlacklist ---------------------------
(***************************************************************************)
(* Access tokens and the in-memory service that kills them                 *)
(* (auth/token-blacklist.service.ts).                                      *)
(*                                                                         *)
(* A JWT string is a function of its payload and the secret.  The payload  *)
(* is the user and iat (exp is iat plus a constant), so a token is         *)
(* abstracted to [user, iat]: two tokens signed for one user within one    *)
(* second are the same string.                                             *)
(*                                                                         *)
(* latestUserTokens (lines 26-27) is written here and read by no decision, *)
(* so it is not part of the state.  Each method below is synchronous: Node *)
(* runs it to the end before anything else.                                *)
(***************************************************************************)
EXTENDS ServerClock

CONSTANT AccessTTL   \* JWT_ACCESS_TOKEN_EXPIRES_IN, in seconds

ASSUME AccessTTLAssumption == AccessTTL \in Nat \ {0}

VARIABLES signed,      \* every access token this deployment has signed
          blacklist,   \* keys of the blacklist map
          userTokens   \* user id -> set of tokens, as the map of that name

Token == [user : User, iat : Nat]

TokensOf(u, T) == {t \in T : t.user = u}

\* The token is past its exp claim: both jwt.verify and the cleanup loop
\* compare exp <= now.
Expired(t) == t.iat + AccessTTL <= now

\* What JwtStrategy and validateToken require of a token, the user aside: a
\* signature of ours, not expired, isBlacklisted false.
Accepts(t) == t \in signed /\ ~Expired(t) /\ t \notin blacklist

-----------------------------------------------------------------------------
\* Mutant: a logout that spares the tokens issued within the current second.
BlacklistedByAllButNew(u) == blacklist \cup {t \in userTokens[u] : t.iat < now}

\* blacklistUserTokens: every token on record for the user, the latest one
\* included; a token already on the blacklist keeps its entry.
BlacklistedBy(u) == blacklist \cup userTokens[u]

\* Mutant: the token is recorded only when the user's set is first created.
TrackedFirstOnly(u, t) ==
  IF userTokens[u] = {} THEN [userTokens EXCEPT ![u] = {t}] ELSE userTokens

\* setLatestUserToken: the user's set gains the token, blacklisted or not.
TrackedBy(u, t) == [userTokens EXCEPT ![u] = @ \cup {t}]

\* Mutant: the sweep is one second early.
EarlySweep == {t \in blacklist : t.iat + AccessTTL <= now + 1}

\* The entries cleanupExpiredTokens finds expired.  The loop runs over the
\* blacklist only.
Sweep == {t \in blacklist : Expired(t)}

\* Mutant: the sweep forgets this.blacklist.delete(token).
CleanupOfSetsOnly ==
  /\ userTokens' = [u \in User |-> userTokens[u] \ Sweep]
  /\ UNCHANGED <<now, signed, blacklist>>

\* The hourly cleanupExpiredTokens: expired entries leave the blacklist and
\* the set of the user they name.
CleanupExpiredTokens ==
  /\ userTokens' = [u \in User |-> userTokens[u] \ Sweep]
  /\ blacklist' = blacklist \ Sweep
  /\ UNCHANGED <<now, signed>>
=============================================================================
