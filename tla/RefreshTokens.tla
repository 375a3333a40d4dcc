--------------------------- MODULE RefreshTokens ---------------------------
(***************************************************************************)
(* The refresh_token table (entities/refresh-token.entity.ts) and the      *)
(* statements auth/refresh-token.service.ts runs on it.  A token string is *)
(* a random UUID, hence a model value.  No path of the program deletes a   *)
(* row.  removeExpiredTokens and revokeRefreshToken are defined by the     *)
(* service and called by nobody, so they have no action.                   *)
(***************************************************************************)
EXTENDS ServerClock

CONSTANTS RefreshToken,  \* refresh token strings
          RefreshTTL,    \* the 30 days of createRefreshToken, in ticks
          NoRow          \* the string has not been inserted

Row == [user : User, expiresAt : Nat, revoked : BOOLEAN]

ASSUME RefreshAssumption == RefreshTTL \in Nat /\ NoRow \notin Row

VARIABLE row             \* RefreshToken -> the row of the table, or NoRow

Exists(n) == row[n] # NoRow

\* Rows of the user, revoked and expired ones included.
RowsOf(u) == {n \in RefreshToken : Exists(n) /\ row[n].user = u}

\* validateRefreshToken: found, isExpired (expiresAt < now) false, not revoked.
Valid(n) == Exists(n) /\ ~row[n].revoked /\ row[n].expiresAt >= now

\* Mutant: the operands of the expiry are swapped.
RowWithSwappedExpiry(u) ==
  [user |-> u, expiresAt |-> now - RefreshTTL, revoked |-> FALSE]

\* new RefreshToken(user, 30, ...)
NewRow(u) == [user |-> u, expiresAt |-> now + RefreshTTL, revoked |-> FALSE]

\* createRefreshToken: one INSERT of an unused string.
Inserted(n, u) == [row EXCEPT ![n] = NewRow(u)]

\* Mutant: the entity is marked and never flushed.
RevokedInMemoryOnly(n) == row

\* existingToken.revoke() and its flush: one UPDATE by primary key.
Revoked(n) == [row EXCEPT ![n].revoked = TRUE]

\* revokeAllUserRefreshTokens: one UPDATE over the rows that exist now.
RevokedAll(u) ==
  [n \in RefreshToken |-> IF n \in RowsOf(u)
                          THEN [row[n] EXCEPT !.revoked = TRUE]
                          ELSE row[n]]
=============================================================================
