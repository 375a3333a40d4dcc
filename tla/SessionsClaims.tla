--------------------------- MODULE SessionsClaims ---------------------------
(***************************************************************************)
(* What comments and tests of the repository say about sessions and the    *)
(* code does not do.  Each is checked by a run that expects a              *)
(* counterexample; the README tells the story of each.                     *)
(***************************************************************************)
EXTENDS Sessions

Answered(r, kind) == Of(r, {kind}) /\ ~At(r, "ok") /\ At(r, "ok")'

\* "Add precise timestamp with milliseconds to make each token unique"
\* (auth.service.ts line 84): no two logins are given the same access token.
\* The timestamp is in whole seconds, so a second login within the second is
\* given the token that it has itself just blacklisted.
LoginTokensUnique ==
  \A q, r \in Req :
    /\ q # r
    /\ At(q, "ok") /\ At(r, "ok") /\ Of(q, {"login"}) /\ Of(r, {"login"})
    => req[q].access # req[r].access

\* "ensure all tokens for this user are revoked" (auth.controller.ts line
\* 241): when a logout is answered, no refresh token of the user is usable.
\* A refresh validated before the logout's UPDATE inserts its token after it.
LogoutRevokesAll ==
  [][\A r \in Req : Answered(r, "logout") =>
       \A n \in RefreshToken : (Exists(n) /\ row[n].user = req[r].user)' => ~Valid(n)']_vars

\* "If password change was successful, invalidate all tokens"
\* (auth.controller.ts line 117): when a password change is answered with
\* success, the token it presented is refused.  A failed UPDATE makes logout
\* return false, which line 118 drops.
PasswordChangeEndsSession ==
  [][\A r \in Req : Answered(r, "password") => ~Accepts(req[r].access)']_vars
=============================================================================
