------------------------------ MODULE Sessions ------------------------------
(***************************************************************************)
(* The session life cycle of the backend: login, token refresh, logout,    *)
(* password change and account deletion (auth/auth.controller.ts,          *)
(* auth/auth.service.ts) over the token blacklist, the refresh_token table *)
(* and the user table.                                                     *)
(*                                                                         *)
(* Requests run concurrently in one Node process.  A request is atomic     *)
(* from one await to the next, so its steps are the statements the         *)
(* database executes and the synchronous segments that touch the in-memory *)
(* maps.  Every await may reject (Fail).  Req is a set of request slots,   *)
(* each used once, which bounds the exploration.                           *)
(***************************************************************************)
EXTENDS TokenBlacklist, RefreshTokens

CONSTANTS Req,          \* request slots
          None,         \* an empty field of a request
          ForeignKeys   \* createForeignKeyConstraints: TRUE in the deployed
                        \* configuration, FALSE in the one the e2e tests use

\* The handlers, by route.
Kind == {"login", "refresh", "logout", "password", "signout"}

ASSUME SessionsAssumption ==
  /\ ForeignKeys \in BOOLEAN
  /\ None \notin User \cup Token \cup RefreshToken \cup Kind

VARIABLES accounts,     \* rows of the user table
          req           \* the requests, by slot

vars == <<now, signed, blacklist, userTokens, row, accounts, req>>

-----------------------------------------------------------------------------
\* seenTokens and seenRows are history: the access tokens signed for the user
\* and the user's refresh_token rows when the request began.
Ending == {"login", "logout", "signout"}
PC == {"idle", "sign", "revokeAll", "create",                      \* login
       "rotate", "insert", "revokeOld", "findUser", "signRefreshed",
       "update", "delete", "blacklist",              \* password and signout
       "ok", "failed"}
Request ==
  [kind : Kind \cup {None}, pc : PC, user : User \cup {None},
   access : Token \cup {None}, old : RefreshToken \cup {None},
   new : RefreshToken \cup {None},
   seenTokens : SUBSET Token, seenRows : SUBSET RefreshToken]

Idle == [kind |-> None, pc |-> "idle", user |-> None, access |-> None,
         old |-> None, new |-> None, seenTokens |-> {}, seenRows |-> {}]

\* The request of slot r begins for user u at program counter pc, presenting
\* access token t and refresh token n (None if it needs none).
Begin(r, kind, pc, u, t, n) ==
  req' = [req EXCEPT ![r] =
            [kind |-> kind, pc |-> pc, user |-> u, access |-> t, old |-> n,
             new |-> None, seenTokens |-> TokensOf(u, signed),
             seenRows |-> RowsOf(u)]]

At(r, pc) == req[r].pc = pc
Go(r, pc) == req' = [req EXCEPT ![r].pc = pc]
InFlight(r) == req[r].pc \notin {"idle", "ok", "failed"}
Of(r, kinds) == req[r].kind \in kinds

\* Tokens some client has received in an answer.
Delivered == {req[r].access : r \in {q \in Req : At(q, "ok") /\ Of(q, {"login", "refresh"})}}
Held == {req[r].new : r \in {q \in Req : At(q, "ok") /\ Of(q, {"login", "refresh"})}}

\* A string uuidv4 has not returned before, reserved by nobody else.
Fresh(n) == ~Exists(n)

-----------------------------------------------------------------------------
(* POST auth/login *)

\* validateUser: the account is found and the password matches.
StartLogin(r, u) ==
  /\ At(r, "idle") /\ u \in accounts
  /\ Begin(r, "login", "sign", u, None, None)
  /\ UNCHANGED <<now, signed, blacklist, userTokens, row, accounts>>

\* Mutant: setLatestUserToken before blacklistUserTokens.
SignInTrackedFirst(r) ==
  LET u == req[r].user
      t == [user |-> u, iat |-> now] IN
  /\ At(r, "sign")
  /\ signed' = signed \cup {t}
  /\ blacklist' = BlacklistedBy(u) \cup {t}
  /\ userTokens' = TrackedBy(u, t)
  /\ req' = [req EXCEPT ![r].pc = "revokeAll", ![r].access = t]
  /\ UNCHANGED <<now, row, accounts>>

\* login up to its first await: sign, blacklistUserTokens, setLatestUserToken.
SignIn(r) ==
  LET u == req[r].user
      t == [user |-> u, iat |-> now] IN
  /\ At(r, "sign")
  /\ signed' = signed \cup {t}
  /\ blacklist' = BlacklistedBy(u)
  /\ userTokens' = TrackedBy(u, t)
  /\ req' = [req EXCEPT ![r].pc = "revokeAll", ![r].access = t]
  /\ UNCHANGED <<now, row, accounts>>

LoginRevokeAll(r) ==
  /\ At(r, "revokeAll") /\ Of(r, {"login"})
  /\ row' = RevokedAll(req[r].user)
  /\ Go(r, "create")
  /\ UNCHANGED <<now, signed, blacklist, userTokens, accounts>>

\* createRefreshToken, then the answer with both cookies.
LoginCreate(r, n) ==
  /\ At(r, "create") /\ Fresh(n)
  /\ row' = Inserted(n, req[r].user)
  /\ req' = [req EXCEPT ![r].pc = "ok", ![r].new = n]
  /\ UNCHANGED <<now, signed, blacklist, userTokens, accounts>>

-----------------------------------------------------------------------------
(* POST auth/refresh *)

\* RefreshTokenAuthGuard: an invalid token leaves request.user undefined, on
\* which the handler throws and answers 401.
StartRefresh(r, n) ==
  /\ At(r, "idle") /\ n \in Held
  /\ Begin(r, "refresh", IF Valid(n) THEN "rotate" ELSE "failed", row[n].user, None, n)
  /\ UNCHANGED <<now, signed, blacklist, userTokens, row, accounts>>

\* Mutant: the old token is revoked before its replacement is created.
RotateRevokingFirst(r) ==
  /\ At(r, "rotate") /\ Valid(req[r].old)
  /\ row' = Revoked(req[r].old)
  /\ Go(r, "insert")
  /\ UNCHANGED <<now, signed, blacklist, userTokens, accounts>>

\* rotateRefreshToken validates the token once more.
Rotate(r) ==
  /\ At(r, "rotate")
  /\ Go(r, IF Valid(req[r].old) THEN "insert" ELSE "failed")
  /\ UNCHANGED <<now, signed, blacklist, userTokens, row, accounts>>

InsertNew(r, n) ==
  /\ At(r, "insert") /\ Fresh(n)
  /\ row' = Inserted(n, row[req[r].old].user)
  /\ req' = [req EXCEPT ![r].pc = "revokeOld", ![r].new = n]
  /\ UNCHANGED <<now, signed, blacklist, userTokens, accounts>>

RevokeOld(r) ==
  /\ At(r, "revokeOld")
  /\ row' = Revoked(req[r].old)
  /\ Go(r, "findUser")
  /\ UNCHANGED <<now, signed, blacklist, userTokens, accounts>>

\* usersService.findById
FindUser(r) ==
  /\ At(r, "findUser")
  /\ Go(r, IF req[r].user \in accounts THEN "signRefreshed" ELSE "failed")
  /\ UNCHANGED <<now, signed, blacklist, userTokens, row, accounts>>

SignRefreshed(r) ==
  LET t == [user |-> req[r].user, iat |-> now] IN
  /\ At(r, "signRefreshed")
  /\ signed' = signed \cup {t}
  /\ userTokens' = TrackedBy(req[r].user, t)
  /\ req' = [req EXCEPT ![r].pc = "ok", ![r].access = t]
  /\ UNCHANGED <<now, blacklist, row, accounts>>

-----------------------------------------------------------------------------
(* POST auth/logout, PATCH auth/password, DELETE auth/signout *)

\* JwtAuthGuard and JwtStrategy.validate for a token a client holds; what
\* they refuse changes nothing, so only the accepted case is a step.
Authenticate(r, kind, t) ==
  /\ At(r, "idle") /\ t \in Delivered
  /\ Accepts(t) /\ t.user \in accounts
  /\ Begin(r, kind,
           CASE kind = "logout" -> "revokeAll" [] kind = "password" -> "update"
             [] kind = "signout" -> "delete",
           t.user, t, None)
  /\ UNCHANGED <<now, signed, blacklist, userTokens, row, accounts>>

\* changePassword: the new hash is flushed.  Hashes are not modelled.
UpdatePassword(r) ==
  /\ At(r, "update") /\ Go(r, "revokeAll")
  /\ UNCHANGED <<now, signed, blacklist, userTokens, row, accounts>>

\* The rows that keep the database from deleting the user.
Restricting(u) == IF ForeignKeys THEN RowsOf(u) ELSE {}

\* deleteUser: removeAndFlush, refused while a row references the user.
DeleteUser(r) ==
  LET u == req[r].user IN
  /\ At(r, "delete")
  /\ \/ /\ Restricting(u) # {}
        /\ Go(r, "failed")
        /\ UNCHANGED accounts
     \/ /\ Restricting(u) = {}
        /\ accounts' = accounts \ {u}
        /\ Go(r, "revokeAll")
  /\ UNCHANGED <<now, signed, blacklist, userTokens, row>>

\* AuthService.logout, first statement.
LogoutRevokeAll(r) ==
  /\ At(r, "revokeAll") /\ Of(r, {"logout", "password", "signout"})
  /\ row' = RevokedAll(req[r].user)
  /\ Go(r, "blacklist")
  /\ UNCHANGED <<now, signed, blacklist, userTokens, accounts>>

\* ... its continuation, and the answer.
LogoutBlacklist(r) ==
  /\ At(r, "blacklist")
  /\ blacklist' = BlacklistedBy(req[r].user)
  /\ Go(r, "ok")
  /\ UNCHANGED <<now, signed, userTokens, row, accounts>>

-----------------------------------------------------------------------------
\* The step a database call of the request rejects instead (or a wrong
\* password, for password and signout).  AuthService.logout catches it and
\* returns false, which changePassword alone does not look at.
Awaiting == {"revokeAll", "create", "rotate", "insert", "revokeOld", "findUser",
             "update", "delete"}
AnswerToFailure(r) == IF Of(r, {"password"}) /\ At(r, "revokeAll") THEN "ok" ELSE "failed"

Fail(r) ==
  /\ req[r].pc \in Awaiting
  /\ Go(r, AnswerToFailure(r))
  /\ UNCHANGED <<now, signed, blacklist, userTokens, row, accounts>>

ClockTick == Tick /\ UNCHANGED <<signed, blacklist, userTokens, row, accounts, req>>

Cleanup == CleanupExpiredTokens /\ UNCHANGED <<row, accounts, req>>

\* The process dies and comes back: the maps are empty, the tables and the
\* signing secret are not, and the requests in flight are never answered.
Restart ==
  /\ blacklist' = {}
  /\ userTokens' = [u \in User |-> {}]
  /\ req' = [r \in Req |-> IF InFlight(r) THEN [req[r] EXCEPT !.pc = "failed"] ELSE req[r]]
  /\ UNCHANGED <<now, signed, row, accounts>>

-----------------------------------------------------------------------------
Init ==
  /\ now = 0
  /\ signed = {} /\ blacklist = {} /\ userTokens = [u \in User |-> {}]
  /\ row = [n \in RefreshToken |-> NoRow]
  /\ accounts = User
  /\ req = [r \in Req |-> Idle]

\* A request goes on.
Continue(r) ==
  \/ SignIn(r) \/ LoginRevokeAll(r) \/ \E n \in RefreshToken : LoginCreate(r, n)
  \/ Rotate(r) \/ \E n \in RefreshToken : InsertNew(r, n)
  \/ RevokeOld(r) \/ FindUser(r) \/ SignRefreshed(r)
  \/ UpdatePassword(r) \/ DeleteUser(r)
  \/ LogoutRevokeAll(r) \/ LogoutBlacklist(r)

Start(r) ==
  \/ \E u \in User : StartLogin(r, u)
  \/ \E n \in Held : StartRefresh(r, n)
  \/ \E t \in Delivered : \E kind \in {"logout", "password", "signout"} : Authenticate(r, kind, t)

Next == \/ \E r \in Req : Start(r) \/ Continue(r) \/ Fail(r)
        \/ ClockTick
        \/ Cleanup

Spec == Init /\ [][Next]_vars

\* The same server, that may also be restarted at any moment.
CrashSpec == Init /\ [][Next \/ Restart]_vars

\* Node runs every ready continuation and the database answers; the clock
\* advances; the cleanup timer fires.  Nobody has to send a request.
Fairness == /\ \A r \in Req : WF_vars(Continue(r))
            /\ WF_vars(ClockTick)
            /\ WF_vars(Cleanup)

FairSpec == Spec /\ Fairness
FairCrashSpec == CrashSpec /\ Fairness

-----------------------------------------------------------------------------
(* Properties *)

\* Type invariant of the session server's state.
TypeOK ==
  /\ now \in Nat
  /\ signed \in SUBSET Token /\ blacklist \in SUBSET Token
  /\ userTokens \in [User -> SUBSET Token]
  /\ row \in [RefreshToken -> Row \cup {NoRow}]
  /\ accounts \in SUBSET User
  /\ req \in [Req -> Request]

\* Until the process restarts, every access token that still verifies is on
\* record under the user it names, or already on the blacklist: so
\* blacklistUserTokens misses none, whatever cleanupExpiredTokens removed.
Tracked ==
  \A t \in signed : \/ Expired(t)
                    \/ t \in blacklist
                    \/ t \in userTokens[t.user]

\* A login, logout or account deletion that was answered with success has
\* ended, for good, every session the user had when it began: each access
\* token signed by then, delivered or not, is refused, and each refresh token
\* inserted by then is unusable (AuthService.login lines 96-105 and logout
\* lines 214-220, under every interleaving with other requests).
SessionsEnded ==
  \A r \in Req :
    At(r, "ok") /\ Of(r, Ending) =>
      /\ \A t \in req[r].seenTokens : ~Accepts(t)
      /\ \A n \in req[r].seenRows : ~Valid(n)

\* A refresh that was answered with success has spent the token it was given:
\* no later refresh can use it, and what it returned belongs to the same user
\* and outlives it (rotateRefreshToken, refreshTokens).
RotationSpendsOld ==
  \A r \in Req :
    At(r, "ok") /\ Of(r, {"refresh"}) =>
      LET old == row[req[r].old]
          new == row[req[r].new] IN
      /\ Exists(req[r].old) /\ Exists(req[r].new)
      /\ old.revoked /\ req[r].new # req[r].old
      /\ new.user = old.user /\ req[r].access.user = old.user
      /\ new.expiresAt >= old.expiresAt

UsableTokenOf(u) == \E n \in RowsOf(u) : Valid(n)

\* A step of a refresh request, failed ones and interrupted ones included,
\* never takes from the user the last usable refresh token: the replacement
\* is in the table before the old one is revoked (rotateRefreshToken), and no
\* other request can have revoked the one without the other.
NeverStranded ==
  [][\A r \in Req : Of(r, {"refresh"}) /\ req'[r].pc # req[r].pc =>
       \A u \in User : UsableTokenOf(u) => UsableTokenOf(u)']_vars

\* A signed access token that is refused once is refused for ever: the hourly
\* cleanup never takes a token off the blacklist while it still verifies, and
\* no second signing of the same string brings it back.
NoResurrection ==
  [][\A t \in signed : ~Accepts(t) => ~Accepts(t)']_vars

\* The server implements the policy on access tokens: a guard sees the
\* sessions of a user end in one step, although requests interleave.
Policy == INSTANCE AccessPolicy
            WITH live <- {t \in signed : Accepts(t)},
                 killed <- {t \in blacklist : ~Expired(t)}
PolicySpec == Policy!Spec

\* The blacklist does not grow for ever: every entry is removed once the
\* token has expired and the hourly cleanup has run (the clock of the model stops at
\* MaxTime, which leaves out the tokens that expire later).
BlacklistDrains ==
  \A u \in User : \A i \in 0..MaxTime :
    LET t == [user |-> u, iat |-> i] IN
    i + AccessTTL <= MaxTime => (t \in blacklist ~> t \notin blacklist)
=============================================================================
