--------------------------- MODULE SessionsProofs ---------------------------
(***************************************************************************)
(* Theorems about Sessions, for every set of users, requests and refresh   *)
(* tokens, every pair of lifetimes and every clock bound.                  *)
(***************************************************************************)
EXTENDS Sessions, TLAPS

-----------------------------------------------------------------------------
(* The inductive invariant, by parts *)

RefreshPC == {"rotate", "insert", "revokeOld", "findUser", "signRefreshed"}
Presenting == {"logout", "password", "signout"}

\* Which program counters belong to which kind of request.
Control(r) ==
  /\ At(r, "idle") <=> req[r].kind = None
  /\ req[r].pc \in {"sign", "create"} => Of(r, {"login"})
  /\ req[r].pc \in RefreshPC => Of(r, {"refresh"})
  /\ At(r, "revokeAll") => Of(r, {"login"} \cup Presenting)
  /\ At(r, "update") => Of(r, {"password"})
  /\ At(r, "delete") => Of(r, {"signout"})
  /\ At(r, "blacklist") => Of(r, Presenting)

\* The request has inserted, or been answered, a refresh token of its own.
HasNew(r) == \/ Of(r, {"login"}) /\ At(r, "ok")
             \/ Of(r, {"refresh"}) /\ req[r].pc \in {"revokeOld", "findUser", "signRefreshed", "ok"}

\* The request has signed, or presented, an access token.
HasAccess(r) == \/ Of(r, {"login"}) /\ req[r].pc \in {"revokeAll", "create", "ok"}
                \/ Of(r, {"refresh"}) /\ At(r, "ok")
                \/ Of(r, Presenting)

\* What the fields of a request refer to.
Refers(r) ==
  /\ Of(r, Kind) => req[r].user \in User
  /\ Of(r, {"refresh"}) => req[r].old \in RowsOf(req[r].user)
  /\ HasNew(r) => req[r].new \in RowsOf(req[r].user)
  /\ HasAccess(r) => req[r].access \in TokensOf(req[r].user, signed)
  /\ req[r].seenRows \subseteq RowsOf(req[r].user)
  /\ req[r].seenTokens \subseteq TokensOf(req[r].user, signed)

Base == TypeOK /\ \A r \in Req : Control(r) /\ Refers(r)

\* The old token of a rotation has been revoked.
Spent(r) == Of(r, {"refresh"}) /\ req[r].pc \in {"findUser", "signRefreshed", "ok"}

\* How the two rows of a rotation relate, and that a token which has not been
\* answered yet is known to its own request only.
Rotation(r) ==
  /\ Of(r, {"refresh"}) /\ HasNew(r) =>
       /\ req[r].new # req[r].old
       /\ row[req[r].new].expiresAt >= row[req[r].old].expiresAt
  /\ Spent(r) => row[req[r].old].revoked
  /\ At(r, "revokeOld") /\ row[req[r].new].revoked => row[req[r].old].revoked
  /\ At(r, "revokeOld") => \A q \in Req : Of(q, {"refresh"}) => req[q].old # req[r].new
  /\ HasNew(r) => \A q \in Req \ {r} : HasNew(q) => req[q].new # req[r].new
Lifetimes == \A n \in RefreshToken : Exists(n) => row[n].expiresAt <= now + RefreshTTL
RotationInv == Lifetimes /\ \A r \in Req : Rotation(r)

\* How far a request that ends sessions has got.
Ended(r) ==
  /\ \/ Of(r, {"login"}) /\ req[r].pc \in {"create", "ok"}
     \/ Of(r, {"logout", "signout"}) /\ req[r].pc \in {"blacklist", "ok"}
     => \A n \in req[r].seenRows : row[n].revoked
  /\ \/ Of(r, {"login"}) /\ req[r].pc \in {"revokeAll", "create", "ok"}
     \/ Of(r, {"logout", "signout"}) /\ At(r, "ok")
     => \A t \in req[r].seenTokens : Expired(t) \/ t \in blacklist
EndedInv == Tracked /\ \A r \in Req : Ended(r)
-----------------------------------------------------------------------------
(* What the statements do to the table *)

\* Every row a statement writes is a row, and no row ever leaves its user.
LEMMA InsertedRow ==
  ASSUME TypeOK, NEW n \in RefreshToken, Fresh(n), NEW u \in User,
         row' = Inserted(n, u)
  PROVE  /\ row' \in [RefreshToken -> Row \cup {NoRow}]
         /\ n \in RowsOf(u)'
         /\ \A v : RowsOf(v) \subseteq RowsOf(v)'
         /\ \A m \in RefreshToken : m # n => row'[m] = row[m]
         /\ row'[n] = NewRow(u)
<1>1. NewRow(u) \in Row
  BY RefreshAssumption DEF TypeOK, NewRow, Row
<1> QED
  BY <1>1, RefreshAssumption DEF TypeOK, Inserted, Fresh, Exists, RowsOf, NewRow

LEMMA RevokedRow ==
  ASSUME TypeOK, NEW n \in RefreshToken, Exists(n), row' = Revoked(n)
  PROVE  /\ row' \in [RefreshToken -> Row \cup {NoRow}]
         /\ \A v : RowsOf(v) \subseteq RowsOf(v)'
         /\ \A m \in RefreshToken : m # n => row'[m] = row[m]
         /\ row'[n] = [row[n] EXCEPT !.revoked = TRUE]
<1>1. row[n] \in Row
  BY DEF TypeOK, Exists
<1>2. [row[n] EXCEPT !.revoked = TRUE] \in Row
  BY <1>1 DEF Row
<1> QED
  BY <1>1, <1>2, RefreshAssumption DEF TypeOK, Revoked, Exists, RowsOf, Row

LEMMA RevokedAllRows ==
  ASSUME TypeOK, NEW u, row' = RevokedAll(u)
  PROVE  /\ row' \in [RefreshToken -> Row \cup {NoRow}]
         /\ \A v : RowsOf(v) \subseteq RowsOf(v)'
         /\ \A m \in RefreshToken \ RowsOf(u) : row'[m] = row[m]
         /\ \A m \in RowsOf(u) : row'[m] = [row[m] EXCEPT !.revoked = TRUE]
<1>1. \A m \in RowsOf(u) : row[m] \in Row /\ [row[m] EXCEPT !.revoked = TRUE] \in Row
  BY DEF TypeOK, Exists, RowsOf, Row
<1> QED
  BY <1>1, RefreshAssumption DEF TypeOK, RevokedAll, Exists, RowsOf, Row

-----------------------------------------------------------------------------
(* Base is inductive, restarts included *)

\* It is enough to look at the request that takes the step: the others keep
\* their fields, and what these refer to is never removed.
LEMMA BaseFrame ==
  ASSUME Base, NEW r \in Req, TypeOK',
         signed \subseteq signed', \A v : RowsOf(v) \subseteq RowsOf(v)',
         \A q \in Req \ {r} : req'[q] = req[q],
         Control(r)', Refers(r)'
  PROVE  Base'
<1> SUFFICES ASSUME NEW q \in Req, q # r
             PROVE  Control(q)' /\ Refers(q)'
  BY DEF Base
<1>1. Control(q) /\ Refers(q) /\ req'[q] = req[q]
  BY DEF Base
<1>2. Control(q)'
  BY <1>1 DEF Control, At, Of
<1>3. \A v : TokensOf(v, signed) \subseteq TokensOf(v, signed)'
  BY DEF TokensOf
<1>4. HasNew(q)' = HasNew(q) /\ HasAccess(q)' = HasAccess(q)
  BY <1>1 DEF HasNew, HasAccess, At, Of
<1>5. Refers(q)'
  BY <1>1, <1>3, <1>4 DEF Refers, Of
<1> QED
  BY <1>2, <1>5

LEMMA InitBase == Init => Base
<1> SUFFICES ASSUME Init PROVE Base
  OBVIOUS
<1>1. Idle \in Request
  BY DEF Idle, Request, PC
<1>2. TypeOK
  BY <1>1 DEF Init, TypeOK
<1> SUFFICES ASSUME NEW r \in Req PROVE Control(r) /\ Refers(r)
  BY <1>2 DEF Base
<1>3. req[r] = Idle
  BY DEF Init
<1>4. Control(r)
  BY <1>3 DEF Control, At, Of, Idle, RefreshPC, Presenting
<1>5. Refers(r)
  BY <1>3, SessionsAssumption DEF Refers, HasNew, HasAccess, At, Of, Idle, Kind, Presenting
<1> QED
  BY <1>4, <1>5
LEMMA BaseStartLogin ==
  ASSUME Base, NEW r \in Req, NEW u \in User, StartLogin(r, u)
  PROVE  Base'
<1> DEFINE R == req'[r]
<1>1. R = [kind |-> "login", pc |-> "sign", user |-> u, access |-> None, old |-> None,
           new |-> None, seenTokens |-> TokensOf(u, signed), seenRows |-> RowsOf(u)]
  BY DEF Base, TypeOK, StartLogin, Begin
<1>2. /\ UNCHANGED <<now, signed, blacklist, userTokens, row, accounts>>
      /\ \A q \in Req \ {r} : req'[q] = req[q]
  BY DEF Base, TypeOK, StartLogin, Begin
<1>3. TypeOK'
  <2>1. R \in Request
    BY <1>1 DEF Base, TypeOK, Request, Kind, PC, TokensOf, RowsOf
  <2> QED
    BY <1>2, <2>1 DEF Base, TypeOK, StartLogin, Begin
<1>4. Control(r)'
  BY <1>1, SessionsAssumption DEF Control, At, Of, RefreshPC, Presenting, Kind
<1>5. Refers(r)'
  BY <1>1, <1>2 DEF Refers, HasNew, HasAccess, At, Of, Presenting, RowsOf, TokensOf, Exists
<1>6. signed \subseteq signed' /\ \A v : RowsOf(v) \subseteq RowsOf(v)'
  BY <1>2 DEF RowsOf, Exists
<1> QED
  BY <1>2, <1>3, <1>4, <1>5, <1>6, BaseFrame

LEMMA BaseSignIn ==
  ASSUME Base, NEW r \in Req, SignIn(r)
  PROVE  Base'
<1> DEFINE u == req[r].user
           t == [user |-> u, iat |-> now]
<1>1. /\ Of(r, {"login"}) /\ u \in User /\ req[r] \in Request
      /\ Control(r) /\ Refers(r)
  BY DEF Base, TypeOK, SignIn, At, Control, Refers, Of, Kind
<1>2. t \in Token
  BY <1>1 DEF Base, TypeOK, Token
<1>3. /\ req'[r] = [req[r] EXCEPT !.pc = "revokeAll", !.access = t]
      /\ \A q \in Req \ {r} : req'[q] = req[q]
      /\ signed' = signed \cup {t}
      /\ UNCHANGED <<now, row, accounts>>
  BY <1>1 DEF Base, TypeOK, SignIn, Request
<1>4. TypeOK'
  <2>1. req'[r] \in Request
    BY <1>1, <1>2, <1>3 DEF Request, PC
  <2>2. blacklist' \in SUBSET Token /\ userTokens' \in [User -> SUBSET Token]
    BY <1>1, <1>2 DEF Base, TypeOK, SignIn, BlacklistedBy, TrackedBy
  <2> QED
    BY <1>2, <1>3, <2>1, <2>2 DEF Base, TypeOK, SignIn
<1>5. Control(r)'
  BY <1>1, <1>3, SessionsAssumption DEF Control, At, Of, RefreshPC, Presenting, Kind, Request
<1>6. signed \subseteq signed' /\ \A v : RowsOf(v) \subseteq RowsOf(v)'
  BY <1>3 DEF RowsOf, Exists
<1>7. Refers(r)'
  BY <1>1, <1>2, <1>3, <1>6
  DEF Refers, HasNew, HasAccess, At, Of, Presenting, RowsOf, TokensOf, Exists, Request
<1> QED
  BY <1>3, <1>4, <1>5, <1>6, <1>7, BaseFrame

\* Most steps of a request move its program counter and touch no other field.
LEMMA BaseMove ==
  ASSUME Base, NEW r \in Req, NEW pc \in PC, Go(r, pc),
         UNCHANGED <<now, signed, userTokens>>,
         blacklist' \in SUBSET Token, accounts' \in SUBSET User,
         row' \in [RefreshToken -> Row \cup {NoRow}],
         \A v : RowsOf(v) \subseteq RowsOf(v)',
         Control(r)', HasNew(r)' => HasNew(r), HasAccess(r)' => HasAccess(r)
  PROVE  Base'
<1>1. /\ req'[r] = [req[r] EXCEPT !.pc = pc]
      /\ \A q \in Req \ {r} : req'[q] = req[q]
      /\ req' \in [Req -> Request]
  BY DEF Base, TypeOK, Go, Request
<1>2. req[r] \in Request /\ Refers(r)
  BY DEF Base, TypeOK
<1>3. TypeOK'
  BY <1>1 DEF Base, TypeOK
<1>4. Refers(r)'
  BY <1>1, <1>2 DEF Refers, Of, TokensOf, Request
<1> QED
  BY <1>1, <1>3, <1>4, BaseFrame

\* A step that is a move and leaves the table alone.
LEMMA BaseQuietMove ==
  ASSUME Base, NEW r \in Req, NEW pc \in PC, Go(r, pc),
         UNCHANGED <<now, signed, userTokens, row>>,
         blacklist' \in SUBSET Token, accounts' \in SUBSET User,
         Control(r)', HasNew(r)' => HasNew(r), HasAccess(r)' => HasAccess(r)
  PROVE  Base'
<1>1. row' \in [RefreshToken -> Row \cup {NoRow}] /\ \A v : RowsOf(v) \subseteq RowsOf(v)'
  BY DEF Base, TypeOK, RowsOf, Exists
<1> QED
  BY <1>1, BaseMove

LEMMA BaseLoginRevokeAll ==
  ASSUME Base, NEW r \in Req, LoginRevokeAll(r)
  PROVE  Base'
<1>1. /\ Go(r, "create") /\ row' = RevokedAll(req[r].user)
      /\ UNCHANGED <<now, signed, blacklist, userTokens, accounts>>
      /\ At(r, "revokeAll") /\ Of(r, {"login"}) /\ req[r] \in Request
  BY DEF Base, TypeOK, LoginRevokeAll
<1>2. req'[r] = [req[r] EXCEPT !.pc = "create"]
  BY <1>1 DEF Base, TypeOK, Go
<1>3. Control(r)' /\ (HasNew(r)' => HasNew(r)) /\ (HasAccess(r)' => HasAccess(r))
  BY <1>1, <1>2, SessionsAssumption
  DEF Control, HasNew, HasAccess, At, Of, RefreshPC, Presenting, Kind, Request
<1> QED
  BY <1>1, <1>3, RevokedAllRows, BaseMove DEF Base, TypeOK, PC

LEMMA BaseLogoutRevokeAll ==
  ASSUME Base, NEW r \in Req, LogoutRevokeAll(r)
  PROVE  Base'
<1>1. /\ Go(r, "blacklist") /\ row' = RevokedAll(req[r].user)
      /\ UNCHANGED <<now, signed, blacklist, userTokens, accounts>>
      /\ At(r, "revokeAll") /\ Of(r, Presenting) /\ req[r] \in Request
  BY DEF Base, TypeOK, LogoutRevokeAll, Of, Presenting
<1>2. req'[r] = [req[r] EXCEPT !.pc = "blacklist"]
  BY <1>1 DEF Base, TypeOK, Go
<1>3. Control(r)' /\ (HasNew(r)' => HasNew(r)) /\ (HasAccess(r)' => HasAccess(r))
  BY <1>1, <1>2, SessionsAssumption
  DEF Control, HasNew, HasAccess, At, Of, RefreshPC, Presenting, Kind, Request
<1> QED
  BY <1>1, <1>3, RevokedAllRows, BaseMove DEF Base, TypeOK, PC

LEMMA BaseRevokeOld ==
  ASSUME Base, NEW r \in Req, RevokeOld(r)
  PROVE  Base'
<1>1. /\ Go(r, "findUser") /\ row' = Revoked(req[r].old)
      /\ UNCHANGED <<now, signed, blacklist, userTokens, accounts>>
      /\ At(r, "revokeOld") /\ Of(r, {"refresh"}) /\ req[r] \in Request
      /\ req[r].old \in RefreshToken /\ Exists(req[r].old)
  BY DEF Base, TypeOK, RevokeOld, Control, Refers, At, Of, RefreshPC, RowsOf
<1>2. req'[r] = [req[r] EXCEPT !.pc = "findUser"]
  BY <1>1 DEF Base, TypeOK, Go
<1>3. Control(r)' /\ (HasNew(r)' => HasNew(r)) /\ (HasAccess(r)' => HasAccess(r))
  BY <1>1, <1>2, SessionsAssumption
  DEF Control, HasNew, HasAccess, At, Of, RefreshPC, Presenting, Kind, Request
<1> QED
  BY <1>1, <1>3, RevokedRow, BaseMove DEF Base, TypeOK, PC

LEMMA BaseQuietSteps ==
  ASSUME Base, NEW r \in Req,
         \/ Rotate(r) \/ FindUser(r) \/ UpdatePassword(r) \/ DeleteUser(r)
         \/ LogoutBlacklist(r) \/ Fail(r)
  PROVE  Base'
<1> DEFINE pc == req'[r].pc
<1>1. Go(r, pc) /\ pc \in PC /\ req'[r] = [req[r] EXCEPT !.pc = pc]
  BY DEF Base, TypeOK, Request, PC, Go, Rotate, FindUser, UpdatePassword,
         DeleteUser, LogoutBlacklist, Fail, AnswerToFailure
<1>2. UNCHANGED <<now, signed, userTokens, row>> /\ accounts' \in SUBSET User
  BY DEF Base, TypeOK, Rotate, FindUser, UpdatePassword, DeleteUser, LogoutBlacklist, Fail
<1>3. blacklist' \in SUBSET Token
  <2>1. CASE LogoutBlacklist(r)
    <3>1. req[r].user \in User
      BY <2>1 DEF Base, LogoutBlacklist, Control, Refers, At, Of, Presenting, Kind
    <3> QED
      BY <2>1, <3>1 DEF Base, TypeOK, LogoutBlacklist, BlacklistedBy
  <2> QED
    BY <2>1 DEF Base, TypeOK, Rotate, FindUser, UpdatePassword, DeleteUser, Fail
<1>4. \/ pc \in {"failed"} /\ req[r].pc \notin {"idle", "ok"}
      \/ At(r, "rotate") /\ pc = "insert"
      \/ At(r, "findUser") /\ pc = "signRefreshed"
      \/ req[r].pc \in {"update", "delete"} /\ pc = "revokeAll"
      \/ At(r, "blacklist") /\ pc = "ok"
      \/ At(r, "revokeAll") /\ Of(r, {"password"}) /\ pc = "ok"
  BY <1>1 DEF At, Of, Rotate, FindUser, UpdatePassword, DeleteUser, LogoutBlacklist, Fail,
              AnswerToFailure, Awaiting, Go, Base, TypeOK, Request
<1>5. req[r] \in Request /\ Control(r)
  BY DEF Base, TypeOK
<1>6. Control(r)' /\ (HasNew(r)' => HasNew(r)) /\ (HasAccess(r)' => HasAccess(r))
  BY <1>1, <1>4, <1>5, SessionsAssumption
  DEF Control, HasNew, HasAccess, At, Of, RefreshPC, Presenting, Kind, Request
<1> QED
  BY <1>1, <1>2, <1>3, <1>6, BaseQuietMove

LEMMA BaseLoginCreate ==
  ASSUME Base, NEW r \in Req, NEW n \in RefreshToken, LoginCreate(r, n)
  PROVE  Base'
<1>0. req[r].user \in User
  BY DEF Base, TypeOK, LoginCreate, Control, Refers, At, Of, Kind
<1> PICK u \in User : u = req[r].user
  BY <1>0
<1>1. /\ At(r, "create") /\ Of(r, {"login"}) /\ req[r] \in Request
      /\ Fresh(n) /\ row' = Inserted(n, u)
      /\ UNCHANGED <<now, signed, blacklist, userTokens, accounts>>
      /\ Refers(r)
  BY DEF Base, TypeOK, LoginCreate, Control, Refers, At, Of, Kind
<1>2. /\ req'[r] = [req[r] EXCEPT !.pc = "ok", !.new = n]
      /\ \A q \in Req \ {r} : req'[q] = req[q]
      /\ req' \in [Req -> Request]
  BY <1>1 DEF Base, TypeOK, LoginCreate, Request, PC
<1>3. /\ row' \in [RefreshToken -> Row \cup {NoRow}]
      /\ n \in RowsOf(u)' /\ \A v : RowsOf(v) \subseteq RowsOf(v)'
  BY <1>1, InsertedRow DEF Base
<1>4. TypeOK'
  BY <1>1, <1>2, <1>3 DEF Base, TypeOK
<1>5. Control(r)'
  BY <1>1, <1>2, SessionsAssumption DEF Control, At, Of, RefreshPC, Presenting, Kind, Request
<1>6. Refers(r)'
  BY <1>1, <1>2, <1>3 DEF Refers, HasNew, HasAccess, At, Of, Presenting, TokensOf, Request
<1> QED
  BY <1>1, <1>2, <1>3, <1>4, <1>5, <1>6, BaseFrame

LEMMA BaseInsertNew ==
  ASSUME Base, NEW r \in Req, NEW n \in RefreshToken, InsertNew(r, n)
  PROVE  Base'
<1>0. req[r].user \in User
  BY DEF Base, TypeOK, InsertNew, Control, Refers, At, Of, Kind, RefreshPC, RowsOf
<1> PICK u \in User : u = req[r].user
  BY <1>0
<1>1. /\ At(r, "insert") /\ Of(r, {"refresh"}) /\ req[r] \in Request
      /\ Fresh(n) /\ row' = Inserted(n, u)
      /\ UNCHANGED <<now, signed, blacklist, userTokens, accounts>>
      /\ Refers(r)
  BY DEF Base, TypeOK, InsertNew, Control, Refers, At, Of, Kind, RefreshPC, RowsOf
<1>2. /\ req'[r] = [req[r] EXCEPT !.pc = "revokeOld", !.new = n]
      /\ \A q \in Req \ {r} : req'[q] = req[q]
      /\ req' \in [Req -> Request]
  BY <1>1 DEF Base, TypeOK, InsertNew, Request, PC
<1>3. /\ row' \in [RefreshToken -> Row \cup {NoRow}]
      /\ n \in RowsOf(u)' /\ \A v : RowsOf(v) \subseteq RowsOf(v)'
  BY <1>1, InsertedRow DEF Base
<1>4. TypeOK'
  BY <1>1, <1>2, <1>3 DEF Base, TypeOK
<1>5. Control(r)'
  BY <1>1, <1>2, SessionsAssumption DEF Control, At, Of, RefreshPC, Presenting, Kind, Request
<1>6. Refers(r)'
  BY <1>1, <1>2, <1>3 DEF Refers, HasNew, HasAccess, At, Of, Presenting, TokensOf, Request
<1> QED
  BY <1>1, <1>2, <1>3, <1>4, <1>5, <1>6, BaseFrame

LEMMA BaseSignRefreshed ==
  ASSUME Base, NEW r \in Req, SignRefreshed(r)
  PROVE  Base'
<1> DEFINE u == req[r].user
           t == [user |-> u, iat |-> now]
<1>1. /\ At(r, "signRefreshed") /\ Of(r, {"refresh"}) /\ u \in User
      /\ req[r] \in Request /\ Refers(r) /\ t \in Token
      /\ signed' = signed \cup {t}
      /\ UNCHANGED <<now, blacklist, row, accounts>>
  BY DEF Base, TypeOK, SignRefreshed, Control, Refers, At, Of, Kind, RefreshPC, Token
<1>2. /\ req'[r] = [req[r] EXCEPT !.pc = "ok", !.access = t]
      /\ \A q \in Req \ {r} : req'[q] = req[q]
      /\ req' \in [Req -> Request]
  BY <1>1 DEF Base, TypeOK, SignRefreshed, Request, PC
<1>3. userTokens' \in [User -> SUBSET Token]
  BY <1>1 DEF Base, TypeOK, SignRefreshed, TrackedBy
<1>4. TypeOK'
  BY <1>1, <1>2, <1>3 DEF Base, TypeOK
<1>5. signed \subseteq signed' /\ \A v : RowsOf(v) \subseteq RowsOf(v)'
  BY <1>1 DEF RowsOf, Exists
<1>6. Control(r)'
  BY <1>1, <1>2, SessionsAssumption DEF Control, At, Of, RefreshPC, Presenting, Kind, Request
<1>7. Refers(r)'
  BY <1>1, <1>2, <1>5 DEF Refers, HasNew, HasAccess, At, Of, Presenting, TokensOf, Request
<1> QED
  BY <1>1, <1>2, <1>4, <1>5, <1>6, <1>7, BaseFrame

\* A refresh token that was answered is in the table, under the user it was
\* issued to.
LEMMA HeldRows ==
  ASSUME Base, NEW n \in Held
  PROVE  n \in RefreshToken /\ Exists(n) /\ row[n] \in Row /\ n \in RowsOf(row[n].user)
<1>1. PICK p \in Req : n = req[p].new /\ HasNew(p)
  BY DEF Held, HasNew, At, Of
<1>2. n \in RowsOf(req[p].user)
  BY <1>1 DEF Base, Refers
<1> QED
  BY <1>2 DEF Base, TypeOK, RowsOf, Exists

LEMMA DeliveredSigned ==
  ASSUME Base, NEW t \in Delivered
  PROVE  t \in signed /\ t \in Token
<1>1. PICK p \in Req : t = req[p].access /\ HasAccess(p)
  BY DEF Delivered, HasAccess, At, Of
<1> QED
  BY <1>1 DEF Base, TypeOK, Refers, TokensOf

LEMMA BaseStartRefresh ==
  ASSUME Base, NEW r \in Req, NEW n \in Held, StartRefresh(r, n)
  PROVE  Base'
<1>1. n \in RefreshToken /\ Exists(n) /\ row[n] \in Row /\ n \in RowsOf(row[n].user)
  BY HeldRows
<1> PICK u \in User : u = row[n].user
  BY <1>1 DEF Row
<1>2. /\ UNCHANGED <<now, signed, blacklist, userTokens, row, accounts>>
      /\ \A q \in Req \ {r} : req'[q] = req[q]
      /\ req'[r].pc \in {"rotate", "failed"}
      /\ req'[r] = [kind |-> "refresh", pc |-> req'[r].pc, user |-> u, access |-> None,
                    old |-> n, new |-> None, seenTokens |-> TokensOf(u, signed),
                    seenRows |-> RowsOf(u)]
  BY DEF Base, TypeOK, StartRefresh, Begin
<1>3. TypeOK'
  <2>1. req'[r] \in Request
    BY <1>1, <1>2 DEF Base, TypeOK, Request, Kind, PC, TokensOf, RowsOf
  <2> QED
    BY <1>2, <2>1 DEF Base, TypeOK, StartRefresh, Begin
<1>4. Control(r)'
  BY <1>2, SessionsAssumption DEF Control, At, Of, RefreshPC, Presenting, Kind
<1>5. signed \subseteq signed' /\ \A v : RowsOf(v) \subseteq RowsOf(v)'
  BY <1>2 DEF RowsOf, Exists
<1>6. Refers(r)'
  BY <1>1, <1>2, <1>5 DEF Refers, HasNew, HasAccess, At, Of, Presenting, TokensOf
<1> QED
  BY <1>2, <1>3, <1>4, <1>5, <1>6, BaseFrame

LEMMA BaseAuthenticate ==
  ASSUME Base, NEW r \in Req, NEW t \in Delivered, NEW kind \in Presenting,
         Authenticate(r, kind, t)
  PROVE  Base'
<1>1. t \in signed /\ t \in Token
  BY DeliveredSigned
<1> PICK u \in User : u = t.user
  BY <1>1 DEF Token
<1> DEFINE pc == req'[r].pc
<1>2. /\ UNCHANGED <<now, signed, blacklist, userTokens, row, accounts>>
      /\ \A q \in Req \ {r} : req'[q] = req[q]
      /\ \/ kind = "logout" /\ pc = "revokeAll"
         \/ kind = "password" /\ pc = "update"
         \/ kind = "signout" /\ pc = "delete"
      /\ req'[r] = [kind |-> kind, pc |-> pc, user |-> u, access |-> t,
                    old |-> None, new |-> None, seenTokens |-> TokensOf(u, signed),
                    seenRows |-> RowsOf(u)]
  BY DEF Base, TypeOK, Authenticate, Begin, Presenting
<1>3. TypeOK'
  <2>1. req'[r] \in Request
    BY <1>1, <1>2 DEF Base, TypeOK, Request, Kind, PC, TokensOf, RowsOf
  <2> QED
    BY <1>2, <2>1 DEF Base, TypeOK, Authenticate, Begin
<1>4. Control(r)'
  BY <1>2, SessionsAssumption DEF Control, At, Of, RefreshPC, Presenting, Kind
<1>5. signed \subseteq signed' /\ \A v : RowsOf(v) \subseteq RowsOf(v)'
  BY <1>2 DEF RowsOf, Exists
<1>6. Refers(r)'
  BY <1>1, <1>2, <1>5 DEF Refers, HasNew, HasAccess, At, Of, Presenting, TokensOf
<1> QED
  BY <1>2, <1>3, <1>4, <1>5, <1>6, BaseFrame

\* Steps that leave every request as it is.
LEMMA BaseIdleSteps ==
  ASSUME Base, ClockTick \/ Cleanup \/ UNCHANGED vars
  PROVE  Base'
<1>1. UNCHANGED <<signed, row, accounts, req>>
  BY DEF ClockTick, Cleanup, CleanupExpiredTokens, vars
<1>2. TypeOK'
  BY <1>1 DEF Base, TypeOK, ClockTick, Tick, Cleanup, CleanupExpiredTokens, Sweep, vars
<1>3. ASSUME NEW q \in Req PROVE Control(q)' /\ Refers(q)'
  BY <1>1 DEF Base, Control, Refers, HasNew, HasAccess, At, Of, TokensOf, RowsOf, Exists
<1> QED
  BY <1>2, <1>3 DEF Base

LEMMA BaseRestart ==
  ASSUME Base, Restart
  PROVE  Base'
<1>1. UNCHANGED <<now, signed, row, accounts>>
  BY DEF Restart
<1>2. \A q \in Req : \/ req'[q] = req[q]
                     \/ req'[q] = [req[q] EXCEPT !.pc = "failed"] /\ InFlight(q)
  BY DEF Restart
<1>3. TypeOK'
  BY <1>1, <1>2 DEF Base, TypeOK, Restart, Request, PC
<1>4. ASSUME NEW q \in Req PROVE Control(q)' /\ Refers(q)'
  <2>1. Control(q) /\ Refers(q) /\ req[q] \in Request
    BY DEF Base, TypeOK
  <2>2. CASE req'[q] = req[q]
    BY <1>1, <2>1, <2>2
    DEF Control, Refers, HasNew, HasAccess, At, Of, TokensOf, RowsOf, Exists
  <2>3. CASE req'[q] = [req[q] EXCEPT !.pc = "failed"] /\ InFlight(q)
    <3>1. Control(q)' /\ ~HasNew(q)' /\ (HasAccess(q)' => HasAccess(q))
      BY <2>1, <2>3, SessionsAssumption
      DEF Control, HasNew, HasAccess, InFlight, At, Of, RefreshPC, Presenting, Kind, Request
    <3> QED
      BY <1>1, <2>1, <2>3, <3>1 DEF Refers, Of, TokensOf, RowsOf, Exists, Request
  <2> QED
    BY <1>2, <2>2, <2>3
<1> QED
  BY <1>3, <1>4 DEF Base

LEMMA BaseStep == Base /\ [Next \/ Restart]_vars => Base'
<1> SUFFICES ASSUME Base, [Next \/ Restart]_vars PROVE Base'
  OBVIOUS
<1>1. ASSUME NEW r \in Req, Start(r) PROVE Base'
  BY <1>1, BaseStartLogin, BaseStartRefresh, BaseAuthenticate DEF Start, Presenting
<1>2. ASSUME NEW r \in Req, Continue(r) PROVE Base'
  BY <1>2, BaseSignIn, BaseLoginRevokeAll, BaseLoginCreate, BaseQuietSteps, BaseInsertNew,
     BaseRevokeOld, BaseSignRefreshed, BaseLogoutRevokeAll
  DEF Continue
<1>3. ASSUME NEW r \in Req, Fail(r) PROVE Base'
  BY <1>3, BaseQuietSteps
<1> QED
  BY <1>1, <1>2, <1>3, BaseIdleSteps, BaseRestart DEF Next

\* Type correctness of the session server, whatever is interleaved, fails or
\* is restarted.
THEOREM TypeCorrect == CrashSpec => []TypeOK
<1>1. Init => Base
  BY InitBase
<1>2. Base /\ [Next \/ Restart]_vars => Base'
  BY BaseStep
<1>3. Base => TypeOK
  BY DEF Base
<1> QED
  BY <1>1, <1>2, <1>3, PTL DEF CrashSpec

-----------------------------------------------------------------------------
(* What is dead stays dead *)

Dead(t) == Expired(t) \/ t \in blacklist

\* The table changes by the three statements only.
LEMMA TableSteps ==
  ASSUME Base, [Next \/ Restart]_vars
  PROVE  \/ row' = row
         \/ \E n \in RefreshToken, u \in User : Fresh(n) /\ row' = Inserted(n, u)
         \/ \E n \in RefreshToken : Exists(n) /\ row' = Revoked(n)
         \/ \E u \in User : row' = RevokedAll(u)
<1>1. ASSUME NEW r \in Req, Start(r) PROVE row' = row
  BY <1>1 DEF Start, StartLogin, StartRefresh, Authenticate
<1>2. ASSUME NEW r \in Req, Fail(r) PROVE row' = row
  BY <1>2 DEF Fail
<1>3. ASSUME NEW r \in Req, LoginRevokeAll(r) \/ LogoutRevokeAll(r)
      PROVE  \E u \in User : row' = RevokedAll(u)
  BY <1>3 DEF LoginRevokeAll, LogoutRevokeAll, Base, Refers, Of, Kind
<1>4. ASSUME NEW r \in Req, NEW n \in RefreshToken, LoginCreate(r, n) \/ InsertNew(r, n)
      PROVE  \E u \in User : Fresh(n) /\ row' = Inserted(n, u)
  <2>1. CASE LoginCreate(r, n)
    BY <2>1 DEF LoginCreate, Base, Control, Refers, At, Of, Kind
  <2>2. CASE InsertNew(r, n)
    BY <2>2 DEF InsertNew, Base, Control, Refers, At, Of, Kind, RefreshPC, RowsOf
  <2> QED
    BY <1>4, <2>1, <2>2
<1>5. ASSUME NEW r \in Req, RevokeOld(r)
      PROVE  \E n \in RefreshToken : Exists(n) /\ row' = Revoked(n)
  BY <1>5 DEF RevokeOld, Base, Control, Refers, At, Of, Kind, RefreshPC, RowsOf
<1>6. ASSUME NEW r \in Req,
             \/ SignIn(r) \/ Rotate(r) \/ FindUser(r) \/ SignRefreshed(r)
             \/ UpdatePassword(r) \/ DeleteUser(r) \/ LogoutBlacklist(r)
      PROVE  row' = row
  BY <1>6 DEF SignIn, Rotate, FindUser, SignRefreshed, UpdatePassword, DeleteUser, LogoutBlacklist
<1>7. ASSUME ClockTick \/ Cleanup \/ Restart \/ UNCHANGED vars PROVE row' = row
  BY <1>7 DEF ClockTick, Cleanup, Restart, vars
<1> QED
  BY <1>1, <1>2, <1>3, <1>4, <1>5, <1>6, <1>7 DEF Next, Continue

\* A revoked row stays, revoked, whatever happens.
LEMMA RevokedStays ==
  ASSUME Base, [Next \/ Restart]_vars, NEW n \in RefreshToken, Exists(n), row[n].revoked
  PROVE  row'[n].revoked
<1>0. TypeOK /\ row[n] \in Row
  BY DEF Base, TypeOK, Exists
<1>1. CASE row' = row
  BY <1>1
<1>2. ASSUME NEW m \in RefreshToken, NEW u \in User, Fresh(m), row' = Inserted(m, u)
      PROVE  row'[n].revoked
  BY <1>0, <1>2, InsertedRow DEF Fresh
<1>3. ASSUME NEW m \in RefreshToken, Exists(m), row' = Revoked(m)
      PROVE  row'[n].revoked
  BY <1>0, <1>3, RevokedRow DEF Row
<1>4. ASSUME NEW u \in User, row' = RevokedAll(u)
      PROVE  row'[n].revoked
  BY <1>0, <1>4, RevokedAllRows DEF Row
<1> QED
  BY <1>1, <1>2, <1>3, <1>4, TableSteps

\* Until a restart, a token that is expired or blacklisted remains one or the
\* other: the cleanup takes only expired tokens off the blacklist.
LEMMA DeadStays ==
  ASSUME Base, [Next]_vars, NEW t \in Token, Dead(t)
  PROVE  Dead(t)'
<1>1. t.iat \in Nat /\ now \in Nat /\ AccessTTL \in Nat
  BY AccessTTLAssumption DEF Base, TypeOK, Token
<1>2. CASE ClockTick
  BY <1>1, <1>2 DEF ClockTick, Tick, Dead, Expired
<1>3. CASE Cleanup
  BY <1>3 DEF Cleanup, CleanupExpiredTokens, Sweep, Dead, Expired
<1>4. ASSUME NEW r \in Req, Start(r) \/ Continue(r) \/ Fail(r)
      PROVE  now' = now /\ blacklist \subseteq blacklist'
  <2>1. CASE Start(r)
    BY <2>1 DEF Start, StartLogin, StartRefresh, Authenticate
  <2>2. CASE Fail(r)
    BY <2>2 DEF Fail
  <2>3. CASE Continue(r)
    BY <2>3
    DEF Continue, SignIn, LoginRevokeAll, LoginCreate, Rotate, InsertNew, RevokeOld, FindUser,
        SignRefreshed, UpdatePassword, DeleteUser, LogoutRevokeAll, LogoutBlacklist, BlacklistedBy
  <2> QED
    BY <1>4, <2>1, <2>2, <2>3
<1>5. CASE UNCHANGED vars
  BY <1>5 DEF vars, Dead, Expired
<1> QED
  BY <1>2, <1>3, <1>4, <1>5 DEF Next, Dead, Expired

-----------------------------------------------------------------------------
(* Ending sessions *)

LEMMA TrackedStep ==
  ASSUME Base, Tracked, [Next]_vars
  PROVE  Tracked'
<1> SUFFICES ASSUME NEW t \in signed', ~Dead(t)'
             PROVE  (t \in userTokens[t.user])'
  BY DEF Tracked, Dead
<1>1. CASE t \in signed
  <2>1. t \in Token /\ t \in userTokens[t.user] /\ t.user \in User
    BY <1>1, DeadStays DEF Base, TypeOK, Tracked, Dead, Token
  <2>2. CASE Cleanup
    BY <2>1, <2>2 DEF Cleanup, CleanupExpiredTokens, Sweep, Dead, Expired
  <2>3. ASSUME NEW r \in Req, Start(r) \/ Fail(r) PROVE userTokens' = userTokens
    BY <2>3 DEF Start, Fail, StartLogin, StartRefresh, Authenticate
  <2>4. ASSUME NEW r \in Req, Continue(r) PROVE t \in userTokens'[t.user]
    <3>1. CASE userTokens' = userTokens
      BY <2>1, <3>1
    <3>2. ASSUME NEW u, NEW s, userTokens' = TrackedBy(u, s) PROVE t \in userTokens'[t.user]
      BY <2>1, <3>2 DEF TrackedBy, Base, TypeOK
    <3> QED
      BY <2>4, <3>1, <3>2
      DEF Continue, SignIn, LoginRevokeAll, LoginCreate, Rotate, InsertNew, RevokeOld, FindUser,
          SignRefreshed, UpdatePassword, DeleteUser, LogoutRevokeAll, LogoutBlacklist
  <2>5. CASE ClockTick \/ UNCHANGED vars
    BY <2>1, <2>5 DEF ClockTick, vars
  <2> QED
    BY <2>1, <2>2, <2>3, <2>4, <2>5 DEF Next
<1>2. CASE t \notin signed
  <2>1. PICK r \in Req : SignIn(r) \/ SignRefreshed(r)
    BY <1>2
    DEF Next, Start, Continue, Fail, StartLogin, StartRefresh, Authenticate, SignIn,
        LoginRevokeAll, LoginCreate, Rotate, InsertNew, RevokeOld, FindUser, SignRefreshed,
        UpdatePassword, DeleteUser, LogoutRevokeAll, LogoutBlacklist,
        ClockTick, Cleanup, CleanupExpiredTokens, vars
  <2>2. PICK u \in User : u = req[r].user
    BY <2>1 DEF SignIn, SignRefreshed, Base, Control, Refers, At, Of, Kind, RefreshPC
  <2>3. t = [user |-> u, iat |-> now] /\ userTokens' = TrackedBy(u, t)
    BY <1>2, <2>1, <2>2 DEF SignIn, SignRefreshed
  <2> QED
    BY <2>3 DEF TrackedBy, Base, TypeOK
<1> QED
  BY <1>1, <1>2

\* blacklistUserTokens reaches every token signed for the user so far.
LEMMA BlacklistedByKills ==
  ASSUME Base, Tracked, NEW u \in User, blacklist' = BlacklistedBy(u), now' = now,
         NEW t \in TokensOf(u, signed)
  PROVE  Dead(t)'
BY DEF Tracked, TokensOf, Dead, Expired, BlacklistedBy

\* The rows and tokens a request has on its list keep what Ended says of them
\* while the request itself does not move.
LEMMA EndedKept ==
  ASSUME Base, [Next]_vars, NEW r \in Req
  PROVE  /\ (\A n \in req[r].seenRows : row[n].revoked)
              => \A n \in req[r].seenRows : row'[n].revoked
         /\ (\A t \in req[r].seenTokens : Dead(t))
              => \A t \in req[r].seenTokens : Dead(t)'
<1>1. req[r].seenRows \subseteq RowsOf(req[r].user) /\ req[r].seenTokens \subseteq Token
  BY DEF Base, TypeOK, Request, Refers
<1>2. \A n \in req[r].seenRows : n \in RefreshToken /\ Exists(n)
  BY <1>1 DEF RowsOf
<1> QED
  BY <1>1, <1>2, RevokedStays, DeadStays

RowsGone(r) ==
  \/ Of(r, {"login"}) /\ req[r].pc \in {"create", "ok"}
  \/ Of(r, {"logout", "signout"}) /\ req[r].pc \in {"blacklist", "ok"}
TokensGone(r) ==
  \/ Of(r, {"login"}) /\ req[r].pc \in {"revokeAll", "create", "ok"}
  \/ Of(r, {"logout", "signout"}) /\ At(r, "ok")

\* What a step of the server does to a request: nothing, or one of its own
\* steps, of which three get it further with ending sessions.
LEMMA RequestSteps ==
  ASSUME Base, [Next]_vars, NEW r \in Req
  PROVE  \/ SignIn(r) \/ LoginRevokeAll(r) \/ LogoutRevokeAll(r) \/ LogoutBlacklist(r)
         \/ /\ RowsGone(r)' => RowsGone(r)
            /\ TokensGone(r)' => TokensGone(r)
            /\ RowsGone(r)' \/ TokensGone(r)' => /\ req'[r].seenRows = req[r].seenRows
                                                /\ req'[r].seenTokens = req[r].seenTokens
<1>1. req \in [Req -> Request] /\ Control(r)
  BY DEF Base, TypeOK
<1>2. CASE req'[r] = req[r]
  BY <1>2 DEF RowsGone, TokensGone, At, Of
<1>3. ASSUME NEW q \in Req, q # r, Start(q) \/ Continue(q) \/ Fail(q)
      PROVE  req'[r] = req[r]
  BY <1>1, <1>3
  DEF Start, Continue, Fail, StartLogin, StartRefresh, Authenticate, Begin, Go, SignIn,
      LoginRevokeAll, LoginCreate, Rotate, InsertNew, RevokeOld, FindUser, SignRefreshed,
      UpdatePassword, DeleteUser, LogoutRevokeAll, LogoutBlacklist
<1>4. CASE Start(r)
  BY <1>1, <1>4
  DEF Start, StartLogin, StartRefresh, Authenticate, Begin, RowsGone, TokensGone, At, Of
<1>5. CASE Fail(r)
  BY <1>1, <1>5
  DEF Fail, AnswerToFailure, Go, RowsGone, TokensGone, At, Of, Request
<1>6. CASE \E n \in RefreshToken : LoginCreate(r, n) \/ InsertNew(r, n)
  BY <1>1, <1>6
  DEF LoginCreate, InsertNew, Control, RefreshPC, RowsGone, TokensGone, At, Of, Request
<1>7. CASE \/ Rotate(r) \/ RevokeOld(r) \/ FindUser(r) \/ SignRefreshed(r)
           \/ UpdatePassword(r) \/ DeleteUser(r)
  BY <1>1, <1>7
  DEF Rotate, RevokeOld, FindUser, SignRefreshed, UpdatePassword, DeleteUser, Go,
      Control, RefreshPC, RowsGone, TokensGone, At, Of, Request
<1>8. CASE ClockTick \/ Cleanup \/ UNCHANGED vars
  BY <1>2, <1>8 DEF ClockTick, Cleanup, vars
<1> QED
  BY <1>2, <1>3, <1>4, <1>5, <1>6, <1>7, <1>8 DEF Next, Continue

LEMMA EndedStep ==
  ASSUME Base, EndedInv, [Next]_vars
  PROVE  EndedInv'
<1>1. Tracked /\ Tracked'
  BY TrackedStep DEF EndedInv
<1> SUFFICES ASSUME NEW r \in Req PROVE Ended(r)'
  BY <1>1 DEF EndedInv
<1>2. /\ RowsGone(r) => \A n \in req[r].seenRows : row[n].revoked
      /\ TokensGone(r) => \A t \in req[r].seenTokens : Dead(t)
  BY DEF EndedInv, Ended, RowsGone, TokensGone, Dead
<1>3. req[r] \in Request /\ req \in [Req -> Request] /\ Refers(r) /\ Control(r)
  BY DEF Base, TypeOK
<1> SUFFICES /\ RowsGone(r)' => \A n \in req'[r].seenRows : row'[n].revoked
             /\ TokensGone(r)' => \A t \in req'[r].seenTokens : Dead(t)'
  BY DEF Ended, RowsGone, TokensGone, Dead
<1>4. ASSUME SignIn(r) \/ LogoutBlacklist(r)
      PROVE  /\ \A t \in req'[r].seenTokens : Dead(t)'
             /\ RowsGone(r)' => RowsGone(r)
             /\ req'[r].seenRows = req[r].seenRows
  <2>1. PICK u \in User : u = req[r].user
    BY <1>3, <1>4 DEF SignIn, LogoutBlacklist, Control, Refers, At, Of, Kind, Presenting
  <2>2. blacklist' = BlacklistedBy(u) /\ now' = now
    BY <1>4, <2>1 DEF SignIn, LogoutBlacklist
  <2>3. req'[r].seenTokens = req[r].seenTokens /\ req'[r].seenRows = req[r].seenRows
    BY <1>3, <1>4 DEF SignIn, LogoutBlacklist, Go, Request
  <2>4. RowsGone(r)' => RowsGone(r)
    <3>1. CASE SignIn(r)
      <4>1. req'[r].pc = "revokeAll"
        BY <1>3, <3>1 DEF SignIn, Request
      <4> QED
        BY <4>1 DEF RowsGone, At, Of
    <3>2. CASE LogoutBlacklist(r)
      <4>1. At(r, "blacklist") /\ req'[r].kind = req[r].kind
        BY <1>3, <3>2 DEF LogoutBlacklist, Go, Request
      <4>2. Of(r, Presenting)
        BY <1>3, <4>1 DEF Control
      <4> QED
        BY <4>1, <4>2 DEF RowsGone, At, Of, Presenting
    <3> QED
      BY <1>4, <3>1, <3>2
  <2> QED
    BY <1>1, <1>3, <2>1, <2>2, <2>3, <2>4, BlacklistedByKills DEF Refers
<1>5. ASSUME LoginRevokeAll(r) \/ LogoutRevokeAll(r)
      PROVE  /\ \A n \in req'[r].seenRows : row'[n].revoked
             /\ TokensGone(r)' => TokensGone(r)
             /\ req'[r].seenTokens = req[r].seenTokens
  <2>1. PICK u : u = req[r].user /\ row' = RevokedAll(u)
    BY <1>5 DEF LoginRevokeAll, LogoutRevokeAll
  <2>2. \A n \in RowsOf(u) : row'[n].revoked
    <3>1. \A n \in RowsOf(u) : row[n] \in Row
      BY DEF RowsOf, Exists, Base, TypeOK
    <3>2. \A n \in RowsOf(u) : row'[n] = [row[n] EXCEPT !.revoked = TRUE]
      BY <2>1, RevokedAllRows DEF Base
    <3> QED
      BY <3>1, <3>2 DEF Row
  <2>3. req'[r].seenTokens = req[r].seenTokens /\ req'[r].seenRows = req[r].seenRows
    BY <1>3, <1>5 DEF LoginRevokeAll, LogoutRevokeAll, Go, Request
  <2>4. TokensGone(r)' => TokensGone(r)
    BY <1>3, <1>5 DEF LoginRevokeAll, LogoutRevokeAll, Go, Request, TokensGone, At, Of
  <2> QED
    BY <1>3, <2>1, <2>2, <2>3, <2>4 DEF Refers
<1> QED
  BY <1>2, <1>4, <1>5, RequestSteps, EndedKept

\* Every login, logout and account deletion answered with success has ended
\* all sessions its user had when it began.  Holds until a restart.
THEOREM SessionsEnd == Spec => []SessionsEnded
<1>1. Init => Base /\ EndedInv
  <2>1. ASSUME Init PROVE EndedInv
    BY <2>1 DEF Init, EndedInv, Tracked, Ended, Idle, At, Of
  <2> QED
    BY <2>1, InitBase
<1>2. Base /\ EndedInv /\ [Next]_vars => Base' /\ EndedInv'
  BY BaseStep, EndedStep
<1>3. Base /\ EndedInv => SessionsEnded
  <2> SUFFICES ASSUME Base, EndedInv, NEW r \in Req, At(r, "ok"), Of(r, Ending)
               PROVE  /\ \A t \in req[r].seenTokens : ~Accepts(t)
                      /\ \A n \in req[r].seenRows : ~Valid(n)
    BY DEF SessionsEnded
  <2> QED
    BY DEF EndedInv, Ended, At, Of, Ending, Accepts, Valid
<1> QED
  BY <1>1, <1>2, <1>3, PTL DEF Spec

\* Every token that still verifies is on record or blacklisted, until a restart.
THEOREM TokensTracked == Spec => []Tracked
<1>1. Init => Base /\ Tracked
  <2>1. ASSUME Init PROVE Tracked
    BY <2>1 DEF Init, Tracked
  <2> QED
    BY <2>1, InitBase
<1>2. Base /\ Tracked /\ [Next]_vars => Base' /\ Tracked'
  BY BaseStep, TrackedStep
<1> QED
  BY <1>1, <1>2, PTL DEF Spec

\* No signed token that is refused is accepted again, until a restart.
THEOREM DeadTokensStayDead == Spec => NoResurrection
<1>1. Base /\ [Next]_vars => [\A t \in signed : ~Accepts(t) => ~Accepts(t)']_vars
  <2> SUFFICES ASSUME Base, [Next]_vars, NEW t \in signed, ~Accepts(t)
               PROVE  ~Accepts(t)'
    OBVIOUS
  <2>1. t \in Token /\ Dead(t)
    BY DEF Base, TypeOK, Accepts, Dead
  <2> QED
    BY <2>1, DeadStays DEF Accepts, Dead
<1>2. Init => Base
  BY InitBase
<1>3. Base /\ [Next]_vars => Base'
  BY BaseStep
<1> QED
  BY <1>1, <1>2, <1>3, PTL DEF Spec, NoResurrection

-----------------------------------------------------------------------------
(* Rotation *)

\* An inserted row keeps its user and its expiry.
LEMMA RowKept ==
  ASSUME Base, [Next \/ Restart]_vars, NEW n \in RefreshToken, Exists(n)
  PROVE  /\ Exists(n)' /\ row[n] \in Row /\ row'[n] \in Row
         /\ row'[n].user = row[n].user /\ row'[n].expiresAt = row[n].expiresAt
<1>0. TypeOK /\ row[n] \in Row /\ row[n] # NoRow
  BY DEF Base, TypeOK, Exists
<1>1. CASE row' = row
  BY <1>0, <1>1 DEF Exists
<1>2. ASSUME NEW m \in RefreshToken, NEW u \in User, Fresh(m), row' = Inserted(m, u)
      PROVE  row'[n] = row[n]
  BY <1>0, <1>2, InsertedRow DEF Fresh
<1>3. ASSUME NEW m \in RefreshToken, Exists(m), row' = Revoked(m)
      PROVE  row'[n] = row[n] \/ row'[n] = [row[n] EXCEPT !.revoked = TRUE]
  BY <1>0, <1>3, RevokedRow
<1>4. ASSUME NEW u \in User, row' = RevokedAll(u)
      PROVE  row'[n] = row[n] \/ row'[n] = [row[n] EXCEPT !.revoked = TRUE]
  BY <1>0, <1>4, RevokedAllRows
<1>5. row'[n] = row[n] \/ row'[n] = [row[n] EXCEPT !.revoked = TRUE]
  BY <1>1, <1>2, <1>3, <1>4, TableSteps
<1> QED
  BY <1>0, <1>5, RefreshAssumption DEF Exists, Row

LEMMA TimeGoesOn ==
  ASSUME Base, [Next \/ Restart]_vars
  PROVE  now \in Nat /\ now' \in Nat /\ now' >= now
<1>1. now' = now \/ ClockTick
  BY DEF Next, Start, Continue, Fail, StartLogin, StartRefresh, Authenticate, SignIn,
         LoginRevokeAll, LoginCreate, Rotate, InsertNew, RevokeOld, FindUser, SignRefreshed,
         UpdatePassword, DeleteUser, LogoutRevokeAll, LogoutBlacklist, Restart,
         Cleanup, CleanupExpiredTokens, vars
<1> QED
  BY <1>1 DEF Base, TypeOK, ClockTick, Tick

LEMMA LifetimesStep ==
  ASSUME Base, Lifetimes, [Next \/ Restart]_vars
  PROVE  Lifetimes'
<1> SUFFICES ASSUME NEW n \in RefreshToken, Exists(n)'
             PROVE  row'[n].expiresAt <= now' + RefreshTTL
  BY DEF Lifetimes
<1>1. now \in Nat /\ now' \in Nat /\ now' >= now /\ RefreshTTL \in Nat
  BY TimeGoesOn, RefreshAssumption
<1>2. CASE Exists(n)
  <2>1. row'[n].expiresAt = row[n].expiresAt /\ row[n] \in Row
    BY <1>2, RowKept
  <2> QED
    BY <1>1, <1>2, <2>1 DEF Lifetimes, Row
<1>3. CASE ~Exists(n)
  <2>0. TypeOK /\ row[n] = NoRow
    BY <1>3 DEF Base, Exists
  <2>1. ASSUME NEW m \in RefreshToken, Exists(m), row' = Revoked(m) PROVE ~Exists(n)'
    BY <1>3, <2>0, <2>1, RevokedRow DEF Exists
  <2>2. ASSUME NEW u \in User, row' = RevokedAll(u) PROVE ~Exists(n)'
    BY <1>3, <2>0, <2>2, RevokedAllRows DEF Exists, RowsOf
  <2>3. ASSUME NEW m \in RefreshToken, NEW u \in User, Fresh(m), row' = Inserted(m, u)
        PROVE  row'[n] = NewRow(u)
    BY <1>3, <2>0, <2>3, InsertedRow DEF Exists
  <2>4. row' # row
    BY <1>3 DEF Exists
  <2>5. PICK u \in User : row'[n] = NewRow(u)
    BY <2>1, <2>2, <2>3, <2>4, TableSteps
  <2>6. row'[n].expiresAt = now + RefreshTTL
    BY <2>5 DEF NewRow
  <2>7. \A a, b, c \in Nat : a <= b => a + c <= b + c
    OBVIOUS
  <2> QED
    BY <1>1, <2>6, <2>7
<1> QED
  BY <1>2, <1>3

\* What a request that neither inserts nor revokes keeps.
Kept(r) ==
  /\ HasNew(r)' => HasNew(r)
  /\ Spent(r)' => Spent(r)
  /\ Of(r, {"refresh"})' => Of(r, {"refresh"})
  /\ At(r, "revokeOld")' => At(r, "revokeOld")
  /\ HasNew(r)' \/ Of(r, {"refresh"})' => /\ req'[r].old = req[r].old
                                          /\ req'[r].new = req[r].new

\* The steps that matter to rotations.
LEMMA RotationCases ==
  ASSUME Base, [Next \/ Restart]_vars
  PROVE  \/ \E r \in Req, n \in RefreshToken : InsertNew(r, n) \/ LoginCreate(r, n)
         \/ \E r \in Req, n \in Held : StartRefresh(r, n)
         \/ \E r \in Req : RevokeOld(r)
         \/ /\ row' = row \/ \E u \in User : row' = RevokedAll(u)
            /\ \A r \in Req : Kept(r)
<1>0. req \in [Req -> Request] /\ \A r \in Req : Control(r)
  BY DEF Base, TypeOK
<1>1. ASSUME NEW r \in Req, req'[r] = req[r] PROVE Kept(r)
  BY <1>1 DEF Kept, HasNew, Spent, At, Of
<1>2. ASSUME NEW q \in Req, NEW r \in Req, q # r,
             \/ \E u \in User : StartLogin(q, u)
             \/ \E t \in Delivered, kind \in Presenting : Authenticate(q, kind, t)
             \/ SignIn(q) \/ LoginRevokeAll(q) \/ Rotate(q) \/ FindUser(q) \/ SignRefreshed(q)
             \/ UpdatePassword(q) \/ DeleteUser(q) \/ LogoutRevokeAll(q) \/ LogoutBlacklist(q)
             \/ Fail(q)
      PROVE  req'[r] = req[r]
  BY <1>0, <1>2
  DEF StartLogin, Authenticate, Begin, Go, SignIn, LoginRevokeAll, Rotate, FindUser,
      SignRefreshed, UpdatePassword, DeleteUser, LogoutRevokeAll, LogoutBlacklist, Fail
<1>3. ASSUME NEW r \in Req,
             \/ \E u \in User : StartLogin(r, u)
             \/ \E t \in Delivered, kind \in Presenting : Authenticate(r, kind, t)
      PROVE  Kept(r) /\ row' = row
  BY <1>0, <1>3
  DEF StartLogin, Authenticate, Begin, Presenting, Kept, HasNew, Spent, At, Of
<1>4. ASSUME NEW r \in Req,
             SignIn(r) \/ Rotate(r) \/ FindUser(r) \/ SignRefreshed(r) \/ UpdatePassword(r)
             \/ DeleteUser(r) \/ LogoutBlacklist(r) \/ Fail(r)
      PROVE  Kept(r) /\ row' = row
  BY <1>0, <1>4, SessionsAssumption
  DEF SignIn, Rotate, FindUser, SignRefreshed, UpdatePassword, DeleteUser, LogoutBlacklist, Fail,
      AnswerToFailure, Go, Control, RefreshPC, Presenting, Kept, HasNew, Spent, At, Of, Request
<1>5. ASSUME NEW r \in Req, LoginRevokeAll(r) \/ LogoutRevokeAll(r)
      PROVE  Kept(r) /\ \E u \in User : row' = RevokedAll(u)
  <2>1. Kept(r)
    BY <1>0, <1>5
    DEF LoginRevokeAll, LogoutRevokeAll, Go, Kept, HasNew, Spent, At, Of, Request
  <2>2. req[r].user \in User
    BY <1>5 DEF LoginRevokeAll, LogoutRevokeAll, Base, Refers, Of, Kind
  <2> QED
    BY <1>5, <2>1, <2>2 DEF LoginRevokeAll, LogoutRevokeAll
<1>6. CASE ClockTick \/ Cleanup \/ UNCHANGED vars
  BY <1>1, <1>6 DEF ClockTick, Cleanup, vars
<1>7. CASE Restart
  <2>1. row' = row
    BY <1>7 DEF Restart
  <2>2. ASSUME NEW r \in Req PROVE Kept(r)
    BY <1>0, <1>7 DEF Restart, InFlight, Kept, HasNew, Spent, At, Of, Request
  <2> QED
    BY <2>1, <2>2
<1> QED
  BY <1>1, <1>2, <1>3, <1>4, <1>5, <1>6, <1>7 DEF Next, Start, Continue, Presenting

LEMMA RotationQuiet ==
  ASSUME Base, RotationInv, [Next \/ Restart]_vars,
         row' = row \/ \E u \in User : row' = RevokedAll(u),
         \A r \in Req : Kept(r),
         NEW r \in Req
  PROVE  Rotation(r)'
<1> DEFINE o == req[r].old
           n == req[r].new
<1>1. Kept(r) /\ Rotation(r) /\ Refers(r) /\ Control(r)
  BY DEF RotationInv, Base
<1>2. ASSUME Of(r, {"refresh"}) /\ HasNew(r)
      PROVE  /\ n \in RowsOf(req[r].user) /\ o \in RowsOf(req[r].user)
             /\ n \in RefreshToken /\ o \in RefreshToken /\ Exists(n) /\ Exists(o)
             /\ row[n].user = row[o].user
  BY <1>1, <1>2 DEF Refers, RowsOf
<1>3. Of(r, {"refresh"})' /\ HasNew(r)' =>
        /\ req'[r].new # req'[r].old
        /\ row'[req'[r].new].expiresAt >= row'[req'[r].old].expiresAt
  <2> SUFFICES ASSUME Of(r, {"refresh"})', HasNew(r)'
               PROVE  n # o /\ row'[n].expiresAt >= row'[o].expiresAt
    BY <1>1 DEF Kept
  <2>1. Of(r, {"refresh"}) /\ HasNew(r)
    BY <1>1 DEF Kept
  <2>2. row'[n].expiresAt = row[n].expiresAt /\ row'[o].expiresAt = row[o].expiresAt
    BY <1>2, <2>1, RowKept
  <2> QED
    BY <1>1, <2>1, <2>2 DEF Rotation
<1>4. Spent(r)' => row'[req'[r].old].revoked
  <2> SUFFICES ASSUME Spent(r)' PROVE row'[o].revoked
    BY <1>1 DEF Kept, Spent, Of
  <2>1. Spent(r) /\ Of(r, {"refresh"}) /\ HasNew(r)
    BY <1>1 DEF Kept, Spent, HasNew, Of
  <2> QED
    BY <1>1, <1>2, <2>1, RevokedStays DEF Rotation
<1>5. At(r, "revokeOld")' =>
        /\ req'[r].old = o /\ req'[r].new = n
        /\ At(r, "revokeOld") /\ Of(r, {"refresh"}) /\ HasNew(r)
  <2> SUFFICES ASSUME At(r, "revokeOld")'
               PROVE  /\ req'[r].old = o /\ req'[r].new = n
                      /\ At(r, "revokeOld") /\ Of(r, {"refresh"}) /\ HasNew(r)
    OBVIOUS
  <2>1. Control(r)'
    BY BaseStep DEF Base
  <2>2. Of(r, {"refresh"})'
    BY <2>1 DEF Control, RefreshPC, At
  <2> QED
    BY <1>1, <2>2 DEF Kept, HasNew, At
<1>6. At(r, "revokeOld")' /\ row'[req'[r].new].revoked => row'[req'[r].old].revoked
  <2> SUFFICES ASSUME At(r, "revokeOld")', row'[n].revoked PROVE row'[o].revoked
    BY <1>5
  <2>1. At(r, "revokeOld") /\ Of(r, {"refresh"}) /\ HasNew(r)
    BY <1>5
  <2>2. CASE row[n].revoked
    BY <1>1, <1>2, <2>1, <2>2, RevokedStays DEF Rotation
  <2>3. CASE ~row[n].revoked
    <3>1. PICK u \in User : row' = RevokedAll(u)
      BY <2>3
    <3>2. n \in RowsOf(u)
      BY <1>2, <2>1, <2>3, <3>1, RevokedAllRows DEF Base
    <3>3. o \in RowsOf(u) /\ row[o] \in Row
      BY <1>2, <2>1, <3>2 DEF RowsOf, Exists, Base, TypeOK
    <3>4. row'[o] = [row[o] EXCEPT !.revoked = TRUE]
      BY <3>1, <3>3, RevokedAllRows DEF Base
    <3> QED
      BY <3>3, <3>4 DEF Row
  <2> QED
    BY <2>2, <2>3
<1>7. At(r, "revokeOld")' =>
        \A q \in Req : Of(q, {"refresh"})' => req'[q].old # req'[r].new
  <2> SUFFICES ASSUME At(r, "revokeOld")', NEW q \in Req, Of(q, {"refresh"})'
               PROVE  req'[q].old # n
    BY <1>5
  <2>1. Of(q, {"refresh"}) /\ req'[q].old = req[q].old
    BY DEF Kept
  <2> QED
    BY <1>1, <1>5, <2>1 DEF Rotation
<1>8. HasNew(r)' => \A q \in Req \ {r} : HasNew(q)' => req'[q].new # req'[r].new
  BY <1>1 DEF Rotation, Kept
<1> QED
  BY <1>3, <1>4, <1>6, <1>7, <1>8 DEF Rotation

LEMMA RotationRevokeOld ==
  ASSUME Base, RotationInv, NEW p \in Req, RevokeOld(p), NEW r \in Req
  PROVE  Rotation(r)'
<1>0. TypeOK /\ [Next \/ Restart]_vars /\ Rotation(r) /\ Rotation(p) /\ Refers(r) /\ Refers(p)
  BY DEF Next, Continue, RotationInv, Base
<1>1. PICK x \in RefreshToken : x = req[p].old /\ Exists(x) /\ row' = Revoked(x)
  BY DEF RevokeOld, Base, Control, Refers, At, Of, Kind, RefreshPC, RowsOf
<1>2. /\ At(p, "revokeOld") /\ Of(p, {"refresh"}) /\ HasNew(p)
      /\ req'[p] = [req[p] EXCEPT !.pc = "findUser"] /\ req[p] \in Request
      /\ \A q \in Req \ {p} : req'[q] = req[q]
  BY DEF RevokeOld, Go, Base, TypeOK, Control, RefreshPC, At, Of, HasNew, Request
<1>3. \A q \in Req : /\ req'[q].old = req[q].old /\ req'[q].new = req[q].new
                     /\ Of(q, {"refresh"})' = Of(q, {"refresh"})
                     /\ HasNew(q)' = HasNew(q)
                     /\ At(q, "revokeOld")' => At(q, "revokeOld") /\ q # p
                     /\ Spent(q)' => Spent(q) \/ q = p
  BY <1>2 DEF HasNew, Spent, At, Of, Request
<1>4. ASSUME Of(r, {"refresh"}) /\ HasNew(r)
      PROVE  /\ req[r].new \in RefreshToken /\ req[r].old \in RefreshToken
             /\ Exists(req[r].new) /\ Exists(req[r].old)
             /\ row'[req[r].new].expiresAt = row[req[r].new].expiresAt
             /\ row'[req[r].old].expiresAt = row[req[r].old].expiresAt
  BY <1>0, <1>4, RowKept DEF Refers, RowsOf
<1>5. row[x] \in Row /\ row'[x].revoked
  BY <1>0, <1>1, RevokedRow DEF Exists, TypeOK, Row
<1>6. Spent(r)' => row'[req'[r].old].revoked
  <2>1. CASE r = p
    BY <1>1, <1>3, <1>5, <2>1
  <2>2. CASE r # p /\ Spent(r)
    <3>1. Of(r, {"refresh"}) /\ HasNew(r)
      BY <2>2 DEF Spent, HasNew, Of
    <3> QED
      BY <1>0, <1>3, <1>4, <2>2, <3>1, RevokedStays DEF Rotation
  <2> QED
    BY <1>3, <2>1, <2>2
<1>7. At(r, "revokeOld")' /\ row'[req'[r].new].revoked => row'[req'[r].old].revoked
  <2> SUFFICES ASSUME At(r, "revokeOld"), r # p, row'[req[r].new].revoked
               PROVE  row'[req[r].old].revoked
    BY <1>3
  <2>1. Of(r, {"refresh"}) /\ HasNew(r)
    BY DEF Base, Control, RefreshPC, HasNew, At, Of
  <2>2. req[r].new # x
    BY <1>0, <1>1, <1>2 DEF Rotation
  <2>3. row'[req[r].new] = row[req[r].new]
    BY <1>0, <1>1, <1>4, <2>1, <2>2, RevokedRow
  <2> QED
    BY <1>0, <1>4, <2>1, <2>3, RevokedStays DEF Rotation
<1> QED
  BY <1>0, <1>3, <1>4, <1>6, <1>7 DEF Rotation

LEMMA RotationStartRefresh ==
  ASSUME Base, RotationInv, NEW p \in Req, NEW n \in Held, StartRefresh(p, n), NEW r \in Req
  PROVE  Rotation(r)'
<1>1. /\ row' = row /\ \A q \in Req \ {p} : req'[q] = req[q]
      /\ req'[p].old = n /\ req'[p].pc \in {"rotate", "failed"} /\ req'[p].kind = "refresh"
      /\ At(p, "idle")
  BY DEF StartRefresh, Begin, Base, TypeOK
<1>2. ~HasNew(p)' /\ ~Spent(p)' /\ ~At(p, "revokeOld")'
  BY <1>1 DEF HasNew, Spent, At, Of
<1>3. CASE r = p
  BY <1>2, <1>3 DEF Rotation
<1>4. CASE r # p
  <2>1. req'[r] = req[r] /\ Rotation(r)
    BY <1>1, <1>4 DEF RotationInv
  <2>2. PICK h \in Req : HasNew(h) /\ At(h, "ok") /\ n = req[h].new
    BY DEF Held, HasNew, At, Of
  <2>3. At(r, "revokeOld") => n # req[r].new
    <3> SUFFICES ASSUME At(r, "revokeOld") PROVE n # req[r].new
      OBVIOUS
    <3>1. h # r /\ HasNew(r)
      BY <2>2 DEF Base, Control, RefreshPC, HasNew, At, Of
    <3> QED
      BY <2>1, <2>2, <3>1 DEF Rotation
  <2>4. At(r, "revokeOld") => \A q \in Req : Of(q, {"refresh"})' => req'[q].old # req[r].new
    BY <1>1, <2>1, <2>3 DEF Rotation, Of
  <2>5. HasNew(r)' = HasNew(r) /\ Spent(r)' = Spent(r) /\ At(r, "revokeOld")' = At(r, "revokeOld")
        /\ Of(r, {"refresh"})' = Of(r, {"refresh"})
    BY <2>1 DEF HasNew, Spent, At, Of
  <2>6. HasNew(r) => \A q \in Req \ {r} : HasNew(q)' => req'[q].new # req[r].new
    <3>1. \A q \in Req \ {p} : HasNew(q)' = HasNew(q) /\ req'[q].new = req[q].new
      BY <1>1 DEF HasNew, At, Of
    <3> QED
      BY <1>2, <2>1, <3>1 DEF Rotation
  <2> QED
    BY <1>1, <2>1, <2>4, <2>5, <2>6 DEF Rotation
<1> QED
  BY <1>3, <1>4

LEMMA RotationInsert ==
  ASSUME Base, RotationInv, NEW p \in Req, NEW n \in RefreshToken,
         InsertNew(p, n) \/ LoginCreate(p, n), NEW r \in Req
  PROVE  Rotation(r)'
<1>0. TypeOK /\ [Next \/ Restart]_vars /\ Rotation(r) /\ Refers(r) /\ Refers(p)
      /\ Control(p) /\ req[p] \in Request
  BY DEF Next, Continue, RotationInv, Base, TypeOK
<1>1. PICK u \in User : Fresh(n) /\ row' = Inserted(n, u)
  <2>1. CASE LoginCreate(p, n)
    BY <1>0, <2>1 DEF LoginCreate, Control, Refers, At, Of, Kind
  <2>2. CASE InsertNew(p, n)
    BY <1>0, <2>2 DEF InsertNew, Control, Refers, At, Of, Kind, RefreshPC, RowsOf
  <2> QED
    BY <2>1, <2>2
<1>2. /\ \A q \in Req \ {p} : req'[q] = req[q]
      /\ req'[p].new = n /\ req'[p].old = req[p].old /\ req'[p].kind = req[p].kind
      /\ \/ At(p, "insert") /\ At(p, "revokeOld")' /\ Of(p, {"refresh"})
         \/ At(p, "create") /\ At(p, "ok")' /\ Of(p, {"login"})
  <2>1. CASE LoginCreate(p, n)
    BY <1>0, <2>1 DEF LoginCreate, Control, At, Of, TypeOK, Request
  <2>2. CASE InsertNew(p, n)
    BY <1>0, <2>2 DEF InsertNew, Control, RefreshPC, At, Of, TypeOK, Request
  <2> QED
    BY <2>1, <2>2
<1>3. row'[n] = NewRow(u) /\ \A m \in RefreshToken : m # n => row'[m] = row[m]
  BY <1>0, <1>1, InsertedRow
<1>4. ~Spent(p)' /\ ~HasNew(p)
  BY <1>2 DEF Spent, HasNew, At, Of
<1>5. \A q \in Req : /\ HasNew(q) => req[q].new \in RefreshToken /\ Exists(req[q].new)
                     /\ Of(q, {"refresh"}) => req[q].old \in RefreshToken /\ Exists(req[q].old)
  BY DEF Base, Refers, RowsOf
<1>6. n \in RefreshToken /\ ~Exists(n)
  BY <1>1 DEF Fresh
<1>7. \A q \in Req : Of(q, {"refresh"})' => Of(q, {"refresh"}) /\ req'[q].old = req[q].old
  BY <1>2 DEF Of
<1>8. \A q \in Req \ {p} : HasNew(q)' = HasNew(q) /\ Spent(q)' = Spent(q)
                           /\ At(q, "revokeOld")' = At(q, "revokeOld")
  BY <1>2 DEF HasNew, Spent, At, Of
<1>9. CASE r = p
  <2>1. \A q \in Req : Of(q, {"refresh"})' => req'[q].old # n
    BY <1>5, <1>6, <1>7
  <2>2. \A q \in Req \ {p} : HasNew(q)' => req'[q].new # n
    BY <1>2, <1>5, <1>6, <1>8
  <2>3. ~row'[n].revoked /\ row'[n].expiresAt = now + RefreshTTL
    BY <1>3 DEF NewRow
  <2>4. Of(p, {"refresh"}) =>
          /\ req[p].old \in RefreshToken /\ req[p].old # n
          /\ row'[req[p].old] = row[req[p].old] /\ row[req[p].old] \in Row
          /\ row[req[p].old].expiresAt <= now + RefreshTTL
    BY <1>0, <1>3, <1>5, <1>6 DEF RotationInv, Lifetimes, Exists, TypeOK
  <2>5. Of(p, {"refresh"}) => row'[n].expiresAt >= row'[req[p].old].expiresAt
    <3>1. now + RefreshTTL \in Nat
      BY <1>0, RefreshAssumption DEF TypeOK
    <3> QED
      BY <2>3, <2>4, <3>1 DEF Row
  <2> QED
    BY <1>2, <1>4, <1>7, <1>9, <2>1, <2>2, <2>3, <2>4, <2>5 DEF Rotation
<1>10. CASE r # p
  <2>1. req'[r] = req[r] /\ Rotation(r)
    BY <1>0, <1>2, <1>10
  <2>2. /\ HasNew(r) => req[r].new # n /\ row'[req[r].new] = row[req[r].new]
        /\ Of(r, {"refresh"}) => row'[req[r].old] = row[req[r].old]
    BY <1>3, <1>5, <1>6
  <2>3. At(r, "revokeOld") => HasNew(r) /\ Of(r, {"refresh"})
    BY DEF Base, Control, RefreshPC, HasNew, At, Of
  <2>4. Spent(r) => Of(r, {"refresh"})
    BY DEF Spent
  <2>5. At(r, "revokeOld") => \A q \in Req : Of(q, {"refresh"})' => req'[q].old # req[r].new
    BY <1>7, <2>1 DEF Rotation
  <2>6. HasNew(r) => \A q \in Req \ {r} : HasNew(q)' => req'[q].new # req[r].new
    BY <1>2, <1>8, <2>1, <2>2 DEF Rotation
  <2>7. HasNew(r)' = HasNew(r) /\ Spent(r)' = Spent(r) /\ At(r, "revokeOld")' = At(r, "revokeOld")
        /\ Of(r, {"refresh"})' = Of(r, {"refresh"})
    BY <2>1 DEF HasNew, Spent, At, Of
  <2> QED
    BY <2>1, <2>2, <2>3, <2>4, <2>5, <2>6, <2>7 DEF Rotation
<1> QED
  BY <1>9, <1>10

LEMMA RotationStep == Base /\ RotationInv /\ [Next \/ Restart]_vars => RotationInv'
<1> SUFFICES ASSUME Base, RotationInv, [Next \/ Restart]_vars PROVE RotationInv'
  OBVIOUS
<1>1. Lifetimes'
  BY LifetimesStep DEF RotationInv
<1>2. ASSUME NEW r \in Req PROVE Rotation(r)'
  BY RotationCases, RotationQuiet, RotationRevokeOld, RotationStartRefresh, RotationInsert
<1> QED
  BY <1>1, <1>2 DEF RotationInv

LEMMA InitRotation == Init => RotationInv
<1> SUFFICES ASSUME Init PROVE RotationInv
  OBVIOUS
<1>1. \A r \in Req : req[r] = Idle
  BY DEF Init
<1>2. Lifetimes
  BY DEF Init, Lifetimes, Exists
<1>3. \A r \in Req : ~HasNew(r) /\ ~Spent(r) /\ ~At(r, "revokeOld")
  BY <1>1 DEF Idle, HasNew, Spent, At, Of
<1> QED
  BY <1>2, <1>3 DEF RotationInv, Rotation

\* A refresh answered with success has spent its token and returned a later
\* one of the same user; restarts included.
THEOREM RotationSpends == CrashSpec => []RotationSpendsOld
<1>1. Base /\ RotationInv => RotationSpendsOld
  <2> SUFFICES ASSUME Base, RotationInv, NEW r \in Req, At(r, "ok"), Of(r, {"refresh"})
               PROVE  /\ Exists(req[r].old) /\ Exists(req[r].new)
                      /\ row[req[r].old].revoked /\ req[r].new # req[r].old
                      /\ row[req[r].new].user = row[req[r].old].user
                      /\ req[r].access.user = row[req[r].old].user
                      /\ row[req[r].new].expiresAt >= row[req[r].old].expiresAt
    BY DEF RotationSpendsOld
  <2>1. HasNew(r) /\ HasAccess(r) /\ Spent(r)
    BY DEF HasNew, HasAccess, Spent, At, Of
  <2>2. Refers(r) /\ Rotation(r)
    BY DEF Base, RotationInv
  <2> QED
    BY <2>1, <2>2 DEF Refers, Rotation, RowsOf, TokensOf
<1>2. Init => Base /\ RotationInv
  BY InitBase, InitRotation
<1>3. Base /\ RotationInv /\ [Next \/ Restart]_vars => Base' /\ RotationInv'
  BY BaseStep, RotationStep
<1> QED
  BY <1>1, <1>2, <1>3, PTL DEF CrashSpec

\* Only the rotation's own UPDATE can make a usable token unusable among the
\* steps of a refresh request.
LEMMA RefreshSteps ==
  ASSUME Base, [Next \/ Restart]_vars, NEW r \in Req, Of(r, {"refresh"}), req'[r].pc # req[r].pc
  PROVE  /\ now' = now
         /\ \/ row' = row
            \/ \E n \in RefreshToken, u \in User : Fresh(n) /\ row' = Inserted(n, u)
            \/ RevokeOld(r)
<1>0. req \in [Req -> Request] /\ Control(r)
  BY DEF Base, TypeOK
<1>1. ASSUME NEW q \in Req, Start(q) \/ Continue(q) \/ Fail(q) PROVE q = r
  BY <1>0, <1>1
  DEF Start, Continue, Fail, StartLogin, StartRefresh, Authenticate, Begin, Go, SignIn,
      LoginRevokeAll, LoginCreate, Rotate, InsertNew, RevokeOld, FindUser, SignRefreshed,
      UpdatePassword, DeleteUser, LogoutRevokeAll, LogoutBlacklist
<1>2. ~ClockTick /\ ~Cleanup /\ ~UNCHANGED vars
  BY DEF ClockTick, Cleanup, vars
<1>3. CASE Restart
  BY <1>3 DEF Restart
<1>4. CASE Start(r) \/ Fail(r)
  BY <1>4 DEF Start, Fail, StartLogin, StartRefresh, Authenticate
<1>5. CASE Continue(r)
  <2>1. CASE \/ SignIn(r) \/ Rotate(r) \/ FindUser(r) \/ SignRefreshed(r)
             \/ UpdatePassword(r) \/ DeleteUser(r) \/ LogoutBlacklist(r)
    BY <2>1 DEF SignIn, Rotate, FindUser, SignRefreshed, UpdatePassword, DeleteUser, LogoutBlacklist
  <2>2. CASE RevokeOld(r)
    BY <2>2 DEF RevokeOld
  <2>3. ASSUME NEW n \in RefreshToken, LoginCreate(r, n) \/ InsertNew(r, n)
        PROVE  now' = now /\ \E u \in User : Fresh(n) /\ row' = Inserted(n, u)
    <3>1. CASE LoginCreate(r, n)
      BY <1>0, <3>1 DEF LoginCreate, Control, At, Of
    <3>2. CASE InsertNew(r, n)
      BY <3>2 DEF InsertNew, Base, Refers, At, Of, RowsOf, Kind
    <3> QED
      BY <2>3, <3>1, <3>2
  <2>4. ~LoginRevokeAll(r) /\ ~LogoutRevokeAll(r)
    BY DEF LoginRevokeAll, LogoutRevokeAll, Of
  <2> QED
    BY <1>5, <2>1, <2>2, <2>3, <2>4 DEF Continue
<1> QED
  BY <1>1, <1>2, <1>3, <1>4, <1>5 DEF Next

\* No step of a refresh takes from a user the last usable refresh token;
\* restarts included.
THEOREM RefreshNeverStrands == CrashSpec => NeverStranded
<1>1. Base /\ RotationInv /\ [Next \/ Restart]_vars =>
        [\A r \in Req : Of(r, {"refresh"}) /\ req'[r].pc # req[r].pc =>
           \A u \in User : UsableTokenOf(u) => UsableTokenOf(u)']_vars
  <2> SUFFICES ASSUME Base, RotationInv, [Next \/ Restart]_vars,
                      NEW r \in Req, Of(r, {"refresh"}), req'[r].pc # req[r].pc,
                      NEW u \in User, UsableTokenOf(u)
               PROVE  UsableTokenOf(u)'
    OBVIOUS
  <2>1. PICK m \in RowsOf(u) : Valid(m)
    BY DEF UsableTokenOf
  <2>2. TypeOK /\ m \in RefreshToken /\ Exists(m) /\ row[m].user = u /\ now' = now
    BY <2>1, RefreshSteps DEF Base, RowsOf
  <2>3. ASSUME row'[m] = row[m] PROVE UsableTokenOf(u)'
    BY <2>1, <2>2, <2>3 DEF UsableTokenOf, RowsOf, Valid, Exists
  <2>4. ASSUME NEW n \in RefreshToken, NEW v \in User, Fresh(n), row' = Inserted(n, v)
        PROVE  row'[m] = row[m]
    BY <2>2, <2>4, InsertedRow DEF Fresh
  <2>5. CASE RevokeOld(r)
    <3>0. /\ req[r].old \in RowsOf(req[r].user) /\ req[r].new \in RowsOf(req[r].user)
          /\ Rotation(r) /\ At(r, "revokeOld") /\ HasNew(r)
      BY <2>5 DEF RevokeOld, Base, Refers, RotationInv, HasNew, At, Of
    <3> PICK o \in RefreshToken : o = req[r].old
      BY <3>0 DEF RowsOf
    <3> PICK n \in RefreshToken : n = req[r].new
      BY <3>0 DEF RowsOf
    <3>1. /\ o \in RowsOf(req[r].user) /\ n \in RowsOf(req[r].user)
          /\ Rotation(r) /\ At(r, "revokeOld") /\ HasNew(r)
      BY <3>0
    <3>2. /\ o \in RefreshToken /\ n \in RefreshToken /\ Exists(o) /\ Exists(n)
          /\ row[o].user = row[n].user /\ row' = Revoked(o)
      BY <2>5, <3>1 DEF RevokeOld, RowsOf
    <3>3. CASE m # o
      BY <2>2, <2>3, <3>2, <3>3, RevokedRow
    <3>4. CASE m = o
      <4>1. ~row[n].revoked /\ n # o
        BY <2>1, <3>1, <3>4 DEF Valid, Rotation
      <4>2. row'[n] = row[n]
        BY <2>2, <3>2, <4>1, RevokedRow
      <4>3. row[n] \in Row /\ row[o] \in Row /\ now \in Nat
        BY <2>2, <3>2 DEF TypeOK, Exists
      <4>4. row[n].expiresAt >= now
        <5>1. row[n].expiresAt >= row[o].expiresAt /\ row[o].expiresAt >= now
          BY <2>1, <3>1, <3>4 DEF Valid, Rotation
        <5> QED
          BY <4>3, <5>1 DEF Row
      <4>5. Exists(n)' /\ row'[n].user = u /\ ~row'[n].revoked /\ row'[n].expiresAt >= now'
        BY <2>2, <3>2, <3>4, <4>1, <4>2, <4>4 DEF Exists
      <4> QED
        BY <4>5 DEF UsableTokenOf, RowsOf, Valid
    <3> QED
      BY <3>3, <3>4
  <2> QED
    BY <2>3, <2>4, <2>5, RefreshSteps
<1>2. Init => Base /\ RotationInv
  BY InitBase, InitRotation
<1>3. Base /\ RotationInv /\ [Next \/ Restart]_vars => Base' /\ RotationInv'
  BY BaseStep, RotationStep
<1> QED
  BY <1>1, <1>2, <1>3, PTL DEF CrashSpec, NeverStranded

-----------------------------------------------------------------------------
(* The policy on access tokens *)

\* A user's set holds only signed tokens that name the user.
Recorded == \A u \in User : userTokens[u] \subseteq TokensOf(u, signed)

PolicyInv == Base /\ Tracked /\ Recorded

Live == {t \in signed : Accepts(t)}
Killed == {t \in blacklist : ~Expired(t)}

\* The steps the policy can see.
LEMMA PolicyCases ==
  ASSUME Base, [Next]_vars
  PROVE  \/ \E r \in Req : SignIn(r) \/ SignRefreshed(r) \/ LogoutBlacklist(r)
         \/ ClockTick \/ Cleanup
         \/ UNCHANGED <<now, signed, blacklist, userTokens>>
BY DEF Next, Start, Continue, Fail, StartLogin, StartRefresh, Authenticate, LoginRevokeAll,
       LoginCreate, Rotate, InsertNew, RevokeOld, FindUser, UpdatePassword, DeleteUser,
       LogoutRevokeAll, vars

LEMMA RecordedStep ==
  ASSUME Base, Recorded, [Next]_vars
  PROVE  Recorded'
<1>0. userTokens \in [User -> SUBSET Token]
  BY DEF Base, TypeOK
<1>1. ASSUME NEW u \in User, NEW t, t.user = u, signed' = signed \cup {t},
             userTokens' = TrackedBy(u, t)
      PROVE  Recorded'
  BY <1>0, <1>1 DEF Recorded, TrackedBy, TokensOf
<1>2. ASSUME NEW r \in Req, SignIn(r) \/ SignRefreshed(r) PROVE Recorded'
  <2>1. PICK u \in User : u = req[r].user
    BY <1>2 DEF SignIn, SignRefreshed, Base, Control, Refers, At, Of, Kind, RefreshPC
  <2>2. PICK t : t = [user |-> u, iat |-> now]
    OBVIOUS
  <2>3. t.user = u /\ signed' = signed \cup {t} /\ userTokens' = TrackedBy(u, t)
    BY <1>2, <2>1, <2>2 DEF SignIn, SignRefreshed
  <2> QED
    BY <1>1, <2>3
<1>3. CASE Cleanup
  BY <1>0, <1>3 DEF Cleanup, CleanupExpiredTokens, Recorded, TokensOf
<1>4. CASE UNCHANGED <<signed, userTokens>>
  BY <1>4 DEF Recorded, TokensOf
<1>5. ASSUME NEW r \in Req, LogoutBlacklist(r) PROVE UNCHANGED <<signed, userTokens>>
  BY <1>5 DEF LogoutBlacklist
<1>6. ClockTick => UNCHANGED <<signed, userTokens>>
  BY DEF ClockTick
<1> QED
  BY <1>2, <1>3, <1>4, <1>5, <1>6, PolicyCases

\* blacklistUserTokens ends the sessions of the user, no more and no less.
LEMMA BlacklistingEndsSessions ==
  ASSUME PolicyInv, NEW u \in User, blacklist' = BlacklistedBy(u), now' = now
  PROVE  /\ Killed' = Killed \cup {t \in Live : t.user = u}
         /\ \A t \in signed : t \notin blacklist' /\ ~Expired(t)' <=> t \in Live /\ t.user # u
<1>1. \A t : Expired(t)' = Expired(t)
  BY DEF Expired
<1>2. userTokens[u] \subseteq TokensOf(u, signed)
  BY DEF PolicyInv, Recorded
<1>3. \A t \in signed : t.user = u /\ ~Expired(t) => t \in blacklist'
  BY DEF PolicyInv, Tracked, BlacklistedBy
<1> QED
  BY <1>1, <1>2, <1>3 DEF Killed, Live, Accepts, BlacklistedBy, TokensOf

LEMMA PolicyStep ==
  ASSUME PolicyInv, [Next]_vars
  PROVE  [Policy!Next]_<<now, Live, Killed>>
<1>0. TypeOK /\ now \in Nat /\ AccessTTL \in Nat \ {0} /\ signed \subseteq Token /\ blacklist \subseteq Token
  BY AccessTTLAssumption DEF PolicyInv, Base, TypeOK
<1>1. ASSUME NEW r \in Req, SignIn(r) PROVE \E u \in User : Policy!SignIn(u)
  <2>1. PICK u \in User : u = req[r].user
    BY <1>1 DEF SignIn, PolicyInv, Base, Control, Refers, At, Of, Kind
  <2>2. PICK t : t = [user |-> u, iat |-> now]
    OBVIOUS
  <2>3. /\ blacklist' = BlacklistedBy(u) /\ now' = now /\ signed' = signed \cup {t}
    BY <1>1, <2>1, <2>2 DEF SignIn
  <2>4. ~Expired(t)' /\ t.user = u
    BY <1>0, <2>2, <2>3 DEF Expired
  <2>5. Killed' = Killed \cup {s \in Live : s.user = u}
    BY <2>3, BlacklistingEndsSessions
  <2>6. t \in Killed' <=> t \in blacklist'
    BY <2>4 DEF Killed
  <2>7. Live' = (Live \ {s \in Live : s.user = u}) \cup ({t} \ Killed')
    <3>1. \A s \in signed : s \notin blacklist' /\ ~Expired(s)' <=> s \in Live /\ s.user # u
      BY <2>3, BlacklistingEndsSessions
    <3>2. Live' = {s \in signed' : ~Expired(s)' /\ s \notin blacklist'}
      BY DEF Live, Accepts
    <3>3. Live \subseteq signed
      BY DEF Live
    <3> QED
      BY <2>3, <2>4, <2>6, <3>1, <3>2, <3>3
  <2> QED
    BY <2>2, <2>3, <2>5, <2>7
    DEF Policy!SignIn, Policy!LiveOf, Policy!TokenNow, Live, Killed
<1>2. ASSUME NEW r \in Req, SignRefreshed(r) PROVE \E u \in User : Policy!Refresh(u)
  <2>1. PICK u \in User : u = req[r].user
    BY <1>2 DEF SignRefreshed, PolicyInv, Base, Control, Refers, At, Of, Kind, RefreshPC
  <2>2. PICK t : t = [user |-> u, iat |-> now]
    OBVIOUS
  <2>3. UNCHANGED <<now, blacklist>> /\ signed' = signed \cup {t}
    BY <1>2, <2>1, <2>2 DEF SignRefreshed
  <2>4. ~Expired(t)
    BY <1>0, <2>2 DEF Expired
  <2>5. Killed' = Killed /\ Live' = Live \cup ({t} \ Killed)
    BY <2>3, <2>4 DEF Live, Killed, Accepts, Expired
  <2> QED
    BY <2>2, <2>3, <2>5 DEF Policy!Refresh, Policy!TokenNow, Live, Killed
<1>3. ASSUME NEW r \in Req, LogoutBlacklist(r) PROVE \E u \in User : Policy!EndSessions(u)
  <2>1. PICK u \in User : u = req[r].user
    BY <1>3 DEF LogoutBlacklist, PolicyInv, Base, Control, Refers, At, Of, Kind, Presenting
  <2>2. blacklist' = BlacklistedBy(u) /\ UNCHANGED <<now, signed>>
    BY <1>3, <2>1 DEF LogoutBlacklist
  <2>3. Killed' = Killed \cup {s \in Live : s.user = u}
    BY <2>2, BlacklistingEndsSessions
  <2>4. Live' = Live \ {s \in Live : s.user = u}
    <3>1. \A s \in signed : s \notin blacklist' /\ ~Expired(s)' <=> s \in Live /\ s.user # u
      BY <2>2, BlacklistingEndsSessions
    <3>2. Live' = {s \in signed : ~Expired(s)' /\ s \notin blacklist'}
      BY <2>2 DEF Live, Accepts
    <3>3. Live \subseteq signed
      BY DEF Live
    <3> QED
      BY <3>1, <3>2, <3>3
  <2> QED
    BY <2>2, <2>3, <2>4 DEF Policy!EndSessions, Policy!LiveOf, Live, Killed
<1>4. CASE ClockTick
  <2>1. now' = now + 1 /\ UNCHANGED <<signed, blacklist>>
    BY <1>4 DEF ClockTick, Tick
  <2>2. \A t \in Token : /\ ~Expired(t)' => ~Expired(t)
                         /\ ~Expired(t)' <=> t.iat + AccessTTL > now'
    BY <1>0, <2>1 DEF Expired, Token
  <2>3. Live' = {t \in Live : t.iat + AccessTTL > now'}
    BY <1>0, <2>1, <2>2 DEF Live, Accepts
  <2>4. Killed' = {t \in Killed : t.iat + AccessTTL > now'}
    BY <1>0, <2>1, <2>2 DEF Killed
  <2> QED
    BY <2>1, <2>3, <2>4 DEF Policy!Next, Policy!Pass, Live, Killed
<1>5. CASE Cleanup
  BY <1>5 DEF Cleanup, CleanupExpiredTokens, Sweep, Live, Killed, Accepts, Expired
<1>6. CASE UNCHANGED <<now, signed, blacklist, userTokens>>
  BY <1>6 DEF Live, Killed, Accepts, Expired
<1> QED
  BY <1>1, <1>2, <1>3, <1>4, <1>5, <1>6, PolicyCases DEF PolicyInv, Policy!Next

\* The server implements the policy on access tokens, until a restart.
THEOREM ServerImplementsPolicy == Spec => PolicySpec
<1>1. Init => PolicyInv /\ Policy!Init
  <2>1. ASSUME Init PROVE Tracked /\ Recorded /\ Policy!Init
    BY <2>1 DEF Init, Tracked, Recorded, Policy!Init
  <2> QED
    BY <2>1, InitBase DEF PolicyInv
<1>2. PolicyInv /\ [Next]_vars => PolicyInv'
  BY BaseStep, TrackedStep, RecordedStep DEF PolicyInv
<1>3. PolicyInv /\ [Next]_vars =>
        [Policy!Next]_<<now, {t \in signed : Accepts(t)}, {t \in blacklist : ~Expired(t)}>>
  BY PolicyStep DEF Live, Killed
<1> QED
  BY <1>1, <1>2, <1>3, PTL DEF Spec, PolicySpec, Policy!Spec
=============================================================================
