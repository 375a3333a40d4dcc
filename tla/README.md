# A verification of chat-example

TLA+ models of the chat application in `src/apps`, the TLC runs that check them
and the TLAPS proofs about them. Paths below are relative to `src/apps`, those of
`documents/` to `src`.

## 1. The system

One NestJS process (`backend`) serves a REST API and a socket.io gateway over a
MySQL database through MikroORM; a React single-page client (`frontend`) uses
both. The backend is single-threaded: a handler runs without interruption from
one `await` to the next, and everything that is in flight interleaves at the
awaits. What is concurrent is therefore requests, socket events, timers and the
database, and what fails is database calls and the process.

| component | state | operations | talks to |
|---|---|---|---|
| Access token blacklist (`backend/src/auth/token-blacklist.service.ts`) | two maps in memory: blacklisted tokens, tokens by user | blacklistUserTokens, setLatestUserToken, isBlacklisted, hourly cleanup | called by AuthService, JwtStrategy |
| Refresh tokens (`auth/refresh-token.service.ts`, its entity) | the `refresh_token` table | create, validate, rotate, revoke all | called by AuthService and the refresh guard |
| Session endpoints (`auth/auth.service.ts`, `auth.controller.ts`, strategies, guards) | none but the request's locals | login, refresh, logout, password, signout, validateToken | the two above, UsersService |
| Accounts (`users/`) | the `user` table | createUser, updateUser, changePassword, deleteUser | session endpoints |
| Rooms (`rooms/`) | `room`, `room_user` tables | create, update, soft delete, join, add, remove, leave, role, seen, lists | controller, gateway |
| Messages (`messages/`) | `message`, `message_reaction`, `mention` tables | create, update, soft delete, toggle reaction, pages | controller, gateway |
| Socket gateway (`gateway/chat.gateway.ts`) | socket rooms, `client.data.user` | connect, disconnect, join_room, new/reply/edit message, react | AuthService, RoomsService, MessagesService; broadcasts to clients |
| Chat client (`frontend/src/hooks/useSocket.ts`, `pages/ChatRoomPage.tsx`, `store/`) | the message list, the token, presence | send with timeout and REST fallback, fetch, load more, switch room | REST and socket |

What makes each of them hard, and what makes it correct:

* **Sessions.** Every handler has several awaits, so a logout, a login and a
  refresh of one user interleave; the maps and the table are updated in
  different segments and neither is atomic with the other; a token string has a
  resolution of one second; the maps die with the process. Correct means: an
  ended session stays ended; the hourly cleanup never revives a token; a rotation
  spends exactly the token it was given and never leaves the user with none.
* **Rooms.** Check-then-insert without constraints (membership, direct rooms),
  permission checks several awaits before the write. Correct: direct rooms keep
  their users, nobody enters a private room uninvited, removals and deletions are final,
  one direct room per pair, writes only by whoever may.
* **Messages.** Edits, deletions and reaction toggles read and write in separate
  statements. Correct: an edit does not follow a deletion it could have seen nor undo
  one, mentions agree with the content, a reaction exists once or not at all.
* **Gateway.** Socket rooms are a cache of the membership table, presence a
  cache of the connections and the process-wide identity map a cache of the rows,
  all updated around awaits. Correct: who receives a room's messages has had a right
  to, presence agrees with the connections, what was broadcast last is the content.
* **Client.** Late answers, timeouts with a second attempt on another channel,
  pages by offset over a growing list, events of handlers that commit in one order and
  broadcast in another. Correct: every message shown once, in its own room, none missing between
  two that are shown; a submission made once, and answered.

## 2. The modules

| module | models | state |
|---|---|---|
| `ServerClock` | the wall clock, in seconds | `now` |
| `TokenBlacklist` | `token-blacklist.service.ts` | `signed`, `blacklist`, `userTokens` |
| `RefreshTokens` | the `refresh_token` table and its statements | `row` |
| `Sessions` | the five session endpoints, running concurrently over the above | `accounts`, `req` |
| `AccessPolicy` | what the endpoints promise about access tokens (abstract) | `now`, `live`, `killed` |
| `MCSessions` | symmetry for TLC | |
| `SessionsClaims` | statements of comments and tests that do not hold | |
| `SessionsProofs` | the theorems about `Sessions` | |
| `RoomTable` | the `room` and `room_user` tables and the queries on them | `room`, `roomUser` |
| `Rooms` | the REST requests that change them, running concurrently | `req`, `hist` |
| `RoomPolicy` | what the room requests promise (abstract) | `room`, `members` |
| `RoomsProofs` | the theorems about `Rooms` | |
| `MCRooms`, `RoomsClaims` | symmetry for TLC; a statement of a test that does not hold | |
| `MessageLog` | what the message table promises (abstract) | `message` |
| `Messages` | the REST requests on messages, mentions and reactions, running concurrently | `mention`, `reaction`, `req`, `hist` |
| `MessagesProofs` | the theorems about `Messages` | |
| `Sockets` | connection and disconnection, channels, presence, the room tables as the gateway sees them | `member`, `open`, `loaded`, `sock`, `presence` |
| `ChatGateway` | the message handlers of `chat.gateway.ts` over `Sockets` and `MessageLog`'s table, REST requests and restarts | `known`, `shown`, `job`, `mixed` |
| `ChatGatewayProofs` | the theorems about `ChatGateway` and `Sockets` | |
| `ChatClient` | a room page with its socket and REST requests, against a server with one log | `log`, `telling`, `joined`, `wire`, `asking`, `page`, `listener`, `fetch`, `sub` |
| `ChatClientProofs`, `ChatClientPageProofs` | the theorems about `ChatClient`; the second one is about the list it shows | |
| `MCMessages`, `MCChatGateway`, `MCChatClient` | symmetry for TLC | |

### Sessions: state and actions

A request occupies a slot `r \in Req`, used once. `req[r]` is the handler's
locals: what it presented (`access`, `old`), what it has obtained (`new`,
`access`), and a program counter that says which await it is at; `ok` and
`failed` say how it was answered. `seenTokens` and `seenRows` are history: what
existed when the request began. They appear in properties and in no guard.

| action | code |
|---|---|
| `StartLogin` | `AuthService.validateUser`, after which the login continues with a snapshot of the user |
| `SignIn` | `login` up to its first await: sign, `blacklistUserTokens`, `setLatestUserToken`, one segment |
| `LoginRevokeAll`, `LoginCreate` | the UPDATE of `revokeAllUserRefreshTokens`; the INSERT of `createRefreshToken` and the answer |
| `StartRefresh` | `RefreshTokenAuthGuard`: an invalid token ends in a 401 |
| `Rotate`, `InsertNew`, `RevokeOld` | `rotateRefreshToken`: second validation, INSERT, UPDATE by primary key |
| `FindUser`, `SignRefreshed` | the rest of `AuthService.refreshTokens` |
| `Authenticate` | `JwtStrategy.validate` in front of logout, password and signout |
| `UpdatePassword`, `DeleteUser` | the flushes of `UsersService.changePassword` and `deleteUser` |
| `LogoutRevokeAll`, `LogoutBlacklist` | `AuthService.logout`: the UPDATE, then the synchronous blacklisting |
| `Fail` | any await rejects; `AnswerToFailure` is what the controller answers |
| `Cleanup`, `ClockTick`, `Restart` | the hourly timer; time; loss of the process with its maps and requests |

Abstractions. A JWT is `[user, iat]`: the string is a function of the payload and
the secret, and the other claims are constant for a user (a changed nickname would make
two tokens of one second differ). A refresh token string is a model value, since it is
a random UUID. `latestUserTokens` is written and never read by a decision. The
guard's checks are one step although `findById` is awaited after `isBlacklisted`:
what a guard lets through is delayed by that await as by any other before it. A
database statement is atomic; one that commits and reports an error (a lost
acknowledgement) is not modelled. Password hashes are not modelled: a wrong password is
one of the outcomes of `Fail`. Cookies are not modelled: a client may present any
token it was ever given. `rotateRefreshToken` re-reads the row by token string,
and MikroORM merges what the query returns into the managed entity, so its
second validation sees the table.

### Rooms: state and actions

Requests are slots as in `Sessions`: `req[r]` holds the kind, the caller, the
target, the room row `getRoomById` loaded (`snap`), the membership row
`updateUserRole` found (`row`) and a program counter. `join` covers joining;
`remove` covers both removal by the owner and leaving, which is a removal of oneself with the
same checks. `seen` and `hist` are history, read by properties only.

| action | code |
|---|---|
| `StartCreate`, `FindDirect`, `InsertRoom` | `create` and `createRoom`: the query for a direct room, then the commit of the transaction |
| `StartOn`, `LoadRoom` | the other handlers up to `getRoomById` and the checks on what it returned (`Refused`) |
| `Access` | `isUserInRoom` or `canUserJoinRoom` for the caller, and the owner checks |
| `Lookup`, `Insert` | `addUserToRoom`: look for a membership, insert one |
| `Remove` | `removeUserFromRoom`: one DELETE of all matching rows |
| `FindRow`, `SetRole` | `updateUserRole`: find a row, UPDATE it by primary key |
| `Write` | the flush of `updateRoom` and `deleteRoom` |
| `Fail` | any await rejects |

Each request has its own entity manager. A second lookup of the room by primary
key is answered by its identity map, so `canUserJoinRoom`, `addUserToRoom`, `updateRoom` and
`deleteRoom` work on `snap`, and a flush writes the columns that differ from what was loaded
(`Written`). A lookup of a membership is a query each time. Ids are
auto-increment, so the id of a deleted row is never given again (`Gone`). Names,
descriptions, images and timestamps are left out; so is the request
that only sets `lastSeenAt`. Users are not deleted while their rooms exist
(foreign keys); a nonexistent target is one of the outcomes of `Fail`.

### Messages: state and actions

Request slots again. `req[r].snap` is the content the request loaded, which its
flush compares with; `dead` is history (the message was deleted when the request
began), as are `hist.mixed`, `hist.raced` and `hist.flipped`.

| action | code |
|---|---|
| `StartCreate`, `FindParent`, `Insert`, `Reload` | `create` and `createReply` over `createMessage`: the parent, the transaction, the reload for the answer |
| `StartOn`, `Load` | `update` and `remove` up to the checks on the row (`Taken`) |
| `Write`, `Unmention`, `SaveMentions`, `Reload` | `updateMessage`: flush, `nativeDelete`, flush, reload; no transaction |
| `Erase` | the flush of `deleteMessage` |
| `Lookup`, `AddReaction`, `RemoveReaction` | `toggleReaction`: find one, then insert or remove |
| `Fail` | any await rejects |

A content is the set of users it mentions: nothing else of it matters to these
tables. Emojis are not told apart (a toggle touches the rows of its own emoji), nor
are repeated mentions of one user in one message. `createMessage` writes message and mentions in one
transaction, so they are one step. `parent` is checked by the service, its room is not:
only the gateway's `reply_message` compares it.

### Sockets and ChatGateway: state and actions

`sock[s]` is a connection: `live` (the transport), `pc` (where `handleConnection` is for it),
its user and its channels. A handler occupies a slot of `job`. `open[i]` says whether an
outsider may join room `i` (public, active and not direct).

| action | code |
|---|---|
| `Connect`, `Authenticate`, `ReadRooms`, `JoinRooms`, `Reject` | `handleConnection`, await by await |
| `Disconnect` | the transport closes and `handleDisconnect` runs, also while `handleConnection` is under way |
| `Admit`, `Expel`, `SetOpen` | REST requests on rooms, one step each: `Rooms` has their steps |
| `StartIn`, `FindRoom`, `CheckMember` | `join_room`, `new_message`, `reply_message` through `canUserJoinRoom` |
| `LastSeen`, `FindParent`, `Create` | what each does then |
| `StartEdit`, `CheckEdit`, `WriteEdit`, `Reload` | `edit_message`: `canEditMessage`, and `updateMessage` |
| `StartReact`, `React` | `react_message`: the lookup of the message's room |
| `Emit`, `Fail` | the broadcast and the acknowledgement; any await rejects |
| `RestPost`, `RestEdit`, `RestDelete`, `Restart` | the environment |

The gateway's queries run on the process-wide entity manager
(`allowGlobalContext`), whose identity map is never cleared. `loaded` and `known` are what it
has of a room and of a message. A lookup by primary key is answered from the map when
there is a copy, unless a relation that was asked for is missing: then the query's
row is merged. `Found` allows both, for which relations are loaded is not modelled.
Memberships are looked up by room and user, which is always a query. REST
requests have an entity manager of their own and do not touch the map; this is why
`canUserJoinRoom` may go on letting outsiders into a room that was made private.

An event whose socket has no user yet makes the handler throw before its first
await and is not modelled. Alerts for mentions and replies, and the reaction
snapshots, change nothing a handler reads; no page renders them.

### ChatClient: state and actions

The page's state is `page` (the room parameter, the list, `loading`, `hasMoreMessages`,
`loadingMore`), the closure of its scroll listener, its `getMessages` requests (`fetch`)
and its submissions (`sub`). Events arrive in `wire` in the order the server
sent them. `Render` is every state update: it reinstalls the scroll listener when one
of its two dependencies changed. On the server's side there is one `log` of messages in the
order they were committed, and `telling`, those whose handler has yet to broadcast them: any of
them may be next.

| action | code |
|---|---|
| `Open` | the effects of a change of the room parameter: join, reset, ask for the first page |
| `ClickOlder`, `ScrollUp` | `loadMoreMessages` by the button and by the listener |
| `Answer`, `ShowFirst`, `ShowOlder`, `FetchFails` | a listing of the server; the continuations and `finally` of the requests |
| `Submit`, `TimeOut`, `HearAck` | `handleSendMessage` over `sendMessage` of `useSocket` |
| `RestCreate`, `RestAnswer`, `RestFails` | its fallback to REST |
| `Post`, `ServeSend`, `PostOverRest` | the commit of a message: of others and of the page itself over a socket, over REST |
| `Broadcast`, `ReloadFails` | what a socket handler does with its message after the commit: the reload, then `new_message` and the acknowledgement, or an error |
| `RefuseSend` | the handler refuses, or fails before the commit |
| `Hear`, `HearRefusal` | `new_message`, and a refused `join_room`, which fetches again |
| `ServeJoin`, `AnswerJoin`, `RefuseJoin` | `join_room`: into the channel, then the answer; a refusal, or an error once the socket has joined (`updateLastSeen` fails) |
| `Drop`, `Reconnect`, `JoinMine` | the connection and its channels |

Messages are their position in the log. `at` is `createdAt`, which the column keeps to the
second and which is set before the transaction commits: `Create` takes any second, also one before
those that are committed, whatever the clock says. A listing is ordered by it and by nothing else, so
`Orders` is the set of all the orders the database may choose, anew for every request, and
`Listing` the set of pages that LIMIT and OFFSET may cut. A message is only ever marked as deleted, which a
listing does not look at: a thread never shrinks. Senders and contents are left out. The page sorts each answer by
the same second, which is one of its orders, and puts its list together without sorting it.

## 3. The runs

| run | specification | instance | shows |
|---|---|---|---|
| `sessions_safety` | `Spec` | 2 users, 3 requests, 3 refresh tokens, access tokens live 1 s, refresh tokens 2 s, clock to 2, schema of the tests | `TypeOK`, `Tracked`, `SessionsEnded`, `RotationSpendsOld`, `NeverStranded`, `NoResurrection`, refinement of `AccessPolicy` |
| `sessions_restart` | `FairCrashSpec` | 1 user, 3 requests, 2 refresh tokens, clock to 1, deployed schema | `RotationSpendsOld`, `NeverStranded` through restarts; `BlacklistDrains` |
| `claim_unique_tokens` | `Spec` | 1 user, 3 requests | counterexample to `LoginTokensUnique` |
| `claim_logout_revokes`, `claim_password_change` | `FairSpec` | 1 user, 3 requests | counterexamples to the other claims |
| `rooms_safety` | `Spec` | 2 users, 1 room, 3 membership ids, 3 requests | `TypeOK`, `DirectRoomsClosed`, `PrivateByInvitation`, `RemovalComplete`, `CreateAnswersItsRoom`, `DeletionIsFinal`, `OwnerGoverns`, refinement of `RoomPolicy` (`PolicySpec`) |
| `claim_direct_room` | `Spec` | 2 users, 2 rooms, 4 membership ids, 2 requests | counterexample to `DirectRoomUnique` |
| `messages_safety` | `Spec` | 2 users, 1 room, 3 messages, 3 contents, 2 reaction ids, 3 requests | `TypeOK`, `MentionsFollowContent`, `ReactionFollowsToggles`, `SenderGoverns`, refinement of `MessageLog` (`LogSpec`) |
| `gateway_safety` | `Spec` | 1 user, 1 room, 2 sockets, 1 message, 2 contents, 2 handlers, 1 REST step or restart | `TypeOK`, `ChannelsByRight`, `PostsByRight`, `PresenceFollowsSockets`, `ShownFollowsContent` |
| `client_page` | `Spec` | 2 rooms, pages of 1, 2 requests at a time, 2 messages of 2 seconds, 1 undelivered event, 2 moves | `InStep` |
| `client_submission` | `FairSpec` | 1 room, pages of 1, 1 request at a time, 1 submission, 2 messages of 1 second, 2 undelivered events, 3 moves | `TypeOK`, `InStep`, `SentOnce`, `SubmissionSettles`, `OlderSettles` |
| `claim_older_page` | `Spec` | 1 room, pages of 1, 2 messages, 2 moves | counterexample to `OlderAreNew` |

*Bounds.* `MaxTime`, the slots in `Req` and the strings in `RefreshToken` are the only
bounds of `Sessions`. Three requests are what a race on one session needs: the login that
opens it and two that compete for it (refresh against logout, refresh against
refresh, login against refresh). With lifetimes of one and two ticks inside the
clock's range every token can be used, expire while a request holds it, and be swept. Two
users show that one user's requests leave the other's alone. Deadlock is not
checked: when every slot is used and the clock has stopped, the server idles.
Symmetry is used by the safety run only; no definition names a slot, a string or
a user.
For `Rooms` the bounds are the slots and the ids. One request creates the room
and two race on it; three ids hold a founder, a second member and one that is
added twice or comes back after a removal. Rooms interact only in `FindDirect`, which the claim
run gives two of. A fourth request or a third user takes TLC beyond five minutes.
For `Messages` one request posts and two race on what it posted, or three make a
thread of three messages; two toggles may insert two rows and a third remove one of them.
For `ChatGateway` the hazards are races of two on one: two sockets of a user, a handler
and a REST step, two edits of one message. The message is posted by one slot and
edited by the other, or posted over REST and edited by both. Larger instances that do not fit
the five minutes together pass one dimension at a time: two users with one handler and two REST steps; three
handlers on one socket; two messages on one socket; two users and three REST steps
with one handler and one content. The proofs cover the rest.
For `ChatClient` a page is of one message and the log of two, so that there is
a first page that is full, an older one, one that overlaps after a post, one that begins within a second, and two handlers whose
broadcasts change places. Two requests at a time are an initial fetch and one that it overtakes or that is for the room that
was left. The rooms are interchangeable (`SYMMETRY`), for the user is a member of neither. `client_submission` gives up the second room, request and second for a submission of the page's own. `MaxMoves` bounds what the user and the network do
(opening a room, loading more, replies, posts over REST, failures, losing the socket).
One submission makes two messages at most, which is what `MaxLog` of `client_submission` has room for.
`Create` is disabled when the log is full, so its fairness never asks for more: a request to post can still
fail, which is one of the ways a submission settles. Larger instances pass one
dimension at a time: one room with three messages, on pages of one and of two; one room with a submission and two seconds
(under `Spec`); two rooms and requests with two undelivered events. Everything at once is beyond five minutes; the proof of `InStep` is for all of them.

*Fairness.* Weak fairness of each request's continuation (Node runs ready
continuations and the database answers), of the clock and of the hourly timer.
No fairness of arriving requests, of failures or of restarts. `BlacklistDrains`
needs the clock and the timer only, and speaks of tokens that expire within `MaxTime`.

`FairSpec` of `ChatClient` assumes that a request ends, one way or the other, and
that a timer fires: axios and the server answer or reject, `setTimeout` runs. No event has to arrive and no
connection has to come back. `SubmissionSettles` and `OlderSettles` need no more: without
the timer of `sendMessage` a lost acknowledgement would hold a submission forever.

*Named exceptions.* Some properties exclude what the code does not handle, by a history
variable that records it where it happens. Each cause is needed: without any one of them TLC finds
the property violated, but for the flush that fails, after which the model does not follow what
the content becomes. For four of the causes of `InStep` that takes a larger instance than the runs have: a commit with an earlier second and a first page
with more to come than it holds need a room with three messages, an older page asked for by the listener of a room that was
left two rooms with three messages and four moves, and an answer over REST in another room two rooms with a submission.

* `MentionsFollowContent`: two edits of a message overlapped, or one failed after its
  first flush (`hist.mixed`). The content of one edit stays with the mentions of the other, of
  both, or of none.
* `ReactionFollowsToggles`: two toggles of one user on one message overlapped
  (`hist.raced`). Nothing in the schema refuses the second row.
* `PresenceFollowsSockets`: a user had two sockets at a time, one went away while it was being
  connected, or the server restarted (`hist.blurred`). Every client of this
  repository has two sockets while a room page is open (`ChatLayout` and `ChatRoomPage` both call `useSocket`), so this
  speaks of other clients only. For this one TLC finds, when two sockets at a time are not excluded, that leaving a room page
  for the profile page shows the user offline.
  A connection lost during `handleConnection` shows the user online for good.
* `ShownFollowsContent`: a message was posted or edited over REST, which broadcasts
  nothing; an edit was written while another broadcast was owed; or a handler failed past its flush or in
  it (`mixed`). In the last case the identity map is left with the content that was refused, and a later
  flush of any handler writes it.
* `InStep`: `disturbed` names the steps after which the list may be wrong until a first page puts it right
  (`Begins`: one that is for this room, that crosses no other listing and that has whatever is still to come). They are:
  a message the page does not hear (posted over REST, broadcast while the socket is not in the channel, not broadcast at all because the
  reload failed, or lost with the connection), unless a listing has it; one it hears between the
  reading and the showing of a first page, which replaces the list without it; one that commits with an earlier second than another of
  the room; a reply, which listings leave out; an older page whose offset does not count what the page has and what is coming to it
  (a stale listener, a post in between), that is of a room that was left, or that begins within a second; the opening of a room; a first page that fails; two listings under way; an
  answer to a REST fallback in another room, or of a message the page has. Every message that reaches the page in another
  order than it was committed in is left in that order: that the list is sorted is not claimed, and not so.

*Observed.* What the models show of the code besides: a deletion may commit between an edit's check of `isDeleted` and its
flush, which then changes a deleted message (`SenderGoverns` permits it); a socket stays in the channel of a room its user has left or
was removed from until it disconnects, though `documents/prd.md:58` says that leaving ends the connection (`ChannelsByRight` permits
it); with the foreign keys of the deployed schema no account that ever logged in can be deleted, which the tests do not see because
they run without (`Restricting`);
the listener of `handleScroll` is installed again when `loadingMore` or
`hasMoreMessages` changes, so in a room with a full first page the first scroll to the top still has
offset 0 and puts the newest page before itself; replies arrive as `new_message` and count for
the offset of the next page, from which listings leave them out; an error after `createMessage` has
committed makes the page post again; nothing is fetched after a reconnect; REST posts, edits and deletions are
never broadcast, while `updateMessage` over the socket is; reaction snapshots can be emitted in the opposite order
of their toggles; an edit over the socket may be judged by a copy older than the deletion of its message; messages
are shown in the order their handlers broadcast, not in the order they were committed, until the room is opened again.

*Findings.* Five statements of the repository are not true of the code.

1. `LoginTokensUnique`: "Add precise timestamp with milliseconds to make each
   token unique" (`auth.service.ts:84`). `iat` is in whole seconds. A second
   login within a second signs the string the first one returned, after putting it on
   the blacklist: both clients hold a token every guard refuses until they log in again.
2. `LogoutRevokesAll`: "ensure all tokens for this user are revoked"
   (`auth.controller.ts:241`). A refresh past its validation inserts its row
   after the logout's UPDATE.
3. `PasswordChangeEndsSession`: "If password change was successful, invalidate all
   tokens" (`auth.controller.ts:117`). The boolean that says the revocation failed is dropped.
4. `DirectRoomUnique`: "Creating a DM room with a user already in a DM returns
   the existing room" (`test/e2e/rooms.e2e-spec.ts:458`). Two requests at the same time both find
   none; nothing in the schema refuses the second.

5. `OlderAreNew`: "Load messages older than the oldest one we have" (`pages/ChatRoomPage.tsx:163`). The offset is
   the length of the list at the render that the caller closed over. TLC's trace is the scroll listener after a full first
   page; a post that commits in between and two messages of one second do the same to the button.

`addUserToRoom` has the same race for memberships, and duplicates are a state the
model reaches: the properties of `Rooms` are stated so as to hold with them.

Two known limits are left as hazards: the maps are lost at a restart (the
service's header says so), and the cleanup never removes a token that expired without
having been blacklisted.

## 4. The proofs

`SessionsProofs` is checked by TLAPS for every value of the constants that satisfies
the named assumptions: `ClockAssumption`, `AccessTTLAssumption` (a positive
lifetime), `RefreshAssumption` and `SessionsAssumption` (the sentinels `NoRow` and `None`
are none of the values they stand beside). The sets of users, slots and strings are
arbitrary, infinite ones included.

| theorem | statement | along |
|---|---|---|
| `TypeCorrect` | `CrashSpec => []TypeOK` | `Base` |
| `RotationSpends` | `CrashSpec => []RotationSpendsOld` | `RotationInv` |
| `RefreshNeverStrands` | `CrashSpec => NeverStranded` | `RotationInv` |
| `TokensTracked` | `Spec => []Tracked` | `EndedInv` |
| `SessionsEnd` | `Spec => []SessionsEnded` | `EndedInv` |
| `DeadTokensStayDead` | `Spec => NoResurrection` | `EndedInv` |
| `ServerImplementsPolicy` | `Spec => PolicySpec` | `PolicyInv` |

* `Base` is `TypeOK` with `Control` (which kinds of request can be at which program
  counter) and `Refers` (which fields of a request are filled there and that the rows
  they name exist). Neither of the others is inductive without it.
* `RotationInv` adds that no row outlives the lifetime counted from now
  (`Lifetimes`) and, at every program counter of a refresh, what is already true of its old and
  new rows (`Rotation`): the replacement exists and lives longer before the old row is revoked.
* `EndedInv` adds `Tracked` and, per program counter, which of the sessions a
  request saw when it began are dead already (`Ended`). `SessionsEnded` by itself is not inductive:
  it says nothing of a login between its blacklisting and its answer.
* `PolicyInv` adds that what is on record was signed, and not in the future (`Recorded`),
  without which a step that tracks a token might not be one the policy allows.

`Spec` is the server between two restarts. The theorems about the maps are stated of
it because a restart falsifies them, the theorems about the table of `CrashSpec`.

`RoomsProofs` proves, under `RoomTableAssumption` and `RoomsAssumption` (again only that
the sentinels are no values), every property of the run `rooms_safety`:

| theorem | statement |
|---|---|
| `RoomsTypeCorrect` | `Spec => []TypeOK` |
| `DirectStaysClosed` | `Spec => []DirectRoomsClosed` |
| `PrivateNeedsInvitation` | `Spec => []PrivateByInvitation` |
| `RemovalIsComplete` | `Spec => []RemovalComplete` |
| `CreateAnswers` | `Spec => []CreateAnswersItsRoom` |
| `DeletionStays` | `Spec => DeletionIsFinal` |
| `OnlyOwnersGovern` | `Spec => OwnerGoverns` |
| `RoomsImplementPolicy` | `Spec => PolicySpec` |

One inductive invariant, `IInv`, carries them. For each request it says which
kinds can be where (`Shape`), what remains true of the room it loaded although the
row may have changed since (`Snapshot`: owner and isDirect never change, and a room that was
open has been open), what its checks still say (`Checked`: the caller is or was
a member, or the room has been open) and what its answer accounts for (`Done`).
`Recorded` ties the history to the tables. A step changes one request; `Bystander`
shows once that the others keep theirs, because whatever any step does to the tables
is an instance of `Evolves`: rooms are not removed, turned direct or given away, a membership
only moves to `Gone`, the history grows.

`RoomPolicy` has no requests and no rows: rooms with a set of members each, of which one user at a time enters or
leaves. The refinement mapping takes for members the users with a row (`MembersOf`), so an
insertion of a second row, a removal of somebody who has none and a change of role are stutters. There is one lemma per
step that writes: `PolicyFound` needs of `Recorded` that no row names the room before it is there, and of `Shape`
that the caller is among the users; `PolicyEnter` needs of `Snapshot` that a room judged not direct is not;
`PolicyChange` that a flush cannot revive a room.

`MessagesProofs` proves, under `MessagesAssumption`, every property of the run `messages_safety`:

| theorem | statement | along |
|---|---|---|
| `MessagesTypeCorrect` | `Spec => []TypeOK` | `Shape` |
| `MentionsAgree` | `Spec => []MentionsFollowContent` | `Mentions` |
| `TogglesAlternate` | `Spec => []ReactionFollowsToggles` | `Reactions` |
| `OnlySendersGovern` | `Spec => SenderGoverns` | `Checked` |
| `ImplementsLog` | `Spec => LogSpec` | `Checked` |

`Checked` says what a request's checks still imply although the row may have
changed: its message exists and is the caller's, its parent is still no reply, and an edit that found
the message not deleted began before the deletion. `Mentions(m)` describes, for a message that
is not mixed, the one edit that may be under way and what it has left of the content and the
mentions at each of its statements; `MentionsFollowContent` alone says nothing between them.
`Reactions(m, u)` does the same for a toggle: what it looked up is still so when it writes.

`ChatGatewayProofs` proves, under `ChatGatewayAssumption`, every property of the run
`gateway_safety`, for any number of users, sockets, handlers and REST steps:

| theorem | statement | along |
|---|---|---|
| `GatewayTypeCorrect` | `Spec => []TypeOK` | `SocketsTyped`, `TableTyped`, `Handler` |
| `ChannelsNeedRights` | `Spec => []ChannelsByRight` | `RoomsRecorded`, `Entitled` |
| `PresenceIsRight` | `Spec => []PresenceFollowsSockets` | `Presence` |
| `BroadcastsFollow` | `Spec => []ShownFollowsContent` | `Broadcast` |
| `PostsNeedRights` | `Spec => PostsByRight` | `RoomsRecorded`, `Handler` |
| `SendersEdit` | `Spec => EditsBySender` | `Handler`, `Checked` |

The invariant has two halves. `SocketsInv` is about the module `Sockets` alone: the history has
every member and every room that is open or that the identity map takes for open; the
rooms `handleConnection` has read and not yet joined are rights already; a user who is not
blurred has one socket, and the socket being connected for it is there. `TableInv` is about the
handlers: whose each is, what it has been let into, and for a message that is not mixed that
the identity map agrees with the table and that one broadcast at most is owed, which will be of
the content. `HandlerKept` and `BroadcastKept` show once that a step of one handler leaves the others'
parts alone, and `SocketsAlone` that connecting leaves the handlers' alone.

`EditsBySender` is in no run: it says something only when there are two users, and `gateway_safety` has one. TLC
finds no violation of it with two users, two sockets, one handler and two REST steps (1.2 million states).

`ChatClientProofs` and `ChatClientPageProofs` prove, under `ChatClientAssumption` (the bounds are numbers, a page has a
message at least, `None` is no room and no submission), the invariants of the runs `client_page` and
`client_submission`, for every number of rooms, requests, submissions, messages and moves:

| theorem | statement | along |
|---|---|---|
| `ClientTypeCorrect` | `Spec => []TypeOK` | `Typed` |
| `ClientSentOnce` | `Spec => []SentOnce` | `Typed`, `AllCounted` |
| `ClientInStep` | `Spec => []InStep` | `Typed`, `AtNewest`, `Undisturbed` |

* `Typed` adds to `TypeOK` that what the socket holds and what is still to be broadcast is in the log, and what a
  submission's record says of its message.
* `AllCounted` accounts for the copies of a submission's message by who made them: the socket, once
  `srv` is past `sent`, and REST, once its request was answered. `SentOnce` alone does not say that a fallback still
  under way has not been counted, nor that an acknowledgement on its way is of a message that was made.
* `AtNewest`: a first page is asked for at offset 0.
* `Undisturbed` says of an undisturbed page what `InStep` does and what it takes to last (`InStepWith`): an older
  page that is under way is for this room and alone but for first pages not yet read; a first page that was read has, with what is still to
  come, the newest messages; an older page that was read shares nothing with what the page has and goes on from it. `InStep` by
  itself is not inductive: it says nothing of an answer between its reading and its showing.
* All of it is said of sets, not of sequences: `Newest(l, S, q, whole)` says that `S` are newest messages of room `q`, and
  all if `whole`, up to the order within a second. `NewerComeLast` (by counting) shows that messages newer than all
  others are the last of every order the database may choose, and `ListingGoesOn` that a page whose offset counts exactly
  those begins where they end. `NewestGrows` and `InStepGrows` are about a commit, whose message is to come or makes
  the page disturbed. Then there is one lemma per way a step touches the page: it gets a message of its own
  room (`PageGetsOne`), is read for (`PageIsRead`), asks (`PageAsks`), shows an answer (`PageShows`), hears
  (`PageHears`), is answered over REST (`PageIsAnswered`), is told or not told (`PageIsTold`), or is left alone (`PageStays`).

Only model-checked: `BlacklistDrains`, `SubmissionSettles` and `OlderSettles`, since liveness under
fairness is out of the prover's reach, and the counterexamples. Every safety property of a run is proved.

## 5. Not modelled, and what is left

Left to do:

1. `Accounts`: registration (a check, then an insert under a unique index) and profile updates.
2. The composition of `ChatClient` with `ChatGateway` in place of the server it assumes now:
   several pages, whose lists are compared.
3. Rooms founded while sockets are connected, as steps of the environment of `Sockets`.

Left out for good, and why:

* Methods of the services no route or handler calls: `create`, `update`, `delete`, `addReaction`, `removeReaction`,
  `addMention`, `countReplies` of `MessagesService`, `revokeRefreshToken`, `removeExpiredTokens`,
  `blacklistToken`. The messages, reactions and presence of `chatStore`, which no page renders.
* Reads that change nothing a decision depends on: room lists and pages, unread
  counts, single messages, replies, profiles.
* Client authentication: the token store is one assignment per answer, and a 401
  reloads the page. Unmounting the page, or logging out, with a submission pending: the continuation
  sets the state of a page that is gone.
* Logging, health, DTO formatting and shared types, page layout, container and proxy configuration, load tests.
