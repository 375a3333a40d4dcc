---------------------------- MODULE ChatGateway ----------------------------
(***************************************************************************)
(* The message handlers of gateway/chat.gateway.ts over Sockets and the    *)
(* message table.  Every await is the end of a step and may reject; an     *)
(* emission is part of the step it follows the await in.  What the service *)
(* does between its awaits is in module Messages: here the statement that  *)
(* changes the table is one step, with the checks before it.               *)
(*                                                                         *)
(* Mention and reply alerts are left out; of a reaction only the lookup of *)
(* the message is here, the rows are in module Messages.                   *)
(***************************************************************************)
EXTENDS Sockets

CONSTANTS Message, Content, Unused,
          Job           \* handler invocations, each used once

Kind == {"join", "new", "reply", "edit", "react"}

ASSUME ChatGatewayAssumption ==
  /\ MaxRest \in Nat
  /\ None \notin User \cup Room \cup Socket \cup Message
  /\ None \notin Content /\ None \notin Kind
  /\ None \notin [content : Content, deleted : BOOLEAN]
  /\ None \notin BOOLEAN
  /\ Unused \notin [room : Room, sender : User, parent : Message \cup {None},
                    content : Content, deleted : BOOLEAN]

VARIABLES message,    \* Message -> row, or Unused
          known,      \* Message -> what the identity map has of it, or None
          shown,      \* Message -> the content last broadcast, or None
          job,        \* the handlers, by slot
          mixed       \* history: messages whose broadcasts need not follow

Log == INSTANCE MessageLog

sockets == <<member, open, rest, loaded, sock, presence, hist>>
table == <<message, known, shown, mixed>>
vars == <<sockets, table, job>>

Copy == [content : Content, deleted : BOOLEAN]

PC == {"idle", "room", "member", "seen", "parent", "create", "can", "load", "write", "reload",
       "emit", "react", "ok", "failed"}

JobRow ==
  [kind : Kind \cup {None}, pc : PC, sock : Socket \cup {None}, user : User \cup {None},
   room : Room \cup {None}, msg : Message \cup {None}, parent : Message \cup {None},
   text : Content \cup {None}]

Idle ==
  [kind |-> None, pc |-> "idle", sock |-> None, user |-> None, room |-> None, msg |-> None,
   parent |-> None, text |-> None]

At(h, pc) == job[h].pc = pc
Of(h, kind) == job[h].kind = kind

\* A handler that has ended keeps nothing.
Moved(q, pc) == IF pc \in {"ok", "failed"} THEN [Idle EXCEPT !.pc = pc] ELSE [q EXCEPT !.pc = pc]
Go(h, pc) == job' = [job EXCEPT ![h] = Moved(@, pc)]

\* What a lookup by primary key may answer: the copy in the identity map or,
\* if a relation that was asked for is not loaded, the row.
Found(m) ==
  {[content |-> message[m].content, deleted |-> message[m].deleted]} \cup ({known[m]} \ {None})

\* What the identity map may be after a lookup of m, if there is such a message.
Looked(m) ==
  IF m \in Message /\ Log!Posted(m) THEN {[known EXCEPT ![m] = e] : e \in Found(m)} ELSE {known}

\* Something was written of message m that is still to be broadcast.
Owed(m) == {h \in Job : job[h].msg = m /\ job[h].pc \in {"reload", "emit"}}

-----------------------------------------------------------------------------
(* join_room, new_message, reply_message: the way into the room *)

\* An event of a socket whose user is known; before that the handlers throw.
\* A new message may name a parent too.
StartIn(h, s, kind, i, p, t) ==
  /\ At(h, "idle") /\ sock[s].live /\ sock[s].user # None
  /\ job' = [job EXCEPT ![h] =
       [Idle EXCEPT !.kind = kind, !.pc = "room", !.sock = s, !.user = sock[s].user,
                    !.room = i, !.parent = p, !.text = t]]
  /\ UNCHANGED <<sockets, table>>

\* canUserJoinRoom finds the room, by primary key ...
FindRoom(h) ==
  LET i == job[h].room IN
  /\ At(h, "room")
  /\ loaded' = [loaded EXCEPT ![i] = IF @ = None THEN open[i] ELSE @]
  /\ Go(h, "member")
  /\ UNCHANGED <<roomTables, sock, presence, hist, table>>

\* Mutant: the membership is not looked at for rooms that are known.
EntersIfKnown(u, i) == u \in member[i] \/ loaded[i] # None

\* ... and then the membership, always by a query.
Enters(u, i) == u \in member[i] \/ loaded[i] = TRUE

\* What follows the check; join_room joins the channel at once, be the socket
\* still there or not.
CheckMember(h) ==
  LET q == job[h] IN
  /\ At(h, "member")
  /\ \/ ~Enters(q.user, q.room) /\ Go(h, "failed") /\ UNCHANGED sock
     \/ /\ Enters(q.user, q.room) /\ Of(h, "join") /\ Go(h, "seen")
        /\ sock' = [sock EXCEPT ![q.sock].in = @ \cup {q.room}]
     \/ Enters(q.user, q.room) /\ Of(h, "new") /\ Go(h, "create") /\ UNCHANGED sock
     \/ Enters(q.user, q.room) /\ Of(h, "reply") /\ Go(h, "parent") /\ UNCHANGED sock
  /\ UNCHANGED <<roomTables, loaded, presence, hist, table>>

\* updateLastSeen, and the acknowledgement.
LastSeen(h) ==
  /\ At(h, "seen") /\ Go(h, "ok")
  /\ UNCHANGED <<sockets, table>>

\* reply_message: getMessage finds the parent in the room.
FindParent(h) ==
  LET q == job[h] IN
  /\ At(h, "parent")
  /\ known' \in Looked(q.parent)
  /\ Go(h, IF Log!Posted(q.parent) /\ message[q.parent].room = q.room THEN "create" ELSE "failed")
  /\ UNCHANGED <<sockets, message, shown, mixed>>

\* createMessage looks its parent up and commits, or refuses it (Fail).
Create(h, m) ==
  LET q == job[h] IN
  /\ At(h, "create")
  /\ Log!Post(m, q.room, q.user, q.parent, q.text)
  /\ \E k \in Looked(q.parent) : known' = [k EXCEPT ![m] = [content |-> q.text, deleted |-> FALSE]]
  /\ job' = [job EXCEPT ![h].pc = "emit", ![h].msg = m]
  /\ UNCHANGED <<sockets, shown, mixed>>

-----------------------------------------------------------------------------
(* edit_message *)

StartEdit(h, s, m, t) ==
  /\ At(h, "idle") /\ sock[s].live /\ sock[s].user # None
  /\ job' = [job EXCEPT ![h] =
       [Idle EXCEPT !.kind = "edit", !.pc = "can", !.sock = s, !.user = sock[s].user,
                    !.msg = m, !.text = t]]
  /\ UNCHANGED <<sockets, table>>

\* canEditMessage, and the same checks again in updateMessage.
CheckEdit(h) ==
  LET q == job[h] IN
  /\ q.pc \in {"can", "load"}
  /\ \/ ~Log!Posted(q.msg) /\ Go(h, "failed") /\ UNCHANGED known
     \/ /\ Log!Posted(q.msg)
        /\ \E e \in Found(q.msg) :
             /\ known' = [known EXCEPT ![q.msg] = e]
             /\ Go(h, IF message[q.msg].sender # q.user \/ e.deleted THEN "failed"
                      ELSE IF q.pc = "can" THEN "load" ELSE "write")
  /\ UNCHANGED <<sockets, message, shown, mixed>>

\* The flush of updateMessage writes a content that differs from the copy's.
WriteEdit(h) ==
  LET q == job[h] IN
  /\ At(h, "write")
  /\ message' = [message EXCEPT ![q.msg].content = IF q.text # known[q.msg].content THEN q.text ELSE @]
  /\ known' = [known EXCEPT ![q.msg].content = q.text]
  /\ mixed' = IF Owed(q.msg) # {} THEN mixed \cup {q.msg} ELSE mixed
  /\ Go(h, "reload")
  /\ UNCHANGED <<sockets, shown>>

\* Mutant: the answer is made of the message as it was broadcast before.
ReloadShown(h) ==
  LET q == job[h] IN
  /\ At(h, "reload")
  /\ job' = [job EXCEPT ![h].pc = "emit", ![h].text = IF shown[q.msg] = None THEN @ ELSE shown[q.msg]]
  /\ UNCHANGED <<sockets, table>>

\* updateMessage reads the message for the answer, and counts replies after.
Reload(h) ==
  LET q == job[h] IN
  /\ At(h, "reload")
  /\ \E e \in Found(q.msg) :
       /\ known' = [known EXCEPT ![q.msg] = e]
       /\ job' = [job EXCEPT ![h].pc = "emit", ![h].text = e.content]
  /\ UNCHANGED <<sockets, message, shown, mixed>>

-----------------------------------------------------------------------------
(* react_message *)

\* Nothing asks whether the socket's user may see the message.
StartReact(h, s, m) ==
  /\ At(h, "idle") /\ sock[s].live /\ sock[s].user # None
  /\ job' = [job EXCEPT ![h] =
       [Idle EXCEPT !.kind = "react", !.pc = "react", !.sock = s, !.user = sock[s].user, !.msg = m]]
  /\ UNCHANGED <<sockets, table>>

\* toggleReaction has committed, which it can for a message only, and
\* getMessage finds the room that is told.
React(h) ==
  /\ At(h, "react") /\ Log!Posted(job[h].msg)
  /\ known' \in Looked(job[h].msg)
  /\ Go(h, "ok")
  /\ UNCHANGED <<sockets, message, shown, mixed>>

-----------------------------------------------------------------------------
(* Answers *)

\* new_message or message_updated goes to the channel of the message's room,
\* and the acknowledgement to the sender.
Emit(h) ==
  LET q == job[h] IN
  /\ At(h, "emit")
  /\ shown' = [shown EXCEPT ![q.msg] = q.text]
  /\ Go(h, "ok")
  /\ UNCHANGED <<sockets, message, known, mixed>>

\* The message a job has changed and not broadcast.  What a flush that failed
\* leaves in the identity map is written by a later flush of any handler: from
\* the failure on the content of such a message is anyone's guess, and nothing
\* below looks at it.
Lost(h) == IF job[h].pc \in {"write", "reload", "emit"} THEN {job[h].msg} ELSE {}

\* Any await may reject: an error is acknowledged, nothing is broadcast.  In
\* createMessage the parent may have been looked up by then.
Fail(h) ==
  /\ job[h].pc \notin {"idle", "ok", "failed"}
  /\ Go(h, "failed")
  /\ mixed' = mixed \cup Lost(h)
  /\ known' \in {known} \cup (IF At(h, "create") THEN Looked(job[h].parent) ELSE {})
  /\ UNCHANGED <<sockets, message, shown>>

-----------------------------------------------------------------------------
(* REST requests on messages, and a restart of the server *)

\* MessagesController broadcasts nothing.
RestPost(m, i, u, p, c) ==
  /\ Spend /\ Log!Post(m, i, u, p, c)
  /\ mixed' = mixed \cup {m}
  /\ UNCHANGED <<member, open, loaded, sock, presence, hist, known, shown, job>>

RestEdit(m, c) ==
  /\ Spend /\ Log!Edit(m, c)
  /\ mixed' = mixed \cup {m}
  /\ UNCHANGED <<member, open, loaded, sock, presence, hist, known, shown, job>>

RestDelete(m) ==
  /\ Spend /\ Log!Delete(m)
  /\ UNCHANGED <<member, open, loaded, sock, presence, hist, known, shown, job, mixed>>

\* The process ends and starts again: nobody is told that a socket went away.
Restart ==
  /\ Spend
  /\ sock' = [s \in Socket |->
       IF sock[s].pc = "new" THEN sock[s]
       ELSE [sock[s] EXCEPT !.pc = "done", !.live = FALSE, !.in = {}, !.found = {}]]
  /\ job' = [h \in Job |-> IF At(h, "idle") THEN job[h] ELSE Moved(job[h], "failed")]
  /\ loaded' = [i \in Room |-> None]
  /\ known' = [m \in Message |-> None]
  /\ mixed' = mixed \cup UNION {Lost(h) : h \in Job}
  /\ hist' = [hist EXCEPT !.blurred = @ \cup {u \in User : presence[u] = "online"}]
  /\ UNCHANGED <<member, open, presence, message, shown>>

-----------------------------------------------------------------------------
Init ==
  /\ SocketsInit
  /\ message = [m \in Message |-> Unused]
  /\ known = [m \in Message |-> None]
  /\ shown = [m \in Message |-> None]
  /\ job = [h \in Job |-> Idle]
  /\ mixed = {}

Start(h, s) ==
  \/ \E i \in Room : StartIn(h, s, "join", i, None, None)
  \/ \E i \in Room, t \in Content, p \in Message \cup {None} : StartIn(h, s, "new", i, p, t)
  \/ \E i \in Room, t \in Content, p \in Message : StartIn(h, s, "reply", i, p, t)
  \/ \E m \in Message, t \in Content : StartEdit(h, s, m, t)
  \/ \E m \in Message : StartReact(h, s, m)

Continue(h) ==
  \/ FindRoom(h) \/ CheckMember(h) \/ LastSeen(h) \/ FindParent(h)
  \/ \E m \in Message : Create(h, m)
  \/ CheckEdit(h) \/ WriteEdit(h) \/ Reload(h) \/ Emit(h) \/ React(h)

Rest ==
  \E m \in Message :
    \/ \E i \in Room, u \in User, p \in Message \cup {None}, c \in Content : RestPost(m, i, u, p, c)
    \/ \E c \in Content : RestEdit(m, c)
    \/ RestDelete(m)

Next ==
  \/ SocketsNext /\ UNCHANGED <<table, job>>
  \/ \E h \in Job : (\E s \in Socket : Start(h, s)) \/ Continue(h) \/ Fail(h)
  \/ Rest
  \/ Restart

Spec == Init /\ [][Next]_vars

-----------------------------------------------------------------------------
(* Properties *)

\* Type invariant of the sockets, the channels and the handlers.
TypeOK ==
  /\ member \in [Room -> SUBSET User] /\ open \in [Room -> BOOLEAN]
  /\ loaded \in [Room -> BOOLEAN \cup {None}]
  /\ sock \in [Socket -> Sock]
  /\ presence \in [User -> {"online", "offline"}]
  /\ hist \in SockHistory
  /\ rest \in 0 .. MaxRest
  /\ message \in [Message -> Log!MessageRow \cup {Unused}]
  /\ known \in [Message -> Copy \cup {None}]
  /\ shown \in [Message -> Content \cup {None}]
  /\ job \in [Job -> JobRow] /\ mixed \subseteq Message

\* A connected socket is in the channel of a room only if its user has been a
\* member since the socket was authenticated, or the room has been open: rooms
\* read before an await of handleConnection, checks of join_room that are
\* stale and removals over REST, which no socket hears of, open nothing else,
\* and rights lost before a socket connects give it nothing.
ChannelsByRight ==
  \A s \in Socket : sock[s].live => sock[s].in \subseteq hist.rights[s] \cup hist.opened

\* A message posted over a socket is in a room its sender has been a member of
\* or that has been open, whatever happened since canUserJoinRoom looked.
PostsByRight ==
  [][\A m \in Message :
       ~Log!Posted(m) /\ message'[m] # Unused /\ job' # job =>
         \/ message'[m].sender \in hist.everIn[message'[m].room]
         \/ message'[m].room \in hist.opened]_vars

\* A handler changes the content of a message, and nothing else of it, to what
\* it was asked for, on behalf of the message's sender: whoever the sender was
\* when it was looked up, from the identity map or not, two awaits before the
\* flush.  Of a message in mixed another handler's flush may write a content
\* that was refused before.
EditsBySender ==
  [][\A m \in Message :
       Log!Posted(m) /\ m \notin mixed /\ message'[m] # message[m] /\ job' # job =>
         \E h \in Job :
           /\ At(h, "write") /\ job[h].msg = m /\ job[h].user = message[m].sender
           /\ message'[m] = [message[m] EXCEPT !.content = job[h].text]]_vars

\* user_presence says online of exactly the users with a connected socket, but
\* for those who had two at a time, whose socket went away while
\* handleConnection was under way, or whose server restarted.
PresenceFollowsSockets ==
  \A u \in User : u \notin hist.blurred =>
    (presence[u] = "online" <=>
       \E s \in Socket : sock[s].live /\ sock[s].pc = "done" /\ sock[s].user = u)

\* What was broadcast last of a message is its content, when no broadcast of it
\* is owed: unless it was posted or edited over REST, an edit was written
\* before the broadcast of another was out, or the handler of an edit failed.
ShownFollowsContent ==
  \A m \in Message :
    Log!Posted(m) /\ m \notin mixed /\ Owed(m) = {} => shown[m] = message[m].content
=============================================================================
