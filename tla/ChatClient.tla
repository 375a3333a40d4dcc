----------------------------- MODULE ChatClient -----------------------------
(***************************************************************************)
(* A room page (pages/ChatRoomPage.tsx) with its socket (useSocket) and    *)
(* its REST requests, against a server that keeps one log of messages.     *)
(* The page shows a list it fills from three sources that know nothing of  *)
(* one another: REST pages counted from the newest message, new_message    *)
(* events, and the answers to what it posts itself over REST.              *)
(*                                                                         *)
(* Every state update of the page is followed by a render before the next  *)
(* event: updates after one await are batched.  The page stays mounted; a  *)
(* change of room is a change of its parameter.                            *)
(***************************************************************************)
EXTENDS Naturals, SequencesExt

CONSTANTS Room, Batch,    \* BATCH_SIZE
          Mine,           \* the rooms the user is a member of
          MaxFetch,       \* how many getMessages requests are under way at a time
          Submission,     \* submissions of the form, each used once
          MaxLog,         \* how many messages are ever created
          Second,         \* the seconds they may be stamped with
          MaxWire,        \* how much the socket may hold undelivered
          MaxMoves,       \* how often a room is opened, more asked for, something lost
          None            \* no room, nobody

ASSUME ChatClientAssumption ==
  /\ Batch \in Nat \ {0} /\ MaxLog \in Nat /\ MaxWire \in Nat /\ MaxFetch \in Nat
  /\ MaxMoves \in Nat /\ Second \subseteq Nat /\ Mine \subseteq Room
  /\ None \notin Room \cup Submission

VARIABLES log,        \* the messages committed, in that order
          telling,    \* those of them that a handler has yet to broadcast
          up, joined, \* whether the socket is connected, the channels it is in
          wire,       \* what the server has sent it, in order
          asking,     \* join_room events without an answer
          page,       \* the page's state
          listener,   \* what the scroll listener closes over
          fetch,      \* getMessages requests
          sub,        \* submissions
          moves,      \* how many of MaxMoves were made
          disturbed   \* history: something happened that the page repairs by a first page only

vars == <<log, telling, up, joined, wire, asking, page, listener, fetch, sub, moves, disturbed>>
server == <<log, telling, joined, wire>>

Fetch == 1 .. MaxFetch

Move == moves < MaxMoves /\ moves' = moves + 1

\* reply: it has a parent, by: the submission that made it, if one of ours, at:
\* createdAt, which the column keeps to the second.
Entry == [room : Room, reply : BOOLEAN, by : Submission \cup {None}, at : Second]

Item ==
  [type : {"message"}, id : 1 .. MaxLog] \cup [type : {"refused"}, room : Room]
    \cup [type : {"ack"}, sub : Submission, ok : BOOLEAN]

Page ==
  [room : Room \cup {None}, list : Seq(1 .. MaxLog), loading : BOOLEAN, hasMore : BOOLEAN,
   more : BOOLEAN]

NoFetch == [pc |-> "idle", older |-> FALSE, room |-> None, offset |-> 0, ids |-> <<>>]

\* at is where the page is with a submission, srv where the server is with its
\* new_message, live whether that can still be acknowledged.
\* fell: history, it fell back to REST from the socket.
NewSub == [at |-> "new", srv |-> "none", live |-> FALSE, room |-> None, id |-> 0, fell |-> FALSE]

InFlight == \E f \in Fetch : fetch[f].pc # "idle"

\* What a room's listing is made of: getRoomMessages leaves replies out.
Thread(r) == {i \in DOMAIN log : log[i].room = r /\ ~log[i].reply}

\* Its orders by createdAt alone: of one second the database may choose another
\* for every request.
Orders(r) ==
  {t \in SetToSeqs(Thread(r)) : \A m, n \in DOMAIN t : m < n => log[t[m]].at <= log[t[n]].at}

Smaller(a, b) == IF a < b THEN a ELSE b

\* The Batch newest after the offset newest, sorted oldest first by the page.
Listing(r, offset) ==
  {LET n == Len(t) - Smaller(offset, Len(t)) IN SubSeq(t, n - Smaller(Batch, n) + 1, n) :
     t \in Orders(r)}

\* The messages of the room that will be broadcast, or are on their way to the
\* page, over the socket or as the answer to its own request.
Coming(r) ==
  Thread(r) \cap
    (telling \cup {wire[n].id : n \in {m \in DOMAIN wire : wire[m].type = "message"}}
       \cup {sub[x].id : x \in {y \in Submission : sub[y].at = "answer"}})

\* What the page has of its room, or will have.
Has == ToSet(page.list) \cup Coming(page.room)

Disturb(cond) == disturbed' = (disturbed \/ cond)

\* The effect that installs handleScroll runs again when loadingMore or
\* hasMoreMessages has changed, and only then.
Render(p) ==
  /\ page' = p
  /\ listener' = IF p.more = page.more /\ p.hasMore = page.hasMore THEN listener
                 ELSE [room |-> p.room, offset |-> Len(p.list)]

\* getMessages is called, in the first slot that is free.
Ask(f, older, r, offset) ==
  /\ fetch[f].pc = "idle" /\ \A g \in 1 .. f - 1 : fetch[g].pc # "idle"
  /\ fetch' = [fetch EXCEPT ![f] =
       [NoFetch EXCEPT !.pc = "asked", !.older = older, !.room = r, !.offset = offset]]

-----------------------------------------------------------------------------
(* Opening a room *)

\* The parameter changes: the effects join the channel, reset the list and ask
\* for the newest messages.  The emission is buffered if the socket is down.
Open(f, r) ==
  /\ Move
  /\ r # page.room
  /\ Ask(f, FALSE, r, 0)
  /\ Render([page EXCEPT !.room = r, !.list = <<>>, !.loading = TRUE, !.hasMore = TRUE])
  /\ asking' = asking \cup {r}
  /\ disturbed' = TRUE
  /\ UNCHANGED <<server, up, sub>>

-----------------------------------------------------------------------------
(* Messages over REST *)

\* loadMoreMessages with the room and the length that its closure has.
LoadMore(f, r, offset) ==
  /\ Move
  /\ r # None /\ page.hasMore /\ ~page.more
  /\ Ask(f, TRUE, r, offset)
  /\ Render([page EXCEPT !.more = TRUE])
  /\ Disturb(InFlight \/ r # page.room)
  /\ UNCHANGED <<server, up, asking, sub>>

\* The button, shown above a list, is rendered with the page.
ClickOlder(f) ==
  ~page.loading /\ page.list # <<>> /\ LoadMore(f, page.room, Len(page.list))

\* The scroll listener calls the function of the render that installed it.
ScrollUp(f) == LoadMore(f, listener.room, listener.offset)

\* A first page puts the page in step if it is the only listing under way and
\* has all that is still to come.
Begins(f, ids) ==
  /\ fetch[f].room = page.room /\ \A g \in Fetch \ {f} : fetch[g].pc = "idle"
  /\ Coming(page.room) \subseteq ToSet(ids)

\* An older page goes on from what the page has if its offset counts that, and
\* none of the rest is of the second it begins at.
Continues(f) ==
  /\ fetch[f].offset = Cardinality(Has)
  /\ \A i \in Thread(page.room) \ Has, j \in Has : log[i].at < log[j].at

\* The server reads a page.
Answer(f) ==
  \E ids \in Listing(fetch[f].room, fetch[f].offset) :
    /\ fetch[f].pc = "asked"
    /\ fetch' = [fetch EXCEPT ![f].pc = "answered", ![f].ids = ids]
    /\ disturbed' = IF fetch[f].older THEN disturbed \/ ~Continues(f)
                    ELSE (disturbed /\ ~page.loading) \/ ~Begins(f, ids)
    /\ UNCHANGED <<server, up, asking, page, listener, sub, moves>>

Done(f) == fetch' = [fetch EXCEPT ![f] = NoFetch]

\* The first page replaces the list, whatever the page shows by then.
ShowFirst(f) ==
  LET ids == fetch[f].ids IN
  /\ fetch[f].pc = "answered" /\ ~fetch[f].older
  /\ Render([page EXCEPT !.list = ids, !.loading = FALSE, !.hasMore = Len(ids) >= Batch])
  /\ Done(f)
  /\ UNCHANGED <<server, up, asking, sub, disturbed, moves>>

\* Mutant: an empty answer leaves early.
ShowOlderIfAny(f) ==
  LET ids == fetch[f].ids IN
  /\ fetch[f].pc = "answered" /\ fetch[f].older
  /\ IF ids = <<>> THEN UNCHANGED <<page, listener>>
     ELSE Render([page EXCEPT !.list = ids \o @, !.more = FALSE, !.hasMore = Len(ids) >= Batch])
  /\ Done(f)
  /\ UNCHANGED <<server, up, asking, sub, disturbed, moves>>

\* An older page is put in front of it; an empty one has fewer than Batch.
ShowOlder(f) ==
  LET ids == fetch[f].ids IN
  /\ fetch[f].pc = "answered" /\ fetch[f].older
  /\ Render([page EXCEPT !.list = ids \o @, !.more = FALSE, !.hasMore = Len(ids) >= Batch])
  /\ Done(f)
  /\ UNCHANGED <<server, up, asking, sub, disturbed, moves>>

\* The request fails, or its answer is lost: finally resets the flag.
FetchFails(f) ==
  /\ Move
  /\ fetch[f].pc # "idle"
  /\ Render(IF fetch[f].older THEN [page EXCEPT !.more = FALSE] ELSE [page EXCEPT !.loading = FALSE])
  /\ Done(f)
  /\ Disturb(~fetch[f].older)
  /\ UNCHANGED <<server, up, asking, sub>>

-----------------------------------------------------------------------------
(* Messages of others *)

\* The list is about to be replaced by a first page that was read without it.
Overtaken(id) ==
  \E f \in Fetch : fetch[f].pc = "answered" /\ ~fetch[f].older /\ id \notin ToSet(fetch[f].ids)

\* The page has no other way to hear of a message of room r and needs one.
Misses(r, id) ==
  r = page.room /\ (Overtaken(id) \/ (~page.loading /\ id \notin ToSet(page.list)))

\* The transaction commits.  createdAt is set when the message is built, and the
\* transaction may last: it is any second, also one before those of messages that
\* are committed already, which disturbs the page in the room.  unheard: nothing
\* will tell the page.
Create(r, reply, x, unheard) ==
  \E at \in Second :
    /\ Len(log) < MaxLog
    /\ log' = Append(log, [room |-> r, reply |-> reply, by |-> x, at |-> at])
    /\ Disturb(/\ r = page.room /\ ~reply
               /\ (unheard /\ Misses(r, Len(log) + 1)) \/ \E i \in Thread(r) : log[i].at > at)

Send(items) == Len(wire \o items) <= MaxWire /\ wire' = wire \o items

\* Somebody posts over a socket: the broadcast comes later.
Post(r, reply) ==
  /\ IF reply THEN Move ELSE UNCHANGED moves
  /\ Create(r, reply, None, FALSE) /\ telling' = telling \cup {Len(log) + 1}
  /\ UNCHANGED <<up, joined, wire, asking, page, listener, fetch, sub>>

\* REST broadcasts nothing.
PostOverRest(r) ==
  /\ Move
  /\ Create(r, FALSE, None, TRUE)
  /\ UNCHANGED <<telling, up, joined, wire, asking, page, listener, fetch, sub>>

Ack(x, ok) ==
  IF x # None /\ sub[x].live THEN <<[type |-> "ack", sub |-> x, ok |-> ok]>> ELSE <<>>

\* The handler that made a message is done with it.
Told(id) ==
  /\ id \in telling /\ telling' = telling \ {id}
  /\ sub' = IF log[id].by = None THEN sub ELSE [sub EXCEPT ![log[id].by].srv = "done"]

\* It has loaded the message again, emits new_message to the channel, whoever is
\* in it by now, and acknowledges.
Broadcast(id) ==
  LET e == log[id] IN
  /\ Told(id)
  /\ Send((IF e.room \in joined THEN <<[type |-> "message", id |-> id]>> ELSE <<>>) \o Ack(e.by, TRUE))
  /\ Disturb(~e.reply /\ e.room \notin joined /\ Misses(e.room, id))
  /\ UNCHANGED <<log, up, joined, asking, page, listener, fetch, moves>>

\* It fails to, and answers an error for the message it has made.
ReloadFails(id) ==
  /\ Move
  /\ Told(id)
  /\ Send(Ack(log[id].by, FALSE))
  /\ Disturb(~log[id].reply /\ Misses(log[id].room, id))
  /\ UNCHANGED <<log, up, joined, asking, page, listener, fetch>>

-----------------------------------------------------------------------------
(* Submitting the form *)

\* handleSendMessage emits new_message, with a timer, if the socket is
\* connected, and posts over REST if not.
Submit(x) ==
  /\ Move
  /\ sub[x].at = "new" /\ page.room # None
  /\ sub' = [sub EXCEPT ![x].room = page.room,
                        ![x].at = IF up THEN "socket" ELSE "rest",
                        ![x].srv = IF up THEN "sent" ELSE "none",
                        ![x].live = up]
  /\ UNCHANGED <<server, up, asking, page, listener, fetch, disturbed>>

\* The handler commits the message, which it broadcasts like any other.
ServeSend(x) ==
  /\ sub[x].srv = "sent"
  /\ Create(sub[x].room, FALSE, x, FALSE) /\ telling' = telling \cup {Len(log) + 1}
  /\ sub' = [sub EXCEPT ![x].srv = "made"]
  /\ UNCHANGED <<up, joined, wire, asking, page, listener, fetch, moves>>

\* It refuses, or fails before the commit.
RefuseSend(x) ==
  /\ sub[x].srv = "sent" /\ Send(Ack(x, FALSE))
  /\ sub' = [sub EXCEPT ![x].srv = "done"]
  /\ UNCHANGED <<log, telling, up, joined, asking, page, listener, fetch, disturbed, moves>>

\* Mutant: losing the connection clears the timer.
TimeOutWhileUp(x) ==
  /\ up /\ sub[x].at = "socket"
  /\ sub' = [sub EXCEPT ![x].at = "rest", ![x].fell = TRUE]
  /\ UNCHANGED <<server, up, asking, page, listener, fetch, disturbed, moves>>

\* Five seconds without an acknowledgement, connected or not.
TimeOut(x) ==
  /\ sub[x].at = "socket"
  /\ sub' = [sub EXCEPT ![x].at = "rest", ![x].fell = TRUE]
  /\ UNCHANGED <<server, up, asking, page, listener, fetch, disturbed, moves>>

\* POST /messages creates the message and broadcasts nothing.
RestCreate(x) ==
  /\ sub[x].at = "rest"
  /\ Create(sub[x].room, FALSE, x, FALSE)
  /\ sub' = [sub EXCEPT ![x].at = "answer", ![x].id = Len(log) + 1]
  /\ UNCHANGED <<telling, up, joined, wire, asking, page, listener, fetch, moves>>

\* Mutant: the answer is not added.
AnsweredOnly(id) == page.list

\* The answer is appended, wherever the page is and whatever it has.
Answered(id) == Append(page.list, id)

RestAnswer(x) ==
  LET id == sub[x].id IN
  /\ sub[x].at = "answer"
  /\ Render([page EXCEPT !.list = Answered(id)])
  /\ sub' = [sub EXCEPT ![x].at = "ok"]
  /\ Disturb(IF sub[x].room = page.room THEN Overtaken(id) \/ (~page.loading /\ id \in ToSet(page.list))
             ELSE ~page.loading)
  /\ UNCHANGED <<server, up, asking, fetch, moves>>

\* The request, or its answer, fails: an alert.
RestFails(x) ==
  /\ sub[x].at \in {"rest", "answer"}
  /\ sub' = [sub EXCEPT ![x].at = "failed"]
  /\ Disturb(sub[x].at = "answer" /\ Misses(sub[x].room, sub[x].id))
  /\ UNCHANGED <<server, up, asking, page, listener, fetch, moves>>

-----------------------------------------------------------------------------
(* The socket *)

Received == wire # <<>> /\ wire' = Tail(wire)

\* Mutant: the id is not looked up.
AddAgain(id) == Append(page.list, id)

\* handleNewMessage ignores a message it has.
Add(id) == IF id \in ToSet(page.list) THEN page.list ELSE Append(page.list, id)

Here(id) == log[id].room = page.room

\* A message, to the page in its room, which takes a reply for one of its thread.
Hear ==
  LET id == Head(wire).id IN
  /\ Received /\ Head(wire).type = "message"
  /\ Render(IF Here(id) THEN [page EXCEPT !.list = Add(id)] ELSE page)
  /\ Disturb(Here(id) /\ IF log[id].reply THEN ~page.loading ELSE Overtaken(id))
  /\ UNCHANGED <<log, telling, up, joined, asking, fetch, sub, moves>>

\* join_room was refused: fetchInitialMessages of the render that joined.
HearRefusal(f) ==
  /\ Received /\ Head(wire).type = "refused"
  /\ Ask(f, FALSE, Head(wire).room, 0)
  /\ Render([page EXCEPT !.loading = TRUE])
  /\ UNCHANGED <<log, telling, up, joined, asking, sub, disturbed, moves>>

\* Mutants: an error is taken for a message, or left as it is.
AckedAs(ok) == "ok"
AckedRaw(ok) == IF ok THEN "ok" ELSE "error"

\* Where an acknowledgement, or an error, leaves a submission.
Acked(ok) == IF ok THEN "ok" ELSE "rest"

\* An acknowledgement: too late if the timer was faster.
HearAck ==
  LET x == Head(wire).sub IN
  /\ Received /\ Head(wire).type = "ack"
  /\ sub' = IF sub[x].at # "socket" THEN sub
            ELSE [sub EXCEPT ![x].at = Acked(Head(wire).ok), ![x].fell = Acked(Head(wire).ok) = "rest"]
  /\ UNCHANGED <<log, telling, up, joined, asking, page, listener, fetch, disturbed, moves>>

\* The handler of join_room joins the channel ...
ServeJoin(r) ==
  /\ up /\ r \in asking
  /\ joined' = joined \cup {r}
  /\ UNCHANGED <<log, telling, up, wire, asking, page, listener, fetch, sub, disturbed, moves>>

\* ... and answers, which the page does nothing about, ...
AnswerJoin(r) ==
  /\ up /\ r \in asking \cap joined
  /\ asking' = asking \ {r}
  /\ UNCHANGED <<server, up, page, listener, fetch, sub, disturbed, moves>>

\* ... or refuses, or fails once it has joined.
RefuseJoin(r) ==
  /\ up /\ r \in asking
  /\ asking' = asking \ {r} /\ Send(<<[type |-> "refused", room |-> r]>>)
  /\ UNCHANGED <<log, telling, up, joined, page, listener, fetch, sub, disturbed, moves>>

\* The connection is lost with all that is on it.
Drop ==
  /\ Move
  /\ up /\ up' = FALSE
  /\ joined' = {} /\ wire' = <<>> /\ asking' = {}
  /\ sub' = [x \in Submission |-> [sub[x] EXCEPT !.live = FALSE]]
  /\ Disturb(\E n \in DOMAIN wire :
               /\ wire[n].type = "message" /\ ~log[wire[n].id].reply
               /\ Misses(log[wire[n].id].room, wire[n].id))
  /\ UNCHANGED <<log, telling, page, listener, fetch>>

\* socket.io connects again, which no effect of the page depends on ...
Reconnect ==
  /\ ~up /\ up' = TRUE
  /\ UNCHANGED <<server, asking, page, listener, fetch, sub, disturbed, moves>>

\* ... and handleConnection joins the channels of the user's own rooms.
JoinMine ==
  /\ up /\ joined' = joined \cup Mine
  /\ UNCHANGED <<log, telling, up, wire, asking, page, listener, fetch, sub, disturbed, moves>>

-----------------------------------------------------------------------------
\* The page is mounted at a room, whose messages it asks for, or at none.
Init ==
  \E r \in Room \cup {None} :
    /\ log = <<>> /\ telling = {}
    /\ up = FALSE /\ joined = {} /\ wire = <<>> /\ asking = {r} \ {None}
    /\ page = [room |-> r, list |-> <<>>, loading |-> TRUE, hasMore |-> TRUE, more |-> FALSE]
    /\ listener = [room |-> r, offset |-> 0]
    /\ fetch = [f \in Fetch |-> IF f = 1 /\ r # None THEN [NoFetch EXCEPT !.pc = "asked", !.room = r]
                                ELSE NoFetch]
    /\ sub = [x \in Submission |-> NewSub]
    /\ moves = 0 /\ disturbed = TRUE

Fetching(f) == Answer(f) \/ ShowFirst(f) \/ ShowOlder(f) \/ FetchFails(f)

Resting(x) == RestCreate(x) \/ RestAnswer(x) \/ RestFails(x)

Next ==
  \/ \E f \in Fetch :
       (\E r \in Room : Open(f, r)) \/ ClickOlder(f) \/ ScrollUp(f) \/ Fetching(f) \/ HearRefusal(f)
  \/ \E r \in Room :
       PostOverRest(r) \/ ServeJoin(r) \/ AnswerJoin(r) \/ RefuseJoin(r) \/ \E b \in BOOLEAN : Post(r, b)
  \/ \E id \in telling : Broadcast(id) \/ ReloadFails(id)
  \/ \E x \in Submission : Submit(x) \/ ServeSend(x) \/ RefuseSend(x) \/ TimeOut(x) \/ Resting(x)
  \/ Hear \/ HearAck \/ Drop \/ Reconnect \/ JoinMine

Spec == Init /\ [][Next]_vars

\* A request ends, one way or the other, and a timer fires; nothing else, no
\* event and no reconnection, has to happen.
FairSpec ==
  /\ Spec
  /\ \A f \in Fetch : WF_vars(Fetching(f))
  /\ \A x \in Submission : WF_vars(TimeOut(x)) /\ WF_vars(Resting(x))

-----------------------------------------------------------------------------
(* Properties *)

\* Type invariant of the page, its socket and its requests.
TypeOK ==
  /\ log \in Seq(Entry) /\ Len(log) <= MaxLog /\ telling \subseteq DOMAIN log
  /\ joined \subseteq Room /\ asking \subseteq Room
  /\ up \in BOOLEAN /\ disturbed \in BOOLEAN /\ moves \in 0 .. MaxMoves
  /\ wire \in Seq(Item) /\ Len(wire) <= MaxWire
  /\ page \in Page
  /\ listener \in [room : Room \cup {None}, offset : Nat]
  /\ fetch \in [Fetch -> [pc : {"idle", "asked", "answered"}, older : BOOLEAN,
                          room : Room \cup {None}, offset : Nat, ids : Seq(1 .. MaxLog)]]
  /\ sub \in [Submission -> [at : {"new", "socket", "rest", "answer", "ok", "failed"},
                             srv : {"none", "sent", "made", "done"}, live : BOOLEAN,
                             room : Room \cup {None}, id : 0 .. MaxLog, fell : BOOLEAN]]

\* Once a first page is shown, the page has, with what is still to come, the
\* newest messages of its room: none twice, none of another room, none missing
\* that is newer than one it has, and all of them once there is no more to load.
\* The three sources of the list and their offsets agree on this, in whatever
\* order handlers broadcast, unless something disturbs them until the next first
\* page: a message goes unheard (posted over REST, broadcast while the socket is
\* not in the channel, not at all or onto a connection that is lost) or is heard
\* between the reading and the showing of a first page; one commits with an
\* earlier second than another; a reply is heard; an older page is asked for in
\* another room or with an offset that is out of date, or begins within a second;
\* the room is opened; two listings cross, more is to come than a first page
\* holds, or it fails; the answer to a post over REST finds the page in another
\* room or with the message.
InStep ==
  ~page.loading /\ ~disturbed =>
    /\ IsInjective(page.list)
    /\ Has \subseteq Thread(page.room)
    /\ \A i \in Thread(page.room) \ Has, j \in Has : log[i].at <= log[j].at
    /\ ~page.hasMore => Has = Thread(page.room)

\* loadMoreMessages: "Load messages older than the oldest one we have".  An older
\* page never brings a message that the list has.
OlderAreNew ==
  [][\A f \in Fetch : ShowOlder(f) => ToSet(fetch[f].ids) \cap ToSet(page.list) = {}]_vars

Copies(x) == {i \in DOMAIN log : log[i].by = x}

\* A submission makes one message, or two if it fell back to REST from a socket
\* attempt that went through after all; if it was answered, at least one.
SentOnce ==
  \A x \in Submission :
    /\ Cardinality(Copies(x)) <= IF sub[x].fell THEN 2 ELSE 1
    /\ sub[x].at = "ok" => Copies(x) # {}

\* Every submission is answered or alerted, though acknowledgements may be lost
\* and the socket may never come back.
SubmissionSettles ==
  \A x \in Submission : sub[x].at \in {"socket", "rest"} ~> sub[x].at \in {"ok", "failed"}

\* Older messages are not waited for forever, which would disable loading them.
OlderSettles == page.more ~> ~page.more
=============================================================================
