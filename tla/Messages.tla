------------------------------ MODULE Messages ------------------------------
(***************************************************************************)
(* The REST requests on messages, their mentions and reactions             *)
(* (messages/messages.controller.ts over messages/messages.service.ts),    *)
(* running concurrently.  Every await is the end of a step and may reject. *)
(* Nothing here asks who may enter the room: the service does not.         *)
(*                                                                         *)
(* Each request has an entity manager of its own and writes the columns    *)
(* that differ from what it loaded (snap).  Mentions of one user in one    *)
(* message are not told apart, nor are emojis: a toggle touches the rows   *)
(* of its own emoji.                                                       *)
(***************************************************************************)
EXTENDS Naturals

CONSTANTS User, Room, Message, Content, Unused, None,
          ReactionId,   \* message_reaction ids
          Gone,         \* the id of a reaction that was removed
          Req           \* request slots, each used once

Kind == {"create", "update", "delete", "react"}

ASSUME MessagesAssumption ==
  /\ Content \subseteq SUBSET User
  /\ None \notin User \cup Room \cup Message \cup ReactionId
  /\ None \notin Content /\ None \notin Kind
  /\ Unused \notin [room : Room, sender : User, parent : Message \cup {None},
                    content : Content, deleted : BOOLEAN]
  /\ Unused \notin [msg : Message, user : User]
  /\ Gone \notin [msg : Message, user : User] \cup {Unused}

VARIABLES message,    \* Message -> row, or Unused
          mention,    \* Message -> the users the mention table has for it
          reaction,   \* ReactionId -> row, Unused or Gone
          req,        \* the requests, by slot
          hist        \* history, read by properties only

vars == <<message, mention, reaction, req, hist>>

Log == INSTANCE MessageLog

\* MikroORM's cascade is off, so a reaction row is removed by a toggle only.
\* The table has no unique key on (message, user, emoji).
Reaction == [msg : Message, user : User]
Present(k) == reaction[k] \notin {Unused, Gone}
ReactionsOf(m, u) ==
  {k \in ReactionId : Present(k) /\ reaction[k].msg = m /\ reaction[k].user = u}

PC == {"idle", "parent", "insert", "load", "write", "unmention", "mention", "erase",
       "lookup", "add", "remove", "reload", "ok", "failed"}

\* dead is history: the message was deleted already when the request began.
Request ==
  [kind : Kind \cup {None}, pc : PC, caller : User \cup {None}, room : Room \cup {None},
   msg : Message \cup {None}, parent : Message \cup {None}, text : Content \cup {None},
   snap : Content \cup {None}, row : ReactionId \cup {None}, dead : BOOLEAN]

Idle ==
  [kind |-> None, pc |-> "idle", caller |-> None, room |-> None, msg |-> None, parent |-> None,
   text |-> None, snap |-> None, row |-> None, dead |-> FALSE]

\* mixed: messages two edits of which overlapped, or one of which failed after
\* it wrote the content.  raced: pairs of a message and a user whose toggles
\* overlapped.  flipped: pairs toggled an odd number of times.
History ==
  [mixed : SUBSET Message, raced : SUBSET (Message \X User), flipped : SUBSET (Message \X User)]

At(r, pc) == req[r].pc = pc
Of(r, kind) == req[r].kind = kind
Go(r, pc) == req' = [req EXCEPT ![r].pc = pc]

-----------------------------------------------------------------------------
(* POST messages and POST messages/:id/reply *)

\* createMessage looks at the parent first, if one is given.
StartCreate(r, c, i, p, t) ==
  /\ At(r, "idle")
  /\ req' = [req EXCEPT ![r] =
       [Idle EXCEPT !.kind = "create", !.caller = c, !.room = i, !.parent = p, !.text = t,
                    !.pc = IF p = None THEN "insert" ELSE "parent"]]
  /\ UNCHANGED <<message, mention, reaction, hist>>

\* Mutant: the parent only has to exist.
FindParentAny(r) ==
  /\ At(r, "parent")
  /\ Go(r, IF Log!Posted(req[r].parent) THEN "insert" ELSE "failed")
  /\ UNCHANGED <<message, mention, reaction, hist>>

\* The parent exists and is not a reply.  Its room is not looked at.
FindParent(r) ==
  /\ At(r, "parent")
  /\ Go(r, IF Log!Thread(req[r].parent) THEN "insert" ELSE "failed")
  /\ UNCHANGED <<message, mention, reaction, hist>>

\* Mutant: the row has no deletedAt.
NewRowUnmarked(q) == [room |-> q.room, sender |-> q.caller, parent |-> q.parent, content |-> q.text]

NewRow(q) ==
  [room |-> q.room, sender |-> q.caller, parent |-> q.parent, content |-> q.text,
   deleted |-> FALSE]

\* The commit of the transaction: the message and its mentions.
Insert(r, m) ==
  LET q == req[r] IN
  /\ At(r, "insert") /\ ~Log!Posted(m)
  /\ message' = [message EXCEPT ![m] = NewRow(q)]
  /\ mention' = [mention EXCEPT ![m] = q.text]
  /\ req' = [req EXCEPT ![r].pc = "reload", ![r].msg = m]
  /\ UNCHANGED <<reaction, hist>>

\* createMessage and updateMessage read the message again for the answer.
Reload(r) ==
  /\ At(r, "reload")
  /\ Go(r, "ok")
  /\ UNCHANGED <<message, mention, reaction, hist>>

-----------------------------------------------------------------------------
(* PUT and DELETE messages/:id *)

StartOn(r, kind, c, m, t) ==
  /\ At(r, "idle")
  /\ req' = [req EXCEPT ![r] =
       [Idle EXCEPT !.kind = kind, !.caller = c, !.msg = m, !.text = t,
                    !.dead = Log!Posted(m) /\ message[m].deleted,
                    !.pc = IF kind = "react" THEN "lookup" ELSE "load"]]
  /\ UNCHANGED <<message, mention, reaction, hist>>

\* Mutant: an edit does not look at the sender.
TakenFromAnyone(q) ==
  LET row == message[q.msg] IN
  /\ Log!Posted(q.msg)
  /\ q.kind = "update" => ~row.deleted
  /\ q.kind = "delete" => row.sender = q.caller

\* What updateMessage and deleteMessage go on with after loading the row.
Taken(q) ==
  LET row == message[q.msg] IN
  /\ Log!Posted(q.msg)
  /\ row.sender = q.caller
  /\ q.kind = "update" => ~row.deleted

\* Another edit of the message has loaded it and is not through.
EditUnderWay(r, m) ==
  \E s \in Req \ {r} : Of(s, "update") /\ req[s].msg = m /\ req[s].pc \in {"write", "unmention", "mention"}

Load(r) ==
  LET q == req[r] IN
  /\ At(r, "load")
  /\ \/ ~Taken(q) /\ Go(r, "failed") /\ UNCHANGED hist
     \/ /\ Taken(q)
        /\ req' = [req EXCEPT ![r].snap = message[q.msg].content,
                              ![r].pc = IF q.kind = "update" THEN "write" ELSE "erase"]
        /\ hist' = [hist EXCEPT !.mixed =
             IF q.kind = "update" /\ EditUnderWay(r, q.msg) THEN @ \cup {q.msg} ELSE @]
  /\ UNCHANGED <<message, mention, reaction>>

\* Mutant: the flush writes the whole row as it was loaded, which was not deleted.
WrittenWhole(q) == [message[q.msg] EXCEPT !.content = q.text, !.deleted = FALSE]

\* The flush writes the content if it differs from the one loaded.
Written(q) == [message[q.msg] EXCEPT !.content = IF q.text # q.snap THEN q.text ELSE @]

Write(r) ==
  /\ At(r, "write")
  /\ message' = [message EXCEPT ![req[r].msg] = Written(req[r])]
  /\ Go(r, "unmention")
  /\ UNCHANGED <<mention, reaction, hist>>

\* Mutant: the old mentions are left.
UnmentionNothing(r) ==
  /\ At(r, "unmention")
  /\ Go(r, IF req[r].text = {} THEN "reload" ELSE "mention")
  /\ UNCHANGED <<message, mention, reaction, hist>>

\* nativeDelete of the old mentions ...
Unmention(r) ==
  /\ At(r, "unmention")
  /\ mention' = [mention EXCEPT ![req[r].msg] = {}]
  /\ Go(r, IF req[r].text = {} THEN "reload" ELSE "mention")
  /\ UNCHANGED <<message, reaction, hist>>

\* ... and saveMentions of the new ones, in one flush.
SaveMentions(r) ==
  /\ At(r, "mention")
  /\ mention' = [mention EXCEPT ![req[r].msg] = @ \cup req[r].text]
  /\ Go(r, "reload")
  /\ UNCHANGED <<message, reaction, hist>>

\* deleteMessage sets deletedAt, of a deleted message again.
Erase(r) ==
  /\ At(r, "erase")
  /\ message' = [message EXCEPT ![req[r].msg].deleted = TRUE]
  /\ Go(r, "ok")
  /\ UNCHANGED <<mention, reaction, hist>>

-----------------------------------------------------------------------------
(* POST messages/reaction *)

\* Mutant: a toggle only looks for a reaction of the message, whoever's it is.
LookupOfAnyone(r) ==
  LET q == req[r]
      rows == UNION {ReactionsOf(q.msg, u) : u \in User} IN
  /\ At(r, "lookup")
  /\ \/ \E k \in rows : req' = [req EXCEPT ![r].pc = "remove", ![r].row = k]
     \/ rows = {} /\ Go(r, "add")
  /\ UNCHANGED <<message, mention, reaction, hist>>

\* toggleReaction finds the caller's reaction, any one if there are several.
Lookup(r) ==
  LET q == req[r]
      rows == ReactionsOf(q.msg, q.caller)
      overlaps == \E s \in Req \ {r} : /\ req[s].pc \in {"add", "remove"}
                                       /\ req[s].msg = q.msg /\ req[s].caller = q.caller IN
  /\ At(r, "lookup")
  /\ \/ \E k \in rows : req' = [req EXCEPT ![r].pc = "remove", ![r].row = k]
     \/ rows = {} /\ Go(r, "add")
  /\ hist' = [hist EXCEPT !.raced = IF overlaps THEN @ \cup {<<q.msg, q.caller>>} ELSE @]
  /\ UNCHANGED <<message, mention, reaction>>

Flipped(q) ==
  [hist EXCEPT !.flipped = IF <<q.msg, q.caller>> \in @ THEN @ \ {<<q.msg, q.caller>>}
                           ELSE @ \cup {<<q.msg, q.caller>>}]

\* The commit of the insertion, which the foreign key refuses for an id that is
\* not of a message; deleted messages take reactions.
AddReaction(r, k) ==
  LET q == req[r] IN
  /\ At(r, "add") /\ Log!Posted(q.msg) /\ reaction[k] = Unused
  /\ reaction' = [reaction EXCEPT ![k] = [msg |-> q.msg, user |-> q.caller]]
  /\ hist' = Flipped(q)
  /\ Go(r, "ok")
  /\ UNCHANGED <<message, mention>>

\* The commit of the removal, by primary key.
RemoveReaction(r) ==
  /\ At(r, "remove")
  /\ reaction' = [reaction EXCEPT ![req[r].row] = Gone]
  /\ hist' = Flipped(req[r])
  /\ Go(r, "ok")
  /\ UNCHANGED <<message, mention>>

\* Any await may reject, which answers the request.
Fail(r) ==
  LET q == req[r] IN
  /\ q.pc \notin {"idle", "ok", "failed"}
  /\ Go(r, "failed")
  /\ hist' = [hist EXCEPT !.mixed = IF q.pc \in {"unmention", "mention"} THEN @ \cup {q.msg} ELSE @]
  /\ UNCHANGED <<message, mention, reaction>>

-----------------------------------------------------------------------------
Init ==
  /\ message = [m \in Message |-> Unused]
  /\ mention = [m \in Message |-> {}]
  /\ reaction = [k \in ReactionId |-> Unused]
  /\ req = [r \in Req |-> Idle]
  /\ hist = [mixed |-> {}, raced |-> {}, flipped |-> {}]

Start(r) ==
  \E c \in User :
    \/ \E i \in Room, p \in Message \cup {None}, t \in Content : StartCreate(r, c, i, p, t)
    \/ \E m \in Message, t \in Content : StartOn(r, "update", c, m, t)
    \/ \E m \in Message, kind \in {"delete", "react"} : StartOn(r, kind, c, m, None)

Continue(r) ==
  \/ FindParent(r)
  \/ \E m \in Message : Insert(r, m)
  \/ Reload(r) \/ Load(r) \/ Write(r) \/ Unmention(r) \/ SaveMentions(r) \/ Erase(r)
  \/ Lookup(r)
  \/ \E k \in ReactionId : AddReaction(r, k)
  \/ RemoveReaction(r)

Next == \E r \in Req : Start(r) \/ Continue(r) \/ Fail(r)

Spec == Init /\ [][Next]_vars

-----------------------------------------------------------------------------
(* Properties *)

\* Type invariant of the message tables and of the requests on them.
TypeOK ==
  /\ message \in [Message -> Log!MessageRow \cup {Unused}]
  /\ mention \in [Message -> SUBSET User]
  /\ reaction \in [ReactionId -> Reaction \cup {Unused, Gone}]
  /\ req \in [Req -> Request]
  /\ hist \in History

\* updateMessage writes the content, deletes the mentions and inserts new ones
\* in three statements without a transaction: the mention table agrees with the
\* content of every message no edit is under way of, unless two edits of it
\* overlapped or one failed between its statements.
MentionsFollowContent ==
  \A m \in Message :
    /\ Log!Posted(m) /\ m \notin hist.mixed
    /\ \A r \in Req : req[r].msg = m => req[r].pc \notin {"unmention", "mention"}
    => mention[m] = message[m].content

\* toggleReaction reads and then writes: unless two toggles of one user on one
\* message overlapped, there is at most one row, and there is one if and only if
\* the number of toggles committed is odd.
ReactionFollowsToggles ==
  \A m \in Message, u \in User : <<m, u>> \notin hist.raced =>
    /\ \A k, l \in ReactionsOf(m, u) : k = l
    /\ ReactionsOf(m, u) # {} <=> <<m, u>> \in hist.flipped

\* A content is changed only by an edit of the message's sender that began
\* before the message was deleted (a deletion may commit while the edit is
\* between its check of isDeleted and its flush, but one that was answered
\* before cannot be followed by a change), and a message is deleted only on
\* request of its sender.
SenderGoverns ==
  [][\A m \in Message : Log!Posted(m) =>
       /\ message'[m].content # message[m].content =>
            \E r \in Req : /\ req'[r].pc # req[r].pc /\ Of(r, "update") /\ req[r].msg = m
                           /\ req[r].caller = message[m].sender /\ ~req[r].dead
       /\ message'[m].deleted # message[m].deleted =>
            \E r \in Req : /\ req'[r].pc # req[r].pc /\ Of(r, "delete") /\ req[r].msg = m
                           /\ req[r].caller = message[m].sender]_vars

\* The requests together keep the promises of MessageLog: whatever they do at
\* the same time, a thread has one level, a message stays in its room and with
\* its sender, and an edit that races a deletion does not undo it.
LogSpec == Log!Spec
=============================================================================
