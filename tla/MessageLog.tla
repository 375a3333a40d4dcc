----------------------------- MODULE MessageLog -----------------------------
(***************************************************************************)
(* What the message table promises: messages are posted, edited and marked *)
(* deleted, one at a time; a thread has one level; what a message belongs  *)
(* to never changes and a deletion is not undone.                          *)
(*                                                                         *)
(* Of a content only what its user makes of it matters: the users it       *)
(* mentions (Messages), or which one it is (ChatGateway).                  *)
(***************************************************************************)
CONSTANTS User,
          Room,      \* room ids
          Message,   \* message ids, auto-increment, never used twice
          Content,   \* contents; in Messages, the sets of users they mention
          Unused,    \* an id no row has had yet
          None       \* an empty field

VARIABLE message     \* Message -> row, or Unused

MessageRow ==
  [room : Room, sender : User, parent : Message \cup {None}, content : Content, deleted : BOOLEAN]

Posted(m) == message[m] # Unused

\* A message that can be replied to: not itself a reply.
Thread(p) == Posted(p) /\ message[p].parent = None

Post(m, i, u, p, c) ==
  /\ ~Posted(m)
  /\ p # None => Thread(p)
  /\ message' = [message EXCEPT ![m] =
       [room |-> i, sender |-> u, parent |-> p, content |-> c, deleted |-> FALSE]]

Edit(m, c) == Posted(m) /\ message' = [message EXCEPT ![m].content = c]

Delete(m) == Posted(m) /\ message' = [message EXCEPT ![m].deleted = TRUE]

Init == message = [m \in Message |-> Unused]

Next ==
  \E m \in Message :
    \/ \E i \in Room, u \in User, p \in Message \cup {None}, c \in Content : Post(m, i, u, p, c)
    \/ \E c \in Content : Edit(m, c)
    \/ Delete(m)

Spec == Init /\ [][Next]_message
=============================================================================
