------------------------------ MODULE Sockets ------------------------------
(***************************************************************************)
(* Connections to the socket gateway (handleConnection, handleDisconnect   *)
(* of gateway/chat.gateway.ts), the channels room:<id> they are in and the *)
(* presence that was last emitted for each user.  A socket that goes away  *)
(* does not stop the handleConnection that awaits on its behalf.           *)
(*                                                                         *)
(* The room tables change under the gateway by REST requests, here one     *)
(* step each (module Rooms has their steps).  The gateway's queries use    *)
(* the process-wide entity manager, whose identity map keeps the room rows *)
(* it has loaded and answers a lookup by primary key from them.            *)
(***************************************************************************)
EXTENDS Naturals

CONSTANTS User, Room,
          Socket,     \* connections, each used once
          MaxRest,    \* how many steps REST requests and restarts may take
          None        \* an empty field

VARIABLES member,     \* Room -> the users with a membership row
          open,       \* Room -> whether an outsider may join
          loaded,     \* Room -> open as the identity map has it, or None
          sock,       \* the connections
          presence,   \* User -> the last user_presence emitted
          rest,       \* how many steps they have taken
          hist        \* history, read by properties only

SockPC == {"new", "auth", "list", "join", "done"}

\* pc is where handleConnection is; in are the channels of the adapter.
Sock ==
  [pc : SockPC, live : BOOLEAN, user : User \cup {None}, in : SUBSET Room, found : SUBSET Room]

\* blurred: users who had two sockets at a time, or one that went away while it
\* was being connected.  everIn: all who have been members, opened: rooms that
\* have been open.  rights: rooms the socket's user has been a member of since
\* it was authenticated.
SockHistory ==
  [blurred : SUBSET User, everIn : [Room -> SUBSET User], opened : SUBSET Room,
   rights : [Socket -> SUBSET Room]]

\* Mutant: the memberships themselves are taken for their rooms.
MembershipsOf(u) == {<<i, u>> : i \in {j \in Room : u \in member[j]}}

RoomsOf(u) == {i \in Room : u \in member[i]}

roomTables == <<member, open, rest>>

Spend == rest < MaxRest /\ rest' = rest + 1
-----------------------------------------------------------------------------
(* Connecting *)

\* A transport is established and handleConnection has found a token.
Connect(s) ==
  /\ sock[s].pc = "new"
  /\ sock' = [sock EXCEPT ![s].pc = "auth", ![s].live = TRUE]
  /\ UNCHANGED <<roomTables, loaded, presence, hist>>

\* Another socket of the user is connected, or this one no longer.
Blurs(s, u) == ~sock[s].live \/ \E t \in Socket \ {s} : sock[t].live /\ sock[t].user = u

\* validateToken has answered with a user.
Authenticate(s, u) ==
  /\ sock[s].pc = "auth"
  /\ sock' = [sock EXCEPT ![s].pc = "list", ![s].user = u]
  /\ hist' = [hist EXCEPT !.rights[s] = RoomsOf(u),
                          !.blurred = IF Blurs(s, u) THEN @ \cup {u} ELSE @]
  /\ UNCHANGED <<roomTables, loaded, presence>>

\* getUserRooms reads the memberships, and the rooms with them ...
ReadRooms(s) ==
  LET found == RoomsOf(sock[s].user) IN
  /\ sock[s].pc = "list"
  /\ sock' = [sock EXCEPT ![s].pc = "join", ![s].found = found]
  /\ loaded' = [i \in Room |-> IF i \in found THEN open[i] ELSE loaded[i]]
  /\ UNCHANGED <<roomTables, presence, hist>>

\* ... and awaits more before the socket joins their channels, connected or not.
JoinRooms(s) ==
  /\ sock[s].pc = "join"
  /\ sock' = [sock EXCEPT ![s].pc = "done", ![s].in = @ \cup sock[s].found, ![s].found = {}]
  /\ presence' = [presence EXCEPT ![sock[s].user] = "online"]
  /\ UNCHANGED <<roomTables, loaded, hist>>

-----------------------------------------------------------------------------
(* Disconnecting *)

\* Mutant: only the rooms the socket was in are told that the user is offline.
DepartedFromRooms(s) ==
  [u \in User |-> IF sock[s].user = u /\ sock[s].in # {} THEN "offline" ELSE presence[u]]

\* handleDisconnect: offline for whoever the socket was.
Departed(s) ==
  [u \in User |-> IF sock[s].user = u THEN "offline" ELSE presence[u]]

\* The transport closes, whoever closes it: the socket leaves its channels and
\* handleDisconnect runs.
Disconnect(s) ==
  /\ sock[s].live
  /\ sock' = [sock EXCEPT ![s].live = FALSE, ![s].in = {}]
  /\ presence' = Departed(s)
  /\ hist' = [hist EXCEPT !.blurred =
       IF sock[s].pc # "done" THEN @ \cup ({sock[s].user} \ {None}) ELSE @]
  /\ UNCHANGED <<roomTables, loaded>>

\* handleConnection ends without a user, or an await of it rejects: it
\* disconnects the socket, if that has not happened.
Reject(s) ==
  /\ sock[s].pc \in {"auth", "list", "join"}
  /\ sock' = [sock EXCEPT ![s].pc = "done", ![s].live = FALSE, ![s].in = {}, ![s].found = {}]
  /\ presence' = IF sock[s].live THEN Departed(s) ELSE presence
  /\ UNCHANGED <<roomTables, loaded, hist>>

-----------------------------------------------------------------------------
(* REST requests on the rooms, as the gateway sees them *)

\* addUserToRoom for a user u.
Admit(i, u) ==
  /\ Spend /\ u \notin member[i]
  /\ member' = [member EXCEPT ![i] = @ \cup {u}]
  /\ hist' = [hist EXCEPT !.everIn[i] = @ \cup {u},
                          !.rights = [s \in Socket |-> IF sock[s].user = u THEN @[s] \cup {i} ELSE @[s]]]
  /\ UNCHANGED <<open, loaded, sock, presence>>

\* removeUserFromRoom tells the gateway nothing.
Expel(i, u) ==
  /\ Spend /\ u \in member[i]
  /\ member' = [member EXCEPT ![i] = @ \ {u}]
  /\ UNCHANGED <<open, loaded, sock, presence, hist>>

\* updateRoom or deleteRoom.
SetOpen(i) ==
  /\ Spend
  /\ open' = [open EXCEPT ![i] = ~@]
  /\ hist' = [hist EXCEPT !.opened = @ \cup {i}]
  /\ UNCHANGED <<member, loaded, sock, presence>>

-----------------------------------------------------------------------------
SocketsInit ==
  /\ member \in [Room -> SUBSET User]
  /\ open \in [Room -> BOOLEAN]
  /\ loaded = [i \in Room |-> None]
  /\ sock = [s \in Socket |-> [pc |-> "new", live |-> FALSE, user |-> None, in |-> {}, found |-> {}]]
  /\ rest = 0
  /\ presence = [u \in User |-> "offline"]
  /\ hist = [blurred |-> {}, everIn |-> member, opened |-> {i \in Room : open[i]},
             rights |-> [s \in Socket |-> {}]]

SocketsNext ==
  \/ \E s \in Socket :
       \/ Connect(s) \/ ReadRooms(s) \/ JoinRooms(s) \/ Disconnect(s) \/ Reject(s)
       \/ \E u \in User : Authenticate(s, u)
  \/ \E i \in Room :
       \/ SetOpen(i)
       \/ \E u \in User : Admit(i, u) \/ Expel(i, u)
=============================================================================
