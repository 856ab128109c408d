------------------------------ MODULE Gateway ------------------------------
(***************************************************************************)
(* MessagingGateway and its participant handlers on top of                 *)
(* ConversationService: sockets, the rooms they are in, and the handlers   *)
(* that move them.  A socket joins a room on an access check that was      *)
(* awaited; a removal deletes the rows first and empties the room later.   *)
(***************************************************************************)
EXTENDS Conversations, FiniteSets

CONSTANTS
  Sockets,
  UserOf,             \* the user of each socket
  MaxClientsPerUser

ASSUME UserOfAssumption == UserOf \in [Sockets -> Users]

VARIABLES
  connected,   \* sockets that are connected; clientsPerUser has the same
  pending,     \* the joins each socket is about to make, each a set of
               \* conversations joined in one go
  room,        \* the sockets in the room of each conversation
  kicked,      \* the targets whose sockets a removal has made leave
  crossed      \* users and conversations of which a removal crossed a join
               \* or was broken off; not in the code

gateVars == <<connected, pending, room, kicked, crossed>>
vars == <<convVars, gateVars>>

GateTypeOK ==
  /\ TypeOK
  /\ connected \subseteq Sockets
  /\ pending \in [Sockets -> SUBSET (SUBSET Conversations)]
  /\ room \in [Conversations -> SUBSET Sockets]
  /\ kicked \in [Clients -> SUBSET Users]
  /\ crossed \subseteq Users \X Conversations

GateInit ==
  /\ Init
  /\ connected = {}
  /\ pending = [s \in Sockets |-> {}]
  /\ room = [x \in Conversations |-> {}]
  /\ kicked = [c \in Clients |-> {}]
  /\ crossed = {}

(* The room of a user: all sockets of theirs. *)
SocketsOf(u) == {s \in connected : UserOf[s] = u}

-----------------------------------------------------------------------------
(* Connections. *)

(* handleConnection up to its await: over the limit, the socket is         *)
(* disconnected again in the same step.                                    *)
Connect(s) ==
  /\ s \notin connected
  /\ Cardinality(SocketsOf(UserOf[s])) < MaxClientsPerUser
  /\ connected' = connected \cup {s}
  /\ UNCHANGED <<convVars, pending, room, kicked, crossed>>

(* findByUserId answers handleConnection. *)
ListConversations(s) ==
  /\ s \in connected
  /\ LET listed == {x \in Conversations : HasAccess(UserOf[s], x)} IN
       /\ listed # {}
       /\ pending' = [pending EXCEPT ![s] = @ \cup {listed}]
  /\ UNCHANGED <<convVars, connected, room, kicked, crossed>>

(* MUTATION: the socket joins without a check. *)
JoinAnyConversation(s, x) ==
  /\ s \in connected
  /\ type[x] # "none"
  /\ pending' = [pending EXCEPT ![s] = @ \cup {{x}}]
  /\ UNCHANGED <<convVars, connected, room, kicked, crossed>>

(* joinConversation: access is granted. *)
JoinConversation(s, x) ==
  /\ s \in connected
  /\ HasAccess(UserOf[s], x)
  /\ pending' = [pending EXCEPT ![s] = @ \cup {{x}}]
  /\ UNCHANGED <<convVars, connected, room, kicked, crossed>>

(* The handler goes on and joins the rooms. *)
Join(s, xs) ==
  /\ xs \in pending[s]
  /\ pending' = [pending EXCEPT ![s] = @ \ {xs}]
  /\ room' = [x \in Conversations |-> IF x \in xs THEN room[x] \cup {s} ELSE room[x]]
  /\ UNCHANGED <<convVars, connected, kicked, crossed>>

LeaveConversation(s, x) ==
  /\ s \in room[x]
  /\ room' = [room EXCEPT ![x] = @ \ {s}]
  /\ UNCHANGED <<convVars, connected, pending, kicked, crossed>>

(* handleDisconnect, also after an error of handleConnection.  The socket  *)
(* is in no room any more and joins none.                                  *)
Disconnect(s) ==
  /\ s \in connected
  /\ connected' = connected \ {s}
  /\ pending' = [pending EXCEPT ![s] = {}]
  /\ room' = [x \in Conversations |-> room[x] \ {s}]
  /\ UNCHANGED <<convVars, kicked, crossed>>

-----------------------------------------------------------------------------
(* Participants. *)

(* participantAdded after the service: everyone named joins the room, also *)
(* those who were participants before.  An addition by REST ends without.  *)
AnnounceAdded(c) ==
  /\ request[c].step = "inserted"
  /\ LET x == request[c].conversation IN
       room' = [room EXCEPT ![x] = @ \cup UNION {SocketsOf(u) : u \in request[c].targets}]
  /\ Return(c)
  /\ UNCHANGED <<connected, pending, kicked, crossed>>

AnswerAdded(c) ==
  /\ request[c].step = "inserted"
  /\ Return(c)
  /\ UNCHANGED gateVars

(* participantRemoved, one turn of its loop: fetchSockets is awaited, then *)
(* every socket of the user leaves the room.                               *)
Kick(c, u) ==
  /\ request[c].step = "deleted"
  /\ u \in request[c].targets \ kicked[c]
  /\ LET x == request[c].conversation IN
       room' = [room EXCEPT ![x] = @ \ SocketsOf(u)]
  /\ kicked' = [kicked EXCEPT ![c] = @ \cup {u}]
  /\ UNCHANGED <<convVars, connected, pending, crossed>>

AnswerRemoved(c) ==
  /\ request[c].step = "deleted"
  /\ kicked[c] = request[c].targets
  /\ Return(c)
  /\ kicked' = [kicked EXCEPT ![c] = {}]
  /\ UNCHANGED <<connected, pending, room, crossed>>

(* The rows of the removed users are deleted.  A join that is about to be  *)
(* made, or an addition that found them present and will announce them,    *)
(* comes too late.                                                         *)
Joining(u, x) ==
  \/ \E s \in Sockets : UserOf[s] = u /\ \E xs \in pending[s] : x \in xs
  \/ \E c \in Clients : /\ request[c].step \in {"checkAdd", "insert", "inserted"}
                        /\ request[c].conversation = x
                        /\ u \in request[c].targets

Delete(c) ==
  /\ DeleteParticipants(c)
  /\ LET x == request[c].conversation IN
       crossed' = crossed \cup {p \in Users \X {x} : Joining(p[1], x)
                                                     /\ role'[x][p[1]] # role[x][p[1]]}
  /\ UNCHANGED <<connected, pending, room, kicked>>

(* The handler fails.  If it had deleted rows, its room is not emptied.    *)
HandlerFails(c) ==
  /\ RequestFails(c)
  /\ kicked' = [kicked EXCEPT ![c] = {}]
  /\ crossed' = IF request[c].step = "deleted"
                THEN crossed \cup (request[c].targets \X {request[c].conversation})
                ELSE crossed
  /\ UNCHANGED <<connected, pending, room>>

ServiceStep(c) ==
  /\ ~(request[c].step = "delete")
  /\ Ask(c) \/ Serve(c)
  /\ UNCHANGED gateVars

GateNext ==
  \/ \E c \in Clients :
       \/ ServiceStep(c) \/ Delete(c)
       \/ AnnounceAdded(c) \/ AnswerAdded(c)
       \/ \E u \in Users : Kick(c, u)
       \/ AnswerRemoved(c) \/ HandlerFails(c)
  \/ \E s \in Sockets :
       \/ Connect(s) \/ ListConversations(s) \/ Disconnect(s)
       \/ \E x \in Conversations : JoinConversation(s, x) \/ LeaveConversation(s, x)
       \/ \E xs \in SUBSET Conversations : Join(s, xs)

GateSpec == GateInit /\ [][GateNext]_vars

-----------------------------------------------------------------------------
(* Properties. *)

BeingRemoved(u, x) ==
  \E c \in Clients : /\ request[c].step = "deleted"
                     /\ request[c].conversation = x
                     /\ u \in request[c].targets \ kicked[c]

(* participantRemoved, handleConnection: who hears a conversation.  A      *)
(* socket in its room is connected, and its user is a participant or about *)
(* to be made to leave; unless a removal of that user crossed a join that  *)
(* had been granted before, or broke off.                                  *)
RoomsFollowMembers ==
  \A x \in Conversations : \A s \in room[x] :
    /\ s \in connected
    /\ \/ HasAccess(UserOf[s], x)
       \/ BeingRemoved(UserOf[s], x)
       \/ <<UserOf[s], x>> \in crossed
=============================================================================
