--------------------------- MODULE GatewayProofs ----------------------------
(***************************************************************************)
(* What holds of Gateway for every set of conversations, users, requests   *)
(* and sockets.                                                            *)
(***************************************************************************)
EXTENDS Gateway, ConversationsProofs

(* The user belongs to the conversation, or a removal crossed.             *)
Granted(u, x) == HasAccess(u, x) \/ <<u, x>> \in crossed

(* The joins that are about to be made were granted.                       *)
PendingInv ==
  \A s \in Sockets : \A xs \in pending[s] : \A x \in xs :
    s \in connected /\ Granted(UserOf[s], x)

(* So were those that an addition will announce: it found them there, or   *)
(* has inserted them.                                                      *)
Adding(r) ==
  /\ r.step \in {"checkAdd", "insert", "inserted"} =>
       \A u \in r.targets : r.found[u] # "none" => Granted(u, r.conversation)
  /\ r.step = "inserted" => \A u \in r.targets : Granted(u, r.conversation)

AddInv == \A c \in Clients : Adding(request[c])

(* A removal deletes rows of its targets only, and has emptied no room     *)
(* before that.                                                            *)
RemoveInv ==
  \A c \in Clients :
    /\ request[c].step = "delete" =>
         \A u \in Users : request[c].found[u] # "none" => u \in request[c].targets
    /\ request[c].step # "deleted" => kicked[c] = {}

GateTypes ==
  /\ connected \subseteq Sockets
  /\ pending \in [Sockets -> SUBSET (SUBSET Conversations)]
  /\ room \in [Conversations -> SUBSET Sockets]
  /\ kicked \in [Clients -> SUBSET Users]
  /\ crossed \subseteq Users \X Conversations

GateInv == GateTypes /\ PendingInv /\ AddInv /\ RemoveInv /\ RoomsFollowMembers

-----------------------------------------------------------------------------
(* The gateway does to the tables what the service does.                   *)
LEMMA GateStepIsConvStep == [GateNext]_vars => [ConvNext]_convVars
<1> SUFFICES ASSUME [GateNext]_vars PROVE ConvNext \/ UNCHANGED convVars
  OBVIOUS
<1>1. ASSUME NEW c \in Clients, ServiceStep(c) \/ Delete(c) PROVE ConvNext
  BY <1>1 DEF ServiceStep, Delete, ConvNext, Serve
<1>2. ASSUME NEW c \in Clients,
             AnnounceAdded(c) \/ AnswerAdded(c) \/ AnswerRemoved(c) \/ HandlerFails(c)
      PROVE  ConvNext
  BY <1>2 DEF AnnounceAdded, AnswerAdded, AnswerRemoved, HandlerFails, ConvNext
<1>3. ASSUME NEW c \in Clients, NEW u \in Users, Kick(c, u) PROVE UNCHANGED convVars
  BY <1>3 DEF Kick
<1>4. ASSUME NEW s \in Sockets,
             \/ Connect(s) \/ ListConversations(s) \/ Disconnect(s)
             \/ \E x \in Conversations : JoinConversation(s, x) \/ LeaveConversation(s, x)
             \/ \E xs \in SUBSET Conversations : Join(s, xs)
      PROVE  UNCHANGED convVars
  BY <1>4 DEF Connect, ListConversations, Disconnect, JoinConversation, LeaveConversation, Join
<1>5. CASE UNCHANGED vars
  BY <1>5 DEF vars
<1> QED
  BY <1>1, <1>2, <1>3, <1>4, <1>5 DEF GateNext

(* What is proved of the conversations holds behind the gateway.           *)
THEOREM GatewayConverses == GateSpec => ConvSpec
<1>1. GateInit => Init
  BY DEF GateInit
<1> QED
  BY <1>1, GateStepIsConvStep, PTL DEF GateSpec, ConvSpec

-----------------------------------------------------------------------------
(* What a step of the service, other than a deletion, does to what the     *)
(* gateway looks at.                                                       *)
Alike(r, q) ==
  /\ r.step = q.step /\ r.conversation = q.conversation
  /\ r.targets = q.targets /\ r.found = q.found

MembersStay ==
  \A x \in Conversations : \A u \in Users : role[x][u] # "none" => role'[x][u] # "none"

OpensSoundly(c) ==
  LET r == request'[c]
      x == r.conversation IN
  /\ r.step \notin {"inserted", "deleted"}
  /\ r.step \in {"checkAdd", "insert"} =>
       \A u \in r.targets : r.found[u] # "none" => role[x][u] # "none" /\ x \in Conversations
  /\ r.step = "delete" => \A u \in Users : r.found[u] # "none" => u \in r.targets

GoesOnSoundly(c) ==
  LET r == request'[c] IN
  /\ r.step \in {"insert", "inserted"} /\ request[c].step \in {"checkAdd", "insert"}
  /\ r.conversation = request[c].conversation /\ r.targets = request[c].targets
  /\ r.found = request[c].found
  /\ r.step = "inserted" =>
       \A u \in r.targets : r.found[u] # "none" \/ role'[r.conversation][u] # "none"

ServiceMoves(c) ==
  /\ request[c].step \notin {"inserted", "deleted"}
  /\ \A d \in Clients \ {c} : Alike(request'[d], request[d])
  /\ MembersStay
  /\ OpensSoundly(c) \/ GoesOnSoundly(c)

(* A step that changes its own request only. *)
LEMMA OwnMove ==
  ASSUME ServiceInv, NEW c \in Clients, NEW q, request' = [request EXCEPT ![c] = q]
  PROVE  request'[c] = q /\ \A d \in Clients \ {c} : Alike(request'[d], request[d])
BY DEF ServiceInv, Alike

LEMMA AskMoves ==
  ASSUME ServiceInv, NEW c \in Clients, Ask(c)
  PROVE  ServiceMoves(c)
<1>1. ASSUME NEW u \in Users, NEW v \in Users, FindDirectChat(c, u, v) PROVE ServiceMoves(c)
  <2> PICK q : q = [Idle EXCEPT !.step = "create", !.type = "direct", !.actor = u,
                           !.targets = {u, v}]
    OBVIOUS
  <2>1. /\ request' = [request EXCEPT ![c] = q] /\ request[c].step = "idle"
        /\ UNCHANGED role /\ q.step = "create"
    BY <1>1 DEF FindDirectChat, Opens, Idle
  <2> QED
    BY <2>1, OwnMove DEF ServiceMoves, MembersStay, OpensSoundly
<1>2. ASSUME NEW u \in Users, NEW us \in SUBSET Users, NEW title \in Names,
             CreateGroupChat(c, u, us, title)
      PROVE  ServiceMoves(c)
  <2> PICK q : q = [Idle EXCEPT !.step = "create", !.type = "group", !.actor = u,
                           !.targets = us \cup {u}, !.newName = title]
    OBVIOUS
  <2>1. /\ request' = [request EXCEPT ![c] = q] /\ request[c].step = "idle"
        /\ UNCHANGED role /\ q.step = "create"
    BY <1>2 DEF CreateGroupChat, Opens, Idle
  <2> QED
    BY <2>1, OwnMove DEF ServiceMoves, MembersStay, OpensSoundly
<1>3. ASSUME NEW step \in {"checkAdd", "checkRemove", "checkSettings"}, NEW x \in Conversations,
             NEW u, NEW us, NEW title, GetConversation(c, step, x, u, us, title)
      PROVE  ServiceMoves(c)
  <2> PICK q : q = [Idle EXCEPT !.step = step, !.type = type[x], !.conversation = x,
                           !.actor = u, !.targets = us, !.found = role[x],
                           !.oldName = name[x], !.newName = title]
    OBVIOUS
  <2>1. /\ request' = [request EXCEPT ![c] = q] /\ request[c].step = "idle"
        /\ UNCHANGED role /\ q.step = step /\ q.conversation = x /\ q.found = role[x]
    BY <1>3 DEF GetConversation, Opens, Idle
  <2> QED
    BY <2>1, OwnMove DEF ServiceMoves, MembersStay, OpensSoundly
<1> QED
  BY <1>1, <1>2, <1>3 DEF Ask, AddParticipants, RemoveParticipants, UpdateSettings

LEMMA ServeMoves ==
  ASSUME ServiceInv, NEW c \in Clients, Serve(c), request[c].step # "delete"
  PROVE  ServiceMoves(c)
<1>0. request[c] \in Request /\ StepSound(request[c]) /\ CopySound(request[c])
  BY RequestFacts DEF Sound
<1>1. ASSUME NEW x \in Conversations, SaveConversation(c, x) PROVE ServiceMoves(c)
  <2> PICK q : q = [request[c] EXCEPT !.step = "fill", !.conversation = x]
    OBVIOUS
  <2>1. /\ request' = [request EXCEPT ![c] = q] /\ request[c].step = "create" /\ UNCHANGED role
    BY <1>1 DEF SaveConversation, ServiceInv
  <2>2. q.step = "fill"
    BY <1>0 DEF Request
  <2> QED
    BY <2>1, <2>2, OwnMove DEF ServiceMoves, MembersStay, OpensSoundly
<1>2. ASSUME SaveParticipants(c) PROVE ServiceMoves(c)
  <2>1. /\ request' = [request EXCEPT ![c] = Idle] /\ request[c].step = "fill"
        /\ \E roles : role' = [role EXCEPT ![request[c].conversation] = roles]
    BY <1>2 DEF SaveParticipants
  <2>2. role[request[c].conversation] = Nobody /\ Idle.step = "idle"
    BY <1>0, <2>1 DEF StepSound, Idle
  <2>3. MembersStay
    BY <2>1, <2>2 DEF MembersStay, Nobody, ServiceInv
  <2> QED
    BY <2>1, <2>2, <2>3, OwnMove DEF ServiceMoves, OpensSoundly
<1>3. ASSUME CheckAdmin(c) \/ CheckSettings(c) PROVE ServiceMoves(c)
  <2>1. PICK step \in {"insert", "find", "save"} :
          /\ request' = [request EXCEPT ![c].step = step] /\ UNCHANGED role
          /\ request[c].step \in {"checkAdd", "checkRemove", "checkSettings"}
          /\ step = "insert" => request[c].step = "checkAdd"
    BY <1>3 DEF CheckAdmin, CheckSettings, Proceeds
  <2> PICK q : q = [request[c] EXCEPT !.step = step]
    OBVIOUS
  <2>2. /\ q.step = step /\ q.conversation = request[c].conversation
        /\ q.targets = request[c].targets /\ q.found = request[c].found
    BY <1>0 DEF Request
  <2>3. request' = [request EXCEPT ![c] = q]
    BY <2>1 DEF ServiceInv
  <2>4. request'[c] = q /\ \A d \in Clients \ {c} : Alike(request'[d], request[d])
    BY <2>3, OwnMove
  <2>5. OpensSoundly(c) \/ GoesOnSoundly(c)
    BY <2>1, <2>2, <2>4 DEF OpensSoundly, GoesOnSoundly
  <2>6. MembersStay
    BY <2>1 DEF MembersStay
  <2> QED
    BY <2>1, <2>4, <2>5, <2>6 DEF ServiceMoves
<1>4. ASSUME InsertParticipants(c) PROVE ServiceMoves(c)
  <2> PICK x : x = request[c].conversation
    OBVIOUS
  <2> PICK new : new = request[c].targets \ Found(c)
    OBVIOUS
  <2> PICK roles : roles = [u \in Users |-> IF u \in new THEN "member" ELSE role[x][u]]
    OBVIOUS
  <2> PICK q : q = [request[c] EXCEPT !.step = "inserted"]
    OBVIOUS
  <2>1. /\ request[c].step = "insert" /\ request' = [request EXCEPT ![c] = q]
        /\ role' = [role EXCEPT ![x] = roles]
    BY <1>4 DEF InsertParticipants, Proceeds, ServiceInv
  <2>2. /\ q.step = "inserted" /\ q.conversation = x
        /\ q.targets = request[c].targets /\ q.found = request[c].found
    BY <1>0 DEF Request
  <2>3. x \in Conversations /\ request[c].targets \subseteq Users
    BY <2>1, <1>0 DEF StepSound, Request
  <2>4. request'[c] = q /\ \A d \in Clients \ {c} : Alike(request'[d], request[d])
    BY <2>1, OwnMove
  <2>5. role'[x] = roles /\ \A y \in Conversations \ {x} : role'[y] = role[y]
    BY <2>1, <2>3 DEF ServiceInv
  <2>6. MembersStay
    BY <2>5 DEF MembersStay
  <2>7. \A u \in request[c].targets : request[c].found[u] # "none" \/ roles[u] # "none"
    BY <2>3 DEF Found
  <2>8. GoesOnSoundly(c)
    BY <2>1, <2>2, <2>4, <2>5, <2>7 DEF GoesOnSoundly
  <2> QED
    BY <2>1, <2>4, <2>6, <2>8 DEF ServiceMoves
<1>5. ASSUME FindParticipants(c) PROVE ServiceMoves(c)
  <2> PICK loaded : loaded = [u \in Users |->
          IF u \in request[c].targets THEN role[request[c].conversation][u] ELSE "none"]
    OBVIOUS
  <2> PICK q : q = [request[c] EXCEPT !.step = "delete", !.gone = {}, !.found = loaded]
    OBVIOUS
  <2>1. /\ request[c].step = "find" /\ request' = [request EXCEPT ![c] = q] /\ UNCHANGED role
    BY <1>5 DEF FindParticipants, ServiceInv
  <2>2. /\ q.step = "delete" /\ q.found = loaded /\ q.targets = request[c].targets
    BY <1>0 DEF Request
  <2>3. \A u \in Users : loaded[u] # "none" => u \in request[c].targets
    OBVIOUS
  <2>4. request'[c] = q /\ \A d \in Clients \ {c} : Alike(request'[d], request[d])
    BY <2>1, OwnMove
  <2>5. OpensSoundly(c)
    BY <2>2, <2>3, <2>4 DEF OpensSoundly
  <2>6. MembersStay
    BY <2>1 DEF MembersStay
  <2> QED
    BY <2>1, <2>4, <2>5, <2>6 DEF ServiceMoves
<1>6. ASSUME NEW hold \in SUBSET Clients, SaveSettings(c, hold) PROVE ServiceMoves(c)
  <2> PICK x : x = request[c].conversation
    OBVIOUS
  <2> PICK roles : roles = [u \in Users |->
          IF u \in request[c].gone THEN request[c].found[u] ELSE role[x][u]]
    OBVIOUS
  <2>1. /\ request[c].step = "save" /\ role' = [role EXCEPT ![x] = roles]
        /\ Members(x) = Found(c) \ request[c].gone
    BY <1>6 DEF SaveSettings
  <2>2. \A u \in request[c].gone : request[c].found[u] = "member"
    BY <2>1, WrittenBackAreMembers
  <2>3. MembersStay
    BY <2>1, <2>2 DEF MembersStay, ServiceInv
  <2>4. request'[c] = Idle
    BY <1>6 DEF SaveSettings
  <2>5. ASSUME NEW d \in Clients \ {c} PROVE Alike(request'[d], request[d])
    <3>1. request[d] \in Request
      BY RequestFacts
    <3> PICK g : g = request[d].gone \ request[c].gone
      OBVIOUS
    <3>2. request'[d] = IF request[d].conversation = x /\ d \in hold
                        THEN [request[d] EXCEPT !.gone = g] ELSE request[d]
      BY <1>6 DEF SaveSettings
    <3> QED
      BY <3>1, <3>2 DEF Alike, Request
  <2>6. OpensSoundly(c)
    BY <2>4 DEF OpensSoundly, Idle
  <2> QED
    BY <2>1, <2>3, <2>5, <2>6 DEF ServiceMoves
<1> QED
  BY <1>1, <1>2, <1>3, <1>4, <1>5, <1>6 DEF Serve, DeleteParticipants

-----------------------------------------------------------------------------
(* Rooms. *)

LEMMA RequestTypes ==
  ASSUME ServiceInv, NEW c \in Clients
  PROVE  /\ request[c].targets \subseteq Users
         /\ request[c].step \notin {"idle", "create"} =>
              request[c].conversation \in Conversations
BY RequestFacts DEF Sound, StepSound

LEMMA ServiceStepRooms ==
  ASSUME ServiceInv, GateInv, NEW c \in Clients, ServiceStep(c)
  PROVE  GateInv'
<1>1. ServiceMoves(c) /\ UNCHANGED gateVars
  BY AskMoves, ServeMoves DEF ServiceStep
<1>2. UNCHANGED <<connected, pending, room, kicked, crossed>>
  BY <1>1 DEF gateVars
<1>3. GateTypes'
  BY <1>2 DEF GateInv, GateTypes
<1>4. ASSUME NEW u \in Users, NEW x \in Conversations, Granted(u, x) PROVE Granted(u, x)'
  BY <1>1, <1>2, <1>4 DEF ServiceMoves, MembersStay, Granted, HasAccess
<1>5. PendingInv'
  BY <1>2, <1>4, UserOfAssumption DEF GateInv, GateTypes, PendingInv
<1>6. ASSUME NEW d \in Clients PROVE Adding(request[d])'
  <2>1. CASE d # c
    <3>1. Alike(request'[d], request[d]) /\ Adding(request[d])
      BY <1>1, <2>1 DEF ServiceMoves, GateInv, AddInv
    <3>2. CASE request[d].step \in {"checkAdd", "insert", "inserted"}
      <4>1. request[d].targets \subseteq Users /\ request[d].conversation \in Conversations
        BY <3>2, RequestTypes
      <4>2. \A u \in request[d].targets : Granted(u, request[d].conversation) =>
                                            Granted(u, request[d].conversation)'
        BY <4>1, <3>1, <1>4 DEF Granted, HasAccess, Alike
      <4> QED
        BY <3>1, <3>2, <4>1, <4>2 DEF Adding, Alike, Granted, HasAccess
    <3> QED
      BY <3>1, <3>2 DEF Adding, Alike
  <2>2. CASE d = c /\ OpensSoundly(c)
    <3> PICK r : r = request'[c]
      OBVIOUS
    <3>1. r.step \in {"checkAdd", "insert"} =>
            \A u \in r.targets : r.found[u] # "none" =>
              role[r.conversation][u] # "none" /\ r.conversation \in Conversations
      BY <2>2 DEF OpensSoundly
    <3>2. r.step # "inserted" /\ r.targets \subseteq Users
      <4>1. ServiceInv'
        BY ServiceInvStays DEF ConvNext, ServiceStep
      <4>2. request' \in [Clients -> Request]
        BY <4>1 DEF ServiceInv
      <4> QED
        BY <2>2, <4>2 DEF OpensSoundly, Request
    <3>3. Adding(r)'
      BY <1>1, <3>1, <3>2 DEF Adding, Granted, HasAccess, ServiceMoves, MembersStay
    <3> QED
      BY <2>2, <3>3
  <2>3. CASE d = c /\ GoesOnSoundly(c)
    <3> PICK r : r = request[c]
      OBVIOUS
    <3> PICK q : q = request'[c]
      OBVIOUS
    <3>1. /\ q.step \in {"insert", "inserted"} /\ r.step \in {"checkAdd", "insert"}
          /\ q.conversation = r.conversation /\ q.targets = r.targets /\ q.found = r.found
          /\ q.step = "inserted" =>
               \A u \in r.targets : r.found[u] # "none" \/ role'[r.conversation][u] # "none"
      BY <2>3 DEF GoesOnSoundly
    <3>2. r.targets \subseteq Users /\ r.conversation \in Conversations
      BY <3>1, RequestTypes
    <3>3. \A u \in r.targets : r.found[u] # "none" => Granted(u, r.conversation)
      BY <3>1 DEF GateInv, AddInv, Adding
    <3>4. \A u \in r.targets : r.found[u] # "none" => Granted(u, r.conversation)'
      BY <1>4, <3>2, <3>3
    <3>5. \A u \in r.targets : role'[r.conversation][u] # "none" => Granted(u, r.conversation)'
      BY DEF Granted, HasAccess
    <3>6. Adding(q)'
      BY <3>1, <3>4, <3>5 DEF Adding
    <3> QED
      BY <2>3, <3>6
  <2> QED
    BY <1>1, <2>1, <2>2, <2>3 DEF ServiceMoves
<1>7. RemoveInv'
  <2> SUFFICES ASSUME NEW d \in Clients
               PROVE  /\ request'[d].step = "delete" =>
                           \A u \in Users : request'[d].found[u] # "none" => u \in request'[d].targets
                      /\ request'[d].step # "deleted" => kicked[d] = {}
    BY <1>2 DEF RemoveInv
  <2>1. CASE d # c
    BY <1>1, <2>1 DEF ServiceMoves, Alike, GateInv, RemoveInv
  <2>2. CASE d = c
    BY <1>1, <2>2 DEF ServiceMoves, OpensSoundly, GoesOnSoundly, GateInv, RemoveInv
  <2> QED
    BY <2>1, <2>2
<1>8. RoomsFollowMembers'
  <2> SUFFICES ASSUME NEW x \in Conversations, NEW s \in room[x]
               PROVE  /\ s \in connected
                      /\ \/ HasAccess(UserOf[s], x)'
                         \/ BeingRemoved(UserOf[s], x)'
                         \/ <<UserOf[s], x>> \in crossed
    BY <1>2 DEF RoomsFollowMembers
  <2> PICK u \in Users : u = UserOf[s]
    BY UserOfAssumption DEF GateInv, GateTypes
  <2>1. /\ s \in connected
        /\ Granted(u, x) \/ BeingRemoved(u, x)
    BY DEF GateInv, RoomsFollowMembers, Granted
  <2>2. Granted(u, x) => Granted(u, x)'
    BY <1>4
  <2>3. BeingRemoved(u, x) => BeingRemoved(u, x)'
    BY <1>1, <1>2 DEF BeingRemoved, ServiceMoves, Alike
  <2> QED
    BY <1>2, <2>1, <2>2, <2>3 DEF Granted, HasAccess, BeingRemoved
<1> QED
  BY <1>3, <1>5, <1>6, <1>7, <1>8 DEF GateInv, AddInv

(* A step that changes no table and no request.                            *)
LEMMA GrantsStand ==
  ASSUME UNCHANGED <<role, request, crossed>>
  PROVE  /\ \A u, x : Granted(u, x)' <=> Granted(u, x)
         /\ \A r : Adding(r) => Adding(r)'
BY DEF Granted, HasAccess, Adding

LEMMA SocketStepRooms ==
  ASSUME ServiceInv, GateInv, NEW s \in Sockets,
         \/ Connect(s) \/ ListConversations(s) \/ Disconnect(s)
         \/ \E x \in Conversations : JoinConversation(s, x) \/ LeaveConversation(s, x)
         \/ \E xs \in SUBSET Conversations : Join(s, xs)
  PROVE  GateInv'
<1>1. UNCHANGED <<type, name, role, request, overlapped, raced, kicked, crossed>>
  BY DEF Connect, ListConversations, Disconnect, JoinConversation, LeaveConversation, Join, convVars
<1>2. /\ AddInv' /\ RemoveInv'
      /\ \A u, x : BeingRemoved(u, x) => BeingRemoved(u, x)'
      /\ \A u, x : Granted(u, x)' <=> Granted(u, x)
  BY <1>1, GrantsStand DEF GateInv, AddInv, RemoveInv, BeingRemoved
<1>3. \A y \in Conversations : \A t \in room[y] :
        t \in connected /\ (Granted(UserOf[t], y) \/ BeingRemoved(UserOf[t], y))
  BY DEF GateInv, RoomsFollowMembers, Granted
<1>4. ASSUME \A y \in Conversations : \A t \in room'[y] :
               t \in connected' /\ (Granted(UserOf[t], y) \/ BeingRemoved(UserOf[t], y)),
             PendingInv', GateTypes'
      PROVE  GateInv'
  <2>1. ASSUME NEW y \in Conversations, NEW t \in room'[y]
        PROVE  /\ t \in connected'
               /\ \/ HasAccess(UserOf[t], y)'
                  \/ BeingRemoved(UserOf[t], y)'
                  \/ (<<UserOf[t], y>> \in crossed)'
    <3>1. Granted(UserOf[t], y) => HasAccess(UserOf[t], y)' \/ (<<UserOf[t], y>> \in crossed)'
      BY <1>1 DEF Granted, HasAccess
    <3>2. BeingRemoved(UserOf[t], y) => BeingRemoved(UserOf[t], y)'
      BY <1>1 DEF BeingRemoved
    <3> QED
      BY <1>4, <2>1, <3>1, <3>2
  <2>2. RoomsFollowMembers'
    BY <2>1 DEF RoomsFollowMembers
  <2> QED
    BY <1>2, <1>4, <2>2 DEF GateInv
<1>5. CASE Connect(s)
  <2>1. connected' = connected \cup {s} /\ UNCHANGED <<pending, room, kicked, crossed>>
    BY <1>5 DEF Connect
  <2>2. PendingInv'
    BY <1>2, <2>1 DEF GateInv, PendingInv
  <2>3. GateTypes'
    BY <2>1 DEF GateInv, GateTypes
  <2> QED
    BY <1>3, <1>4, <2>1, <2>2, <2>3
<1>6. ASSUME NEW xs \in SUBSET Conversations, s \in connected,
             \A x \in xs : HasAccess(UserOf[s], x),
             pending' = [pending EXCEPT ![s] = @ \cup {xs}],
             UNCHANGED <<connected, room, kicked, crossed>>
      PROVE  GateInv'
  <2>1. GateTypes'
    BY <1>6 DEF GateInv, GateTypes
  <2>2. \A t \in Sockets : pending'[t] = IF t = s THEN pending[t] \cup {xs} ELSE pending[t]
    BY <1>6 DEF GateInv, GateTypes
  <2>3. PendingInv'
    BY <1>2, <1>6, <2>2 DEF GateInv, PendingInv, Granted
  <2> QED
    BY <1>3, <1>4, <1>6, <2>1, <2>3
<1>7. CASE ListConversations(s)
  <2> PICK xs : xs = {x \in Conversations : HasAccess(UserOf[s], x)}
    OBVIOUS
  <2>1. /\ s \in connected /\ pending' = [pending EXCEPT ![s] = @ \cup {xs}]
        /\ UNCHANGED <<connected, room, kicked, crossed>>
    BY <1>7 DEF ListConversations
  <2>2. xs \in SUBSET Conversations /\ \A x \in xs : HasAccess(UserOf[s], x)
    OBVIOUS
  <2> QED
    BY <1>6, <2>1, <2>2
<1>8. ASSUME NEW x \in Conversations, JoinConversation(s, x) PROVE GateInv'
  <2>1. /\ s \in connected /\ pending' = [pending EXCEPT ![s] = @ \cup {{x}}]
        /\ HasAccess(UserOf[s], x)
        /\ UNCHANGED <<connected, room, kicked, crossed>>
    BY <1>8 DEF JoinConversation
  <2> PICK xs \in SUBSET Conversations : xs = {x}
    BY <1>8
  <2> QED
    BY <1>6, <2>1
<1>9. ASSUME NEW xs \in SUBSET Conversations, Join(s, xs) PROVE GateInv'
  <2>1. /\ xs \in pending[s] /\ pending' = [pending EXCEPT ![s] = @ \ {xs}]
        /\ room' = [x \in Conversations |-> IF x \in xs THEN room[x] \cup {s} ELSE room[x]]
        /\ UNCHANGED <<connected, kicked, crossed>>
    BY <1>9 DEF Join
  <2>2. GateTypes'
    BY <2>1 DEF GateInv, GateTypes
  <2>3. \A t \in Sockets : pending'[t] \subseteq pending[t]
    BY <2>1 DEF GateInv, GateTypes
  <2>4. PendingInv'
    BY <1>2, <2>1, <2>3 DEF GateInv, PendingInv
  <2>5. \A x \in xs : s \in connected /\ Granted(UserOf[s], x)
    BY <2>1 DEF GateInv, PendingInv
  <2> QED
    BY <1>3, <1>4, <2>1, <2>2, <2>4, <2>5
<1>10. ASSUME NEW x \in Conversations, LeaveConversation(s, x) PROVE GateInv'
  <2>1. /\ room' = [room EXCEPT ![x] = @ \ {s}]
        /\ UNCHANGED <<connected, pending, kicked, crossed>>
    BY <1>10 DEF LeaveConversation
  <2>2. GateTypes'
    BY <2>1 DEF GateInv, GateTypes
  <2>3. \A y \in Conversations : room'[y] \subseteq room[y]
    BY <2>1 DEF GateInv, GateTypes
  <2>4. PendingInv'
    BY <1>2, <2>1 DEF GateInv, PendingInv
  <2> QED
    BY <1>3, <1>4, <2>1, <2>2, <2>3, <2>4
<1>11. CASE Disconnect(s)
  <2>1. /\ connected' = connected \ {s} /\ pending' = [pending EXCEPT ![s] = {}]
        /\ room' = [x \in Conversations |-> room[x] \ {s}] /\ UNCHANGED <<kicked, crossed>>
    BY <1>11 DEF Disconnect
  <2>2. GateTypes'
    BY <2>1 DEF GateInv, GateTypes
  <2>3. \A t \in Sockets : pending'[t] = IF t = s THEN {} ELSE pending[t]
    BY <2>1 DEF GateInv, GateTypes
  <2>4. PendingInv'
    BY <1>2, <2>1, <2>3 DEF GateInv, PendingInv
  <2> QED
    BY <1>3, <1>4, <2>1, <2>2, <2>4
<1> QED
  BY <1>5, <1>7, <1>8, <1>9, <1>10, <1>11

LEMMA DeleteRooms ==
  ASSUME ServiceInv, GateInv, NEW c \in Clients, Delete(c)
  PROVE  GateInv'
<1> PICK x : x = request[c].conversation
  OBVIOUS
<1> PICK removed : removed = Found(c) \ request[c].gone
  OBVIOUS
<1>1. /\ request[c].step = "delete" /\ UNCHANGED <<connected, pending, room, kicked>>
      /\ role' = [role EXCEPT ![x] = [u \in Users |-> IF u \in removed THEN "none" ELSE role[x][u]]]
      /\ crossed' = crossed \cup {p \in Users \X {x} : Joining(p[1], x)
                                                       /\ role'[x][p[1]] # role[x][p[1]]}
  BY DEF Delete, DeleteParticipants
<1>2. x \in Conversations /\ \A u \in removed : u \in request[c].targets /\ role[x][u] = "member"
  <2>1. x \in Conversations /\ \A u \in removed : role[x][u] = "member"
    BY <1>1, RemovedAreMembers
  <2>2. \A u \in removed : u \in request[c].targets
    BY <1>1 DEF GateInv, RemoveInv, Found
  <2> QED
    BY <2>1, <2>2
<1>3. /\ \A y \in Conversations \ {x} : role'[y] = role[y]
      /\ \A u \in Users : role'[x][u] = IF u \in removed THEN "none" ELSE role[x][u]
  BY <1>1, <1>2 DEF ServiceInv
<1>4. /\ request'[c].step = "deleted" /\ request'[c].conversation = x
      /\ request'[c].targets = request[c].targets
      /\ \A d \in Clients \ {c} : Alike(request'[d], request[d])
  <2>1. request'[c] = [request[c] EXCEPT !.step = "deleted"]
    BY DEF Delete, DeleteParticipants
  <2>2. request[c] \in Request
    BY RequestFacts
  <2>3. ASSUME NEW d \in Clients \ {c} PROVE Alike(request'[d], request[d])
    <3>1. request[d] \in Request
      BY RequestFacts
    <3> PICK g : g = request[d].gone \cup (removed \cap Found(d))
      OBVIOUS
    <3>2. request'[d] = IF request[d].conversation = x
                        THEN [request[d] EXCEPT !.gone = g] ELSE request[d]
      BY DEF Delete, DeleteParticipants
    <3> QED
      BY <3>1, <3>2 DEF Alike, Request
  <2> QED
    BY <2>1, <2>2, <2>3 DEF Request
<1>5. GateTypes'
  BY <1>1, <1>2 DEF GateInv, GateTypes
<1>6. ASSUME NEW u \in Users, NEW y \in Conversations, Granted(u, y), y # x \/ Joining(u, x)
      PROVE  Granted(u, y)'
  <2>1. CASE y # x
    BY <1>1, <1>3, <1>6, <2>1 DEF Granted, HasAccess
  <2>2. CASE y = x /\ Joining(u, x)
    <3>1. role'[x][u] # role[x][u] => <<u, x>> \in crossed'
      BY <1>1, <2>2
    <3>2. role'[x][u] # "none" \/ <<u, x>> \in crossed'
      BY <1>1, <1>6, <2>2, <3>1 DEF Granted, HasAccess
    <3> QED
      BY <2>2, <3>2 DEF Granted, HasAccess
  <2> QED
    BY <1>6, <2>1, <2>2
<1>7. PendingInv'
  <2> SUFFICES ASSUME NEW s \in Sockets, NEW xs \in pending[s], NEW y \in xs
               PROVE  s \in connected /\ Granted(UserOf[s], y)'
    BY <1>1 DEF PendingInv
  <2>1. s \in connected /\ Granted(UserOf[s], y) /\ y \in Conversations /\ UserOf[s] \in Users
    BY UserOfAssumption DEF GateInv, PendingInv, GateTypes
  <2>2. y = x => Joining(UserOf[s], x)
    BY DEF Joining
  <2> PICK u \in Users : u = UserOf[s]
    BY <2>1
  <2>3. Granted(u, y)'
    BY <1>6, <2>1, <2>2
  <2> QED
    BY <2>1, <2>3
<1>8. ASSUME NEW d \in Clients PROVE Adding(request[d])'
  <2> PICK r : r = request[d]
    OBVIOUS
  <2> PICK q : q = request'[d]
    OBVIOUS
  <2>1. CASE d = c
    BY <1>4, <2>1 DEF Adding
  <2>2. CASE d # c /\ r.step \notin {"checkAdd", "insert", "inserted"}
    BY <1>4, <2>2 DEF Adding, Alike
  <2>3. CASE d # c /\ r.step \in {"checkAdd", "insert", "inserted"}
    <3>1. r.targets \subseteq Users /\ r.conversation \in Conversations
      BY <2>3, RequestTypes
    <3>2. r.conversation = x => \A u \in r.targets : Joining(u, x)
      BY <2>3 DEF Joining
    <3>3. \A u \in r.targets : Granted(u, r.conversation) => Granted(u, r.conversation)'
      BY <1>6, <3>1, <3>2
    <3>4. Adding(r)
      BY DEF GateInv, AddInv
    <3>5. Adding(r)'
      BY <3>3, <3>4 DEF Adding
    <3>6. Adding(q)'
      BY <1>4, <2>3, <3>5 DEF Adding, Alike
    <3> QED
      BY <3>6
  <2> QED
    BY <2>1, <2>2, <2>3
<1>9. RemoveInv'
  <2> SUFFICES ASSUME NEW d \in Clients
               PROVE  /\ request'[d].step = "delete" =>
                           \A u \in Users : request'[d].found[u] # "none" => u \in request'[d].targets
                      /\ request'[d].step # "deleted" => kicked[d] = {}
    BY <1>1 DEF RemoveInv
  <2> QED
    BY <1>4 DEF Alike, GateInv, RemoveInv
<1>10. RoomsFollowMembers'
  <2> SUFFICES ASSUME NEW y \in Conversations, NEW s \in room[y]
               PROVE  /\ s \in connected
                      /\ \/ HasAccess(UserOf[s], y)'
                         \/ BeingRemoved(UserOf[s], y)'
                         \/ <<UserOf[s], y>> \in crossed'
    BY <1>1 DEF RoomsFollowMembers
  <2> PICK u \in Users : u = UserOf[s]
    BY UserOfAssumption DEF GateInv, GateTypes
  <2>1. /\ s \in connected
        /\ HasAccess(u, y) \/ BeingRemoved(u, y) \/ <<u, y>> \in crossed
    BY DEF GateInv, RoomsFollowMembers
  <2>2. BeingRemoved(u, y) => BeingRemoved(u, y)'
    BY <1>1, <1>4 DEF BeingRemoved, Alike
  <2>3. HasAccess(u, y) => HasAccess(u, y)' \/ BeingRemoved(u, y)'
    <3>1. CASE y = x /\ u \in removed
      <4>1. kicked[c] = {} /\ u \in request[c].targets
        BY <1>1, <1>2, <3>1 DEF GateInv, RemoveInv
      <4> QED
        BY <1>1, <1>4, <3>1, <4>1 DEF BeingRemoved
    <3>2. CASE ~(y = x /\ u \in removed)
      BY <1>3, <3>2 DEF HasAccess
    <3> QED
      BY <3>1, <3>2
  <2> QED
    BY <1>1, <2>1, <2>2, <2>3 DEF HasAccess, BeingRemoved
<1> QED
  BY <1>5, <1>7, <1>8, <1>9, <1>10 DEF GateInv, AddInv

(* A request ends, after its room has been seen to. *)
LEMMA EndRooms ==
  ASSUME ServiceInv, GateInv, NEW c \in Clients,
         request' = [request EXCEPT ![c] = Idle], UNCHANGED <<type, name, role, connected, pending>>,
         crossed \subseteq crossed', GateTypes',
         kicked'[c] = {}, \A d \in Clients \ {c} : kicked'[d] = kicked[d],
         \A x \in Conversations : \A s \in room'[x] :
           /\ s \in connected
           /\ \/ HasAccess(UserOf[s], x) \/ <<UserOf[s], x>> \in crossed'
              \/ \E d \in Clients \ {c} : /\ request[d].step = "deleted"
                                          /\ request[d].conversation = x
                                          /\ UserOf[s] \in request[d].targets \ kicked[d]
  PROVE  GateInv'
<1>1. \A d \in Clients : request'[d] = IF d = c THEN Idle ELSE request[d]
  BY DEF ServiceInv
<1>2. Idle.step = "idle"
  BY DEF Idle
<1>3. \A u, x : Granted(u, x) => Granted(u, x)'
  BY DEF Granted, HasAccess
<1>4. PendingInv'
  BY <1>3 DEF GateInv, PendingInv
<1>5. ASSUME NEW d \in Clients PROVE Adding(request[d])'
  <2> PICK r : r = request[d]
    OBVIOUS
  <2>1. CASE d = c
    BY <1>1, <1>2, <2>1 DEF Adding
  <2>2. CASE d # c
    <3>1. Adding(r)
      BY DEF GateInv, AddInv
    <3>2. Adding(r)'
      BY <1>3, <3>1 DEF Adding
    <3> QED
      BY <1>1, <2>2, <3>2
  <2> QED
    BY <2>1, <2>2
<1>6. RemoveInv'
  BY <1>1, <1>2 DEF GateInv, RemoveInv
<1>7. RoomsFollowMembers'
  <2> SUFFICES ASSUME NEW x \in Conversations, NEW s \in room'[x]
               PROVE  /\ s \in connected
                      /\ \/ HasAccess(UserOf[s], x)'
                         \/ BeingRemoved(UserOf[s], x)'
                         \/ <<UserOf[s], x>> \in crossed'
    BY DEF RoomsFollowMembers
  <2>1. HasAccess(UserOf[s], x) => HasAccess(UserOf[s], x)'
    BY DEF HasAccess
  <2>2. (\E d \in Clients \ {c} : /\ request[d].step = "deleted"
                                  /\ request[d].conversation = x
                                  /\ UserOf[s] \in request[d].targets \ kicked[d])
           => BeingRemoved(UserOf[s], x)'
    BY <1>1 DEF BeingRemoved
  <2> QED
    BY <2>1, <2>2
<1> QED
  BY <1>4, <1>5, <1>6, <1>7 DEF GateInv, AddInv

LEMMA EndStepRooms ==
  ASSUME ServiceInv, GateInv, NEW c \in Clients,
         AnnounceAdded(c) \/ AnswerAdded(c) \/ AnswerRemoved(c) \/ HandlerFails(c)
  PROVE  GateInv'
<1>1. /\ request' = [request EXCEPT ![c] = Idle]
      /\ UNCHANGED <<type, name, role, connected, pending>>
  BY DEF AnnounceAdded, AnswerAdded, AnswerRemoved, HandlerFails, Return, RequestFails, gateVars
<1>2. \A x \in Conversations : \A s \in room[x] :
        /\ s \in connected
        /\ HasAccess(UserOf[s], x) \/ BeingRemoved(UserOf[s], x) \/ <<UserOf[s], x>> \in crossed
  BY DEF GateInv, RoomsFollowMembers
<1>3. CASE AnnounceAdded(c)
  <2> PICK x : x = request[c].conversation
    OBVIOUS
  <2>1. /\ request[c].step = "inserted"
        /\ room' = [room EXCEPT ![x] = @ \cup UNION {SocketsOf(u) : u \in request[c].targets}]
        /\ UNCHANGED <<kicked, crossed>>
    BY <1>3 DEF AnnounceAdded
  <2>2. x \in Conversations /\ \A u \in request[c].targets : Granted(u, x)
    BY <2>1, RequestTypes DEF GateInv, AddInv, Adding
  <2>3. \A y \in Conversations : \A s \in room'[y] :
          s \in room[y] \/ (y = x /\ s \in connected /\ UserOf[s] \in request[c].targets)
    BY <2>1, <2>2 DEF SocketsOf, GateInv, GateTypes
  <2>4. GateTypes'
    <3> PICK joining : joining = UNION {SocketsOf(u) : u \in request[c].targets}
      OBVIOUS
    <3>1. joining \subseteq Sockets
      BY DEF SocketsOf, GateInv, GateTypes
    <3>2. room' = [room EXCEPT ![x] = @ \cup joining]
      BY <2>1
    <3>3. room' \in [Conversations -> SUBSET Sockets]
      BY <2>2, <3>1, <3>2 DEF GateInv, GateTypes
    <3> QED
      BY <1>1, <2>1, <3>3 DEF GateInv, GateTypes
  <2>5. kicked[c] = {}
    BY <2>1 DEF GateInv, RemoveInv
  <2>6. \A y \in Conversations : \A s \in room'[y] :
           /\ s \in connected
           /\ \/ HasAccess(UserOf[s], y) \/ <<UserOf[s], y>> \in crossed'
              \/ \E d \in Clients \ {c} : /\ request[d].step = "deleted"
                                          /\ request[d].conversation = y
                                          /\ UserOf[s] \in request[d].targets \ kicked[d]
    BY <1>2, <2>1, <2>2, <2>3 DEF Granted, BeingRemoved
  <2> QED
    BY <1>1, <2>1, <2>4, <2>5, <2>6, EndRooms
<1>4. CASE AnswerAdded(c)
  <2>1. request[c].step = "inserted" /\ UNCHANGED <<connected, pending, room, kicked, crossed>>
    BY <1>4 DEF AnswerAdded, gateVars
  <2>2. GateTypes' /\ kicked[c] = {}
    BY <2>1 DEF GateInv, GateTypes, RemoveInv
  <2>3. \A y \in Conversations : \A s \in room'[y] :
           /\ s \in connected
           /\ \/ HasAccess(UserOf[s], y) \/ <<UserOf[s], y>> \in crossed'
              \/ \E d \in Clients \ {c} : /\ request[d].step = "deleted"
                                          /\ request[d].conversation = y
                                          /\ UserOf[s] \in request[d].targets \ kicked[d]
    BY <1>2, <2>1 DEF BeingRemoved
  <2> QED
    BY <1>1, <2>1, <2>2, <2>3, EndRooms
<1>5. CASE AnswerRemoved(c)
  <2>1. /\ request[c].step = "deleted" /\ kicked[c] = request[c].targets
        /\ kicked' = [kicked EXCEPT ![c] = {}]
        /\ UNCHANGED <<connected, pending, room, crossed>>
    BY <1>5 DEF AnswerRemoved
  <2>2. GateTypes' /\ kicked'[c] = {} /\ \A d \in Clients \ {c} : kicked'[d] = kicked[d]
    BY <2>1 DEF GateInv, GateTypes
  <2>3. \A y \in Conversations : \A s \in room'[y] :
           /\ s \in connected
           /\ \/ HasAccess(UserOf[s], y) \/ <<UserOf[s], y>> \in crossed'
              \/ \E d \in Clients \ {c} : /\ request[d].step = "deleted"
                                          /\ request[d].conversation = y
                                          /\ UserOf[s] \in request[d].targets \ kicked[d]
    BY <1>2, <2>1 DEF BeingRemoved
  <2> QED
    BY <1>1, <2>1, <2>2, <2>3, EndRooms
<1>6. CASE HandlerFails(c)
  <2>1. /\ kicked' = [kicked EXCEPT ![c] = {}]
        /\ crossed' = IF request[c].step = "deleted"
                      THEN crossed \cup (request[c].targets \X {request[c].conversation})
                      ELSE crossed
        /\ UNCHANGED <<connected, pending, room>>
    BY <1>6 DEF HandlerFails
  <2>2. /\ request[c].targets \subseteq Users
        /\ request[c].step = "deleted" => request[c].conversation \in Conversations
    BY RequestTypes
  <2>3. GateTypes' /\ kicked'[c] = {} /\ \A d \in Clients \ {c} : kicked'[d] = kicked[d]
    BY <2>1, <2>2 DEF GateInv, GateTypes
  <2>4. \A y \in Conversations : \A s \in room'[y] :
           /\ s \in connected
           /\ \/ HasAccess(UserOf[s], y) \/ <<UserOf[s], y>> \in crossed'
              \/ \E d \in Clients \ {c} : /\ request[d].step = "deleted"
                                          /\ request[d].conversation = y
                                          /\ UserOf[s] \in request[d].targets \ kicked[d]
    BY <1>2, <2>1 DEF BeingRemoved
  <2> QED
    BY <1>1, <2>1, <2>3, <2>4, EndRooms
<1> QED
  BY <1>3, <1>4, <1>5, <1>6

LEMMA KickRooms ==
  ASSUME ServiceInv, GateInv, NEW c \in Clients, NEW u \in Users, Kick(c, u)
  PROVE  GateInv'
<1> PICK x : x = request[c].conversation
  OBVIOUS
<1>1. /\ request[c].step = "deleted" /\ UNCHANGED <<connected, pending, crossed>>
      /\ UNCHANGED <<type, name, role, request, overlapped, raced>>
      /\ room' = [room EXCEPT ![x] = @ \ SocketsOf(u)]
      /\ kicked' = [kicked EXCEPT ![c] = @ \cup {u}]
  BY DEF Kick, convVars
<1>2. x \in Conversations
  BY <1>1, RequestTypes
<1>3. /\ room'[x] = room[x] \ SocketsOf(u) /\ \A y \in Conversations \ {x} : room'[y] = room[y]
      /\ kicked'[c] = kicked[c] \cup {u} /\ \A d \in Clients \ {c} : kicked'[d] = kicked[d]
      /\ GateTypes'
  BY <1>1, <1>2 DEF GateInv, GateTypes
<1>4. \A v, y : Granted(v, y)' <=> Granted(v, y)
  BY <1>1, GrantsStand
<1>5. PendingInv'
  BY <1>1, <1>4 DEF GateInv, PendingInv
<1>6. AddInv'
  BY <1>1, GrantsStand DEF GateInv, AddInv
<1>7. RemoveInv'
  BY <1>1, <1>3 DEF GateInv, RemoveInv
<1>8. RoomsFollowMembers'
  <2> SUFFICES ASSUME NEW y \in Conversations, NEW s \in room'[y]
               PROVE  /\ s \in connected
                      /\ \/ HasAccess(UserOf[s], y)
                         \/ BeingRemoved(UserOf[s], y)'
                         \/ <<UserOf[s], y>> \in crossed
    BY <1>1 DEF RoomsFollowMembers, HasAccess
  <2>1. /\ s \in room[y] /\ s \in connected
        /\ HasAccess(UserOf[s], y) \/ BeingRemoved(UserOf[s], y) \/ <<UserOf[s], y>> \in crossed
    <3>1. s \in room[y]
      BY <1>3
    <3> QED
      BY <3>1 DEF GateInv, RoomsFollowMembers
  <2>2. y = x => UserOf[s] # u
    BY <1>3, <2>1 DEF SocketsOf
  <2>3. BeingRemoved(UserOf[s], y) => BeingRemoved(UserOf[s], y)'
    BY <1>1, <1>3, <2>2 DEF BeingRemoved
  <2> QED
    BY <2>1, <2>3
<1> QED
  BY <1>3, <1>5, <1>6, <1>7, <1>8 DEF GateInv

LEMMA GateInvStays == ServiceInv /\ GateInv /\ [GateNext]_vars => GateInv'
<1> SUFFICES ASSUME ServiceInv, GateInv, [GateNext]_vars PROVE GateInv'
  OBVIOUS
<1>1. CASE UNCHANGED vars
  <2>1. UNCHANGED <<type, name, role, request, overlapped, raced, connected, pending, room,
                    kicked, crossed>>
    BY <1>1 DEF vars, convVars, gateVars
  <2>2. AddInv' /\ PendingInv'
    BY <2>1, GrantsStand DEF GateInv, AddInv, PendingInv
  <2>3. RoomsFollowMembers'
    BY <2>1 DEF GateInv, RoomsFollowMembers, HasAccess, BeingRemoved
  <2> QED
    BY <2>1, <2>2, <2>3 DEF GateInv, GateTypes, RemoveInv
<1> QED
  BY <1>1, ServiceStepRooms, DeleteRooms, EndStepRooms, KickRooms, SocketStepRooms DEF GateNext

LEMMA GateInitSound == GateInit => GateInv
BY DEF GateInit, Init, Idle, GateInv, GateTypes, PendingInv, AddInv, Adding, RemoveInv,
       RoomsFollowMembers

(* The inductive invariant: what the tables promise a request, and what a   *)
(* socket on its way into a room, a handler that adds and a handler that    *)
(* removes may count on.                                                    *)
THEOREM GateIsSound == GateSpec => [](ServiceInv /\ GateInv)
<1>1. GateInit => Init
  BY DEF GateInit
<1> QED
  BY <1>1, InitSound, GateInitSound, GateStepIsConvStep, ServiceInvStays, GateInvStays, PTL
  DEF GateSpec

(* Sockets, rooms and pending joins are what their names say.              *)
THEOREM GateIsTyped == GateSpec => []GateTypeOK
<1>1. ServiceInv /\ GateInv => GateTypeOK
  BY InvGives DEF GateInv, GateTypes, GateTypeOK
<1> QED
  BY <1>1, GateIsSound, PTL

(* Who hears a conversation: for any number of sockets and requests, the   *)
(* user of a socket in a room is a participant, is about to be made to     *)
(* leave, or a removal crossed the join.                                   *)
THEOREM RoomsAreMembers == GateSpec => []RoomsFollowMembers
<1>1. GateInv => RoomsFollowMembers
  BY DEF GateInv
<1> QED
  BY <1>1, GateIsSound, PTL

(* What the service promises of chats and their members holds behind the   *)
(* gateway, whose handlers put further steps between its calls.            *)
THEOREM GatewayKeepsPromises ==
  GateSpec => []OneDirectChat /\ []OwnerStays /\ MembersChangeByOwner /\ KeepsMembership
                /\ DirectChatsStand
BY GatewayConverses, DirectChatsAreOne, OwnersStay, OwnersChangeMembers, MembershipKept,
   DirectChatsHold
=============================================================================
