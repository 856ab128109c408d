------------------------ MODULE ConversationsProofs -------------------------
(***************************************************************************)
(* What holds of Conversations for every set of conversations, users and   *)
(* requests.                                                               *)
(***************************************************************************)
EXTENDS Conversations, TLAPS

(* What an open request may count on, although all it read may be old.     *)
StepSound(r) ==
  LET x == r.conversation IN
  /\ r.step = "idle" => r = Idle
  /\ r.step = "create" => x = Null /\ r.found = Nobody /\ r.gone = {}
  /\ r.step \notin {"idle", "create"} =>
       x \in Conversations /\ type[x] # "none" /\ r.actor \in Users
  /\ r.step \in {"create", "fill"} =>
       /\ r.type \in {"direct", "group"}
       /\ r.targets # {}
       /\ r.actor \in Users
       /\ r.type = "group" => r.actor \in r.targets
       /\ r.type = "direct" => \E u, v \in Users : u # v /\ r.targets = {u, v}
  /\ r.step = "fill" => type[x] = r.type /\ role[x] = Nobody /\ r.found = Nobody
  /\ r.step \in {"checkAdd", "insert", "inserted", "checkRemove", "find", "delete",
                 "deleted"} => type[x] = "group"
  /\ r.step \in {"insert", "find", "delete"} => role[x][r.actor] = "owner"
  /\ r.step = "delete" => \A u \in Users : r.found[u] # "owner"
  /\ r.step = "save" => \E u \in Users : role[x][u] # "none"

(* What a request has loaded: roles do not turn into one another, and rows *)
(* it does not know to be gone are there.                                  *)
CopySound(r) ==
  LET x == r.conversation IN
  r.step \notin {"idle", "create"} =>
    /\ \A u \in Users : r.found[u] = "owner" => role[x][u] = "owner"
    /\ \A u \in Users : r.found[u] = "member" => role[x][u] # "owner"
    /\ r.step # "deleted" =>
         \A u \in Users : r.found[u] # "none" /\ u \notin r.gone => role[x][u] # "none"
    /\ \A u \in r.gone : r.found[u] = "member"
    /\ r.gone # {} => type[x] = "group" /\ \E u \in Users : role[x][u] = "owner"

Sound(r) == r \in Request /\ StepSound(r) /\ CopySound(r)

(* Nobody has anything of a conversation that has no participants yet.     *)
Apart(r, q) ==
  /\ r.step = "fill" /\ q.step \notin {"idle", "create"}
  /\ r.conversation = q.conversation
  => q.step # "fill" /\ q.found = Nobody

(* A conversation without a row has no participants; a group that has some *)
(* has one owner.                                                          *)
RolesSound(t, r) ==
  /\ r \in [Users -> Roles]
  /\ t = "none" => r = Nobody
  /\ t = "group" /\ (\E u \in Users : r[u] # "none") =>
       \E u \in Users : \A v \in Users : r[v] = "owner" <=> v = u

ServiceInv ==
  /\ type \in [Conversations -> Types]
  /\ name \in [Conversations -> Titles]
  /\ role \in [Conversations -> [Users -> Roles]]
  /\ \A x \in Conversations : RolesSound(type[x], role[x])
  /\ request \in [Clients -> Request]
  /\ \A c \in Clients : Sound(request[c])
  /\ \A c, d \in Clients : c # d => Apart(request[c], request[d])
  /\ overlapped \subseteq SUBSET Users
  /\ raced \subseteq Conversations

(* Who looks for a direct chat has found none, and two who look meet.      *)
LookInv ==
  \A c \in Clients :
    request[c].type = "direct" /\ request[c].step \in {"create", "fill"} =>
      \/ request[c].targets \in overlapped
      \/ /\ \A x \in Conversations : ~IsDirectChat(x, request[c].targets)
         /\ \A d \in Clients \ {c} : ~(d \in Looking(request[c].targets))

PairInv == LookInv /\ OneDirectChat

LEMMA InvGives == ServiceInv => TypeOK /\ OwnerStays
<1> SUFFICES ASSUME ServiceInv PROVE TypeOK /\ OwnerStays
  OBVIOUS
<1>1. TypeOK
  <2>1. \A c \in Clients : request[c].step \notin {"idle", "create"} =>
          /\ request[c].conversation \in Conversations
          /\ type[request[c].conversation] # "none"
          /\ request[c].actor \in Users
    BY DEF ServiceInv, Sound, StepSound
  <2>2. \A x \in Conversations : type[x] = "none" => role[x] = Nobody
    BY DEF ServiceInv, RolesSound
  <2> QED
    BY <2>1, <2>2 DEF ServiceInv, TypeOK
<1>2. OwnerStays
  BY DEF ServiceInv, RolesSound, OwnerStays, Members, IsAdmin
<1> QED
  BY <1>1, <1>2

LEMMA IdleSound == Idle \in Request /\ Sound(Idle)
<1>1. Nobody \in [Users -> Roles]
  BY DEF Nobody, Roles
<1>2. Idle \in Request
  BY <1>1 DEF Idle, Request, Steps, Types, Titles
<1> QED
  BY <1>2 DEF Sound, StepSound, CopySound, Idle

LEMMA InitSound == Init => ServiceInv /\ PairInv
<1> SUFFICES ASSUME Init PROVE ServiceInv /\ PairInv
  OBVIOUS
<1>1. Nobody \in [Users -> Roles] /\ \A u \in Users : Nobody[u] = "none"
  BY DEF Nobody, Roles
<1>2. \A x \in Conversations : RolesSound(type[x], role[x])
  BY <1>1 DEF Init, RolesSound
<1>3. \A c, d \in Clients : Apart(request[c], request[d])
  BY DEF Init, Apart, Idle
<1>4. ServiceInv
  BY <1>1, <1>2, <1>3, IdleSound DEF Init, ServiceInv, Types, Titles
<1>5. LookInv
  BY DEF Init, LookInv, Idle
<1>6. OneDirectChat
  BY DEF Init, OneDirectChat, IsDirectChat
<1> QED
  BY <1>4, <1>5, <1>6 DEF PairInv

(* A step that changes one request, and no row that others rely on.        *)
LEMMA RequestMoves ==
  ASSUME ServiceInv, NEW c \in Clients, NEW q, Sound(q),
         request' = [request EXCEPT ![c] = q],
         \A d \in Clients \ {c} : Apart(q, request[d]) /\ Apart(request[d], q),
         UNCHANGED <<type, name, role>>,
         overlapped' \subseteq SUBSET Users, raced' \subseteq Conversations
  PROVE  ServiceInv'
<1>1. q \in Request /\ request \in [Clients -> Request]
  BY DEF Sound, ServiceInv
<1>2. request' \in [Clients -> Request]
  BY <1>1
<1>3. \A d \in Clients : request'[d] = IF d = c THEN q ELSE request[d]
  BY <1>1
<1>4. \A d \in Clients : Sound(request[d])
  BY DEF ServiceInv
<1>5. ASSUME NEW r, Sound(r) PROVE Sound(r)'
  BY <1>5 DEF Sound, StepSound, CopySound
<1>6. Sound(q)'
  BY <1>5
<1>7. \A d \in Clients : Sound(request[d])'
  BY <1>3, <1>4, <1>5, <1>6
<1>8. \A d, e \in Clients : d # e => Apart(request'[d], request'[e])
  BY <1>3 DEF ServiceInv
<1>9. /\ (type \in [Conversations -> Types])'
      /\ (name \in [Conversations -> Titles])'
      /\ (role \in [Conversations -> [Users -> Roles]])'
      /\ \A x \in Conversations : RolesSound(type'[x], role'[x])
  BY DEF ServiceInv
<1> QED
  BY <1>2, <1>7, <1>8, <1>9 DEF ServiceInv

LEMMA RequestFacts ==
  ASSUME ServiceInv, NEW c \in Clients
  PROVE  /\ request[c] \in Request /\ Sound(request[c])
         /\ request[c].found \in [Users -> Roles]
         /\ request[c].gone \in SUBSET Users
         /\ request[c].targets \in SUBSET Users
         /\ \A d \in Clients \ {c} : Apart(request[c], request[d]) /\ Apart(request[d], request[c])
BY DEF ServiceInv, Sound, Request

(* Ask: a request opens. *)
LEMMA FindDirectChatSound ==
  ASSUME ServiceInv, NEW c \in Clients, NEW u \in Users, NEW v \in Users,
         FindDirectChat(c, u, v)
  PROVE  ServiceInv'
<1> DEFINE q == [Idle EXCEPT !.step = "create", !.type = "direct", !.actor = u,
                             !.targets = {u, v}]
<1>1. /\ q.step = "create" /\ q.type = "direct" /\ q.actor = u /\ q.targets = {u, v}
      /\ q.conversation = Null /\ q.found = Nobody /\ q.gone = {}
  BY DEF Idle
<1>2. q \in Request
  BY IdleSound DEF Idle, Request, Steps, Types
<1>3. u # v /\ request' = [request EXCEPT ![c] = q]
  BY DEF FindDirectChat, Opens
<1> HIDE DEF q
<1>4. Sound(q)
  BY <1>1, <1>2, <1>3 DEF Sound, StepSound, CopySound
<1>5. \A d \in Clients \ {c} : Apart(q, request[d]) /\ Apart(request[d], q)
  BY <1>1 DEF Apart
<1>6. /\ UNCHANGED <<type, name, role>>
      /\ overlapped' \subseteq SUBSET Users /\ raced' \subseteq Conversations
  BY DEF FindDirectChat, ServiceInv
<1> QED
  BY <1>3, <1>4, <1>5, <1>6, RequestMoves

LEMMA CreateGroupChatSound ==
  ASSUME ServiceInv, NEW c \in Clients, NEW u \in Users, NEW us \in SUBSET Users,
         NEW title \in Names, CreateGroupChat(c, u, us, title)
  PROVE  ServiceInv'
<1> DEFINE q == [Idle EXCEPT !.step = "create", !.type = "group", !.actor = u,
                             !.targets = us \cup {u}, !.newName = title]
<1>1. /\ q.step = "create" /\ q.type = "group" /\ q.actor = u /\ q.targets = us \cup {u}
      /\ q.conversation = Null /\ q.found = Nobody /\ q.gone = {}
  BY DEF Idle
<1>2. q \in Request
  BY IdleSound DEF Idle, Request, Steps, Types, Titles
<1>3. request' = [request EXCEPT ![c] = q]
  BY DEF CreateGroupChat, Opens
<1> HIDE DEF q
<1>4. Sound(q)
  BY <1>1, <1>2 DEF Sound, StepSound, CopySound
<1>5. \A d \in Clients \ {c} : Apart(q, request[d]) /\ Apart(request[d], q)
  BY <1>1 DEF Apart
<1>6. /\ UNCHANGED <<type, name, role>>
      /\ overlapped' \subseteq SUBSET Users /\ raced' \subseteq Conversations
  BY DEF CreateGroupChat, ServiceInv
<1> QED
  BY <1>3, <1>4, <1>5, <1>6, RequestMoves

LEMMA GetConversationSound ==
  ASSUME ServiceInv, NEW c \in Clients, NEW x \in Conversations, NEW u \in Users,
         NEW us \in SUBSET Users, NEW title \in Titles,
         NEW step \in {"checkAdd", "checkRemove", "checkSettings"},
         step # "checkSettings" => type[x] = "group",
         GetConversation(c, step, x, u, us, title)
  PROVE  ServiceInv'
<1> DEFINE q == [Idle EXCEPT !.step = step, !.type = type[x], !.conversation = x,
                           !.actor = u, !.targets = us, !.found = role[x],
                           !.oldName = name[x], !.newName = title]
<1>1. /\ q.step = step /\ q.conversation = x /\ q.found = role[x] /\ q.gone = {}
      /\ q.actor = u
  BY DEF Idle
<1>2. q \in Request
  BY IdleSound DEF Idle, Request, Steps, ServiceInv
<1>3. type[x] # "none" /\ request' = [request EXCEPT ![c] = q]
  BY DEF GetConversation, Opens
<1>a. role[x] \in [Users -> Roles]
  BY DEF ServiceInv
<1> HIDE DEF q
<1>4. Sound(q)
  <2>1. StepSound(q)
    BY <1>1, <1>3 DEF StepSound
  <2>2. CopySound(q)
    BY <1>1, <1>a DEF CopySound
  <2> QED
    BY <2>1, <2>2, <1>2 DEF Sound
<1>5. \A d \in Clients \ {c} : Apart(q, request[d]) /\ Apart(request[d], q)
  BY <1>1 DEF Apart, ServiceInv, Sound, StepSound
<1>6. /\ UNCHANGED <<type, name, role>>
      /\ overlapped' \subseteq SUBSET Users /\ raced' \subseteq Conversations
  BY DEF GetConversation, ServiceInv
<1> QED
  BY <1>3, <1>4, <1>5, <1>6, RequestMoves

LEMMA AskSound ==
  ASSUME ServiceInv, NEW c \in Clients, Ask(c)
  PROVE  ServiceInv'
<1>1. CASE \E u, v \in Users : FindDirectChat(c, u, v)
  BY <1>1, FindDirectChatSound
<1>2. CASE \E u \in Users, us \in SUBSET Users, title \in Names : CreateGroupChat(c, u, us, title)
  BY <1>2, CreateGroupChatSound
<1>3. ASSUME NEW x \in Conversations, NEW u \in Users, NEW us \in SUBSET Users,
             AddParticipants(c, x, u, us) \/ RemoveParticipants(c, x, u, us)
      PROVE  ServiceInv'
  <2>1. Null \in Titles
    BY DEF Titles
  <2>2. type[x] = "group" /\ \E step \in {"checkAdd", "checkRemove"} :
           GetConversation(c, step, x, u, us, Null)
    BY <1>3 DEF AddParticipants, RemoveParticipants
  <2> QED
    BY <2>1, <2>2, GetConversationSound
<1>4. ASSUME NEW x \in Conversations, NEW u \in Users, NEW title \in Names \cup {name[x]},
             UpdateSettings(c, x, u, title)
      PROVE  ServiceInv'
  <2>1. title \in Titles
    BY DEF Titles, ServiceInv
  <2>2. {} \in SUBSET Users
    OBVIOUS
  <2> QED
    BY <1>4, <2>1, <2>2, GetConversationSound DEF UpdateSettings
<1> QED
  BY <1>1, <1>2, <1>3, <1>4 DEF Ask

(* A request goes on with what it holds. *)
LEMMA GoesOn ==
  ASSUME ServiceInv, NEW c \in Clients, NEW step \in Steps,
         step \in {"insert", "find", "save"}, request[c].step \notin {"idle", "create", "fill"},
         request[c].step # "deleted",
         request' = [request EXCEPT ![c].step = step],
         step # "save" => /\ type[request[c].conversation] = "group"
                          /\ role[request[c].conversation][request[c].actor] = "owner",
         step = "save" => \E u \in Users : role[request[c].conversation][u] # "none",
         UNCHANGED <<type, name, role, overlapped, raced>>
  PROVE  ServiceInv'
<1> DEFINE q == [request[c] EXCEPT !.step = step]
<1>1. request[c] \in Request /\ Sound(request[c])
  BY RequestFacts
<1>2. q \in Request
  BY <1>1 DEF Request
<1>3. /\ q.step = step /\ q.conversation = request[c].conversation
      /\ q.found = request[c].found /\ q.gone = request[c].gone
      /\ q.actor = request[c].actor
  BY <1>1 DEF Request
<1>4. request' = [request EXCEPT ![c] = q]
  BY DEF ServiceInv
<1> HIDE DEF q
<1>5. StepSound(q)
  BY <1>1, <1>3 DEF Sound, StepSound
<1>6. CopySound(q)
  BY <1>1, <1>3 DEF Sound, CopySound
<1>7. Sound(q)
  BY <1>2, <1>5, <1>6 DEF Sound
<1>8. \A d \in Clients \ {c} : Apart(q, request[d]) /\ Apart(request[d], q)
  BY <1>3, RequestFacts DEF Apart
<1>9. overlapped' \subseteq SUBSET Users /\ raced' \subseteq Conversations
  BY DEF ServiceInv
<1> QED
  BY <1>4, <1>7, <1>8, <1>9, RequestMoves

LEMMA CheckAdminSound ==
  ASSUME ServiceInv, NEW c \in Clients, CheckAdmin(c)
  PROVE  ServiceInv'
<1>1. PICK step \in {"insert", "find"} :
        /\ request[c].step \in {"checkAdd", "checkRemove"}
        /\ request' = [request EXCEPT ![c].step = step]
  BY DEF CheckAdmin, Proceeds
<1>2. role[request[c].conversation][request[c].actor] = "owner"
  BY DEF CheckAdmin, IsAdmin
<1>3. type[request[c].conversation] = "group"
  BY <1>1, RequestFacts DEF Sound, StepSound
<1>4. step \in Steps /\ UNCHANGED <<type, name, role, overlapped, raced>>
  BY DEF CheckAdmin, Steps
<1> QED
  BY <1>1, <1>2, <1>3, <1>4, GoesOn

LEMMA CheckSettingsSound ==
  ASSUME ServiceInv, NEW c \in Clients, CheckSettings(c)
  PROVE  ServiceInv'
<1>1. /\ request[c].step = "checkSettings"
      /\ request' = [request EXCEPT ![c].step = "save"]
      /\ role[request[c].conversation][request[c].actor] # "none"
      /\ UNCHANGED <<type, name, role, overlapped, raced>>
  BY DEF CheckSettings, Proceeds, HasAccess
<1>2. request[c].actor \in Users
  BY <1>1, RequestFacts DEF Sound, StepSound
<1> QED
  BY <1>1, <1>2, GoesOn DEF Steps

LEMMA FindParticipantsSound ==
  ASSUME ServiceInv, NEW c \in Clients, FindParticipants(c)
  PROVE  ServiceInv'
<1> DEFINE x == request[c].conversation
           loaded == [u \in Users |-> IF u \in request[c].targets THEN role[x][u] ELSE "none"]
           q == [request[c] EXCEPT !.step = "delete", !.gone = {}, !.found = loaded]
<1>1. request[c] \in Request /\ StepSound(request[c]) /\ CopySound(request[c])
  BY RequestFacts DEF Sound
<1>2. request[c].step = "find" /\ \A u \in request[c].targets : role[x][u] # "owner"
  BY DEF FindParticipants
<1>3. x \in Conversations /\ type[x] = "group" /\ role[x][request[c].actor] = "owner"
      /\ request[c].actor \in Users /\ type[x] # "none"
  BY <1>1, <1>2 DEF StepSound
<1>4. role[x] \in [Users -> Roles]
  BY <1>3 DEF ServiceInv
<1>5. /\ loaded \in [Users -> Roles]
      /\ \A u \in Users : loaded[u] \in {"none", role[x][u]}
      /\ \A u \in Users : loaded[u] # "owner"
  BY <1>2, <1>4 DEF Roles
<1> HIDE DEF loaded
<1>6. q \in Request
  BY <1>1, <1>5 DEF Request, Steps
<1>7. /\ q.step = "delete" /\ q.conversation = x /\ q.actor = request[c].actor
      /\ q.found = loaded /\ q.gone = {}
  BY <1>1 DEF Request
<1>8. request' = [request EXCEPT ![c] = q]
  BY DEF FindParticipants, loaded, ServiceInv
<1> HIDE DEF q, x
<1>9. StepSound(q)
  BY <1>3, <1>5, <1>7 DEF StepSound
<1>10. CopySound(q)
  BY <1>4, <1>5, <1>7 DEF CopySound
<1>11. Sound(q)
  BY <1>6, <1>9, <1>10 DEF Sound
<1>12. \A d \in Clients \ {c} : Apart(q, request[d]) /\ Apart(request[d], q)
  <2>1. \A d \in Clients : request[d].step = "fill" => role[request[d].conversation] = Nobody
    BY DEF ServiceInv, Sound, StepSound
  <2>2. role[x] # Nobody
    BY <1>3 DEF Nobody
  <2> QED
    BY <1>7, <2>1, <2>2 DEF Apart
<1>13. /\ UNCHANGED <<type, name, role>>
       /\ overlapped' \subseteq SUBSET Users /\ raced' \subseteq Conversations
  BY DEF FindParticipants, ServiceInv
<1> QED
  BY <1>8, <1>11, <1>12, <1>13, RequestMoves

LEMMA EndSound ==
  ASSUME ServiceInv, NEW c \in Clients, Return(c) \/ RequestFails(c)
  PROVE  ServiceInv'
<1>1. /\ request' = [request EXCEPT ![c] = Idle]
      /\ UNCHANGED <<type, name, role, overlapped, raced>>
  BY DEF Return, RequestFails
<1>2. \A d \in Clients \ {c} : Apart(Idle, request[d]) /\ Apart(request[d], Idle)
  BY DEF Apart, Idle
<1>3. overlapped' \subseteq SUBSET Users /\ raced' \subseteq Conversations
  BY <1>1 DEF ServiceInv
<1> QED
  BY <1>1, <1>2, <1>3, IdleSound, RequestMoves

(* Serve: a conversation gets its row, and then its participants. *)
LEMMA SaveConversationSound ==
  ASSUME ServiceInv, NEW c \in Clients, NEW x \in Conversations, SaveConversation(c, x)
  PROVE  ServiceInv'
<1> PICK q : q = [request[c] EXCEPT !.step = "fill", !.conversation = x]
  OBVIOUS
<1>1. request[c] \in Request /\ StepSound(request[c]) /\ request[c].step = "create"
      /\ type[x] = "none" /\ role[x] = Nobody
  BY RequestFacts DEF Sound, SaveConversation, ServiceInv, RolesSound
<1>2. /\ request[c].type \in {"direct", "group"} /\ request[c].found = Nobody
      /\ request[c].gone = {} /\ request[c].actor \in Users
  BY <1>1 DEF StepSound
<1>3. /\ q.step = "fill" /\ q.conversation = x /\ q.found = Nobody /\ q.gone = {}
      /\ q.type = request[c].type /\ q.actor = request[c].actor
      /\ q.targets = request[c].targets
  BY <1>1, <1>2 DEF Request
<1>4. q \in Request
  BY <1>1 DEF Request, Steps
<1>5. /\ type' = [type EXCEPT ![x] = request[c].type]
      /\ name' = [name EXCEPT ![x] = request[c].newName]
      /\ request' = [request EXCEPT ![c] = q]
      /\ UNCHANGED <<role, overlapped, raced>>
  BY DEF SaveConversation, ServiceInv
<1>6. /\ request' \in [Clients -> Request]
      /\ \A d \in Clients : request'[d] = IF d = c THEN q ELSE request[d]
  BY <1>4, <1>5 DEF ServiceInv
<1>7. /\ type' \in [Conversations -> Types]
      /\ \A y \in Conversations : type'[y] = IF y = x THEN request[c].type ELSE type[y]
  BY <1>2, <1>5 DEF ServiceInv, Types
<1>8. name' \in [Conversations -> Titles]
  BY <1>1, <1>5 DEF ServiceInv, Request
<1>9. \A d \in Clients : request[d].step \notin {"idle", "create"} =>
        request[d].conversation \in Conversations \ {x}
  BY <1>1, RequestFacts DEF Sound, StepSound
<1>10. ASSUME NEW d \in Clients PROVE Sound(request[d])'
  <2>1. CASE d = c
    <3>1. StepSound(q)'
      BY <1>1, <1>2, <1>3, <1>5, <1>7 DEF StepSound
    <3>2. CopySound(q)'
      BY <1>3 DEF CopySound, Nobody
    <3> QED
      BY <2>1, <3>1, <3>2, <1>4, <1>6 DEF Sound
  <2>2. CASE d # c
    <3>1. request'[d] = request[d] /\ Sound(request[d])
      BY <2>2, <1>6, RequestFacts
    <3>2. request[d].step \notin {"idle", "create"} =>
            type'[request[d].conversation] = type[request[d].conversation]
      BY <1>7, <1>9
    <3>3. StepSound(request[d])'
      BY <3>1, <3>2, <1>5, <1>9 DEF Sound, StepSound
    <3>4. CopySound(request[d])'
      BY <3>1, <3>2, <1>5, <1>9 DEF Sound, CopySound
    <3> QED
      BY <3>1, <3>3, <3>4 DEF Sound
  <2> QED
    BY <2>1, <2>2
<1>11. ASSUME NEW d \in Clients, NEW e \in Clients, d # e
       PROVE  Apart(request'[d], request'[e])
  <2>1. CASE d # c /\ e # c
    BY <2>1, <1>6, <1>11 DEF ServiceInv
  <2>2. CASE d = c
    BY <2>2, <1>3, <1>6, <1>9, <1>11 DEF Apart
  <2>3. CASE e = c
    BY <2>3, <1>3, <1>6, <1>9, <1>11 DEF Apart
  <2> QED
    BY <2>1, <2>2, <2>3
<1>12. \A y \in Conversations : RolesSound(type'[y], role'[y])
  <2>1. RolesSound(request[c].type, Nobody)
    BY <1>2 DEF RolesSound, Nobody, Roles
  <2> QED
    BY <2>1, <1>1, <1>5, <1>7 DEF ServiceInv
<1>13. /\ role' \in [Conversations -> [Users -> Roles]]
       /\ overlapped' \subseteq SUBSET Users /\ raced' \subseteq Conversations
  BY <1>5 DEF ServiceInv
<1> QED
  BY <1>6, <1>7, <1>8, <1>10, <1>11, <1>12, <1>13 DEF ServiceInv

LEMMA SaveParticipantsSound ==
  ASSUME ServiceInv, NEW c \in Clients, SaveParticipants(c)
  PROVE  ServiceInv'
<1> DEFINE x == request[c].conversation
           new == [u \in Users |->
             IF u \notin request[c].targets THEN "none"
             ELSE IF request[c].type = "group" /\ u = request[c].actor THEN "owner"
             ELSE "member"]
<1>1. StepSound(request[c]) /\ request[c].step = "fill"
  BY RequestFacts DEF Sound, SaveParticipants
<1>2. /\ x \in Conversations /\ type[x] = request[c].type /\ role[x] = Nobody
      /\ type[x] # "none" /\ request[c].actor \in Users
      /\ request[c].type = "group" => request[c].actor \in request[c].targets
  BY <1>1 DEF StepSound
<1>3. /\ role' = [role EXCEPT ![x] = new]
      /\ request' = [request EXCEPT ![c] = Idle]
      /\ UNCHANGED <<type, name, overlapped, raced>>
  BY DEF SaveParticipants
<1>4. new \in [Users -> Roles]
  BY DEF Roles
<1>5. RolesSound(type[x], new)
  BY <1>2, <1>4 DEF RolesSound
<1> HIDE DEF new, x
<1>6. /\ role' \in [Conversations -> [Users -> Roles]]
      /\ \A y \in Conversations : role'[y] = IF y = x THEN new ELSE role[y]
  BY <1>3, <1>4 DEF ServiceInv
<1>7. /\ request' \in [Clients -> Request]
      /\ \A d \in Clients : request'[d] = IF d = c THEN Idle ELSE request[d]
  BY <1>3, IdleSound DEF ServiceInv
<1>8. ASSUME NEW d \in Clients PROVE Sound(request[d])'
  <2>1. CASE d = c
    BY <2>1, <1>7, IdleSound DEF Sound, StepSound, CopySound, Idle
  <2>2. CASE d # c /\ request[d].step \in {"idle", "create"}
    BY <2>2, <1>7, RequestFacts DEF Sound, StepSound, CopySound
  <2>3. CASE d # c /\ request[d].step \notin {"idle", "create"} /\ request[d].conversation = x
    <3>1. request[d].step # "fill" /\ request[d].found = Nobody
      BY <1>1, <2>3, RequestFacts DEF Apart, x
    <3>2. request'[d] = request[d] /\ Sound(request[d])
      BY <2>3, <1>7, RequestFacts
    <3>3. request[d].gone = {}
      BY <2>3, <3>1, <3>2, RequestFacts DEF Sound, CopySound, Nobody
    <3>4. \A u \in Users : role[x][u] = "none"
      BY <1>2 DEF Nobody
    <3>5. request[d].step \notin {"insert", "find", "delete", "save"}
      BY <2>3, <3>2, <3>4 DEF Sound, StepSound
    <3>6. StepSound(request[d])'
      BY <2>3, <3>1, <3>2, <3>5, <1>3 DEF Sound, StepSound
    <3>7. CopySound(request[d])'
      BY <3>1, <3>2, <3>3 DEF CopySound, Nobody
    <3> QED
      BY <3>2, <3>6, <3>7 DEF Sound
  <2>4. CASE d # c /\ request[d].step \notin {"idle", "create"} /\ request[d].conversation # x
    <3>1. request'[d] = request[d] /\ Sound(request[d])
      BY <2>4, <1>7, RequestFacts
    <3>2. request[d].conversation \in Conversations
      BY <2>4, <3>1 DEF Sound, StepSound
    <3>3. role'[request[d].conversation] = role[request[d].conversation]
      BY <2>4, <3>2, <1>6
    <3>4. StepSound(request[d])'
      BY <2>4, <3>1, <3>3, <1>3 DEF Sound, StepSound
    <3>5. CopySound(request[d])'
      BY <2>4, <3>1, <3>3, <1>3 DEF Sound, CopySound
    <3> QED
      BY <3>1, <3>4, <3>5 DEF Sound
  <2> QED
    BY <2>1, <2>2, <2>3, <2>4
<1>9. \A d, e \in Clients : d # e => Apart(request'[d], request'[e])
  BY <1>7 DEF ServiceInv, Apart, Idle
<1>10. \A y \in Conversations : RolesSound(type'[y], role'[y])
  BY <1>3, <1>5, <1>6 DEF ServiceInv
<1> QED
  BY <1>3, <1>6, <1>7, <1>8, <1>9, <1>10 DEF ServiceInv

(* A step that only adds members, in a conversation that has an owner, or  *)
(* none at all.                                                            *)
LEMMA MembersGrow ==
  ASSUME ServiceInv, NEW x \in Conversations, NEW new \in [Users -> Roles],
         role' = [role EXCEPT ![x] = new], UNCHANGED type, type[x] # "none",
         \A u \in Users : new[u] = "owner" <=> role[x][u] = "owner",
         \A u \in Users : role[x][u] # "none" => new[u] # "none",
         (\E u \in Users : role[x][u] = "owner") \/ new = role[x]
  PROVE  /\ role' \in [Conversations -> [Users -> Roles]]
         /\ \A y \in Conversations : RolesSound(type'[y], role'[y])
         /\ \A r : Sound(r) => Sound(r)'
<1>1. /\ role' \in [Conversations -> [Users -> Roles]]
      /\ \A y \in Conversations : role'[y] = IF y = x THEN new ELSE role[y]
  BY DEF ServiceInv
<1>2. RolesSound(type[x], role[x])
  BY DEF ServiceInv
<1>3. RolesSound(type[x], new)
  BY <1>2 DEF RolesSound
<1>4. \A y \in Conversations : RolesSound(type'[y], role'[y])
  BY <1>1, <1>3 DEF ServiceInv
<1>5. ASSUME NEW r, Sound(r) PROVE Sound(r)'
  <2>1. CASE r.step \in {"idle", "create"}
    BY <1>5, <2>1 DEF Sound, StepSound, CopySound
  <2>2. CASE r.step \notin {"idle", "create"} /\ r.conversation # x
    <3>1. r.conversation \in Conversations
      BY <1>5, <2>2 DEF Sound, StepSound
    <3>2. role'[r.conversation] = role[r.conversation]
      BY <1>1, <2>2, <3>1
    <3>3. StepSound(r)'
      BY <1>5, <2>2, <3>2 DEF Sound, StepSound
    <3>4. CopySound(r)'
      BY <1>5, <2>2, <3>2 DEF Sound, CopySound
    <3> QED
      BY <1>5, <3>3, <3>4 DEF Sound
  <2>3. CASE r.step \notin {"idle", "create"} /\ r.conversation = x
    <3>1. role'[x] = new
      BY <1>1
    <3>2. r.step = "fill" => role'[x] = Nobody
      BY <1>5, <2>3, <3>1 DEF Sound, StepSound, Nobody
    <3>3. StepSound(r)'
      <4>1. r.step \in {"insert", "find", "delete"} => r.actor \in Users
        BY <1>5 DEF Sound, StepSound
      <4> QED
        BY <1>5, <2>3, <3>1, <3>2, <4>1 DEF Sound, StepSound
    <3>4. CopySound(r)'
      <4>1. r.gone \subseteq Users
        BY <1>5 DEF Sound, Request
      <4> QED
        BY <1>5, <2>3, <3>1, <4>1 DEF Sound, CopySound
    <3> QED
      BY <1>5, <3>3, <3>4 DEF Sound
  <2> QED
    BY <2>1, <2>2, <2>3
<1> QED
  BY <1>1, <1>4, <1>5

LEMMA InsertParticipantsSound ==
  ASSUME ServiceInv, NEW c \in Clients, InsertParticipants(c)
  PROVE  ServiceInv'
<1> PICK x : x = request[c].conversation
  OBVIOUS
<1> PICK new : new = request[c].targets \ Found(c)
  OBVIOUS
<1> PICK roles : roles = [u \in Users |-> IF u \in new THEN "member" ELSE role[x][u]]
  OBVIOUS
<1> PICK q : q = [request[c] EXCEPT !.step = "inserted"]
  OBVIOUS
<1>1. /\ request[c].step = "insert" /\ new \cap Members(x) = {}
      /\ role' = [role EXCEPT ![x] = roles]
      /\ UNCHANGED <<type, name, overlapped, raced>>
  BY DEF InsertParticipants, Proceeds
<1>2. request' = [request EXCEPT ![c] = q]
  BY DEF InsertParticipants, Proceeds, ServiceInv
<1>3. request[c] \in Request /\ StepSound(request[c]) /\ CopySound(request[c])
  BY RequestFacts DEF Sound
<1>4. /\ x \in Conversations /\ type[x] = "group" /\ request[c].actor \in Users
      /\ role[x][request[c].actor] = "owner"
  BY <1>1, <1>3 DEF StepSound
<1>5. role[x] \in [Users -> Roles]
  BY <1>4 DEF ServiceInv
<1>6. \A u \in Users : u \in new => role[x][u] = "none"
  BY <1>1 DEF Members
<1>7. roles \in [Users -> Roles]
  BY <1>5 DEF Roles
<1>8. /\ \A u \in Users : roles[u] = "owner" <=> role[x][u] = "owner"
      /\ \A u \in Users : role[x][u] # "none" => roles[u] # "none"
  BY <1>5, <1>6
<1>9. /\ role' \in [Conversations -> [Users -> Roles]]
      /\ \A y \in Conversations : RolesSound(type'[y], role'[y])
      /\ \A r : Sound(r) => Sound(r)'
  <2>1. UNCHANGED type /\ type[x] # "none" /\ \E u \in Users : role[x][u] = "owner"
    BY <1>1, <1>4
  <2>2. role' = [role EXCEPT ![x] = roles]
    BY <1>1
  <2>3. (\E u \in Users : role[x][u] = "owner") \/ roles = role[x]
    BY <2>1
  <2>4. \A u \in Users : roles[u] = "owner" <=> role[x][u] = "owner"
    BY <1>8
  <2>5. \A u \in Users : role[x][u] # "none" => roles[u] # "none"
    BY <1>8
  <2>6. x \in Conversations
    BY <1>4
  <2>7. role' \in [Conversations -> [Users -> Roles]]
    BY <2>1, <2>2, <2>3, <2>4, <2>5, <2>6, <1>7, MembersGrow
  <2>8. \A y \in Conversations : RolesSound(type'[y], role'[y])
    BY <2>1, <2>2, <2>3, <2>4, <2>5, <2>6, <1>7, MembersGrow DEF RolesSound
  <2>9. \A r : Sound(r) => Sound(r)'
    BY <2>1, <2>2, <2>3, <2>4, <2>5, <2>6, <1>7, MembersGrow
  <2> QED
    BY <2>7, <2>8, <2>9
<1>10. /\ q \in Request /\ q.step = "inserted" /\ q.conversation = x
       /\ q.actor = request[c].actor /\ q.found = request[c].found
       /\ q.gone = request[c].gone
  BY <1>3 DEF Request, Steps
<1>11. Sound(q)
  <2>1. StepSound(q)
    BY <1>4, <1>10 DEF StepSound
  <2>2. CopySound(q)
    BY <1>1, <1>3, <1>10 DEF CopySound
  <2> QED
    BY <2>1, <2>2, <1>10 DEF Sound
<1>12. /\ request' \in [Clients -> Request]
       /\ \A d \in Clients : request'[d] = IF d = c THEN q ELSE request[d]
  BY <1>2, <1>10 DEF ServiceInv
<1>13. \A d \in Clients : Sound(request[d])'
  BY <1>9, <1>11, <1>12, RequestFacts
<1>14. ASSUME NEW d \in Clients, NEW e \in Clients, d # e
       PROVE  Apart(request'[d], request'[e])
  <2>1. CASE d # c /\ e # c
    BY <2>1, <1>12, <1>14 DEF ServiceInv
  <2>2. CASE d = c
    BY <2>2, <1>10, <1>12 DEF Apart
  <2>3. CASE e = c
    <3>1. Apart(request[d], request[c])
      BY <2>3, <1>14 DEF ServiceInv
    <3> QED
      BY <2>3, <3>1, <1>1, <1>10, <1>12, <1>14 DEF Apart
  <2> QED
    BY <2>1, <2>2, <2>3
<1>15. /\ (type \in [Conversations -> Types])' /\ (name \in [Conversations -> Titles])'
       /\ overlapped' \subseteq SUBSET Users /\ raced' \subseteq Conversations
  BY <1>1 DEF ServiceInv
<1> QED
  BY <1>9, <1>12, <1>13, <1>14, <1>15 DEF ServiceInv

(* DeleteParticipants takes members only.                                  *)
LEMMA RemovedAreMembers ==
  ASSUME ServiceInv, NEW c \in Clients, request[c].step = "delete"
  PROVE  LET x == request[c].conversation IN
         /\ x \in Conversations /\ type[x] = "group"
         /\ request[c].actor \in Users /\ role[x][request[c].actor] = "owner"
         /\ \A u \in Found(c) \ request[c].gone : role[x][u] = "member"
<1>1. /\ request[c] \in Request /\ StepSound(request[c]) /\ CopySound(request[c])
      /\ request[c].found \in [Users -> Roles]
  BY RequestFacts DEF Sound
<1>2. /\ request[c].conversation \in Conversations
      /\ type[request[c].conversation] = "group" /\ request[c].actor \in Users
      /\ role[request[c].conversation][request[c].actor] = "owner"
      /\ \A u \in Users : request[c].found[u] # "owner"
  BY <1>1 DEF StepSound
<1>3. role[request[c].conversation] \in [Users -> Roles]
  BY <1>2 DEF ServiceInv
<1>4. ASSUME NEW u \in Found(c) \ request[c].gone
      PROVE  role[request[c].conversation][u] = "member"
  <2>1. u \in Users /\ request[c].found[u] = "member" /\ u \notin request[c].gone
    BY <1>1, <1>2, <1>4 DEF Found, Roles
  <2>2. role[request[c].conversation][u] \notin {"none", "owner"}
    BY <2>1, <1>1 DEF CopySound
  <2> QED
    BY <2>1, <2>2, <1>3 DEF Roles
<1> QED
  BY <1>2, <1>4

LEMMA DeleteParticipantsSound ==
  ASSUME ServiceInv, NEW c \in Clients, DeleteParticipants(c)
  PROVE  ServiceInv'
<1> PICK x : x = request[c].conversation
  OBVIOUS
<1> PICK removed : removed = Found(c) \ request[c].gone
  OBVIOUS
<1> PICK roles : roles = [u \in Users |-> IF u \in removed THEN "none" ELSE role[x][u]]
  OBVIOUS
<1>1. /\ request[c].step = "delete"
      /\ role' = [role EXCEPT ![x] = roles]
      /\ UNCHANGED <<type, name, overlapped, raced>>
  BY DEF DeleteParticipants
<1>2. request' = [d \in Clients |->
       IF d = c THEN [request[c] EXCEPT !.step = "deleted"]
       ELSE IF request[d].conversation = x
            THEN [request[d] EXCEPT !.gone = @ \cup (removed \cap Found(d))]
       ELSE request[d]]
  BY DEF DeleteParticipants
<1>3. /\ x \in Conversations /\ type[x] = "group"
      /\ request[c].actor \in Users /\ role[x][request[c].actor] = "owner"
      /\ \A u \in removed : role[x][u] = "member"
  BY <1>1, RemovedAreMembers
<1>4. removed \in SUBSET Users /\ role[x] \in [Users -> Roles]
  BY <1>3 DEF Found, ServiceInv
<1>5. /\ roles \in [Users -> Roles]
      /\ \A u \in Users : roles[u] = "owner" <=> role[x][u] = "owner"
  BY <1>3, <1>4 DEF Roles
<1>6. /\ role' \in [Conversations -> [Users -> Roles]]
      /\ \A y \in Conversations : role'[y] = IF y = x THEN roles ELSE role[y]
  BY <1>1, <1>5 DEF ServiceInv
<1>7. \A y \in Conversations : RolesSound(type'[y], role'[y])
  <2>1. RolesSound(type[x], roles)
    <3>1. RolesSound(type[x], role[x])
      BY <1>3 DEF ServiceInv
    <3>2. \A u \in Users : roles[u] # "none" => role[x][u] # "none"
      BY <1>4
    <3> QED
      BY <3>1, <3>2, <1>3, <1>5 DEF RolesSound
  <2> QED
    BY <2>1, <1>1, <1>6 DEF ServiceInv
<1>8. ASSUME NEW d \in Clients
      PROVE  /\ request'[d] \in Request /\ Sound(request[d])'
             /\ request'[d].step = IF d = c THEN "deleted" ELSE request[d].step
             /\ request'[d].conversation = request[d].conversation
             /\ request'[d].found = request[d].found
  <2> PICK r : r = request[d]
    OBVIOUS
  <2>1. /\ r \in Request /\ Sound(r) /\ StepSound(r) /\ CopySound(r)
        /\ r.found \in [Users -> Roles] /\ r.gone \subseteq Users
    BY RequestFacts DEF Sound
  <2>2. CASE d = c
    <3> PICK q : q = [r EXCEPT !.step = "deleted"]
      OBVIOUS
    <3>1. request'[d] = q
      BY <1>2, <2>2
    <3>2. /\ q \in Request /\ q.step = "deleted" /\ q.conversation = x
          /\ q.actor = r.actor /\ q.found = r.found /\ q.gone = r.gone
      BY <2>1, <2>2 DEF Request, Steps
    <3>3. StepSound(q)'
      BY <1>1, <1>3, <2>2, <3>2 DEF StepSound
    <3>4. CopySound(q)'
      <4>1. role'[x] = roles
        BY <1>3, <1>6
      <4>2. \A u \in r.gone : u \in Users
        BY <2>1
      <4>3. type'[x] = "group" /\ \E u \in Users : roles[u] = "owner"
        BY <1>1, <1>3, <1>5
      <4>4. /\ \A u \in Users : r.found[u] = "owner" => roles[u] = "owner"
            /\ \A u \in Users : r.found[u] = "member" => roles[u] # "owner"
            /\ \A u \in r.gone : r.found[u] = "member"
        BY <1>1, <1>5, <2>1, <2>2 DEF CopySound
      <4> QED
        BY <3>2, <4>1, <4>3, <4>4 DEF CopySound
    <3> QED
      BY <2>2, <3>1, <3>2, <3>3, <3>4 DEF Sound
  <2>3. CASE d # c /\ r.conversation # x
    <3>1. request'[d] = r
      BY <1>2, <2>3
    <3>2. r.step \notin {"idle", "create"} => r.conversation \in Conversations
      BY <2>1 DEF StepSound
    <3>3. r.step \notin {"idle", "create"} => role'[r.conversation] = role[r.conversation]
      BY <1>6, <2>3, <3>2
    <3>4. StepSound(r)'
      BY <1>1, <2>1, <3>3 DEF StepSound
    <3>5. CopySound(r)'
      BY <1>1, <2>1, <3>3 DEF CopySound
    <3> QED
      BY <2>1, <2>3, <3>1, <3>4, <3>5 DEF Sound
  <2>4. CASE d # c /\ r.conversation = x
    <3> PICK more : more = removed \cap {u \in Users : r.found[u] # "none"}
      OBVIOUS
    <3> PICK q : q = [r EXCEPT !.gone = @ \cup more]
      OBVIOUS
    <3>1. request'[d] = q
      BY <1>2, <2>4 DEF Found
    <3>2. /\ q \in Request /\ q.step = r.step /\ q.conversation = r.conversation
          /\ q.found = r.found
      BY <2>1 DEF Request
    <3>3. CASE r.step \in {"idle", "create"}
      <4>1. r.found = Nobody /\ r.gone = {}
        BY <2>1, <3>3 DEF StepSound, Idle
      <4>2. q = r
        BY <2>1, <4>1 DEF Nobody, Request
      <4>3. StepSound(r)' /\ CopySound(r)'
        BY <2>1, <3>3 DEF StepSound, CopySound
      <4> QED
        BY <2>1, <2>4, <3>1, <4>2, <4>3 DEF Sound
    <3>4. CASE r.step \notin {"idle", "create"}
      <4>1. Sound(q)'
        <5> PICK owner \in Users : role[x][owner] = "owner"
          BY <1>3
        <5>a. /\ Sound(r) /\ r.conversation = x /\ r.step \notin {"idle", "create"}
              /\ type[x] = "group" /\ x \in Conversations /\ UNCHANGED type
              /\ \A u \in removed : role[x][u] = "member"
              /\ removed \in SUBSET Users /\ role[x] \in [Users -> Roles]
          BY <1>1, <1>3, <1>4, <2>1, <2>4, <3>4
        <5>1. /\ r \in Request /\ StepSound(r) /\ CopySound(r)
              /\ r.found \in [Users -> Roles] /\ r.gone \subseteq Users
          BY <5>a DEF Sound, Request
        <5>2. /\ q \in Request /\ q.step = r.step /\ q.conversation = x /\ q.actor = r.actor
              /\ q.found = r.found /\ q.gone = r.gone \cup more /\ q.type = r.type
              /\ q.targets = r.targets
          BY <5>a, <5>1 DEF Request
        <5>3. role'[x] = roles /\ role[x] \in [Users -> Roles]
          BY <5>a, <1>6
        <5>4. /\ \A u \in Users : roles[u] = "owner" <=> role[x][u] = "owner"
              /\ \A u \in Users : u \notin removed => roles[u] = role[x][u]
          BY <5>a
        <5>5. roles[owner] = "owner" /\ role[x] # Nobody
          BY <5>a, <5>4 DEF Nobody
        <5>6. r.step # "fill"
          BY <5>a, <5>1, <5>5 DEF StepSound
        <5>7. r.actor \in Users
          BY <5>a, <5>1 DEF StepSound
        <5>8. StepSound(q)'
          BY <5>a, <5>1, <5>2, <5>3, <5>4, <5>5, <5>6, <5>7 DEF StepSound
        <5>9. CopySound(q)'
          <6>1. \A u \in Users : r.found[u] = "owner" => roles[u] = "owner"
            BY <5>a, <5>1, <5>4 DEF CopySound
          <6>2. \A u \in Users : r.found[u] = "member" => roles[u] # "owner"
            BY <5>a, <5>1, <5>4 DEF CopySound
          <6>3. q.step # "deleted" =>
                  \A u \in Users : r.found[u] # "none" /\ u \notin q.gone => roles[u] # "none"
            BY <5>a, <5>1, <5>2, <5>4 DEF CopySound
          <6>4. \A u \in q.gone : r.found[u] = "member"
            <7>1. \A u \in more : r.found[u] # "owner" /\ r.found[u] # "none" /\ u \in Users
              BY <5>a, <5>1 DEF CopySound
            <7>2. \A u \in more : r.found[u] = "member"
              BY <5>a, <7>1, <5>1 DEF Roles
            <7> QED
              BY <5>a, <7>2, <5>1, <5>2 DEF CopySound
          <6> QED
            BY <5>a, <6>1, <6>2, <6>3, <6>4, <5>2, <5>3, <5>5 DEF CopySound
        <5> QED
          BY <5>a, <5>2, <5>8, <5>9 DEF Sound
      <4> QED
        BY <2>4, <3>1, <3>2, <4>1
    <3> QED
      BY <3>3, <3>4
  <2> QED
    BY <2>2, <2>3, <2>4
<1>9. request' \in [Clients -> Request]
  BY <1>2, <1>8
<1>10. ASSUME NEW d \in Clients, NEW e \in Clients, d # e
       PROVE  Apart(request'[d], request'[e])
  <2>1. Apart(request[d], request[e])
    BY <1>10 DEF ServiceInv
  <2> QED
    BY <2>1, <1>1, <1>8 DEF Apart
<1>11. /\ (type \in [Conversations -> Types])' /\ (name \in [Conversations -> Titles])'
       /\ overlapped' \subseteq SUBSET Users /\ raced' \subseteq Conversations
  BY <1>1 DEF ServiceInv
<1> QED
  BY <1>6, <1>7, <1>8, <1>9, <1>10, <1>11 DEF ServiceInv
(* What SaveSettings inserts again are members.                            *)
LEMMA WrittenBackAreMembers ==
  ASSUME ServiceInv, NEW c \in Clients, request[c].step = "save",
         Members(request[c].conversation) = Found(c) \ request[c].gone
  PROVE  LET x == request[c].conversation IN
         /\ x \in Conversations /\ type[x] # "none"
         /\ request[c].gone \subseteq Users
         /\ \A u \in request[c].gone : request[c].found[u] = "member" /\ role[x][u] = "none"
         /\ request[c].gone # {} =>
              type[x] = "group" /\ \E u \in Users : role[x][u] = "owner"
<1>1. /\ request[c] \in Request /\ StepSound(request[c]) /\ CopySound(request[c])
      /\ request[c].gone \subseteq Users
  BY RequestFacts DEF Sound
<1>2. request[c].conversation \in Conversations /\ type[request[c].conversation] # "none"
  BY <1>1 DEF StepSound
<1>3. \A u \in request[c].gone : request[c].found[u] = "member"
  BY <1>1 DEF CopySound
<1>4. \A u \in request[c].gone : role[request[c].conversation][u] = "none"
  BY <1>1 DEF Members
<1>5. request[c].gone # {} => /\ type[request[c].conversation] = "group"
                              /\ \E u \in Users : role[request[c].conversation][u] = "owner"
  BY <1>1 DEF CopySound
<1> QED
  BY <1>1, <1>2, <1>3, <1>4, <1>5

LEMMA SaveSettingsSound ==
  ASSUME ServiceInv, NEW c \in Clients, NEW hold \in SUBSET Clients, SaveSettings(c, hold)
  PROVE  ServiceInv'
<1> PICK x : x = request[c].conversation
  OBVIOUS
<1> PICK gone : gone = request[c].gone
  OBVIOUS
<1> PICK roles : roles = [u \in Users |-> IF u \in gone THEN request[c].found[u] ELSE role[x][u]]
  OBVIOUS
<1>1. /\ request[c].step = "save" /\ Members(x) = Found(c) \ gone
      /\ role' = [role EXCEPT ![x] = roles]
      /\ name' = [name EXCEPT ![x] = request[c].newName]
      /\ raced' = raced \cup {y \in {x} : gone # {} \/ name[x] # request[c].oldName}
      /\ UNCHANGED <<type, overlapped>>
  BY DEF SaveSettings
<1>2. request' = [d \in Clients |->
       IF d = c THEN Idle
       ELSE IF request[d].conversation = x /\ d \in hold
            THEN [request[d] EXCEPT !.gone = @ \ gone]
       ELSE request[d]]
  BY DEF SaveSettings
<1>3. /\ x \in Conversations /\ type[x] # "none" /\ gone \subseteq Users
      /\ \A u \in gone : request[c].found[u] = "member" /\ role[x][u] = "none"
      /\ gone # {} => \E u \in Users : role[x][u] = "owner"
  BY <1>1, WrittenBackAreMembers
<1>4. role[x] \in [Users -> Roles]
  BY <1>3 DEF ServiceInv
<1>5. roles \in [Users -> Roles]
  BY <1>3, <1>4 DEF Roles
<1>6. /\ \A u \in Users : roles[u] = "owner" <=> role[x][u] = "owner"
      /\ \A u \in Users : role[x][u] # "none" => roles[u] # "none"
      /\ \A u \in gone : roles[u] = "member"
  BY <1>3, <1>4
<1>7. (\E u \in Users : role[x][u] = "owner") \/ roles = role[x]
  BY <1>3, <1>4
<1>8. /\ role' \in [Conversations -> [Users -> Roles]]
      /\ \A y \in Conversations : RolesSound(type'[y], role'[y])
      /\ \A r : Sound(r) => Sound(r)'
  <2>1. role' = [role EXCEPT ![x] = roles] /\ UNCHANGED type
    BY <1>1
  <2>2. role' \in [Conversations -> [Users -> Roles]]
    BY <2>1, <1>3, <1>5, <1>6, <1>7, MembersGrow
  <2>3. \A y \in Conversations : RolesSound(type'[y], role'[y])
    BY <2>1, <1>3, <1>5, <1>6, <1>7, MembersGrow DEF RolesSound
  <2>4. \A r : Sound(r) => Sound(r)'
    BY <2>1, <1>3, <1>5, <1>6, <1>7, MembersGrow
  <2> QED
    BY <2>2, <2>3, <2>4
<1>9. role'[x] = roles
  BY <1>1, <1>3 DEF ServiceInv
<1>10. ASSUME NEW d \in Clients
       PROVE  /\ request'[d] \in Request /\ Sound(request[d])'
              /\ \/ request'[d] = Idle
                 \/ /\ request'[d].step = request[d].step
                    /\ request'[d].conversation = request[d].conversation
                    /\ request'[d].found = request[d].found
  <2> PICK r : r = request[d]
    OBVIOUS
  <2>1. /\ r \in Request /\ Sound(r) /\ r.gone \subseteq Users
    BY RequestFacts DEF Sound
  <2>2. Sound(r)'
    BY <2>1, <1>8
  <2>3. CASE d = c
    <3>1. request'[d] = Idle
      BY <1>2, <2>3
    <3> QED
      BY <3>1, IdleSound, <1>8
  <2>4. CASE d # c /\ ~(r.conversation = x /\ d \in hold)
    <3>1. request'[d] = r
      BY <1>2, <2>4
    <3> QED
      BY <3>1, <2>1, <2>2
  <2>5. CASE d # c /\ r.conversation = x /\ d \in hold
    <3> PICK q : q = [r EXCEPT !.gone = @ \ gone]
      OBVIOUS
    <3>1. request'[d] = q
      BY <1>2, <2>5
    <3>2. /\ q \in Request /\ q.step = r.step /\ q.conversation = r.conversation
          /\ q.found = r.found /\ q.gone = r.gone \ gone /\ q.actor = r.actor
          /\ q.type = r.type /\ q.targets = r.targets
      BY <2>1 DEF Request
    <3>3. StepSound(r)' /\ CopySound(r)'
      BY <2>2 DEF Sound
    <3>4. StepSound(q)'
      <4>1. CASE r.step = "idle"
        <5>1. r.gone = {}
          BY <2>1, <4>1 DEF Sound, StepSound, Idle
        <5>2. q = r
          BY <5>1, <2>1 DEF Request
        <5> QED
          BY <5>2, <3>3
      <4>2. CASE r.step # "idle"
        <5>1. r.step = "create" => r.gone = {}
          BY <2>1 DEF Sound, StepSound
        <5> QED
          BY <4>2, <5>1, <3>2, <3>3 DEF StepSound
      <4> QED
        BY <4>1, <4>2
    <3>5. CopySound(q)'
      BY <1>6, <1>9, <2>5, <3>2, <3>3 DEF CopySound
    <3> QED
      BY <3>1, <3>2, <3>4, <3>5 DEF Sound
  <2> QED
    BY <2>3, <2>4, <2>5
<1>11. request' \in [Clients -> Request]
  BY <1>2, <1>10
<1>12. ASSUME NEW d \in Clients, NEW e \in Clients, d # e
       PROVE  Apart(request'[d], request'[e])
  <2>1. Apart(request[d], request[e])
    BY <1>12 DEF ServiceInv
  <2>2. Idle.step = "idle"
    BY DEF Idle
  <2> QED
    BY <2>1, <2>2, <1>10 DEF Apart
<1>13. name' \in [Conversations -> Titles]
  <2>1. request[c].newName \in Titles
    BY RequestFacts DEF Request
  <2> QED
    BY <2>1, <1>1 DEF ServiceInv
<1>14. /\ (type \in [Conversations -> Types])'
       /\ overlapped' \subseteq SUBSET Users /\ raced' \subseteq Conversations
  BY <1>1, <1>3 DEF ServiceInv
<1> QED
  BY <1>8, <1>10, <1>11, <1>12, <1>13, <1>14 DEF ServiceInv

LEMMA ServeSound ==
  ASSUME ServiceInv, NEW c \in Clients, Serve(c)
  PROVE  ServiceInv'
BY SaveConversationSound, SaveParticipantsSound, CheckAdminSound, InsertParticipantsSound,
   FindParticipantsSound, DeleteParticipantsSound, CheckSettingsSound, SaveSettingsSound
   DEF Serve

LEMMA ServiceInvStays == ServiceInv /\ [ConvNext]_convVars => ServiceInv'
<1> SUFFICES ASSUME ServiceInv, [ConvNext]_convVars PROVE ServiceInv'
  OBVIOUS
<1>1. CASE ConvNext
  BY <1>1, AskSound, ServeSound, EndSound DEF ConvNext
<1>2. CASE UNCHANGED convVars
  <2>1. UNCHANGED <<type, name, role, request, overlapped, raced>>
    BY <1>2 DEF convVars
  <2>2. \A r : Sound(r) => Sound(r)'
    BY <2>1 DEF Sound, StepSound, CopySound
  <2> QED
    BY <2>1, <2>2 DEF ServiceInv, RolesSound
<1> QED
  BY <1>1, <1>2

(* What every open request may count on holds throughout.                 *)
THEOREM ServiceIsSound == ConvSpec => []ServiceInv
BY InitSound, ServiceInvStays, PTL DEF ConvSpec

(* A participant's row exists only for a saved conversation, and an open   *)
(* request works on a saved conversation for a user who exists.            *)
THEOREM RowsAreTyped == ConvSpec => []TypeOK
BY ServiceIsSound, InvGives, PTL

(* However requests overlap, a group with participants has one owner.      *)
THEOREM OwnersStay == ConvSpec => []OwnerStays
BY ServiceIsSound, InvGives, PTL
-----------------------------------------------------------------------------
(* Direct chats. *)

Looks(r) == r.type = "direct" /\ r.step \in {"create", "fill"}

(* A step that makes no direct chat and does not look for one.             *)
LEMMA NoNewChat ==
  ASSUME PairInv,
         \A x \in Conversations, pair \in SUBSET Users :
           pair # {} /\ IsDirectChat(x, pair)' => IsDirectChat(x, pair),
         \A d \in Clients : Looks(request'[d]) =>
           /\ Looks(request[d]) /\ request'[d].targets = request[d].targets
           /\ request[d].targets \in SUBSET Users /\ request[d].targets # {},
         overlapped \subseteq overlapped'
  PROVE  PairInv'
<1>1. LookInv'
  <2> SUFFICES ASSUME NEW c \in Clients, Looks(request'[c])
               PROVE  \/ request'[c].targets \in overlapped'
                      \/ /\ \A x \in Conversations : ~IsDirectChat(x, request[c].targets)'
                         /\ \A d \in Clients \ {c} : ~(d \in Looking(request[c].targets))'
    BY DEF LookInv, Looks
  <2>1. /\ Looks(request[c]) /\ request'[c].targets = request[c].targets
        /\ request[c].targets \in SUBSET Users /\ request[c].targets # {}
    OBVIOUS
  <2>2. CASE request[c].targets \in overlapped
    BY <2>1, <2>2
  <2>3. CASE /\ \A x \in Conversations : ~IsDirectChat(x, request[c].targets)
             /\ \A d \in Clients \ {c} : ~(d \in Looking(request[c].targets))
    <3>1. ASSUME NEW x \in Conversations PROVE ~IsDirectChat(x, request[c].targets)'
      BY <2>1, <2>3 DEF IsDirectChat, Members
    <3>2. ASSUME NEW d \in Clients \ {c} PROVE ~(d \in Looking(request[c].targets))'
      BY <2>1, <2>3 DEF Looking, Looks
    <3> QED
      BY <3>1, <3>2
  <2> QED
    BY <2>1, <2>2, <2>3 DEF PairInv, LookInv, Looks
<1>2. OneDirectChat'
  <2>1. \A u, v \in Users : {u, v} \in SUBSET Users /\ {u, v} # {}
    OBVIOUS
  <2> SUFFICES ASSUME NEW u \in Users, NEW v \in Users, NEW x \in Conversations,
                      NEW y \in Conversations, u # v,
                      IsDirectChat(x, {u, v})', IsDirectChat(y, {u, v})'
               PROVE  x = y \/ {u, v} \in overlapped'
    BY DEF OneDirectChat
  <2>2. IsDirectChat(x, {u, v}) /\ IsDirectChat(y, {u, v})
    BY <2>1
  <2> QED
    BY <2>2 DEF PairInv, OneDirectChat
<1> QED
  BY <1>1, <1>2 DEF PairInv

LEMMA FindDirectChatPairs ==
  ASSUME ServiceInv, PairInv, NEW c \in Clients, NEW u \in Users, NEW v \in Users,
         FindDirectChat(c, u, v)
  PROVE  PairInv'
<1> PICK q : q = [Idle EXCEPT !.step = "create", !.type = "direct", !.actor = u,
                             !.targets = {u, v}]
  OBVIOUS
<1>1. /\ q.step = "create" /\ q.type = "direct" /\ q.targets = {u, v}
  BY DEF Idle
<1>2. /\ u # v /\ request[c].step = "idle" /\ request' = [request EXCEPT ![c] = q]
      /\ \A x \in Conversations : ~IsDirectChat(x, {u, v})
      /\ overlapped' = overlapped \cup {pair \in {{u, v}} : Looking(pair) # {}}
      /\ UNCHANGED <<type, name, role, raced>>
  BY DEF FindDirectChat, Opens
<1>3. \A d \in Clients : request'[d] = IF d = c THEN q ELSE request[d]
  BY <1>2 DEF ServiceInv
<1>4. overlapped \subseteq overlapped' /\ (Looking({u, v}) # {} => {u, v} \in overlapped')
  BY <1>2
<1>5. \A x \in Conversations : \A p : IsDirectChat(x, p)' <=> IsDirectChat(x, p)
  BY <1>2 DEF IsDirectChat, Members
<1>6. \A d \in Clients \ {c} : \A p : (d \in Looking(p))' <=> d \in Looking(p)
  BY <1>3 DEF Looking
<1>7. ASSUME NEW d \in Clients, request'[d].type = "direct",
             request'[d].step \in {"create", "fill"}
      PROVE  \/ request'[d].targets \in overlapped'
             \/ /\ \A x \in Conversations : ~IsDirectChat(x, request[d].targets)'
                /\ \A e \in Clients \ {d} : ~(e \in Looking(request[d].targets))'
  <2>1. CASE d = c
    <3>1. request'[d].targets = {u, v}
      BY <2>1, <1>1, <1>3
    <3>2. CASE Looking({u, v}) # {}
      BY <3>1, <3>2, <1>4
    <3>3. CASE Looking({u, v}) = {}
      <4>1. \A x \in Conversations : ~IsDirectChat(x, {u, v})'
        BY <1>2, <1>5
      <4>2. \A e \in Clients \ {d} : ~(e \in Looking({u, v}))'
        BY <2>1, <3>3, <1>6
      <4> QED
        BY <3>1, <4>1, <4>2 DEF IsDirectChat, Members, Looking
    <3> QED
      BY <3>2, <3>3
  <2>2. CASE d # c
    <3>1. request'[d] = request[d]
      BY <2>2, <1>3
    <3>2. CASE request[d].targets = {u, v}
      <4>1. d \in Looking({u, v})
        BY <1>7, <3>1, <3>2 DEF Looking
      <4> QED
        BY <3>1, <3>2, <4>1, <1>4
    <3>3. CASE request[d].targets # {u, v}
      <4>1. CASE request[d].targets \in overlapped
        BY <3>1, <4>1, <1>4
      <4>2. CASE /\ \A x \in Conversations : ~IsDirectChat(x, request[d].targets)
                 /\ \A e \in Clients \ {d} : ~(e \in Looking(request[d].targets))
        <5>1. \A x \in Conversations : ~IsDirectChat(x, request[d].targets)'
          BY <3>1, <4>2, <1>5 DEF IsDirectChat, Members
        <5>2. ASSUME NEW e \in Clients \ {d} PROVE ~(e \in Looking(request[d].targets))'
          BY <3>1, <3>3, <4>2, <1>1, <1>3, <5>2 DEF Looking
        <5> QED
          BY <5>1, <5>2
      <4> QED
        BY <4>1, <4>2, <3>1, <1>7 DEF PairInv, LookInv
    <3> QED
      BY <3>2, <3>3
  <2> QED
    BY <2>1, <2>2
<1>8. LookInv'
  BY <1>7 DEF LookInv
<1>9. OneDirectChat'
  BY <1>4, <1>5 DEF PairInv, OneDirectChat
<1> QED
  BY <1>8, <1>9 DEF PairInv

LEMMA SaveParticipantsPairs ==
  ASSUME ServiceInv, PairInv, NEW c \in Clients, SaveParticipants(c)
  PROVE  PairInv'
<1> PICK x : x = request[c].conversation
  OBVIOUS
<1> PICK t : t = request[c].targets
  OBVIOUS
<1>1. /\ request[c].step = "fill" /\ UNCHANGED <<type, name, overlapped, raced>>
      /\ request' = [request EXCEPT ![c] = Idle]
      /\ role' = [role EXCEPT ![x] = [u \in Users |->
           IF u \notin t THEN "none"
           ELSE IF request[c].type = "group" /\ u = request[c].actor THEN "owner"
           ELSE "member"]]
  BY DEF SaveParticipants
<1>2. /\ x \in Conversations /\ type[x] = request[c].type
      /\ request[c].type \in {"direct", "group"}
      /\ request[c].type = "direct" => \E u, v \in Users : u # v /\ t = {u, v}
  BY <1>1, RequestFacts DEF Sound, StepSound
<1>3. \A y \in Conversations : y # x => \A p : IsDirectChat(y, p)' <=> IsDirectChat(y, p)
  BY <1>1 DEF ServiceInv, IsDirectChat, Members
<1>4. \A p : IsDirectChat(x, p)' => type[x] = "direct" /\ p \subseteq t
  <2>1. ASSUME NEW p, IsDirectChat(x, p)' PROVE type[x] = "direct" /\ p \subseteq t
    <3>1. type[x] = "direct" /\ p \subseteq Members(x)'
      BY <2>1, <1>1 DEF IsDirectChat
    <3>2. \A u \in Members(x)' : u \in t
      BY <1>1, <1>2 DEF Members, ServiceInv
    <3> QED
      BY <3>1, <3>2
  <2> QED
    BY <2>1
<1>5. \A d \in Clients : request'[d] = IF d = c THEN Idle ELSE request[d]
  BY <1>1 DEF ServiceInv
<1>6. Idle.type = "none"
  BY DEF Idle
<1>7. type[x] = "direct" => /\ c \in Looking(t)
                            /\ \/ t \in overlapped
                               \/ \A y \in Conversations : ~IsDirectChat(y, t)
  <2> SUFFICES ASSUME type[x] = "direct"
               PROVE  /\ c \in Looking(t)
                      /\ t \in overlapped \/ \A y \in Conversations : ~IsDirectChat(y, t)
    OBVIOUS
  <2>1. c \in Looking(t)
    BY <1>1, <1>2 DEF Looking
  <2> QED
    BY <2>1, <1>1, <1>2 DEF PairInv, LookInv
<1>8. ASSUME NEW d \in Clients, request'[d].type = "direct",
             request'[d].step \in {"create", "fill"}
      PROVE  \/ request'[d].targets \in overlapped'
             \/ /\ \A y \in Conversations : ~IsDirectChat(y, request[d].targets)'
                /\ \A e \in Clients \ {d} : ~(e \in Looking(request[d].targets))'
  <2> PICK s : s = request[d].targets
    OBVIOUS
  <2>1. d # c /\ request'[d] = request[d]
    BY <1>5, <1>6, <1>8
  <2>2. \E u, v \in Users : u # v /\ s = {u, v}
    BY <2>1, <1>8, RequestFacts DEF Sound, StepSound
  <2>3. CASE s \in overlapped
    BY <2>1, <2>3, <1>1
  <2>4. CASE /\ \A y \in Conversations : ~IsDirectChat(y, s)
             /\ \A e \in Clients \ {d} : ~(e \in Looking(s))
    <3>1. type[x] = "direct" => s # t
      BY <1>7, <2>1, <2>4
    <3>2. type[x] = "direct" => ~(s \subseteq t)
      BY <3>1, <2>2, <1>2
    <3>3. \A y \in Conversations : ~IsDirectChat(y, s)'
      BY <1>3, <1>4, <2>4, <3>2
    <3>4. ASSUME NEW e \in Clients \ {d} PROVE ~(e \in Looking(s))'
      BY <1>5, <1>6, <2>4, <3>4 DEF Looking
    <3>5. request[d].targets' = s
      BY <2>1
    <3>6. \A y \in Conversations : ~IsDirectChat(y, request[d].targets)'
      BY <3>3, <3>5 DEF IsDirectChat, Members
    <3>7. \A e \in Clients \ {d} : ~(e \in Looking(request[d].targets))'
      BY <3>4, <3>5 DEF Looking
    <3> QED
      BY <3>6, <3>7
  <2> QED
    BY <2>1, <2>3, <2>4, <1>8 DEF PairInv, LookInv
<1>9. LookInv'
  BY <1>8 DEF LookInv
<1>10. OneDirectChat'
  <2> SUFFICES ASSUME NEW u \in Users, NEW v \in Users, NEW y \in Conversations,
                      NEW z \in Conversations, u # v,
                      IsDirectChat(y, {u, v})', IsDirectChat(z, {u, v})', y # z
               PROVE  {u, v} \in overlapped
    BY <1>1 DEF OneDirectChat
  <2>1. CASE y # x /\ z # x
    BY <2>1, <1>3 DEF PairInv, OneDirectChat
  <2>2. ASSUME NEW w \in Conversations, w # x, IsDirectChat(w, {u, v})', IsDirectChat(x, {u, v})'
        PROVE  {u, v} \in overlapped
    <3>1. type[x] = "direct" /\ {u, v} \subseteq t
      BY <2>2, <1>4
    <3>2. {u, v} = t
      BY <3>1, <1>2
    <3> QED
      BY <2>2, <3>1, <3>2, <1>3, <1>7
  <2> QED
    BY <2>1, <2>2
<1> QED
  BY <1>9, <1>10 DEF PairInv

LEMMA PairInvStays == ServiceInv /\ PairInv /\ [ConvNext]_convVars => PairInv'
<1> SUFFICES ASSUME ServiceInv, PairInv, [ConvNext]_convVars PROVE PairInv'
  OBVIOUS
<1>1. ASSUME NEW d \in Clients, Looks(request[d])
      PROVE  request[d].targets \in SUBSET Users /\ request[d].targets # {}
  BY <1>1, RequestFacts DEF Looks, Sound, StepSound
<1>2. ASSUME UNCHANGED <<type, role, overlapped>>,
             \A d \in Clients : Looks(request'[d]) =>
               Looks(request[d]) /\ request'[d].targets = request[d].targets
      PROVE  PairInv'
  <2>1. \A x \in Conversations : \A p : IsDirectChat(x, p)' => IsDirectChat(x, p)
    BY <1>2 DEF IsDirectChat, Members
  <2> QED
    BY <1>1, <1>2, <2>1, NoNewChat
<1>3. ASSUME UNCHANGED <<type, overlapped>>, NEW x \in Conversations, NEW roles,
             role' = [role EXCEPT ![x] = roles],
             type[x] = "direct" => \A u \in Users : role[x][u] = "none" => roles[u] = "none",
             \A d \in Clients : Looks(request'[d]) =>
               Looks(request[d]) /\ request'[d].targets = request[d].targets
      PROVE  PairInv'
  <2>1. \A y \in Conversations : role'[y] = IF y = x THEN roles ELSE role[y]
    BY <1>3 DEF ServiceInv
  <2>2. \A y \in Conversations : \A p : IsDirectChat(y, p)' => IsDirectChat(y, p)
    BY <1>3, <2>1 DEF IsDirectChat, Members
  <2> QED
    BY <1>1, <1>3, <2>2, NoNewChat
<1>4. ASSUME NEW c \in Clients, NEW q, request' = [request EXCEPT ![c] = q],
             Looks(q) => Looks(request[c]) /\ q.targets = request[c].targets
      PROVE  \A d \in Clients : Looks(request'[d]) =>
               Looks(request[d]) /\ request'[d].targets = request[d].targets
  BY <1>4 DEF ServiceInv
<1>5. ASSUME NEW c \in Clients, Ask(c) PROVE PairInv'
  <2>1. CASE \E u, v \in Users : FindDirectChat(c, u, v)
    BY <2>1, FindDirectChatPairs
  <2>2. CASE \E u \in Users, us \in SUBSET Users, title \in Names : CreateGroupChat(c, u, us, title)
    <3>1. PICK u \in Users, us \in SUBSET Users, title \in Names : CreateGroupChat(c, u, us, title)
      BY <2>2
    <3> PICK q : q = [Idle EXCEPT !.step = "create", !.type = "group", !.actor = u,
                           !.targets = us \cup {u}, !.newName = title]
      OBVIOUS
    <3>2. request' = [request EXCEPT ![c] = q] /\ ~Looks(q) /\ UNCHANGED <<type, role, overlapped>>
      BY <3>1 DEF CreateGroupChat, Opens, Looks, Idle
    <3> QED
      BY <3>2, <1>2, <1>4
  <2>3. ASSUME NEW step \in {"checkAdd", "checkRemove", "checkSettings"}, NEW x, NEW u,
               NEW us, NEW title, GetConversation(c, step, x, u, us, title)
        PROVE  PairInv'
    <3> PICK q : q = [Idle EXCEPT !.step = step, !.type = type[x], !.conversation = x,
                           !.actor = u, !.targets = us, !.found = role[x],
                           !.oldName = name[x], !.newName = title]
      OBVIOUS
    <3>2. request' = [request EXCEPT ![c] = q] /\ ~Looks(q) /\ UNCHANGED <<type, role, overlapped>>
      BY <2>3 DEF GetConversation, Opens, Looks, Idle
    <3> QED
      BY <3>2, <1>2, <1>4
  <2> QED
    BY <1>5, <2>1, <2>2, <2>3 DEF Ask, AddParticipants, RemoveParticipants, UpdateSettings
<1>6. ASSUME NEW c \in Clients, NEW x \in Conversations, SaveConversation(c, x) PROVE PairInv'
  <2> PICK q : q = [request[c] EXCEPT !.step = "fill", !.conversation = x]
    OBVIOUS
  <2>1. /\ request' = [request EXCEPT ![c] = q] /\ request[c].step = "create" /\ type[x] = "none"
        /\ type' = [type EXCEPT ![x] = request[c].type] /\ UNCHANGED <<role, overlapped>>
    BY <1>6 DEF SaveConversation, ServiceInv
  <2>2. q.type = request[c].type /\ q.targets = request[c].targets
    BY RequestFacts DEF Request
  <2>3. \A d \in Clients : Looks(request'[d]) =>
          Looks(request[d]) /\ request'[d].targets = request[d].targets
    BY <2>1, <2>2, <1>4 DEF Looks
  <2>4. role[x] = Nobody
    BY <2>1 DEF ServiceInv, RolesSound
  <2>5. ASSUME NEW y \in Conversations, NEW p \in SUBSET Users, p # {}, IsDirectChat(y, p)'
        PROVE  IsDirectChat(y, p)
    <3>1. CASE y = x
      BY <2>1, <2>4, <2>5, <3>1 DEF IsDirectChat, Members, Nobody
    <3>2. CASE y # x
      BY <2>1, <2>5, <3>2 DEF IsDirectChat, Members, ServiceInv
    <3> QED
      BY <3>1, <3>2
  <2> QED
    BY <1>1, <2>1, <2>3, <2>5, NoNewChat
<1>7. ASSUME NEW c \in Clients, CheckAdmin(c) \/ FindParticipants(c) \/ CheckSettings(c)
      PROVE  PairInv'
  <2>1. PICK q : request' = [request EXCEPT ![c] = q] /\ q.step \in {"insert", "find", "delete", "save"}
    <3>1. CASE CheckAdmin(c) \/ CheckSettings(c)
      <4>1. PICK step \in {"insert", "find", "save"} : request' = [request EXCEPT ![c].step = step]
        BY <3>1 DEF CheckAdmin, CheckSettings, Proceeds
      <4> PICK q : q = [request[c] EXCEPT !.step = step]
        OBVIOUS
      <4>2. q.step = step
        BY RequestFacts DEF Request
      <4>3. request' = [request EXCEPT ![c] = q]
        BY <4>1 DEF ServiceInv
      <4> QED
        BY <4>2, <4>3
    <3>2. CASE FindParticipants(c)
      <4>1. PICK f : request' = [request EXCEPT ![c].step = "delete", ![c].gone = {}, ![c].found = f]
        BY <3>2 DEF FindParticipants
      <4> PICK q : q = [request[c] EXCEPT !.step = "delete", !.gone = {}, !.found = f]
        OBVIOUS
      <4>2. q.step = "delete"
        BY RequestFacts DEF Request
      <4>3. request' = [request EXCEPT ![c] = q]
        BY <4>1 DEF ServiceInv
      <4> QED
        BY <4>2, <4>3
    <3> QED
      BY <1>7, <3>1, <3>2
  <2>2. ~Looks(q) /\ UNCHANGED <<type, role, overlapped>>
    BY <1>7, <2>1 DEF Looks, CheckAdmin, CheckSettings, FindParticipants
  <2> QED
    BY <2>1, <2>2, <1>2, <1>4
<1>8. ASSUME NEW c \in Clients, InsertParticipants(c) PROVE PairInv'
  <2> PICK x : x = request[c].conversation
    OBVIOUS
  <2> PICK q : q = [request[c] EXCEPT !.step = "inserted"]
    OBVIOUS
  <2>1. /\ request[c].step = "insert" /\ request' = [request EXCEPT ![c] = q]
        /\ UNCHANGED <<type, overlapped>>
    BY <1>8 DEF InsertParticipants, Proceeds, ServiceInv
  <2>2. PICK roles : role' = [role EXCEPT ![x] = roles]
    BY <1>8 DEF InsertParticipants
  <2>3. x \in Conversations /\ type[x] = "group"
    BY <2>1, RequestFacts DEF Sound, StepSound
  <2>4. q.step = "inserted"
    BY RequestFacts DEF Request
  <2>5. \A d \in Clients : Looks(request'[d]) =>
          Looks(request[d]) /\ request'[d].targets = request[d].targets
    BY <2>1, <2>4, <1>4 DEF Looks
  <2> QED
    BY <2>1, <2>2, <2>3, <2>5, <1>3
<1>9. ASSUME NEW c \in Clients, DeleteParticipants(c) PROVE PairInv'
  <2> PICK x : x = request[c].conversation
    OBVIOUS
  <2>1. request[c].step = "delete" /\ UNCHANGED <<type, overlapped>>
    BY <1>9 DEF DeleteParticipants
  <2>2. PICK roles : role' = [role EXCEPT ![x] = roles]
    BY <1>9 DEF DeleteParticipants
  <2>3. x \in Conversations /\ type[x] = "group"
    BY <2>1, RequestFacts DEF Sound, StepSound
  <2>4. ASSUME NEW d \in Clients, Looks(request'[d])
        PROVE  Looks(request[d]) /\ request'[d].targets = request[d].targets
    <3>1. request[d] \in Request
      BY RequestFacts
    <3> PICK g : g = request[d].gone \cup ((Found(c) \ request[c].gone) \cap Found(d))
      OBVIOUS
    <3>2. request'[d] = IF d = c THEN [request[c] EXCEPT !.step = "deleted"]
                        ELSE IF request[d].conversation = x THEN [request[d] EXCEPT !.gone = g]
                        ELSE request[d]
      BY <1>9 DEF DeleteParticipants
    <3> QED
      BY <2>4, <3>1, <3>2 DEF Looks, Request
  <2> QED
    BY <2>1, <2>2, <2>3, <2>4, <1>3
<1>10. ASSUME NEW c \in Clients, NEW hold \in SUBSET Clients, SaveSettings(c, hold)
       PROVE  PairInv'
  <2> PICK x : x = request[c].conversation
    OBVIOUS
  <2> PICK roles : roles = [u \in Users |->
                     IF u \in request[c].gone THEN request[c].found[u] ELSE role[x][u]]
    OBVIOUS
  <2>1. /\ request[c].step = "save" /\ UNCHANGED <<type, overlapped>>
        /\ role' = [role EXCEPT ![x] = roles]
        /\ Members(x) = Found(c) \ request[c].gone
    BY <1>10 DEF SaveSettings
  <2>2. /\ x \in Conversations
        /\ request[c].gone # {} => type[x] = "group"
    BY <2>1, WrittenBackAreMembers
  <2>3. type[x] = "direct" => \A u \in Users : role[x][u] = "none" => roles[u] = "none"
    BY <2>2
  <2>4. ASSUME NEW d \in Clients, Looks(request'[d])
        PROVE  Looks(request[d]) /\ request'[d].targets = request[d].targets
    <3>1. request[d] \in Request /\ ~Looks(Idle)
      BY RequestFacts DEF Looks, Idle
    <3> PICK g : g = request[d].gone \ request[c].gone
      OBVIOUS
    <3>2. request'[d] = IF d = c THEN Idle
                        ELSE IF request[d].conversation = x /\ d \in hold
                             THEN [request[d] EXCEPT !.gone = g]
                        ELSE request[d]
      BY <1>10 DEF SaveSettings
    <3> QED
      BY <2>4, <3>1, <3>2 DEF Looks, Request
  <2> QED
    BY <2>1, <2>2, <2>3, <2>4, <1>3
<1>11. ASSUME NEW c \in Clients, Return(c) \/ RequestFails(c) PROVE PairInv'
  <2>1. request' = [request EXCEPT ![c] = Idle] /\ UNCHANGED <<type, role, overlapped>>
    BY <1>11 DEF Return, RequestFails
  <2>2. ~Looks(Idle)
    BY DEF Looks, Idle
  <2> QED
    BY <2>1, <2>2, <1>2, <1>4
<1>12. CASE UNCHANGED convVars
  <2>1. UNCHANGED <<type, role, overlapped, request>>
    BY <1>12 DEF convVars
  <2> QED
    BY <2>1, <1>2 DEF Looks
<1>13. CASE ConvNext
  <2>1. ASSUME NEW c \in Clients, Serve(c) PROVE PairInv'
    BY <2>1, <1>6, <1>7, <1>8, <1>9, <1>10, SaveParticipantsPairs DEF Serve
  <2> QED
    BY <1>13, <2>1, <1>5, <1>11 DEF ConvNext
<1> QED
  BY <1>12, <1>13

(* Whoever overlaps and whatever fails, two users have one direct chat     *)
(* unless two requests looked for it at the same time.                     *)
THEOREM DirectChatsAreOne == ConvSpec => []OneDirectChat
<1>1. PairInv => OneDirectChat
  BY DEF PairInv
<1> QED
  BY <1>1, InitSound, ServiceInvStays, PairInvStays, PTL DEF ConvSpec
-----------------------------------------------------------------------------
(* Who changes the participants. *)

LEMMA OwnerActs ==
  ASSUME ServiceInv, NEW c \in Clients, request[c].step \in {"insert", "delete"}
  PROVE  IsAdmin(request[c].actor, request[c].conversation)
BY RequestFacts DEF Sound, StepSound, IsAdmin

LEMMA StepByOwner ==
  ASSUME ServiceInv, [ConvNext]_convVars, NEW x \in Conversations,
         Members(x) # {}, role'[x] # role[x]
  PROVE  \/ x \in raced'
         \/ \E c \in Clients : /\ request[c].conversation = x
                               /\ request[c].step \in {"insert", "delete"}
                               /\ IsAdmin(request[c].actor, x)
<1>1. ConvNext
  BY DEF convVars
<1>2. PICK c \in Clients : Ask(c) \/ Serve(c) \/ Return(c) \/ RequestFails(c)
  BY <1>1 DEF ConvNext
<1>3. ~(UNCHANGED role)
  OBVIOUS
<1>4. ~Ask(c) /\ ~Return(c) /\ ~RequestFails(c)
  BY <1>3 DEF Ask, FindDirectChat, CreateGroupChat, AddParticipants, RemoveParticipants,
              UpdateSettings, GetConversation, Return, RequestFails
<1>5. \/ SaveParticipants(c) \/ InsertParticipants(c) \/ DeleteParticipants(c)
      \/ \E hold \in SUBSET Clients : SaveSettings(c, hold)
  BY <1>2, <1>3, <1>4 DEF Serve, SaveConversation, CheckAdmin, FindParticipants, CheckSettings
<1>6. PICK y, roles : y = request[c].conversation /\ role' = [role EXCEPT ![y] = roles]
  BY <1>5 DEF SaveParticipants, InsertParticipants, DeleteParticipants, SaveSettings
<1>7. x = y
  BY <1>6 DEF ServiceInv
<1>8. CASE SaveParticipants(c)
  <2>1. role[x] = Nobody
    BY <1>6, <1>7, <1>8, RequestFacts DEF SaveParticipants, Sound, StepSound
  <2> QED
    BY <2>1 DEF Members, Nobody
<1>9. CASE InsertParticipants(c) \/ DeleteParticipants(c)
  <2>1. request[c].step \in {"insert", "delete"}
    BY <1>9 DEF InsertParticipants, Proceeds, DeleteParticipants
  <2> QED
    BY <2>1, <1>6, <1>7, OwnerActs
<1>10. CASE \E hold \in SUBSET Clients : SaveSettings(c, hold)
  <2>1. /\ role' = [role EXCEPT ![x] = [u \in Users |->
              IF u \in request[c].gone THEN request[c].found[u] ELSE @[u]]]
        /\ request[c].gone # {} => x \in raced'
    BY <1>6, <1>7, <1>10 DEF SaveSettings
  <2>2. request[c].gone # {}
    <3> SUFFICES ASSUME request[c].gone = {} PROVE FALSE
      OBVIOUS
    <3>1. role'[x] = [u \in Users |-> role[x][u]]
      BY <2>1 DEF ServiceInv
    <3> QED
      BY <3>1 DEF ServiceInv
  <2> QED
    BY <2>1, <2>2
<1> QED
  BY <1>5, <1>8, <1>9, <1>10

(* The rights are checked on an earlier state, yet whoever changes the     *)
(* participants of a conversation owns it when the change is made, except  *)
(* for what a raced settings update writes back.                           *)
THEOREM OwnersChangeMembers == ConvSpec => MembersChangeByOwner
<1>1. ServiceInv /\ [ConvNext]_convVars =>
        [\A x \in Conversations : Members(x) # {} /\ role'[x] # role[x] =>
           \/ x \in raced'
           \/ \E c \in Clients : /\ request[c].conversation = x
                                 /\ request[c].step \in {"insert", "delete"}
                                 /\ IsAdmin(request[c].actor, x)]_convVars
  BY StepByOwner
<1> QED
  BY <1>1, ServiceIsSound, PTL DEF ConvSpec, MembersChangeByOwner

-----------------------------------------------------------------------------
(* The tables as Membership sees them. *)

LEMMA SameView ==
  ASSUME NEW y, type'[y] = type[y], role'[y] = role[y], name'[y] = name[y],
         y \in raced' <=> y \in raced
  PROVE  View(y)' = View(y)
BY DEF View, Members

(* One conversation changes. *)
LEMMA OneViewMoves ==
  ASSUME ServiceInv, NEW x \in Conversations, NEW v, View(x)' = v,
         \A y \in Conversations \ {x} :
           /\ type'[y] = type[y] /\ role'[y] = role[y] /\ name'[y] = name[y]
           /\ y \in raced' <=> y \in raced
  PROVE  /\ seen' = [seen EXCEPT ![x] = v]
         /\ v = View(x) => UNCHANGED seen
<1>1. \A y \in Conversations \ {x} : View(y)' = View(y)
  BY SameView
<1>2. seen' = [seen EXCEPT ![x] = v]
  BY <1>1 DEF seen
<1>3. v = View(x) => UNCHANGED seen
  BY <1>1 DEF seen
<1> QED
  BY <1>2, <1>3

LEMMA SavedIsOpened ==
  ASSUME ServiceInv, NEW c \in Clients, SaveParticipants(c)
  PROVE  Promise!MembershipNext \/ UNCHANGED seen
<1> PICK x : x = request[c].conversation
  OBVIOUS
<1> PICK t : t = request[c].targets
  OBVIOUS
<1> PICK roles : roles = [u \in Users |->
         IF u \notin t THEN "none"
         ELSE IF request[c].type = "group" /\ u = request[c].actor THEN "owner"
         ELSE "member"]
  OBVIOUS
<1>1. /\ request[c].step = "fill" /\ UNCHANGED <<type, name, raced>>
      /\ role' = [role EXCEPT ![x] = roles]
  BY DEF SaveParticipants
<1>2. /\ x \in Conversations /\ type[x] = request[c].type /\ role[x] = Nobody
      /\ request[c].type \in {"direct", "group"} /\ t # {}
      /\ request[c].type = "group" => request[c].actor \in t
      /\ t \in SUBSET Users
  BY <1>1, RequestFacts DEF Sound, StepSound
<1>3. role'[x] = roles /\ \A y \in Conversations \ {x} : role'[y] = role[y]
  BY <1>1, <1>2 DEF ServiceInv
<1> PICK v : v = IF x \in raced THEN [type |-> "raced", role |-> Nobody, name |-> Null]
                 ELSE [type |-> type[x], role |-> roles, name |-> name[x]]
  OBVIOUS
<1>4. Members(x)' # {} /\ Members(x) = {}
  BY <1>2, <1>3 DEF Members, Nobody
<1>5. View(x)' = v
  BY <1>1, <1>3, <1>4 DEF View
<1>6. /\ seen' = [seen EXCEPT ![x] = v]
      /\ v = View(x) => UNCHANGED seen
  BY <1>1, <1>2, <1>3, <1>5, OneViewMoves
<1>7. CASE x \in raced
  BY <1>6, <1>7 DEF View
<1>8. CASE x \notin raced
  <2>1. seen[x].type = "none"
    BY <1>2, <1>4, <1>8 DEF seen, View
  <2>2. PICK creator \in t : request[c].type = "group" => creator = request[c].actor
    BY <1>2
  <2>3. roles = [u \in Users |->
            IF u \notin t THEN "none"
            ELSE IF type[x] = "group" /\ u = creator THEN "owner" ELSE "member"]
    BY <1>2, <2>2
  <2>4. name[x] \in Names \cup {Null}
    BY <1>2 DEF ServiceInv, Titles
  <2>5. Promise!Open(x, type[x], t, name[x])
    BY <1>2, <1>6, <1>8, <2>1, <2>2, <2>3 DEF Promise!Open
  <2> QED
    BY <1>2, <2>4, <2>5 DEF Promise!MembershipNext
<1> QED
  BY <1>7, <1>8

LEMMA InsertedIsAdmitted ==
  ASSUME ServiceInv, NEW c \in Clients, InsertParticipants(c)
  PROVE  Promise!MembershipNext \/ UNCHANGED seen
<1> PICK x : x = request[c].conversation
  OBVIOUS
<1> PICK new : new = request[c].targets \ Found(c)
  OBVIOUS
<1> PICK roles : roles = [u \in Users |-> IF u \in new THEN "member" ELSE role[x][u]]
  OBVIOUS
<1>1. /\ request[c].step = "insert" /\ new \cap Members(x) = {}
      /\ role' = [role EXCEPT ![x] = roles] /\ UNCHANGED <<type, name, raced>>
  BY DEF InsertParticipants, Proceeds
<1>2. /\ x \in Conversations /\ type[x] = "group"
      /\ request[c].actor \in Users /\ role[x][request[c].actor] = "owner"
      /\ new \in SUBSET Users
  BY <1>1, RequestFacts DEF Sound, StepSound
<1>3. role'[x] = roles /\ \A y \in Conversations \ {x} : role'[y] = role[y]
  BY <1>1, <1>2 DEF ServiceInv
<1> PICK v : v = IF x \in raced THEN [type |-> "raced", role |-> Nobody, name |-> Null]
                 ELSE [type |-> type[x], role |-> roles, name |-> name[x]]
  OBVIOUS
<1>4. Members(x)' # {} /\ Members(x) # {}
  BY <1>2, <1>3 DEF Members
<1>5. View(x)' = v
  BY <1>1, <1>3, <1>4 DEF View
<1>6. /\ seen' = [seen EXCEPT ![x] = v]
      /\ v = View(x) => UNCHANGED seen
  BY <1>1, <1>2, <1>3, <1>5, OneViewMoves
<1>7. CASE x \in raced
  BY <1>6, <1>7 DEF View
<1>8. CASE x \notin raced
  <2>1. seen[x] = [type |-> type[x], role |-> role[x], name |-> name[x]]
    BY <1>2, <1>4, <1>8 DEF seen, View
  <2>2. \A u \in new : role[x][u] = "none"
    BY <1>1, <1>2 DEF Members
  <2>3. Promise!Admit(x, new)
    <3>1. seen' = [seen EXCEPT ![x].role = roles]
      <4>1. v.type = seen[x].type /\ v = [seen[x] EXCEPT !.role = roles]
        BY <1>6, <1>8, <2>1
      <4> QED
        BY <4>1, <1>6
    <3>2. roles = [u \in Users |-> IF u \in new THEN "member" ELSE seen[x].role[u]]
      BY <2>1
    <3>3. seen[x].type = "group" /\ \A u \in new : seen[x].role[u] = "none"
      BY <1>2, <2>1, <2>2
    <3> QED
      BY <3>1, <3>2, <3>3 DEF Promise!Admit
  <2> QED
    BY <1>2, <2>3 DEF Promise!MembershipNext
<1> QED
  BY <1>7, <1>8

LEMMA DeletedIsExpelled ==
  ASSUME ServiceInv, NEW c \in Clients, DeleteParticipants(c)
  PROVE  Promise!MembershipNext \/ UNCHANGED seen
<1> PICK x : x = request[c].conversation
  OBVIOUS
<1> PICK removed : removed = Found(c) \ request[c].gone
  OBVIOUS
<1> PICK roles : roles = [u \in Users |-> IF u \in removed THEN "none" ELSE role[x][u]]
  OBVIOUS
<1>1. /\ request[c].step = "delete"
      /\ role' = [role EXCEPT ![x] = roles] /\ UNCHANGED <<type, name, raced>>
  BY DEF DeleteParticipants
<1>2. /\ x \in Conversations /\ type[x] = "group"
      /\ request[c].actor \in Users /\ role[x][request[c].actor] = "owner"
      /\ \A u \in removed : role[x][u] = "member"
  BY <1>1, RemovedAreMembers
<1>a. removed \in SUBSET Users
  BY DEF Found
<1>3. role'[x] = roles /\ \A y \in Conversations \ {x} : role'[y] = role[y]
  BY <1>1, <1>2 DEF ServiceInv
<1> PICK v : v = IF x \in raced THEN [type |-> "raced", role |-> Nobody, name |-> Null]
                 ELSE [type |-> type[x], role |-> roles, name |-> name[x]]
  OBVIOUS
<1>4. Members(x)' # {} /\ Members(x) # {}
  <2>1. roles[request[c].actor] = "owner"
    BY <1>2
  <2> QED
    BY <2>1, <1>2, <1>3 DEF Members
<1>5. View(x)' = v
  BY <1>1, <1>3, <1>4 DEF View
<1>6. /\ seen' = [seen EXCEPT ![x] = v]
      /\ v = View(x) => UNCHANGED seen
  BY <1>1, <1>2, <1>3, <1>5, OneViewMoves
<1>7. CASE x \in raced
  BY <1>6, <1>7 DEF View
<1>8. CASE x \notin raced
  <2>1. seen[x] = [type |-> type[x], role |-> role[x], name |-> name[x]]
    BY <1>2, <1>4, <1>8 DEF seen, View
  <2>2. Promise!Expel(x, removed)
    <3>1. seen' = [seen EXCEPT ![x].role = roles]
      <4>1. v.type = seen[x].type /\ v = [seen[x] EXCEPT !.role = roles]
        BY <1>6, <1>8, <2>1
      <4> QED
        BY <4>1, <1>6
    <3>2. roles = [u \in Users |-> IF u \in removed THEN "none" ELSE seen[x].role[u]]
      BY <2>1
    <3>3. seen[x].type = "group" /\ \A u \in removed : seen[x].role[u] = "member"
      BY <1>2, <2>1
    <3> QED
      BY <3>1, <3>2, <3>3 DEF Promise!Expel
  <2> QED
    BY <1>2, <1>a, <2>2 DEF Promise!MembershipNext
<1> QED
  BY <1>7, <1>8

LEMMA SavedIsRenamed ==
  ASSUME ServiceInv, NEW c \in Clients, NEW hold \in SUBSET Clients, SaveSettings(c, hold)
  PROVE  Promise!MembershipNext \/ UNCHANGED seen
<1> PICK x : x = request[c].conversation
  OBVIOUS
<1> PICK roles : roles = [u \in Users |->
        IF u \in request[c].gone THEN request[c].found[u] ELSE role[x][u]]
  OBVIOUS
<1> PICK title : title = request[c].newName
  OBVIOUS
<1>1. /\ request[c].step = "save" /\ UNCHANGED type
      /\ Members(x) = Found(c) \ request[c].gone
      /\ role' = [role EXCEPT ![x] = roles]
      /\ name' = [name EXCEPT ![x] = title]
      /\ raced' = raced \cup {y \in {x} : request[c].gone # {} \/ name[x] # request[c].oldName}
  BY DEF SaveSettings
<1>2. /\ x \in Conversations /\ type[x] # "none" /\ type[x] \in Types
      /\ title \in Titles /\ role[x] \in [Users -> Roles]
      /\ \E u \in Users : role[x][u] # "none"
  <2>1. x \in Conversations /\ type[x] # "none"
    BY <1>1, WrittenBackAreMembers
  <2>2. title \in Titles
    BY RequestFacts DEF Request
  <2>3. \E u \in Users : role[x][u] # "none"
    BY <1>1, RequestFacts DEF Sound, StepSound
  <2> QED
    BY <2>1, <2>2, <2>3 DEF ServiceInv
<1>3. /\ role'[x] = roles /\ \A y \in Conversations \ {x} : role'[y] = role[y]
      /\ name'[x] = title /\ \A y \in Conversations \ {x} : name'[y] = name[y]
      /\ \A y \in Conversations \ {x} : y \in raced' <=> y \in raced
  BY <1>1, <1>2 DEF ServiceInv
<1> PICK v : v = View(x)'
  OBVIOUS
<1>4. /\ seen' = [seen EXCEPT ![x] = v]
      /\ v = View(x) => UNCHANGED seen
  BY <1>1, <1>2, <1>3, OneViewMoves
<1>5. Members(x) # {}
  BY <1>2 DEF Members
<1>6. CASE x \in raced'
  <2>1. v = Promise!Raced
    BY <1>6 DEF View, Promise!Raced, Promise!Closed, Promise!Nobody, Nobody
  <2>2. seen[x].type # "none"
    BY <1>2, <1>5 DEF seen, View
  <2>3. Promise!Race(x)
    BY <1>4, <2>1, <2>2 DEF Promise!Race
  <2> QED
    BY <1>2, <2>3 DEF Promise!MembershipNext
<1>7. CASE x \notin raced'
  <2>1. request[c].gone = {} /\ x \notin raced
    BY <1>1, <1>7
  <2>2. roles = role[x]
    BY <1>2, <2>1
  <2>3. Members(x)' # {}
    BY <1>2, <1>3, <2>2 DEF Members
  <2>4. v = [type |-> type[x], role |-> role[x], name |-> title]
    BY <1>1, <1>3, <1>7, <2>2, <2>3 DEF View
  <2>5. seen[x] = [type |-> type[x], role |-> role[x], name |-> name[x]]
    BY <1>2, <1>5, <2>1 DEF seen, View
  <2>6. type[x] \in {"direct", "group"}
    BY <1>2 DEF Types
  <2>7. Promise!Rename(x, title)
    <3>1. seen' = [seen EXCEPT ![x].name = title]
      <4>1. v.type = seen[x].type /\ v = [seen[x] EXCEPT !.name = title]
        BY <1>4, <2>4, <2>5
      <4> QED
        BY <4>1, <1>4
    <3>2. seen[x].type \in {"direct", "group"}
      BY <2>5, <2>6
    <3> QED
      BY <3>1, <3>2 DEF Promise!Rename
  <2> QED
    BY <1>2, <2>7 DEF Promise!MembershipNext, Titles
<1> QED
  BY <1>6, <1>7

LEMMA RowIsNotSeen ==
  ASSUME ServiceInv, NEW c \in Clients, NEW x \in Conversations, SaveConversation(c, x)
  PROVE  UNCHANGED seen
<1>1. /\ type[x] = "none" /\ UNCHANGED <<role, raced>>
      /\ \A y \in Conversations \ {x} : type'[y] = type[y] /\ name'[y] = name[y]
  BY DEF SaveConversation, ServiceInv
<1>2. Members(x) = {}
  BY <1>1 DEF ServiceInv, RolesSound, Members, Nobody
<1>3. View(x)' = View(x)
  BY <1>1, <1>2 DEF View, Members
<1> QED
  BY <1>1, <1>3, OneViewMoves

LEMMA MembershipStep ==
  ServiceInv /\ [ConvNext]_convVars => [Promise!MembershipNext]_seen
<1> SUFFICES ASSUME ServiceInv, [ConvNext]_convVars
             PROVE  Promise!MembershipNext \/ UNCHANGED seen
  OBVIOUS
<1>1. UNCHANGED <<type, name, role, raced>> => UNCHANGED seen
  BY SameView DEF seen
<1>2. ASSUME NEW c \in Clients, Ask(c) \/ Return(c) \/ RequestFails(c) PROVE UNCHANGED seen
  BY <1>1, <1>2 DEF Ask, FindDirectChat, CreateGroupChat, AddParticipants, RemoveParticipants,
              UpdateSettings, GetConversation, Return, RequestFails
<1>3. ASSUME NEW c \in Clients, CheckAdmin(c) \/ FindParticipants(c) \/ CheckSettings(c)
      PROVE  UNCHANGED seen
  BY <1>1, <1>3 DEF CheckAdmin, FindParticipants, CheckSettings
<1>4. ASSUME NEW c \in Clients, Serve(c) PROVE Promise!MembershipNext \/ UNCHANGED seen
  BY <1>3, <1>4, RowIsNotSeen, SavedIsOpened, InsertedIsAdmitted, DeletedIsExpelled,
     SavedIsRenamed DEF Serve
<1>5. UNCHANGED convVars => UNCHANGED seen
  BY <1>1 DEF convVars
<1> QED
  BY <1>2, <1>4, <1>5 DEF ConvNext

(* The tables and the requests implement Membership: members come in one   *)
(* piece, direct chats never change, owners stay, and only a settings      *)
(* update that overlaps another write can undo that.                       *)
THEOREM MembershipKept == ConvSpec => KeepsMembership
<1>1. Init => Promise!MembershipInit
  BY DEF Init, Promise!MembershipInit, Promise!Closed, Promise!Nobody, Nobody, seen, View, Members
<1> QED
  BY <1>1, ServiceIsSound, MembershipStep, PTL DEF ConvSpec, KeepsMembership, Promise!MembershipSpec
-----------------------------------------------------------------------------
(* What a direct chat is stays so. *)

(* A direct chat has the members it was saved with, for ever: its          *)
(* participants are never added to nor removed, and a settings update has  *)
(* nothing to write back.                                                  *)
DirectChatsStand ==
  [][\A x \in Conversations : type[x] = "direct" /\ Members(x) # {} =>
       type'[x] = "direct" /\ role'[x] = role[x]]_convVars

LEMMA DirectStep ==
  ASSUME ServiceInv, ConvNext, NEW x \in Conversations, type[x] = "direct", Members(x) # {}
  PROVE  type'[x] = "direct" /\ role'[x] = role[x]
<1>1. PICK c \in Clients : Ask(c) \/ Serve(c) \/ Return(c) \/ RequestFails(c)
  BY DEF ConvNext
<1>2. /\ type \in [Conversations -> Types] /\ role \in [Conversations -> [Users -> Roles]]
      /\ request[c] \in Request /\ StepSound(request[c]) /\ CopySound(request[c])
  BY RequestFacts DEF ServiceInv, Sound
<1>3. type'[x] = "direct"
  BY <1>1, <1>2 DEF Ask, FindDirectChat, CreateGroupChat, AddParticipants, RemoveParticipants,
         UpdateSettings, GetConversation, Return, RequestFails, Serve, SaveConversation,
         SaveParticipants, CheckAdmin, InsertParticipants, FindParticipants,
         DeleteParticipants, CheckSettings, SaveSettings
<1>4. \/ UNCHANGED role
      \/ SaveParticipants(c) \/ InsertParticipants(c) \/ DeleteParticipants(c)
      \/ \E hold \in SUBSET Clients : SaveSettings(c, hold)
  BY <1>1 DEF Ask, FindDirectChat, CreateGroupChat, AddParticipants, RemoveParticipants,
         UpdateSettings, GetConversation, Return, RequestFails, Serve, SaveConversation,
         CheckAdmin, FindParticipants, CheckSettings
<1>5. CASE SaveParticipants(c)
  <2>1. role[request[c].conversation] = Nobody
    BY <1>2, <1>5 DEF SaveParticipants, StepSound
  <2>2. x # request[c].conversation
    BY <2>1 DEF Members, Nobody
  <2> QED
    BY <1>2, <1>3, <1>5, <2>2 DEF SaveParticipants
<1>6. CASE InsertParticipants(c) \/ DeleteParticipants(c)
  <2>1. type[request[c].conversation] = "group"
    BY <1>2, <1>6 DEF InsertParticipants, DeleteParticipants, Proceeds, StepSound
  <2> QED
    BY <1>2, <1>3, <1>6, <2>1 DEF InsertParticipants, DeleteParticipants
<1>7. CASE \E hold \in SUBSET Clients : SaveSettings(c, hold)
  <2>1. /\ request[c].step = "save"
        /\ role' = [role EXCEPT ![request[c].conversation] = [u \in Users |->
              IF u \in request[c].gone THEN request[c].found[u] ELSE @[u]]]
    BY <1>7 DEF SaveSettings
  <2>2. CASE x = request[c].conversation
    <3>1. request[c].gone = {}
      BY <1>2, <2>1, <2>2 DEF CopySound
    <3>2. role'[x] = [u \in Users |-> role[x][u]]
      BY <1>2, <2>1, <2>2, <3>1
    <3> QED
      BY <1>2, <1>3, <3>2
  <2> QED
    BY <1>2, <1>3, <2>1, <2>2
<1> QED
  BY <1>3, <1>4, <1>5, <1>6, <1>7

(* createOrGetDirectChat makes a chat between its users, and it stays one  *)
(* between them, whatever additions, removals and settings updates come.   *)
THEOREM DirectChatsHold == ConvSpec => DirectChatsStand
<1>1. ServiceInv /\ [ConvNext]_convVars =>
        [\A x \in Conversations : type[x] = "direct" /\ Members(x) # {} =>
           type'[x] = "direct" /\ role'[x] = role[x]]_convVars
  BY DirectStep
<1> QED
  BY <1>1, ServiceIsSound, PTL DEF ConvSpec, DirectChatsStand

-----------------------------------------------------------------------------
(* Where requests take turns. *)

(* No two requests look for the same direct chat at the same time.         *)
LooksTakeTurns ==
  \A c, d \in Clients :
    Looks(request[c]) /\ Looks(request[d]) /\ request[c].targets = request[d].targets => c = d

(* While a settings update is open, no other request works on its          *)
(* conversation.                                                           *)
SettingsTakeTurns ==
  \A c, d \in Clients :
    /\ request[c].step \in {"checkSettings", "save"}
    /\ request[d].step \notin {"idle", "create"}
    /\ request[c].conversation = request[d].conversation => c = d

LEMMA LookingStep ==
  ASSUME ServiceInv, overlapped = {}, LooksTakeTurns', [ConvNext]_convVars
  PROVE  overlapped' = {}
<1>1. CASE UNCHANGED overlapped
  BY <1>1
<1>2. ASSUME NEW c \in Clients, NEW u \in Users, NEW v \in Users, FindDirectChat(c, u, v)
      PROVE  overlapped' = {}
  <2> DEFINE q == [Idle EXCEPT !.step = "create", !.type = "direct", !.actor = u,
                               !.targets = {u, v}]
  <2>1. /\ request[c].step = "idle" /\ request' = [request EXCEPT ![c] = q]
        /\ overlapped' = overlapped \cup {pair \in {{u, v}} : Looking(pair) # {}}
    BY <1>2 DEF FindDirectChat, Opens
  <2>2. q.step = "create" /\ q.type = "direct" /\ q.targets = {u, v}
    BY DEF Idle
  <2> HIDE DEF q
  <2>3. ASSUME NEW d \in Looking({u, v}) PROVE FALSE
    <3>1. /\ d \in Clients /\ d # c /\ Looks(request[d]) /\ request[d].targets = {u, v}
      BY <2>1, <2>3 DEF Looking, Looks
    <3>2. request'[c] = q /\ request'[d] = request[d]
      BY <2>1, <3>1 DEF ServiceInv
    <3> QED
      BY <2>2, <3>1, <3>2 DEF LooksTakeTurns, Looks
  <2> QED
    BY <2>1, <2>3
<1> QED
  BY <1>1, <1>2
  DEF convVars, ConvNext, Ask, CreateGroupChat, AddParticipants, RemoveParticipants,
      UpdateSettings, GetConversation, Return, RequestFails, Serve, SaveConversation,
      SaveParticipants, CheckAdmin, InsertParticipants, FindParticipants,
      DeleteParticipants, CheckSettings, SaveSettings

(* createOrGetDirectChat keeps what its name says where those who look for *)
(* the same chat take turns: two users have one direct chat.               *)
THEOREM TurnsMakeOneChat ==
  ConvSpec /\ []LooksTakeTurns =>
    [](\A u, v \in Users : \A x, y \in Conversations :
         u # v /\ IsDirectChat(x, {u, v}) /\ IsDirectChat(y, {u, v}) => x = y)
<1> DEFINE One == \A u, v \in Users : \A x, y \in Conversations :
                    u # v /\ IsDirectChat(x, {u, v}) /\ IsDirectChat(y, {u, v}) => x = y
           None == overlapped = {}
<1>1. Init => None
  BY DEF Init
<1>2. ServiceInv /\ None /\ LooksTakeTurns' /\ [ConvNext]_convVars => None'
  BY LookingStep
<1>3. OneDirectChat /\ None => One
  BY DEF OneDirectChat
<1> HIDE DEF One, None
<1>4. ConvSpec /\ []LooksTakeTurns => []One
  BY <1>1, <1>2, <1>3, ServiceIsSound, DirectChatsAreOne, PTL DEF ConvSpec
<1> QED
  BY <1>4 DEF One

(* A settings update holds the participants and the name as they are.      *)
UpdateInv ==
  /\ raced = {}
  /\ \A c \in Clients : request[c].step \in {"checkSettings", "save"} =>
       request[c].gone = {} /\ request[c].oldName = name[request[c].conversation]

LEMMA UpdateKept ==
  ASSUME UpdateInv, UNCHANGED <<name, raced>>,
         \A c \in Clients : request'[c].step \in {"checkSettings", "save"} =>
           /\ request[c].step \in {"checkSettings", "save"}
           /\ request'[c].gone = request[c].gone /\ request'[c].oldName = request[c].oldName
           /\ request'[c].conversation = request[c].conversation
  PROVE  UpdateInv'
BY DEF UpdateInv

LEMMA UpdateStep ==
  ASSUME ServiceInv, UpdateInv, SettingsTakeTurns, [ConvNext]_convVars
  PROVE  UpdateInv'
<1>1. /\ request \in [Clients -> Request] /\ name \in [Conversations -> Titles]
      /\ \A c \in Clients : request[c].step \notin {"idle", "create"} =>
           request[c].conversation \in Conversations /\ type[request[c].conversation] # "none"
  BY DEF ServiceInv, Sound, StepSound
<1>2. ASSUME NEW c \in Clients, NEW q, request' = [request EXCEPT ![c] = q],
             q.step \notin {"checkSettings", "save"}, UNCHANGED <<name, raced>>
      PROVE  UpdateInv'
  <2>1. \A d \in Clients : request'[d] = IF d = c THEN q ELSE request[d]
    BY <1>1, <1>2
  <2> QED
    BY <1>2, <2>1, UpdateKept
<1>3. Idle.step = "idle"
  BY DEF Idle
<1>4. ASSUME NEW c \in Clients,
             \/ \E u, v \in Users : FindDirectChat(c, u, v)
             \/ \E u \in Users, us \in SUBSET Users, title \in Names :
                  CreateGroupChat(c, u, us, title)
      PROVE  UpdateInv'
  <2>1. \A u, title, us : [Idle EXCEPT !.step = "create", !.type = "group", !.actor = u,
           !.targets = us, !.newName = title].step = "create"
    BY DEF Idle
  <2>2. \A u, us : [Idle EXCEPT !.step = "create", !.type = "direct", !.actor = u,
           !.targets = us].step = "create"
    BY DEF Idle
  <2> QED
    BY <1>2, <1>4, <2>1, <2>2 DEF FindDirectChat, CreateGroupChat, Opens
<1>5. ASSUME NEW c \in Clients, NEW step, NEW x \in Conversations, NEW u, NEW us, NEW title,
             GetConversation(c, step, x, u, us, title)
      PROVE  UpdateInv'
  <2> DEFINE q == [Idle EXCEPT !.step = step, !.type = type[x], !.conversation = x,
                           !.actor = u, !.targets = us, !.found = role[x],
                           !.oldName = name[x], !.newName = title]
  <2>1. request' = [request EXCEPT ![c] = q] /\ UNCHANGED <<name, raced>>
    BY <1>5 DEF GetConversation, Opens
  <2>2. q.gone = {} /\ q.oldName = name[x] /\ q.conversation = x
    BY DEF Idle
  <2> HIDE DEF q
  <2>3. \A d \in Clients : request'[d] = IF d = c THEN q ELSE request[d]
    BY <1>1, <2>1
  <2> QED
    BY <2>1, <2>2, <2>3 DEF UpdateInv
<1>6. ASSUME NEW c \in Clients, NEW x \in Conversations, SaveConversation(c, x)
      PROVE  UpdateInv'
  <2>1. /\ request' = [request EXCEPT ![c].step = "fill", ![c].conversation = x]
        /\ UNCHANGED raced /\ type[x] = "none" /\ \A y \in Conversations \ {x} : name'[y] = name[y]
    BY <1>1, <1>6 DEF SaveConversation
  <2>2. request'[c].step = "fill" /\ \A d \in Clients \ {c} : request'[d] = request[d]
    BY <1>1, <2>1 DEF Request
  <2>3. \A d \in Clients : request[d].step \in {"checkSettings", "save"} =>
          request[d].conversation \in Conversations \ {x}
    BY <1>1, <2>1
  <2> QED
    BY <2>1, <2>2, <2>3 DEF UpdateInv
<1>7. ASSUME NEW c \in Clients,
             SaveParticipants(c) \/ Return(c) \/ RequestFails(c)
      PROVE  UpdateInv'
  BY <1>2, <1>3, <1>7 DEF SaveParticipants, Return, RequestFails
<1>8. ASSUME NEW c \in Clients, CheckAdmin(c) \/ InsertParticipants(c) PROVE UpdateInv'
  <2>1. \A step : [request[c] EXCEPT !.step = step].step = step
    BY <1>1 DEF Request
  <2>2. PICK step \in {"insert", "find", "inserted"} :
          /\ request' = [request EXCEPT ![c] = [request[c] EXCEPT !.step = step]]
          /\ UNCHANGED <<name, raced>>
    BY <1>1, <1>8 DEF CheckAdmin, InsertParticipants, Proceeds
  <2> QED
    BY <1>2, <2>1, <2>2
<1>9. ASSUME NEW c \in Clients, FindParticipants(c) PROVE UpdateInv'
  <2>1. /\ request'[c].step = "delete" /\ \A d \in Clients \ {c} : request'[d] = request[d]
        /\ UNCHANGED <<name, raced>>
    BY <1>1, <1>9 DEF FindParticipants, Request
  <2> QED
    BY <2>1, UpdateKept
<1>10. ASSUME NEW c \in Clients, DeleteParticipants(c) PROVE UpdateInv'
  <2>1. request[c].step = "delete" /\ UNCHANGED <<name, raced>>
    BY <1>10 DEF DeleteParticipants
  <2>2. request'[c].step = "deleted"
    BY <1>1, <1>10 DEF DeleteParticipants, Request
  <2>3. ASSUME NEW d \in Clients \ {c}
        PROVE  /\ request'[d].step = request[d].step
               /\ request[d].step \in {"checkSettings", "save"} => request'[d] = request[d]
    <3>1. request[d].step \in {"checkSettings", "save"} =>
            request[d].conversation # request[c].conversation
      BY <2>1 DEF SettingsTakeTurns
    <3> QED
      BY <1>1, <1>10, <3>1 DEF DeleteParticipants, Request
  <2> QED
    BY <2>1, <2>2, <2>3, UpdateKept
<1>11. ASSUME NEW c \in Clients, CheckSettings(c) PROVE UpdateInv'
  <2>1. /\ request' = [request EXCEPT ![c].step = "save"] /\ request[c].step = "checkSettings"
        /\ UNCHANGED <<name, raced>>
    BY <1>11 DEF CheckSettings, Proceeds
  <2>2. /\ request'[c].gone = request[c].gone /\ request'[c].oldName = request[c].oldName
        /\ request'[c].conversation = request[c].conversation
        /\ \A d \in Clients \ {c} : request'[d] = request[d]
    BY <1>1, <2>1 DEF Request
  <2> QED
    BY <2>1, <2>2, UpdateKept
<1>12. ASSUME NEW c \in Clients, NEW hold \in SUBSET Clients, SaveSettings(c, hold)
       PROVE  UpdateInv'
  <2> DEFINE x == request[c].conversation
  <2>1. request[c].step = "save" /\ x \in Conversations
    BY <1>1, <1>12 DEF SaveSettings
  <2>2. request[c].gone = {} /\ name[x] = request[c].oldName /\ raced = {}
    BY <2>1 DEF UpdateInv
  <2>3. raced' = {} /\ \A y \in Conversations \ {x} : name'[y] = name[y]
    BY <1>1, <1>12, <2>2 DEF SaveSettings
  <2>4. request'[c].step = "idle"
    BY <1>3, <1>12 DEF SaveSettings
  <2>5. ASSUME NEW d \in Clients \ {c}, request'[d].step \in {"checkSettings", "save"}
        PROVE  /\ request[d].step \in {"checkSettings", "save"} /\ request'[d] = request[d]
               /\ request[d].conversation \in Conversations \ {x}
    <3>1. request'[d].step = request[d].step
      BY <1>1, <1>12 DEF SaveSettings, Request
    <3>2. request[d].conversation \in Conversations \ {x}
      BY <1>1, <2>1, <2>5, <3>1 DEF SettingsTakeTurns
    <3> QED
      BY <1>12, <2>5, <3>1, <3>2 DEF SaveSettings
  <2> HIDE DEF x
  <2> QED
    BY <2>2, <2>3, <2>4, <2>5 DEF UpdateInv
<1>13. CASE UNCHANGED convVars
  BY <1>13 DEF convVars, UpdateInv
<1> QED
  BY <1>4, <1>5, <1>6, <1>7, <1>8, <1>9, <1>10, <1>11, <1>12, <1>13
  DEF ConvNext, Ask, Serve, AddParticipants, RemoveParticipants, UpdateSettings

(* Where a settings update has its conversation to itself, nobody is ever  *)
(* written back, and only an owner changes who belongs to a conversation.  *)
THEOREM TurnsKeepMembers ==
  ConvSpec /\ []SettingsTakeTurns =>
    [][\A x \in Conversations : Members(x) # {} /\ role'[x] # role[x] =>
         \E c \in Clients : /\ request[c].conversation = x
                            /\ request[c].step \in {"insert", "delete"}
                            /\ IsAdmin(request[c].actor, x)]_convVars
<1> DEFINE ByOwner(x) == \E c \in Clients : /\ request[c].conversation = x
                                            /\ request[c].step \in {"insert", "delete"}
                                            /\ IsAdmin(request[c].actor, x)
           Step == \A x \in Conversations : Members(x) # {} /\ role'[x] # role[x] => ByOwner(x)
<1>1. Init => UpdateInv
  BY DEF Init, UpdateInv, Idle
<1>2. ServiceInv /\ UpdateInv /\ UpdateInv' /\ [ConvNext]_convVars => [Step]_convVars
  <2> SUFFICES ASSUME ServiceInv, UpdateInv', [ConvNext]_convVars, NEW x \in Conversations,
                      Members(x) # {}, role'[x] # role[x]
               PROVE  ByOwner(x)
    OBVIOUS
  <2>1. x \notin raced'
    BY DEF UpdateInv
  <2> QED
    BY <2>1, StepByOwner
<1> HIDE DEF Step
<1>3. ConvSpec /\ []SettingsTakeTurns => [][Step]_convVars
  BY <1>1, <1>2, UpdateStep, ServiceIsSound, PTL DEF ConvSpec
<1> QED
  BY <1>3 DEF Step, ByOwner
=============================================================================
