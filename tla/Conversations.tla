--------------------------- MODULE Conversations ---------------------------
(***************************************************************************)
(* ConversationService over the tables conversations and                   *)
(* conversation_participants.  Every operation reads, checks what it read, *)
(* and writes later; nothing is locked, and a conversation is saved before *)
(* its participants.  updateConversationSettings saves the conversation    *)
(* with the participants it had loaded (cascade), and so writes them back. *)
(***************************************************************************)
EXTENDS Naturals

CONSTANTS Conversations, Users, Names, Null,
          Clients    \* requests that can be open at the same time

ASSUME NullAssumption == Null \notin Names

VARIABLES
  type,        \* conversations.type, "none" before the row is saved
  name,        \* conversations.name, which only an admin of a group sets
  role,        \* conversation_participants: the role of each user, or "none"
  request,     \* the operation of each client
  overlapped,  \* pairs of users whose direct chat two requests looked for at
               \* the same time; not in the code
  raced        \* conversations that a settings update wrote with participants
               \* or a name that were no longer true; not in the code

convVars == <<type, name, role, request, overlapped, raced>>

Types == {"none", "direct", "group"}
Roles == {"none", "member", "owner"}   \* no code assigns ADMIN
Nobody == [u \in Users |-> "none"]
Titles == Names \cup {Null}

(* An open operation: its conversation, who asks (actor), whom it is about *)
(* (targets), the participants it loaded (found), those of them whose row  *)
(* was deleted since (gone), the name it read and the one it will write.   *)
Steps == {"idle", "create", "fill", "checkAdd", "insert", "inserted",
          "checkRemove", "find", "delete", "deleted", "checkSettings", "save"}
Request == [step : Steps, type : Types, conversation : Conversations \cup {Null},
            actor : Users \cup {Null}, targets : SUBSET Users,
            found : [Users -> Roles], gone : SUBSET Users,
            oldName : Titles, newName : Titles]
Idle == [step |-> "idle", type |-> "none", conversation |-> Null, actor |-> Null,
         targets |-> {}, found |-> Nobody, gone |-> {}, oldName |-> Null,
         newName |-> Null]

(* A row of participants exists only for a saved conversation, and an open *)
(* request works on one, for a user, from the participants it loaded.      *)
TypeOK ==
  /\ type \in [Conversations -> Types]
  /\ name \in [Conversations -> Titles]
  /\ role \in [Conversations -> [Users -> Roles]]
  /\ \A x \in Conversations : type[x] = "none" => role[x] = Nobody
  /\ request \in [Clients -> Request]
  /\ \A c \in Clients : request[c].step \notin {"idle", "create"} =>
       /\ request[c].conversation \in Conversations
       /\ type[request[c].conversation] # "none"
       /\ request[c].actor \in Users
  /\ overlapped \subseteq SUBSET Users
  /\ raced \subseteq Conversations

Init ==
  /\ type = [x \in Conversations |-> "none"]
  /\ name = [x \in Conversations |-> Null]
  /\ role = [x \in Conversations |-> Nobody]
  /\ request = [c \in Clients |-> Idle]
  /\ overlapped = {}
  /\ raced = {}

Members(x) == {u \in Users : role[x][u] # "none"}
Found(c) == {u \in Users : request[c].found[u] # "none"}

(* isUserAdmin *)
IsAdmin(u, x) == role[x][u] = "owner"

(* validateAccess: every row has status "member". *)
HasAccess(u, x) == role[x][u] # "none"

Opens(c, fields) ==
  /\ request[c].step = "idle"
  /\ request' = [request EXCEPT ![c] = fields]

Proceeds(c, from, to) ==
  /\ request[c].step = from
  /\ request' = [request EXCEPT ![c].step = to]

-----------------------------------------------------------------------------
(* A conversation is created. *)

Looking(pair) ==
  {c \in Clients : /\ request[c].type = "direct"
                   /\ request[c].targets = pair
                   /\ request[c].step \in {"create", "fill"}}

(* findDirectConversation joins the participants twice, once per user.     *)
IsDirectChat(x, pair) == type[x] = "direct" /\ pair \subseteq Members(x)

(* MUTATION: the look-up matches the user who asks only. *)
FindDirectChatOfActor(c, u, v) ==
  /\ u # v
  /\ \A x \in Conversations : ~(type[x] = "direct" /\ Members(x) = {u})
  /\ Opens(c, [Idle EXCEPT !.step = "create", !.type = "direct", !.actor = u,
                           !.targets = {u, v}])
  /\ overlapped' = overlapped \cup {pair \in {{u, v}} : Looking(pair) # {}}
  /\ UNCHANGED <<type, name, role, raced>>

(* createOrGetDirectChat finds none.  (When there is one, it returns it.)  *)
FindDirectChat(c, u, v) ==
  /\ u # v
  /\ \A x \in Conversations : ~IsDirectChat(x, {u, v})
  /\ Opens(c, [Idle EXCEPT !.step = "create", !.type = "direct", !.actor = u,
                           !.targets = {u, v}])
  /\ overlapped' = overlapped \cup {pair \in {{u, v}} : Looking(pair) # {}}
  /\ UNCHANGED <<type, name, role, raced>>

(* createGroupChat: the users exist, and the creator is not among those    *)
(* that were named.                                                        *)
CreateGroupChat(c, u, us, title) ==
  /\ u \notin us
  /\ Opens(c, [Idle EXCEPT !.step = "create", !.type = "group", !.actor = u,
                           !.targets = us \cup {u}, !.newName = title])
  /\ UNCHANGED <<type, name, role, overlapped, raced>>

(* MUTATION: the row is not saved before its participants. *)
SaveNothing(c, x) ==
  /\ request[c].step = "create"
  /\ type[x] = "none"
  /\ request' = [request EXCEPT ![c].step = "fill", ![c].conversation = x]
  /\ UNCHANGED <<type, name, role, overlapped, raced>>

SaveConversation(c, x) ==
  /\ request[c].step = "create"
  /\ type[x] = "none"
  /\ type' = [type EXCEPT ![x] = request[c].type]
  /\ name' = [name EXCEPT ![x] = request[c].newName]
  /\ request' = [request EXCEPT ![c].step = "fill", ![c].conversation = x]
  /\ UNCHANGED <<role, overlapped, raced>>

(* The array is saved in one transaction; the creator of a group owns it.  *)
SaveParticipants(c) ==
  /\ request[c].step = "fill"
  /\ role' = [role EXCEPT ![request[c].conversation] =
       [u \in Users |->
         IF u \notin request[c].targets THEN "none"
         ELSE IF request[c].type = "group" /\ u = request[c].actor THEN "owner"
         ELSE "member"]]
  /\ request' = [request EXCEPT ![c] = Idle]
  /\ UNCHANGED <<type, name, overlapped, raced>>

-----------------------------------------------------------------------------
(* Participants come and go. *)

(* getConversation, with its participants. *)
GetConversation(c, step, x, u, us, title) ==
  /\ type[x] # "none"
  /\ Opens(c, [Idle EXCEPT !.step = step, !.type = type[x], !.conversation = x,
                           !.actor = u, !.targets = us, !.found = role[x],
                           !.oldName = name[x], !.newName = title])
  /\ UNCHANGED <<type, name, role, overlapped, raced>>

AddParticipants(c, x, u, us) ==
  /\ type[x] = "group"
  /\ GetConversation(c, "checkAdd", x, u, us, Null)

RemoveParticipants(c, x, u, us) ==
  /\ type[x] = "group"
  /\ GetConversation(c, "checkRemove", x, u, us, Null)

(* MUTATION: any participant may change the participants. *)
CheckMember(c) ==
  /\ Proceeds(c, "checkAdd", "insert") \/ Proceeds(c, "checkRemove", "find")
  /\ HasAccess(request[c].actor, request[c].conversation)
  /\ UNCHANGED <<type, name, role, overlapped, raced>>

CheckAdmin(c) ==
  /\ Proceeds(c, "checkAdd", "insert") \/ Proceeds(c, "checkRemove", "find")
  /\ IsAdmin(request[c].actor, request[c].conversation)
  /\ UNCHANGED <<type, name, role, overlapped, raced>>

(* MUTATION: everyone named is inserted, not only those who were not there. *)
InsertEveryone(c) ==
  LET x == request[c].conversation IN
  /\ Proceeds(c, "insert", "inserted")
  /\ role' = [role EXCEPT ![x] =
       [u \in Users |-> IF u \in request[c].targets THEN "member" ELSE @[u]]]
  /\ UNCHANGED <<type, name, overlapped, raced>>

(* Those who were not participants when the conversation was loaded are    *)
(* added; if one has become one since, the unique index refuses them all   *)
(* (and the request fails).                                                *)
InsertParticipants(c) ==
  LET x == request[c].conversation
      new == request[c].targets \ Found(c) IN
  /\ Proceeds(c, "insert", "inserted")
  /\ new \cap Members(x) = {}
  /\ role' = [role EXCEPT ![x] = [u \in Users |-> IF u \in new THEN "member" ELSE @[u]]]
  /\ UNCHANGED <<type, name, overlapped, raced>>

(* MUTATION: an owner can be removed. *)
FindAnyParticipants(c) ==
  LET x == request[c].conversation IN
  /\ request[c].step = "find"
  /\ request' = [request EXCEPT ![c].step = "delete", ![c].gone = {}, ![c].found =
       [u \in Users |-> IF u \in request[c].targets THEN role[x][u] ELSE "none"]]
  /\ UNCHANGED <<type, name, role, overlapped, raced>>

(* The rows to remove are loaded; no owner is among them. *)
FindParticipants(c) ==
  LET x == request[c].conversation IN
  /\ request[c].step = "find"
  /\ \A u \in request[c].targets : role[x][u] # "owner"
  /\ request' = [request EXCEPT ![c].step = "delete", ![c].gone = {}, ![c].found =
       [u \in Users |-> IF u \in request[c].targets THEN role[x][u] ELSE "none"]]
  /\ UNCHANGED <<type, name, role, overlapped, raced>>

(* The rows that were loaded are deleted, those of them that still exist;  *)
(* every other request that had loaded one holds a row that is gone.       *)
DeleteParticipants(c) ==
  LET x == request[c].conversation
      removed == Found(c) \ request[c].gone IN
  /\ request[c].step = "delete"
  /\ role' = [role EXCEPT ![x] = [u \in Users |-> IF u \in removed THEN "none" ELSE @[u]]]
  /\ request' = [d \in Clients |->
       IF d = c THEN [request[c] EXCEPT !.step = "deleted"]
       ELSE IF request[d].conversation = x
            THEN [request[d] EXCEPT !.gone = @ \cup (removed \cap Found(d))]
       ELSE request[d]]
  /\ UNCHANGED <<type, name, overlapped, raced>>

-----------------------------------------------------------------------------
(* updateConversationSettings.  Only the name stands for the settings that *)
(* an admin alone may change in a group; a request that changes another    *)
(* one leaves the name it read.                                            *)
UpdateSettings(c, x, u, title) == GetConversation(c, "checkSettings", x, u, {}, title)

CheckSettings(c) ==
  LET x == request[c].conversation IN
  /\ Proceeds(c, "checkSettings", "save")
  /\ HasAccess(request[c].actor, x)
  /\ \/ type[x] = "direct"
     \/ IsAdmin(request[c].actor, x)
     \/ request[c].newName = request[c].oldName
  /\ UNCHANGED <<type, name, role, overlapped, raced>>

(* save, with the loaded participants: rows deleted since are inserted     *)
(* again, and the name is that of the entity.  A row that was added since  *)
(* would be detached, which its NOT NULL column refuses, and a deleted row *)
(* whose user is back runs into the unique index: then the request fails.  *)
(* The rows inserted again are there, with their old ids, for those of the *)
(* other requests (hold) that had loaded the same rows.                    *)
SaveSettings(c, hold) ==
  LET x == request[c].conversation
      gone == request[c].gone IN
  /\ request[c].step = "save"
  /\ Members(x) = Found(c) \ gone
  /\ role' = [role EXCEPT ![x] = [u \in Users |->
       IF u \in gone THEN request[c].found[u] ELSE @[u]]]
  /\ name' = [name EXCEPT ![x] = request[c].newName]
  /\ raced' = raced \cup {y \in {x} : gone # {} \/ name[x] # request[c].oldName}
  /\ request' = [d \in Clients |->
       IF d = c THEN Idle
       ELSE IF request[d].conversation = x /\ d \in hold
            THEN [request[d] EXCEPT !.gone = @ \ gone]
       ELSE request[d]]
  /\ UNCHANGED <<type, overlapped>>

-----------------------------------------------------------------------------
(* The service has returned to its caller. *)
Return(c) ==
  /\ request[c].step \in {"inserted", "deleted"}
  /\ request' = [request EXCEPT ![c] = Idle]
  /\ UNCHANGED <<type, name, role, overlapped, raced>>

(* A check refuses, the database fails, or the process dies.               *)
RequestFails(c) ==
  /\ request[c].step # "idle"
  /\ request' = [request EXCEPT ![c] = Idle]
  /\ UNCHANGED <<type, name, role, overlapped, raced>>

(* The steps of the service up to its return. *)
Serve(c) ==
  \/ \E x \in Conversations : SaveConversation(c, x)
  \/ SaveParticipants(c)
  \/ CheckAdmin(c) \/ InsertParticipants(c)
  \/ FindParticipants(c) \/ DeleteParticipants(c)
  \/ CheckSettings(c)
  \/ \E hold \in SUBSET Clients : SaveSettings(c, hold)

Ask(c) ==
  \/ \E u, v \in Users : FindDirectChat(c, u, v)
  \/ \E u \in Users, us \in SUBSET Users, title \in Names : CreateGroupChat(c, u, us, title)
  \/ \E x \in Conversations, u \in Users :
       \/ \E us \in SUBSET Users \ {{}} :
            AddParticipants(c, x, u, us) \/ RemoveParticipants(c, x, u, us)
       \/ \E title \in Names \cup {name[x]} : UpdateSettings(c, x, u, title)

ConvNext == \E c \in Clients : Ask(c) \/ Serve(c) \/ Return(c) \/ RequestFails(c)

ConvSpec == Init /\ [][ConvNext]_convVars

-----------------------------------------------------------------------------
(* Properties. *)

(* createOrGetDirectChat finds what it created before: two users have one  *)
(* direct chat, however often they or others ask and whatever fails half-  *)
(* way, unless two requests looked for it at the same time.                *)
OneDirectChat ==
  \A u, v \in Users : \A x, y \in Conversations :
    /\ u # v /\ IsDirectChat(x, {u, v}) /\ IsDirectChat(y, {u, v})
    => x = y \/ {u, v} \in overlapped

(* removeParticipantsFromGroup: "Owners cannot be removed".  A group that  *)
(* has participants has one owner, whatever overlaps.                      *)
OwnerStays ==
  \A x \in Conversations : type[x] = "group" /\ Members(x) # {} =>
    \E u \in Users : \A v \in Users : IsAdmin(v, x) <=> v = u

(* addParticipantsToGroup, removeParticipantsFromGroup: the rights were    *)
(* checked on an earlier state, yet whoever changes the participants of a  *)
(* conversation is its owner when the change is made; except for what a    *)
(* raced settings update writes back.                                      *)
MembersChangeByOwner ==
  [][\A x \in Conversations : Members(x) # {} /\ role'[x] # role[x] =>
       \/ x \in raced'
       \/ \E c \in Clients : /\ request[c].conversation = x
                             /\ request[c].step \in {"insert", "delete"}
                             /\ IsAdmin(request[c].actor, x)]_convVars

(* As long as no settings update raced, who belongs to a conversation is   *)
(* what Membership says.                                                   *)
View(x) ==
  IF x \in raced THEN [type |-> "raced", role |-> Nobody, name |-> Null]
  ELSE IF Members(x) = {} THEN [type |-> "none", role |-> Nobody, name |-> Null]
  ELSE [type |-> type[x], role |-> role[x], name |-> name[x]]
seen == [x \in Conversations |-> View(x)]

Promise == INSTANCE Membership WITH chat <- seen
KeepsMembership == Promise!MembershipSpec
=============================================================================
