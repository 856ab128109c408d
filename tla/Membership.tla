----------------------------- MODULE Membership -----------------------------
(***************************************************************************)
(* What ConversationService promises of who belongs to a conversation, as  *)
(* long as no settings update raced with another write to it: members come *)
(* in one piece, direct chats never change, only groups admit and expel,   *)
(* an owner stays, and a rename touches nothing else.                      *)
(***************************************************************************)
CONSTANTS Conversations, Users, Names, Null

VARIABLE chat   \* each conversation as its members see it

Nobody == [u \in Users |-> "none"]
Closed == [type |-> "none", role |-> Nobody, name |-> Null]
Raced == [Closed EXCEPT !.type = "raced"]

MembershipInit == chat = [x \in Conversations |-> Closed]

(* Everybody named belongs from the start; a group has its creator.        *)
Open(x, type, us, name) ==
  /\ chat[x].type = "none"
  /\ us # {}
  /\ \E creator \in us :
       chat' = [chat EXCEPT ![x] =
         [type |-> type, name |-> name,
          role |-> [u \in Users |->
            IF u \notin us THEN "none"
            ELSE IF type = "group" /\ u = creator THEN "owner" ELSE "member"]]]

Admit(x, us) ==
  /\ chat[x].type = "group"
  /\ \A u \in us : chat[x].role[u] = "none"
  /\ chat' = [chat EXCEPT ![x].role =
       [u \in Users |-> IF u \in us THEN "member" ELSE @[u]]]

Expel(x, us) ==
  /\ chat[x].type = "group"
  /\ \A u \in us : chat[x].role[u] = "member"
  /\ chat' = [chat EXCEPT ![x].role =
       [u \in Users |-> IF u \in us THEN "none" ELSE @[u]]]

Rename(x, name) ==
  /\ chat[x].type \in {"direct", "group"}
  /\ chat' = [chat EXCEPT ![x].name = name]

Race(x) ==
  /\ chat[x].type # "none"
  /\ chat' = [chat EXCEPT ![x] = Raced]

MembershipNext ==
  \E x \in Conversations :
    \/ \E us \in SUBSET Users :
         \/ \E type \in {"direct", "group"}, name \in Names \cup {Null} : Open(x, type, us, name)
         \/ Admit(x, us)
         \/ Expel(x, us)
    \/ \E name \in Names \cup {Null} : Rename(x, name)
    \/ Race(x)

MembershipSpec == MembershipInit /\ [][MembershipNext]_chat
=============================================================================
