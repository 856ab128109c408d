---------------------------- MODULE MessageFeed ----------------------------
(***************************************************************************)
(* MessageService behind its callers.  A handler of the gateway calls the  *)
(* service and then tells the room what was done; a REST request calls the *)
(* service and tells nobody.  Between the write and the event other writes *)
(* and other events may come, from this process or another.  The service   *)
(* stores a text sanitised; the event of a new message carries it as sent. *)
(***************************************************************************)
EXTENDS Messages

CONSTANT
  Sanitize    \* the text ContentSanitizer.sanitize makes of a text

ASSUME SanitizeAssumption == Sanitize \in [Contents -> Contents]
ASSUME NullIsNoText == Null \notin Contents

VARIABLES
  event,      \* the event that the operation of each client will end with
  outbox,     \* events of each message whose operation is done, in the order
              \* of the writes, and which have not been emitted
  told,       \* what a socket that was always in the room knows of a message
  adrift      \* messages on which a save raced, or of which an event never came
              \* or came before an earlier one that says otherwise; not in the
              \* code, and their outbox and told are not followed any more

feedVars == <<event, outbox, told, adrift>>
allVars == <<vars, feedVars>>

Event == [kind : {"created", "updated", "deleted", "reacted", "read"},
          user : Users, content : Contents \cup {Null}, emoji : Emojis \cup {Null}]
Knowledge == [state : {"absent", "shown", "deleted"}, content : Contents \cup {Null},
              edited : BOOLEAN, reactions : [Users -> Emojis \cup {Null}],
              readBy : SUBSET Users]
Unknown == [state |-> "absent", content |-> Null, edited |-> FALSE,
            reactions |-> [u \in Users |-> Null], readBy |-> {}]

ASSUME NullIsNoEvent == Null \notin Event

(* What a row says of what events tell. *)
Says(r) == [state |-> r.state, content |-> r.content, edited |-> r.edited,
            reactions |-> r.reactions, readBy |-> r.readBy]

FeedInit ==
  /\ Init
  /\ event = [c \in Clients |-> Null]
  /\ outbox = [m \in Messages |-> <<>>]
  /\ told = [m \in Messages |-> Unknown]
  /\ adrift = [m \in Messages |-> FALSE]

(* What an event adds to what is known. *)
Apply(e, k) ==
  CASE e.kind = "created" ->
         [k EXCEPT !.state = "shown", !.content = e.content, !.edited = FALSE]
    [] e.kind = "updated" -> [k EXCEPT !.content = e.content, !.edited = TRUE]
    [] e.kind = "deleted" -> [k EXCEPT !.state = "deleted"]
    [] e.kind = "reacted" -> [k EXCEPT !.reactions[e.user] = e.emoji]
    [] e.kind = "read" -> [k EXCEPT !.readBy = @ \cup {e.user}]

Commute(e, f, k) == Apply(e, Apply(f, k)) = Apply(f, Apply(e, k))

(* A handler is over when its event is out. *)
Free(c) ==
  /\ request[c].step = "idle"
  /\ \A m \in Messages : \A i \in DOMAIN outbox[m] : outbox[m][i][2] # c

-----------------------------------------------------------------------------
(* An operation begins, and with it the event it will end with. *)
Begins(c, kind, u, content, emoji) ==
  /\ event' = [event EXCEPT ![c] = [kind |-> kind, user |-> u, content |-> content,
                                    emoji |-> emoji]]
  /\ UNCHANGED <<outbox, told, adrift>>

(* MUTATION: the event carries the content that the message had. *)
HandleMessageUpdatedWithOld(c, m, u, content) ==
  /\ UpdateMessage(c, m, u, Sanitize[content])
  /\ Begins(c, "updated", u, row[m].content, Null)

(* handleMessageUpdated: the event carries the text as it was stored. *)
HandleMessageUpdated(c, m, u, content) ==
  /\ UpdateMessage(c, m, u, Sanitize[content])
  /\ Begins(c, "updated", u, Sanitize[content], Null)

(* reactionAdded, reactionRemoved *)
ReactionAdded(c, m, u, emoji) ==
  /\ AddReaction(c, m, u, emoji)
  /\ Begins(c, "reacted", u, Null, emoji)

ReactionRemoved(c, m, u) ==
  /\ RemoveReaction(c, m, u)
  /\ Begins(c, "reacted", u, Null, Null)

(* markAsRead, once it is not throttled *)
MarkAsRead(c, m, u) ==
  /\ MarkMessageAsRead(c, m, u)
  /\ Begins(c, "read", u, Null, Null)

(* handleMessageDeleted *)
HandleMessageDeleted(c, m, u) ==
  /\ DeleteMessage(c, m, u)
  /\ Begins(c, "deleted", u, Null, Null)

(* A REST request that has no event. *)
SaveSettings(c, m) ==
  /\ Free(c)
  /\ UpdateConversationSettings(c, m)
  /\ UNCHANGED feedVars

Operation(c, m, u) ==
  /\ Free(c)
  /\ \/ \E content \in Contents : HandleMessageUpdated(c, m, u, content)
     \/ \E emoji \in Emojis : ReactionAdded(c, m, u, emoji)
     \/ ReactionRemoved(c, m, u)
     \/ MarkAsRead(c, m, u)
     \/ HandleMessageDeleted(c, m, u)

-----------------------------------------------------------------------------
GivesUp(m) ==
  /\ adrift' = [adrift EXCEPT ![m] = TRUE]
  /\ told' = [told EXCEPT ![m] = Unknown]
  /\ outbox' = [outbox EXCEPT ![m] = <<>>]

(* The service returns: its event is due, if there is one. *)
Due(c, m, e) ==
  /\ event' = [event EXCEPT ![c] = Null]
  /\ IF adrift[m] \/ raced'[m] THEN GivesUp(m)
     ELSE /\ outbox' = [outbox EXCEPT ![m] = IF e = Null THEN @ ELSE Append(@, <<e, c>>)]
          /\ UNCHANGED <<told, adrift>>

(* handleMessage: once the message is saved, the conversation is loaded    *)
(* again before the room is told; the event carries payload.content.       *)
HandleMessage(c, m, u, content) ==
  /\ Free(c)
  /\ CreateMessage(m, u, Sanitize[content])
  /\ Due(c, m, [kind |-> "created", user |-> u, content |-> content, emoji |-> Null])

(* An operation that changed nothing returns, and tells the room, as well. *)
Step(c) ==
  \/ /\ Reload(c)
     /\ IF request'[c].step = "idle" THEN Due(c, request[c].message, event[c])
        ELSE UNCHANGED feedVars
  \/ /\ Write(c) \/ MarkAsDeleted(c)
     /\ Due(c, request[c].message, event[c])
  \/ /\ RequestFails(c)
     /\ event' = [event EXCEPT ![c] = Null]
     /\ UNCHANGED <<outbox, told, adrift>>

RemoveAt(s, i) == SubSeq(s, 1, i - 1) \o SubSeq(s, i + 1, Len(s))

Overtakes(m, i) ==
  \E j \in 1 .. i - 1 : ~Commute(outbox[m][i][1], outbox[m][j][1], told[m])

(* The room is told. *)
Emit(m, i) ==
  /\ IF Overtakes(m, i) THEN GivesUp(m)
     ELSE /\ told' = [told EXCEPT ![m] = Apply(outbox[m][i][1], @)]
          /\ outbox' = [outbox EXCEPT ![m] = RemoveAt(@, i)]
          /\ UNCHANGED adrift
  /\ UNCHANGED <<vars, event>>

(* The caller was a REST request, which tells nobody, or the handler fails *)
(* after the service, or the process dies.                                 *)
EmitNothing(m) ==
  /\ outbox[m] # <<>>
  /\ GivesUp(m)
  /\ UNCHANGED <<vars, event>>

FeedNext ==
  \/ \E c \in Clients, m \in Messages, u \in Users :
       \/ \E content \in Contents : HandleMessage(c, m, u, content)
       \/ Operation(c, m, u)
  \/ \E c \in Clients, m \in Messages : SaveSettings(c, m)
  \/ \E c \in Clients : Step(c)
  \/ \E m \in Messages : \E i \in DOMAIN outbox[m] : Emit(m, i)
  \/ \E m \in Messages : EmitNothing(m)

FeedSpec == FeedInit /\ [][FeedNext]_allVars

-----------------------------------------------------------------------------
(* Properties. *)

(* The room knows a text as it was sent until it hears of an edit. *)
Means(k) ==
  [k EXCEPT !.content = IF k.edited \/ k.content = Null THEN @ ELSE Sanitize[@]]

(* The handlers of the gateway: what the room has been told of a message,  *)
(* once all is told, is what the table says, although events are not       *)
(* written with the row, and an operation that wrote nothing has its event *)
(* too; unless a save raced (and undid another), or an event never came or *)
(* overtook one that says otherwise.  The text of a message nobody edited  *)
(* is the one as sent, which the table has sanitised: the two may differ.  *)
FeedIsTrue ==
  \A m \in Messages :
    outbox[m] = <<>> /\ ~adrift[m] => Means(told[m]) = Says(row[m])
=============================================================================
