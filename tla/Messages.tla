------------------------------ MODULE Messages ------------------------------
(***************************************************************************)
(* MessageService over the messages table.  An operation loads the entity, *)
(* changes it in memory and saves it.  save (TypeORM) loads the row again, *)
(* deleted or not, and updates the columns in which the entity differs     *)
(* from it, whoever made the difference; only a deletion is an UPDATE of   *)
(* its own columns.  Nothing is locked.                                    *)
(***************************************************************************)
EXTENDS Integers, Sequences

CONSTANTS
  Messages, Users,
  Contents,   \* texts; the service sanitises one before anything here sees it
  Emojis,
  Clients,    \* requests that can be open at the same time
  MaxEdits,   \* bound on the edits of a message
  Null

ASSUME MaxEditsAssumption == MaxEdits \in Nat

VARIABLES
  row,       \* the messages table
  request,   \* the operation of each client
  raced      \* messages written by a save that had read them before another
             \* write; not in the code

vars == <<row, request, raced>>

(* What an UPDATE writes.  history and reactions are in the one jsonb      *)
(* column metadata; isDeleted, deletedBy and deletedAt, which are set      *)
(* together, count as the one column "deletion" (state and deletedBy).     *)
Columns == {"content", "edited", "metadata", "readBy", "deletion"}

Entry == [content : Contents, editor : Users]
Row == [state : {"absent", "shown", "deleted"}, sender : Users \cup {Null},
        content : Contents \cup {Null}, edited : BOOLEAN, history : Seq(Entry),
        reactions : [Users -> Emojis \cup {Null}], readBy : SUBSET Users,
        deletedBy : Users \cup {Null}]
Absent == [state |-> "absent", sender |-> Null, content |-> Null, edited |-> FALSE,
           history |-> <<>>, reactions |-> [u \in Users |-> Null], readBy |-> {},
           deletedBy |-> Null]

(* A request between its first read and its write: the entity in memory    *)
(* (copy), the columns it will write (dirty), and whether nobody has       *)
(* written the row since it was read (alone; not in the code).             *)
Request == [step : {"idle", "found", "save", "delete"},
            message : Messages \cup {Null}, copy : Row,
            dirty : SUBSET Columns, alone : BOOLEAN]
Idle == [step |-> "idle", message |-> Null, copy |-> Absent, dirty |-> {},
         alone |-> FALSE]

(* Rows and entities are well typed, and an open request works on a        *)
(* message that exists: createMessage is the only step that makes one.     *)
TypeOK ==
  /\ row \in [Messages -> Row]
  /\ \A m \in Messages :
       /\ row[m].state # "absent" => row[m].sender \in Users /\ row[m].content \in Contents
       /\ Len(row[m].history) <= MaxEdits
  /\ request \in [Clients -> Request]
  /\ \A c \in Clients : request[c].step # "idle" =>
       /\ request[c].message \in Messages
       /\ request[c].copy.state # "absent"
       /\ request[c].copy.sender \in Users /\ request[c].copy.content \in Contents
       /\ Len(request[c].copy.history) <= MaxEdits
       /\ row[request[c].message].state # "absent"
  /\ raced \in [Messages -> BOOLEAN]

Init ==
  /\ row = [m \in Messages |-> Absent]
  /\ request = [c \in Clients |-> Idle]
  /\ raced = [m \in Messages |-> FALSE]

-----------------------------------------------------------------------------
(* The entity after each operation. *)

WithEdit(r, u, content) ==
  [r EXCEPT !.content = content, !.edited = TRUE,
            !.history = Append(@, [content |-> r.content, editor |-> u])]

(* MUTATION: the arguments are swapped, and the user is the reaction.      *)
WithUserAsReaction(r, u, emoji) == [r EXCEPT !.reactions[u] = u]

WithReaction(r, u, emoji) == [r EXCEPT !.reactions[u] = emoji]

WithoutReaction(r, u) == [r EXCEPT !.reactions[u] = Null]

WithReader(r, u) == [r EXCEPT !.readBy = @ \cup {u}]

WithDeletion(r, u) == [r EXCEPT !.state = "deleted", !.deletedBy = u]

-----------------------------------------------------------------------------
(* createMessage: the access check and the look at the parent change       *)
(* nothing here.                                                           *)
CreateMessage(m, u, content) ==
  /\ row[m].state = "absent"
  /\ row' = [row EXCEPT ![m].state = "shown", ![m].sender = u,
                        ![m].content = content]
  /\ UNCHANGED <<request, raced>>

(* MUTATION: the read does not leave out the deleted rows. *)
VisibleOrDeleted(m) == row[m].state # "absent"

(* findByIdAndTenant: a find of a repository leaves out the rows with a    *)
(* deletedAt.                                                              *)
Visible(m) == row[m].state = "shown"

(* A request has read the message and changed its copy.  The columns in    *)
(* touched carry a new timestamp and differ from the row whatever it says. *)
Found(c, m, step, copy, touched) ==
  /\ request[c].step = "idle"
  /\ Visible(m)
  /\ request' = [request EXCEPT ![c] = [step |-> step, message |-> m, copy |-> copy,
                                        dirty |-> touched, alone |-> TRUE]]
  /\ UNCHANGED <<row, raced>>

(* MUTATION: anyone edits. *)
UpdateMessageOfAnyone(c, m, u, content) ==
  /\ Len(row[m].history) < MaxEdits
  /\ Found(c, m, "found", WithEdit(row[m], u, content), {"metadata"})

UpdateMessage(c, m, u, content) ==
  /\ row[m].sender = u
  /\ Len(row[m].history) < MaxEdits
  /\ Found(c, m, "found", WithEdit(row[m], u, content), {"metadata"})

AddReaction(c, m, u, emoji) == Found(c, m, "found", WithReaction(row[m], u, emoji), {})

RemoveReaction(c, m, u) == Found(c, m, "found", WithoutReaction(row[m], u), {})

MarkMessageAsRead(c, m, u) == Found(c, m, "found", WithReader(row[m], u), {"readBy"})

DeleteMessage(c, m, u) ==
  /\ row[m].sender = u
  /\ Found(c, m, "delete", WithDeletion(row[m], u), {"deletion"})

(* updateConversationSettings loads the conversation with its messages     *)
(* and saves it: the cascade saves each of them as it was loaded.          *)
UpdateConversationSettings(c, m) == Found(c, m, "found", row[m], {})

-----------------------------------------------------------------------------
(* A write to the row of m by request c: it is over, and the others are    *)
(* not alone any more.                                                     *)
Wrote(c, m) ==
  request' = [d \in Clients |->
    IF d = c THEN Idle
    ELSE IF request[d].message = m THEN [request[d] EXCEPT !.alone = FALSE]
    ELSE request[d]]

(* save, first half: the row is loaded and compared with the entity.       *)
Differing(copy, r) ==
  {column \in {"content"} : copy.content # r.content}
    \cup {column \in {"edited"} : copy.edited # r.edited}
    \cup {column \in {"metadata"} : copy.history # r.history \/ copy.reactions # r.reactions}
    \cup {column \in {"readBy"} : copy.readBy # r.readBy}
    \cup {column \in {"deletion"} : copy.state # r.state \/ copy.deletedBy # r.deletedBy}

Reload(c) ==
  /\ request[c].step = "found"
  /\ LET m == request[c].message
         dirty == request[c].dirty \cup Differing(request[c].copy, row[m]) IN
       request' = [request EXCEPT ![c] =
         IF dirty = {} THEN Idle ELSE [@ EXCEPT !.step = "save", !.dirty = dirty]]
  /\ UNCHANGED <<row, raced>>

(* save, second half: the UPDATE of the dirty columns.                     *)
Merged(r, copy, dirty) ==
  LET of(column) == IF column \in dirty THEN copy ELSE r IN
  [r EXCEPT !.content = of("content").content,
            !.edited = of("edited").edited,
            !.history = of("metadata").history,
            !.reactions = of("metadata").reactions,
            !.readBy = of("readBy").readBy,
            !.state = of("deletion").state,
            !.deletedBy = of("deletion").deletedBy]

Write(c) ==
  /\ request[c].step = "save"
  /\ LET m == request[c].message IN
       /\ row' = [row EXCEPT ![m] = Merged(@, request[c].copy, request[c].dirty)]
       /\ raced' = [raced EXCEPT ![m] = @ \/ ~request[c].alone]
       /\ Wrote(c, m)

(* markAsDeleted: an UPDATE of the deletion alone.                         *)
MarkAsDeleted(c) ==
  /\ request[c].step = "delete"
  /\ LET m == request[c].message IN
       /\ row' = [row EXCEPT ![m] = Merged(@, request[c].copy, request[c].dirty)]
       /\ Wrote(c, m)
  /\ UNCHANGED raced

(* The content is refused, the database fails, or the process dies.        *)
RequestFails(c) ==
  /\ request[c].step # "idle"
  /\ request' = [request EXCEPT ![c] = Idle]
  /\ UNCHANGED <<row, raced>>

Next ==
  \/ \E m \in Messages, u \in Users, content \in Contents : CreateMessage(m, u, content)
  \/ \E c \in Clients, m \in Messages, u \in Users :
       \/ \E content \in Contents : UpdateMessage(c, m, u, content)
       \/ \E emoji \in Emojis : AddReaction(c, m, u, emoji)
       \/ RemoveReaction(c, m, u)
       \/ MarkMessageAsRead(c, m, u)
       \/ DeleteMessage(c, m, u)
  \/ \E c \in Clients, m \in Messages : UpdateConversationSettings(c, m)
  \/ \E c \in Clients : Reload(c) \/ Write(c) \/ MarkAsDeleted(c) \/ RequestFails(c)

Spec == Init /\ [][Next]_vars

-----------------------------------------------------------------------------
(* Properties. *)

(* A deletion holds once the requests that had read the message before are *)
(* over: no later operation finds it, so its row never changes again.      *)
Settled(m) ==
  /\ row[m].state = "deleted"
  /\ \A c \in Clients : request[c].message = m => request[c].step \notin {"found", "save"}

DeletionHolds ==
  [][\A m \in Messages : Settled(m) => Settled(m)' /\ row'[m] = row[m]]_vars

(* As long as no save raced with another write, each operation acts on the *)
(* message at once and on nothing but its own part: nobody's edit,         *)
(* reaction, receipt or deletion is lost to another.                       *)
Unpromised == [Absent EXCEPT !.state = "raced"]
View(m) == IF raced[m] THEN Unpromised ELSE row[m]
seen == [m \in Messages |-> View(m)]

Board == INSTANCE MessageBoard WITH board <- seen
ActsLikeBoard == Board!BoardSpec

(* updateMessage: "Cannot edit deleted messages".  VIOLATED: the message   *)
(* is deleted between the read that checks and the write.                  *)
DeletedNotEdited ==
  [][\A m \in Messages :
       row[m].state = "deleted" => row'[m].content = row[m].content]_vars
=============================================================================
