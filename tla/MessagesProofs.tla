--------------------------- MODULE MessagesProofs ---------------------------
(***************************************************************************)
(* What holds of Messages for every set of messages, users and requests,   *)
(* and for every bound on the edits.                                       *)
(***************************************************************************)
EXTENDS Messages, TLAPS

(* The operations of the entity, and the UPDATE of some of its columns,    *)
(* stay within the type of a row.                                          *)
LEMMA OperationType ==
  ASSUME NEW r \in Row, r.content \in Contents, NEW u \in Users
  PROVE  /\ \A content \in Contents : WithEdit(r, u, content) \in Row
         /\ \A emoji \in Emojis : WithReaction(r, u, emoji) \in Row
         /\ WithoutReaction(r, u) \in Row
         /\ WithReader(r, u) \in Row
         /\ WithDeletion(r, u) \in Row
<1>1. ASSUME NEW content \in Contents PROVE WithEdit(r, u, content) \in Row
  <2>1. [content |-> r.content, editor |-> u] \in Entry
    BY DEF Entry
  <2>2. Append(r.history, [content |-> r.content, editor |-> u]) \in Seq(Entry)
    BY <2>1 DEF Row
  <2> QED
    BY <2>2 DEF WithEdit, Row
<1>2. ASSUME NEW e \in Emojis \cup {Null}
      PROVE  [r EXCEPT !.reactions[u] = e] \in Row
  BY DEF Row
<1>3. WithReader(r, u) \in Row /\ WithDeletion(r, u) \in Row
  BY DEF WithReader, WithDeletion, Row
<1> QED
  BY <1>1, <1>2, <1>3 DEF WithReaction, WithoutReaction

LEMMA MergedType ==
  ASSUME NEW r \in Row, NEW copy \in Row, NEW dirty \in SUBSET Columns
  PROVE  /\ Merged(r, copy, dirty) \in Row
         /\ Merged(r, copy, dirty).sender = r.sender
         /\ Merged(r, copy, dirty).content \in {r.content, copy.content}
         /\ Merged(r, copy, dirty).history \in {r.history, copy.history}
         /\ Merged(r, copy, dirty).state \in {r.state, copy.state}
<1> DEFINE of(column) == IF column \in dirty THEN copy ELSE r
           content == of("content").content
           edited == of("edited").edited
           history == of("metadata").history
           reactions == of("metadata").reactions
           readBy == of("readBy").readBy
           state == of("deletion").state
           deletedBy == of("deletion").deletedBy
           new == [r EXCEPT !.content = content, !.edited = edited, !.history = history,
                            !.reactions = reactions, !.readBy = readBy, !.state = state,
                            !.deletedBy = deletedBy]
<1>1. Merged(r, copy, dirty) = new
  BY DEF Merged
<1>2. \A column \in Columns : of(column) \in {r, copy} /\ of(column) \in Row
  OBVIOUS
<1>3. \A column \in Columns :
        /\ of(column).content \in Contents \cup {Null}
        /\ of(column).edited \in BOOLEAN
        /\ of(column).history \in Seq(Entry)
        /\ of(column).reactions \in [Users -> Emojis \cup {Null}]
        /\ of(column).readBy \in SUBSET Users
        /\ of(column).state \in {"absent", "shown", "deleted"}
        /\ of(column).deletedBy \in Users \cup {Null}
  BY <1>2 DEF Row
<1>4. content \in Contents \cup {Null} /\ content \in {r.content, copy.content}
  BY <1>3 DEF Columns
<1>5. edited \in BOOLEAN
  BY <1>3 DEF Columns
<1>6. history \in Seq(Entry) /\ history \in {r.history, copy.history}
  BY <1>3 DEF Columns
<1>7. reactions \in [Users -> Emojis \cup {Null}] /\ readBy \in SUBSET Users
  BY <1>3 DEF Columns
<1>8. /\ state \in {"absent", "shown", "deleted"} /\ state \in {r.state, copy.state}
      /\ deletedBy \in Users \cup {Null}
  BY <1>3 DEF Columns
<1> HIDE DEF of, content, edited, history, reactions, readBy, state, deletedBy
<1>9. new \in Row
  BY <1>4, <1>5, <1>6, <1>7, <1>8 DEF Row
<1>10. /\ new.sender = r.sender /\ new.content = content
       /\ new.history = history /\ new.state = state
  BY DEF Row
<1> QED
  BY <1>1, <1>4, <1>6, <1>8, <1>9, <1>10

LEMMA EmptyType == Absent \in Row /\ Idle \in Request
<1> DEFINE none == [u \in Users |-> Null]
<1>1. <<>> \in Seq(Entry) /\ none \in [Users -> Emojis \cup {Null}]
  OBVIOUS
<1> HIDE DEF none
<1>2. Absent \in Row
  BY <1>1 DEF Absent, Row, none
<1> QED
  BY <1>2 DEF Idle, Request

-----------------------------------------------------------------------------
(* What TypeOK says of one message and of one request. *)
RowOK(r) ==
  /\ r \in Row
  /\ r.state # "absent" => r.sender \in Users /\ r.content \in Contents
  /\ Len(r.history) <= MaxEdits

RequestOK(q) ==
  /\ q \in Request
  /\ q.step # "idle" =>
       /\ q.message \in Messages
       /\ q.copy.state # "absent"
       /\ q.copy.sender \in Users /\ q.copy.content \in Contents
       /\ Len(q.copy.history) <= MaxEdits

LEMMA TypeParts ==
  TypeOK <=> /\ row \in [Messages -> Row] /\ \A m \in Messages : RowOK(row[m])
             /\ request \in [Clients -> Request] /\ \A c \in Clients : RequestOK(request[c])
             /\ \A c \in Clients :
                  request[c].step # "idle" => row[request[c].message].state # "absent"
             /\ raced \in [Messages -> BOOLEAN]
BY DEF TypeOK, RowOK, RequestOK

LEMMA IdleOK == RequestOK(Idle)
BY EmptyType DEF RequestOK, Idle

LEMMA AbsentOK == RowOK(Absent)
BY EmptyType, MaxEditsAssumption DEF RowOK, Absent

(* A request that opens on a row that may be read holds a copy within the  *)
(* type of a row.                                                          *)
LEMMA FoundType ==
  ASSUME TypeOK, NEW c \in Clients, NEW m \in Messages,
         NEW step \in {"found", "delete"}, NEW copy \in Row, NEW touched \in SUBSET Columns,
         copy.state # "absent", copy.sender \in Users, copy.content \in Contents,
         Len(copy.history) <= MaxEdits,
         Found(c, m, step, copy, touched)
  PROVE  TypeOK'
<1> DEFINE new == [step |-> step, message |-> m, copy |-> copy, dirty |-> touched,
                   alone |-> TRUE]
<1>1. RequestOK(new)
  BY DEF RequestOK, Request
<1>2. request' = [request EXCEPT ![c] = new] /\ UNCHANGED <<row, raced>>
  BY DEF Found
<1> HIDE DEF new
<1>3. new \in Request
  BY <1>1 DEF RequestOK
<1>4. request \in [Clients -> Request] /\ \A d \in Clients : RequestOK(request[d])
  BY TypeParts
<1>5. request' \in [Clients -> Request] /\ \A d \in Clients : RequestOK(request'[d])
  BY <1>1, <1>2, <1>3, <1>4
<1>6. /\ row' \in [Messages -> Row] /\ \A n \in Messages : RowOK(row'[n])
      /\ raced' \in [Messages -> BOOLEAN]
  BY <1>2, TypeParts
<1>7. \A d \in Clients :
        request'[d].step # "idle" => row'[request'[d].message].state # "absent"
  BY <1>2, <1>4, TypeParts DEF new, Found, Visible
<1> QED
  BY <1>5, <1>6, <1>7 DEF TypeOK, RowOK, RequestOK

(* What a visible row gives an operation to start from. *)
LEMMA VisibleRow ==
  ASSUME TypeOK, NEW m \in Messages, Visible(m)
  PROVE  /\ row[m] \in Row /\ row[m].state = "shown"
         /\ row[m].sender \in Users /\ row[m].content \in Contents
         /\ Len(row[m].history) <= MaxEdits
BY DEF TypeOK, Visible

LEMMA OpensType ==
  ASSUME TypeOK, NEW c \in Clients, NEW m \in Messages, NEW u \in Users,
         \/ \E content \in Contents : UpdateMessage(c, m, u, content)
         \/ \E emoji \in Emojis : AddReaction(c, m, u, emoji)
         \/ RemoveReaction(c, m, u)
         \/ MarkMessageAsRead(c, m, u)
         \/ DeleteMessage(c, m, u)
  PROVE  TypeOK'
<1>1. Visible(m)
  BY DEF UpdateMessage, AddReaction, RemoveReaction, MarkMessageAsRead, DeleteMessage, Found
<1>2. /\ row[m] \in Row /\ row[m].state = "shown"
      /\ row[m].sender \in Users /\ row[m].content \in Contents
      /\ Len(row[m].history) <= MaxEdits
  BY <1>1, VisibleRow
<1>3. ASSUME NEW content \in Contents, UpdateMessage(c, m, u, content)
      PROVE  TypeOK'
  <2> DEFINE copy == WithEdit(row[m], u, content)
  <2>1. copy \in Row
    BY <1>2, OperationType
  <2>2. copy.state # "absent" /\ copy.sender \in Users /\ copy.content \in Contents
    BY <1>2 DEF WithEdit, Row
  <2>3. Len(row[m].history) < MaxEdits /\ Found(c, m, "found", copy, {"metadata"})
    BY <1>3 DEF UpdateMessage
  <2>4. Len(copy.history) <= MaxEdits
    <3>1. copy.history = Append(row[m].history, [content |-> row[m].content, editor |-> u])
      BY <1>2 DEF WithEdit, Row
    <3>2. row[m].history \in Seq(Entry)
      BY <1>2 DEF Row
    <3>3. Len(copy.history) = Len(row[m].history) + 1 /\ Len(row[m].history) \in Nat
      BY <3>1, <3>2
    <3> QED
      BY <2>3, <3>3, MaxEditsAssumption
  <2>5. {"metadata"} \in SUBSET Columns
    BY DEF Columns
  <2> HIDE DEF copy
  <2> QED
    BY <2>1, <2>2, <2>3, <2>4, <2>5, FoundType
<1>4. ASSUME NEW copy \in Row, copy.state # "absent", copy.sender = row[m].sender, copy.content = row[m].content,
             copy.history = row[m].history, NEW step \in {"found", "delete"},
             NEW touched \in SUBSET Columns, Found(c, m, step, copy, touched)
      PROVE  TypeOK'
  BY <1>2, <1>4, FoundType
<1>5. ASSUME NEW e \in Emojis \cup {Null}
      PROVE  LET copy == [row[m] EXCEPT !.reactions[u] = e] IN
             copy.state # "absent" /\ copy.sender = row[m].sender
               /\ copy.content = row[m].content /\ copy.history = row[m].history
  BY <1>2 DEF Row
<1>6. /\ {} \in SUBSET Columns /\ {"readBy"} \in SUBSET Columns
      /\ {"deletion"} \in SUBSET Columns
  BY DEF Columns
<1>7. ASSUME NEW emoji \in Emojis, AddReaction(c, m, u, emoji)
      PROVE  TypeOK'
  <2> DEFINE copy == WithReaction(row[m], u, emoji)
  <2>1. copy \in Row
    BY <1>2, OperationType
  <2>2. copy.state # "absent" /\ copy.sender = row[m].sender
          /\ copy.content = row[m].content /\ copy.history = row[m].history
    BY <1>5 DEF WithReaction
  <2>3. Found(c, m, "found", copy, {})
    BY <1>7 DEF AddReaction
  <2> HIDE DEF copy
  <2> QED
    BY <1>4, <1>6, <2>1, <2>2, <2>3
<1>8. CASE RemoveReaction(c, m, u)
  <2> DEFINE copy == WithoutReaction(row[m], u)
  <2>1. copy \in Row
    BY <1>2, OperationType
  <2>2. copy.state # "absent" /\ copy.sender = row[m].sender
          /\ copy.content = row[m].content /\ copy.history = row[m].history
    BY <1>5 DEF WithoutReaction
  <2>3. Found(c, m, "found", copy, {})
    BY <1>8 DEF RemoveReaction
  <2> HIDE DEF copy
  <2> QED
    BY <1>4, <1>6, <2>1, <2>2, <2>3
<1>9. CASE MarkMessageAsRead(c, m, u)
  <2> DEFINE copy == WithReader(row[m], u)
  <2>1. copy \in Row
    BY <1>2, OperationType
  <2>2. copy.state # "absent" /\ copy.sender = row[m].sender
          /\ copy.content = row[m].content /\ copy.history = row[m].history
    BY <1>2 DEF WithReader, Row
  <2>3. Found(c, m, "found", copy, {"readBy"})
    BY <1>9 DEF MarkMessageAsRead
  <2> HIDE DEF copy
  <2> QED
    BY <1>4, <1>6, <2>1, <2>2, <2>3
<1>10. CASE DeleteMessage(c, m, u)
  <2> DEFINE copy == WithDeletion(row[m], u)
  <2>1. copy \in Row
    BY <1>2, OperationType
  <2>2. copy.state # "absent" /\ copy.sender = row[m].sender
          /\ copy.content = row[m].content /\ copy.history = row[m].history
    BY <1>2 DEF WithDeletion, Row
  <2>3. Found(c, m, "delete", copy, {"deletion"})
    BY <1>10 DEF DeleteMessage
  <2> HIDE DEF copy
  <2> QED
    BY <1>4, <1>6, <2>1, <2>2, <2>3
<1> QED
  BY <1>3, <1>7, <1>8, <1>9, <1>10

(* A settings update holds a message as it is. *)
LEMMA SettingsType ==
  ASSUME TypeOK, NEW c \in Clients, NEW m \in Messages, UpdateConversationSettings(c, m)
  PROVE  TypeOK'
<1>1. Found(c, m, "found", row[m], {}) /\ Visible(m)
  BY DEF UpdateConversationSettings, Found
<1>2. /\ row[m] \in Row /\ row[m].state = "shown"
      /\ row[m].sender \in Users /\ row[m].content \in Contents
      /\ Len(row[m].history) <= MaxEdits
  BY <1>1, VisibleRow
<1> QED
  BY <1>1, <1>2, FoundType

(* A write leaves the row, and what the requests hold, within their types. *)
LEMMA WroteType ==
  ASSUME TypeOK, NEW c \in Clients, NEW m \in Messages, Wrote(c, m)
  PROVE  request' \in [Clients -> Request] /\ \A d \in Clients : RequestOK(request'[d])
<1>1. ASSUME NEW q \in Request, RequestOK(q)
      PROVE  RequestOK([q EXCEPT !.alone = FALSE])
  BY <1>1 DEF RequestOK, Request
<1>2. \A d \in Clients : RequestOK(request[d]) /\ request[d] \in Request
  BY TypeParts
<1>3. \A d \in Clients : RequestOK(IF d = c THEN Idle
          ELSE IF request[d].message = m THEN [request[d] EXCEPT !.alone = FALSE]
          ELSE request[d])
  BY <1>1, <1>2, IdleOK
<1>4. \A q : RequestOK(q) => q \in Request
  BY DEF RequestOK
<1> HIDE DEF RequestOK
<1> QED
  BY <1>3, <1>4 DEF Wrote

LEMMA MergedOK ==
  ASSUME TypeOK, NEW c \in Clients, request[c].step # "idle"
  PROVE  LET m == request[c].message IN
         /\ m \in Messages
         /\ RowOK(Merged(row[m], request[c].copy, request[c].dirty))
         /\ Merged(row[m], request[c].copy, request[c].dirty).state # "absent"
<1> DEFINE m == request[c].message
           copy == request[c].copy
           dirty == request[c].dirty
           new == Merged(row[m], copy, dirty)
<1>1. /\ m \in Messages /\ copy \in Row /\ dirty \in SUBSET Columns
      /\ copy.content \in Contents /\ Len(copy.history) <= MaxEdits
  BY DEF TypeOK, Request
<1>2. RowOK(row[m]) /\ row[m] \in Row
  BY <1>1, TypeParts
<1>3. row[m].state # "absent" /\ copy.state # "absent"
  BY DEF TypeOK
<1>4. /\ new \in Row /\ new.sender = row[m].sender
      /\ new.content \in {row[m].content, copy.content}
      /\ new.history \in {row[m].history, copy.history}
      /\ new.state \in {row[m].state, copy.state}
  BY <1>1, <1>2, MergedType
<1> HIDE DEF m, copy, dirty, new
<1>5. RowOK(new) /\ new.state # "absent"
  BY <1>1, <1>2, <1>3, <1>4 DEF RowOK
<1> QED
  BY <1>1, <1>5 DEF m, copy, dirty, new

(* A write of what a request holds. *)
LEMMA MergeType ==
  ASSUME TypeOK, NEW c \in Clients, request[c].step # "idle",
         LET m == request[c].message IN
         /\ row' = [row EXCEPT ![m] = Merged(@, request[c].copy, request[c].dirty)]
         /\ Wrote(c, m),
         raced' \in [Messages -> BOOLEAN]
  PROVE  TypeOK'
<1> DEFINE m == request[c].message
           new == Merged(row[m], request[c].copy, request[c].dirty)
<1>1. m \in Messages /\ RowOK(new) /\ new.state # "absent"
  BY MergedOK
<1>2. row' = [row EXCEPT ![m] = new] /\ Wrote(c, m)
  OBVIOUS
<1>3. request' \in [Clients -> Request] /\ \A d \in Clients : RequestOK(request'[d])
  BY <1>1, <1>2, WroteType
<1> HIDE DEF m, new
<1>4. row \in [Messages -> Row] /\ \A n \in Messages : RowOK(row[n])
  BY TypeParts
<1>5. row' \in [Messages -> Row] /\ \A n \in Messages : RowOK(row'[n])
  BY <1>1, <1>2, <1>4 DEF RowOK
<1>6. \A n \in Messages : row[n].state # "absent" => row'[n].state # "absent"
  BY <1>1, <1>2, <1>4
<1>7. ASSUME NEW d \in Clients, request'[d].step # "idle"
      PROVE  row'[request'[d].message].state # "absent"
  <2>1. d # c
    BY <1>2, <1>7 DEF Wrote, Idle
  <2>2. request[d] \in Request
    BY TypeParts
  <2>3. request'[d].step = request[d].step /\ request'[d].message = request[d].message
    BY <1>2, <2>1, <2>2 DEF Wrote, Request
  <2>4. request[d].message \in Messages /\ row[request[d].message].state # "absent"
    BY <1>7, <2>3 DEF TypeOK
  <2> QED
    BY <1>6, <2>3, <2>4
<1> QED
  BY <1>3, <1>5, <1>7 DEF TypeOK, RowOK, RequestOK

(* The steps that only change the request of c. *)
LEMMA RequestMoves ==
  ASSUME TypeOK, NEW c \in Clients, NEW q, RequestOK(q),
         q.step # "idle" => request[c].step # "idle" /\ q.message = request[c].message,
         request' = [request EXCEPT ![c] = q], UNCHANGED <<row, raced>>
  PROVE  TypeOK'
<1>1. request \in [Clients -> Request] /\ q \in Request
  BY DEF TypeOK, RequestOK
<1>2. \A d \in Clients : request'[d] = IF d = c THEN q ELSE request[d]
  BY <1>1
<1>3. request' \in [Clients -> Request] /\ \A d \in Clients : RequestOK(request'[d])
  BY <1>1, <1>2, TypeParts
<1>4. \A d \in Clients :
        request'[d].step # "idle" => row'[request'[d].message].state # "absent"
  BY <1>2 DEF TypeOK
<1> QED
  BY <1>3, <1>4 DEF TypeOK, RowOK, RequestOK

LEMMA DifferingType ==
  ASSUME NEW copy, NEW r
  PROVE  Differing(copy, r) \in SUBSET Columns
BY DEF Differing, Columns

LEMMA NextType == TypeOK /\ [Next]_vars => TypeOK'
<1> SUFFICES ASSUME TypeOK, [Next]_vars PROVE TypeOK'
  OBVIOUS
<1>1. ASSUME NEW m \in Messages, NEW u \in Users, NEW content \in Contents,
             CreateMessage(m, u, content)
      PROVE  TypeOK'
  <2> DEFINE new == [row[m] EXCEPT !.state = "shown", !.sender = u, !.content = content]
  <2>1. row \in [Messages -> Row] /\ RowOK(row[m])
    BY TypeParts
  <2>2. RowOK(new) /\ new.state # "absent"
    BY <2>1 DEF RowOK, Row
  <2>3. row' = [row EXCEPT ![m] = new] /\ UNCHANGED <<request, raced>>
    BY <1>1 DEF CreateMessage
  <2> HIDE DEF new
  <2>4. row' \in [Messages -> Row] /\ \A n \in Messages : RowOK(row'[n])
    BY <2>1, <2>2, <2>3, TypeParts DEF RowOK
  <2>5. \A n \in Messages : row[n].state # "absent" => row'[n].state # "absent"
    BY <2>1, <2>2, <2>3
  <2> QED
    BY <2>3, <2>4, <2>5 DEF TypeOK, RowOK
<1>2. ASSUME NEW c \in Clients, Reload(c) PROVE TypeOK'
  <2> DEFINE m == request[c].message
             dirty == request[c].dirty \cup Differing(request[c].copy, row[m])
             q == [request[c] EXCEPT !.step = "save", !.dirty = dirty]
  <2>1. dirty \in SUBSET Columns
    BY DifferingType DEF TypeOK, Request
  <2>2. request' = [request EXCEPT ![c] = IF dirty = {} THEN Idle ELSE q]
          /\ UNCHANGED <<row, raced>>
    BY <1>2 DEF Reload
  <2>3. RequestOK(request[c]) /\ request[c].step = "found"
    BY <1>2, TypeParts DEF Reload
  <2> HIDE DEF dirty
  <2>4. RequestOK(q) /\ q.message = request[c].message
    BY <2>1, <2>3 DEF RequestOK, Request
  <2>5. Idle.step = "idle"
    BY DEF Idle
  <2> HIDE DEF q
  <2> QED
    BY <2>2, <2>3, <2>4, <2>5, IdleOK, RequestMoves
<1>3. ASSUME NEW c \in Clients, Write(c) PROVE TypeOK'
  <2>1. request[c].message \in Messages
    BY <1>3 DEF Write, TypeOK
  <2>2. raced' \in [Messages -> BOOLEAN]
    BY <1>3, <2>1 DEF Write, TypeOK, Request
  <2> QED
    BY <1>3, <2>2, MergeType DEF Write
<1>4. ASSUME NEW c \in Clients, MarkAsDeleted(c) PROVE TypeOK'
  <2>1. raced' \in [Messages -> BOOLEAN]
    BY <1>4 DEF MarkAsDeleted, TypeOK
  <2> QED
    BY <1>4, <2>1, MergeType DEF MarkAsDeleted
<1>5. ASSUME NEW c \in Clients, RequestFails(c) PROVE TypeOK'
  <2>1. Idle.step = "idle"
    BY DEF Idle
  <2> QED
    BY <1>5, <2>1, IdleOK, RequestMoves DEF RequestFails
<1>6. CASE UNCHANGED vars
  BY <1>6 DEF vars, TypeOK
<1> QED
  BY <1>1, <1>2, <1>3, <1>4, <1>5, <1>6, OpensType, SettingsType DEF Next

(* Rows and requests stay within their types, and no request works on a    *)
(* message that does not exist.                                            *)
THEOREM TypeCorrect == Spec => []TypeOK
<1>1. Init => TypeOK
  BY AbsentOK, IdleOK, EmptyType DEF Init, TypeOK, RowOK, RequestOK, Idle
<1> QED
  BY <1>1, NextType, PTL DEF Spec
-----------------------------------------------------------------------------
(* Who deleted a message is its sender, also in the hands of a request, and *)
(* a request that will save has read a message that was not deleted.        *)
DeletedBySender(r) ==
  /\ r.state = "deleted" => r.deletedBy = r.sender
  /\ r.state # "deleted" => r.deletedBy = Null

HoldsCopy(c) ==
  LET q == request[c]
      r == row[q.message] IN
  /\ q.step # "idle" => q.copy.sender = r.sender
  /\ q.step = "delete" => q.copy.state = "deleted" /\ q.copy.deletedBy = r.sender
                          /\ q.dirty = {"deletion"}
  /\ q.step \in {"found", "save"} => q.copy.state = "shown" /\ q.copy.deletedBy = Null

CopyInv ==
  /\ \A m \in Messages : DeletedBySender(row[m])
  /\ \A c \in Clients : HoldsCopy(c)

(* The copy of a save differs from the row it was read from by at most one *)
(* operation of one user.                                                  *)
OneOperation(r, copy) ==
  \/ copy = r
  \/ \E u \in Users :
       \/ \E content \in Contents : r.sender = u /\ copy = WithEdit(r, u, content)
       \/ \E emoji \in Emojis : copy = WithReaction(r, u, emoji)
       \/ copy = WithoutReaction(r, u)
       \/ copy = WithReader(r, u)

(* A request nobody wrote behind: its copy is still at most one operation  *)
(* from the row, and its write will make the row the copy.                 *)
Undisturbed(c) ==
  LET q == request[c]
      r == row[q.message] IN
  /\ q.alone /\ q.step \in {"found", "save"} =>
       r.state = "shown" /\ OneOperation(r, q.copy)
  /\ q.alone /\ q.step = "save" => Merged(r, q.copy, q.dirty) = q.copy

AloneInv ==
  /\ \A c \in Clients : Undisturbed(c)
  /\ \A m \in Messages : raced[m] => row[m].state # "absent"

LEMMA MergedColumns ==
  ASSUME NEW r \in Row, NEW copy \in Row, NEW dirty \in SUBSET Columns
  PROVE  LET new == Merged(r, copy, dirty) IN
         /\ new.sender = r.sender
         /\ new.content = IF "content" \in dirty THEN copy.content ELSE r.content
         /\ new.edited = IF "edited" \in dirty THEN copy.edited ELSE r.edited
         /\ new.history = IF "metadata" \in dirty THEN copy.history ELSE r.history
         /\ new.reactions = IF "metadata" \in dirty THEN copy.reactions ELSE r.reactions
         /\ new.readBy = IF "readBy" \in dirty THEN copy.readBy ELSE r.readBy
         /\ new.state = IF "deletion" \in dirty THEN copy.state ELSE r.state
         /\ new.deletedBy = IF "deletion" \in dirty THEN copy.deletedBy ELSE r.deletedBy
BY DEF Merged, Row

(* The parts of CopyInv and AloneInv about the request of one client need  *)
(* only its request and the row it works on.                               *)
Holds(q, r) ==
  /\ q.step # "idle" => q.copy.sender = r.sender
  /\ q.step = "delete" => q.copy.state = "deleted" /\ q.copy.deletedBy = r.sender
                          /\ q.dirty = {"deletion"}
  /\ q.step \in {"found", "save"} => q.copy.state = "shown" /\ q.copy.deletedBy = Null

LEMMA HoldsParts == \A c \in Clients : HoldsCopy(c) <=> Holds(request[c], row[request[c].message])
BY DEF HoldsCopy, Holds

(* A step keeps CopyInv when it keeps the senders and who deleted what,    *)
(* and when each request is what it was, or idle, or holds its copy.       *)
LEMMA CopyKept ==
  ASSUME TypeOK, CopyInv,
         \A m \in Messages :
           /\ row[m].state # "absent" => row'[m].sender = row[m].sender
           /\ DeletedBySender(row'[m]),
         \A c \in Clients :
           \/ request'[c].step = "idle"
           \/ /\ request'[c].message = request[c].message
              /\ request'[c].step = request[c].step
              /\ request'[c].copy = request[c].copy
              /\ request'[c].dirty = request[c].dirty
           \/ Holds(request'[c], row'[request'[c].message])
  PROVE  CopyInv'
<1>1. ASSUME NEW c \in Clients PROVE HoldsCopy(c)'
  <2>1. CASE request'[c].step = "idle"
    BY <2>1 DEF HoldsCopy
  <2>2. CASE /\ request'[c].message = request[c].message
             /\ request'[c].step = request[c].step
             /\ request'[c].copy = request[c].copy
             /\ request'[c].dirty = request[c].dirty
             /\ request[c].step # "idle"
    <3>1. /\ request[c].message \in Messages
          /\ row[request[c].message].state # "absent"
      BY <2>2 DEF TypeOK
    <3>2. row'[request'[c].message].sender = row[request[c].message].sender
      BY <2>2, <3>1
    <3> QED
      BY <2>2, <3>2 DEF CopyInv, HoldsCopy
  <2>3. CASE Holds(request'[c], row'[request'[c].message])
    BY <2>3 DEF Holds, HoldsCopy
  <2> QED
    BY <2>1, <2>2, <2>3
<1> QED
  BY <1>1 DEF CopyInv, DeletedBySender

(* What the operations open with. *)
LEMMA OpensCopy ==
  ASSUME TypeOK, CopyInv, NEW c \in Clients, NEW m \in Messages, NEW u \in Users,
         \/ \E content \in Contents : UpdateMessage(c, m, u, content)
         \/ \E emoji \in Emojis : AddReaction(c, m, u, emoji)
         \/ RemoveReaction(c, m, u)
         \/ MarkMessageAsRead(c, m, u)
         \/ DeleteMessage(c, m, u)
  PROVE  CopyInv'
<1>1. UNCHANGED row
  BY DEF UpdateMessage, AddReaction, RemoveReaction, MarkMessageAsRead, DeleteMessage, Found
<1>2. Visible(m)
  BY DEF UpdateMessage, AddReaction, RemoveReaction, MarkMessageAsRead, DeleteMessage, Found
<1>3. row[m] \in Row /\ row[m].state = "shown" /\ row[m].deletedBy = Null
  BY <1>2, VisibleRow DEF CopyInv, DeletedBySender
<1>4. ASSUME NEW step, NEW copy, NEW touched, Found(c, m, step, copy, touched),
             Holds([step |-> step, message |-> m, copy |-> copy, dirty |-> touched,
                    alone |-> TRUE], row[m])
      PROVE  CopyInv'
  <2> DEFINE new == [step |-> step, message |-> m, copy |-> copy, dirty |-> touched,
                     alone |-> TRUE]
  <2>1. request' = [request EXCEPT ![c] = new]
    BY <1>4 DEF Found
  <2>2. new.message = m /\ Holds(new, row[m])
    BY <1>4
  <2> HIDE DEF new
  <2>3. request \in [Clients -> Request]
    BY DEF TypeOK
  <2>4. request'[c] = new /\ \A d \in Clients \ {c} : request'[d] = request[d]
    BY <2>1, <2>3
  <2>5. \A d \in Clients :
          \/ Holds(request'[d], row'[request'[d].message])
          \/ request'[d] = request[d]
    BY <1>1, <2>2, <2>4
  <2> QED
    BY <1>1, <2>5, CopyKept DEF CopyInv
<1>5. ASSUME NEW copy, copy.sender = row[m].sender, copy.state = "shown",
             copy.deletedBy = Null, NEW touched, Found(c, m, "found", copy, touched)
      PROVE  CopyInv'
  BY <1>4, <1>5 DEF Holds
<1>6. ASSUME NEW content \in Contents, UpdateMessage(c, m, u, content)
      PROVE  CopyInv'
  <2> DEFINE copy == WithEdit(row[m], u, content)
  <2>1. copy.sender = row[m].sender /\ copy.state = "shown" /\ copy.deletedBy = Null
    BY <1>3 DEF WithEdit, Row
  <2>2. Found(c, m, "found", copy, {"metadata"})
    BY <1>6 DEF UpdateMessage
  <2> HIDE DEF copy
  <2> QED
    BY <1>5, <2>1, <2>2
<1>7. ASSUME NEW emoji \in Emojis, AddReaction(c, m, u, emoji)
      PROVE  CopyInv'
  <2> DEFINE copy == WithReaction(row[m], u, emoji)
  <2>1. copy.sender = row[m].sender /\ copy.state = "shown" /\ copy.deletedBy = Null
    BY <1>3 DEF WithReaction, Row
  <2>2. Found(c, m, "found", copy, {})
    BY <1>7 DEF AddReaction
  <2> HIDE DEF copy
  <2> QED
    BY <1>5, <2>1, <2>2
<1>8. CASE RemoveReaction(c, m, u)
  <2> DEFINE copy == WithoutReaction(row[m], u)
  <2>1. copy.sender = row[m].sender /\ copy.state = "shown" /\ copy.deletedBy = Null
    BY <1>3 DEF WithoutReaction, Row
  <2>2. Found(c, m, "found", copy, {})
    BY <1>8 DEF RemoveReaction
  <2> HIDE DEF copy
  <2> QED
    BY <1>5, <2>1, <2>2
<1>9. CASE MarkMessageAsRead(c, m, u)
  <2> DEFINE copy == WithReader(row[m], u)
  <2>1. copy.sender = row[m].sender /\ copy.state = "shown" /\ copy.deletedBy = Null
    BY <1>3 DEF WithReader, Row
  <2>2. Found(c, m, "found", copy, {"readBy"})
    BY <1>9 DEF MarkMessageAsRead
  <2> HIDE DEF copy
  <2> QED
    BY <1>5, <2>1, <2>2
<1>10. CASE DeleteMessage(c, m, u)
  <2> DEFINE copy == WithDeletion(row[m], u)
  <2>1. Found(c, m, "delete", copy, {"deletion"}) /\ row[m].sender = u
    BY <1>10 DEF DeleteMessage
  <2>2. copy.sender = row[m].sender /\ copy.state = "deleted" /\ copy.deletedBy = row[m].sender
    BY <1>3, <2>1 DEF WithDeletion, Row
  <2> HIDE DEF copy
  <2> QED
    BY <1>4, <2>1, <2>2 DEF Holds
<1> QED
  BY <1>6, <1>7, <1>8, <1>9, <1>10

LEMMA SettingsCopy ==
  ASSUME TypeOK, CopyInv, NEW c \in Clients, NEW m \in Messages,
         UpdateConversationSettings(c, m)
  PROVE  CopyInv'
<1> DEFINE new == [step |-> "found", message |-> m, copy |-> row[m], dirty |-> {},
                   alone |-> TRUE]
<1>1. request' = [request EXCEPT ![c] = new] /\ UNCHANGED row /\ Visible(m)
  BY DEF UpdateConversationSettings, Found
<1>2. row[m].state = "shown" /\ row[m].deletedBy = Null
  BY <1>1, VisibleRow DEF CopyInv, DeletedBySender
<1>3. new.message = m /\ Holds(new, row[m])
  BY <1>2 DEF Holds
<1> HIDE DEF new
<1>4. request'[c] = new /\ \A d \in Clients \ {c} : request'[d] = request[d]
  BY <1>1 DEF TypeOK
<1>5. \A d \in Clients :
        Holds(request'[d], row'[request'[d].message]) \/ request'[d] = request[d]
  BY <1>1, <1>3, <1>4
<1> QED
  BY <1>1, <1>5, CopyKept DEF CopyInv

(* A write leaves the other requests what they were, except that they are  *)
(* not alone.                                                              *)
LEMMA WroteOthers ==
  ASSUME TypeOK, NEW c \in Clients, NEW m \in Messages, Wrote(c, m)
  PROVE  /\ request'[c] = Idle
         /\ \A d \in Clients \ {c} :
              /\ request'[d].message = request[d].message
              /\ request'[d].step = request[d].step
              /\ request'[d].copy = request[d].copy
              /\ request'[d].dirty = request[d].dirty
              /\ request'[d].alone = (request[d].alone /\ request[d].message # m)
<1>1. \A d \in Clients : request[d] \in Request
  BY DEF TypeOK
<1>2. ASSUME NEW d \in Clients \ {c}
      PROVE  /\ request'[d].message = request[d].message
             /\ request'[d].step = request[d].step
             /\ request'[d].copy = request[d].copy
             /\ request'[d].dirty = request[d].dirty
             /\ request'[d].alone = (request[d].alone /\ request[d].message # m)
  <2>1. CASE request[d].message = m
    <3>1. request'[d] = [request[d] EXCEPT !.alone = FALSE]
      BY <2>1 DEF Wrote
    <3> QED
      BY <1>1, <2>1, <3>1 DEF Request
  <2>2. CASE request[d].message # m
    <3>1. request'[d] = request[d]
      BY <2>2 DEF Wrote
    <3> QED
      BY <1>1, <2>2, <3>1 DEF Request
  <2> QED
    BY <2>1, <2>2
<1>3. request'[c] = Idle
  BY DEF Wrote
<1> QED
  BY <1>2, <1>3

(* A write of what a request holds. *)
LEMMA MergeCopy ==
  ASSUME TypeOK, CopyInv, NEW c \in Clients, request[c].step # "idle",
         LET m == request[c].message IN
         /\ row' = [row EXCEPT ![m] = Merged(@, request[c].copy, request[c].dirty)]
         /\ Wrote(c, m)
  PROVE  CopyInv'
<1> DEFINE m == request[c].message
           copy == request[c].copy
           dirty == request[c].dirty
           new == Merged(row[m], copy, dirty)
<1>1. m \in Messages /\ copy \in Row /\ dirty \in SUBSET Columns /\ row[m] \in Row
  BY DEF TypeOK, Request
<1>2. /\ new.sender = row[m].sender
      /\ new.state = IF "deletion" \in dirty THEN copy.state ELSE row[m].state
      /\ new.deletedBy = IF "deletion" \in dirty THEN copy.deletedBy ELSE row[m].deletedBy
  BY <1>1, MergedColumns
<1>3. /\ copy.sender = row[m].sender
      /\ \/ copy.state = "deleted" /\ copy.deletedBy = row[m].sender
         \/ copy.state = "shown" /\ copy.deletedBy = Null
  <2>1. Holds(request[c], row[m]) /\ request[c].step \in {"found", "save", "delete"}
    BY HoldsParts DEF CopyInv, TypeOK, Request
  <2> QED
    BY <2>1 DEF Holds
<1>4. DeletedBySender(row[m])
  BY <1>1 DEF CopyInv
<1>5. DeletedBySender(new)
  BY <1>2, <1>3, <1>4 DEF DeletedBySender
<1>6. row' = [row EXCEPT ![m] = new] /\ Wrote(c, m)
  OBVIOUS
<1>7. \A d \in Clients :
        \/ request'[d].step = "idle"
        \/ /\ request'[d].message = request[d].message
           /\ request'[d].step = request[d].step
           /\ request'[d].copy = request[d].copy
           /\ request'[d].dirty = request[d].dirty
  BY <1>1, <1>6, WroteOthers DEF Idle
<1> HIDE DEF m, copy, dirty, new
<1>8. row \in [Messages -> Row]
  BY DEF TypeOK
<1>9. \A n \in Messages : row'[n].sender = row[n].sender /\ DeletedBySender(row'[n])
  BY <1>2, <1>5, <1>6, <1>8 DEF CopyInv
<1> QED
  BY <1>7, <1>9, CopyKept

LEMMA NextCopy == TypeOK /\ CopyInv /\ [Next]_vars => CopyInv'
<1> SUFFICES ASSUME TypeOK, CopyInv, [Next]_vars PROVE CopyInv'
  OBVIOUS
<1>1. ASSUME NEW m \in Messages, NEW u \in Users, NEW content \in Contents,
             CreateMessage(m, u, content)
      PROVE  CopyInv'
  <2> DEFINE new == [row[m] EXCEPT !.state = "shown", !.sender = u, !.content = content]
  <2>1. row \in [Messages -> Row] /\ row[m] \in Row
    BY DEF TypeOK
  <2>2. row' = [row EXCEPT ![m] = new] /\ UNCHANGED request /\ row[m].state = "absent"
    BY <1>1 DEF CreateMessage
  <2>3. DeletedBySender(new)
    BY <2>1, <2>2 DEF Row, CopyInv, DeletedBySender
  <2> HIDE DEF new
  <2>4. \A n \in Messages :
          /\ row[n].state # "absent" => row'[n].sender = row[n].sender
          /\ DeletedBySender(row'[n])
    BY <2>1, <2>2, <2>3 DEF CopyInv
  <2> QED
    BY <2>2, <2>4, CopyKept
<1>2. ASSUME NEW c \in Clients, Reload(c) PROVE CopyInv'
  <2> DEFINE dirty == request[c].dirty \cup Differing(request[c].copy, row[request[c].message])
             q == [request[c] EXCEPT !.step = "save", !.dirty = dirty]
  <2>1. request' = [request EXCEPT ![c] = IF dirty = {} THEN Idle ELSE q]
          /\ UNCHANGED row
    BY <1>2 DEF Reload
  <2>2. request[c] \in Request /\ request[c].step = "found"
    BY <1>2 DEF Reload, TypeOK
  <2>3. Holds(request[c], row[request[c].message])
    BY HoldsParts DEF CopyInv
  <2> HIDE DEF dirty
  <2>4. Holds(q, row[q.message])
    BY <2>2, <2>3 DEF Request, Holds
  <2>5. Idle.step = "idle"
    BY DEF Idle
  <2> HIDE DEF q
  <2>6. \A d \in Clients :
          \/ request'[d] = request[d]
          \/ request'[d].step = "idle"
          \/ Holds(request'[d], row'[request'[d].message])
    BY <2>1, <2>4, <2>5 DEF TypeOK
  <2> QED
    BY <2>1, <2>6, CopyKept DEF CopyInv
<1>3. ASSUME NEW c \in Clients, Write(c) \/ MarkAsDeleted(c) PROVE CopyInv'
  BY <1>3, MergeCopy DEF Write, MarkAsDeleted
<1>4. ASSUME NEW c \in Clients, RequestFails(c) PROVE CopyInv'
  <2>1. UNCHANGED row /\ \A d \in Clients :
          request'[d] = request[d] \/ request'[d].step = "idle"
    BY <1>4 DEF RequestFails, Idle, TypeOK
  <2> QED
    BY <2>1, CopyKept DEF CopyInv
<1>5. CASE UNCHANGED vars
  BY <1>5 DEF vars, CopyInv, HoldsCopy
<1> QED
  BY <1>1, <1>2, <1>3, <1>4, <1>5, OpensCopy, SettingsCopy DEF Next

LEMMA AlwaysCopy == Spec => []CopyInv
<1>1. Init => CopyInv
  BY DEF Init, CopyInv, DeletedBySender, HoldsCopy, Absent, Idle
<1> QED
  BY <1>1, NextCopy, TypeCorrect, PTL DEF Spec

(* A deletion holds against every request that starts after it and against *)
(* every one that read before and is over: nobody finds the row any more,  *)
(* and a second deletion writes what is there.                             *)
THEOREM DeletionsHold == Spec => DeletionHolds
<1>1. ASSUME TypeOK, CopyInv, Next, NEW m \in Messages, Settled(m)
      PROVE  Settled(m)' /\ row'[m] = row[m]
  <2> SUFFICES
        /\ row'[m] = row[m]
        /\ \A c \in Clients :
             request'[c].message = m => request'[c].step \notin {"found", "save"}
    BY <1>1 DEF Settled
  <2>1. /\ row[m].state = "deleted"
        /\ \A c \in Clients : request[c].message = m => request[c].step \notin {"found", "save"}
    BY <1>1 DEF Settled
  <2>2. row \in [Messages -> Row] /\ request \in [Clients -> Request]
    BY <1>1 DEF TypeOK
  <2>3. ASSUME NEW n \in Messages, NEW u \in Users, NEW content \in Contents,
               CreateMessage(n, u, content)
        PROVE  row'[m] = row[m] /\ UNCHANGED request
    BY <2>1, <2>2, <2>3 DEF CreateMessage
  <2>4. ASSUME NEW c \in Clients, NEW n \in Messages, NEW step, NEW copy, NEW touched,
               Found(c, n, step, copy, touched)
        PROVE  /\ row'[m] = row[m]
               /\ \A d \in Clients : request'[d] = request[d] \/ request'[d].message # m
    <3>1. n # m /\ UNCHANGED row
      BY <2>1, <2>4 DEF Found, Visible
    <3>2. request'[c].message = n /\ \A d \in Clients \ {c} : request'[d] = request[d]
      BY <2>2, <2>4 DEF Found
    <3> QED
      BY <3>1, <3>2
  <2>5. ASSUME NEW c \in Clients, Reload(c) \/ RequestFails(c)
        PROVE  /\ row'[m] = row[m]
               /\ \A d \in Clients : \/ request'[d] = request[d]
                                     \/ request'[d].message # m
                                     \/ request'[d].step = "idle"
    <3>1. \A d \in Clients \ {c} : request'[d] = request[d]
      BY <2>2, <2>5 DEF Reload, RequestFails
    <3>2. request'[c].step = "idle" \/ request'[c].message # m
      <4>1. CASE Reload(c)
        <5>1. request[c].message # m /\ request[c] \in Request
          BY <2>1, <2>2, <4>1 DEF Reload
        <5>2. request'[c] = Idle \/ request'[c].message = request[c].message
          BY <2>2, <4>1, <5>1 DEF Reload, Request
        <5> QED
          BY <5>1, <5>2 DEF Idle
      <4>2. CASE RequestFails(c)
        BY <2>2, <4>2 DEF RequestFails, Idle
      <4> QED
        BY <2>5, <4>1, <4>2
    <3>3. UNCHANGED row
      BY <2>5 DEF Reload, RequestFails
    <3> QED
      BY <3>1, <3>2, <3>3
  <2>6. ASSUME NEW c \in Clients, Write(c) \/ MarkAsDeleted(c)
        PROVE  /\ row'[m] = row[m]
               /\ \A d \in Clients : \/ /\ request'[d].message = request[d].message
                                        /\ request'[d].step = request[d].step
                                     \/ request'[d].step = "idle"
    <3> DEFINE n == request[c].message
    <3>1. n \in Messages
      BY <1>1, <2>6 DEF TypeOK, Write, MarkAsDeleted
    <3>2. /\ row' = [row EXCEPT ![n] = Merged(row[n], request[c].copy, request[c].dirty)]
          /\ Wrote(c, n)
      BY <2>6 DEF Write, MarkAsDeleted
    <3>3. CASE n # m
      BY <1>1, <2>2, <3>1, <3>2, <3>3, WroteOthers DEF Idle
    <3>4. CASE n = m
      <4>1. request[c].step = "delete"
        BY <2>1, <2>6, <3>4 DEF Write, MarkAsDeleted
      <4>2. /\ request[c].copy.state = "deleted"
            /\ request[c].copy.deletedBy = row[m].sender
            /\ request[c].dirty = {"deletion"}
        BY <1>1, <3>4, <4>1 DEF CopyInv, HoldsCopy
      <4>3. row[m].deletedBy = row[m].sender
        BY <1>1, <2>1 DEF CopyInv, DeletedBySender
      <4>4. Merged(row[m], request[c].copy, request[c].dirty) = row[m]
        BY <2>1, <2>2, <4>2, <4>3 DEF Merged, Row
      <4> QED
        BY <1>1, <2>2, <3>1, <3>2, <3>4, <4>4, WroteOthers DEF Idle
    <3> QED
      BY <3>3, <3>4
  <2> QED
    BY <1>1, <2>1, <2>3, <2>4, <2>5, <2>6
    DEF Next, UpdateMessage, AddReaction, RemoveReaction, MarkMessageAsRead, DeleteMessage,
        UpdateConversationSettings
<1>2. TypeOK /\ CopyInv /\ [Next]_vars =>
        [\A m \in Messages : Settled(m) => Settled(m)' /\ row'[m] = row[m]]_vars
  BY <1>1
<1> QED
  BY <1>2, TypeCorrect, AlwaysCopy, PTL DEF Spec, DeletionHolds

-----------------------------------------------------------------------------
(* A save of all the columns in which the copy differs makes the row the   *)
(* copy.                                                                   *)
LEMMA RowsEqual ==
  ASSUME NEW a \in Row, NEW b \in Row,
         a.state = b.state, a.sender = b.sender, a.content = b.content,
         a.edited = b.edited, a.history = b.history, a.reactions = b.reactions,
         a.readBy = b.readBy, a.deletedBy = b.deletedBy
  PROVE  a = b
BY DEF Row

LEMMA MergeAll ==
  ASSUME NEW r \in Row, NEW copy \in Row, copy.sender = r.sender,
         NEW dirty \in SUBSET Columns, Differing(copy, r) \subseteq dirty
  PROVE  Merged(r, copy, dirty) = copy
<1> DEFINE new == Merged(r, copy, dirty)
<1>1. new.content = copy.content /\ new.edited = copy.edited /\ new.readBy = copy.readBy
  BY MergedColumns DEF Differing
<1>2. new.history = copy.history /\ new.reactions = copy.reactions
  BY MergedColumns DEF Differing
<1>3. new.state = copy.state /\ new.deletedBy = copy.deletedBy /\ new.sender = copy.sender
  BY MergedColumns DEF Differing
<1>4. new \in Row
  BY MergedType
<1> HIDE DEF new
<1>5. new = copy
  BY <1>1, <1>2, <1>3, <1>4, RowsEqual
<1> QED
  BY <1>5 DEF new

(* A step keeps the undisturbed requests undisturbed when it leaves their  *)
(* rows alone.                                                             *)
LEMMA AloneKept ==
  ASSUME TypeOK, AloneInv,
         \A m \in Messages : raced'[m] => row'[m].state # "absent",
         \A c \in Clients :
           \/ ~request'[c].alone \/ request'[c].step \notin {"found", "save"}
           \/ /\ request'[c] = request[c]
              /\ row'[request[c].message] = row[request[c].message]
           \/ Undisturbed(c)'
  PROVE  AloneInv'
<1>1. \A c \in Clients : Undisturbed(c)'
  BY DEF AloneInv, Undisturbed
<1> QED
  BY <1>1 DEF AloneInv

LEMMA OpensAlone ==
  ASSUME TypeOK, AloneInv, NEW c \in Clients, NEW m \in Messages, NEW u \in Users,
         \/ \E content \in Contents : UpdateMessage(c, m, u, content)
         \/ \E emoji \in Emojis : AddReaction(c, m, u, emoji)
         \/ RemoveReaction(c, m, u)
         \/ MarkMessageAsRead(c, m, u)
         \/ DeleteMessage(c, m, u)
  PROVE  AloneInv'
<1>1. Visible(m) /\ UNCHANGED <<row, raced>>
  BY DEF UpdateMessage, AddReaction, RemoveReaction, MarkMessageAsRead, DeleteMessage, Found
<1>2. row[m].state = "shown" /\ request \in [Clients -> Request]
  BY <1>1 DEF Visible, TypeOK
<1>3. PICK copy, touched :
        \/ Found(c, m, "found", copy, touched) /\ OneOperation(row[m], copy)
        \/ Found(c, m, "delete", copy, touched)
  <2>1. ASSUME NEW content \in Contents, UpdateMessage(c, m, u, content)
        PROVE  \E copy, touched :
                 Found(c, m, "found", copy, touched) /\ OneOperation(row[m], copy)
    BY <2>1 DEF UpdateMessage, OneOperation
  <2>2. ASSUME NEW emoji \in Emojis, AddReaction(c, m, u, emoji)
        PROVE  \E copy, touched :
                 Found(c, m, "found", copy, touched) /\ OneOperation(row[m], copy)
    BY <2>2 DEF AddReaction, OneOperation
  <2>3. CASE RemoveReaction(c, m, u)
    BY <2>3 DEF RemoveReaction, OneOperation
  <2>4. CASE MarkMessageAsRead(c, m, u)
    BY <2>4 DEF MarkMessageAsRead, OneOperation
  <2>5. CASE DeleteMessage(c, m, u)
    BY <2>5 DEF DeleteMessage
  <2> QED
    BY <2>1, <2>2, <2>3, <2>4, <2>5
<1>4. \A d \in Clients \ {c} : request'[d] = request[d]
  BY <1>2, <1>3 DEF Found
<1>5. \/ request'[c].step = "delete"
      \/ request'[c].step = "found" /\ request'[c].message = m /\ OneOperation(row[m], request'[c].copy)
  BY <1>2, <1>3 DEF Found
<1>6. Undisturbed(c)'
  BY <1>1, <1>2, <1>5 DEF Undisturbed, OneOperation
<1> QED
  BY <1>1, <1>4, <1>6, AloneKept DEF AloneInv

LEMMA SettingsAlone ==
  ASSUME TypeOK, AloneInv, NEW c \in Clients, NEW m \in Messages,
         UpdateConversationSettings(c, m)
  PROVE  AloneInv'
<1>1. Visible(m) /\ UNCHANGED <<row, raced>> /\ Found(c, m, "found", row[m], {})
  BY DEF UpdateConversationSettings, Found
<1>2. row[m].state = "shown" /\ request \in [Clients -> Request]
  BY <1>1 DEF Visible, TypeOK
<1>3. /\ request'[c].step = "found" /\ request'[c].message = m
      /\ OneOperation(row[m], request'[c].copy)
  BY <1>1, <1>2 DEF Found, OneOperation
<1>4. \A d \in Clients \ {c} : request'[d] = request[d]
  BY <1>1, <1>2 DEF Found
<1>5. Undisturbed(c)'
  BY <1>1, <1>2, <1>3 DEF Undisturbed, OneOperation
<1> QED
  BY <1>1, <1>4, <1>5, AloneKept DEF AloneInv

LEMMA MergeAlone ==
  ASSUME TypeOK, AloneInv, NEW c \in Clients, request[c].step # "idle",
         LET m == request[c].message IN
         /\ row' = [row EXCEPT ![m] = Merged(@, request[c].copy, request[c].dirty)]
         /\ Wrote(c, m)
         /\ \A n \in Messages : raced'[n] => raced[n] \/ n = m
  PROVE  AloneInv'
<1> DEFINE m == request[c].message
           new == Merged(row[m], request[c].copy, request[c].dirty)
<1>1. m \in Messages /\ new.state # "absent"
  BY MergedOK
<1>2. row' = [row EXCEPT ![m] = new] /\ Wrote(c, m) /\ row \in [Messages -> Row]
  BY DEF TypeOK
<1>3. \A n \in Messages : raced'[n] => raced[n] \/ n = m
  OBVIOUS
<1> HIDE DEF m, new
<1>4. \A n \in Messages : raced'[n] => row'[n].state # "absent"
  BY <1>1, <1>2, <1>3 DEF AloneInv
<1>5. ASSUME NEW d \in Clients
      PROVE  \/ ~request'[d].alone \/ request'[d].step \notin {"found", "save"}
             \/ /\ request'[d] = request[d]
                /\ row'[request[d].message] = row[request[d].message]
  <2>1. CASE d = c
    BY <1>2, <2>1 DEF Wrote, Idle
  <2>2. CASE d # c /\ request[d].message = m
    BY <1>1, <1>2, <2>2, WroteOthers
  <2>3. CASE d # c /\ request[d].message # m
    <3>1. request'[d] = request[d]
      BY <1>2, <2>3 DEF Wrote
    <3>2. CASE request[d].step = "idle"
      BY <3>1, <3>2
    <3>3. CASE request[d].step # "idle"
      BY <1>2, <2>3, <3>1, <3>3 DEF TypeOK
    <3> QED
      BY <3>2, <3>3
  <2> QED
    BY <2>1, <2>2, <2>3
<1> QED
  BY <1>4, <1>5, AloneKept

LEMMA NextAlone == TypeOK /\ CopyInv /\ AloneInv /\ [Next]_vars => AloneInv'
<1> SUFFICES ASSUME TypeOK, CopyInv, AloneInv, [Next]_vars PROVE AloneInv'
  OBVIOUS
<1>0. row \in [Messages -> Row] /\ request \in [Clients -> Request]
  BY DEF TypeOK
<1>1. ASSUME NEW m \in Messages, NEW u \in Users, NEW content \in Contents,
             CreateMessage(m, u, content)
      PROVE  AloneInv'
  <2>1. row[m].state = "absent" /\ UNCHANGED <<request, raced>>
          /\ \A n \in Messages \ {m} : row'[n] = row[n]
    BY <1>0, <1>1 DEF CreateMessage
  <2>2. \A n \in Messages : raced'[n] => row'[n].state # "absent"
    BY <2>1 DEF AloneInv
  <2>3. \A c \in Clients : request[c].step # "idle" =>
          request[c].message \in Messages \ {m}
    BY <2>1 DEF TypeOK
  <2> QED
    BY <2>1, <2>2, <2>3, AloneKept
<1>2. ASSUME NEW c \in Clients, Reload(c) PROVE AloneInv'
  <2> DEFINE copy == request[c].copy
             r == row[request[c].message]
             dirty == request[c].dirty \cup Differing(copy, r)
             q == [request[c] EXCEPT !.step = "save", !.dirty = dirty]
  <2>1. request' = [request EXCEPT ![c] = IF dirty = {} THEN Idle ELSE q]
          /\ UNCHANGED <<row, raced>>
    BY <1>2 DEF Reload
  <2>2. request[c].step = "found" /\ r \in Row /\ copy \in Row /\ copy.sender = r.sender
    BY <1>2 DEF Reload, TypeOK, CopyInv, HoldsCopy, Request
  <2>3. Merged(r, copy, dirty) = copy
    <3>1. dirty \in SUBSET Columns
      BY DifferingType DEF TypeOK, Request
    <3> QED
      BY <2>2, <3>1, MergeAll
  <2>4. request[c].alone => r.state = "shown" /\ OneOperation(r, copy)
    BY <2>2 DEF AloneInv, Undisturbed
  <2>5. \A d \in Clients \ {c} : request'[d] = request[d]
    BY <1>0, <2>1
  <2>6. CASE dirty = {}
    <3>1. request'[c].step = "idle"
      BY <1>0, <2>1, <2>6 DEF Idle
    <3> QED
      BY <2>1, <2>5, <3>1, AloneKept DEF AloneInv
  <2>7. CASE dirty # {}
    <3>1. request'[c] = q
      BY <1>0, <2>1, <2>7
    <3> HIDE DEF dirty
    <3>2. /\ q.copy = copy /\ q.dirty = dirty /\ q.alone = request[c].alone
          /\ q.message = request[c].message /\ q.step = "save"
      BY <1>0 DEF Request
    <3>a. row'[request'[c].message] = r
      BY <2>1, <3>1, <3>2
    <3>b. /\ request'[c].copy = copy /\ request'[c].dirty = dirty
          /\ request'[c].alone = request[c].alone
      BY <3>1, <3>2
    <3> HIDE DEF q, copy, r
    <3>3. Undisturbed(c)'
      BY <2>3, <2>4, <3>a, <3>b DEF Undisturbed
    <3> QED
      BY <2>1, <2>5, <3>3, AloneKept DEF AloneInv
  <2> QED
    BY <2>6, <2>7
<1>3. ASSUME NEW c \in Clients, Write(c) \/ MarkAsDeleted(c) PROVE AloneInv'
  <2>1. \A n \in Messages : raced'[n] => raced[n] \/ n = request[c].message
    BY <1>3 DEF Write, MarkAsDeleted, TypeOK
  <2> QED
    BY <1>3, <2>1, MergeAlone DEF Write, MarkAsDeleted
<1>4. ASSUME NEW c \in Clients, RequestFails(c) PROVE AloneInv'
  <2>1. UNCHANGED <<row, raced>> /\ \A d \in Clients :
          request'[d] = request[d] \/ request'[d].step = "idle"
    BY <1>0, <1>4 DEF RequestFails, Idle
  <2> QED
    BY <2>1, AloneKept DEF AloneInv
<1>5. CASE UNCHANGED vars
  BY <1>5, AloneKept DEF vars, AloneInv
<1> QED
  BY <1>1, <1>2, <1>3, <1>4, <1>5, OpensAlone, SettingsAlone DEF Next

LEMMA AlwaysAlone == Spec => []AloneInv
<1>1. Init => AloneInv
  BY DEF Init, AloneInv, Undisturbed, Idle
<1> QED
  BY <1>1, NextAlone, AlwaysCopy, TypeCorrect, PTL DEF Spec

-----------------------------------------------------------------------------
(* Messages implements MessageBoard. *)

LEMMA InitBoard == Init => Board!BoardInit
BY DEF Init, Board!BoardInit, Board!Blank, seen, View, Absent

(* The message of a step, and what the board shows of it. *)
LEMMA SeenMoves ==
  ASSUME NEW m \in Messages, \A n \in Messages \ {m} : View(n)' = View(n)
  PROVE  seen' = [seen EXCEPT ![m] = View(m)']
BY DEF seen

LEMMA SeenStays ==
  ASSUME \A m \in Messages : View(m)' = View(m)
  PROVE  UNCHANGED seen
BY DEF seen

(* A save that nobody raced with makes the row the copy, and the copy is   *)
(* at most one operation away from the row: at most one step of the board. *)
LEMMA OperationOnBoard ==
  ASSUME NEW m \in Messages, NEW copy, row[m] \in Row, row[m].state = "shown",
         OneOperation(row[m], copy), View(m) = row[m], View(m)' = copy,
         seen' = [seen EXCEPT ![m] = copy], copy # row[m]
  PROVE  Board!BoardNext
<1>1. seen[m] = row[m] /\ Board!Shown(m)
  BY DEF seen, Board!Shown
<1>2. PICK u \in Users :
        \/ \E content \in Contents : row[m].sender = u /\ copy = WithEdit(row[m], u, content)
        \/ \E emoji \in Emojis : copy = WithReaction(row[m], u, emoji)
        \/ copy = WithoutReaction(row[m], u)
        \/ copy = WithReader(row[m], u)
  BY DEF OneOperation
<1>3. ASSUME NEW content \in Contents, row[m].sender = u,
             copy = WithEdit(row[m], u, content)
      PROVE  Board!Edit(m, u, content)
  BY <1>1, <1>3 DEF WithEdit, Board!Edit
<1>4. ASSUME NEW emoji \in Emojis, copy = WithReaction(row[m], u, emoji)
      PROVE  Board!React(m, u, emoji)
  BY <1>1, <1>4 DEF WithReaction, Board!React
<1>5. ASSUME copy = WithoutReaction(row[m], u)
      PROVE  Board!Unreact(m, u)
  BY <1>1, <1>5 DEF WithoutReaction, Board!Unreact
<1>6. ASSUME copy = WithReader(row[m], u)
      PROVE  Board!Read(m, u)
  BY <1>1, <1>6 DEF WithReader, Board!Read
<1> QED
  BY <1>2, <1>3, <1>4, <1>5, <1>6 DEF Board!BoardNext

LEMMA NextBoard ==
  TypeOK /\ CopyInv /\ AloneInv /\ [Next]_vars => [Board!BoardNext]_seen
<1> SUFFICES ASSUME TypeOK, CopyInv, AloneInv, [Next]_vars
             PROVE  Board!BoardNext \/ UNCHANGED seen
  OBVIOUS
<1>0. row \in [Messages -> Row] /\ raced \in [Messages -> BOOLEAN]
  BY DEF TypeOK
<1>1. ASSUME UNCHANGED <<row, raced>> PROVE UNCHANGED seen
  BY <1>1 DEF seen, View
<1>2. ASSUME NEW m \in Messages, NEW u \in Users, NEW content \in Contents,
             CreateMessage(m, u, content)
      PROVE  Board!BoardNext
  <2> DEFINE new == [row[m] EXCEPT !.state = "shown", !.sender = u, !.content = content]
  <2>1. row[m].state = "absent" /\ ~raced[m]
    BY <1>2 DEF CreateMessage, AloneInv
  <2>2. row' = [row EXCEPT ![m] = new] /\ UNCHANGED raced
    BY <1>2 DEF CreateMessage
  <2>3. View(m)' = new
    BY <1>0, <2>1, <2>2 DEF View
  <2>4. \A n \in Messages \ {m} : View(n)' = View(n)
    BY <1>0, <2>2 DEF View
  <2>5. seen[m] = row[m]
    BY <2>1 DEF seen, View
  <2>6. seen' = [seen EXCEPT ![m] = new]
    BY <2>3, <2>4, SeenMoves
  <2>7. Board!Post(m, u, content)
    BY <2>1, <2>5, <2>6 DEF Board!Post
  <2> QED
    BY <2>7 DEF Board!BoardNext
<1>3. ASSUME NEW c \in Clients, Write(c)
      PROVE  Board!BoardNext \/ UNCHANGED seen
  <2> DEFINE copy == request[c].copy
  <2>0. PICK m \in Messages : m = request[c].message
    BY <1>3 DEF Write, TypeOK
  <2>1. request[c].step = "save" /\ m \in Messages /\ row[m] \in Row
    BY <1>0, <1>3 DEF Write
  <2>2. /\ row' = [row EXCEPT ![m] = Merged(row[m], copy, request[c].dirty)]
        /\ raced' = [raced EXCEPT ![m] = raced[m] \/ ~request[c].alone]
    BY <1>3, <2>0 DEF Write
  <2>3. \A n \in Messages \ {m} : View(n)' = View(n)
    BY <1>0, <2>2 DEF View
  <2>4. CASE raced[m]
    <3>1. View(m)' = View(m)
      BY <1>0, <2>1, <2>2, <2>4 DEF View, Unpromised
    <3> QED
      BY <2>3, <3>1, SeenStays
  <2>5. CASE ~raced[m] /\ request[c].alone
    <3>1. Merged(row[m], copy, request[c].dirty) = copy /\ row[m].state = "shown"
            /\ OneOperation(row[m], copy)
      BY <2>0, <2>1, <2>5 DEF AloneInv, Undisturbed
    <3> HIDE DEF copy
    <3>2. View(m)' = copy /\ View(m) = row[m]
      BY <1>0, <2>1, <2>2, <2>5, <3>1 DEF View
    <3>3. seen' = [seen EXCEPT ![m] = copy]
      BY <2>1, <2>3, <3>2, SeenMoves
    <3>4. CASE copy = row[m]
      BY <2>3, <3>2, <3>4, SeenStays
    <3>5. CASE copy # row[m]
      BY <2>1, <3>1, <3>2, <3>3, <3>5, OperationOnBoard
    <3> QED
      BY <3>4, <3>5
  <2>6. CASE ~raced[m] /\ ~request[c].alone
    <3>1. View(m)' = Unpromised
      BY <1>0, <2>1, <2>2, <2>6 DEF View, Unpromised, Absent
    <3>2. seen[m].state # "absent"
      BY <2>0, <2>1, <2>6 DEF seen, View, TypeOK
    <3>3. Unpromised = Board!Raced
      BY DEF Unpromised, Absent, Board!Raced, Board!Blank
    <3>4. seen' = [seen EXCEPT ![m] = Board!Raced]
      BY <2>1, <2>3, <3>1, <3>3, SeenMoves
    <3>5. Board!Race(m)
      BY <3>2, <3>4 DEF Board!Race
    <3> QED
      BY <2>1, <3>5 DEF Board!BoardNext
  <2> QED
    BY <2>4, <2>5, <2>6
<1>4. ASSUME NEW c \in Clients, MarkAsDeleted(c)
      PROVE  Board!BoardNext \/ UNCHANGED seen
  <2>0. PICK m \in Messages : m = request[c].message
    BY <1>4 DEF MarkAsDeleted, TypeOK
  <2> DEFINE new == Merged(row[m], request[c].copy, request[c].dirty)
  <2>1. /\ m \in Messages /\ row[m] \in Row /\ row[m].state # "absent"
        /\ row[m].sender \in Users
    BY <1>0, <1>4, <2>0 DEF MarkAsDeleted, TypeOK
  <2>2. row' = [row EXCEPT ![m] = new] /\ UNCHANGED raced
    BY <1>4, <2>0 DEF MarkAsDeleted
  <2>3. /\ request[c].copy.state = "deleted"
        /\ request[c].copy.deletedBy = row[m].sender
        /\ request[c].dirty = {"deletion"}
    BY <1>4, <2>0 DEF MarkAsDeleted, CopyInv, HoldsCopy
  <2>4. new = [row[m] EXCEPT !.state = "deleted", !.deletedBy = row[m].sender]
    BY <2>1, <2>3 DEF Merged, Row
  <2> HIDE DEF new
  <2>5. \A n \in Messages \ {m} : View(n)' = View(n)
    BY <1>0, <2>2 DEF View
  <2>6. CASE raced[m]
    <3>1. View(m)' = View(m)
      BY <2>2, <2>6 DEF View, Unpromised
    <3> QED
      BY <2>5, <3>1, SeenStays
  <2>7. CASE ~raced[m] /\ row[m].state = "shown"
    <3>1. View(m)' = new /\ seen[m] = row[m]
      BY <1>0, <2>1, <2>2, <2>7 DEF View, seen
    <3>2. seen' = [seen EXCEPT ![m] = new]
      BY <2>1, <2>5, <3>1, SeenMoves
    <3>3. Board!Delete(m, row[m].sender)
      BY <2>4, <2>7, <3>1, <3>2 DEF Board!Delete, Board!Shown
    <3> QED
      BY <2>1, <3>3 DEF Board!BoardNext
  <2>8. CASE ~raced[m] /\ row[m].state = "deleted"
    <3>1. row[m].deletedBy = row[m].sender
      BY <2>1, <2>8 DEF CopyInv, DeletedBySender
    <3>2. new = row[m]
      BY <2>1, <2>4, <2>8, <3>1 DEF Row
    <3>3. View(m)' = View(m)
      BY <1>0, <2>1, <2>2, <2>8, <3>2 DEF View
    <3> QED
      BY <2>5, <3>3, SeenStays
  <2> QED
    BY <2>1, <2>6, <2>7, <2>8 DEF Row
<1>5. ASSUME NEW c \in Clients, Reload(c) \/ RequestFails(c)
      PROVE  UNCHANGED seen
  BY <1>1, <1>5 DEF Reload, RequestFails
<1>6. ASSUME NEW c \in Clients, NEW m \in Messages, NEW u \in Users,
             \/ \E content \in Contents : UpdateMessage(c, m, u, content)
             \/ \E emoji \in Emojis : AddReaction(c, m, u, emoji)
             \/ RemoveReaction(c, m, u)
             \/ MarkMessageAsRead(c, m, u)
             \/ DeleteMessage(c, m, u)
      PROVE  UNCHANGED seen
  BY <1>1, <1>6
  DEF UpdateMessage, AddReaction, RemoveReaction, MarkMessageAsRead, DeleteMessage, Found
<1>7. ASSUME NEW c \in Clients, NEW m \in Messages, UpdateConversationSettings(c, m)
      PROVE  UNCHANGED seen
  BY <1>1, <1>7 DEF UpdateConversationSettings, Found
<1>8. CASE UNCHANGED vars
  BY <1>1, <1>8 DEF vars
<1> QED
  BY <1>2, <1>3, <1>4, <1>5, <1>6, <1>7, <1>8 DEF Next

(* Until a save races with another write, a message behaves as if each     *)
(* operation happened at once: edits, reactions, receipts and deletions of *)
(* different users are not lost to one another.                            *)
THEOREM MessagesAct == Spec => ActsLikeBoard
BY InitBoard, NextBoard, TypeCorrect, AlwaysCopy, AlwaysAlone, PTL
DEF Spec, ActsLikeBoard, Board!BoardSpec
-----------------------------------------------------------------------------
(* Where no two requests are open on the same message at the same time.    *)
OneAtATime ==
  \A c, d \in Clients : request[c].step # "idle" /\ request[d].step # "idle"
    /\ request[c].message = request[d].message => c = d

(* Nobody has raced, and whoever has a message in its hands is alone with  *)
(* it.                                                                     *)
SerialInv ==
  /\ \A m \in Messages : ~raced[m]
  /\ \A c \in Clients : request[c].step # "idle" => request[c].alone

LEMMA NextSerial == TypeOK /\ OneAtATime /\ SerialInv /\ [Next]_vars => SerialInv'
<1> SUFFICES ASSUME TypeOK, OneAtATime, SerialInv, [Next]_vars PROVE SerialInv'
  OBVIOUS
<1>1. /\ request \in [Clients -> Request] /\ raced \in [Messages -> BOOLEAN]
      /\ \A c \in Clients : request[c].step # "idle" => request[c].message \in Messages
  BY DEF TypeOK
<1>2. ASSUME NEW c \in Clients, request[c].step # "idle", Wrote(c, request[c].message)
      PROVE  \A d \in Clients : request'[d].step # "idle" => request'[d].alone
  <2>1. \A d \in Clients \ {c} :
          request[d].step # "idle" => request[d].message # request[c].message
    BY <1>2 DEF OneAtATime
  <2>2. request[c].message \in Messages
    BY <1>1, <1>2
  <2>3. request'[c].step = "idle"
    BY <1>2, <2>2, WroteOthers DEF Idle
  <2>4. ASSUME NEW d \in Clients \ {c}, request'[d].step # "idle"
        PROVE  request'[d].alone
    <3>1. request'[d].step = request[d].step
            /\ request'[d].alone = (request[d].alone /\ request[d].message # request[c].message)
      BY <1>2, <2>2, WroteOthers
    <3>2. request[d].alone /\ request[d].message # request[c].message
      BY <2>1, <2>4, <3>1 DEF SerialInv
    <3> QED
      BY <3>1, <3>2
  <2> QED
    BY <2>3, <2>4
<1>3. ASSUME NEW c \in Clients, NEW m, NEW step, NEW copy, NEW touched,
             Found(c, m, step, copy, touched)
      PROVE  SerialInv'
  <2> DEFINE new == [step |-> step, message |-> m, copy |-> copy, dirty |-> touched,
                     alone |-> TRUE]
  <2>1. request' = [request EXCEPT ![c] = new] /\ UNCHANGED raced /\ new.alone
    BY <1>3 DEF Found
  <2> HIDE DEF new
  <2>2. \A d \in Clients : request'[d] = new \/ request'[d] = request[d]
    BY <1>1, <2>1
  <2>3. \A d \in Clients : request'[d].step # "idle" => request'[d].alone
    BY <2>1, <2>2, Zenon DEF SerialInv
  <2> QED
    BY <2>1, <2>3 DEF SerialInv
<1>4. ASSUME NEW c \in Clients, Reload(c) PROVE SerialInv'
  <2> DEFINE dirty == request[c].dirty \cup Differing(request[c].copy, row[request[c].message])
             q == [request[c] EXCEPT !.step = "save", !.dirty = dirty]
  <2>1. /\ request' = [request EXCEPT ![c] = IF dirty = {} THEN Idle ELSE q]
        /\ UNCHANGED raced /\ request[c].step = "found"
    BY <1>4 DEF Reload
  <2>2. q.alone
    BY <1>1, <2>1 DEF SerialInv, Request
  <2> HIDE DEF dirty, q
  <2>3. Idle.step = "idle"
    BY DEF Idle
  <2> QED
    BY <1>1, <2>1, <2>2, <2>3 DEF SerialInv
<1>5. ASSUME NEW c \in Clients, Write(c) PROVE SerialInv'
  <2>1. /\ request[c].step = "save" /\ Wrote(c, request[c].message)
        /\ raced' = [raced EXCEPT ![request[c].message] = @ \/ ~request[c].alone]
    BY <1>5 DEF Write
  <2>2. request[c].alone = TRUE
    BY <1>1, <2>1 DEF SerialInv, Request
  <2>3. \A m \in Messages : raced'[m] = FALSE
    BY <1>1, <2>1, <2>2 DEF SerialInv
  <2> QED
    BY <1>2, <2>1, <2>3 DEF SerialInv
<1>6. ASSUME NEW c \in Clients, MarkAsDeleted(c) PROVE SerialInv'
  BY <1>2, <1>6 DEF MarkAsDeleted, SerialInv
<1>7. ASSUME NEW c \in Clients, RequestFails(c) PROVE SerialInv'
  BY <1>1, <1>7 DEF RequestFails, SerialInv, Idle
<1>8. ASSUME NEW m \in Messages, NEW u \in Users, NEW content \in Contents,
             CreateMessage(m, u, content)
      PROVE  SerialInv'
  BY <1>8 DEF CreateMessage, SerialInv
<1>9. CASE UNCHANGED vars
  BY <1>9 DEF vars, SerialInv
<1> QED
  BY <1>3, <1>4, <1>5, <1>6, <1>7, <1>8, <1>9
  DEF Next, UpdateMessage, AddReaction, RemoveReaction, MarkMessageAsRead, DeleteMessage,
      UpdateConversationSettings

LEMMA AlwaysSerial == Spec /\ []OneAtATime => []SerialInv
<1>1. Init => SerialInv
  BY DEF Init, SerialInv, Idle
<1> QED
  BY <1>1, NextSerial, TypeCorrect, PTL DEF Spec

(* "Cannot edit deleted messages" (updateMessage) does hold where requests *)
(* on the same message take turns.                                         *)
THEOREM TurnsKeepDeleted == Spec /\ []OneAtATime => DeletedNotEdited
<1>1. ASSUME TypeOK, CopyInv, AloneInv, SerialInv, Next, NEW m \in Messages,
             row[m].state = "deleted"
      PROVE  row'[m].content = row[m].content
  <2>1. row \in [Messages -> Row] /\ request \in [Clients -> Request]
    BY <1>1 DEF TypeOK
  <2>2. ASSUME NEW c \in Clients, request[c].step \in {"save", "delete"},
               row' = [row EXCEPT ![request[c].message] =
                         Merged(@, request[c].copy, request[c].dirty)]
        PROVE  row'[m].content = row[m].content
    <3>1. CASE request[c].message # m
      BY <2>1, <2>2, <3>1
    <3>2. CASE request[c].message = m /\ request[c].step = "save"
      <4>1. request[c].alone
        BY <1>1, <3>2 DEF SerialInv
      <4>2. row[m].state = "shown"
        BY <1>1, <3>2, <4>1 DEF AloneInv, Undisturbed
      <4> QED
        BY <1>1, <4>2
    <3>3. CASE request[c].message = m /\ request[c].step = "delete"
      <4>1. request[c].dirty = {"deletion"} /\ request[c].copy \in Row
        BY <1>1, <2>1, <3>3 DEF CopyInv, HoldsCopy, Request
      <4>2. row'[m] = Merged(row[m], request[c].copy, {"deletion"})
        BY <2>1, <2>2, <3>3, <4>1
      <4>3. {"deletion"} \in SUBSET Columns
        BY DEF Columns
      <4> QED
        BY <2>1, <4>1, <4>2, <4>3, MergedColumns
    <3> QED
      BY <2>2, <3>1, <3>2, <3>3
  <2>3. ASSUME NEW n \in Messages, NEW u \in Users, NEW content \in Contents,
               CreateMessage(n, u, content)
        PROVE  row'[m].content = row[m].content
    BY <1>1, <2>1, <2>3 DEF CreateMessage
  <2>4. ASSUME UNCHANGED row
        PROVE  row'[m].content = row[m].content
    BY <2>4
  <2> QED
    BY <1>1, <2>2, <2>3, <2>4
    DEF Next, UpdateMessage, AddReaction, RemoveReaction, MarkMessageAsRead, DeleteMessage,
        UpdateConversationSettings, Found, Reload, Write, MarkAsDeleted, RequestFails
<1>2. TypeOK /\ CopyInv /\ AloneInv /\ SerialInv /\ [Next]_vars =>
        [\A m \in Messages : row[m].state = "deleted" => row'[m].content = row[m].content]_vars
  BY <1>1
<1> QED
  BY <1>2, TypeCorrect, AlwaysCopy, AlwaysAlone, AlwaysSerial, PTL DEF Spec, DeletedNotEdited

(* The board that the rows themselves are. *)
Rows == INSTANCE MessageBoard WITH board <- row

(* And the rows themselves, not only those nobody has raced on, are the    *)
(* board: the service is then linearizable.                                *)
THEOREM TurnsActLikeBoard == Spec /\ []OneAtATime => Rows!BoardSpec
<1>1. ASSUME TypeOK, SerialInv PROVE seen = row
  BY <1>1 DEF TypeOK, SerialInv, seen, View
<1>2. ASSUME seen = row, Board!BoardInit PROVE Rows!BoardInit
  BY <1>2 DEF Board!BoardInit, Rows!BoardInit, Board!Blank, Rows!Blank
<1>3. ASSUME seen = row, (seen = row)', [Board!BoardNext]_seen PROVE [Rows!BoardNext]_row
  <2>1. CASE seen' = seen
    BY <1>3, <2>1
  <2>2. CASE Board!BoardNext
    <3>1. PICK m \in Messages :
            \/ \E u \in Users :
                 \/ \E content \in Contents : Board!Post(m, u, content) \/ Board!Edit(m, u, content)
                 \/ \E emoji \in Emojis : Board!React(m, u, emoji)
                 \/ Board!Unreact(m, u)
                 \/ Board!Read(m, u)
                 \/ Board!Delete(m, u)
            \/ Board!Race(m)
      BY <2>2 DEF Board!BoardNext
    <3>2. \A u \in Users, content \in Contents :
            /\ Board!Post(m, u, content) => Rows!Post(m, u, content)
            /\ Board!Edit(m, u, content) => Rows!Edit(m, u, content)
      BY <1>3 DEF Board!Post, Board!Edit, Board!Shown, Rows!Post, Rows!Edit, Rows!Shown
    <3>3. \A u \in Users, emoji \in Emojis : Board!React(m, u, emoji) => Rows!React(m, u, emoji)
      BY <1>3 DEF Board!React, Board!Shown, Rows!React, Rows!Shown
    <3>4. \A u \in Users :
            /\ Board!Unreact(m, u) => Rows!Unreact(m, u)
            /\ Board!Read(m, u) => Rows!Read(m, u)
            /\ Board!Delete(m, u) => Rows!Delete(m, u)
      BY <1>3 DEF Board!Unreact, Board!Read, Board!Delete, Board!Shown, Rows!Unreact,
                  Rows!Read, Rows!Delete, Rows!Shown
    <3>5. Board!Race(m) => Rows!Race(m)
      BY <1>3 DEF Board!Race, Board!Raced, Board!Blank, Rows!Race, Rows!Raced, Rows!Blank
    <3> QED
      BY <3>1, <3>2, <3>3, <3>4, <3>5 DEF Rows!BoardNext
  <2> QED
    BY <1>3, <2>1, <2>2
<1> QED
  BY <1>1, <1>2, <1>3, MessagesAct, TypeCorrect, AlwaysSerial, PTL
  DEF ActsLikeBoard, Board!BoardSpec, Rows!BoardSpec
-----------------------------------------------------------------------------
(* What the board promises of a message's history: a message is marked as  *)
(* edited exactly when a content was replaced, every replacement was its   *)
(* sender's, ...                                                           *)
HistoryTells ==
  \A m \in Messages : ~raced[m] =>
    /\ row[m].edited <=> row[m].history # <<>>
    /\ \A i \in 1..Len(row[m].history) : row[m].history[i].editor = row[m].sender

(* ... and no content goes without its entry, and no entry goes at all.    *)
HistoryKeeps ==
  [][\A m \in Messages : ~raced'[m] /\ row[m].state # "absent" =>
       \/ row'[m].history = row[m].history /\ row'[m].content = row[m].content
       \/ row'[m].history = Append(row[m].history, [content |-> row[m].content,
                                                    editor |-> row[m].sender])]_vars

SeenRow == [state : {"absent", "shown", "deleted", "raced"}, sender : Users \cup {Null},
            content : Contents \cup {Null}, edited : BOOLEAN, history : Seq(Entry),
            reactions : [Users -> Emojis \cup {Null}], readBy : SUBSET Users,
            deletedBy : Users \cup {Null}]

Chronicle(r) ==
  /\ r.edited <=> r.history # <<>>
  /\ \A i \in 1..Len(r.history) : r.history[i].editor = r.sender
  /\ r.state = "absent" => r.history = <<>>

LEMMA SeenType == TypeOK => seen \in [Messages -> SeenRow]
<1> SUFFICES ASSUME TypeOK PROVE seen \in [Messages -> SeenRow]
  OBVIOUS
<1>1. Unpromised \in SeenRow
  BY EmptyType DEF Unpromised, Row, SeenRow
<1>2. \A m \in Messages : row[m] \in SeenRow
  BY DEF TypeOK, Row, SeenRow
<1> QED
  BY <1>1, <1>2 DEF seen, View

(* One step of the board on one message.                                   *)
LEMMA BoardStep ==
  ASSUME seen \in [Messages -> SeenRow], Board!BoardNext, NEW n \in Messages
  PROVE  \/ seen'[n] = seen[n]
         \/ seen'[n] = Board!Raced
         \/ \E u \in Users, content \in Contents :
              \/ /\ seen[n].state = "absent"
                 /\ seen'[n] = [seen[n] EXCEPT !.state = "shown", !.sender = u,
                                               !.content = content]
              \/ /\ seen[n].state = "shown" /\ seen[n].sender = u
                 /\ seen'[n] = WithEdit(seen[n], u, content)
         \/ \E u \in Users :
              /\ seen[n].state = "shown"
              /\ \/ \E e \in Emojis \cup {Null} :
                      seen'[n] = [seen[n] EXCEPT !.reactions[u] = e]
                 \/ seen'[n] = WithReader(seen[n], u)
                 \/ seen'[n] = WithDeletion(seen[n], u)
<1>1. PICK m \in Messages :
        \/ \E u \in Users :
             \/ \E content \in Contents : Board!Post(m, u, content) \/ Board!Edit(m, u, content)
             \/ \E emoji \in Emojis : Board!React(m, u, emoji)
             \/ Board!Unreact(m, u)
             \/ Board!Read(m, u)
             \/ Board!Delete(m, u)
        \/ Board!Race(m)
  BY DEF Board!BoardNext
<1>2. CASE Board!Race(m)
  BY <1>2 DEF Board!Race
<1>3. ASSUME NEW u \in Users, NEW content \in Contents, Board!Post(m, u, content)
      PROVE  n # m => seen'[n] = seen[n]
  BY <1>3 DEF Board!Post
<1>4. ASSUME NEW u \in Users, NEW content \in Contents, Board!Post(m, u, content), n = m
      PROVE  seen[n].state = "absent"
               /\ seen'[n] = [seen[n] EXCEPT !.state = "shown", !.sender = u,
                                             !.content = content]
  BY <1>4 DEF Board!Post
<1>5. ASSUME NEW u \in Users, NEW content \in Contents, Board!Edit(m, u, content)
      PROVE  IF n = m THEN /\ seen[n].state = "shown" /\ seen[n].sender = u
                           /\ seen'[n] = WithEdit(seen[n], u, content)
             ELSE seen'[n] = seen[n]
  BY <1>5 DEF Board!Edit, Board!Shown, WithEdit
<1>6. ASSUME NEW u \in Users, NEW emoji \in Emojis, Board!React(m, u, emoji)
      PROVE  IF n = m THEN /\ seen[n].state = "shown"
                           /\ seen'[n] = [seen[n] EXCEPT !.reactions[u] = emoji]
             ELSE seen'[n] = seen[n]
  BY <1>6 DEF Board!React, Board!Shown
<1>7. ASSUME NEW u \in Users, Board!Unreact(m, u)
      PROVE  IF n = m THEN /\ seen[n].state = "shown"
                           /\ seen'[n] = [seen[n] EXCEPT !.reactions[u] = Null]
             ELSE seen'[n] = seen[n]
  BY <1>7 DEF Board!Unreact, Board!Shown
<1>8. ASSUME NEW u \in Users, Board!Read(m, u)
      PROVE  IF n = m THEN seen[n].state = "shown" /\ seen'[n] = WithReader(seen[n], u)
             ELSE seen'[n] = seen[n]
  BY <1>8 DEF Board!Read, Board!Shown, WithReader
<1>9. ASSUME NEW u \in Users, Board!Delete(m, u)
      PROVE  IF n = m THEN seen[n].state = "shown" /\ seen'[n] = WithDeletion(seen[n], u)
             ELSE seen'[n] = seen[n]
  BY <1>9 DEF Board!Delete, Board!Shown, WithDeletion
<1>10. CASE n = m
  <2>1. CASE \E u \in Users, content \in Contents :
               Board!Post(m, u, content) \/ Board!Edit(m, u, content)
    BY <1>4, <1>5, <1>10, <2>1
  <2>2. CASE \E u \in Users :
               \/ \E emoji \in Emojis : Board!React(m, u, emoji)
               \/ Board!Unreact(m, u)
    BY <1>6, <1>7, <1>10, <2>2
  <2>3. CASE \E u \in Users : Board!Read(m, u) \/ Board!Delete(m, u)
    BY <1>8, <1>9, <1>10, <2>3
  <2> QED
    BY <1>1, <1>2, <1>10, <2>1, <2>2, <2>3
<1>11. CASE n # m
  BY <1>1, <1>2, <1>3, <1>5, <1>6, <1>7, <1>8, <1>9, <1>11
<1> QED
  BY <1>10, <1>11

(* What such a step does to a message's content and history.               *)
LEMMA ChronicleStep ==
  ASSUME seen \in [Messages -> SeenRow], [Board!BoardNext]_seen, NEW n \in Messages,
         Chronicle(seen[n])
  PROVE  /\ Chronicle(seen'[n])
         /\ seen'[n].state # "raced" /\ seen[n].state # "absent" =>
              \/ seen'[n].history = seen[n].history /\ seen'[n].content = seen[n].content
              \/ seen'[n].history = Append(seen[n].history, [content |-> seen[n].content,
                                                             editor |-> seen[n].sender])
<1> DEFINE r == seen[n]
           s == seen'[n]
           Goal == /\ Chronicle(s)
                   /\ s.state # "raced" /\ r.state # "absent" =>
                        \/ s.history = r.history /\ s.content = r.content
                        \/ s.history = Append(r.history, [content |-> r.content,
                                                          editor |-> r.sender])
<1>1. r \in SeenRow /\ Chronicle(r)
  OBVIOUS
<1>2. CASE s = r
  BY <1>1, <1>2
<1>3. CASE s = Board!Raced
  BY <1>3 DEF Board!Raced, Board!Blank, Chronicle
<1> SUFFICES ASSUME Board!BoardNext, s # r, s # Board!Raced PROVE Goal
  BY <1>2, <1>3
<1>4. \/ \E u \in Users, content \in Contents :
           \/ /\ r.state = "absent"
              /\ s = [r EXCEPT !.state = "shown", !.sender = u, !.content = content]
           \/ /\ r.state = "shown" /\ r.sender = u
              /\ s = WithEdit(r, u, content)
      \/ \E u \in Users :
           /\ r.state = "shown"
           /\ \/ \E e \in Emojis \cup {Null} : s = [r EXCEPT !.reactions[u] = e]
              \/ s = WithReader(r, u)
              \/ s = WithDeletion(r, u)
  BY BoardStep
<1> HIDE DEF r, s
<1>5. ASSUME NEW u \in Users, NEW content \in Contents, r.state = "absent",
             s = [r EXCEPT !.state = "shown", !.sender = u, !.content = content]
      PROVE  Goal
  <2>1. s.history = <<>> /\ s.edited = r.edited /\ s.state = "shown" /\ r.history = <<>>
    BY <1>1, <1>5 DEF Chronicle, SeenRow
  <2> QED
    BY <1>1, <1>5, <2>1 DEF Chronicle
<1>6. ASSUME r.state = "shown", s.state # "absent", s.sender = r.sender,
             s.content = r.content, s.edited = r.edited, s.history = r.history
      PROVE  Goal
  BY <1>1, <1>6 DEF Chronicle
<1>7. ASSUME NEW u \in Users, NEW content \in Contents, r.state = "shown", r.sender = u,
             s = WithEdit(r, u, content)
      PROVE  Goal
  <2> DEFINE entry == [content |-> r.content, editor |-> u]
  <2>1. /\ s.history = Append(r.history, entry)
        /\ s.edited = TRUE /\ s.sender = u /\ s.state = "shown"
    BY <1>1, <1>7 DEF WithEdit, SeenRow
  <2>2. \E S : r.history \in Seq(S) /\ entry \in S
    <3>1. r.history \in Seq(Entry \cup {entry})
      BY <1>1 DEF SeenRow
    <3> QED
      BY <3>1
  <2>3. entry.editor = u
    OBVIOUS
  <2> HIDE DEF entry
  <2>4. /\ Append(r.history, entry) # <<>>
        /\ Len(Append(r.history, entry)) = Len(r.history) + 1
        /\ Len(r.history) \in Nat
        /\ \A i \in 1..Len(r.history) : Append(r.history, entry)[i] = r.history[i]
        /\ Append(r.history, entry)[Len(r.history) + 1] = entry
    BY <2>2
  <2>5. \A i \in 1..Len(s.history) : s.history[i].editor = s.sender
    BY <1>1, <1>7, <2>1, <2>3, <2>4 DEF Chronicle
  <2>6. Chronicle(s)
    BY <2>1, <2>4, <2>5 DEF Chronicle
  <2> QED
    BY <1>7, <2>1, <2>6 DEF entry
<1>8. ASSUME NEW u \in Users, r.state = "shown", NEW e \in Emojis \cup {Null},
             s = [r EXCEPT !.reactions[u] = e]
      PROVE  Goal
  <2>1. /\ s.state = r.state /\ s.sender = r.sender /\ s.content = r.content
        /\ s.edited = r.edited /\ s.history = r.history
    BY <1>1, <1>8 DEF SeenRow
  <2> QED
    BY <1>6, <1>8, <2>1
<1>9. ASSUME NEW u \in Users, r.state = "shown",
             s = WithReader(r, u) \/ s = WithDeletion(r, u)
      PROVE  Goal
  <2>1. /\ s.state # "absent" /\ s.sender = r.sender /\ s.content = r.content
        /\ s.edited = r.edited /\ s.history = r.history
    BY <1>1, <1>9 DEF SeenRow, WithReader, WithDeletion
  <2> QED
    BY <1>6, <1>9, <2>1
<1> QED
  BY <1>4, <1>5, <1>7, <1>8, <1>9

LEMMA AlwaysChronicle == Spec => [](\A m \in Messages : Chronicle(seen[m]))
<1> DEFINE All == \A m \in Messages : Chronicle(seen[m])
<1>1. Board!BoardInit => All
  <2>1. Chronicle(Board!Blank)
    BY DEF Board!Blank, Chronicle
  <2> QED
    BY <2>1 DEF Board!BoardInit
<1>2. TypeOK /\ All /\ [Board!BoardNext]_seen => All'
  <2> SUFFICES ASSUME TypeOK, All, [Board!BoardNext]_seen, NEW m \in Messages
               PROVE  Chronicle(seen[m])'
    OBVIOUS
  <2>1. Chronicle(seen'[m])
    BY SeenType, ChronicleStep
  <2> QED
    BY <2>1 DEF Chronicle
<1> QED
  BY <1>1, <1>2, MessagesAct, TypeCorrect, PTL DEF ActsLikeBoard, Board!BoardSpec

(* The history of a message nobody has raced on tells who edited it.       *)
THEOREM HistoriesTell == Spec => []HistoryTells
<1>1. (\A m \in Messages : Chronicle(seen[m])) => HistoryTells
  BY DEF seen, View, Chronicle, HistoryTells
<1> QED
  BY <1>1, AlwaysChronicle, PTL

(* A content that is replaced goes into the history, and stays there.      *)
THEOREM HistoriesKeep == Spec => HistoryKeeps
<1> DEFINE All == \A m \in Messages : Chronicle(seen[m])
           Kept(m) == \/ row'[m].history = row[m].history /\ row'[m].content = row[m].content
                      \/ row'[m].history = Append(row[m].history,
                           [content |-> row[m].content, editor |-> row[m].sender])
           Step == \A m \in Messages : ~raced'[m] /\ row[m].state # "absent" => Kept(m)
<1>1. ASSUME TypeOK, TypeOK', All, [Next]_vars, [Board!BoardNext]_seen, NEW m \in Messages,
             ~raced'[m], row[m].state # "absent"
      PROVE  Kept(m)
  <2>1. ~raced[m]
    BY <1>1 DEF TypeOK, Next, CreateMessage, UpdateMessage, AddReaction, RemoveReaction,
                MarkMessageAsRead, DeleteMessage, UpdateConversationSettings, Found, Reload,
                Write, MarkAsDeleted, RequestFails, vars
  <2>2. seen[m] = row[m] /\ seen'[m] = row'[m]
    BY <1>1, <2>1 DEF seen, View
  <2>3. row'[m].state # "raced"
    BY <1>1 DEF TypeOK, Row
  <2>4. Chronicle(seen[m])
    BY <1>1
  <2> QED
    BY <1>1, <2>2, <2>3, <2>4, SeenType, ChronicleStep
<1> HIDE DEF Kept
<1>2. TypeOK /\ TypeOK' /\ All /\ [Next]_vars /\ [Board!BoardNext]_seen => [Step]_vars
  BY <1>1
<1> QED
  BY <1>2, AlwaysChronicle, MessagesAct, TypeCorrect, PTL
  DEF Spec, ActsLikeBoard, Board!BoardSpec, HistoryKeeps, Kept
=============================================================================
