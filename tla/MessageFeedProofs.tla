-------------------------- MODULE MessageFeedProofs --------------------------
(***************************************************************************)
(* What holds of MessageFeed for every set of messages, users and          *)
(* requests: the service behind its callers is the service, and what the   *)
(* room is told is what the table says.                                    *)
(***************************************************************************)
EXTENDS MessageFeed, MessagesProofs, SequenceTheorems

(***************************************************************************)
(* The handlers add no step to the service: whatever Messages promises,    *)
(* it promises behind them.                                                *)
(***************************************************************************)
LEMMA FeedStepIsStep == [FeedNext]_allVars => [Next]_vars
<1> SUFFICES ASSUME [FeedNext]_allVars PROVE Next \/ UNCHANGED vars
  OBVIOUS
<1>1. ASSUME NEW c \in Clients, NEW m \in Messages, NEW u \in Users,
             NEW content \in Contents, HandleMessage(c, m, u, content)
      PROVE  Next
  BY <1>1, SanitizeAssumption DEF HandleMessage, Next
<1>2. ASSUME NEW c \in Clients, NEW m \in Messages, NEW u \in Users, Operation(c, m, u)
      PROVE  Next
  BY <1>2, SanitizeAssumption DEF Operation, HandleMessageUpdated, ReactionAdded,
     ReactionRemoved, MarkAsRead, HandleMessageDeleted, Next
<1>3. ASSUME NEW c \in Clients, NEW m \in Messages, SaveSettings(c, m) PROVE Next
  BY <1>3 DEF SaveSettings, Next
<1>4. ASSUME NEW c \in Clients, Step(c) PROVE Next
  BY <1>4 DEF Step, Next
<1>5. ASSUME NEW m \in Messages, \/ \E i \in DOMAIN outbox[m] : Emit(m, i)
                                 \/ EmitNothing(m)
      PROVE  UNCHANGED vars
  BY <1>5 DEF Emit, EmitNothing
<1>6. CASE UNCHANGED allVars
  BY <1>6 DEF allVars
<1> QED
  BY <1>1, <1>2, <1>3, <1>4, <1>5, <1>6 DEF FeedNext

(* The service behind the handlers of the gateway is the service: no       *)
(* order of calls, events and lost events makes MessageService take a step *)
(* it does not take alone.                                                 *)
THEOREM FeedImplementsMessages == FeedSpec => Spec
<1>1. FeedInit => Init
  BY DEF FeedInit
<1> QED
  BY <1>1, FeedStepIsStep, PTL DEF FeedSpec, Spec

(* What the service promises, as the run checks it: behind the handlers.   *)
THEOREM FeedKeepsPromises ==
  FeedSpec => []TypeOK /\ DeletionHolds /\ ActsLikeBoard
BY FeedImplementsMessages, TypeCorrect, DeletionsHold, MessagesAct

-----------------------------------------------------------------------------
(* An event sets parts of what is known of a message: its state, its text  *)
(* and whether it was edited, the reaction of a user, the receipt of one.  *)
Part == {<<"state", Null>>, <<"content", Null>>} \cup ({"reaction", "receipt"} \X Users)

Value(k, part) ==
  CASE part[1] = "state" -> k.state
    [] part[1] = "content" -> <<k.content, k.edited>>
    [] part[1] = "reaction" -> k.reactions[part[2]]
    [] part[1] = "receipt" -> part[2] \in k.readBy

Touches(e, part) ==
  \/ part[1] = "state" /\ e.kind \in {"created", "deleted"}
  \/ part[1] = "content" /\ e.kind \in {"created", "updated"}
  \/ part[1] = "reaction" /\ e.kind = "reacted" /\ e.user = part[2]
  \/ part[1] = "receipt" /\ e.kind = "read" /\ e.user = part[2]

Set(e, part) == Value(Apply(e, Unknown), part)

LEMMA UnknownType == Unknown \in Knowledge
BY DEF Unknown, Knowledge

LEMMA ApplyType ==
  ASSUME NEW e \in Event, NEW k \in Knowledge
  PROVE  Apply(e, k) \in Knowledge
<1>1. e.content \in Contents \cup {Null} /\ e.user \in Users /\ e.emoji \in Emojis \cup {Null}
  BY DEF Event
<1>2. e.kind \in {"created", "updated", "deleted", "reacted", "read"}
  BY DEF Event
<1>3. CASE e.kind = "created"
  BY <1>1, <1>3 DEF Apply, Knowledge
<1>4. CASE e.kind = "updated"
  BY <1>1, <1>4 DEF Apply, Knowledge
<1>5. CASE e.kind = "deleted"
  BY <1>5 DEF Apply, Knowledge
<1>6. CASE e.kind = "reacted"
  BY <1>1, <1>6 DEF Apply, Knowledge
<1>7. CASE e.kind = "read"
  BY <1>1, <1>7 DEF Apply, Knowledge
<1> QED
  BY <1>2, <1>3, <1>4, <1>5, <1>6, <1>7

(* The parts of what is known after an event. *)
LEMMA ApplyFields ==
  ASSUME NEW e \in Event, NEW k \in Knowledge
  PROVE  /\ Apply(e, k).state = IF e.kind = "created" THEN "shown"
                                ELSE IF e.kind = "deleted" THEN "deleted" ELSE k.state
         /\ Apply(e, k).content
              = IF e.kind \in {"created", "updated"} THEN e.content ELSE k.content
         /\ Apply(e, k).edited = IF e.kind = "created" THEN FALSE
                                 ELSE IF e.kind = "updated" THEN TRUE ELSE k.edited
         /\ \A u \in Users :
              /\ Apply(e, k).reactions[u]
                   = IF e.kind = "reacted" /\ e.user = u THEN e.emoji ELSE k.reactions[u]
              /\ u \in Apply(e, k).readBy
                   <=> u \in k.readBy \/ (e.kind = "read" /\ e.user = u)
<1>1. e.kind \in {"created", "updated", "deleted", "reacted", "read"}
  BY DEF Event
<1>2. CASE e.kind = "created"
  BY <1>2 DEF Apply, Knowledge
<1>3. CASE e.kind = "updated"
  BY <1>3 DEF Apply, Knowledge
<1>4. CASE e.kind = "deleted"
  BY <1>4 DEF Apply, Knowledge
<1>5. CASE e.kind = "reacted"
  BY <1>5 DEF Apply, Knowledge
<1>6. CASE e.kind = "read"
  BY <1>6 DEF Apply, Knowledge
<1> QED
  BY <1>1, <1>2, <1>3, <1>4, <1>5, <1>6

LEMMA PartKinds ==
  ASSUME NEW part \in Part
  PROVE  \/ part[1] = "state" \/ part[1] = "content"
         \/ part[1] = "reaction" /\ part[2] \in Users
         \/ part[1] = "receipt" /\ part[2] \in Users
BY DEF Part

(* A part is what the last event that touches it says, whatever was known. *)
LEMMA ApplySets ==
  ASSUME NEW e \in Event, NEW k \in Knowledge, NEW part \in Part
  PROVE  Value(Apply(e, k), part)
           = IF Touches(e, part) THEN Set(e, part) ELSE Value(k, part)
<1> DEFINE after == Apply(e, k)
           alone == Apply(e, Unknown)
<1>1. /\ after.state = IF e.kind = "created" THEN "shown"
                       ELSE IF e.kind = "deleted" THEN "deleted" ELSE k.state
      /\ after.content = IF e.kind \in {"created", "updated"} THEN e.content ELSE k.content
      /\ after.edited = IF e.kind = "created" THEN FALSE
                        ELSE IF e.kind = "updated" THEN TRUE ELSE k.edited
      /\ \A u \in Users :
           /\ after.reactions[u]
                = IF e.kind = "reacted" /\ e.user = u THEN e.emoji ELSE k.reactions[u]
           /\ u \in after.readBy <=> u \in k.readBy \/ (e.kind = "read" /\ e.user = u)
  BY ApplyFields
<1>2. /\ e.kind = "created" => alone.state = "shown"
      /\ e.kind = "deleted" => alone.state = "deleted"
      /\ e.kind \in {"created", "updated"} => alone.content = e.content
      /\ e.kind = "created" => alone.edited = FALSE
      /\ e.kind = "updated" => alone.edited = TRUE
      /\ \A u \in Users :
           /\ e.kind = "reacted" /\ e.user = u => alone.reactions[u] = e.emoji
           /\ e.kind = "read" /\ e.user = u => u \in alone.readBy
  <2>1. Unknown \in Knowledge
    BY UnknownType
  <2> QED
    BY <2>1, ApplyFields
<1> HIDE DEF after, alone
<1>3. Value(after, part) = IF Touches(e, part) THEN Value(alone, part) ELSE Value(k, part)
  <2>1. CASE part[1] = "state"
    BY <1>1, <1>2, <2>1 DEF Value, Touches
  <2>2. CASE part[1] = "content"
    BY <1>1, <1>2, <2>2 DEF Value, Touches
  <2>3. CASE part[1] = "reaction" /\ part[2] \in Users
    BY <1>1, <1>2, <2>3 DEF Value, Touches
  <2>4. CASE part[1] = "receipt" /\ part[2] \in Users
    BY <1>1, <1>2, <2>4 DEF Value, Touches
  <2> QED
    BY <2>1, <2>2, <2>3, <2>4, PartKinds
<1> QED
  BY <1>3 DEF Set, after, alone

(* What is known is its parts. *)
LEMMA KnowledgeIsParts ==
  ASSUME NEW k \in Knowledge, NEW l \in Knowledge,
         \A part \in Part : Value(k, part) = Value(l, part)
  PROVE  k = l
<1>1. k.state = l.state
  <2>1. <<"state", Null>> \in Part
    BY DEF Part
  <2> QED
    BY <2>1 DEF Value
<1>2. k.content = l.content /\ k.edited = l.edited
  <2>1. <<"content", Null>> \in Part
    BY DEF Part
  <2> QED
    BY <2>1 DEF Value
<1>3. k.reactions = l.reactions
  <2>1. \A u \in Users : <<"reaction", u>> \in Part
    BY DEF Part
  <2>2. \A u \in Users : k.reactions[u] = l.reactions[u]
    BY <2>1 DEF Value
  <2> QED
    BY <2>2 DEF Knowledge
<1>4. k.readBy = l.readBy
  <2>1. \A u \in Users : <<"receipt", u>> \in Part
    BY DEF Part
  <2>2. \A u \in Users : (u \in k.readBy) = (u \in l.readBy)
    BY <2>1 DEF Value
  <2> QED
    BY <2>2 DEF Knowledge
<1> QED
  BY <1>1, <1>2, <1>3, <1>4 DEF Knowledge

-----------------------------------------------------------------------------
(* What follows the last event of a part in the outbox is what the table   *)
(* says of the part; with no event of it to come, it is what was told.     *)
Follows(s, k, says) ==
  \A part \in Part :
    LET pending == {i \in DOMAIN s : Touches(s[i][1], part)} IN
    /\ pending = {} => Value(k, part) = Value(says, part)
    /\ \A i \in pending :
         (\A j \in pending : j <= i) => Set(s[i][1], part) = Value(says, part)

LEMMA FollowsAppend ==
  ASSUME NEW s \in Seq(Event \X Clients), NEW k \in Knowledge, NEW says \in Knowledge,
         NEW e \in Event, NEW c \in Clients, Follows(s, k, says)
  PROVE  Follows(Append(s, <<e, c>>), k, Apply(e, says))
<1> DEFINE new == Append(s, <<e, c>>)
<1>1. /\ Len(s) \in Nat /\ DOMAIN s = 1 .. Len(s) /\ DOMAIN new = 1 .. Len(s) + 1
      /\ \A i \in 1 .. Len(s) : new[i] = s[i]
      /\ new[Len(s) + 1] = <<e, c>>
  OBVIOUS
<1> HIDE DEF new
<1> SUFFICES ASSUME NEW part \in Part
             PROVE  LET pending == {i \in DOMAIN new : Touches(new[i][1], part)} IN
                    /\ pending = {} => Value(k, part) = Value(Apply(e, says), part)
                    /\ \A i \in pending : (\A j \in pending : j <= i) =>
                         Set(new[i][1], part) = Value(Apply(e, says), part)
  BY DEF Follows, new
<1> DEFINE before == {i \in DOMAIN s : Touches(s[i][1], part)}
           after == {i \in DOMAIN new : Touches(new[i][1], part)}
<1>2. /\ before = {} => Value(k, part) = Value(says, part)
      /\ \A i \in before : (\A j \in before : j <= i) =>
           Set(s[i][1], part) = Value(says, part)
  BY DEF Follows
<1>3. Value(Apply(e, says), part) = IF Touches(e, part) THEN Set(e, part) ELSE Value(says, part)
  BY ApplySets
<1>4. CASE Touches(e, part)
  <2>1. Len(s) + 1 \in after
    BY <1>1, <1>4
  <2>2. \A i \in after : i <= Len(s) + 1
    BY <1>1
  <2>3. ASSUME NEW i \in after, \A j \in after : j <= i
        PROVE  Set(new[i][1], part) = Value(Apply(e, says), part)
    <3>1. i = Len(s) + 1
      BY <2>1, <2>2, <2>3, <1>1
    <3> QED
      BY <3>1, <1>1, <1>3, <1>4
  <2> QED
    BY <2>1, <2>3
<1>5. CASE ~Touches(e, part)
  <2>1. after = before
    BY <1>1, <1>5
  <2>2. \A i \in before : new[i] = s[i]
    BY <1>1
  <2> HIDE DEF before, after
  <2> QED
    BY <2>1, <2>2, <1>2, <1>3, <1>5 DEF after
<1> QED
  BY <1>4, <1>5

(* A sequence without one of its elements. *)
LEMMA RemoveAtType ==
  ASSUME NEW S, NEW s \in Seq(S), NEW i \in 1 .. Len(s)
  PROVE  /\ RemoveAt(s, i) \in Seq(S)
         /\ Len(RemoveAt(s, i)) = Len(s) - 1
         /\ \A j \in 1 .. Len(s) - 1 :
              RemoveAt(s, i)[j] = IF j < i THEN s[j] ELSE s[j + 1]
<1> DEFINE front == SubSeq(s, 1, i - 1)
           back == SubSeq(s, i + 1, Len(s))
<1>1. Len(s) \in Nat /\ i \in Nat /\ 1 <= i /\ i <= Len(s)
  OBVIOUS
<1>2. \A j \in 1 .. Len(s) : s[j] \in S
  OBVIOUS
<1>3. /\ front \in Seq(S) /\ Len(front) = i - 1
      /\ \A j \in 1 .. i - 1 : front[j] = s[j]
  BY <1>1, <1>2
<1>4. /\ back \in Seq(S) /\ Len(back) = Len(s) - i
      /\ \A j \in 1 .. Len(s) - i : back[j] = s[i + j]
  BY <1>1, <1>2
<1> HIDE DEF front, back
<1>5. /\ front \o back \in Seq(S) /\ Len(front \o back) = Len(s) - 1
      /\ \A j \in 1 .. Len(s) - 1 :
           (front \o back)[j] = IF j <= i - 1 THEN front[j] ELSE back[j - (i - 1)]
  <2>1. /\ front \o back \in Seq(S)
        /\ Len(front \o back) = Len(front) + Len(back)
        /\ \A j \in 1 .. Len(front) + Len(back) :
             (front \o back)[j] = IF j <= Len(front) THEN front[j] ELSE back[j - Len(front)]
    BY <1>3, <1>4, ConcatProperties
  <2> DEFINE whole == front \o back
  <2> HIDE DEF whole
  <2> QED
    BY <2>1, <1>1, <1>3, <1>4 DEF whole
<1>6. ASSUME NEW j \in 1 .. Len(s) - 1
      PROVE  (front \o back)[j] = IF j < i THEN s[j] ELSE s[j + 1]
  <2>1. CASE j < i
    BY <2>1, <1>1, <1>3, <1>5
  <2>2. CASE ~(j < i)
    <3>1. j - (i - 1) \in 1 .. Len(s) - i /\ i + (j - (i - 1)) = j + 1
      BY <2>2, <1>1
    <3> QED
      BY <2>2, <3>1, <1>1, <1>4, <1>5
  <2> QED
    BY <2>1, <2>2
<1> QED
  BY <1>5, <1>6 DEF RemoveAt, front, back

(* Events that commute say the same of the parts they both touch, whatever *)
(* was known.                                                              *)
LEMMA CommuteAgree ==
  ASSUME NEW e \in Event, NEW f \in Event, NEW k \in Knowledge, Commute(e, f, k),
         NEW part \in Part, Touches(e, part), Touches(f, part)
  PROVE  Set(e, part) = Set(f, part)
<1>1. Apply(e, k) \in Knowledge /\ Apply(f, k) \in Knowledge
  BY ApplyType
<1>2. /\ Value(Apply(e, Apply(f, k)), part) = Set(e, part)
      /\ Value(Apply(f, Apply(e, k)), part) = Set(f, part)
  BY <1>1, ApplySets
<1> QED
  BY <1>2 DEF Commute

(* An event that overtakes none that says otherwise may be told.           *)
LEMMA FollowsRemove ==
  ASSUME NEW s \in Seq(Event \X Clients), NEW k \in Knowledge, NEW says \in Knowledge,
         Follows(s, k, says), NEW i \in 1 .. Len(s),
         \A j \in 1 .. i - 1 : Commute(s[i][1], s[j][1], k)
  PROVE  Follows(RemoveAt(s, i), Apply(s[i][1], k), says)
<1> DEFINE e == s[i][1]
           new == RemoveAt(s, i)
<1>1. /\ Len(s) \in Nat /\ DOMAIN s = 1 .. Len(s) /\ i \in Nat /\ 1 <= i /\ i <= Len(s)
      /\ \A j \in 1 .. Len(s) : s[j][1] \in Event
  OBVIOUS
<1>2. /\ DOMAIN new = 1 .. Len(s) - 1
      /\ \A j \in 1 .. Len(s) - 1 : new[j] = IF j < i THEN s[j] ELSE s[j + 1]
  BY RemoveAtType
<1> HIDE DEF new
<1> SUFFICES ASSUME NEW part \in Part
             PROVE  LET pending == {j \in DOMAIN new : Touches(new[j][1], part)} IN
                    /\ pending = {} => Value(Apply(e, k), part) = Value(says, part)
                    /\ \A j \in pending : (\A l \in pending : l <= j) =>
                         Set(new[j][1], part) = Value(says, part)
  BY DEF Follows, new
<1> DEFINE before == {j \in DOMAIN s : Touches(s[j][1], part)}
           after == {j \in DOMAIN new : Touches(new[j][1], part)}
<1>3. /\ before = {} => Value(k, part) = Value(says, part)
      /\ \A j \in before : (\A l \in before : l <= j) =>
           Set(s[j][1], part) = Value(says, part)
  BY DEF Follows
<1>4. Value(Apply(e, k), part) = IF Touches(e, part) THEN Set(e, part) ELSE Value(k, part)
  BY <1>1, ApplySets
<1>5. /\ \A j \in before : j < i => j \in after
      /\ \A j \in before : j > i => j - 1 \in after
      /\ \A j \in after : IF j < i THEN j \in before ELSE j + 1 \in before
  BY <1>1, <1>2
<1>6. before \subseteq 1 .. Len(s) /\ after \subseteq 1 .. Len(s) - 1
      /\ (i \in before <=> Touches(e, part))
  BY <1>1, <1>2
<1>7. \A j \in after : new[j] = IF j < i THEN s[j] ELSE s[j + 1]
  BY <1>2, <1>6
<1>8. \A j \in before : Touches(s[j][1], part)
  OBVIOUS
<1> HIDE DEF before, after
<1>9. ASSUME after = {} PROVE Value(Apply(e, k), part) = Value(says, part)
  <2>1. \A j \in before : j = i
    BY <1>5, <1>6, <1>9, <1>1
  <2>2. CASE Touches(e, part)
    <3>1. i \in before /\ \A l \in before : l <= i
      BY <2>1, <2>2, <1>1, <1>6
    <3> QED
      BY <3>1, <2>2, <1>3, <1>4
  <2>3. CASE ~Touches(e, part)
    <3>1. before = {}
      BY <2>1, <2>3, <1>6
    <3> QED
      BY <3>1, <2>3, <1>3, <1>4
  <2> QED
    BY <2>2, <2>3
<1>10. ASSUME NEW j \in after, \A l \in after : l <= j
       PROVE  Set(new[j][1], part) = Value(says, part)
  <2>1. j \in Nat /\ 1 <= j /\ j <= Len(s) - 1
    BY <1>1, <1>6
  <2>2. CASE j >= i
    <3>1. j + 1 \in before /\ new[j] = s[j + 1]
      BY <2>1, <2>2, <1>1, <1>5, <1>7
    <3>2. ASSUME NEW l \in before PROVE l <= j + 1
      <4>1. l \in Nat
        BY <1>1, <1>6
      <4>2. l > i => l - 1 <= j
        BY <1>5, <1>10
      <4> QED
        BY <4>1, <4>2, <2>1, <2>2, <1>1
    <3> QED
      BY <3>1, <3>2, <1>3
  <2>3. CASE j < i
    <3>1. j \in before /\ new[j] = s[j]
      BY <2>3, <1>5, <1>7
    <3>2. ASSUME NEW l \in before PROVE l <= i
      <4>1. l \in Nat
        BY <1>1, <1>6
      <4>2. l > i => l - 1 <= j
        BY <1>5, <1>10
      <4> QED
        BY <4>1, <4>2, <2>1, <2>3, <1>1
    <3>3. CASE Touches(e, part)
      <4>1. Set(e, part) = Value(says, part)
        BY <3>2, <3>3, <1>3, <1>6
      <4>2. j \in 1 .. i - 1 /\ j \in 1 .. Len(s)
        BY <2>1, <2>3, <1>1
      <4>3. Touches(s[j][1], part) /\ s[j][1] \in Event /\ e \in Event
        BY <3>1, <4>2, <1>1, <1>8
      <4>4. Set(e, part) = Set(s[j][1], part)
        BY <4>2, <4>3, <3>3, CommuteAgree
      <4> QED
        BY <4>1, <4>4, <3>1
    <3>4. CASE ~Touches(e, part)
      <4>1. ASSUME NEW l \in before PROVE l <= j
        <5>1. l \in Nat /\ l # i
          BY <3>4, <1>1, <1>6
        <5>2. (l > i => l - 1 <= j) /\ (l < i => l <= j)
          BY <1>5, <1>10
        <5>3. l < i \/ l > i
          BY <5>1, <1>1
        <5>4. ~(l > i)
          BY <5>1, <5>2, <2>1, <2>3, <1>1
        <5> QED
          BY <5>2, <5>3, <5>4
      <4> QED
        BY <4>1, <3>1, <1>3
    <3> QED
      BY <3>3, <3>4
  <2> QED
    BY <2>1, <2>2, <2>3, <1>1
<1> QED
  BY <1>9, <1>10 DEF after

(* Told twice in a row, an event says nothing new. *)
LEMMA ApplyTwice ==
  ASSUME NEW e \in Event, NEW k \in Knowledge
  PROVE  Apply(e, Apply(e, k)) = Apply(e, k)
<1>1. Apply(e, k) \in Knowledge /\ Apply(e, Apply(e, k)) \in Knowledge
  BY ApplyType
<1>2. \A part \in Part : Value(Apply(e, Apply(e, k)), part) = Value(Apply(e, k), part)
  BY <1>1, ApplySets
<1> QED
  BY <1>1, <1>2, KnowledgeIsParts

LEMMA SaysType ==
  ASSUME NEW r \in Row
  PROVE  Says(r) \in Knowledge
BY DEF Says, Row, Knowledge

(* The event of a new message as the table has it: the text sanitised.     *)
Heard(e) == IF e.kind = "created" THEN [e EXCEPT !.content = Sanitize[@]] ELSE e

(* What is known after an event means what the row is after it.            *)
LEMMA MeansApply ==
  ASSUME NEW e \in Event, e.kind = "created" => e.content \in Contents,
         NEW k \in Knowledge
  PROVE  Heard(e) \in Event /\ Means(Apply(e, k)) = Apply(Heard(e), Means(k))
<1>1. /\ e.kind \in {"created", "updated", "deleted", "reacted", "read"}
      /\ e.content \in Contents \cup {Null} /\ e.user \in Users
      /\ e.emoji \in Emojis \cup {Null}
  BY DEF Event
<1>2. CASE e.kind = "created"
  <2>1. /\ Sanitize[e.content] \in Contents
        /\ e.content # Null
    BY <1>2, SanitizeAssumption, NullIsNoText
  <2> QED
    BY <1>1, <1>2, <2>1 DEF Event, Heard, Means, Apply, Knowledge
<1>3. CASE e.kind = "updated"
  BY <1>1, <1>3 DEF Heard, Means, Apply, Knowledge
<1>4. CASE e.kind = "deleted"
  BY <1>1, <1>4 DEF Heard, Means, Apply, Knowledge
<1>5. CASE e.kind = "reacted"
  BY <1>1, <1>5 DEF Heard, Means, Apply, Knowledge
<1>6. CASE e.kind = "read"
  BY <1>1, <1>6 DEF Heard, Means, Apply, Knowledge
<1> QED
  BY <1>1, <1>2, <1>3, <1>4, <1>5, <1>6

(* Each operation changes of a row what its event says.                    *)
LEMMA OperationSays ==
  ASSUME NEW r \in Row, NEW u \in Users
  PROVE  /\ \A content \in Contents :
              LET e == [kind |-> "updated", user |-> u, content |-> content, emoji |-> Null] IN
              e \in Event /\ Says(WithEdit(r, u, content)) = Apply(e, Says(r))
         /\ \A emoji \in Emojis :
              LET e == [kind |-> "reacted", user |-> u, content |-> Null, emoji |-> emoji] IN
              e \in Event /\ Says(WithReaction(r, u, emoji)) = Apply(e, Says(r))
         /\ LET e == [kind |-> "reacted", user |-> u, content |-> Null, emoji |-> Null] IN
            e \in Event /\ Says(WithoutReaction(r, u)) = Apply(e, Says(r))
         /\ LET e == [kind |-> "read", user |-> u, content |-> Null, emoji |-> Null] IN
            e \in Event /\ Says(WithReader(r, u)) = Apply(e, Says(r))
         /\ LET e == [kind |-> "deleted", user |-> u, content |-> Null, emoji |-> Null] IN
            e \in Event /\ Says(WithDeletion(r, u)) = Apply(e, Says(r))
<1>1. ASSUME NEW content \in Contents
      PROVE  LET e == [kind |-> "updated", user |-> u, content |-> content, emoji |-> Null] IN
             e \in Event /\ Says(WithEdit(r, u, content)) = Apply(e, Says(r))
  BY DEF Event, Says, WithEdit, Apply, Row
<1>2. ASSUME NEW e \in Emojis \cup {Null}
      PROVE  LET ev == [kind |-> "reacted", user |-> u, content |-> Null, emoji |-> e] IN
             ev \in Event /\ Says([r EXCEPT !.reactions[u] = e]) = Apply(ev, Says(r))
  BY DEF Event, Says, Apply, Row
<1>3. LET e == [kind |-> "read", user |-> u, content |-> Null, emoji |-> Null] IN
      e \in Event /\ Says(WithReader(r, u)) = Apply(e, Says(r))
  BY DEF Event, Says, WithReader, Apply, Row
<1>4. LET e == [kind |-> "deleted", user |-> u, content |-> Null, emoji |-> Null] IN
      e \in Event /\ Says(WithDeletion(r, u)) = Apply(e, Says(r))
  BY DEF Event, Says, WithDeletion, Apply, Row
<1> QED
  BY <1>1, <1>2, <1>3, <1>4 DEF WithReaction, WithoutReaction

(* The event due (Null: none) makes of old knowledge the new. *)
Brings(e, old, new) == IF e = Null THEN new = old ELSE new = Apply(Heard(e), old)

LEMMA HeardOthers == \A e : e.kind # "created" => Heard(e) = e
BY DEF Heard

(* The event that a request will end with says what its entity says, and,  *)
(* when nobody wrote behind it, all that the entity says beyond the row.   *)
Foretold(e, q, r) ==
  /\ e # Null => e \in Event /\ e.kind # "created"
  /\ q.step = "idle" => e = Null
  /\ q.step # "idle" =>
       /\ Brings(e, Says(q.copy), Says(q.copy))
       /\ q.alone => Brings(e, Says(r), Says(q.copy))
       /\ q.step = "delete" => e # Null /\ e.kind = "deleted"

Foretells(c) == Foretold(event[c], request[c], row[request[c].message])

FeedTypeOK ==
  /\ outbox \in [Messages -> Seq(Event \X Clients)]
  /\ told \in [Messages -> Knowledge]
  /\ adrift \in [Messages -> BOOLEAN]
  /\ event \in [Clients -> Event \cup {Null}]

(* Whoever follows the outbox s from k ends with what means what the table *)
(* says.                                                                   *)
Reaches(s, k, says) ==
  \E known \in Knowledge : Means(known) = says /\ Follows(s, k, known)

FeedInv ==
  /\ FeedTypeOK
  /\ \A c \in Clients : Foretells(c)
  /\ \A m \in Messages :
       /\ raced[m] => adrift[m]
       /\ ~adrift[m] => Reaches(outbox[m], told[m], Says(row[m]))

(* With nothing left to tell, what was told is what the table says.        *)
LEMMA FollowsAll ==
  ASSUME NEW k \in Knowledge, NEW says \in Knowledge, Follows(<<>>, k, says)
  PROVE  k = says
<1>1. \A part \in Part : Value(k, part) = Value(says, part)
  BY DEF Follows
<1> QED
  BY <1>1, KnowledgeIsParts

LEMMA FeedInvGives == TypeOK /\ FeedInv => FeedIsTrue
<1> SUFFICES ASSUME TypeOK, FeedInv, NEW m \in Messages, outbox[m] = <<>>, ~adrift[m]
             PROVE  Means(told[m]) = Says(row[m])
  BY DEF FeedIsTrue
<1>1. PICK known \in Knowledge :
        Means(known) = Says(row[m]) /\ Follows(<<>>, told[m], known)
  BY DEF FeedInv, Reaches
<1>2. told[m] \in Knowledge
  BY DEF FeedInv, FeedTypeOK
<1> QED
  BY <1>1, <1>2, FollowsAll

LEMMA FeedInitInv == FeedInit => FeedInv
<1> SUFFICES ASSUME FeedInit PROVE FeedInv
  OBVIOUS
<1>1. /\ outbox = [m \in Messages |-> <<>>] /\ told = [m \in Messages |-> Unknown]
      /\ adrift = [m \in Messages |-> FALSE] /\ event = [c \in Clients |-> Null]
      /\ row = [m \in Messages |-> Absent] /\ request = [c \in Clients |-> Idle]
      /\ raced = [m \in Messages |-> FALSE]
  BY DEF FeedInit, Init
<1>2. FeedTypeOK
  BY <1>1, UnknownType DEF FeedTypeOK
<1>3. \A c \in Clients : Foretells(c)
  BY <1>1 DEF Foretells, Foretold, Idle
<1>4. Reaches(<<>>, Unknown, Says(Absent))
  <2>1. Says(Absent) = Means(Unknown)
    BY DEF Says, Absent, Unknown, Means
  <2>2. Follows(<<>>, Unknown, Unknown)
    BY DEF Follows
  <2> QED
    BY <2>1, <2>2, UnknownType DEF Reaches
<1> QED
  BY <1>1, <1>2, <1>3, <1>4 DEF FeedInv

(* What FeedInv says of a request that is left as it was, or behind which  *)
(* somebody wrote.                                                         *)
LEMMA ForetoldKept ==
  ASSUME NEW d \in Clients, Foretells(d), event'[d] = event[d],
         request'[d].step = request[d].step, request'[d].copy = request[d].copy,
         request[d].step # "idle" /\ request'[d].alone =>
           request[d].alone
             /\ row'[request'[d].message] = row[request[d].message]
  PROVE  Foretells(d)'
BY DEF Foretells, Foretold

(* An operation has read the message. *)
LEMMA FoundForetells ==
  ASSUME TypeOK, FeedInv, NEW c \in Clients, NEW m \in Messages,
         NEW step \in {"found", "delete"}, NEW copy \in Row, NEW touched, NEW e,
         Found(c, m, step, copy, touched), event' = [event EXCEPT ![c] = e],
         e # Null => e \in Event /\ e.kind # "created",
         Brings(e, Says(row[m]), Says(copy)),
         step = "delete" => e # Null /\ e.kind = "deleted"
  PROVE  \A d \in Clients : Foretells(d)'
<1>1. /\ request \in [Clients -> Request] /\ row[m] \in Row /\ UNCHANGED <<row, raced>>
      /\ event \in [Clients -> Event \cup {Null}]
  BY DEF TypeOK, Found, FeedInv, FeedTypeOK
<1>2. request' = [request EXCEPT ![c] = [step |-> step, message |-> m, copy |-> copy,
                                         dirty |-> touched, alone |-> TRUE]]
  BY DEF Found
<1>3. Foretells(c)'
  <2>1. /\ request'[c].step = step /\ request'[c].copy = copy /\ request'[c].message = m
        /\ event'[c] = e /\ row' = row
    BY <1>1, <1>2
  <2>2. Brings(e, Says(copy), Says(copy))
    BY <1>1, SaysType, ApplyTwice, HeardOthers DEF Brings
  <2> QED
    BY <2>1, <2>2 DEF Foretells, Foretold
<1>4. ASSUME NEW d \in Clients \ {c} PROVE Foretells(d)'
  <2>1. request'[d] = request[d] /\ event'[d] = event[d] /\ row' = row
    BY <1>1, <1>2
  <2>2. Foretells(d)
    BY DEF FeedInv
  <2> QED
    BY <2>1, <2>2, ForetoldKept
<1> QED
  BY <1>3, <1>4

LEMMA FoundFeed ==
  ASSUME TypeOK, FeedInv, NEW c \in Clients, NEW m \in Messages,
         NEW step \in {"found", "delete"}, NEW copy \in Row, NEW touched,
         NEW e \in Event \cup {Null}, e # Null => e.kind # "created",
         Found(c, m, step, copy, touched), event' = [event EXCEPT ![c] = e],
         UNCHANGED <<outbox, told, adrift>>,
         Brings(e, Says(row[m]), Says(copy)),
         step = "delete" => e # Null /\ e.kind = "deleted"
  PROVE  FeedInv'
<1>1. \A d \in Clients : Foretells(d)'
  BY FoundForetells
<1>2. FeedTypeOK'
  BY DEF FeedInv, FeedTypeOK
<1>3. UNCHANGED <<row, raced>>
  BY DEF Found
<1> QED
  BY <1>1, <1>2, <1>3 DEF FeedInv

LEMMA OpensFeed ==
  ASSUME TypeOK, FeedInv, NEW c \in Clients, NEW m \in Messages, NEW u \in Users,
         Operation(c, m, u)
  PROVE  FeedInv'
<1>1. Visible(m)
  BY DEF Operation, HandleMessageUpdated, ReactionAdded, ReactionRemoved, MarkAsRead,
     HandleMessageDeleted, UpdateMessage, AddReaction, RemoveReaction, MarkMessageAsRead,
     DeleteMessage, Found
<1>2. row[m] \in Row /\ row[m].content \in Contents
  BY <1>1, VisibleRow
<1>3. ASSUME NEW step \in {"found", "delete"}, NEW copy, copy \in Row, NEW touched,
             NEW e, e \in Event, e.kind # "created", Says(copy) = Apply(e, Says(row[m])),
             Found(c, m, step, copy, touched), event' = [event EXCEPT ![c] = e],
             UNCHANGED <<outbox, told, adrift>>,
             step = "delete" => e.kind = "deleted"
      PROVE  FeedInv'
  <2>1. e # Null /\ Brings(e, Says(row[m]), Says(copy))
    BY <1>3, NullIsNoEvent, HeardOthers DEF Brings
  <2> QED
    BY <1>3, <2>1, FoundFeed
<1>4. ASSUME NEW content \in Contents, HandleMessageUpdated(c, m, u, content)
      PROVE  FeedInv'
  <2> DEFINE text == Sanitize[content]
             e == [kind |-> "updated", user |-> u, content |-> text, emoji |-> Null]
             copy == WithEdit(row[m], u, text)
  <2>0. text \in Contents
    BY SanitizeAssumption
  <2>1. /\ copy \in Row /\ e \in Event /\ e.kind # "created"
        /\ Says(copy) = Apply(e, Says(row[m]))
    <3> HIDE DEF text
    <3> QED
      BY <1>2, <2>0, OperationType, OperationSays
  <2>2. /\ Found(c, m, "found", copy, {"metadata"})
        /\ event' = [event EXCEPT ![c] = e] /\ UNCHANGED <<outbox, told, adrift>>
    BY <1>4 DEF HandleMessageUpdated, Begins, UpdateMessage
  <2> HIDE DEF e, copy
  <2> QED
    BY <1>3, <2>1, <2>2
<1>5. ASSUME NEW emoji \in Emojis, ReactionAdded(c, m, u, emoji)
      PROVE  FeedInv'
  <2> DEFINE e == [kind |-> "reacted", user |-> u, content |-> Null, emoji |-> emoji]
             copy == WithReaction(row[m], u, emoji)
  <2>1. /\ copy \in Row /\ e \in Event /\ e.kind # "created"
        /\ Says(copy) = Apply(e, Says(row[m]))
    BY <1>2, OperationType, OperationSays
  <2>2. /\ Found(c, m, "found", copy, {})
        /\ event' = [event EXCEPT ![c] = e] /\ UNCHANGED <<outbox, told, adrift>>
    BY <1>5 DEF ReactionAdded, Begins, AddReaction
  <2> HIDE DEF e, copy
  <2> QED
    BY <1>3, <2>1, <2>2
<1>6. CASE ReactionRemoved(c, m, u)
  <2> DEFINE e == [kind |-> "reacted", user |-> u, content |-> Null, emoji |-> Null]
             copy == WithoutReaction(row[m], u)
  <2>1. /\ copy \in Row /\ e \in Event /\ e.kind # "created"
        /\ Says(copy) = Apply(e, Says(row[m]))
    BY <1>2, OperationType, OperationSays
  <2>2. /\ Found(c, m, "found", copy, {})
        /\ event' = [event EXCEPT ![c] = e] /\ UNCHANGED <<outbox, told, adrift>>
    BY <1>6 DEF ReactionRemoved, Begins, RemoveReaction
  <2> HIDE DEF e, copy
  <2> QED
    BY <1>3, <2>1, <2>2
<1>7. CASE MarkAsRead(c, m, u)
  <2> DEFINE e == [kind |-> "read", user |-> u, content |-> Null, emoji |-> Null]
             copy == WithReader(row[m], u)
  <2>1. /\ copy \in Row /\ e \in Event /\ e.kind # "created"
        /\ Says(copy) = Apply(e, Says(row[m]))
    BY <1>2, OperationType, OperationSays
  <2>2. /\ Found(c, m, "found", copy, {"readBy"})
        /\ event' = [event EXCEPT ![c] = e] /\ UNCHANGED <<outbox, told, adrift>>
    BY <1>7 DEF MarkAsRead, Begins, MarkMessageAsRead
  <2> HIDE DEF e, copy
  <2> QED
    BY <1>3, <2>1, <2>2
<1>8. CASE HandleMessageDeleted(c, m, u)
  <2> DEFINE e == [kind |-> "deleted", user |-> u, content |-> Null, emoji |-> Null]
             copy == WithDeletion(row[m], u)
  <2>1. /\ copy \in Row /\ e \in Event /\ Says(copy) = Apply(e, Says(row[m]))
        /\ e.kind = "deleted" /\ e.kind # "created"
    BY <1>2, OperationType, OperationSays
  <2>2. /\ Found(c, m, "delete", copy, {"deletion"})
        /\ event' = [event EXCEPT ![c] = e] /\ UNCHANGED <<outbox, told, adrift>>
    BY <1>8 DEF HandleMessageDeleted, Begins, DeleteMessage
  <2> HIDE DEF e, copy
  <2> QED
    BY <1>3, <2>1, <2>2
<1> QED
  BY <1>4, <1>5, <1>6, <1>7, <1>8 DEF Operation

LEMMA SettingsFeed ==
  ASSUME TypeOK, FeedInv, NEW c \in Clients, NEW m \in Messages, SaveSettings(c, m)
  PROVE  FeedInv'
<1>1. /\ Found(c, m, "found", row[m], {}) /\ UNCHANGED feedVars
      /\ request[c].step = "idle" /\ row[m] \in Row
  BY DEF SaveSettings, UpdateConversationSettings, Free, TypeOK
<1>2. event[c] = Null
  BY <1>1 DEF FeedInv, Foretells, Foretold
<1>3. event' = [event EXCEPT ![c] = Null] /\ UNCHANGED <<outbox, told, adrift>>
  BY <1>1, <1>2 DEF feedVars, FeedInv, FeedTypeOK
<1>4. Brings(Null, Says(row[m]), Says(row[m]))
  BY DEF Brings
<1> QED
  BY <1>1, <1>3, <1>4, FoundFeed

(* An operation is over, and its event is due: it brings what the row now  *)
(* says, or the message is given up.                                       *)
LEMMA DueFeed ==
  ASSUME TypeOK, FeedInv, NEW c \in Clients, NEW m \in Messages,
         NEW e \in Event \cup {Null}, Due(c, m, e),
         e # Null /\ e.kind = "created" => e.content \in Contents,
         request'[c].step = "idle",
         \A d \in Clients \ {c} :
           /\ request'[d].step = request[d].step /\ request'[d].copy = request[d].copy
           /\ request[d].step # "idle" /\ request'[d].alone =>
                request[d].alone
                  /\ row'[request'[d].message] = row[request[d].message],
         \A n \in Messages \ {m} : row'[n] = row[n] /\ raced'[n] = raced[n],
         raced[m] => raced'[m],
         ~raced'[m] => Brings(e, Says(row[m]), Says(row'[m]))
  PROVE  FeedInv'
<1>1. /\ outbox \in [Messages -> Seq(Event \X Clients)] /\ told \in [Messages -> Knowledge]
      /\ adrift \in [Messages -> BOOLEAN] /\ event \in [Clients -> Event \cup {Null}]
      /\ \A n \in Messages : Says(row[n]) \in Knowledge
  BY SaysType DEF FeedInv, FeedTypeOK, TypeOK
<1>2. /\ event' = [event EXCEPT ![c] = Null]
      /\ event'[c] = Null /\ \A d \in Clients \ {c} : event'[d] = event[d]
  BY <1>1 DEF Due
<1>3. \A d \in Clients : Foretells(d)'
  <2>1. Foretells(c)'
    BY <1>2 DEF Foretells, Foretold
  <2>2. ASSUME NEW d \in Clients \ {c} PROVE Foretells(d)'
    <3>1. Foretells(d)
      BY DEF FeedInv
    <3> QED
      BY <1>2, <3>1, ForetoldKept
  <2> QED
    BY <2>1, <2>2
<1>4. CASE adrift[m] \/ raced'[m]
  <2>1. GivesUp(m)
    BY <1>4 DEF Due
  <2>2. /\ adrift' = [adrift EXCEPT ![m] = TRUE] /\ told' = [told EXCEPT ![m] = Unknown]
        /\ outbox' = [outbox EXCEPT ![m] = <<>>]
    BY <2>1 DEF GivesUp
  <2>3. FeedTypeOK'
    BY <1>1, <1>2, <2>2, UnknownType DEF FeedTypeOK
  <2>4. /\ adrift'[m]
        /\ \A n \in Messages \ {m} :
             adrift'[n] = adrift[n] /\ told'[n] = told[n] /\ outbox'[n] = outbox[n]
    BY <1>1, <2>2
  <2> QED
    BY <1>3, <2>3, <2>4 DEF FeedInv
<1>5. CASE ~(adrift[m] \/ raced'[m])
  <2>1. /\ outbox' = [outbox EXCEPT ![m] = IF e = Null THEN @ ELSE Append(@, <<e, c>>)]
        /\ told' = told /\ adrift' = adrift
    BY <1>5 DEF Due
  <2>2. IF e = Null THEN outbox' = outbox
        ELSE outbox' = [outbox EXCEPT ![m] = Append(outbox[m], <<e, c>>)]
    BY <1>1, <2>1
  <2>3. outbox' \in [Messages -> Seq(Event \X Clients)]
    <3>1. outbox[m] \in Seq(Event \X Clients)
      BY <1>1
    <3>2. e # Null => Append(outbox[m], <<e, c>>) \in Seq(Event \X Clients)
      BY <3>1
    <3> QED
      BY <1>1, <2>2, <3>2
  <2>4. FeedTypeOK'
    BY <1>1, <1>2, <2>1, <2>3 DEF FeedTypeOK
  <2>5. Reaches(outbox'[m], told[m], Says(row'[m]))
    <3>1. PICK known \in Knowledge :
            Means(known) = Says(row[m]) /\ Follows(outbox[m], told[m], known)
      BY <1>5 DEF FeedInv, Reaches
    <3>2. CASE e = Null
      BY <1>5, <2>2, <3>1, <3>2 DEF Brings, Reaches
    <3>3. CASE e # Null
      <4>1. outbox'[m] = Append(outbox[m], <<e, c>>) /\ e \in Event
        BY <1>1, <2>2, <3>3
      <4>2. Says(row'[m]) = Apply(Heard(e), Says(row[m]))
        BY <1>5, <3>3 DEF Brings
      <4>3. Means(Apply(e, known)) = Says(row'[m]) /\ Apply(e, known) \in Knowledge
        BY <3>1, <3>3, <4>1, <4>2, MeansApply, ApplyType
      <4>4. outbox[m] \in Seq(Event \X Clients) /\ told[m] \in Knowledge
        BY <1>1
      <4>5. Follows(outbox'[m], told[m], Apply(e, known))
        BY <3>1, <4>1, <4>4, FollowsAppend
      <4> QED
        BY <4>3, <4>5 DEF Reaches
    <3> QED
      BY <3>2, <3>3
  <2>6. \A n \in Messages \ {m} : outbox'[n] = outbox[n]
    BY <1>1, <2>2
  <2> QED
    BY <1>3, <1>5, <2>1, <2>4, <2>5, <2>6 DEF FeedInv
<1> QED
  BY <1>4, <1>5

(* A message that is not there yet was not edited. *)
Unedited == \A m \in Messages : row[m].state = "absent" => row[m].edited = FALSE

LEMMA AlwaysUnedited == Spec => []Unedited
<1>1. TypeOK /\ AloneInv /\ (\A m \in Messages : Chronicle(seen[m])) => Unedited
  <2> SUFFICES ASSUME TypeOK, AloneInv, NEW m \in Messages, Chronicle(seen[m]),
                      row[m].state = "absent"
               PROVE  row[m].edited = FALSE
    BY DEF Unedited
  <2>1. seen[m] = row[m]
    BY DEF AloneInv, seen, View
  <2>2. row[m].edited \in BOOLEAN
    BY DEF TypeOK, Row
  <2> QED
    BY <2>1, <2>2 DEF Chronicle
<1> QED
  BY <1>1, TypeCorrect, AlwaysAlone, AlwaysChronicle, PTL

LEMMA CreatedFeed ==
  ASSUME TypeOK, Unedited, FeedInv, NEW c \in Clients, NEW m \in Messages, NEW u \in Users,
         NEW content \in Contents, HandleMessage(c, m, u, content)
  PROVE  FeedInv'
<1> DEFINE e == [kind |-> "created", user |-> u, content |-> content, emoji |-> Null]
           text == Sanitize[content]
           new == [row[m] EXCEPT !.state = "shown", !.sender = u, !.content = text]
<1>1. /\ row[m].state = "absent" /\ UNCHANGED <<request, raced>>
      /\ row' = [row EXCEPT ![m].state = "shown", ![m].sender = u, ![m].content = text]
      /\ row \in [Messages -> Row] /\ request[c].step = "idle" /\ Due(c, m, e)
  BY DEF HandleMessage, CreateMessage, Free, TypeOK
<1>2. row' = [row EXCEPT ![m] = new]
  BY <1>1
<1>3. /\ e \in Event /\ e.content \in Contents
      /\ Says(new) = Apply(Heard(e), Says(row[m]))
  <2>1. Heard(e) = [kind |-> "created", user |-> u, content |-> text, emoji |-> Null]
    BY DEF Heard
  <2>2. row[m] \in Row /\ row[m].edited = FALSE
    BY <1>1 DEF TypeOK, Unedited
  <2>3. e \in Event /\ e.content \in Contents
    BY DEF Event
  <2>4. Says(new) = [state |-> "shown", content |-> text, edited |-> FALSE,
                     reactions |-> row[m].reactions, readBy |-> row[m].readBy]
    BY <2>2 DEF Says, Row
  <2>5. Apply(Heard(e), Says(row[m])) =
          [state |-> "shown", content |-> text, edited |-> FALSE,
           reactions |-> row[m].reactions, readBy |-> row[m].readBy]
    <3>1. Heard(e).kind = "created" /\ Heard(e).content = text
      BY <2>1
    <3> HIDE DEF text, e
    <3> QED
      BY <3>1 DEF Apply, Says
  <2> QED
    BY <2>3, <2>4, <2>5
<1> HIDE DEF e, new, text
<1>4. \A n \in Messages \ {m} : row'[n] = row[n]
  BY <1>1, <1>2
<1>5. Brings(e, Says(row[m]), Says(row'[m]))
  BY <1>1, <1>2, <1>3, NullIsNoEvent DEF Brings
<1>6. \A d \in Clients : request[d].step # "idle" =>
        request[d].message \in Messages /\ row[request[d].message].state # "absent"
  BY DEF TypeOK
<1>7. \A d \in Clients : request[d].step # "idle" =>
        row'[request'[d].message] = row[request[d].message]
  BY <1>1, <1>4, <1>6
<1> QED
  BY <1>1, <1>3, <1>4, <1>5, <1>7, DueFeed

(* A copy that differs in no column says what the row says. *)
LEMMA SameSays ==
  ASSUME NEW copy \in Row, NEW r \in Row, Differing(copy, r) = {}
  PROVE  Says(copy) = Says(r)
<1>1. /\ copy.content = r.content /\ copy.reactions = r.reactions
      /\ copy.readBy = r.readBy /\ copy.state = r.state /\ copy.edited = r.edited
  <2>1. copy.content = r.content
    BY DEF Differing
  <2>2. copy.reactions = r.reactions
    BY DEF Differing
  <2>3. copy.readBy = r.readBy
    BY DEF Differing
  <2>4. copy.state = r.state
    BY DEF Differing
  <2>5. copy.edited = r.edited
    BY DEF Differing
  <2> QED
    BY <2>1, <2>2, <2>3, <2>4, <2>5
<1> QED
  BY <1>1 DEF Says

LEMMA ReloadFeed ==
  ASSUME TypeOK, FeedInv, NEW c \in Clients, Reload(c),
         IF request'[c].step = "idle" THEN Due(c, request[c].message, event[c])
         ELSE UNCHANGED feedVars
  PROVE  FeedInv'
<1> DEFINE m == request[c].message
           copy == request[c].copy
           dirty == request[c].dirty \cup Differing(copy, row[m])
<1>1. /\ request \in [Clients -> Request] /\ request[c].step = "found" /\ m \in Messages
      /\ row[m] \in Row /\ copy \in Row /\ UNCHANGED <<row, raced>>
      /\ event[c] \in Event \cup {Null} /\ event \in [Clients -> Event \cup {Null}]
  BY DEF Reload, TypeOK, Request, FeedInv, FeedTypeOK
<1>2. request' = [request EXCEPT ![c] =
        IF dirty = {} THEN Idle ELSE [request[c] EXCEPT !.step = "save", !.dirty = dirty]]
  BY DEF Reload
<1>3. Foretold(event[c], request[c], row[m])
  BY DEF FeedInv, Foretells
<1>4. \A d \in Clients \ {c} : request'[d] = request[d]
  BY <1>1, <1>2
<1>5. CASE dirty = {}
  <2>1. request'[c] = Idle /\ Differing(copy, row[m]) = {}
    BY <1>1, <1>2, <1>5
  <2>2. request'[c].step = "idle"
    BY <2>1 DEF Idle
  <2>3. Says(copy) = Says(row[m])
    BY <1>1, <2>1, SameSays
  <2>4. Brings(event[c], Says(row[m]), Says(row'[m]))
    BY <1>1, <1>3, <2>3 DEF Foretold
  <2>5. Due(c, m, event[c])
    BY <2>2
  <2>6. event[c] # Null => event[c].kind # "created"
    BY <1>3 DEF Foretold
  <2> HIDE DEF m
  <2> QED
    BY <1>1, <1>4, <2>2, <2>4, <2>5, <2>6, DueFeed
<1>6. CASE dirty # {}
  <2>1. /\ request'[c].step = "save" /\ request'[c].copy = copy
        /\ request'[c].message = m /\ request'[c].alone = request[c].alone
    BY <1>1, <1>2, <1>6 DEF Request
  <2>2. UNCHANGED feedVars
    BY <2>1
  <2>3. UNCHANGED <<event, outbox, told, adrift>>
    BY <2>2 DEF feedVars
  <2>4. Foretells(c)'
    BY <1>1, <1>3, <2>1, <2>3 DEF Foretells, Foretold
  <2>5. ASSUME NEW d \in Clients \ {c} PROVE Foretells(d)'
    <3>1. Foretells(d)
      BY DEF FeedInv
    <3> QED
      BY <1>1, <1>4, <2>3, <3>1, ForetoldKept
  <2> QED
    BY <1>1, <2>3, <2>4, <2>5 DEF FeedInv, FeedTypeOK
<1> QED
  BY <1>5, <1>6

(* What a write makes the row say.                                         *)
LEMMA MergeSays ==
  ASSUME NEW r \in Row, NEW copy \in Row, copy.state = "deleted"
  PROVE  Says(Merged(r, copy, {"deletion"})) = [Says(r) EXCEPT !.state = "deleted"]
<1> DEFINE new == Merged(r, copy, {"deletion"})
<1>1. {"deletion"} \in SUBSET Columns
  BY DEF Columns
<1>2. /\ new.content = r.content /\ new.reactions = r.reactions /\ new.edited = r.edited
      /\ new.readBy = r.readBy /\ new.state = "deleted"
  BY <1>1, MergedColumns
<1> HIDE DEF new
<1> QED
  BY <1>2 DEF Says, new

LEMMA WriteFeed ==
  ASSUME TypeOK, CopyInv, AloneInv, FeedInv, NEW c \in Clients,
         Write(c) \/ MarkAsDeleted(c), Due(c, request[c].message, event[c])
  PROVE  FeedInv'
<1> DEFINE m == request[c].message
           copy == request[c].copy
           dirty == request[c].dirty
           new == Merged(row[m], copy, dirty)
<1>1. /\ request[c].step \in {"save", "delete"} /\ m \in Messages
      /\ row \in [Messages -> Row] /\ row[m] \in Row /\ copy \in Row
      /\ dirty \in SUBSET Columns /\ raced \in [Messages -> BOOLEAN]
      /\ event[c] \in Event \cup {Null}
  BY DEF Write, MarkAsDeleted, TypeOK, Request, FeedInv, FeedTypeOK
<1>2. row' = [row EXCEPT ![m] = new] /\ Wrote(c, m)
  BY DEF Write, MarkAsDeleted
<1>3. row'[m] = new /\ \A n \in Messages \ {m} : row'[n] = row[n]
  BY <1>1, <1>2
<1>4. Foretold(event[c], request[c], row[m])
  BY DEF FeedInv, Foretells
<1>5. raced' = raced \/ raced' = [raced EXCEPT ![m] = @ \/ ~request[c].alone]
  BY DEF Write, MarkAsDeleted
<1>6. /\ \A n \in Messages \ {m} : raced'[n] = raced[n]
      /\ raced[m] => raced'[m]
  BY <1>1, <1>5
<1>7. ~raced'[m] => Brings(event[c], Says(row[m]), Says(new))
  <2>1. CASE Write(c)
    <3>1. /\ request[c].step = "save"
          /\ raced' = [raced EXCEPT ![m] = @ \/ ~request[c].alone]
      BY <2>1 DEF Write
    <3>2. ~raced'[m] => request[c].alone
      BY <1>1, <3>1
    <3>3. request[c].alone => new = copy
      BY <3>1 DEF AloneInv, Undisturbed
    <3> HIDE DEF new
    <3> QED
      BY <1>4, <3>1, <3>2, <3>3 DEF Foretold
  <2>2. CASE MarkAsDeleted(c)
    <3>1. request[c].step = "delete"
      BY <2>2 DEF MarkAsDeleted
    <3>2. copy.state = "deleted" /\ dirty = {"deletion"}
      BY <3>1 DEF CopyInv, HoldsCopy
    <3>3. event[c] # Null /\ event[c].kind = "deleted"
      BY <1>4, <3>1 DEF Foretold
    <3>4. Says(new) = [Says(row[m]) EXCEPT !.state = "deleted"]
      BY <1>1, <3>2, MergeSays
    <3> HIDE DEF new
    <3> QED
      BY <3>3, <3>4, HeardOthers DEF Brings, Apply
  <2> QED
    BY <2>1, <2>2
<1>8. \A d \in Clients \ {c} :
        /\ request'[d].step = request[d].step /\ request'[d].copy = request[d].copy
        /\ request'[d].message = request[d].message
        /\ request'[d].alone = (request[d].alone /\ request[d].message # m)
  BY <1>1, <1>2, WroteOthers
<1>9. request'[c].step = "idle"
  <2>1. request'[c] = Idle
    BY <1>1, <1>2, WroteOthers
  <2> QED
    BY <2>1 DEF Idle
<1>10. \A d \in Clients \ {c} : request[d].step # "idle" /\ request'[d].alone =>
         request[d].alone /\ row'[request'[d].message] = row[request[d].message]
  <2>1. \A d \in Clients : request[d].step # "idle" => request[d].message \in Messages
    BY DEF TypeOK
  <2> HIDE DEF m, new
  <2> QED
    BY <1>3, <1>8, <2>1
<1>11. Due(c, m, event[c])
  OBVIOUS
<1>12. event[c] # Null => event[c].kind # "created"
  BY <1>4 DEF Foretold
<1> HIDE DEF m, copy, dirty, new
<1> QED
  BY <1>1, <1>3, <1>6, <1>7, <1>8, <1>9, <1>10, <1>11, <1>12, DueFeed

LEMMA FailsFeed ==
  ASSUME TypeOK, FeedInv, NEW c \in Clients, RequestFails(c),
         event' = [event EXCEPT ![c] = Null], UNCHANGED <<outbox, told, adrift>>
  PROVE  FeedInv'
<1>1. /\ request \in [Clients -> Request] /\ event \in [Clients -> Event \cup {Null}]
      /\ request' = [request EXCEPT ![c] = Idle] /\ UNCHANGED <<row, raced>>
  BY DEF RequestFails, TypeOK, FeedInv, FeedTypeOK
<1>2. Foretells(c)'
  BY <1>1 DEF Foretells, Foretold, Idle
<1>3. ASSUME NEW d \in Clients \ {c} PROVE Foretells(d)'
  <2>1. Foretells(d)
    BY DEF FeedInv
  <2> QED
    BY <1>1, <2>1, ForetoldKept
<1> QED
  BY <1>1, <1>2, <1>3 DEF FeedInv, FeedTypeOK

(* What is left to tell of a message is given up. *)
LEMMA GivesUpFeed ==
  ASSUME FeedInv, NEW m \in Messages, GivesUp(m), UNCHANGED <<vars, event>>
  PROVE  FeedInv'
<1>1. /\ adrift' = [adrift EXCEPT ![m] = TRUE] /\ told' = [told EXCEPT ![m] = Unknown]
      /\ outbox' = [outbox EXCEPT ![m] = <<>>] /\ UNCHANGED <<row, request, raced, event>>
  BY DEF GivesUp, vars
<1>2. FeedTypeOK /\ FeedTypeOK'
  BY <1>1, UnknownType DEF FeedInv, FeedTypeOK
<1>3. /\ adrift'[m]
      /\ \A n \in Messages \ {m} :
           adrift'[n] = adrift[n] /\ told'[n] = told[n] /\ outbox'[n] = outbox[n]
  BY <1>1, <1>2 DEF FeedTypeOK
<1>4. \A d \in Clients : Foretells(d)'
  BY <1>1 DEF FeedInv, Foretells
<1> QED
  BY <1>1, <1>2, <1>3, <1>4 DEF FeedInv

LEMMA EmitFeed ==
  ASSUME TypeOK, FeedInv, NEW m \in Messages, NEW i \in DOMAIN outbox[m], Emit(m, i)
  PROVE  FeedInv'
<1>1. CASE Overtakes(m, i)
  BY <1>1, GivesUpFeed DEF Emit
<1>2. CASE ~Overtakes(m, i)
  <2> DEFINE e == outbox[m][i][1]
  <2>1. /\ told' = [told EXCEPT ![m] = Apply(e, told[m])]
        /\ outbox' = [outbox EXCEPT ![m] = RemoveAt(outbox[m], i)]
        /\ UNCHANGED <<row, request, raced, event, adrift>>
    BY <1>2 DEF Emit, vars
  <2>2. FeedTypeOK
    BY DEF FeedInv
  <2>3. /\ outbox[m] \in Seq(Event \X Clients) /\ told[m] \in Knowledge
        /\ Says(row[m]) \in Knowledge
    BY <2>2, SaysType DEF FeedTypeOK, TypeOK
  <2>4. i \in 1 .. Len(outbox[m]) /\ outbox[m][i] \in Event \X Clients
    BY <2>3
  <2>5. e \in Event
    BY <2>4
  <2>6. RemoveAt(outbox[m], i) \in Seq(Event \X Clients)
    BY <2>3, <2>4, RemoveAtType
  <2>7. Apply(e, told[m]) \in Knowledge
    BY <2>3, <2>5, ApplyType
  <2>8. FeedTypeOK'
    BY <2>1, <2>2, <2>6, <2>7 DEF FeedTypeOK
  <2>9. ~adrift[m] =>
          Reaches(RemoveAt(outbox[m], i), Apply(e, told[m]), Says(row[m]))
    <3>1. \A j \in 1 .. i - 1 : Commute(e, outbox[m][j][1], told[m])
      BY <1>2 DEF Overtakes
    <3> SUFFICES ASSUME ~adrift[m]
                 PROVE  Reaches(RemoveAt(outbox[m], i), Apply(e, told[m]), Says(row[m]))
      OBVIOUS
    <3>2. PICK known \in Knowledge :
            Means(known) = Says(row[m]) /\ Follows(outbox[m], told[m], known)
      BY DEF FeedInv, Reaches
    <3>3. Follows(RemoveAt(outbox[m], i), Apply(e, told[m]), known)
      BY <2>3, <2>4, <3>1, <3>2, FollowsRemove
    <3> QED
      BY <3>2, <3>3 DEF Reaches
  <2> HIDE DEF e
  <2>10. /\ outbox'[m] = RemoveAt(outbox[m], i) /\ told'[m] = Apply(e, told[m])
         /\ \A n \in Messages \ {m} : outbox'[n] = outbox[n] /\ told'[n] = told[n]
    BY <2>1, <2>2 DEF FeedTypeOK
  <2>11. \A d \in Clients : Foretells(d)'
    BY <2>1 DEF FeedInv, Foretells
  <2> QED
    BY <2>1, <2>8, <2>9, <2>10, <2>11 DEF FeedInv
<1> QED
  BY <1>1, <1>2

LEMMA FeedInvStays ==
  TypeOK /\ CopyInv /\ AloneInv /\ Unedited /\ FeedInv /\ [FeedNext]_allVars
    => FeedInv'
<1> SUFFICES ASSUME TypeOK, CopyInv, AloneInv, Unedited, FeedInv, [FeedNext]_allVars
             PROVE  FeedInv'
  OBVIOUS
<1>1. ASSUME NEW c \in Clients, NEW m \in Messages, NEW u \in Users,
             NEW content \in Contents, HandleMessage(c, m, u, content)
      PROVE  FeedInv'
  BY <1>1, CreatedFeed
<1>2. ASSUME NEW c \in Clients, NEW m \in Messages, NEW u \in Users, Operation(c, m, u)
      PROVE  FeedInv'
  BY <1>2, OpensFeed
<1>3. ASSUME NEW c \in Clients, NEW m \in Messages, SaveSettings(c, m) PROVE FeedInv'
  BY <1>3, SettingsFeed
<1>4. ASSUME NEW c \in Clients, Step(c) PROVE FeedInv'
  BY <1>4, ReloadFeed, WriteFeed, FailsFeed DEF Step
<1>5. ASSUME NEW m \in Messages, NEW i \in DOMAIN outbox[m], Emit(m, i) PROVE FeedInv'
  BY <1>5, EmitFeed
<1>6. ASSUME NEW m \in Messages, EmitNothing(m) PROVE FeedInv'
  BY <1>6, GivesUpFeed DEF EmitNothing
<1>7. CASE UNCHANGED allVars
  <2>1. UNCHANGED <<row, request, raced, event, outbox, told, adrift>>
    BY <1>7 DEF allVars, vars, feedVars
  <2>2. \A c \in Clients : Foretells(c)'
    BY <2>1 DEF FeedInv, Foretells
  <2> QED
    BY <2>1, <2>2 DEF FeedInv, FeedTypeOK
<1> QED
  BY <1>1, <1>2, <1>3, <1>4, <1>5, <1>6, <1>7 DEF FeedNext

(* The room ends up knowing what the table says: once all events of a      *)
(* message are out, and unless a save raced on it, or an event was lost or *)
(* overtook one that says otherwise, what was told is the row, up to the   *)
(* sanitising of a text that was never edited.                             *)
THEOREM FeedTrue == FeedSpec => []FeedIsTrue
<1>1. FeedSpec => []TypeOK /\ []CopyInv /\ []AloneInv /\ []Unedited
  BY FeedImplementsMessages, TypeCorrect, AlwaysCopy, AlwaysAlone, AlwaysUnedited, PTL
<1> QED
  BY <1>1, FeedInitInv, FeedInvStays, FeedInvGives, PTL DEF FeedSpec
=============================================================================
