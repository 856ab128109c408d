--------------------------- MODULE SchedulerProofs ---------------------------
(***************************************************************************)
(* What holds of Scheduler for every set of posts, of overlapping runs, of *)
(* clients and of targets, and for every bound on time and faults.         *)
(***************************************************************************)
EXTENDS Scheduler, TLAPS

(* The row helpers stay within the type of a row. *)
LEMMA RowHelpers ==
  ASSUME NEW r \in Row, NEW edit \in Edit
  PROVE  /\ MediaOf(r) \in Media
         /\ Edited(r, edit) \in Row
BY DEF MediaOf, Edited, Media, Row, Edit

LEMMA WithStatus ==
  ASSUME NEW r \in Row, NEW status \in ScheduleStatus
  PROVE  [r EXCEPT !.status = status] \in Row
BY DEF Row

LEMMA WithStored ==
  ASSUME NEW r \in Row
  PROVE  [r EXCEPT !.stored = TRUE] \in Row
BY DEF Row

LEMMA AbsentIsRow == Absent \in Row
BY MaxTimeAssumption DEF Absent, Row, Times

LEMMA VerdictType ==
  ASSUME NEW successes, NEW targets
  PROVE  Verdict(successes, targets) \in Verdicts
BY DEF Verdict, Verdicts

LEMMA ScheduleStatusType ==
  ASSUME NEW verdict \in Verdicts
  PROVE  ScheduleStatusOf(verdict) \in {"PUBLISHED", "PARTIALLY_PUBLISHED", "FAILED"}
BY DEF ScheduleStatusOf, Verdicts

LEMMA InitType == Init => TypeOK
BY MaxTimeAssumption, MaxFaultsAssumption, AbsentIsRow
DEF Init, TypeOK, Equipped, Times, IdleRun, RunState, RunSteps, IdleRequest, RequestState,
    NoEdit, Edit

(* A request that returns leaves its client idle and the others as they    *)
(* were.                                                                   *)
LEMMA RequestReturns ==
  ASSUME TypeOK, NEW c \in Clients,
         request' = [request EXCEPT ![c] = IdleRequest]
  PROVE  /\ request' \in [Clients -> RequestState]
         /\ \A d \in Clients :
               request'[d].step # "idle" => request'[d].post \in Posts
<1>1. IdleRequest \in RequestState /\ IdleRequest.step = "idle"
  BY DEF IdleRequest, RequestState, NoEdit, Edit
<1>2. request \in [Clients -> RequestState]
  BY DEF TypeOK
<1>3. request' \in [Clients -> RequestState]
  BY <1>1, <1>2
<1>4. \A d \in Clients : request[d].step # "idle" => request[d].post \in Posts
  BY DEF TypeOK
<1>5. ASSUME NEW d \in Clients
      PROVE  request'[d].step # "idle" => request'[d].post \in Posts
  <2>1. CASE d = c
    BY <1>1, <1>2, <2>1
  <2>2. CASE d # c
    BY <1>2, <1>4, <2>2
  <2> QED
    BY <2>1, <2>2
<1> QED
  BY <1>3, <1>5

(* The row of a post is replaced by another row. *)
LEMMA RowReplaced ==
  ASSUME TypeOK, NEW p \in Posts, NEW r \in Row, row' = [row EXCEPT ![p] = r]
  PROVE  row' \in [Posts -> Row]
BY DEF TypeOK

(* Requests keep the types. *)
LEMMA RequestType ==
  ASSUME TypeOK, NEW c \in Clients, RequestStep(c)
  PROVE  TypeOK'
<1> USE DEF TypeOK, Equipped
<1>2. ASSUME NEW p \in Posts, NEW content \in Contents, NEW time \in Times,
             Schedule(c, p, content, time)
      PROVE  TypeOK'
  <2>1. [Absent EXCEPT !.status = "PENDING", !.content = content, !.time = time]
          \in Row
    BY AbsentIsRow DEF Row, Absent, ScheduleStatus
  <2>2. row' \in [Posts -> Row]
    BY <1>2, <2>1 DEF Schedule
  <2>3. request' \in [Clients -> RequestState]
    BY <1>2 DEF Schedule, RequestState, NoEdit, Edit
  <2> QED
    BY <1>2, <2>2, <2>3 DEF Schedule
<1>3. ASSUME NEW p \in Posts, NEW edit \in Edit, BeginEdit(c, p, edit)
      PROVE  TypeOK'
  BY <1>3 DEF BeginEdit, RequestState
<1>4. ASSUME NEW p \in Posts, BeginCancel(c, p)
      PROVE  TypeOK'
  BY <1>4 DEF BeginCancel, RequestState, NoEdit, Edit
<1>5. CASE AttachMedia(c)
  <2>1. request[c].post \in Posts
    BY <1>5 DEF AttachMedia
  <2>2. [row[request[c].post] EXCEPT !.stored = TRUE] \in Row
    <3>1. row[request[c].post] \in Row
      BY <2>1
    <3> QED
      BY <3>1, WithStored
  <2>3. row' \in [Posts -> Row]
    BY <1>5, <2>1, <2>2, RowReplaced DEF AttachMedia
  <2>4. late' \in SUBSET Posts
    BY <1>5, <2>1 DEF AttachMedia, TooLate
  <2>5. /\ request' \in [Clients -> RequestState]
        /\ \A d \in Clients : request'[d].step # "idle" => request'[d].post \in Posts
    BY <1>5, RequestReturns DEF AttachMedia
  <2> QED
    BY <1>5, <2>3, <2>4, <2>5 DEF AttachMedia
<1>6. CASE ApplyEdit(c)
  <2>1. request[c].post \in Posts /\ request[c].edit \in Edit
    BY <1>6 DEF ApplyEdit, RequestState
  <2>2. row' \in [Posts -> Row]
    BY <1>6, <2>1, RowHelpers DEF ApplyEdit
  <2>3. late' \in SUBSET Posts
    BY <1>6, <2>1 DEF ApplyEdit, TooLate
  <2>4. /\ request' \in [Clients -> RequestState]
        /\ \A d \in Clients : request'[d].step # "idle" => request'[d].post \in Posts
    BY <1>6, RequestReturns DEF ApplyEdit
  <2> QED
    BY <1>6, <2>2, <2>3, <2>4 DEF ApplyEdit
<1>7. CASE ApplyCancel(c)
  <2>1. request[c].post \in Posts
    BY <1>7 DEF ApplyCancel
  <2>2. [row[request[c].post] EXCEPT !.status = "CANCELLED"] \in Row
    <3>1. row[request[c].post] \in Row /\ "CANCELLED" \in ScheduleStatus
      BY <2>1 DEF ScheduleStatus
    <3> QED
      BY <3>1, WithStatus
  <2>3. row' \in [Posts -> Row]
    BY <1>7, <2>1, <2>2, RowReplaced DEF ApplyCancel
  <2>4. /\ request' \in [Clients -> RequestState]
        /\ \A d \in Clients : request'[d].step # "idle" => request'[d].post \in Posts
    BY <1>7, RequestReturns DEF ApplyCancel
  <2> QED
    BY <1>7, <2>3, <2>4 DEF ApplyCancel
<1>8. CASE RequestFails(c)
  <2>1. /\ request' \in [Clients -> RequestState]
        /\ \A d \in Clients : request'[d].step # "idle" => request'[d].post \in Posts
    BY <1>8, RequestReturns DEF RequestFails
  <2> QED
    BY <1>8, <2>1 DEF RequestFails
<1> QED
  BY <1>2, <1>3, <1>4, <1>5, <1>6, <1>7, <1>8 DEF RequestStep

(* The publish call in the hands of a run adds one attempt to its post. *)
LEMMA AttemptsType ==
  ASSUME TypeOK, NEW w \in Runs, run[w].current \in Copy,
         NEW reached \in SUBSET Targets, Attempts(w, reached)
  PROVE  attempts' \in [Posts -> Seq(Attempt)]
<1>1. [by |-> w, content |-> run[w].current.content,
       media |-> run[w].current.media, reached |-> reached] \in Attempt
  BY DEF Copy, Attempt
<1> QED
  BY <1>1 DEF Attempts, TypeOK, Copy

LEMMA IdleRunType == IdleRun \in RunState
BY DEF IdleRun, RunState, RunSteps

(* Runs keep the types. *)
LEMMA RunType ==
  ASSUME TypeOK, NEW w \in Runs, RunStep(w)
  PROVE  TypeOK'
<1> USE DEF TypeOK
<1>1. CASE ListDue(w)
  <2>1. ASSUME NEW p \in Posts PROVE CopyOf(p) \in Copy
    <3>1. row[p] \in Row
      OBVIOUS
    <3>2. MediaOf(row[p]) \in Media
      BY <3>1 DEF MediaOf, Media
    <3>3. row[p].content \in Contents \cup {Null}
      BY <3>1 DEF Row
    <3> QED
      BY <3>2, <3>3 DEF CopyOf, Copy
  <2>2. run' \in [Runs -> RunState]
    <3>1. {CopyOf(p) : p \in Due} \in SUBSET Copy
      BY <2>1 DEF Due
    <3>2. [IdleRun EXCEPT !.step = "next", !.list = {CopyOf(p) : p \in Due}] \in RunState
      BY <3>1 DEF IdleRun, RunState, RunSteps
    <3> QED
      BY <1>1, <3>2 DEF ListDue
  <2> QED
    <3>1. ASSUME NEW v \in Runs PROVE Equipped(v)'
      BY <1>1 DEF ListDue, IdleRun, RunState, Equipped
    <3> QED
      BY <1>1, <2>2, <3>1 DEF ListDue
<1>2. CASE MarkProcessing(w)
  <2>1. PICK copy \in run[w].list :
          /\ row' = [row EXCEPT ![copy.post].status = "PROCESSING"]
          /\ Take(w, copy, "publish")
    BY <1>2 DEF MarkProcessing
  <2>2. copy \in Copy
    BY DEF RunState
  <2>3. row' \in [Posts -> Row]
    <3>1. copy.post \in Posts
      BY <2>2 DEF Copy
    <3>2. [row[copy.post] EXCEPT !.status = "PROCESSING"] \in Row
      <4>1. row[copy.post] \in Row /\ "PROCESSING" \in ScheduleStatus
        BY <3>1 DEF ScheduleStatus
      <4> QED
        BY <4>1, WithStatus
    <3> QED
      BY <2>1, <3>1, <3>2, RowReplaced
  <2>4. run' \in [Runs -> RunState]
    BY <2>1, <2>2 DEF Take, RunState, RunSteps
  <2> QED
    BY <1>2, <2>1, <2>2, <2>3, <2>4 DEF MarkProcessing, Take, RunState, Equipped
<1>3. CASE PublishSettles(w)
  <2>0. PICK reached \in SUBSET Targets : \E successes \in SUBSET reached :
          /\ Attempts(w, reached)
          /\ run' = [run EXCEPT ![w].step = "record",
                                ![w].verdict = Verdict(successes, Targets)]
    BY <1>3 DEF PublishSettles
  <2>1. PICK successes \in SUBSET reached :
          /\ Attempts(w, reached)
          /\ run' = [run EXCEPT ![w].step = "record",
                                ![w].verdict = Verdict(successes, Targets)]
    BY <2>0
  <2>2. attempts' \in [Posts -> Seq(Attempt)]
    BY <1>3, <2>1, AttemptsType DEF PublishSettles, Equipped
  <2>3. Verdict(successes, Targets) \in Verdicts
    BY VerdictType
  <2>4. run' \in [Runs -> RunState]
    <3> DEFINE verdict == Verdict(successes, Targets)
    <3>1. run' = [run EXCEPT ![w].step = "record", ![w].verdict = verdict]
      BY <2>1
    <3>2. verdict \in Verdicts /\ run \in [Runs -> RunState]
      BY <2>3
    <3> HIDE DEF verdict
    <3>3. [run[w] EXCEPT !.step = "record", !.verdict = verdict] \in RunState
      BY <3>2 DEF RunState, RunSteps
    <3> QED
      BY <3>1, <3>2, <3>3
  <2> QED
    BY <1>3, <2>1, <2>2, <2>3, <2>4 DEF PublishSettles, RunState, Equipped
<1>4. CASE RecordVerdict(w)
  <2>1. run[w].verdict \in Verdicts
    BY <1>4 DEF RecordVerdict, Equipped
  <2>2. ScheduleStatusOf(run[w].verdict) \in ScheduleStatus
    BY <2>1, ScheduleStatusType DEF ScheduleStatus
  <2>3. row' \in [Posts -> Row]
    <3> DEFINE p == run[w].current.post
               recorded == [row[p] EXCEPT !.status = ScheduleStatusOf(run[w].verdict),
                                          !.verdict = run[w].verdict]
    <3>1. row[p] \in Row
      BY <1>4 DEF RecordVerdict, Equipped, Copy
    <3>2. recorded \in Row
      BY <2>1, <2>2, <3>1 DEF Row
    <3>3. row' = [row EXCEPT ![p] = recorded]
      BY <1>4 DEF RecordVerdict
    <3> HIDE DEF p, recorded
    <3> QED
      BY <3>2, <3>3
  <2>4. run' \in [Runs -> RunState]
    BY <1>4 DEF RecordVerdict, RunGoesTo, RunState, RunSteps
  <2> QED
    BY <1>4, <2>3, <2>4 DEF RecordVerdict, RunGoesTo, RunState, Equipped
<1>5. CASE RecordFailure(w)
  <2>1. row' \in [Posts -> Row]
    <3> DEFINE p == run[w].current.post
    <3>1. row[p] \in Row
      BY <1>5 DEF RecordFailure, Equipped, Copy
    <3>2. [row[p] EXCEPT !.status = "FAILED", !.error = TRUE] \in Row
      BY <3>1 DEF Row, ScheduleStatus
    <3>3. row' = [row EXCEPT ![p] = [row[p] EXCEPT !.status = "FAILED", !.error = TRUE]]
      BY <1>5 DEF RecordFailure
    <3> HIDE DEF p
    <3> QED
      BY <3>2, <3>3
  <2>2. run' \in [Runs -> RunState]
    BY <1>5 DEF RecordFailure, RunGoesTo, RunState, RunSteps
  <2> QED
    <3>1. ASSUME NEW v \in Runs PROVE Equipped(v)'
      BY <1>5 DEF RecordFailure, RunGoesTo, RunState, Equipped
    <3> QED
      BY <1>5, <2>1, <2>2, <3>1 DEF RecordFailure
<1>6. CASE RunEnds(w)
  BY <1>6, IdleRunType DEF RunEnds, IdleRun, Equipped
<1> QED
  BY <1>1, <1>2, <1>3, <1>4, <1>5, <1>6 DEF RunStep

(* So do the faults. *)
LEMMA FaultType ==
  ASSUME TypeOK, NEW w \in Runs, RunFault(w)
  PROVE  TypeOK'
<1> USE DEF TypeOK
<1>1. ASSUME Fault PROVE faults' \in 0..MaxFaults
  BY <1>1, MaxFaultsAssumption DEF Fault
<1>2. CASE MarkFails(w)
  <2>1. PICK copy \in run[w].list : Take(w, copy, "fail")
    BY <1>2 DEF MarkFails
  <2>2. copy \in Copy
    BY DEF RunState
  <2>3. run' \in [Runs -> RunState]
    BY <2>1, <2>2 DEF Take, RunState, RunSteps
  <2> QED
    BY <1>1, <1>2, <2>1, <2>2, <2>3 DEF MarkFails, Take, RunState, Equipped
<1>3. CASE PublishThrows(w)
  <2>1. attempts' \in [Posts -> Seq(Attempt)]
    BY <1>3, AttemptsType DEF PublishThrows, Equipped
  <2>2. run' \in [Runs -> RunState]
    BY <1>3 DEF PublishThrows, RunGoesTo, RunState, RunSteps
  <2> QED
    BY <1>1, <1>3, <2>1, <2>2 DEF PublishThrows, RunGoesTo, RunState, Equipped
<1>4. CASE RecordVerdictFails(w)
  <2>1. run' \in [Runs -> RunState]
    BY <1>4 DEF RecordVerdictFails, RunGoesTo, RunState, RunSteps
  <2> QED
    BY <1>1, <1>4, <2>1 DEF RecordVerdictFails, RunGoesTo, RunState, Equipped
<1>5. CASE RecordFailureFails(w)
  BY <1>1, <1>5, IdleRunType DEF RecordFailureFails, IdleRun, Equipped
<1>6. CASE Crash(w)
  <2>1. attempts' \in [Posts -> Seq(Attempt)]
    BY <1>6, AttemptsType DEF Crash, Equipped
  <2> QED
    BY <1>1, <1>6, <2>1, IdleRunType DEF Crash, IdleRun, Equipped
<1> QED
  BY <1>2, <1>3, <1>4, <1>5, <1>6 DEF RunFault

LEMMA NextType == TypeOK /\ [Next]_vars => TypeOK'
<1> SUFFICES ASSUME TypeOK, [Next]_vars PROVE TypeOK'
  OBVIOUS
<1>1. CASE AdvanceTime
  BY <1>1, MaxTimeAssumption DEF AdvanceTime, TypeOK, Equipped, Times
<1>2. CASE UNCHANGED vars
  BY <1>2 DEF vars, TypeOK, Equipped
<1> QED
  BY <1>1, <1>2, RequestType, RunType, FaultType DEF Next

(* Every reachable state is well typed; in particular a run that publishes *)
(* or records has a post in its hands.                                     *)
THEOREM TypeCorrect == Spec => []TypeOK
BY InitType, NextType, PTL DEF Spec

-----------------------------------------------------------------------------
(* One attempt per run. *)

LEMMA InitOnce == Init => OnceInv
BY DEF Init, OnceInv, PendingIsUntouched, OneAttemptPerRun, OwnList, Spent,
       Absent, IdleRun, Busy

(* A request leaves attempts and runs alone, and a row it makes PENDING    *)
(* did not exist before.                                                   *)
LEMMA RequestOnce ==
  ASSUME TypeOK, OnceInv, NEW c \in Clients, RequestStep(c)
  PROVE  OnceInv'
<1> DEFINE Quiet ==
             /\ UNCHANGED <<run, attempts>>
             /\ \A p \in Posts :
                  row'[p].status \in {"absent", "PENDING"} =>
                    /\ row[p].status \in {"absent", "PENDING"}
                    /\ row[p].verdict = Null => row'[p].verdict = Null
<1>1. Quiet
  <2> USE DEF TypeOK
  <2>1. ASSUME NEW p \in Posts, NEW content \in Contents, NEW time \in Times,
               Schedule(c, p, content, time)
        PROVE  Quiet
    BY <2>1 DEF Schedule, Absent
  <2>2. ASSUME NEW p \in Posts, NEW edit \in Edit, BeginEdit(c, p, edit)
        PROVE  Quiet
    BY <2>2 DEF BeginEdit
  <2>3. ASSUME NEW p \in Posts, BeginCancel(c, p)
        PROVE  Quiet
    BY <2>3 DEF BeginCancel
  <2>4. CASE AttachMedia(c)
    BY <2>4 DEF AttachMedia, Row
  <2>5. CASE ApplyEdit(c)
    BY <2>5 DEF ApplyEdit, Edited, Row
  <2>6. CASE ApplyCancel(c)
    BY <2>6 DEF ApplyCancel, Row
  <2>7. CASE RequestFails(c)
    BY <2>7 DEF RequestFails
  <2> QED
    BY <2>1, <2>2, <2>3, <2>4, <2>5, <2>6, <2>7 DEF RequestStep
<1> QED
  BY <1>1 DEF OnceInv, PendingIsUntouched, OneAttemptPerRun, OwnList, Spent

(* What one more attempt of a run that publishes does to the invariant. *)
LEMMA AttemptOnce ==
  ASSUME TypeOK, OnceInv, NEW w \in Runs, run[w].step = "publish",
         NEW reached \in SUBSET Targets, Attempts(w, reached)
  PROVE  /\ OneAttemptPerRun'
         /\ \A p \in Posts : row[p].status \in {"absent", "PENDING"} =>
              attempts'[p] = <<>>
         /\ \A v \in Runs, p \in Posts :
              (\E i \in 1..Len(attempts'[p]) : attempts'[p][i].by = v) =>
                \/ \E i \in 1..Len(attempts[p]) : attempts[p][i].by = v
                \/ v = w /\ p = run[w].current.post
<1> DEFINE q == run[w].current.post
           new == [by |-> w, content |-> run[w].current.content,
                   media |-> run[w].current.media, reached |-> reached]
<1>1. q \in Posts /\ run[w].current \in Copy
  BY DEF TypeOK, Equipped, Copy
<1>2. new \in Attempt /\ new.by = w
  BY <1>1 DEF Attempt, Copy
<1>3. attempts' = [attempts EXCEPT ![q] = Append(attempts[q], new)]
  BY DEF Attempts
<1>4. attempts \in [Posts -> Seq(Attempt)]
  BY DEF TypeOK
<1>5. \A i \in 1..Len(attempts[q]) : attempts[q][i].by # w
  BY <1>1 DEF OnceInv, Spent
<1>6. row[q].status \notin {"absent", "PENDING"}
  BY <1>1 DEF OnceInv, PendingIsUntouched
<1> HIDE DEF q, new
<1>7. /\ attempts'[q] = Append(attempts[q], new)
      /\ \A p \in Posts \ {q} : attempts'[p] = attempts[p]
  BY <1>1, <1>3, <1>4
<1>8. /\ Len(attempts'[q]) = Len(attempts[q]) + 1
      /\ Len(attempts[q]) \in Nat
      /\ attempts'[q][Len(attempts[q]) + 1] = new
      /\ \A i \in 1..Len(attempts[q]) : attempts'[q][i] = attempts[q][i]
  BY <1>1, <1>2, <1>4, <1>7
<1>9. OneAttemptPerRun'
  <2> SUFFICES ASSUME NEW p \in Posts, NEW i \in 1..Len(attempts'[p]),
                      NEW j \in 1..Len(attempts'[p]),
                      attempts'[p][i].by = attempts'[p][j].by
               PROVE  i = j
    BY DEF OneAttemptPerRun
  <2>1. CASE p = q
    <3> DEFINE n == Len(attempts[q])
    <3>1. /\ n \in Nat /\ i \in 1..(n + 1) /\ j \in 1..(n + 1)
          /\ attempts'[q][i].by = attempts'[q][j].by
      BY <2>1, <1>8
    <3>2. \A k \in 1..n : attempts'[q][k].by = attempts[q][k].by /\ attempts[q][k].by # w
      BY <1>5, <1>8
    <3>3. attempts'[q][n + 1].by = w
      BY <1>2, <1>8
    <3>4. \A k, l \in 1..n : attempts[q][k].by = attempts[q][l].by => k = l
      BY <1>1 DEF OnceInv, OneAttemptPerRun
    <3> HIDE DEF n
    <3>5. CASE i \in 1..n /\ j \in 1..n
      BY <3>1, <3>2, <3>4, <3>5
    <3>6. CASE i = n + 1 \/ j = n + 1
      <4>1. i # n + 1 => i \in 1..n
        BY <3>1
      <4>2. j # n + 1 => j \in 1..n
        BY <3>1
      <4> QED
        BY <3>1, <3>2, <3>3, <3>6, <4>1, <4>2
    <3> QED
      BY <3>1, <3>5, <3>6
  <2>2. CASE p # q
    BY <2>2, <1>7 DEF OnceInv, OneAttemptPerRun
  <2> QED
    BY <2>1, <2>2
<1>10. \A p \in Posts : row[p].status \in {"absent", "PENDING"} => attempts'[p] = <<>>
  BY <1>6, <1>7 DEF OnceInv, PendingIsUntouched
<1>11. ASSUME NEW v \in Runs, NEW p \in Posts,
              NEW i \in 1..Len(attempts'[p]), attempts'[p][i].by = v
       PROVE  \/ \E k \in 1..Len(attempts[p]) : attempts[p][k].by = v
              \/ v = w /\ p = q
  <2>1. CASE p # q
    BY <1>11, <2>1, <1>7
  <2>2. CASE p = q /\ i = Len(attempts[q]) + 1
    BY <1>11, <2>2, <1>2, <1>8
  <2>3. CASE p = q /\ i # Len(attempts[q]) + 1
    BY <1>11, <2>3, <1>8
  <2> QED
    BY <2>1, <2>2, <2>3
<1> QED
  BY <1>9, <1>10, <1>11 DEF q

(* Every step of a run after MarkProcessing: it may add an attempt, keeps  *)
(* a part of its list and, while busy, its post; no row becomes PENDING.   *)
LEMMA RunsOn ==
  ASSUME TypeOK, OnceInv, NEW w \in Runs, NEW s \in RunState,
         run' = [run EXCEPT ![w] = s],
         s.list \in SUBSET run[w].list,
         s.step # "publish",
         s.step = "record" => run[w].step = "publish",
         s.step \in Busy => run[w].step \in Busy /\ s.current = run[w].current,
         \/ UNCHANGED attempts
         \/ run[w].step = "publish" /\ \E reached \in SUBSET Targets : Attempts(w, reached),
         \A p \in Posts : row'[p].status \in {"absent", "PENDING"} =>
           /\ row[p].status \in {"absent", "PENDING"}
           /\ row'[p].verdict = row[p].verdict
  PROVE  OnceInv'
<1>1. /\ run'[w] = s
      /\ \A v \in Runs \ {w} : run'[v] = run[v]
  BY DEF TypeOK
<1>2. /\ OneAttemptPerRun'
      /\ \A p \in Posts : row[p].status \in {"absent", "PENDING"} => attempts'[p] = <<>>
      /\ \A v \in Runs, p \in Posts :
           (\E i \in 1..Len(attempts'[p]) : attempts'[p][i].by = v) =>
             \/ \E i \in 1..Len(attempts[p]) : attempts[p][i].by = v
             \/ v = w /\ run[w].step = "publish" /\ p = run[w].current.post
  <2>1. CASE UNCHANGED attempts
    BY <2>1 DEF OnceInv, OneAttemptPerRun, PendingIsUntouched
  <2>2. CASE run[w].step = "publish" /\ \E reached \in SUBSET Targets : Attempts(w, reached)
    BY <2>2, AttemptOnce
  <2> QED
    BY <2>1, <2>2
<1>3. ASSUME NEW p \in Posts, row'[p].status \in {"absent", "PENDING"}
      PROVE  /\ attempts'[p] = <<>>
             /\ row'[p].verdict = Null
             /\ \A v \in Runs : run'[v].step \in {"publish", "record"} =>
                                  run'[v].current.post # p
  <2>1. /\ row[p].status \in {"absent", "PENDING"}
        /\ row'[p].verdict = row[p].verdict
    BY <1>3
  <2>2. \A v \in Runs : run[v].step \in {"publish", "record"} => run[v].current.post # p
    BY <2>1 DEF OnceInv, PendingIsUntouched
  <2>3. s.step = "record" => s.current.post # p
    BY <2>2 DEF Busy
  <2> QED
    BY <1>1, <1>2, <2>1, <2>2, <2>3 DEF OnceInv, PendingIsUntouched
<1>4. ASSUME NEW v \in Runs PROVE OwnList(v)'
  <2>1. OwnList(v) /\ OwnList(w)
    BY DEF OnceInv
  <2>2. CASE v = w
    BY <1>1, <2>1, <2>2 DEF OwnList
  <2>3. CASE v # w
    BY <1>1, <2>1, <2>3 DEF OwnList
  <2> QED
    BY <2>2, <2>3
<1>5. ASSUME NEW v \in Runs, NEW p \in Posts,
             \E i \in 1..Len(attempts'[p]) : attempts'[p][i].by = v
      PROVE  /\ \A x \in run'[v].list : x.post # p
             /\ run'[v].step = "publish" => run'[v].current.post # p
  <2>1. CASE \E i \in 1..Len(attempts[p]) : attempts[p][i].by = v
    <3>1. /\ \A x \in run[v].list : x.post # p
          /\ run[v].step = "publish" => run[v].current.post # p
      BY <2>1 DEF OnceInv, Spent
    <3> QED
      BY <1>1, <3>1
  <2>2. CASE v = w /\ run[w].step = "publish" /\ p = run[w].current.post
    <3>1. \A x \in run[w].list : x.post # p
      BY <2>2 DEF OnceInv, OwnList, Busy
    <3> QED
      BY <1>1, <2>2, <3>1
  <2> QED
    BY <1>2, <1>5, <2>1, <2>2
<1>6. PendingIsUntouched'
  BY <1>3 DEF PendingIsUntouched
<1>7. \A v \in Runs, p \in Posts : Spent(v, p)'
  BY <1>5 DEF Spent
<1> QED
  BY <1>2, <1>4, <1>6, <1>7 DEF OnceInv

(* A run that lists posts has published none of them: they are PENDING. *)
LEMMA ListOnce ==
  ASSUME TypeOK, OnceInv, NEW w \in Runs, ListDue(w)
  PROVE  OnceInv'
<1> DEFINE copies == {CopyOf(p) : p \in Due}
<1>1. /\ UNCHANGED <<row, attempts>>
      /\ run'[w].step = "next" /\ run'[w].list = copies
      /\ \A v \in Runs \ {w} : run'[v] = run[v]
  BY DEF ListDue, IdleRun, TypeOK
<1>2. \A x \in copies : x = CopyOf(x.post) /\ x.post \in Due
  BY DEF CopyOf
<1>3. \A p \in Due : p \in Posts /\ row[p].status = "PENDING"
  BY DEF Due
<1> HIDE DEF copies
<1>4. PendingIsUntouched'
  BY <1>1 DEF OnceInv, PendingIsUntouched
<1>5. OneAttemptPerRun'
  BY <1>1 DEF OnceInv, OneAttemptPerRun
<1>6. ASSUME NEW v \in Runs PROVE OwnList(v)'
  <2>1. CASE v = w
    BY <1>1, <1>2, <2>1 DEF OwnList, Busy
  <2>2. CASE v # w
    BY <1>1, <2>2 DEF OnceInv, OwnList
  <2> QED
    BY <2>1, <2>2
<1>7. ASSUME NEW v \in Runs, NEW p \in Posts PROVE Spent(v, p)'
  <2>1. CASE v = w
    <3>1. p \in Due => attempts[p] = <<>>
      BY <1>3 DEF OnceInv, PendingIsUntouched
    <3>2. p \in Due => Len(attempts'[p]) = 0
      BY <1>1, <3>1
    <3> QED
      BY <1>1, <1>2, <2>1, <3>2 DEF Spent
  <2>2. CASE v # w
    BY <1>1, <2>2 DEF OnceInv, Spent
  <2> QED
    BY <2>1, <2>2
<1> QED
  BY <1>4, <1>5, <1>6, <1>7 DEF OnceInv

(* A run takes up a post: it is in its list, so it has not published it,   *)
(* and no other copy of it stays in the list.                              *)
LEMMA MarkOnce ==
  ASSUME TypeOK, OnceInv, NEW w \in Runs, MarkProcessing(w)
  PROVE  OnceInv'
<1>1. PICK copy \in run[w].list :
        /\ row' = [row EXCEPT ![copy.post].status = "PROCESSING"]
        /\ Take(w, copy, "publish")
  BY DEF MarkProcessing
<1>2. copy.post \in Posts
  BY DEF TypeOK, RunState, Copy
<1>3. /\ run'[w].step = "publish" /\ run'[w].current = copy
      /\ run'[w].list = run[w].list \ {copy}
      /\ \A v \in Runs \ {w} : run'[v] = run[v]
      /\ UNCHANGED attempts
  BY <1>1 DEF Take, TypeOK, RunState, MarkProcessing
<1>4. /\ row'[copy.post].status = "PROCESSING"
      /\ \A p \in Posts \ {copy.post} : row'[p] = row[p]
  BY <1>1, <1>2 DEF TypeOK, Row
<1>5. PendingIsUntouched'
  BY <1>3, <1>4 DEF OnceInv, PendingIsUntouched
<1>6. OneAttemptPerRun'
  BY <1>3 DEF OnceInv, OneAttemptPerRun
<1>7. ASSUME NEW v \in Runs PROVE OwnList(v)'
  <2>1. OwnList(v)
    BY DEF OnceInv
  <2>2. CASE v = w
    BY <1>3, <2>1, <2>2 DEF OwnList
  <2>3. CASE v # w
    BY <1>3, <2>1, <2>3 DEF OwnList
  <2> QED
    BY <2>2, <2>3
<1>8. ASSUME NEW v \in Runs, NEW p \in Posts PROVE Spent(v, p)'
  <2>1. Spent(v, p)
    BY DEF OnceInv
  <2>2. CASE v = w
    BY <1>3, <2>1, <2>2 DEF Spent
  <2>3. CASE v # w
    BY <1>3, <2>1, <2>3 DEF Spent
  <2> QED
    BY <2>2, <2>3
<1> QED
  BY <1>5, <1>6, <1>7, <1>8 DEF OnceInv

LEMMA RunOnce ==
  ASSUME TypeOK, TypeOK', OnceInv, NEW w \in Runs, RunStep(w) \/ RunFault(w)
  PROVE  OnceInv'
<1>1. run'[w] \in RunState
  BY DEF TypeOK
<1>2. CASE PublishSettles(w)
  <2>1. /\ run' = [run EXCEPT ![w] = run'[w]]
        /\ run'[w].list = run[w].list /\ run'[w].current = run[w].current
        /\ run'[w].step = "record"
    <3>1. PICK verdict : run' = [run EXCEPT ![w].step = "record", ![w].verdict = verdict]
      BY <1>2 DEF PublishSettles
    <3>2. run \in [Runs -> RunState]
      BY DEF TypeOK
    <3> QED
      BY <3>1, <3>2 DEF RunState
  <2>2. run[w].step = "publish" /\ UNCHANGED row
    BY <1>2 DEF PublishSettles
  <2>3. \E reached \in SUBSET Targets : Attempts(w, reached)
    BY <1>2 DEF PublishSettles
  <2> QED
    BY <1>1, <2>1, <2>2, <2>3, RunsOn DEF Busy
<1>3. CASE RecordVerdict(w) \/ RecordFailure(w)
  <2>1. /\ run' = [run EXCEPT ![w] = run'[w]]
        /\ run'[w].list = run[w].list /\ run'[w].step = "next"
    <3>1. run' = [run EXCEPT ![w].step = "next"]
      BY <1>3 DEF RecordVerdict, RecordFailure, RunGoesTo
    <3>2. run \in [Runs -> RunState]
      BY DEF TypeOK
    <3> QED
      BY <3>1, <3>2 DEF RunState
  <2>2. run[w].current \in Copy /\ (run[w].step = "record" => run[w].verdict \in Verdicts)
    BY <1>3 DEF RecordVerdict, RecordFailure, TypeOK, Equipped
  <2>3. run[w].current.post \in Posts
    BY <2>2 DEF Copy
  <2>4. /\ row'[run[w].current.post].status \notin {"absent", "PENDING"}
        /\ \A p \in Posts \ {run[w].current.post} : row'[p] = row[p]
    <3>1. CASE RecordVerdict(w)
      <4>1. ScheduleStatusOf(run[w].verdict) \notin {"absent", "PENDING"}
        BY <2>2, <3>1, ScheduleStatusType DEF RecordVerdict
      <4> DEFINE q == run[w].current.post
                 status == ScheduleStatusOf(run[w].verdict)
      <4>2. row' = [row EXCEPT ![q].status = status, ![q].verdict = run[w].verdict]
        BY <3>1 DEF RecordVerdict
      <4>3. row \in [Posts -> Row] /\ q \in Posts /\ status \notin {"absent", "PENDING"}
        BY <2>3, <4>1 DEF TypeOK
      <4> HIDE DEF q, status
      <4>4. row'[q].status = status
        BY <4>2, <4>3 DEF Row
      <4>5. \A p \in Posts \ {q} : row'[p] = row[p]
        BY <4>2, <4>3
      <4> QED
        BY <4>3, <4>4, <4>5 DEF q
    <3>2. CASE RecordFailure(w)
      BY <2>3, <3>2 DEF RecordFailure, TypeOK, Row
    <3> QED
      BY <1>3, <3>1, <3>2
  <2> QED
    BY <1>1, <1>3, <2>1, <2>4, RunsOn DEF RecordVerdict, RecordFailure, Busy
<1>4. CASE RunEnds(w) \/ RecordFailureFails(w) \/ Crash(w)
  <2>1. /\ run' = [run EXCEPT ![w] = run'[w]]
        /\ run'[w].list = {} /\ run'[w].step = "idle" /\ UNCHANGED row
    BY <1>4 DEF RunEnds, RecordFailureFails, Crash, IdleRun, TypeOK
  <2>2. \/ UNCHANGED attempts
        \/ run[w].step = "publish" /\ \E reached \in SUBSET Targets : Attempts(w, reached)
    BY <1>4 DEF RunEnds, RecordFailureFails, Crash
  <2> QED
    BY <1>1, <2>1, <2>2, RunsOn DEF Busy
<1>5. CASE PublishThrows(w) \/ RecordVerdictFails(w)
  <2>1. /\ run' = [run EXCEPT ![w] = run'[w]]
        /\ run'[w].list = run[w].list /\ run'[w].current = run[w].current
        /\ run'[w].step = "fail" /\ UNCHANGED row /\ run[w].step \in Busy
    BY <1>5 DEF PublishThrows, RecordVerdictFails, RunGoesTo, TypeOK, RunState, Busy
  <2>2. \/ UNCHANGED attempts
        \/ run[w].step = "publish" /\ \E reached \in SUBSET Targets : Attempts(w, reached)
    BY <1>5 DEF PublishThrows, RecordVerdictFails
  <2> QED
    BY <1>1, <2>1, <2>2, RunsOn
<1>6. CASE MarkFails(w)
  <2>1. PICK copy \in run[w].list : Take(w, copy, "fail")
    BY <1>6 DEF MarkFails
  <2>2. /\ run'[w].step = "fail" /\ run'[w].current = copy
        /\ run'[w].list = run[w].list \ {copy}
        /\ \A v \in Runs \ {w} : run'[v] = run[v]
        /\ UNCHANGED <<row, attempts>>
    BY <1>6, <2>1 DEF MarkFails, Take, TypeOK, RunState
  <2>3. ASSUME NEW v \in Runs PROVE OwnList(v)'
    <3>1. OwnList(v)
      BY DEF OnceInv
    <3>2. CASE v = w
      BY <2>2, <3>1, <3>2 DEF OwnList
    <3>3. CASE v # w
      BY <2>2, <3>1, <3>3 DEF OwnList
    <3> QED
      BY <3>2, <3>3
  <2>4. /\ PendingIsUntouched' /\ OneAttemptPerRun'
        /\ \A v \in Runs, p \in Posts : Spent(v, p)'
    BY <2>2 DEF OnceInv, PendingIsUntouched, OneAttemptPerRun, Spent
  <2> QED
    BY <2>3, <2>4 DEF OnceInv
<1> QED
  BY <1>2, <1>3, <1>4, <1>5, <1>6, ListOnce, MarkOnce DEF RunStep, RunFault

LEMMA NextOnce == TypeOK /\ TypeOK' /\ OnceInv /\ [Next]_vars => OnceInv'
<1> SUFFICES ASSUME TypeOK, TypeOK', OnceInv, [Next]_vars PROVE OnceInv'
  OBVIOUS
<1>1. CASE UNCHANGED <<row, run, attempts>>
  BY <1>1 DEF OnceInv, PendingIsUntouched, OneAttemptPerRun, OwnList, Spent
<1> QED
  BY <1>1, RequestOnce, RunOnce DEF Next, AdvanceTime, vars

(* No run publishes a post twice, for any number of posts, runs, requests  *)
(* and crashes.                                                            *)
THEOREM RunsPublishOnce == Spec => []OneAttemptPerRun
<1>1. OnceInv => OneAttemptPerRun
  BY DEF OnceInv
<1> QED
  BY <1>1, InitOnce, NextOnce, TypeCorrect, PTL DEF Spec

(* A post shown as PENDING has never been handed to the publisher. *)
THEOREM PendingUntouched == Spec => []PendingIsUntouched
<1>1. OnceInv => PendingIsUntouched
  BY DEF OnceInv
<1> QED
  BY <1>1, InitOnce, NextOnce, TypeCorrect, PTL DEF Spec

(* With a single run at a time, no post is published twice. *)
COROLLARY AtMostOnce ==
  ASSUME NEW w, Runs = {w}
  PROVE  Spec => [](\A p \in Posts : Len(attempts[p]) <= 1)
<1>1. TypeOK /\ OneAttemptPerRun => \A p \in Posts : Len(attempts[p]) <= 1
  <2> SUFFICES ASSUME TypeOK, OneAttemptPerRun, NEW p \in Posts, Len(attempts[p]) > 1
               PROVE  FALSE
    BY DEF TypeOK
  <2>1. attempts[p] \in Seq(Attempt)
    BY DEF TypeOK
  <2>2. 1 \in 1..Len(attempts[p]) /\ 2 \in 1..Len(attempts[p])
    BY <2>1
  <2>3. attempts[p][1] \in Attempt /\ attempts[p][2] \in Attempt
    BY <2>1, <2>2
  <2>4. attempts[p][1].by = w /\ attempts[p][2].by = w
    BY <2>3 DEF Attempt
  <2> QED
    BY <2>2, <2>4 DEF OneAttemptPerRun
<1> QED
  BY <1>1, TypeCorrect, RunsPublishOnce, PTL

-----------------------------------------------------------------------------
(* What is published is what the row says. *)

(* The columns a copy is made of do not change. *)
SameWords(p) ==
  row'[p].content = row[p].content /\ MediaOf(row'[p]) = MediaOf(row[p])

LEMMA InitShown == Init => ShownInv
BY DEF Init, ShownInv, PublishedAsRead, IdleRun

(* A request that changes the words of a row does it either to a new row,  *)
(* which no list holds, or counts the post as changed too late, or meets a *)
(* PENDING row that no run has listed.                                     *)
LEMMA RequestShown ==
  ASSUME TypeOK, OnceInv, ShownInv, NEW c \in Clients, RequestStep(c)
  PROVE  ShownInv'
<1> DEFINE Safe(p) ==
             \/ p \in late'
             \/ SameWords(p)
             \/ /\ attempts[p] = <<>>
                /\ \A w \in Runs :
                     /\ \A x \in run[w].list : x.post # p
                     /\ run[w].step = "publish" => run[w].current.post # p
<1>1. ASSUME NEW p \in Posts, row[p].status = "absent"
      PROVE  Safe(p)
  <2>1. attempts[p] = <<>>
    BY <1>1 DEF OnceInv, PendingIsUntouched
  <2>2. \A w \in Runs : run[w].step = "publish" => run[w].current.post # p
    BY <1>1 DEF OnceInv, PendingIsUntouched
  <2>3. \A w \in Runs : \A x \in run[w].list : x.post # p
    BY <1>1 DEF ShownInv
  <2> QED
    BY <2>1, <2>2, <2>3
<1>2. ASSUME NEW p \in Posts, p \notin TooLate(p)
      PROVE  Safe(p)
  <2>1. row[p].status = "PENDING" /\ \A w \in Runs : ~Listed(w, p)
    BY <1>2 DEF TooLate
  <2> QED
    BY <2>1 DEF Listed, OnceInv, PendingIsUntouched
<1> DEFINE Quiet ==
             /\ UNCHANGED <<run, attempts>>
             /\ late \subseteq late'
             /\ \A p \in Posts :
                  /\ row'[p].status = "absent" => row[p].status = "absent"
                  /\ Safe(p)
<1>3. Quiet
  <2> USE DEF TypeOK
  <2>1. ASSUME NEW p \in Posts, NEW content \in Contents, NEW time \in Times,
               Schedule(c, p, content, time)
        PROVE  Quiet
    <3>1. \A q \in Posts \ {p} : row'[q] = row[q]
      BY <2>1 DEF Schedule
    <3>2. row'[p].status # "absent" /\ row[p].status = "absent"
      BY <2>1 DEF Schedule, Absent
    <3>3. UNCHANGED <<run, attempts, late>>
      BY <2>1 DEF Schedule
    <3>4. \A q \in Posts \ {p} : SameWords(q)
      BY <3>1 DEF SameWords, MediaOf
    <3> QED
      BY <1>1, <3>1, <3>2, <3>3, <3>4
  <2>2. CASE AttachMedia(c) \/ ApplyEdit(c)
    <3> DEFINE p == request[c].post
    <3>1. p \in Posts
      BY <2>2 DEF AttachMedia, ApplyEdit
    <3>2. UNCHANGED <<run, attempts>> /\ late' = late \cup TooLate(p)
      BY <2>2 DEF AttachMedia, ApplyEdit
    <3>3. row'[p].status = row[p].status
      <4>1. row[p] \in Row
        BY <3>1
      <4>2. CASE AttachMedia(c)
        BY <3>1, <4>1, <4>2 DEF AttachMedia, Row
      <4>3. CASE ApplyEdit(c)
        <5>1. row'[p] = Edited(row[p], request[c].edit)
          BY <3>1, <4>3 DEF ApplyEdit
        <5> QED
          BY <4>1, <5>1 DEF Edited, Row
      <4> QED
        BY <2>2, <4>2, <4>3
    <3>4. \A q \in Posts \ {p} : row'[q] = row[q]
      BY <2>2 DEF AttachMedia, ApplyEdit
    <3> HIDE DEF p
    <3>5. \A q \in Posts \ {p} : SameWords(q)
      BY <3>4 DEF SameWords, MediaOf
    <3>6. Safe(p)
      BY <1>2, <3>1, <3>2 DEF TooLate
    <3> QED
      BY <3>1, <3>2, <3>3, <3>4, <3>5, <3>6
  <2>3. CASE ApplyCancel(c)
    <3>1. UNCHANGED <<run, attempts, late>>
      BY <2>3 DEF ApplyCancel
    <3>2. \A q \in Posts : SameWords(q) /\ (row'[q].status = "absent" => row[q].status = "absent")
      BY <2>3 DEF ApplyCancel, SameWords, MediaOf, Row
    <3> QED
      BY <3>1, <3>2
  <2>4. CASE UNCHANGED <<row, run, attempts, late>>
    BY <2>4 DEF SameWords, MediaOf
  <2> QED
    BY <2>1, <2>2, <2>3, <2>4 DEF RequestStep, BeginEdit, BeginCancel, RequestFails
<1> HIDE DEF Safe
<1>4. UNCHANGED <<run, attempts>> /\ late \subseteq late'
  BY <1>3
<1>5. \A p \in Posts : Safe(p) /\ (row'[p].status = "absent" => row[p].status = "absent")
  BY <1>3
<1>6. PublishedAsRead'
  BY <1>4, <1>5 DEF Safe, ShownInv, PublishedAsRead, SameWords
<1>7. ASSUME NEW w \in Runs, NEW x \in run[w].list
      PROVE  Fresh(x)' /\ row'[x.post].status # "absent"
  <2>1. x.post \in Posts /\ Fresh(x) /\ row[x.post].status # "absent"
    BY DEF TypeOK, RunState, Copy, ShownInv
  <2> QED
    BY <1>4, <1>5, <2>1 DEF Safe, Fresh, SameWords
<1>8. ASSUME NEW w \in Runs, run[w].step = "publish"
      PROVE  Fresh(run[w].current)'
  <2>1. run[w].current.post \in Posts /\ Fresh(run[w].current)
    BY <1>8 DEF TypeOK, Equipped, Copy, ShownInv
  <2> QED
    BY <1>4, <1>5, <1>8, <2>1 DEF Safe, Fresh, SameWords
<1> QED
  BY <1>4, <1>6, <1>7, <1>8 DEF ShownInv

(* A step of a run changes no words; it publishes the copy in its hands,   *)
(* and takes the next one from its list.                                   *)
LEMMA RunShown ==
  ASSUME TypeOK, OnceInv, ShownInv, NEW w \in Runs,
         UNCHANGED late,
         \A p \in Posts : /\ SameWords(p)
                          /\ row'[p].status = "absent" => row[p].status = "absent",
         \A v \in Runs \ {w} : run'[v] = run[v],
         run'[w].list \in SUBSET run[w].list,
         run'[w].step = "publish" => run'[w].current \in run[w].list,
         \/ UNCHANGED attempts
         \/ run[w].step = "publish" /\ \E reached \in SUBSET Targets : Attempts(w, reached)
  PROVE  ShownInv'
<1>1. ASSUME NEW x \in Copy, Fresh(x) PROVE Fresh(x)'
  BY <1>1 DEF Fresh, SameWords, Copy
<1>2. \A v \in Runs : \A x \in run[v].list : x \in Copy /\ Fresh(x) /\ row[x.post].status # "absent"
  BY DEF TypeOK, RunState, ShownInv
<1>3. \A v \in Runs : \A x \in run[v].list : x.post \in Posts
  BY <1>2 DEF Copy
<1>4. \A v \in Runs : \A x \in run'[v].list : Fresh(x)' /\ row'[x.post].status # "absent"
  BY <1>1, <1>2, <1>3
<1>5. ASSUME NEW v \in Runs
      PROVE  (run[v].step = "publish" => Fresh(run[v].current))'
  <2> SUFFICES ASSUME run'[v].step = "publish" PROVE Fresh(run[v].current)'
    OBVIOUS
  <2>1. \E x \in Copy : Fresh(x) /\ run'[v].current = x
    <3>1. CASE v = w
      BY <1>2, <3>1
    <3>2. CASE v # w
      BY <3>2 DEF TypeOK, Equipped, ShownInv
    <3> QED
      BY <3>1, <3>2
  <2>2. PICK x \in Copy : Fresh(x) /\ run'[v].current = x
    BY <2>1
  <2>3. Fresh(x)'
    BY <1>1, <2>2
  <2> QED
    BY <2>2, <2>3 DEF Fresh
<1>6. PublishedAsRead'
  <2>1. CASE UNCHANGED attempts
    BY <2>1 DEF ShownInv, PublishedAsRead, SameWords
  <2>2. CASE run[w].step = "publish" /\ \E reached \in SUBSET Targets : Attempts(w, reached)
    <3>1. PICK reached \in SUBSET Targets : Attempts(w, reached)
      BY <2>2
    <3> DEFINE copy == run[w].current
               new == [by |-> w, content |-> copy.content,
                       media |-> copy.media, reached |-> reached]
    <3>2. copy \in Copy /\ copy.post \in Posts /\ Fresh(copy)
      BY <2>2 DEF TypeOK, Equipped, Copy, ShownInv
    <3>3. new \in Attempt
      BY <3>2 DEF Copy, Attempt
    <3>4. new.content = copy.content /\ new.media = copy.media
      OBVIOUS
    <3>5. attempts' = [attempts EXCEPT ![copy.post] = Append(attempts[copy.post], new)]
      BY <3>1 DEF Attempts
    <3>6. attempts \in [Posts -> Seq(Attempt)]
      BY DEF TypeOK
    <3> HIDE DEF copy, new
    <3> SUFFICES ASSUME NEW p \in Posts \ late, NEW i \in 1..Len(attempts'[p])
                 PROVE  /\ attempts'[p][i].content = row[p].content
                        /\ attempts'[p][i].media = MediaOf(row[p])
      BY DEF PublishedAsRead, SameWords
    <3>7. CASE p = copy.post
      <4>1. attempts'[p] = Append(attempts[p], new) /\ attempts[p] \in Seq(Attempt)
        BY <3>2, <3>5, <3>6, <3>7
      <4>2. CASE i = Len(attempts[p]) + 1
        BY <3>2, <3>3, <3>4, <3>7, <4>1, <4>2 DEF Fresh
      <4>3. CASE i # Len(attempts[p]) + 1
        <5>1. i \in 1..Len(attempts[p]) /\ attempts'[p][i] = attempts[p][i]
          BY <3>3, <4>1, <4>3
        <5> QED
          BY <5>1 DEF ShownInv, PublishedAsRead
      <4> QED
        BY <4>2, <4>3
    <3>8. CASE p # copy.post
      BY <3>5, <3>6, <3>8 DEF ShownInv, PublishedAsRead
    <3> QED
      BY <3>7, <3>8
  <2> QED
    BY <2>1, <2>2
<1> QED
  BY <1>4, <1>5, <1>6 DEF ShownInv

(* The copies a run lists are fresh. *)
LEMMA ListShown ==
  ASSUME TypeOK, ShownInv, NEW w \in Runs, ListDue(w)
  PROVE  ShownInv'
<1> DEFINE copies == {CopyOf(p) : p \in Due}
<1>1. /\ UNCHANGED <<row, attempts, late>>
      /\ run'[w].step = "next" /\ run'[w].list = copies
      /\ \A v \in Runs \ {w} : run'[v] = run[v]
  BY DEF ListDue, IdleRun, TypeOK
<1>2. \A x \in copies : Fresh(x) /\ row[x.post].status # "absent"
  BY DEF CopyOf, Due, Fresh
<1> HIDE DEF copies
<1> QED
  BY <1>1, <1>2 DEF ShownInv, PublishedAsRead, Fresh

LEMMA NextShown == TypeOK /\ OnceInv /\ ShownInv /\ [Next]_vars => ShownInv'
<1> SUFFICES ASSUME TypeOK, OnceInv, ShownInv, [Next]_vars PROVE ShownInv'
  OBVIOUS
<1>1. CASE UNCHANGED <<row, run, attempts, late>>
  BY <1>1 DEF ShownInv, PublishedAsRead, Fresh
<1>2. ASSUME NEW w \in Runs, RunStep(w) \/ RunFault(w) PROVE ShownInv'
  <2> USE DEF TypeOK, RunState
  <2> DEFINE SameRows == \A p \in Posts :
               /\ SameWords(p)
               /\ row'[p].status = "absent" => row[p].status = "absent"
             Shrinks ==
               /\ UNCHANGED late
               /\ \A v \in Runs \ {w} : run'[v] = run[v]
               /\ run'[w].list \in SUBSET run[w].list
               /\ run'[w].step = "publish" => run'[w].current \in run[w].list
             Attempted ==
               \/ UNCHANGED attempts
               \/ /\ run[w].step = "publish"
                  /\ \E reached \in SUBSET Targets : Attempts(w, reached)
  <2>1. CASE MarkProcessing(w)
    <3>1. PICK copy \in run[w].list :
            /\ row' = [row EXCEPT ![copy.post].status = "PROCESSING"]
            /\ Take(w, copy, "publish")
      BY <2>1 DEF MarkProcessing
    <3>2. SameRows
      BY <3>1 DEF SameWords, MediaOf, Row
    <3>3. Shrinks /\ UNCHANGED attempts
      BY <2>1, <3>1 DEF MarkProcessing, Take
    <3> QED
      BY <3>2, <3>3, RunShown
  <2>2. CASE MarkFails(w)
    <3>1. PICK copy \in run[w].list : Take(w, copy, "fail")
      BY <2>2 DEF MarkFails
    <3>2. Shrinks /\ UNCHANGED <<row, attempts>>
      BY <2>2, <3>1 DEF MarkFails, Take
    <3>3. SameRows
      BY <3>2 DEF SameWords, MediaOf
    <3> QED
      BY <3>2, <3>3, RunShown
  <2>3. CASE PublishSettles(w)
    <3>1. PICK verdict : run' = [run EXCEPT ![w].step = "record", ![w].verdict = verdict]
      BY <2>3 DEF PublishSettles
    <3>0. run \in [Runs -> RunState]
      BY DEF TypeOK
    <3>2. run'[w].list = run[w].list /\ run'[w].step = "record"
      BY <3>0, <3>1 DEF RunState
    <3>3. \A v \in Runs \ {w} : run'[v] = run[v]
      BY <3>0, <3>1
    <3>4. UNCHANGED <<row, late>> /\ Attempted
      BY <2>3 DEF PublishSettles
    <3>5. SameRows
      BY <3>4 DEF SameWords, MediaOf
    <3> QED
      BY <3>2, <3>3, <3>4, <3>5, RunShown
  <2>4. CASE RecordVerdict(w) \/ RecordFailure(w)
    <3>0. run' = [run EXCEPT ![w].step = "next"] \/ run' = [run EXCEPT ![w].step = "fail"]
      BY <2>4 DEF RecordVerdict, RecordFailure, RunGoesTo
    <3>a. UNCHANGED <<late, attempts>>
      BY <2>4 DEF RecordVerdict, RecordFailure
    <3>b. run \in [Runs -> RunState]
      BY DEF TypeOK
    <3>c. \A v \in Runs \ {w} : run'[v] = run[v]
      BY <3>0, <3>b
    <3>d. run'[w].list = run[w].list /\ run'[w].step # "publish"
      BY <3>0, <3>b DEF RunState
    <3>1. Shrinks /\ UNCHANGED attempts
      BY <3>a, <3>c, <3>d
    <3>2. SameRows
      <4> DEFINE q == run[w].current.post
      <4>1. CASE RecordVerdict(w)
        <5> DEFINE status == ScheduleStatusOf(run[w].verdict)
        <5>1. status # "absent"
          BY DEF ScheduleStatusOf
        <5>2. row' = [row EXCEPT ![q].status = status, ![q].verdict = run[w].verdict]
          BY <4>1 DEF RecordVerdict
        <5> HIDE DEF q, status
        <5> QED
          BY <5>1, <5>2 DEF SameWords, MediaOf, Row
      <4>2. CASE RecordFailure(w)
        <5>1. row' = [row EXCEPT ![q].status = "FAILED", ![q].error = TRUE]
          BY <4>2 DEF RecordFailure
        <5> HIDE DEF q
        <5> QED
          BY <5>1 DEF SameWords, MediaOf, Row
      <4> QED
        BY <2>4, <4>1, <4>2
    <3> QED
      BY <3>1, <3>2, RunShown
  <2>5. CASE RunEnds(w) \/ RecordFailureFails(w) \/ Crash(w)
    <3>1. UNCHANGED <<row, late>> /\ Attempted /\ run' = [run EXCEPT ![w] = IdleRun]
      BY <2>5 DEF RunEnds, RecordFailureFails, Crash
    <3>2. Shrinks
      BY <3>1 DEF IdleRun
    <3>3. SameRows
      BY <3>1 DEF SameWords, MediaOf
    <3> QED
      BY <3>1, <3>2, <3>3, RunShown
  <2>6. CASE PublishThrows(w) \/ RecordVerdictFails(w)
    <3>1. UNCHANGED <<row, late>> /\ Attempted /\ run' = [run EXCEPT ![w].step = "fail"]
      BY <2>6 DEF PublishThrows, RecordVerdictFails, RunGoesTo
    <3>2. Shrinks
      BY <3>1
    <3>3. SameRows
      BY <3>1 DEF SameWords, MediaOf
    <3> QED
      BY <3>1, <3>2, <3>3, RunShown
  <2> QED
    BY <1>2, <2>1, <2>2, <2>3, <2>4, <2>5, <2>6, ListShown DEF RunStep, RunFault
<1> QED
  BY <1>1, <1>2, RequestShown DEF Next, AdvanceTime, vars

(* The media of a row, as a run reads them. *)
LEMMA MediaAreShown == \A r \in Row : MediaShown(MediaOf(r), r)
BY DEF MediaShown, MediaOf, Row

(* What a run publishes has the row's content, and its stored media or,    *)
(* where none were stored, those an edit named, for any number of runs and *)
(* requests, unless a request changed the row after a run had listed it.   *)
THEOREM ShownIsPublished == Spec => []PublishedAsShown
<1>1. TypeOK /\ ShownInv => PublishedAsShown
  BY MediaAreShown DEF ShownInv, PublishedAsRead, PublishedAsShown, TypeOK
<1>2. Init /\ TypeOK => OnceInv /\ ShownInv
  BY InitOnce, InitShown
<1>3. (TypeOK /\ OnceInv /\ ShownInv) /\ TypeOK' /\ [Next]_vars => (OnceInv /\ ShownInv)'
  BY NextOnce, NextShown
<1> QED
  BY <1>1, <1>2, <1>3, TypeCorrect, PTL DEF Spec

(* The steps of a run touch no other run; only its query lengthens its     *)
(* list, and what it works on comes from its list.                         *)
LEMMA OnlyItsRun ==
  ASSUME TypeOK, NEW w \in Runs, RunStep(w) \/ RunFault(w)
  PROVE  \A v \in Runs \ {w} : run'[v] = run[v]
<1>1. run \in [Runs -> RunState]
  BY DEF TypeOK
<1>2. run' = [run EXCEPT ![w] = run'[w]]
  BY <1>1 DEF RunStep, RunFault, ListDue, MarkProcessing, PublishSettles, RecordVerdict,
     RecordFailure, RunEnds, MarkFails, PublishThrows, RecordVerdictFails,
     RecordFailureFails, Crash, Take, RunGoesTo
<1> QED
  BY <1>1, <1>2

LEMMA ListsShrink ==
  ASSUME TypeOK, NEW w \in Runs, RunStep(w) \/ RunFault(w), ~ListDue(w)
  PROVE  run'[w].list \in SUBSET run[w].list
<1> USE DEF RunState
<1>1. run \in [Runs -> RunState]
  BY DEF TypeOK
<1>2. CASE MarkProcessing(w) \/ MarkFails(w)
  <2>1. PICK copy \in run[w].list, step \in RunSteps : Take(w, copy, step)
    BY <1>2 DEF MarkProcessing, MarkFails, RunSteps
  <2> QED
    BY <1>1, <2>1 DEF Take
<1>3. CASE PublishSettles(w)
  <2>1. PICK verdict : run' = [run EXCEPT ![w].step = "record", ![w].verdict = verdict]
    BY <1>3 DEF PublishSettles
  <2> QED
    BY <1>1, <2>1
<1>4. CASE RecordVerdict(w) \/ RecordFailure(w) \/ PublishThrows(w) \/ RecordVerdictFails(w)
  <2>1. PICK step : run' = [run EXCEPT ![w].step = step]
    BY <1>4 DEF RecordVerdict, RecordFailure, PublishThrows, RecordVerdictFails, RunGoesTo
  <2> QED
    BY <1>1, <2>1
<1>5. CASE RunEnds(w) \/ RecordFailureFails(w) \/ Crash(w)
  <2>1. run' = [run EXCEPT ![w] = IdleRun]
    BY <1>5 DEF RunEnds, RecordFailureFails, Crash
  <2> QED
    BY <1>1, <2>1 DEF IdleRun
<1> QED
  BY <1>2, <1>3, <1>4, <1>5 DEF RunStep, RunFault

LEMMA HandFromList ==
  ASSUME TypeOK, NEW w \in Runs, RunStep(w) \/ RunFault(w),
         run'[w].step \in {"publish", "record", "fail"}
  PROVE  \/ run'[w].current \in run[w].list
         \/ /\ run[w].step \in {"publish", "record", "fail"}
            /\ run'[w].current = run[w].current
<1> USE DEF RunState
<1>1. run \in [Runs -> RunState]
  BY DEF TypeOK
<1>2. CASE MarkProcessing(w) \/ MarkFails(w)
  <2>1. PICK copy \in run[w].list, step \in RunSteps : Take(w, copy, step)
    BY <1>2 DEF MarkProcessing, MarkFails, RunSteps
  <2> QED
    BY <1>1, <2>1 DEF Take
<1>3. CASE PublishSettles(w)
  <2>1. PICK verdict : run' = [run EXCEPT ![w].step = "record", ![w].verdict = verdict]
    BY <1>3 DEF PublishSettles
  <2> QED
    BY <1>1, <1>3, <2>1 DEF PublishSettles
<1>4. CASE PublishThrows(w) \/ RecordVerdictFails(w)
  <2>1. run' = [run EXCEPT ![w].step = "fail"]
    BY <1>4 DEF PublishThrows, RecordVerdictFails, RunGoesTo
  <2> QED
    BY <1>1, <1>4, <2>1 DEF PublishThrows, RecordVerdictFails
<1>5. CASE RecordVerdict(w) \/ RecordFailure(w)
  <2>1. run' = [run EXCEPT ![w].step = "next"]
    BY <1>5 DEF RecordVerdict, RecordFailure, RunGoesTo
  <2> QED
    BY <1>1, <2>1
<1>6. CASE RunEnds(w) \/ RecordFailureFails(w) \/ Crash(w)
  <2>1. run' = [run EXCEPT ![w] = IdleRun]
    BY <1>6 DEF RunEnds, RecordFailureFails, Crash
  <2> QED
    BY <1>1, <2>1 DEF IdleRun
<1>7. CASE ListDue(w)
  BY <1>1, <1>7 DEF ListDue, IdleRun
<1> QED
  BY <1>2, <1>3, <1>4, <1>5, <1>6, <1>7 DEF RunStep, RunFault

(* A cancellation that no run has overtaken holds for ever: only a post in *)
(* the list of a run is published, and only a PENDING post is listed.      *)
THEOREM CancellationHolds == Spec => CancelHolds
<1>1. TypeOK /\ [Next]_vars =>
        [\A p \in Posts :
           Withdrawn(p) => Withdrawn(p)' /\ attempts'[p] = attempts[p]]_vars
  <2> SUFFICES ASSUME TypeOK, Next, NEW p \in Posts, row[p].status = "CANCELLED",
                      \A w \in Runs : ~Listed(w, p)
               PROVE  /\ \A w \in Runs : ~Listed(w, p)'
                      /\ attempts'[p] = attempts[p] /\ row'[p].status = "CANCELLED"
    BY DEF Withdrawn
  <2> USE DEF TypeOK
  <2>1. ASSUME NEW w \in Runs, RunStep(w) \/ RunFault(w)
        PROVE  /\ \A v \in Runs : ~Listed(v, p)'
               /\ attempts'[p] = attempts[p] /\ row'[p].status = "CANCELLED"
    <3>1. \A copy \in run[w].list : copy.post # p
      BY DEF Listed
    <3>2. run[w].step \in {"publish", "record", "fail"} =>
            run[w].current.post # p
      BY DEF Listed
    <3>3. \A reached \in SUBSET Targets :
            run[w].step = "publish" /\ Attempts(w, reached) => attempts'[p] = attempts[p]
      BY <3>2 DEF Attempts
    <3>4. attempts'[p] = attempts[p]
      BY <2>1, <3>3 DEF RunStep, RunFault, ListDue, MarkProcessing, PublishSettles,
         RecordVerdict, RecordFailure, RunEnds, MarkFails, PublishThrows,
         RecordVerdictFails, RecordFailureFails, Crash
    <3>5. row'[p] = row[p]
      BY <2>1, <3>1, <3>2 DEF RunStep, RunFault, ListDue, MarkProcessing, PublishSettles,
         RecordVerdict, RecordFailure, RunEnds, MarkFails, PublishThrows,
         RecordVerdictFails, RecordFailureFails, Crash
    <3>6. \A v \in Runs : ~Listed(v, p)'
      <4>1. run \in [Runs -> RunState]
        OBVIOUS
      <4>2. \A v \in Runs \ {w} : run'[v] = run[v]
        BY <2>1, <4>1, OnlyItsRun
      <4>3. \A copy \in run'[w].list : copy.post # p
        <5>1. CASE ListDue(w)
          <6>1. run'[w].list = {CopyOf(q) : q \in Due}
            BY <4>1, <5>1 DEF ListDue, IdleRun
          <6>2. \A q \in Due : CopyOf(q).post = q /\ q # p
            BY DEF CopyOf, Due
          <6> QED
            BY <6>1, <6>2
        <5>2. CASE ~ListDue(w)
          <6>1. run'[w].list \in SUBSET run[w].list
            BY <2>1, <4>1, <5>2, ListsShrink
          <6> QED
            BY <3>1, <6>1
        <5> QED
          BY <5>1, <5>2
      <4>4. run'[w].step \in {"publish", "record", "fail"} => run'[w].current.post # p
        BY <2>1, <3>1, <3>2, <4>1, HandFromList
      <4> QED
        BY <4>2, <4>3, <4>4 DEF Listed
    <3> QED
      BY <3>4, <3>5, <3>6
  <2>2. ASSUME NEW c \in Clients, RequestStep(c)
        PROVE  /\ \A w \in Runs : ~Listed(w, p)'
               /\ attempts'[p] = attempts[p] /\ row'[p].status = "CANCELLED"
    <3>0. UNCHANGED run
      BY <2>2 DEF RequestStep, Schedule, BeginEdit, BeginCancel, AttachMedia, ApplyEdit,
         ApplyCancel, RequestFails
    <3>1. UNCHANGED attempts
      BY <2>2 DEF RequestStep, Schedule, BeginEdit, BeginCancel, AttachMedia, ApplyEdit,
         ApplyCancel, RequestFails
    <3>2. row'[p].status = "CANCELLED"
      <4>1. row[p] \in Row
        OBVIOUS
      <4>2. CASE ApplyEdit(c)
        <5>1. row'[p] = row[p] \/ row'[p] = Edited(row[p], request[c].edit)
          BY <4>2 DEF ApplyEdit
        <5> QED
          BY <4>1, <5>1 DEF Edited, Row
      <4>3. ASSUME NEW q \in Posts, NEW content \in Contents, NEW time \in Times,
                   Schedule(c, q, content, time)
            PROVE  row'[p].status = "CANCELLED"
        <5>1. p # q /\ row'[p] = row[p]
          BY <4>3 DEF Schedule
        <5> QED
          BY <5>1
      <4>4. CASE AttachMedia(c)
        BY <4>1, <4>4 DEF AttachMedia, Row
      <4>5. CASE ApplyCancel(c)
        BY <4>1, <4>5 DEF ApplyCancel, Row
      <4>6. CASE UNCHANGED row
        BY <4>6
      <4> QED
        BY <2>2, <4>2, <4>3, <4>4, <4>5, <4>6
        DEF RequestStep, BeginEdit, BeginCancel, RequestFails
    <3> QED
      BY <3>0, <3>1, <3>2 DEF Listed
  <2>3. CASE AdvanceTime
    BY <2>3 DEF AdvanceTime, Listed
  <2> QED
    BY <2>1, <2>2, <2>3 DEF Next
<1>2. TypeOK /\ UNCHANGED vars =>
        [\A p \in Posts :
           Withdrawn(p) => Withdrawn(p)' /\ attempts'[p] = attempts[p]]_vars
  OBVIOUS
<1> QED
  BY <1>1, <1>2, TypeCorrect, PTL DEF Spec, CancelHolds

-----------------------------------------------------------------------------
(* What the table of scheduled posts says of an outcome: a status is       *)
(* earned by the calls that were made, and with one run at a time it stays *)
(* what it was recorded as.                                                *)

Full(p) == \E i \in 1..Len(attempts[p]) : attempts[p][i].reached = Targets
Partial(p) == \E i \in 1..Len(attempts[p]) : attempts[p][i].reached # {}

(* The calls made for the post give this verdict some ground. *)
Earned(verdict, p) ==
  /\ ScheduleStatusOf(verdict) = "PUBLISHED" => Full(p)
  /\ ScheduleStatusOf(verdict) = "PARTIALLY_PUBLISHED" => Partial(p)

VerdictEarned(w) ==
  run[w].step = "record" => Earned(run[w].verdict, run[w].current.post)

EarnedInv == StatusIsEarned /\ \A w \in Runs : VerdictEarned(w)

(* What the row says of the outcome does not change. *)
Kept(p) ==
  /\ row'[p].status = row[p].status
  /\ row'[p].verdict = row[p].verdict
  /\ row'[p].error = row[p].error

LEMMA NewIsPending ==
  ASSUME NEW content, NEW time
  PROVE  LET r == [Absent EXCEPT !.status = "PENDING", !.content = content, !.time = time]
         IN  r.status = "PENDING" /\ r.verdict = Null
<1>1. Absent.verdict = Null
  BY DEF Absent
<1> QED
  BY <1>1, AbsentIsRow DEF Row

(* A request cancels a post, schedules a new one, or leaves the outcome.   *)
LEMMA RequestRows ==
  ASSUME TypeOK, NEW c \in Clients, RequestStep(c), NEW p \in Posts
  PROVE  /\ UNCHANGED <<run, attempts>>
         /\ \/ Kept(p)
            \/ row'[p].status = "CANCELLED" /\ row'[p].verdict = row[p].verdict
            \/ row[p].status = "absent" /\ row'[p].status = "PENDING" /\ row'[p].verdict = Null
<1>1. UNCHANGED <<run, attempts>>
  BY DEF RequestStep, Schedule, BeginEdit, BeginCancel, AttachMedia, ApplyEdit, ApplyCancel,
     RequestFails
<1>2. row[p] \in Row /\ row \in [Posts -> Row]
  BY DEF TypeOK
<1>3. CASE ApplyEdit(c)
  <2>1. row'[p] = row[p] \/ row'[p] = Edited(row[p], request[c].edit)
    BY <1>2, <1>3 DEF ApplyEdit
  <2>2. LET r == Edited(row[p], request[c].edit) IN
          r.status = row[p].status /\ r.verdict = row[p].verdict /\ r.error = row[p].error
    BY <1>2 DEF Edited, Row
  <2> QED
    BY <1>1, <2>1, <2>2 DEF Kept
<1>4. ASSUME NEW q \in Posts, NEW content \in Contents, NEW time \in Times,
             Schedule(c, q, content, time)
      PROVE  \/ Kept(p)
             \/ row[p].status = "absent" /\ row'[p].status = "PENDING" /\ row'[p].verdict = Null
  <2>1. CASE p = q
    <3>1. /\ row[p].status = "absent"
          /\ row'[p] = [Absent EXCEPT !.status = "PENDING", !.content = content, !.time = time]
      BY <1>2, <1>4, <2>1 DEF Schedule
    <3> QED
      BY <3>1, NewIsPending
  <2>2. CASE p # q
    <3>1. row'[p] = row[p]
      BY <1>2, <1>4, <2>2 DEF Schedule
    <3> QED
      BY <3>1 DEF Kept
  <2> QED
    BY <2>1, <2>2
<1>5. CASE AttachMedia(c)
  BY <1>1, <1>2, <1>5 DEF AttachMedia, Row, Kept
<1>6. CASE ApplyCancel(c)
  BY <1>1, <1>2, <1>6 DEF ApplyCancel, Row, Kept
<1>7. CASE UNCHANGED row
  BY <1>1, <1>7 DEF Kept
<1> QED
  BY <1>1, <1>3, <1>4, <1>5, <1>6, <1>7 DEF RequestStep, BeginEdit, BeginCancel, RequestFails

(* A run marks a post of its list, records a verdict, records a failure,   *)
(* or writes nothing.                                                      *)
LEMMA RunRows ==
  ASSUME TypeOK, NEW w \in Runs, RunStep(w) \/ RunFault(w), NEW p \in Posts
  PROVE  \/ Kept(p)
         \/ /\ row'[p].status = "PROCESSING" /\ row'[p].verdict = row[p].verdict
            /\ MarkProcessing(w) /\ \E x \in run[w].list : x.post = p
         \/ /\ RecordVerdict(w) /\ run[w].step = "record" /\ run[w].current.post = p
            /\ row'[p].status = ScheduleStatusOf(run[w].verdict)
            /\ row'[p].verdict = run[w].verdict
         \/ /\ RecordFailure(w) /\ run[w].step = "fail" /\ run[w].current.post = p
            /\ row'[p].status = "FAILED" /\ row'[p].error /\ row'[p].verdict = row[p].verdict
<1>1. row[p] \in Row /\ row \in [Posts -> Row]
  BY DEF TypeOK
<1>2. CASE MarkProcessing(w)
  <2>1. PICK x \in run[w].list : row' = [row EXCEPT ![x.post].status = "PROCESSING"]
    BY <1>2 DEF MarkProcessing
  <2>2. CASE x.post = p
    BY <1>1, <1>2, <2>1, <2>2 DEF Row
  <2>3. CASE x.post # p
    BY <1>1, <2>1, <2>3 DEF Kept
  <2> QED
    BY <2>2, <2>3
<1>3. CASE RecordVerdict(w)
  <2>1. /\ run[w].step = "record"
        /\ row' = [row EXCEPT ![run[w].current.post].status = ScheduleStatusOf(run[w].verdict),
                              ![run[w].current.post].verdict = run[w].verdict]
    BY <1>3 DEF RecordVerdict
  <2>2. CASE run[w].current.post = p
    BY <1>1, <1>3, <2>1, <2>2 DEF Row
  <2>3. CASE run[w].current.post # p
    BY <1>1, <2>1, <2>3 DEF Kept
  <2> QED
    BY <2>2, <2>3
<1>4. CASE RecordFailure(w)
  <2>1. /\ run[w].step = "fail"
        /\ row' = [row EXCEPT ![run[w].current.post].status = "FAILED",
                              ![run[w].current.post].error = TRUE]
    BY <1>4 DEF RecordFailure
  <2>2. CASE run[w].current.post = p
    BY <1>1, <1>4, <2>1, <2>2 DEF Row
  <2>3. CASE run[w].current.post # p
    BY <1>1, <2>1, <2>3 DEF Kept
  <2> QED
    BY <2>2, <2>3
<1>5. CASE UNCHANGED row
  BY <1>5 DEF Kept
<1> QED
  BY <1>2, <1>3, <1>4, <1>5
  DEF RunStep, RunFault, ListDue, PublishSettles, RunEnds, MarkFails, PublishThrows,
      RecordVerdictFails, RecordFailureFails, Crash

(* A call that was made is never forgotten. *)
LEMMA AttemptsStay ==
  ASSUME TypeOK, [Next]_vars, NEW p \in Posts
  PROVE  (Full(p) => Full(p)') /\ (Partial(p) => Partial(p)')
<1>1. attempts[p] \in Seq(Attempt) /\ attempts \in [Posts -> Seq(Attempt)]
  BY DEF TypeOK
<1>2. attempts'[p] = attempts[p] \/ \E a : attempts'[p] = Append(attempts[p], a)
  <2>1. CASE UNCHANGED attempts
    BY <2>1
  <2>2. ASSUME NEW w \in Runs, NEW reached \in SUBSET Targets, Attempts(w, reached)
        PROVE  attempts'[p] = attempts[p] \/ \E a : attempts'[p] = Append(attempts[p], a)
    BY <1>1, <2>2 DEF Attempts
  <2> QED
    BY <2>1, <2>2, RequestRows
    DEF Next, vars, AdvanceTime, RunStep, RunFault, ListDue, MarkProcessing, PublishSettles,
        RecordVerdict, RecordFailure, RunEnds, MarkFails, PublishThrows, RecordVerdictFails,
        RecordFailureFails, Crash
<1>3. CASE attempts'[p] = attempts[p]
  BY <1>3 DEF Full, Partial
<1>4. ASSUME NEW a, attempts'[p] = Append(attempts[p], a)
      PROVE  (Full(p) => Full(p)') /\ (Partial(p) => Partial(p)')
  <2>1. \A i \in 1..Len(attempts[p]) : i \in 1..Len(attempts'[p]) /\ attempts'[p][i] = attempts[p][i]
    BY <1>1, <1>4
  <2> QED
    BY <2>1 DEF Full, Partial
<1> QED
  BY <1>2, <1>3, <1>4

(* A call that settles earns its verdict. *)
LEMMA SettledIsEarned ==
  ASSUME TypeOK, NEW w \in Runs, PublishSettles(w)
  PROVE  VerdictEarned(w)'
<1> PICK p : p = run[w].current.post
  OBVIOUS
<1>1. run[w].step = "publish" /\ run \in [Runs -> RunState] /\ p \in Posts
  BY DEF PublishSettles, TypeOK, Equipped, Copy
<1>2. attempts[p] \in Seq(Attempt) /\ attempts \in [Posts -> Seq(Attempt)]
  BY <1>1 DEF TypeOK
<1>3. PICK reached \in SUBSET Targets, successes \in SUBSET Targets :
        /\ successes \subseteq reached
        /\ Attempts(w, reached)
        /\ run' = [run EXCEPT ![w].step = "record", ![w].verdict = Verdict(successes, Targets)]
  BY DEF PublishSettles
<1>4. run'[w].verdict = Verdict(successes, Targets) /\ run'[w].current.post = p
  <2> PICK v : v = Verdict(successes, Targets)
    OBVIOUS
  <2>1. run' = [run EXCEPT ![w].step = "record", ![w].verdict = v]
    BY <1>3
  <2>2. run'[w].verdict = v /\ run'[w].current = run[w].current
    BY <1>1, <2>1 DEF RunState
  <2> QED
    BY <2>2
<1>5. PICK a : a.reached = reached /\ attempts'[p] = Append(attempts[p], a)
  BY <1>1, <1>2, <1>3 DEF Attempts
<1>6. Len(attempts[p]) + 1 \in 1..Len(attempts'[p]) /\ attempts'[p][Len(attempts[p]) + 1] = a
  BY <1>2, <1>5
<1>7. (reached = Targets => Full(p)') /\ (reached # {} => Partial(p)')
  BY <1>5, <1>6 DEF Full, Partial
<1>8. /\ ScheduleStatusOf(Verdict(successes, Targets)) = "PUBLISHED" => successes = Targets
      /\ ScheduleStatusOf(Verdict(successes, Targets)) = "PARTIALLY_PUBLISHED" => successes # {}
  BY DEF Verdict, ScheduleStatusOf
<1> PICK v : v = Verdict(successes, Targets)
  OBVIOUS
<1>9. Earned(v, p)'
  BY <1>3, <1>7, <1>8 DEF Earned
<1> QED
  BY <1>4, <1>9 DEF VerdictEarned

(* Only a call that settled leaves a verdict to record. *)
LEMMA VerdictFromCall ==
  ASSUME TypeOK, NEW w \in Runs, RunStep(w) \/ RunFault(w), run'[w].step = "record"
  PROVE  PublishSettles(w)
<1>1. run \in [Runs -> RunState]
  BY DEF TypeOK
<1>2. CASE MarkProcessing(w) \/ MarkFails(w)
  <2>1. PICK x \in run[w].list, step \in {"publish", "fail"} : Take(w, x, step)
    BY <1>2 DEF MarkProcessing, MarkFails
  <2> QED
    BY <1>1, <2>1 DEF Take, RunState
<1>3. CASE RecordVerdict(w) \/ RecordFailure(w) \/ PublishThrows(w) \/ RecordVerdictFails(w)
  <2>1. PICK step \in {"next", "fail"} : run' = [run EXCEPT ![w].step = step]
    BY <1>3 DEF RecordVerdict, RecordFailure, PublishThrows, RecordVerdictFails, RunGoesTo
  <2> QED
    BY <1>1, <2>1 DEF RunState
<1>4. CASE RunEnds(w) \/ RecordFailureFails(w) \/ Crash(w)
  BY <1>1, <1>4 DEF RunEnds, RecordFailureFails, Crash, IdleRun
<1>5. CASE ListDue(w)
  BY <1>1, <1>5 DEF ListDue, IdleRun
<1> QED
  BY <1>2, <1>3, <1>4, <1>5 DEF RunStep, RunFault

LEMMA InitEarned == Init => EarnedInv
BY DEF Init, EarnedInv, VerdictEarned, StatusIsEarned, Absent, Final, IdleRun

LEMMA NextEarned == TypeOK /\ EarnedInv /\ [Next]_vars => EarnedInv'
<1> SUFFICES ASSUME TypeOK, EarnedInv, [Next]_vars PROVE EarnedInv'
  OBVIOUS
<1>1. ASSUME NEW w \in Runs, run[w].step = "record"
      PROVE  \E v, p : /\ v = run[w].verdict /\ p = run[w].current.post /\ p \in Posts
                       /\ Earned(v, p) /\ Earned(v, p)'
  <2> PICK v, p : v = run[w].verdict /\ p = run[w].current.post
    OBVIOUS
  <2>1. Earned(v, p) /\ p \in Posts
    BY <1>1 DEF EarnedInv, VerdictEarned, TypeOK, Equipped, Copy
  <2>2. Earned(v, p)'
    BY <2>1, AttemptsStay DEF Earned
  <2> QED
    BY <2>1, <2>2
<1>2. ASSUME NEW p \in Posts, \/ Kept(p)
                              \/ row'[p].status \notin Final
                              \/ row'[p].status = "FAILED" /\ row'[p].error
      PROVE  /\ row'[p].status = "PUBLISHED" => Full(p)'
             /\ row'[p].status = "PARTIALLY_PUBLISHED" => Partial(p)'
             /\ row'[p].status \in Final =>
                  \/ row'[p].verdict # Null /\ row'[p].status = ScheduleStatusOf(row'[p].verdict)
                  \/ row'[p].status = "FAILED" /\ row'[p].error
  <2>1. CASE Kept(p)
    BY <2>1, AttemptsStay DEF Kept, EarnedInv, StatusIsEarned, Full, Partial
  <2>2. CASE row'[p].status \notin Final
    BY <2>2 DEF Final
  <2>3. CASE row'[p].status = "FAILED" /\ row'[p].error
    BY <2>3
  <2> QED
    BY <1>2, <2>1, <2>2, <2>3
<1>3. ASSUME NEW w \in Runs, RunStep(w) \/ RunFault(w) PROVE EarnedInv'
  <2>1. ASSUME NEW p \in Posts
        PROVE  /\ row'[p].status = "PUBLISHED" => Full(p)'
               /\ row'[p].status = "PARTIALLY_PUBLISHED" => Partial(p)'
               /\ row'[p].status \in Final =>
                    \/ row'[p].verdict # Null /\ row'[p].status = ScheduleStatusOf(row'[p].verdict)
                    \/ row'[p].status = "FAILED" /\ row'[p].error
    <3>1. CASE /\ RecordVerdict(w) /\ run[w].step = "record" /\ run[w].current.post = p
               /\ row'[p].status = ScheduleStatusOf(run[w].verdict)
               /\ row'[p].verdict = run[w].verdict
      <4>1. PICK v : v = run[w].verdict /\ Earned(v, p)'
        BY <1>1, <3>1
      <4>2. v \in Verdicts
        BY <3>1, <4>1 DEF TypeOK, Equipped
      <4>3. v # Null /\ row'[p].status = ScheduleStatusOf(v) /\ row'[p].verdict = v
        BY <3>1, <4>1, <4>2, NullAssumption
      <4> QED
        BY <4>1, <4>3 DEF Earned
    <3>2. CASE ~RecordVerdict(w)
      <4>1. \/ Kept(p) \/ row'[p].status \notin Final
            \/ row'[p].status = "FAILED" /\ row'[p].error
        BY <1>3, <3>2, RunRows DEF Final
      <4> QED
        BY <1>2, <4>1
    <3> QED
      BY <1>2, <1>3, <3>1, <3>2, RunRows DEF Final
  <2>2. ASSUME NEW v \in Runs PROVE VerdictEarned(v)'
    <3>1. CASE v = w /\ run'[w].step = "record"
      BY <1>3, <3>1, VerdictFromCall, SettledIsEarned
    <3>2. CASE v = w /\ run'[w].step # "record"
      BY <3>2 DEF VerdictEarned
    <3>3. CASE v # w
      <4>1. run'[v] = run[v]
        BY <1>3, <3>3, OnlyItsRun
      <4> QED
        BY <1>1, <4>1 DEF VerdictEarned
    <3> QED
      BY <3>1, <3>2, <3>3
  <2> QED
    BY <2>1, <2>2 DEF EarnedInv, StatusIsEarned, Full, Partial
<1>4. ASSUME \A p \in Posts : Kept(p) \/ row'[p].status \notin Final, UNCHANGED run
      PROVE  EarnedInv'
  <2>1. \A v \in Runs : VerdictEarned(v)'
    BY <1>1, <1>4 DEF VerdictEarned
  <2> QED
    BY <1>2, <1>4, <2>1 DEF EarnedInv, StatusIsEarned, Full, Partial
<1>5. ASSUME NEW c \in Clients, RequestStep(c) PROVE EarnedInv'
  <2>1. UNCHANGED run /\ \A p \in Posts : Kept(p) \/ row'[p].status \notin Final
    <3>1. UNCHANGED run
      BY <1>5 DEF RequestStep, Schedule, BeginEdit, BeginCancel, AttachMedia, ApplyEdit,
         ApplyCancel, RequestFails
    <3> QED
      BY <1>5, <3>1, RequestRows DEF Final
  <2> QED
    BY <1>4, <2>1
<1>6. CASE AdvanceTime \/ UNCHANGED vars
  <2>1. UNCHANGED run /\ \A p \in Posts : Kept(p)
    BY <1>6 DEF AdvanceTime, vars, Kept
  <2> QED
    BY <1>4, <2>1
<1> QED
  BY <1>3, <1>5, <1>6 DEF Next

(* A post is only shown as published when a call put it on its targets,    *)
(* for any number of posts, overlapping runs, targets and faults.          *)
THEOREM StatusesAreEarned == Spec => []StatusIsEarned
<1>1. EarnedInv => StatusIsEarned
  BY DEF EarnedInv
<1> QED
  BY <1>1, InitEarned, NextEarned, TypeCorrect, PTL DEF Spec
-----------------------------------------------------------------------------
(* One run at a time. *)

(* The post has no outcome yet. *)
Open(p) == row[p].status \notin Final /\ row[p].verdict = Null
Held(w, p) ==
  \/ \E x \in run[w].list : x.post = p
  \/ run[w].step \in Busy /\ run[w].current.post = p

(* A run only has posts before it, or in its hands, that have no outcome.  *)
OpenInv == \A w \in Runs : \A p \in Posts : Held(w, p) => Open(p)

(* What a run holds after a step it held before, unless it just listed it. *)
LEMMA HeldBefore ==
  ASSUME TypeOK, NEW w \in Runs, RunStep(w) \/ RunFault(w), NEW p \in Posts, Held(w, p)'
  PROVE  Held(w, p) \/ (row[p].status = "PENDING" /\ UNCHANGED row)
<1>1. run \in [Runs -> RunState]
  BY DEF TypeOK
<1>2. CASE \E x \in run'[w].list : x.post = p
  <2>1. CASE ListDue(w)
    <3>1. run'[w].list = {CopyOf(q) : q \in Due}
      BY <1>1, <2>1 DEF ListDue, IdleRun
    <3>2. \A q \in Due : CopyOf(q).post = q
      BY DEF CopyOf
    <3>3. p \in Due /\ UNCHANGED row
      BY <1>2, <2>1, <3>1, <3>2 DEF ListDue
    <3> QED
      BY <3>3 DEF Due
  <2>2. CASE ~ListDue(w)
    <3>1. run'[w].list \in SUBSET run[w].list
      BY <2>2, ListsShrink
    <3> QED
      BY <1>2, <3>1 DEF Held
  <2> QED
    BY <2>1, <2>2
<1>3. CASE run'[w].step \in Busy /\ run'[w].current.post = p
  BY <1>3, HandFromList DEF Held, Busy
<1> QED
  BY <1>2, <1>3 DEF Held

(* Once a verdict or a failure is recorded, the run is done with the post. *)
LEMMA RecordedIsDone ==
  ASSUME TypeOK, OnceInv, NEW w \in Runs, RecordVerdict(w) \/ RecordFailure(w),
         NEW p \in Posts, run[w].current.post = p
  PROVE  ~Held(w, p)'
<1>1. run \in [Runs -> RunState] /\ run[w].step \in Busy
  BY DEF TypeOK, RecordVerdict, RecordFailure, Busy
<1>2. run'[w].list = run[w].list /\ run'[w].step = "next"
  BY <1>1 DEF RecordVerdict, RecordFailure, RunGoesTo, RunState
<1>3. \A x \in run[w].list : x.post # p
  BY <1>1 DEF OnceInv, OwnList
<1> QED
  BY <1>2, <1>3 DEF Held, Busy

LEMMA InitOpen == Init => OpenInv
BY DEF Init, OpenInv, Held, IdleRun, Busy

LEMMA NextOpen ==
  ASSUME NEW w, Runs = {w}
  PROVE  TypeOK /\ OnceInv /\ OpenInv /\ [Next]_vars => OpenInv'
<1> SUFFICES ASSUME TypeOK, OnceInv, OpenInv, [Next]_vars, NEW p \in Posts, Held(w, p)'
             PROVE  Open(p)'
  BY DEF OpenInv
<1>1. w \in Runs /\ (Held(w, p) => Open(p)) /\ (row[p].status = "PENDING" => Open(p))
  BY DEF OpenInv, Open, OnceInv, PendingIsUntouched, Final
<1>2. CASE RunStep(w) \/ RunFault(w)
  <2>1. Open(p)
    <3>1. Held(w, p) \/ row[p].status = "PENDING"
      BY <1>1, <1>2, HeldBefore
    <3> QED
      BY <1>1, <3>1
  <2>2. ~(run[w].current.post = p /\ (RecordVerdict(w) \/ RecordFailure(w)))
    BY <1>1, RecordedIsDone
  <2>3. Kept(p) \/ (row'[p].status = "PROCESSING" /\ row'[p].verdict = row[p].verdict)
    BY <1>1, <1>2, <2>2, RunRows
  <2> QED
    BY <2>1, <2>3 DEF Open, Kept, Final
<1>3. ASSUME NEW c \in Clients, RequestStep(c) PROVE Open(p)'
  <2>1. UNCHANGED run
    BY <1>3, RequestRows
  <2>2. Open(p)
    BY <1>1, <2>1 DEF Held
  <2> QED
    BY <1>3, <2>2, RequestRows DEF Open, Kept, Final
<1>4. CASE AdvanceTime \/ UNCHANGED vars
  BY <1>1, <1>4 DEF AdvanceTime, vars, Held, Open
<1> QED
  BY <1>2, <1>3, <1>4 DEF Next

LEMMA NextStands ==
  ASSUME NEW w, Runs = {w}
  PROVE  TypeOK /\ OnceInv /\ OpenInv /\ [Next]_vars =>
           [\A p \in Posts :
              /\ row[p].verdict # Null => row'[p].verdict = row[p].verdict
              /\ row[p].status \in Final => row'[p].status \in {row[p].status, "CANCELLED"}]_vars
<1> SUFFICES ASSUME TypeOK, OnceInv, OpenInv, Next, NEW p \in Posts, ~Open(p)
             PROVE  /\ row[p].verdict # Null => row'[p].verdict = row[p].verdict
                    /\ row[p].status \in Final => row'[p].status \in {row[p].status, "CANCELLED"}
  BY DEF Open
<1>1. w \in Runs /\ ~Held(w, p) /\ row[p].status # "absent"
  BY DEF OpenInv, Open, OnceInv, PendingIsUntouched, Final
<1>2. Kept(p) \/ (row'[p].status = "CANCELLED" /\ row'[p].verdict = row[p].verdict)
  <2>1. CASE RunStep(w) \/ RunFault(w)
    BY <1>1, <2>1, RunRows DEF Held, Busy
  <2>2. ASSUME NEW c \in Clients, RequestStep(c)
        PROVE  Kept(p) \/ (row'[p].status = "CANCELLED" /\ row'[p].verdict = row[p].verdict)
    BY <1>1, <2>2, RequestRows
  <2>3. CASE AdvanceTime
    BY <2>3 DEF AdvanceTime, Kept
  <2> QED
    BY <2>1, <2>2, <2>3 DEF Next
<1> QED
  BY <1>2 DEF Kept

(* With one run at a time, results are written once, and a status that     *)
(* tells the outcome is only ever overwritten by a cancellation: for any   *)
(* number of posts, requests and faults.                                   *)
COROLLARY OutcomesStand ==
  ASSUME NEW w, Runs = {w}
  PROVE  Spec => OutcomeStands
<1>1. Init => OnceInv /\ OpenInv
  BY InitOnce, InitOpen
<1>2. TypeOK /\ TypeOK' /\ OnceInv /\ OpenInv /\ [Next]_vars => OnceInv' /\ OpenInv'
  BY NextOnce, NextOpen
<1>3. TypeOK /\ OnceInv /\ OpenInv /\ [Next]_vars =>
        [\A p \in Posts :
           /\ row[p].verdict # Null => row'[p].verdict = row[p].verdict
           /\ row[p].status \in Final => row'[p].status \in {row[p].status, "CANCELLED"}]_vars
  BY NextStands
<1> QED
  BY <1>1, <1>2, <1>3, TypeCorrect, PTL DEF Spec, OutcomeStands
-------------------------------------------------------------------------------
(* Who holds a post that is shown as PROCESSING. *)

InHand(w, p) == run[w].step \in Busy /\ run[w].current.post = p

(* A post shown as PROCESSING is in the hands of a run, which is about to  *)
(* record its outcome, unless a crash or a failed database call happened.  *)
ProcessingIsHeld ==
  \A p \in Posts : row[p].status = "PROCESSING" =>
    faults > 0 \/ \E w \in Runs : InHand(w, p)

LEMMA HandKept ==
  ASSUME TypeOK, NEW w \in Runs, RunStep(w) \/ RunFault(w), NEW p \in Posts, InHand(w, p)
  PROVE  \/ InHand(w, p)' \/ RecordVerdict(w) \/ RecordFailure(w) \/ faults' > 0
<1>1. run \in [Runs -> RunState] /\ faults \in Nat
  BY DEF TypeOK
<1>2. CASE PublishSettles(w)
  <2>1. PICK verdict : run' = [run EXCEPT ![w].step = "record", ![w].verdict = verdict]
    BY <1>2 DEF PublishSettles
  <2> QED
    BY <1>1, <2>1 DEF InHand, RunState, Busy
<1>3. CASE RunFault(w)
  <2>1. faults' = faults + 1
    BY <1>3 DEF RunFault, MarkFails, PublishThrows, RecordVerdictFails, RecordFailureFails,
                Crash, Fault
  <2> QED
    BY <1>1, <2>1
<1>4. CASE ListDue(w) \/ MarkProcessing(w) \/ RunEnds(w)
  BY <1>4 DEF InHand, Busy, ListDue, MarkProcessing, RunEnds
<1> QED
  BY <1>2, <1>3, <1>4 DEF RunStep

LEMMA FaultsGrow ==
  ASSUME TypeOK, [Next]_vars
  PROVE  faults > 0 => faults' > 0
<1>1. faults \in Nat
  BY DEF TypeOK
<1>2. faults' = faults \/ faults' = faults + 1
  BY DEF Next, vars, AdvanceTime, RequestStep, Schedule, BeginEdit, BeginCancel, AttachMedia,
         ApplyEdit, ApplyCancel, RequestFails, RunStep, RunFault, ListDue, MarkProcessing,
         PublishSettles, RecordVerdict, RecordFailure, RunEnds, MarkFails, PublishThrows,
         RecordVerdictFails, RecordFailureFails, Crash, Fault
<1> QED
  BY <1>1, <1>2

LEMMA NextHeld == TypeOK /\ ProcessingIsHeld /\ [Next]_vars => ProcessingIsHeld'
<1> SUFFICES ASSUME TypeOK, ProcessingIsHeld, [Next]_vars, NEW p \in Posts,
                    row'[p].status = "PROCESSING", ~(faults' > 0)
             PROVE  \E w \in Runs : InHand(w, p)'
  BY DEF ProcessingIsHeld, InHand
<1>1. row[p].status = "PROCESSING" => \E w \in Runs : InHand(w, p)
  BY FaultsGrow DEF ProcessingIsHeld, InHand
<1>2. ASSUME NEW w \in Runs, RunStep(w) \/ RunFault(w)
      PROVE  \E v \in Runs : InHand(v, p)'
  <2>1. \A v \in Runs \ {w} : InHand(v, p) => InHand(v, p)'
    BY <1>2, OnlyItsRun DEF InHand
  <2>2. CASE MarkProcessing(w) /\ \E x \in run[w].list : row' = [row EXCEPT ![x.post].status = "PROCESSING"]
                                     /\ Take(w, x, "publish") /\ x.post = p
    BY <2>2 DEF Take, TypeOK, RunState, InHand, Busy
  <2>3. CASE row[p].status = "PROCESSING"
    <3>1. ~(RecordVerdict(w) /\ run[w].current.post = p)
      BY RunRows, <1>2, ScheduleStatusType DEF RecordVerdict, ScheduleStatusOf, TypeOK, Row
    <3>2. ~(RecordFailure(w) /\ run[w].current.post = p)
      BY DEF RecordFailure, TypeOK, Row
    <3> QED
      BY <1>1, <1>2, <2>1, <2>3, <3>1, <3>2, HandKept DEF InHand
  <2>4. CASE row[p].status # "PROCESSING"
    <3>1. MarkProcessing(w)
      BY <1>2, <2>4, RunRows DEF Kept, ScheduleStatusOf
    <3>2. PICK x \in run[w].list : row' = [row EXCEPT ![x.post].status = "PROCESSING"]
                                     /\ Take(w, x, "publish")
      BY <3>1 DEF MarkProcessing
    <3>3. x.post = p
      BY <2>4, <3>2 DEF TypeOK
    <3> QED
      BY <2>2, <3>1, <3>2, <3>3
  <2> QED
    BY <2>3, <2>4
<1>3. ASSUME NEW c \in Clients, RequestStep(c)
      PROVE  \E v \in Runs : InHand(v, p)'
  BY <1>1, <1>3, RequestRows DEF Kept, InHand
<1>4. CASE AdvanceTime \/ UNCHANGED vars
  BY <1>1, <1>4 DEF AdvanceTime, vars, InHand
<1> QED
  BY <1>2, <1>3, <1>4 DEF Next

(* What ProcessingEnds rests on: only a crash or a failed database call    *)
(* leaves a post PROCESSING with nobody at work on it.                     *)
THEOREM ProcessingHeld == Spec => []ProcessingIsHeld
<1>1. Init => ProcessingIsHeld
  BY DEF Init, ProcessingIsHeld, Absent
<1> QED
  BY <1>1, NextHeld, TypeCorrect, PTL DEF Spec

-------------------------------------------------------------------------------
(* Requests that come in time. *)

(* No run takes a post into its list while a request on it is open, and no *)
(* request opens on a listed one.                                          *)
RequestsInTime ==
  \A c \in Clients, w \in Runs : request[c].step # "idle" => ~Listed(w, request[c].post)

InTimeInv ==
  /\ \A c \in Clients : request[c].step # "idle" =>
       row[request[c].post].status \in {"PENDING", "CANCELLED"}
  /\ \A p \in Posts : row[p].status = "CANCELLED" => Withdrawn(p) /\ attempts[p] = <<>>
  /\ \A p \in late : row[p].status = "CANCELLED"

Stays(p) == Withdrawn(p) => Withdrawn(p)' /\ attempts'[p] = attempts[p]

LEMMA RunInTime ==
  ASSUME TypeOK, RequestsInTime, InTimeInv, \A p \in Posts : Stays(p),
         NEW w \in Runs, RunStep(w) \/ RunFault(w)
  PROVE  InTimeInv'
<1>1. UNCHANGED <<request, late>>
  BY DEF RunStep, RunFault, ListDue, MarkProcessing, PublishSettles, RecordVerdict,
         RecordFailure, RunEnds, MarkFails, PublishThrows, RecordVerdictFails,
         RecordFailureFails, Crash
<1>2. \A p \in Posts : row[p].status = "CANCELLED" =>
        row'[p].status = "CANCELLED" /\ Withdrawn(p)' /\ attempts'[p] = <<>>
  BY DEF InTimeInv, Stays, Withdrawn
<1>3. \A p \in Posts : row'[p].status = "CANCELLED" => row[p].status = "CANCELLED"
  BY RunRows DEF Kept, ScheduleStatusOf
<1>4. ASSUME NEW c \in Clients, request[c].step # "idle"
      PROVE  row'[request[c].post].status \in {"PENDING", "CANCELLED"}
  <2>1. request[c].post \in Posts /\ ~Listed(w, request[c].post)
    BY <1>4 DEF TypeOK, RequestsInTime
  <2>2. Kept(request[c].post)
    BY <2>1, RunRows DEF Listed
  <2> QED
    BY <1>4, <2>2 DEF InTimeInv, Kept
<1>5. late \in SUBSET Posts
  BY DEF TypeOK
<1> QED
  BY <1>1, <1>2, <1>3, <1>4, <1>5 DEF InTimeInv

(* A request moves on, and the rows of the others' posts keep their status. *)
LEMMA RequestInTime ==
  ASSUME TypeOK, PendingIsUntouched, RequestsInTime, InTimeInv, NEW c \in Clients,
         RequestStep(c)
  PROVE  InTimeInv'
<1>1. /\ row \in [Posts -> Row] /\ request \in [Clients -> RequestState] /\ late \in SUBSET Posts
      /\ UNCHANGED <<run, attempts>>
  BY RequestRows DEF TypeOK, RequestStep, Schedule, BeginEdit, BeginCancel, AttachMedia,
     ApplyEdit, ApplyCancel, RequestFails
<1>2. \A d \in Clients \ {c} : request'[d] = request[d]
  BY <1>1 DEF RequestStep, Schedule, BeginEdit, BeginCancel, AttachMedia,
     ApplyEdit, ApplyCancel, RequestFails
<1>3. \A p \in Posts : Withdrawn(p) /\ row'[p].status = "CANCELLED" => Withdrawn(p)'
  BY <1>1 DEF Withdrawn, Listed
<1>4. ASSUME \A p \in Posts : Kept(p) \/ (row[p].status = "absent" /\ row'[p].status = "PENDING"),
             request'[c].step # "idle" => row'[request'[c].post].status \in {"PENDING", "CANCELLED"},
             late' \subseteq late \cup TooLate(request[c].post),
             late' # late => request[c].step # "idle"
      PROVE  InTimeInv'
  <2>1. \A p \in Posts : /\ row[p].status = "CANCELLED" <=> row'[p].status = "CANCELLED"
                         /\ row[p].status = "PENDING" => row'[p].status = "PENDING"
    BY <1>4 DEF Kept
  <2>2. \A d \in Clients : request'[d].step # "idle" =>
          row'[request'[d].post].status \in {"PENDING", "CANCELLED"}
    BY <1>2, <1>4, <2>1 DEF InTimeInv, TypeOK
  <2>3. \A p \in Posts : row'[p].status = "CANCELLED" => Withdrawn(p)' /\ attempts'[p] = <<>>
    BY <1>1, <1>3, <2>1 DEF InTimeInv
  <2>4. ASSUME NEW p \in late' PROVE row'[p].status = "CANCELLED"
    <3>1. CASE p \in late
      BY <1>1, <2>1, <3>1 DEF InTimeInv
    <3>2. CASE p \notin late
      <4>1. /\ request[c].step # "idle" /\ p = request[c].post /\ p \in Posts
            /\ row[p].status # "PENDING" \/ \E w \in Runs : Listed(w, p)
        BY <1>4, <3>2 DEF TooLate, TypeOK
      <4>2. row[p].status = "CANCELLED"
        BY <4>1 DEF InTimeInv, RequestsInTime
      <4> QED
        BY <2>1, <4>1, <4>2
    <3> QED
      BY <3>1, <3>2
  <2> QED
    BY <2>2, <2>3, <2>4 DEF InTimeInv
<1>5. ASSUME NEW p \in Posts, NEW content \in Contents, NEW time \in Times,
             Schedule(c, p, content, time)
      PROVE  InTimeInv'
  <2>1. /\ \A q \in Posts \ {p} : row'[q] = row[q]
        /\ row[p].status = "absent"
        /\ row'[p] = [Absent EXCEPT !.status = "PENDING", !.content = content, !.time = time]
        /\ request'[c].post = p /\ UNCHANGED late
    BY <1>1, <1>5 DEF Schedule
  <2>2. row'[p].status = "PENDING"
    BY <2>1, NewIsPending
  <2>3. \A q \in Posts : Kept(q) \/ (row[q].status = "absent" /\ row'[q].status = "PENDING")
    BY <2>1, <2>2 DEF Kept
  <2> QED
    BY <1>4, <2>1, <2>2, <2>3
<1>6. ASSUME NEW p \in Posts,
             (\E edit \in Edit \ {NoEdit} : BeginEdit(c, p, edit)) \/ BeginCancel(c, p)
      PROVE  InTimeInv'
  <2>1. row[p].status = "PENDING" /\ request'[c].post = p /\ UNCHANGED <<row, late>>
    BY <1>1, <1>6 DEF BeginEdit, BeginCancel
  <2> QED
    BY <1>4, <2>1 DEF Kept
<1>7. CASE AttachMedia(c) \/ ApplyEdit(c)
  <2>1. /\ request'[c].step = "idle" /\ request[c].step # "idle"
        /\ late' = late \cup TooLate(request[c].post)
    BY <1>1, <1>7 DEF AttachMedia, ApplyEdit, IdleRequest
  <2>2. \A p \in Posts : Kept(p)
    <3>1. CASE AttachMedia(c)
      BY <1>1, <3>1 DEF AttachMedia, Kept, Row
    <3>2. CASE ApplyEdit(c)
      <4>1. \A p \in Posts : row'[p] = row[p] \/ row'[p] = Edited(row[p], request[c].edit)
        BY <1>1, <3>2 DEF ApplyEdit
      <4>2. \A p \in Posts : LET r == Edited(row[p], request[c].edit) IN
              r.status = row[p].status /\ r.verdict = row[p].verdict /\ r.error = row[p].error
        BY <1>1 DEF Edited, Row
      <4> QED
        BY <4>1, <4>2 DEF Kept
    <3> QED
      BY <1>7, <3>1, <3>2
  <2> QED
    BY <1>4, <2>1, <2>2
<1>8. CASE ApplyCancel(c)
  <2> PICK p : p = request[c].post
    OBVIOUS
  <2>1. /\ request[c].step # "idle" /\ p \in Posts /\ request'[c].step = "idle" /\ UNCHANGED late
        /\ row'[p].status = "CANCELLED" /\ \A q \in Posts \ {p} : row'[q] = row[q]
    BY <1>1, <1>8 DEF ApplyCancel, IdleRequest, TypeOK, Row
  <2>2. \A w \in Runs : ~Listed(w, p)
    BY <2>1 DEF RequestsInTime
  <2>3. attempts[p] = <<>>
    BY <2>1 DEF InTimeInv, PendingIsUntouched
  <2>4. Withdrawn(p)'
    BY <1>1, <2>1, <2>2 DEF Withdrawn, Listed
  <2>5. \A q \in Posts : row'[q].status = "CANCELLED" => Withdrawn(q)' /\ attempts'[q] = <<>>
    BY <1>1, <1>3, <2>1, <2>3, <2>4 DEF InTimeInv
  <2>6. \A d \in Clients : request'[d].step # "idle" =>
          row'[request'[d].post].status \in {"PENDING", "CANCELLED"}
    BY <1>2, <2>1 DEF InTimeInv, TypeOK
  <2> QED
    BY <1>1, <2>1, <2>5, <2>6 DEF InTimeInv
<1>9. CASE RequestFails(c)
  <2>1. request'[c].step = "idle" /\ UNCHANGED <<row, late>>
    BY <1>1, <1>9 DEF RequestFails, IdleRequest
  <2> QED
    BY <1>4, <2>1 DEF Kept
<1> QED
  BY <1>5, <1>6, <1>7, <1>8, <1>9 DEF RequestStep

LEMMA NextInTime ==
  ASSUME TypeOK, OnceInv, RequestsInTime, InTimeInv, \A p \in Posts : Stays(p), [Next]_vars
  PROVE  InTimeInv'
<1>1. CASE AdvanceTime \/ UNCHANGED vars
  BY <1>1 DEF AdvanceTime, vars, InTimeInv, Withdrawn, Listed
<1> QED
  BY <1>1, RunInTime, RequestInTime DEF Next, OnceInv

LEMMA AlwaysInTime == Spec /\ []RequestsInTime => []InTimeInv
<1> DEFINE AllStay == \A p \in Posts : Stays(p)
<1>1. Init => InTimeInv
  BY DEF Init, InTimeInv, IdleRequest, Absent
<1>2. UNCHANGED vars => AllStay
  BY DEF vars, Stays, Withdrawn, Listed
<1>3. TypeOK /\ OnceInv /\ RequestsInTime /\ InTimeInv /\ [AllStay]_vars /\ [Next]_vars
        => InTimeInv'
  BY <1>2, NextInTime
<1>4. Spec => []OnceInv
  <2>1. TypeOK /\ TypeOK' /\ OnceInv /\ [Next]_vars => OnceInv'
    BY NextOnce
  <2> QED
    BY <2>1, InitOnce, TypeCorrect, PTL DEF Spec
<1>5. CancelHolds => [][AllStay]_vars
  <2>1. [\A p \in Posts : Withdrawn(p) => Withdrawn(p)' /\ attempts'[p] = attempts[p]]_vars
          => [AllStay]_vars
    BY DEF Stays
  <2> QED
    BY <2>1, PTL DEF CancelHolds
<1> HIDE DEF AllStay
<1> QED
  BY <1>1, <1>3, <1>4, <1>5, TypeCorrect, CancellationHolds, PTL DEF Spec

(* "Can only cancel pending posts" (cancelScheduledPost) does hold where   *)
(* requests come in time.                                                  *)
THEOREM InTimeCancelled == Spec /\ []RequestsInTime => OnlyPendingIsCancelled
<1>1. TypeOK /\ InTimeInv /\ [Next]_vars =>
        [\A p \in Posts : row'[p].status = "CANCELLED" =>
           row[p].status \in {"PENDING", "CANCELLED"}]_vars
  <2> SUFFICES ASSUME TypeOK, InTimeInv, Next, NEW p \in Posts, row'[p].status = "CANCELLED"
               PROVE  row[p].status \in {"PENDING", "CANCELLED"}
    OBVIOUS
  <2>1. ASSUME NEW w \in Runs, RunStep(w) \/ RunFault(w)
        PROVE  row[p].status = "CANCELLED"
    BY <2>1, RunRows DEF Kept, ScheduleStatusOf
  <2>2. ASSUME NEW c \in Clients, RequestStep(c)
        PROVE  row[p].status \in {"PENDING", "CANCELLED"}
    <3>1. CASE ApplyCancel(c)
      <4>1. request[c].step # "idle" /\ (p # request[c].post => row'[p] = row[p])
        BY <3>1 DEF ApplyCancel, TypeOK
      <4> QED
        BY <4>1 DEF InTimeInv
    <3>2. CASE ~ApplyCancel(c)
      <4>1. CASE AttachMedia(c)
        BY <4>1 DEF AttachMedia, TypeOK, Row
      <4>2. CASE ApplyEdit(c)
        <5>1. row'[p] = row[p] \/ row'[p] = Edited(row[p], request[c].edit)
          BY <4>2 DEF ApplyEdit, TypeOK
        <5>2. Edited(row[p], request[c].edit).status = row[p].status
          BY DEF TypeOK, Edited, Row
        <5> QED
          BY <5>1, <5>2
      <4>3. ASSUME NEW q \in Posts, NEW content \in Contents, NEW time \in Times,
                   Schedule(c, q, content, time)
            PROVE  row[p].status = "CANCELLED"
        <5>1. p # q => row'[p] = row[p]
          BY <4>3 DEF Schedule, TypeOK
        <5>2. p = q =>
                row'[p] = [Absent EXCEPT !.status = "PENDING", !.content = content, !.time = time]
          BY <4>3 DEF Schedule, TypeOK
        <5>3. p = q => row'[p].status = "PENDING"
          BY <5>2, NewIsPending
        <5>4. p # q
          BY <5>3
        <5> QED
          BY <5>1, <5>4
      <4>4. CASE UNCHANGED row
        BY <4>4
      <4> QED
        BY <2>2, <3>2, <4>1, <4>2, <4>3, <4>4
        DEF RequestStep, BeginEdit, BeginCancel, RequestFails
    <3> QED
      BY <3>1, <3>2
  <2>3. CASE AdvanceTime
    BY <2>3 DEF AdvanceTime
  <2> QED
    BY <2>1, <2>2, <2>3 DEF Next
<1> QED
  BY <1>1, AlwaysInTime, TypeCorrect, PTL DEF Spec, OnlyPendingIsCancelled

(* Then a cancelled post is never published, and what was published has    *)
(* the content of the row and the media it shows, without exception.       *)
THEOREM InTimeShown ==
  Spec /\ []RequestsInTime =>
    [](\A p \in Posts :
         /\ row[p].status = "CANCELLED" => attempts[p] = <<>>
         /\ \A i \in 1..Len(attempts[p]) :
              /\ attempts[p][i].content = row[p].content
              /\ MediaShown(attempts[p][i].media, row[p]))
<1> DEFINE Shown == \A p \in Posts :
                      /\ row[p].status = "CANCELLED" => attempts[p] = <<>>
                      /\ \A i \in 1..Len(attempts[p]) :
                           /\ attempts[p][i].content = row[p].content
                           /\ MediaShown(attempts[p][i].media, row[p])
<1>1. TypeOK /\ InTimeInv /\ PublishedAsShown => Shown
  BY DEF TypeOK, InTimeInv, PublishedAsShown
<1> HIDE DEF Shown
<1>2. Spec /\ []RequestsInTime => []Shown
  BY <1>1, AlwaysInTime, TypeCorrect, ShownIsPublished, PTL
<1> QED
  BY <1>2 DEF Shown
===============================================================================
