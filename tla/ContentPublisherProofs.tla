------------------------ MODULE ContentPublisherProofs ------------------------
(***************************************************************************)
(* What holds of ContentPublisher for every set of calls, of targets, of   *)
(* accounts and of readers, and that it implements PublishPromise.         *)
(***************************************************************************)
EXTENDS ContentPublisher, TLAPS

(* determineOverallStatus returns one of three statuses. *)
LEMMA VerdictType ==
  ASSUME NEW successes, NEW targets
  PROVE  Verdict(successes, targets) \in Verdicts
BY DEF Verdict, Verdicts

LEMMA VerdictsAreStatuses == Verdicts \subseteq PublishStatus
BY DEF Verdicts, PublishStatus

(* The retry bookkeeping writes back a list of the shape it has read. *)
LEMMA MarkRetryType ==
  ASSUME NEW results \in Results, NEW t \in Targets
  PROVE  MarkRetry(results, t) \in Results
<1>1. EmptyResults \in Results /\ t \notin DOMAIN EmptyResults
  BY DEF Results, EmptyResults
<1>2. CASE results = Null \/ results = EmptyResults
  BY <1>1, <1>2 DEF MarkRetry, OrEmpty
<1>3. CASE results # Null /\ results \in [Targets -> Entry]
  BY <1>3 DEF MarkRetry, OrEmpty, Results, Entry
<1> QED
  BY <1>2, <1>3 DEF Results

LEMMA FinalResultsType ==
  ASSUME NEW c \in Calls
  PROVE  FinalResults(c) \in [Targets -> Entry]
BY DEF FinalResults, Entry

LEMMA InitType == Init => TypeOK
BY DEF Init, TypeOK, Absent, Silent, CallSteps, TaskSteps, Results

(* A task that goes on to another step. *)
LEMMA TaskGoesToType ==
  ASSUME TypeOK, NEW c \in Calls, NEW t \in Targets, NEW step \in TaskSteps,
         TaskGoesTo(c, t, step)
  PROVE  task' \in [Calls -> [Targets -> [step : TaskSteps, copy : Results]]]
<1> DEFINE T == [step : TaskSteps, copy : Results]
<1>1. task[c][t] \in T
  BY DEF TypeOK
<1>2. [task[c][t] EXCEPT !.step = step] \in T
  BY <1>1
<1>3. task' = [task EXCEPT ![c] = [task[c] EXCEPT ![t] = [task[c][t] EXCEPT !.step = step]]]
  BY DEF TaskGoesTo
<1>4. task \in [Calls -> [Targets -> T]]
  BY DEF TypeOK
<1> HIDE DEF T
<1>5. [task[c] EXCEPT ![t] = [task[c][t] EXCEPT !.step = step]] \in [Targets -> T]
  BY <1>2, <1>4
<1>6. task' \in [Calls -> [Targets -> T]]
  BY <1>3, <1>4, <1>5
<1> QED
  BY <1>6 DEF T

(* The branch of one target keeps the types. *)
LEMMA TaskType ==
  ASSUME TypeOK, NEW c \in Calls, NEW t \in Targets, TaskStep(c, t)
  PROVE  TypeOK'
<1>1. CASE PublishOk(c, t) \/ PublishFails(c, t)
  <2>1. \E step \in TaskSteps : TaskGoesTo(c, t, step)
    BY <1>1 DEF PublishOk, PublishFails, TaskSteps
  <2>2. live' \in [Calls -> SUBSET Targets]
    <3>1. UNCHANGED live \/ live' = [live EXCEPT ![c] = @ \cup {t}]
      BY <1>1 DEF PublishOk, PublishFails
    <3>2. live[c] \cup {t} \in SUBSET Targets
      BY DEF TypeOK
    <3> QED
      BY <3>1, <3>2 DEF TypeOK
  <2>3. task' \in [Calls -> [Targets -> [step : TaskSteps, copy : Results]]]
    BY <2>1, TaskGoesToType
  <2> QED
    BY <1>1, <2>2, <2>3 DEF PublishOk, PublishFails, TypeOK
<1>2. CASE Enqueue(c, t) \/ EnqueueFails(c, t)
  <2>1. \E step \in TaskSteps : TaskGoesTo(c, t, step)
    BY <1>2 DEF Enqueue, EnqueueFails, TaskSteps
  <2>2. queue' \in SUBSET Jobs /\ dropped' \in SUBSET Jobs
    BY <1>2 DEF Enqueue, EnqueueFails, TypeOK, Jobs
  <2> QED
    BY <1>2, <2>1, <2>2, TaskGoesToType DEF Enqueue, EnqueueFails, TypeOK
<1>3. CASE ReadForRetry(c, t)
  <2> DEFINE T == [step : TaskSteps, copy : Results]
             new == [step |-> "write", copy |-> record[c].results]
  <2>1. new \in T
    BY DEF TypeOK, TaskSteps
  <2>2. task \in [Calls -> [Targets -> T]]
    BY DEF TypeOK
  <2>3. task' = [task EXCEPT ![c] = [task[c] EXCEPT ![t] = new]]
    BY <1>3 DEF ReadForRetry
  <2> HIDE DEF T, new
  <2>4. [task[c] EXCEPT ![t] = new] \in [Targets -> T]
    BY <2>1, <2>2
  <2>5. task' \in [Calls -> [Targets -> T]]
    BY <2>2, <2>3, <2>4
  <2> QED
    BY <1>3, <2>5 DEF ReadForRetry, TypeOK, T
<1>4. CASE WriteForRetry(c, t)
  <2>1. task[c][t].copy \in Results
    BY DEF TypeOK
  <2>2. MarkRetry(task[c][t].copy, t) \in Results
    BY <2>1, MarkRetryType
  <2>3. record' \in [Calls -> [status : PublishStatus \cup {"absent"}, results : Results]]
    BY <1>4, <2>2 DEF WriteForRetry, TypeOK
  <2>4. task' \in [Calls -> [Targets -> [step : TaskSteps, copy : Results]]]
    BY <1>4, TaskGoesToType DEF WriteForRetry, TaskSteps
  <2> QED
    BY <1>4, <2>3, <2>4 DEF WriteForRetry, TypeOK
<1>5. CASE UpdateForRetryFails(c, t)
  <2>1. task' \in [Calls -> [Targets -> [step : TaskSteps, copy : Results]]]
    BY <1>5, TaskGoesToType DEF UpdateForRetryFails, TaskSteps
  <2> QED
    BY <1>5, <2>1 DEF UpdateForRetryFails, TypeOK
<1> QED
  BY <1>1, <1>2, <1>3, <1>4, <1>5 DEF TaskStep

(* A call goes from step to step. *)
LEMMA CallMoves ==
  ASSUME TypeOK, NEW c \in Calls, NEW step \in CallSteps, NEW media \in BOOLEAN,
         \/ GoTo(c, step)
         \/ call' = [call EXCEPT ![c] = [step |-> step, media |-> media]]
  PROVE  call' \in [Calls -> [step : CallSteps, media : BOOLEAN]]
<1>1. call \in [Calls -> [step : CallSteps, media : BOOLEAN]]
  BY DEF TypeOK
<1>2. [call[c] EXCEPT !.step = step] \in [step : CallSteps, media : BOOLEAN]
  BY <1>1
<1>3. \/ call' = [call EXCEPT ![c] = [call[c] EXCEPT !.step = step]]
      \/ call' = [call EXCEPT ![c] = [step |-> step, media |-> media]]
  BY DEF GoTo
<1> QED
  BY <1>1, <1>2, <1>3

(* So do the steps of a call as a whole. *)
LEMMA CallType ==
  ASSUME TypeOK, NEW c \in Calls, Start(c) \/ CallStep(c) \/ Throw(c) \/ Crash(c)
  PROVE  TypeOK'
<1> DEFINE CallState == [step : CallSteps, media : BOOLEAN]
           RecordState == [status : PublishStatus \cup {"absent"}, results : Results]
<1>0. /\ call \in [Calls -> CallState] /\ record \in [Calls -> RecordState]
      /\ {"media", "attach", "publish", "done", "threw", "dead"} \subseteq CallSteps
  BY DEF TypeOK, CallSteps
<1>a. ASSUME call' \in [Calls -> CallState], record' \in [Calls -> RecordState],
             UNCHANGED <<task, queue, dropped, manual, live, answer>>
      PROVE  TypeOK'
  BY <1>a DEF TypeOK
<1> HIDE DEF CallState, RecordState
<1>1. CASE Start(c)
  <2>1. [status |-> "PENDING", results |-> Null] \in RecordState
    BY DEF PublishStatus, Results, RecordState
  <2>2. record' \in [Calls -> RecordState]
    BY <1>0, <1>1, <2>1 DEF Start
  <2>3. call' \in [Calls -> CallState]
    BY <1>0, <1>1, CallMoves DEF Start, CallState
  <2> QED
    BY <1>1, <1>a, <2>2, <2>3 DEF Start
<1>2. CASE ProcessAndUploadMedia(c)
  <2>1. call' \in [Calls -> CallState]
    BY <1>0, <1>2, CallMoves DEF ProcessAndUploadMedia, CallState
  <2> QED
    BY <1>0, <1>2, <1>a, <2>1 DEF ProcessAndUploadMedia
<1>3. CASE AttachMedia(c) \/ Throw(c) \/ Crash(c)
  <2>1. /\ \E step \in {"publish", "threw", "dead"} : GoTo(c, step)
        /\ UNCHANGED <<record, task, queue, dropped, manual, live, answer>>
    BY <1>3 DEF AttachMedia, Throw, Crash
  <2>2. call' \in [Calls -> CallState]
    BY <1>0, <2>1, CallMoves DEF CallState
  <2> QED
    BY <1>0, <1>a, <2>1, <2>2
<1>4. CASE Finish(c)
  <2>1. [status |-> Verdict(Succeeded(c), Targets), results |-> FinalResults(c)]
          \in RecordState
    BY VerdictType, VerdictsAreStatuses, FinalResultsType DEF Results, RecordState
  <2>2. record' \in [Calls -> RecordState]
    BY <1>0, <1>4, <2>1 DEF Finish
  <2>3. call' \in [Calls -> CallState]
    BY <1>0, <1>4, CallMoves DEF Finish, CallState
  <2> QED
    BY <1>4, <1>a, <2>2, <2>3 DEF Finish
<1> QED
  BY <1>1, <1>2, <1>3, <1>4, TaskType DEF CallStep

(* And the other handlers. *)
LEMMA UserType ==
  ASSUME TypeOK, UserStep
  PROVE  TypeOK'
<1> USE DEF TypeOK
<1>1. ASSUME NEW c \in Calls, CancelPublish(c) PROVE TypeOK'
  BY <1>1 DEF CancelPublish, PublishStatus
<1>2. ASSUME NEW c \in Calls, NEW t \in Targets, CancelRetry(c, t) PROVE TypeOK'
  BY <1>2 DEF CancelRetry, Jobs
<1>3. ASSUME NEW c \in Calls, NEW t \in Targets, NEW account \in Accounts,
             RetryPublish(c, t, account)
      PROVE  TypeOK'
  BY <1>3 DEF RetryPublish, Jobs
<1>4. ASSUME NEW r \in Readers, ReadRecord(r) \/ ReadRecordFails(r) PROVE TypeOK'
  <2>1. answer[r].call \in Calls /\ record[answer[r].call].results \in Results
    BY <1>4 DEF ReadRecord, ReadRecordFails
  <2> DEFINE A == [step : {"idle", "read", "done", "missed"}, call : Calls \cup {Null},
                   status : PublishStatus \cup {Null}, results : Results]
             Answered(new) == new \in A /\ new.call = answer[r].call
             found == [answer[r] EXCEPT !.step = "done",
                         !.results = OrEmpty(record[answer[r].call].results)]
             missed == [answer[r] EXCEPT !.step = "missed", !.results = EmptyResults]
  <2>2. answer \in [Readers -> A] /\ Answered(found) /\ Answered(missed)
    <3>1. /\ EmptyResults \in Results
          /\ OrEmpty(record[answer[r].call].results) \in Results
      BY <2>1 DEF OrEmpty, Results
    <3> QED
      BY <3>1
  <2>3. PICK new : Answered(new) /\ answer' = [answer EXCEPT ![r] = new]
    <3>1. CASE ReadRecord(r)
      BY <2>2, <3>1 DEF ReadRecord
    <3>2. CASE ReadRecordFails(r)
      BY <2>2, <3>2 DEF ReadRecordFails
    <3> QED
      BY <1>4, <3>1, <3>2
  <2>4. answer' \in [Readers -> A] /\ \A q \in Readers : answer'[q].call = answer[q].call
    <3> HIDE DEF A
    <3> QED
      BY <2>2, <2>3
  <2>5. ASSUME NEW q \in Readers, answer'[q].step # "idle" PROVE answer'[q].call \in Calls
    <3>1. CASE q = r
      BY <2>1, <2>4, <3>1
    <3>2. CASE q # r
      BY <2>3, <2>4, <2>5, <3>2
    <3> QED
      BY <3>1, <3>2
  <2> QED
    BY <1>4, <2>4, <2>5 DEF ReadRecord, ReadRecordFails
<1>5. ASSUME NEW r \in Readers, NEW c \in Calls, ReadStatus(r, c) PROVE TypeOK'
  BY <1>5 DEF ReadStatus, Results
<1> QED
  BY <1>1, <1>2, <1>3, <1>4, <1>5 DEF UserStep

LEMMA NextType == TypeOK /\ [Next]_vars => TypeOK'
<1> SUFFICES ASSUME TypeOK, [Next]_vars PROVE TypeOK'
  OBVIOUS
<1>1. CASE UNCHANGED vars
  BY <1>1 DEF vars, TypeOK
<1> QED
  BY <1>1, CallType, UserType DEF Next

(* Every reachable state is well typed: what the retry bookkeeping writes  *)
(* into a record is a list of results again.                               *)
THEOREM TypeCorrect == Spec => []TypeOK
BY InitType, NextType, PTL DEF Spec

-----------------------------------------------------------------------------
(* The record, the jobs and the answers. *)

LEMMA InitPublish == Init => PublishInv
BY DEF Init, PublishInv, TaskInv, RecordInv, AnswerInv, Absent, Silent, Verdicts

(* What is computed from the tasks of a call stays while they stay. *)
LEMMA SameTasks ==
  ASSUME NEW c \in Calls, task'[c] = task[c]
  PROVE  /\ Succeeded(c)' = Succeeded(c)
         /\ FinalResults(c)' = FinalResults(c)
         /\ AllSettled(c)' <=> AllSettled(c)
<1>1. Succeeded(c)' = Succeeded(c)
  BY DEF Succeeded
<1>2. FinalResults(c)' = FinalResults(c)
  BY <1>1 DEF FinalResults
<1>3. AllSettled(c)' <=> AllSettled(c)
  BY DEF AllSettled
<1> QED
  BY <1>1, <1>2, <1>3

(* A step of a task moves that task alone. *)
LEMMA TaskMoves ==
  ASSUME TypeOK, NEW c \in Calls, NEW t \in Targets, NEW step, TaskGoesTo(c, t, step)
  PROVE  /\ task'[c][t].step = step
         /\ \A u \in Targets \ {t} : task'[c][u] = task[c][u]
         /\ \A d \in Calls \ {c} : task'[d] = task[d]
<1> DEFINE new == [task[c][t] EXCEPT !.step = step]
<1>1. task[c][t] \in [step : TaskSteps, copy : Results]
  BY DEF TypeOK
<1>2. new.step = step
  BY <1>1
<1>3. task' = [task EXCEPT ![c] = [task[c] EXCEPT ![t] = new]]
  BY DEF TaskGoesTo
<1>4. c \in DOMAIN task /\ t \in DOMAIN task[c] /\ DOMAIN task[c] = Targets /\ DOMAIN task = Calls
  BY DEF TypeOK
<1> HIDE DEF new
<1> QED
  BY <1>2, <1>3, <1>4

(* No task is left to run once its call is over. *)
LEMMA TaskOfOpenCall ==
  ASSUME PublishInv, NEW c \in Calls, NEW t \in Targets, TaskStep(c, t)
  PROVE  call[c].step = "publish"
<1>1. /\ call[c].step \in {"publish", "done"}
      /\ task[c][t].step \in {"ready", "enqueue", "read", "write"}
  BY DEF TaskStep, PublishOk, PublishFails, Enqueue, EnqueueFails, ReadForRetry,
     WriteForRetry, UpdateForRetryFails, At
<1>2. call[c].step # "done"
  BY <1>1 DEF PublishInv, RecordInv, AllSettled
<1> QED
  BY <1>1, <1>2

(* While a call publishes, its tasks touch neither the records of the      *)
(* calls that are over nor the status of any record.                       *)
LEMMA TaskPublish ==
  ASSUME TypeOK, PublishInv, NEW c \in Calls, NEW t \in Targets, TaskStep(c, t)
  PROVE  PublishInv'
<1> DEFINE Past == {"read", "write", "failed"}
           jobs == queue \cup dropped
<1>1. /\ call[c].step = "publish" /\ UNCHANGED <<call, answer>>
      /\ \A d \in Calls \ {c} : record'[d] = record[d]
      /\ record'[c].status = record[c].status
  <2>1. call[c].step = "publish"
    BY TaskOfOpenCall
  <2> QED
    BY <2>1 DEF TaskStep, PublishOk, PublishFails, Enqueue, EnqueueFails, ReadForRetry,
       WriteForRetry, UpdateForRetryFails, TypeOK
<1>2. \A u \in Targets : TaskInv(c, u)
  BY DEF PublishInv
<1>3. /\ \A u \in Targets \ {t} : task'[c][u] = task[c][u]
      /\ \A d \in Calls \ {c} : task'[d] = task[d]
      /\ task'[c][t].step = "ok" => t \in live'[c]
      /\ <<c, t>> \in jobs' <=> task'[c][t].step \in Past
      /\ \A j \in Jobs \ {<<c, t>>} : j \in jobs' <=> j \in jobs
      /\ \A d \in Calls : live[d] \subseteq live'[d]
  <2>1. CASE PublishOk(c, t)
    <3>1. task[c][t].step = "ready" /\ TaskGoesTo(c, t, "ok") /\ UNCHANGED <<queue, dropped>>
      BY <2>1 DEF PublishOk, At
    <3>2. t \in live'[c] /\ \A d \in Calls : live[d] \subseteq live'[d]
      <4>1. live \in [Calls -> SUBSET Targets]
        BY DEF TypeOK
      <4> QED
        BY <2>1, <4>1 DEF PublishOk
    <3> QED
      BY <1>2, <3>1, <3>2, TaskMoves DEF TaskInv
  <2>2. CASE PublishFails(c, t)
    <3>1. task[c][t].step = "ready" /\ TaskGoesTo(c, t, "enqueue") /\ UNCHANGED <<queue, dropped>>
      BY <2>2 DEF PublishFails, At
    <3>2. \A d \in Calls : live[d] \subseteq live'[d]
      <4>1. UNCHANGED live \/ live' = [live EXCEPT ![c] = @ \cup {t}]
        BY <2>2 DEF PublishFails
      <4>2. live \in [Calls -> SUBSET Targets]
        BY DEF TypeOK
      <4> QED
        BY <4>1, <4>2
    <3> QED
      BY <1>2, <3>1, <3>2, TaskMoves DEF TaskInv
  <2>3. CASE Enqueue(c, t) \/ EnqueueFails(c, t)
    <3>1. \/ TaskGoesTo(c, t, "read")
          \/ TaskGoesTo(c, t, "failed")
      BY <2>3 DEF Enqueue, EnqueueFails
    <3>2. UNCHANGED live /\ jobs' = jobs \cup {<<c, t>>}
      BY <2>3 DEF Enqueue, EnqueueFails
    <3> QED
      BY <3>1, <3>2, TaskMoves
  <2>4. CASE ReadForRetry(c, t)
    <3>1. UNCHANGED <<live, queue, dropped>> /\ task[c][t].step = "read"
      BY <2>4 DEF ReadForRetry, At
    <3> DEFINE new == [step |-> "write", copy |-> record[c].results]
    <3>2. task' = [task EXCEPT ![c] = [task[c] EXCEPT ![t] = new]]
      BY <2>4 DEF ReadForRetry
    <3>3. c \in DOMAIN task /\ t \in DOMAIN task[c] /\ DOMAIN task[c] = Targets
          /\ DOMAIN task = Calls
      BY DEF TypeOK
    <3>4. new.step = "write"
      OBVIOUS
    <3> HIDE DEF new
    <3>5. /\ task'[c][t].step = "write"
          /\ \A u \in Targets \ {t} : task'[c][u] = task[c][u]
          /\ \A d \in Calls \ {c} : task'[d] = task[d]
      BY <3>2, <3>3, <3>4
    <3> QED
      BY <1>2, <3>1, <3>5 DEF TaskInv
  <2>5. CASE WriteForRetry(c, t) \/ UpdateForRetryFails(c, t)
    <3>1. /\ UNCHANGED <<live, queue, dropped>> /\ task[c][t].step \in {"read", "write"}
          /\ TaskGoesTo(c, t, "failed")
      BY <2>5 DEF WriteForRetry, UpdateForRetryFails, At
    <3> QED
      BY <1>2, <3>1, TaskMoves DEF TaskInv
  <2> QED
    BY <2>1, <2>2, <2>3, <2>4, <2>5 DEF TaskStep
<1> HIDE DEF jobs
<1>4. ASSUME NEW d \in Calls, NEW u \in Targets PROVE TaskInv(d, u)'
  <2>1. TaskInv(d, u) /\ <<d, u>> \in Jobs
    BY DEF PublishInv, Jobs
  <2>2. CASE d = c /\ u = t
    BY <1>1, <1>3, <2>2 DEF TaskInv, jobs
  <2>3. CASE ~(d = c /\ u = t)
    <3>1. task'[d][u] = task[d][u] /\ <<d, u>> \in Jobs \ {<<c, t>>}
      BY <1>3, <2>1, <2>3
    <3> QED
      BY <1>1, <1>3, <2>1, <3>1 DEF TaskInv, jobs
  <2> QED
    BY <2>2, <2>3
<1>5. ASSUME NEW d \in Calls PROVE RecordInv(d)'
  <2>1. RecordInv(d)
    BY DEF PublishInv
  <2>2. CASE d = c
    BY <1>1, <2>1, <2>2 DEF RecordInv
  <2>3. CASE d # c
    BY <1>1, <1>3, <2>1, <2>3, SameTasks DEF RecordInv
  <2> QED
    BY <2>2, <2>3
<1>6. ASSUME NEW r \in Readers PROVE AnswerInv(r)'
  <2>1. AnswerInv(r)
    BY DEF PublishInv
  <2> QED
    BY <1>1, <1>3, <2>1, SameTasks DEF AnswerInv
<1> QED
  BY <1>4, <1>5, <1>6 DEF PublishInv

(* The steps of a call outside its tasks. *)
LEMMA CallPublish ==
  ASSUME TypeOK, PublishInv, NEW c \in Calls,
         Start(c) \/ CallStep(c) \/ Throw(c) \/ Crash(c)
  PROVE  PublishInv'
<1> DEFINE Moves ==
             /\ UNCHANGED <<task, queue, dropped, live, answer>>
             /\ \A d \in Calls \ {c} : call'[d] = call[d] /\ record'[d] = record[d]
             /\ call[c].step # "done"
             /\ call'[c].step \in {"idle", "media", "attach"} =>
                  call[c].step \in {"idle", "media", "attach"}
<1>1. ASSUME Moves, RecordInv(c)' PROVE PublishInv'
  <2>1. \A d \in Calls, t \in Targets : TaskInv(d, t)'
    BY <1>1 DEF PublishInv, TaskInv
  <2>2. ASSUME NEW d \in Calls PROVE RecordInv(d)'
    <3>1. CASE d = c
      BY <1>1, <3>1
    <3>2. CASE d # c
      BY <1>1, <3>2, SameTasks DEF PublishInv, RecordInv
    <3> QED
      BY <3>1, <3>2
  <2>3. ASSUME NEW r \in Readers PROVE AnswerInv(r)'
    <3>1. AnswerInv(r)
      BY DEF PublishInv
    <3> QED
      BY <1>1, <3>1, SameTasks DEF AnswerInv
  <2> QED
    BY <2>1, <2>2, <2>3 DEF PublishInv
<1>2. RecordInv(c)
  BY DEF PublishInv
<1>3. CASE Start(c)
  <2>1. Moves
    BY <1>3 DEF Start, GoTo, TypeOK
  <2>2. RecordInv(c)'
    BY <1>3 DEF Start, GoTo, TypeOK, RecordInv, Verdicts
  <2> QED
    BY <1>1, <2>1, <2>2
<1>4. CASE ProcessAndUploadMedia(c) \/ AttachMedia(c) \/ Throw(c) \/ Crash(c)
  <2>1. Moves /\ UNCHANGED record /\ call'[c].step # "done"
    BY <1>4 DEF ProcessAndUploadMedia, AttachMedia, Throw, Crash, GoTo, TypeOK, OpenSteps
  <2>2. RecordInv(c)'
    BY <1>2, <2>1, SameTasks DEF RecordInv
  <2> QED
    BY <1>1, <2>1, <2>2
<1>5. CASE Finish(c)
  <2>1. Moves
    BY <1>5 DEF Finish, GoTo, TypeOK
  <2>2. /\ AllSettled(c) /\ UNCHANGED task
        /\ record'[c] = [status |-> Verdict(Succeeded(c), Targets),
                         results |-> FinalResults(c)]
        /\ call'[c].step = "done"
    BY <1>5 DEF Finish, GoTo, TypeOK
  <2>3. RecordInv(c)'
    BY <2>2, SameTasks DEF RecordInv
  <2> QED
    BY <1>1, <2>1, <2>3
<1> QED
  BY <1>3, <1>4, <1>5, TaskPublish DEF CallStep

(* The other handlers: a manual retry never adds a job, since no account   *)
(* is the one stored.                                                      *)
LEMMA UserPublish ==
  ASSUME TypeOK, PublishInv, UserStep
  PROVE  PublishInv'
<1>1. ASSUME NEW c \in Calls, CancelPublish(c) PROVE PublishInv'
  <2>1. /\ UNCHANGED <<call, task, queue, dropped, live, answer>>
        /\ \A d \in Calls : record'[d].results = record[d].results
        /\ \A d \in Calls : record'[d].status \in {record[d].status, "CANCELED"}
    BY <1>1 DEF CancelPublish, TypeOK
  <2>2. "CANCELED" \notin Verdicts
    BY DEF Verdicts
  <2>3. ASSUME NEW d \in Calls PROVE RecordInv(d)'
    BY <2>1, <2>2, SameTasks DEF PublishInv, RecordInv
  <2>4. ASSUME NEW d \in Calls, NEW t \in Targets PROVE TaskInv(d, t)'
    BY <2>1 DEF PublishInv, TaskInv
  <2>5. ASSUME NEW r \in Readers PROVE AnswerInv(r)'
    BY <2>1, SameTasks DEF PublishInv, AnswerInv
  <2> QED
    BY <2>3, <2>4, <2>5 DEF PublishInv
<1>2. ASSUME UNCHANGED <<record, call, task, live, answer>>,
             (queue \cup dropped)' = queue \cup dropped
      PROVE  PublishInv'
  <2>1. ASSUME NEW d \in Calls PROVE RecordInv(d)'
    BY <1>2, SameTasks DEF PublishInv, RecordInv
  <2>2. ASSUME NEW d \in Calls, NEW t \in Targets PROVE TaskInv(d, t)'
    BY <1>2 DEF PublishInv, TaskInv
  <2>3. ASSUME NEW r \in Readers PROVE AnswerInv(r)'
    BY <1>2, SameTasks DEF PublishInv, AnswerInv
  <2> QED
    BY <2>1, <2>2, <2>3 DEF PublishInv
<1>3. ASSUME NEW c \in Calls, NEW t \in Targets, CancelRetry(c, t) PROVE PublishInv'
  BY <1>2, <1>3 DEF CancelRetry
<1>4. ASSUME NEW c \in Calls, NEW t \in Targets, NEW account \in Accounts,
             RetryPublish(c, t, account)
      PROVE  PublishInv'
  BY <1>2, <1>4, AccountsAssumption DEF RetryPublish, StoredAccount
<1>5. ASSUME NEW r \in Readers,
             ReadRecord(r) \/ ReadRecordFails(r) \/ \E c \in Calls : ReadStatus(r, c)
      PROVE  PublishInv'
  <2>1. UNCHANGED <<record, call, task, queue, dropped, live>>
    BY <1>5 DEF ReadRecord, ReadRecordFails, ReadStatus
  <2>2. ASSUME NEW d \in Calls PROVE RecordInv(d)'
    BY <2>1, SameTasks DEF PublishInv, RecordInv
  <2>3. ASSUME NEW d \in Calls, NEW t \in Targets PROVE TaskInv(d, t)'
    BY <2>1 DEF PublishInv, TaskInv
  <2>4. ASSUME NEW s \in Readers PROVE AnswerInv(s)'
    <3>1. AnswerInv(s)
      BY DEF PublishInv
    <3>2. CASE s # r
      <4>1. answer'[s] = answer[s]
        BY <1>5, <3>2 DEF ReadRecord, ReadRecordFails, ReadStatus, TypeOK
      <4> QED
        BY <2>1, <3>1, <4>1, SameTasks DEF AnswerInv
    <3>3. CASE s = r /\ ReadRecord(r)
      <4>1. /\ answer'[r].call = answer[r].call /\ answer'[r].status = answer[r].status
            /\ answer'[r].results = OrEmpty(record[answer[r].call].results)
            /\ answer[r].step = "read" /\ answer'[r].step = "done"
        BY <3>3 DEF ReadRecord, TypeOK
      <4>2. answer[r].call \in Calls
        BY <4>1 DEF TypeOK
      <4>3. RecordInv(answer[r].call)
        BY <4>2 DEF PublishInv
      <4>4. OrEmpty(FinalResults(answer[r].call)) = FinalResults(answer[r].call)
        BY <4>2, FinalResultsType, NullAssumption DEF OrEmpty
      <4> QED
        BY <2>1, <3>1, <3>3, <4>1, <4>2, <4>3, <4>4, SameTasks DEF AnswerInv, RecordInv
    <3>4. CASE s = r /\ \E c \in Calls : ReadStatus(r, c)
      <4>1. PICK c \in Calls : ReadStatus(r, c)
        BY <3>4
      <4>2. /\ answer'[r].call = c /\ answer'[r].status = record[c].status
            /\ answer'[r].step = "read"
        BY <4>1 DEF ReadStatus, TypeOK
      <4>3. RecordInv(c) /\ "CANCELED" \notin Verdicts
        BY DEF PublishInv, Verdicts
      <4> QED
        BY <2>1, <3>4, <4>2, <4>3, SameTasks DEF AnswerInv, RecordInv
    <3>5. CASE s = r /\ ReadRecordFails(r)
      BY <2>1, <3>1, <3>5, SameTasks DEF ReadRecordFails, AnswerInv, TypeOK
    <3> QED
      BY <1>5, <3>2, <3>3, <3>4, <3>5
  <2> QED
    BY <2>2, <2>3, <2>4 DEF PublishInv
<1> QED
  BY <1>1, <1>3, <1>4, <1>5 DEF UserStep

LEMMA NextPublish == TypeOK /\ PublishInv /\ [Next]_vars => PublishInv'
<1> SUFFICES ASSUME TypeOK, PublishInv, [Next]_vars PROVE PublishInv'
  OBVIOUS
<1>1. CASE UNCHANGED vars
  BY <1>1, SameTasks DEF vars, PublishInv, TaskInv, RecordInv, AnswerInv
<1> QED
  BY <1>1, CallPublish, UserPublish DEF Next

LEMMA PublishInvariant == Spec => [](TypeOK /\ PublishInv)
BY InitType, NextType, InitPublish, NextPublish, PTL DEF Spec

(* The record of a call that is over tells the truth about every target,   *)
(* however the retry bookkeeping of its tasks interleaved.                 *)
THEOREM RecordIsTrue == Spec => []RecordTellsTruth
<1>1. TypeOK /\ PublishInv => RecordTellsTruth
  <2> SUFFICES ASSUME TypeOK, PublishInv, NEW c \in Calls, call[c].step = "done"
               PROVE  LET results == record[c].results
                          successes == {t \in Targets : results[t].success}
                      IN  /\ results \in [Targets -> Entry]
                          /\ record[c].status \in {Verdict(successes, Targets), "CANCELED"}
                          /\ successes \subseteq live[c]
    BY DEF RecordTellsTruth
  <2>1. RecordInv(c) /\ \A t \in Targets : TaskInv(c, t)
    BY DEF PublishInv
  <2>2. record[c].results = FinalResults(c) /\ FinalResults(c) \in [Targets -> Entry]
    BY <2>1, FinalResultsType DEF RecordInv
  <2>3. {t \in Targets : FinalResults(c)[t].success} = Succeeded(c)
    BY DEF FinalResults, Succeeded
  <2>4. Succeeded(c) \subseteq live[c]
    BY <2>1 DEF TaskInv, Succeeded
  <2> QED
    BY <2>1, <2>2, <2>3, <2>4 DEF RecordInv
<1> QED
  BY <1>1, PublishInvariant, PTL

(* A target reported as scheduled for a retry has its job, and no other    *)
(* target of the call has one.                                             *)
THEOREM RetryIsQueued == Spec => []PromisedRetryQueued
<1>1. TypeOK /\ PublishInv => PromisedRetryQueued
  <2> SUFFICES ASSUME TypeOK, PublishInv, NEW c \in Calls, NEW t \in Targets,
                      call[c].step = "done"
               PROVE  record[c].results[t].promised <=> <<c, t>> \in queue \cup dropped
    BY DEF PromisedRetryQueued
  <2>1. /\ RecordInv(c) /\ TaskInv(c, t)
        /\ task[c][t].step \in {"ok", "failed"}
    BY DEF PublishInv, RecordInv, AllSettled
  <2>2. record[c].results[t].promised = (t \notin Succeeded(c))
    BY <2>1 DEF RecordInv, FinalResults
  <2> QED
    BY <2>1, <2>2 DEF TaskInv, Succeeded
<1> QED
  BY <1>1, PublishInvariant, PTL

(* The two reads of the status query agree whenever the first one found a  *)
(* verdict and the second one came back; one that failed answers the       *)
(* verdict with an empty list.                                             *)
THEOREM AnswersMatch == Spec => []AnswerMatches
<1>1. TypeOK /\ PublishInv => AnswerMatches
  <2> SUFFICES ASSUME TypeOK, PublishInv, NEW r \in Readers,
                      answer[r].step \in {"done", "missed"}, answer[r].status \in Verdicts
               PROVE  IF answer[r].step = "missed" THEN answer[r].results = EmptyResults
                      ELSE /\ answer[r].results \in [Targets -> Entry]
                           /\ answer[r].status =
                                Verdict({t \in Targets : answer[r].results[t].success},
                                        Targets)
    BY DEF AnswerMatches
  <2> DEFINE c == answer[r].call
  <2>1. /\ c \in Calls /\ answer[r].status = Verdict(Succeeded(c), Targets)
        /\ answer[r].step = "done" => answer[r].results = FinalResults(c)
        /\ answer[r].step = "missed" => answer[r].results = EmptyResults
    BY DEF TypeOK, PublishInv, AnswerInv
  <2>2. {t \in Targets : FinalResults(c)[t].success} = Succeeded(c)
    BY DEF FinalResults, Succeeded
  <2> HIDE DEF c
  <2> QED
    BY <2>1, <2>2, FinalResultsType
<1> QED
  BY <1>1, PublishInvariant, PTL

-----------------------------------------------------------------------------
(* What a caller sees implements PublishPromise. *)

LEMMA InitPromise == Init => Promise!PromiseInit
BY DEF Init, Promise!PromiseInit, Phase

(* A call settles with the verdict of the tasks that came back, each of    *)
(* which is on its target.                                                 *)
LEMMA NextPromise ==
  TypeOK /\ PublishInv /\ [Next]_vars => [Promise!PromiseNext]_(Promise!promiseVars)
<1> SUFFICES ASSUME TypeOK, PublishInv, [Next]_vars
             PROVE  Promise!PromiseNext \/ UNCHANGED Promise!promiseVars
  OBVIOUS
<1> DEFINE VerdictOf(c) == IF call[c].step = "done"
                           THEN Verdict(Succeeded(c), Targets) ELSE "none"
           phase == [c \in Calls |-> Phase(c)]
           verdict == [c \in Calls |-> VerdictOf(c)]
<1>1. ASSUME NEW d \in Calls, call'[d] = call[d],
             call[d].step = "done" => task'[d] = task[d]
      PROVE  Phase(d)' = Phase(d) /\ VerdictOf(d)' = VerdictOf(d)
  BY <1>1, SameTasks DEF Phase
<1>2. ASSUME NEW c \in Calls, \A d \in Calls \ {c} : call'[d] = call[d], UNCHANGED task
      PROVE  /\ phase' = [phase EXCEPT ![c] = Phase(c)']
             /\ verdict' = [verdict EXCEPT ![c] = VerdictOf(c)']
  <2>1. \A d \in Calls \ {c} : Phase(d)' = Phase(d) /\ VerdictOf(d)' = VerdictOf(d)
    BY <1>1, <1>2
  <2> HIDE DEF VerdictOf
  <2> QED
    BY <2>1
<1>3. ASSUME UNCHANGED call, \A d \in Calls : call[d].step = "done" => task'[d] = task[d]
      PROVE  UNCHANGED <<phase, verdict>>
  <2>1. \A d \in Calls : Phase(d)' = Phase(d) /\ VerdictOf(d)' = VerdictOf(d)
    BY <1>1, <1>3
  <2> HIDE DEF VerdictOf
  <2> QED
    BY <2>1
<1>4. CASE UserStep \/ UNCHANGED vars
  <2>1. UNCHANGED <<call, task, live>>
    BY <1>4 DEF UserStep, CancelPublish, CancelRetry, RetryPublish, ReadRecord, ReadRecordFails, ReadStatus, vars
  <2> QED
    BY <1>3, <2>1 DEF Promise!promiseVars
<1>5. ASSUME NEW c \in Calls, Start(c) \/ ProcessAndUploadMedia(c) \/ AttachMedia(c)
      PROVE  UNCHANGED Promise!promiseVars
  <2>1. /\ UNCHANGED <<task, live>> /\ \A d \in Calls \ {c} : call'[d] = call[d]
        /\ call[c].step \in {"idle", "media", "attach"}
        /\ call'[c].step \in {"media", "attach", "publish"}
    BY <1>5 DEF Start, ProcessAndUploadMedia, AttachMedia, GoTo, TypeOK
  <2>2. /\ Phase(c) = "open" /\ Phase(c)' = "open"
        /\ VerdictOf(c) = "none" /\ VerdictOf(c)' = "none"
    BY <2>1 DEF Phase
  <2>3. UNCHANGED <<phase, verdict>>
    <3>1. \A d \in Calls : Phase(d)' = Phase(d) /\ VerdictOf(d)' = VerdictOf(d)
      BY <1>1, <2>1, <2>2
    <3> HIDE DEF VerdictOf
    <3> QED
      BY <3>1
  <2> QED
    BY <2>1, <2>3 DEF Promise!promiseVars
<1>6. ASSUME NEW c \in Calls, NEW t \in Targets, TaskStep(c, t)
      PROVE  Promise!PromiseNext \/ UNCHANGED Promise!promiseVars
  <2>1. /\ call[c].step = "publish" /\ UNCHANGED call
        /\ UNCHANGED live \/ live' = [live EXCEPT ![c] = @ \cup {t}]
    <3>1. call[c].step = "publish"
      BY <1>6, TaskOfOpenCall
    <3> QED
      BY <1>6, <3>1 DEF TaskStep, PublishOk, PublishFails, Enqueue, EnqueueFails,
         ReadForRetry, WriteForRetry, UpdateForRetryFails
  <2>2. \A d \in Calls \ {c} : task'[d] = task[d]
    <3>1. CASE ReadForRetry(c, t)
      BY <3>1 DEF ReadForRetry, TypeOK
    <3>2. CASE ~ReadForRetry(c, t)
      <4>1. \E step \in TaskSteps : TaskGoesTo(c, t, step)
        BY <1>6, <3>2 DEF TaskStep, PublishOk, PublishFails, Enqueue, EnqueueFails,
           WriteForRetry, UpdateForRetryFails, TaskSteps
      <4> QED
        BY <4>1, TaskMoves
    <3> QED
      BY <3>1, <3>2
  <2>3. UNCHANGED <<phase, verdict>>
    BY <1>3, <2>1, <2>2
  <2>4. phase[c] = "open"
    BY <2>1 DEF Phase
  <2>5. CASE UNCHANGED live
    BY <2>3, <2>5 DEF Promise!promiseVars
  <2>6. CASE live' = [live EXCEPT ![c] = @ \cup {t}]
    BY <2>3, <2>4, <2>6 DEF Promise!PromiseNext, Promise!Reach
  <2> QED
    BY <2>1, <2>5, <2>6
<1>7. ASSUME NEW c \in Calls, Finish(c)
      PROVE  Promise!Settle(c)
  <2>1. /\ UNCHANGED <<task, live>> /\ \A d \in Calls \ {c} : call'[d] = call[d]
        /\ call[c].step = "publish" /\ call'[c].step = "done"
    BY <1>7 DEF Finish, GoTo, TypeOK
  <2>2. Phase(c) = "open" /\ Phase(c)' = "settled"
    BY <2>1 DEF Phase
  <2>3. VerdictOf(c)' = Verdict(Succeeded(c), Targets)
    BY <2>1, SameTasks
  <2>4. Succeeded(c) \in SUBSET live[c]
    BY DEF PublishInv, TaskInv, Succeeded
  <2> QED
    <3>1. /\ phase[c] = "open" /\ phase' = [phase EXCEPT ![c] = "settled"]
          /\ verdict' = [verdict EXCEPT ![c] = Verdict(Succeeded(c), Targets)]
      <4> HIDE DEF VerdictOf
      <4> QED
        BY <1>2, <2>1, <2>2, <2>3
    <3>2. \A successes : Promise!Verdict(successes, Targets) = Verdict(successes, Targets)
      BY DEF Promise!Verdict, Verdict
    <3>3. \E successes \in SUBSET live[c] :
            verdict' = [verdict EXCEPT ![c] = Promise!Verdict(successes, Targets)]
      <4> HIDE DEF verdict
      <4> QED
        BY <2>4, <3>1, <3>2
    <3> QED
      BY <2>1, <3>1, <3>3 DEF Promise!Settle
<1>8. ASSUME NEW c \in Calls, Throw(c) \/ Crash(c)
      PROVE  Promise!Break(c)
  <2>1. /\ UNCHANGED <<task, live>> /\ \A d \in Calls \ {c} : call'[d] = call[d]
        /\ call[c].step \in {"idle", "media", "attach", "publish"}
        /\ call'[c].step \in {"threw", "dead"}
    BY <1>8 DEF Throw, Crash, GoTo, TypeOK, OpenSteps
  <2>2. /\ Phase(c) = "open" /\ Phase(c)' = "broken"
        /\ VerdictOf(c) = "none" /\ VerdictOf(c)' = "none"
    BY <2>1 DEF Phase
  <2>3. phase' = [phase EXCEPT ![c] = "broken"] /\ phase[c] = "open" /\ verdict' = verdict
    BY <1>2, <2>1, <2>2
  <2> QED
    BY <2>1, <2>3 DEF Promise!Break
<1> QED
  BY <1>4, <1>5, <1>6, <1>7, <1>8 DEF Next, CallStep, Promise!PromiseNext

(* Whatever fails, crashes or is cancelled meanwhile, a caller sees what   *)
(* PublishPromise allows: targets are reached while the call is open, and  *)
(* it settles once, with a verdict of targets that were reached.           *)
THEOREM PublisherKeepsPromise == Spec => KeepsPromise
BY InitPromise, NextPromise, PublishInvariant, PTL
DEF Spec, KeepsPromise, Promise!PromiseSpec
-----------------------------------------------------------------------------
(* What the record of a call that is not over says. *)

(* Only a call that is open, or that threw or died, leaves its record      *)
(* PENDING; a record is missing exactly before its call, or when the first *)
(* save failed.                                                            *)
PendingIsOpen ==
  \A c \in Calls :
    /\ record[c].status = "PENDING" => call[c].step \in OpenSteps \cup {"threw", "dead"}
    /\ record[c].status = "absent" => call[c].step \in {"idle", "threw"}
    /\ call[c].step = "idle" => record[c].status = "absent"

(* updatePublishRecord marks the result of a target as retryScheduled, but *)
(* it runs while there are no results yet, and Finish writes its own: no   *)
(* result is ever marked, and nothing looks like an outcome before Finish. *)
RetryMarksNothing ==
  \A c \in Calls :
    IF call[c].step = "done" THEN \A t \in Targets : ~record[c].results[t].scheduled
    ELSE record[c].results \in {Null, EmptyResults}

Bare(results) == results \in {Null, EmptyResults}

BareInv ==
  \A c \in Calls : call[c].step # "done" =>
    /\ Bare(record[c].results)
    /\ \A t \in Targets : task[c][t].step = "write" => Bare(task[c][t].copy)

LEMMA BareMark == \A results, t : Bare(results) => Bare(MarkRetry(results, t))
BY DEF Bare, MarkRetry, OrEmpty, EmptyResults

(* The calls whose record and whose tasks' copies stay stay bare.          *)
LEMMA BareKept ==
  ASSUME TypeOK, BareInv,
         \A c \in Calls :
           \/ call'[c].step = "done"
           \/ /\ call[c].step # "done"
              /\ record'[c].results = record[c].results \/ Bare(record'[c].results)
              /\ \A t \in Targets : task'[c][t].step = "write" =>
                   task[c][t].step = "write" /\ task'[c][t].copy = task[c][t].copy
  PROVE  BareInv'
BY DEF BareInv, Bare

LEMMA TaskBare ==
  ASSUME TypeOK, PublishInv, BareInv, NEW c \in Calls, NEW t \in Targets, TaskStep(c, t)
  PROVE  BareInv'
<1>1. call[c].step = "publish" /\ UNCHANGED call
  BY TaskOfOpenCall
  DEF TaskStep, PublishOk, PublishFails, Enqueue, EnqueueFails, ReadForRetry, WriteForRetry,
      UpdateForRetryFails
<1>2. ASSUME NEW step \in {"ok", "enqueue", "read", "failed"}, TaskGoesTo(c, t, step),
             \A d \in Calls : record'[d].results = record[d].results \/
                              (d = c /\ Bare(record'[d].results))
      PROVE  BareInv'
  <2>1. ASSUME NEW d \in Calls, NEW u \in Targets, task'[d][u].step = "write"
        PROVE  task[d][u].step = "write" /\ task'[d][u].copy = task[d][u].copy
    BY <1>2, <2>1, TaskMoves
  <2>2. \A d \in Calls : call[d].step = "done" => call'[d].step = "done"
    BY <1>1
  <2> QED
    BY <1>2, <2>1, <2>2, BareKept
<1>3. CASE ReadForRetry(c, t)
  <2> DEFINE new == [step |-> "write", copy |-> record[c].results]
  <2>1. /\ task \in [Calls -> [Targets -> [step : TaskSteps, copy : Results]]]
        /\ task' = [task EXCEPT ![c] = [task[c] EXCEPT ![t] = new]] /\ UNCHANGED record
        /\ new.copy = record[c].results
    BY <1>3 DEF ReadForRetry, TypeOK
  <2> HIDE DEF new
  <2>2. \A d \in Calls, u \in Targets :
          task'[d][u] = IF d = c /\ u = t THEN new ELSE task[d][u]
    BY <2>1
  <2> QED
    BY <1>1, <2>1, <2>2 DEF BareInv
<1>4. CASE WriteForRetry(c, t)
  <2>1. Bare(task[c][t].copy)
    BY <1>1, <1>4 DEF WriteForRetry, At, BareInv
  <2>2. /\ record'[c].results = MarkRetry(task[c][t].copy, t)
        /\ \A d \in Calls \ {c} : record'[d] = record[d]
    BY <1>4 DEF WriteForRetry, TypeOK
  <2> QED
    BY <1>2, <1>4, <2>1, <2>2, BareMark DEF WriteForRetry
<1>5. CASE UNCHANGED record /\ ~ReadForRetry(c, t)
  <2>1. PICK step \in {"ok", "enqueue", "read", "failed"} : TaskGoesTo(c, t, step)
    BY <1>5 DEF TaskStep, PublishOk, PublishFails, Enqueue, EnqueueFails, WriteForRetry,
                UpdateForRetryFails
  <2> QED
    BY <1>2, <1>5, <2>1
<1> QED
  BY <1>3, <1>4, <1>5
  DEF TaskStep, PublishOk, PublishFails, Enqueue, EnqueueFails, UpdateForRetryFails

LEMMA NextBare == TypeOK /\ PublishInv /\ BareInv /\ [Next]_vars => BareInv'
<1> SUFFICES ASSUME TypeOK, PublishInv, BareInv, [Next]_vars PROVE BareInv'
  OBVIOUS
<1>0. call \in [Calls -> [step : CallSteps, media : BOOLEAN]]
        /\ record \in [Calls -> [status : PublishStatus \cup {"absent"}, results : Results]]
  BY DEF TypeOK
<1>1. ASSUME UNCHANGED task, \A c \in Calls : call[c].step = "done" => call'[c].step = "done",
             \A c \in Calls : \/ call'[c].step = "done"
                              \/ record'[c].results = record[c].results
                              \/ Bare(record'[c].results)
      PROVE  BareInv'
  BY <1>1, BareKept
<1>2. ASSUME NEW c \in Calls, Start(c) PROVE BareInv'
  BY <1>0, <1>1, <1>2 DEF Start, GoTo, Bare
<1>3. ASSUME NEW c \in Calls,
             \/ ProcessAndUploadMedia(c) \/ AttachMedia(c) \/ Finish(c) \/ Throw(c) \/ Crash(c)
      PROVE  BareInv'
  <2>1. UNCHANGED task /\ (UNCHANGED record \/ call'[c].step = "done")
          /\ \A d \in Calls \ {c} : record'[d] = record[d]
    BY <1>0, <1>3 DEF ProcessAndUploadMedia, AttachMedia, Finish, Throw, Crash, GoTo
  <2>2. \A d \in Calls : call[d].step = "done" => call'[d].step = "done"
    BY <1>0, <1>3 DEF ProcessAndUploadMedia, AttachMedia, Finish, Throw, Crash, GoTo, OpenSteps
  <2> QED
    BY <1>1, <2>1, <2>2
<1>4. CASE UserStep
  <2>1. UNCHANGED <<task, call>>
    BY <1>4 DEF UserStep, CancelPublish, RetryPublish, CancelRetry, ReadRecord, ReadRecordFails, ReadStatus
  <2>2. UNCHANGED record \/ \E c \in Calls : record' = [record EXCEPT ![c].status = "CANCELED"]
    BY <1>4 DEF UserStep, CancelPublish, RetryPublish, CancelRetry, ReadRecord, ReadRecordFails, ReadStatus
  <2>3. \A d \in Calls : record'[d].results = record[d].results
    BY <1>0, <2>2
  <2> QED
    BY <1>1, <2>1, <2>3
<1>5. CASE UNCHANGED vars
  BY <1>1, <1>5 DEF vars
<1> QED
  BY <1>2, <1>3, <1>4, <1>5, TaskBare DEF Next, CallStep

(* The mark of a retry is never seen in a result.                          *)
THEOREM RetriesAreUnmarked == Spec => []RetryMarksNothing
<1>1. Init => BareInv
  BY DEF Init, BareInv, Bare, Absent
<1>2. PublishInv /\ BareInv => RetryMarksNothing
  <2>1. \A c \in Calls, t \in Targets : FinalResults(c)[t].scheduled = FALSE
    BY DEF FinalResults
  <2>2. PublishInv => \A c \in Calls : call[c].step = "done" => record[c].results = FinalResults(c)
    BY DEF PublishInv, RecordInv
  <2> QED
    BY <2>1, <2>2 DEF BareInv, Bare, RetryMarksNothing
<1> QED
  BY <1>1, <1>2, NextBare, PublishInvariant, PTL DEF Spec

LEMMA NextOpen == TypeOK /\ PublishInv /\ PendingIsOpen /\ [Next]_vars => PendingIsOpen'
<1> SUFFICES ASSUME TypeOK, PublishInv, PendingIsOpen, [Next]_vars PROVE PendingIsOpen'
  OBVIOUS
<1>0. call \in [Calls -> [step : CallSteps, media : BOOLEAN]]
        /\ record \in [Calls -> [status : PublishStatus \cup {"absent"}, results : Results]]
  BY DEF TypeOK
<1>1. ASSUME UNCHANGED call,
             \A c \in Calls : \/ record'[c].status = record[c].status
                              \/ record[c].status # "absent" /\ record'[c].status = "CANCELED"
      PROVE  PendingIsOpen'
  BY <1>1 DEF PendingIsOpen
<1>2. ASSUME NEW c \in Calls, Start(c) PROVE PendingIsOpen'
  BY <1>0, <1>2 DEF Start, GoTo, PendingIsOpen, OpenSteps
<1>3. ASSUME NEW c \in Calls, ProcessAndUploadMedia(c) \/ AttachMedia(c) \/ Throw(c) \/ Crash(c)
      PROVE  PendingIsOpen'
  <2>1. UNCHANGED record /\ \A d \in Calls \ {c} : call'[d] = call[d]
    BY <1>0, <1>3 DEF ProcessAndUploadMedia, AttachMedia, Throw, Crash, GoTo
  <2>2. /\ call'[c].step \in OpenSteps \cup {"threw", "dead"}
        /\ call'[c].step # "threw" => call[c].step \in OpenSteps
    BY <1>0, <1>3 DEF ProcessAndUploadMedia, AttachMedia, Throw, Crash, GoTo, OpenSteps
  <2>3. /\ call[c].step \in OpenSteps => call[c].step \notin {"idle", "threw"}
        /\ call'[c].step # "idle"
    BY <2>2 DEF OpenSteps
  <2> QED
    BY <2>1, <2>2, <2>3 DEF PendingIsOpen
<1>4. ASSUME NEW c \in Calls, Finish(c) PROVE PendingIsOpen'
  <2>1. /\ \A d \in Calls \ {c} : call'[d] = call[d] /\ record'[d] = record[d]
        /\ record'[c].status = Verdict(Succeeded(c), Targets)
        /\ call'[c].step = "done"
    BY <1>0, <1>4 DEF Finish, GoTo
  <2>2. record'[c].status \notin {"PENDING", "absent"}
    BY <2>1 DEF Verdict
  <2> QED
    BY <2>1, <2>2 DEF PendingIsOpen
<1>5. ASSUME NEW c \in Calls, NEW t \in Targets, TaskStep(c, t) PROVE PendingIsOpen'
  <2>1. UNCHANGED call /\ \A d \in Calls : record'[d].status = record[d].status
    BY <1>0, <1>5 DEF TaskStep, PublishOk, PublishFails, Enqueue, EnqueueFails, ReadForRetry,
       WriteForRetry, UpdateForRetryFails
  <2> QED
    BY <1>1, <2>1
<1>6. CASE UserStep
  <2>1. UNCHANGED call /\ \A d \in Calls :
           \/ record'[d].status = record[d].status
           \/ record[d].status # "absent" /\ record'[d].status = "CANCELED"
    BY <1>0, <1>6 DEF UserStep, CancelPublish, RetryPublish, CancelRetry, ReadRecord, ReadRecordFails, ReadStatus
  <2> QED
    BY <1>1, <2>1
<1>7. CASE UNCHANGED vars
  BY <1>1, <1>7 DEF vars
<1> QED
  BY <1>2, <1>3, <1>4, <1>5, <1>6, <1>7 DEF Next, CallStep

(* What PendingResolved rests on: a record is never PENDING when its call  *)
(* is over.                                                                *)
THEOREM PendingHasCall == Spec => []PendingIsOpen
<1>1. Init => PendingIsOpen
  BY DEF Init, PendingIsOpen, Absent
<1> QED
  BY <1>1, NextOpen, PublishInvariant, PTL DEF Spec

(* A cancellation is undone by nothing of its call but the verdict.        *)
THEOREM CancellationsYield == Spec => CancelYieldsToVerdict
<1> DEFINE Kept(c) ==
      record[c].status = "CANCELED" /\ record'[c].status # "CANCELED" =>
        /\ \A t \in Targets : task[c][t].step \in {"ok", "failed"}
        /\ record'[c].status \in Verdicts /\ call'[c].step = "done"
<1>1. TypeOK /\ PendingIsOpen /\ [Next]_vars => [\A c \in Calls : Kept(c)]_vars
  <2> SUFFICES ASSUME TypeOK, PendingIsOpen, Next, NEW c \in Calls PROVE Kept(c)
    OBVIOUS
  <2>0. /\ call \in [Calls -> [step : CallSteps, media : BOOLEAN]]
        /\ record \in [Calls -> [status : PublishStatus \cup {"absent"}, results : Results]]
    BY DEF TypeOK
  <2>1. ASSUME NEW d \in Calls, Start(d) PROVE Kept(c)
    <3>1. record[d].status = "absent"
      BY <2>1 DEF Start, PendingIsOpen
    <3> QED
      BY <2>0, <2>1, <3>1 DEF Start
  <2>2. ASSUME NEW d \in Calls,
               ProcessAndUploadMedia(d) \/ AttachMedia(d) \/ Throw(d) \/ Crash(d)
        PROVE  Kept(c)
    BY <2>2 DEF ProcessAndUploadMedia, AttachMedia, Throw, Crash
  <2>3. ASSUME NEW d \in Calls, Finish(d) PROVE Kept(c)
    <3>1. CASE c = d
      <4>1. record'[c].status \in Verdicts /\ call'[c].step = "done"
        BY <2>0, <2>3, <3>1, VerdictType DEF Finish, GoTo
      <4> QED
        BY <2>3, <3>1, <4>1 DEF Finish, AllSettled
    <3>2. CASE c # d
      BY <2>0, <2>3, <3>2 DEF Finish
    <3> QED
      BY <3>1, <3>2
  <2>4. ASSUME NEW d \in Calls, NEW t \in Targets, TaskStep(d, t) PROVE Kept(c)
    BY <2>0, <2>4 DEF TaskStep, PublishOk, PublishFails, Enqueue, EnqueueFails, ReadForRetry,
       WriteForRetry, UpdateForRetryFails
  <2>5. CASE UserStep
    BY <2>0, <2>5 DEF UserStep, CancelPublish, RetryPublish, CancelRetry, ReadRecord,
       ReadRecordFails, ReadStatus
  <2> QED
    BY <2>1, <2>2, <2>3, <2>4, <2>5 DEF Next, CallStep
<1>2. Spec => []PendingIsOpen
  BY PendingHasCall
<1>3. Spec => []TypeOK
  BY TypeCorrect
<1> QED
  BY <1>1, <1>2, <1>3, PTL DEF Spec, CancelYieldsToVerdict
=============================================================================
