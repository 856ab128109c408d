-------------------------- MODULE ContentPublisher --------------------------
(***************************************************************************)
(* ContentPublisherService.publishContentWithMedia with RetryQueueService. *)
(*                                                                         *)
(* One call creates one publish record, uploads the media, posts to every  *)
(* target in parallel (Promise.allSettled) and writes the record's status  *)
(* and results at the end.  The task of a target that failed adds a retry  *)
(* job and then reads the record and writes its results back, in two       *)
(* steps, while the other tasks do the same.  Next to the calls run the    *)
(* handlers of the controller: the status query (two reads), the           *)
(* cancellation of a record, the manual retry and the removal of a job.    *)
(*                                                                         *)
(* Each await of the code ends an action here.  The targets of a call are  *)
(* distinct platforms.  No code consumes the queue, so nothing here does.  *)
(***************************************************************************)
EXTENDS Naturals, FiniteSets, PublishVerdict

CONSTANTS
  Calls,       \* calls of publishContentWithMedia, and the records they save
  Targets,     \* the platforms each call addresses
  NeedsMedia,  \* those that refuse a post without media: Instagram, TikTok
  Accounts,    \* the account ids a manual retry may name
  Readers,     \* clients of the status query
  Null         \* a column that was never written

ASSUME TargetsAssumption == NeedsMedia \subseteq Targets
ASSUME AccountsAssumption == Null \notin Accounts

VARIABLES
  record,   \* the publish_records table
  call,     \* the state of each call: its step, and whether it has media
  task,     \* the state of each target's branch of Promise.allSettled
  queue,    \* the jobs in the platform-publish queue, <<call, target>>
  dropped,  \* jobs whose enqueueing failed or that a user removed
  manual,   \* the answer to the last manual retry of a call
  live,     \* external: the targets on which the content really is
  answer    \* the state of each status query, and what it answers

vars == <<record, call, task, queue, dropped, manual, live, answer>>

Jobs == Calls \X Targets

(* An element of record.results: success and scheduled_for_retry as the    *)
(* publisher writes them, retryScheduled as updatePublishRecord does.      *)
Entry == [success : BOOLEAN, promised : BOOLEAN, scheduled : BOOLEAN]
EmptyResults == [t \in {} |-> Null]  \* the empty list
Results == {Null, EmptyResults} \cup [Targets -> Entry]

ASSUME NullAssumption == Null \notin [Targets -> Entry]

CallSteps ==
  {"idle", "media", "attach", "publish", "done", "threw", "dead"}
TaskSteps == {"ready", "enqueue", "read", "write", "ok", "failed"}
OpenSteps == {"media", "attach", "publish"}

Absent == [status |-> "absent", results |-> Null]
Silent == [step |-> "idle", call |-> Null, status |-> Null, results |-> Null]

(* Records, calls, tasks and jobs are well typed: what the bookkeeping of  *)
(* a retry writes back is one entry per target again.                      *)
TypeOK ==
  /\ record \in
       [Calls -> [status : PublishStatus \cup {"absent"}, results : Results]]
  /\ call \in [Calls -> [step : CallSteps, media : BOOLEAN]]
  /\ task \in [Calls -> [Targets -> [step : TaskSteps, copy : Results]]]
  /\ queue \in SUBSET Jobs
  /\ dropped \in SUBSET Jobs
  /\ manual \in [Calls -> {"none", "refused", "accepted"}]
  /\ live \in [Calls -> SUBSET Targets]
  /\ answer \in [Readers -> [step : {"idle", "read", "done", "missed"},
                             call : Calls \cup {Null},
                             status : PublishStatus \cup {Null},
                             results : Results]]
  /\ \A r \in Readers : answer[r].step # "idle" => answer[r].call \in Calls

Init ==
  /\ record = [c \in Calls |-> Absent]
  /\ call = [c \in Calls |-> [step |-> "idle", media |-> FALSE]]
  /\ task = [c \in Calls |->
               [t \in Targets |-> [step |-> "ready", copy |-> Null]]]
  /\ queue = {}
  /\ dropped = {}
  /\ manual = [c \in Calls |-> "none"]
  /\ live = [c \in Calls |-> {}]
  /\ answer = [r \in Readers |-> Silent]

-----------------------------------------------------------------------------
(* Small helpers on the state. *)

GoTo(c, step) == call' = [call EXCEPT ![c].step = step]
TaskGoesTo(c, t, step) == task' = [task EXCEPT ![c][t].step = step]

(* results || [] *)
OrEmpty(results) == IF results = Null THEN EmptyResults ELSE results

(* A task runs from its first step to its last as long as the process      *)
(* lives; only Promise.allSettled makes the call wait for it.              *)
At(c, t, step) ==
  call[c].step \in {"publish", "done"} /\ task[c][t].step = step

Succeeded(c) == {t \in Targets : task[c][t].step = "ok"}

(* MUTATION: an entry that is not found is added. *)
MarkRetryAdds(results, t) ==
  LET list == OrEmpty(results)
  IN  [u \in DOMAIN list \cup {t} |->
         IF u = t THEN [success |-> FALSE, promised |-> TRUE, scheduled |-> TRUE]
         ELSE list[u]]

(* What updatePublishRecord writes back: an entry found for the target is  *)
(* marked, and the list is written whether or not one was found.           *)
MarkRetry(results, t) ==
  LET list == OrEmpty(results)
  IN  IF t \in DOMAIN list
      THEN [list EXCEPT ![t].scheduled = TRUE]
      ELSE list

(* The results of a call all of whose tasks have settled. *)
FinalResults(c) ==
  [t \in Targets |-> [success |-> t \in Succeeded(c),
                      promised |-> t \notin Succeeded(c),
                      scheduled |-> FALSE]]

-----------------------------------------------------------------------------
(* One call of publishContentWithMedia. *)

(* The record is saved as PENDING, before anything else happens. *)
Start(c) ==
  /\ call[c].step = "idle"
  /\ record' = [record EXCEPT ![c] = [status |-> "PENDING", results |-> Null]]
  /\ GoTo(c, "media")
  /\ UNCHANGED <<task, queue, dropped, manual, live, answer>>

(* An upload that fails is skipped, so a call asked to publish media may   *)
(* go on with none of it.                                                  *)
ProcessAndUploadMedia(c) ==
  /\ call[c].step = "media"
  /\ \E media \in BOOLEAN :
        call' = [call EXCEPT ![c] = [step |-> "attach", media |-> media]]
  /\ UNCHANGED <<record, task, queue, dropped, manual, live, answer>>

(* The update of mediaItems, a column no property here looks at. *)
AttachMedia(c) ==
  /\ call[c].step = "attach"
  /\ GoTo(c, "publish")
  /\ UNCHANGED <<record, task, queue, dropped, manual, live, answer>>

PublishOk(c, t) ==
  /\ At(c, t, "ready")
  /\ t \in NeedsMedia => call[c].media
  /\ live' = [live EXCEPT ![c] = @ \cup {t}]
  /\ TaskGoesTo(c, t, "ok")
  /\ UNCHANGED <<record, call, queue, dropped, manual, answer>>

(* MUTATION: the retry is promised but not added. *)
PublishFailsForGood(c, t) ==
  /\ At(c, t, "ready")
  /\ TaskGoesTo(c, t, "failed")
  /\ UNCHANGED <<record, call, queue, dropped, manual, live, answer>>

(* publishToPlatform throws: no media, or the platform refused the post,   *)
(* or it took it and the answer was lost on the way.                       *)
PublishFails(c, t) ==
  /\ At(c, t, "ready")
  /\ \/ UNCHANGED live
     \/ /\ t \in NeedsMedia => call[c].media
        /\ live' = [live EXCEPT ![c] = @ \cup {t}]
  /\ TaskGoesTo(c, t, "enqueue")
  /\ UNCHANGED <<record, call, queue, dropped, manual, answer>>

-----------------------------------------------------------------------------
(* RetryQueueService.addToRetryQueue, awaited by the failed task. *)

Enqueue(c, t) ==
  /\ At(c, t, "enqueue")
  /\ queue' = queue \cup {<<c, t>>}
  /\ TaskGoesTo(c, t, "read")
  /\ UNCHANGED <<record, call, dropped, manual, live, answer>>

(* The queue cannot be reached: the error is logged and swallowed. *)
EnqueueFails(c, t) ==
  /\ At(c, t, "enqueue")
  /\ dropped' = dropped \cup {<<c, t>>}
  /\ TaskGoesTo(c, t, "failed")
  /\ UNCHANGED <<record, call, queue, manual, live, answer>>

(* updatePublishRecord reads the record ... *)
ReadForRetry(c, t) ==
  /\ At(c, t, "read")
  /\ task' = [task EXCEPT ![c][t] =
                [step |-> "write", copy |-> record[c].results]]
  /\ UNCHANGED <<record, call, queue, dropped, manual, live, answer>>

(* MUTATION: the record is saved as a whole, as it was read. *)
WriteForRetrySavesAll(c, t) ==
  /\ At(c, t, "write")
  /\ record' = [record EXCEPT ![c] = [status |-> "PENDING", results |-> MarkRetry(task[c][t].copy, t)]]
  /\ TaskGoesTo(c, t, "failed")
  /\ UNCHANGED <<call, queue, dropped, manual, live, answer>>

(* ... and writes all of its results back. *)
WriteForRetry(c, t) ==
  /\ At(c, t, "write")
  /\ record' = [record EXCEPT ![c].results = MarkRetry(task[c][t].copy, t)]
  /\ TaskGoesTo(c, t, "failed")
  /\ UNCHANGED <<call, queue, dropped, manual, live, answer>>

(* Either of the two fails: logged and swallowed again. *)
UpdateForRetryFails(c, t) ==
  /\ At(c, t, "read") \/ At(c, t, "write")
  /\ TaskGoesTo(c, t, "failed")
  /\ UNCHANGED <<record, call, queue, dropped, manual, live, answer>>

-----------------------------------------------------------------------------
(* The end of a call. *)

(* MUTATION: the retry bookkeeping of a failed task is not awaited. *)
AllSettledUnawaited(c) == \A t \in Targets : task[c][t].step # "ready"

(* MUTATION: Promise.race in the place of Promise.allSettled. *)
AllSettledByRace(c) == \E t \in Targets : task[c][t].step \in {"ok", "failed"}

(* MUTATION: Promise.all in the place of Promise.allSettled. *)
AllSettledOnlyOk(c) == \A t \in Targets : task[c][t].step = "ok"

(* Promise.allSettled: a task has settled once all its awaits are over. *)
AllSettled(c) == \A t \in Targets : task[c][t].step \in {"ok", "failed"}

(* Status and results are written by one update, whatever the record's     *)
(* status has become meanwhile.                                            *)
Finish(c) ==
  /\ call[c].step = "publish"
  /\ AllSettled(c)
  /\ record' = [record EXCEPT ![c] =
                  [status |-> Verdict(Succeeded(c), Targets),
                   results |-> FinalResults(c)]]
  /\ GoTo(c, "done")
  /\ UNCHANGED <<task, queue, dropped, manual, live, answer>>

(* The database refuses the save or one of the two updates: the call       *)
(* rethrows, and the record stays as it is.                                *)
Throw(c) ==
  /\ \/ call[c].step \in {"idle", "attach"}
     \/ call[c].step = "publish" /\ AllSettled(c)
  /\ GoTo(c, "threw")
  /\ UNCHANGED <<record, task, queue, dropped, manual, live, answer>>

(* The process dies; nothing looks for calls that were open. *)
Crash(c) ==
  /\ call[c].step \in OpenSteps
  /\ GoTo(c, "dead")
  /\ UNCHANGED <<record, task, queue, dropped, manual, live, answer>>

-----------------------------------------------------------------------------
(* The other handlers of the controller. *)

(* PATCH cancel/:publishId, updatePublishStatus with CANCELED: the status  *)
(* is overwritten whatever it is.                                          *)
CancelPublish(c) ==
  /\ record[c].status # "absent"
  /\ record' = [record EXCEPT ![c].status = "CANCELED"]
  /\ UNCHANGED <<call, task, queue, dropped, manual, live, answer>>

(* POST retry/:publishId/:platform/:accountId: retryPublish looks in the   *)
(* record's platforms for the platform AND the account, but the publisher  *)
(* stores the platform alone, so it finds nothing and answers false.       *)
StoredAccount == Null
RetryPublish(c, t, account) ==
  /\ record[c].status # "absent"
  /\ LET found == StoredAccount = account IN
       /\ queue' = queue \cup {j \in {<<c, t>>} : found}
       /\ manual' = [manual EXCEPT ![c] =
                       IF found THEN "accepted" ELSE "refused"]
  /\ UNCHANGED <<record, call, task, dropped, live, answer>>

(* DELETE retry/:retryId. *)
CancelRetry(c, t) ==
  /\ <<c, t>> \in queue
  /\ queue' = queue \ {<<c, t>>}
  /\ dropped' = dropped \cup {<<c, t>>}
  /\ UNCHANGED <<record, call, task, manual, live, answer>>

(* GET publish/:publishId reads the status first (getPublishStatus) ... *)
ReadStatus(r, c) ==
  /\ answer[r].step # "read"
  /\ record[c].status # "absent"
  /\ answer' = [answer EXCEPT ![r] =
                  [step |-> "read", call |-> c,
                   status |-> record[c].status, results |-> Null]]
  /\ UNCHANGED <<record, call, task, queue, dropped, manual, live>>

(* ... and the rest of the record afterwards (findPublishById).            *)
ReadRecord(r) ==
  /\ answer[r].step = "read"
  /\ answer' = [answer EXCEPT ![r].step = "done",
                   ![r].results = OrEmpty(record[answer[r].call].results)]
  /\ UNCHANGED <<record, call, task, queue, dropped, manual, live>>

(* findPublishById swallows the database's error and answers null: the     *)
(* status already read goes out with an empty list.                        *)
ReadRecordFails(r) ==
  /\ answer[r].step = "read"
  /\ answer' = [answer EXCEPT ![r].step = "missed",
                              ![r].results = EmptyResults]
  /\ UNCHANGED <<record, call, task, queue, dropped, manual, live>>

-----------------------------------------------------------------------------
TaskStep(c, t) ==
  \/ PublishOk(c, t) \/ PublishFails(c, t)
  \/ Enqueue(c, t) \/ EnqueueFails(c, t)
  \/ ReadForRetry(c, t) \/ WriteForRetry(c, t) \/ UpdateForRetryFails(c, t)

CallStep(c) ==
  \/ ProcessAndUploadMedia(c) \/ AttachMedia(c) \/ Finish(c)
  \/ \E t \in Targets : TaskStep(c, t)

UserStep ==
  \/ \E c \in Calls : CancelPublish(c)
  \/ \E c \in Calls, t \in Targets :
        \/ CancelRetry(c, t)
        \/ \E account \in Accounts : RetryPublish(c, t, account)
  \/ \E r \in Readers :
        \/ ReadRecord(r) \/ ReadRecordFails(r)
        \/ \E c \in Calls : ReadStatus(r, c)

Next ==
  \/ \E c \in Calls : Start(c) \/ CallStep(c) \/ Throw(c) \/ Crash(c)
  \/ UserStep

Spec == Init /\ [][Next]_vars

(* The event loop runs every continuation, and every call to the database, *)
(* to a platform or to the queue comes back; users need do nothing.        *)
Fairness == \A c \in Calls : WF_vars(CallStep(c))
FairSpec == Spec /\ Fairness

-----------------------------------------------------------------------------
(* Once the call is over, the record holds one entry per target, the       *)
(* status is the verdict of those entries (or the user's cancellation),    *)
(* and a success means that the post really is on the target: no write of  *)
(* the retry bookkeeping comes after the final one.                        *)
RecordTellsTruth ==
  \A c \in Calls : call[c].step = "done" =>
    LET results == record[c].results IN
      /\ results \in [Targets -> Entry]
      /\ LET successes == {t \in Targets : results[t].success} IN
           /\ record[c].status \in {Verdict(successes, Targets), "CANCELED"}
           /\ successes \subseteq live[c]

(* A target reported as scheduled_for_retry has a retry job, unless adding *)
(* the job failed or a user removed it.                                    *)
PromisedRetryQueued ==
  \A c \in Calls, t \in Targets :
    call[c].step = "done" =>
      (record[c].results[t].promised <=> <<c, t>> \in queue \cup dropped)

(* The status query reads the record twice.  When it answers with a        *)
(* verdict and its second read came back, the results it answers with are  *)
(* those of this verdict: that read never sees an older or a later list.   *)
(* When the second read failed, the verdict goes out with an empty list,   *)
(* and with nothing else.                                                  *)
AnswerMatches ==
  \A r \in Readers :
    answer[r].status \in Verdicts =>
      /\ answer[r].step = "done" =>
           /\ answer[r].results \in [Targets -> Entry]
           /\ answer[r].status =
                Verdict({t \in Targets : answer[r].results[t].success},
                        Targets)
      /\ answer[r].step = "missed" => answer[r].results = EmptyResults

(* A record does not stay PENDING for ever, unless its call threw or died. *)
PendingResolved ==
  \A c \in Calls :
    record[c].status = "PENDING" ~>
      \/ record[c].status # "PENDING"
      \/ call[c].step \in {"threw", "dead"}

(* What a caller of publishContentWithMedia sees implements the promise.   *)
Phase(c) ==
  CASE call[c].step = "done" -> "settled"
    [] call[c].step \in {"threw", "dead"} -> "broken"
    [] OTHER -> "open"

Promise == INSTANCE PublishPromise WITH
  phase <- [c \in Calls |-> Phase(c)],
  reached <- live,
  verdict <- [c \in Calls |-> IF call[c].step = "done"
                              THEN Verdict(Succeeded(c), Targets)
                              ELSE "none"]

KeepsPromise == Promise!PromiseSpec

(* cancelScheduledPublish writes whatever the call is about to do: a       *)
(* cancellation is overwritten by the verdict of the call, once all its    *)
(* targets have answered, and by nothing else; least of all by the retry   *)
(* bookkeeping, which has read the record while it was PENDING.            *)
CancelYieldsToVerdict ==
  [][\A c \in Calls :
       record[c].status = "CANCELED" /\ record'[c].status # "CANCELED" =>
         /\ \A t \in Targets : task[c][t].step \in {"ok", "failed"}
         /\ record'[c].status \in Verdicts /\ call'[c].step = "done"]_vars

-----------------------------------------------------------------------------
(* What makes RecordTellsTruth, PromisedRetryQueued and AnswerMatches      *)
(* inductive.                                                              *)

(* No task starts before the call publishes, a task that came back is on   *)
(* its target, and a job exists once the task is past Enqueue.             *)
TaskInv(c, t) ==
  /\ call[c].step \in {"idle", "media", "attach"} => task[c][t].step = "ready"
  /\ task[c][t].step = "ok" => t \in live[c]
  /\ <<c, t>> \in queue \cup dropped <=>
       task[c][t].step \in {"read", "write", "failed"}

(* A verdict is only ever written by Finish, with the final results.       *)
RecordInv(c) ==
  /\ call[c].step = "done" =>
       /\ AllSettled(c)
       /\ record[c].results = FinalResults(c)
       /\ record[c].status \in {Verdict(Succeeded(c), Targets), "CANCELED"}
  /\ record[c].status \in Verdicts => call[c].step = "done"

AnswerInv(r) ==
  \A c \in Calls :
    /\ answer[r].step # "idle" /\ answer[r].call = c
    /\ answer[r].status \in Verdicts
    => /\ call[c].step = "done"
       /\ answer[r].status = Verdict(Succeeded(c), Targets)
       /\ answer[r].step = "done" => answer[r].results = FinalResults(c)
       /\ answer[r].step = "missed" => answer[r].results = EmptyResults

PublishInv ==
  /\ \A c \in Calls, t \in Targets : TaskInv(c, t)
  /\ \A c \in Calls : RecordInv(c)
  /\ \A r \in Readers : AnswerInv(r)
=============================================================================
