------------------------------ MODULE Scheduler ------------------------------
(***************************************************************************)
(* SchedulerService: the scheduled_posts table, the cron job that          *)
(* publishes due posts, and the requests that schedule, edit and cancel    *)
(* them.                                                                   *)
(*                                                                         *)
(* Every handler reads a row, decides, and writes later, without a lock or *)
(* a condition in the write; each await ends an action here.  A tick of    *)
(* the cron job lists the due posts once and then works through its copy.  *)
(* A run is one execution of processScheduledPosts: a tick of one          *)
(* application instance, or a tick that starts before the previous one is  *)
(* over.                                                                   *)
(*                                                                         *)
(* The publisher is taken by its promise (module PublishPromise): a call   *)
(* that settles has a verdict computed from targets it reached, a call     *)
(* that throws may have reached any of them.                               *)
(***************************************************************************)
EXTENDS Naturals, Sequences, FiniteSets, PublishVerdict

CONSTANTS
  Posts,     \* ids of scheduled posts
  Runs,      \* executions of processScheduledPosts that may overlap
  Clients,   \* requests that may be open at once
  Contents,  \* what a post says: its text and its platforms
  Targets,   \* the platforms posts go to
  MaxTime,   \* bound on the clock
  MaxFaults, \* bound on crashes and failed database calls of runs
  Null       \* a column that was never written, a step without a post

ASSUME MaxTimeAssumption == MaxTime \in Nat
ASSUME MaxFaultsAssumption == MaxFaults \in Nat
ASSUME NullAssumption == Null \notin Verdicts

VARIABLES
  now,       \* the clock, in ticks
  row,       \* the scheduled_posts table
  run,       \* the state of each run: its step, its list, its current post
  request,   \* the state of each request
  attempts,  \* external: the publish calls made for each post, in order
  late,      \* history: posts changed by a request after a run listed them
  faults     \* crashes and failed database calls so far

vars == <<now, row, run, request, attempts, late, faults>>

Times == 0..MaxTime
Media == {"none", "stored", "edited"}
Outcomes == Verdicts \cup {"thrown"}

Row == [status  : ScheduleStatus \cup {"absent"},
        content : Contents \cup {Null},
        time    : Times,
        stored  : BOOLEAN,   \* mediaItems has been written
        urls    : BOOLEAN,   \* mediaUrls has been written, by an edit
        verdict : Verdicts \cup {Null},  \* what results and publishedAt say
        error   : BOOLEAN]

Absent == [status |-> "absent", content |-> Null, time |-> 0,
           stored |-> FALSE, urls |-> FALSE, verdict |-> Null,
           error |-> FALSE]

(* The part of a listed row the run works with. *)
Copy == [post : Posts, content : Contents \cup {Null}, media : Media]

Attempt == [by : Runs, content : Contents \cup {Null}, media : Media,
            reached : SUBSET Targets]

RunSteps == {"idle", "next", "publish", "record", "fail"}
RunState == [step : RunSteps, list : SUBSET Copy,
             current : Copy \cup {Null}, verdict : Verdicts \cup {Null}]
IdleRun == [step |-> "idle", list |-> {}, current |-> Null, verdict |-> Null]

(* An edit names the fields it changes: Null keeps content or time. *)
Edit == [content : Contents \cup {Null}, time : Times \cup {Null},
         urls : BOOLEAN]
NoEdit == [content |-> Null, time |-> Null, urls |-> FALSE]

RequestState == [step : {"idle", "attach", "edit", "cancel"},
                 post : Posts \cup {Null}, edit : Edit]
IdleRequest == [step |-> "idle", post |-> Null, edit |-> NoEdit]

(* What a run has in its hands when it publishes or records. *)
Equipped(w) ==
  /\ run[w].step \in {"publish", "record", "fail"} => run[w].current \in Copy
  /\ run[w].step = "record" => run[w].verdict \in Verdicts

(* Rows, runs and requests are well typed, and a run never publishes or    *)
(* records without a post, and a verdict, in its hands.                    *)
TypeOK ==
  /\ now \in Times
  /\ row \in [Posts -> Row]
  /\ run \in [Runs -> RunState]
  /\ \A w \in Runs : Equipped(w)
  /\ request \in [Clients -> RequestState]
  /\ \A c \in Clients : request[c].step # "idle" => request[c].post \in Posts
  /\ attempts \in [Posts -> Seq(Attempt)]
  /\ late \in SUBSET Posts
  /\ faults \in 0..MaxFaults

Init ==
  /\ now = 0
  /\ row = [p \in Posts |-> Absent]
  /\ run = [w \in Runs |-> IdleRun]
  /\ request = [c \in Clients |-> IdleRequest]
  /\ attempts = [p \in Posts |-> <<>>]
  /\ late = {}
  /\ faults = 0

AdvanceTime ==
  /\ now < MaxTime
  /\ now' = now + 1
  /\ UNCHANGED <<row, run, request, attempts, late, faults>>

-----------------------------------------------------------------------------
(* Requests. *)

(* schedulePost saves the row as PENDING, ready to be published, and only  *)
(* then uploads the media.                                                 *)
Schedule(c, p, content, time) ==
  /\ request[c].step = "idle"
  /\ row[p].status = "absent"
  /\ time > now
  /\ row' = [row EXCEPT ![p] = [Absent EXCEPT !.status = "PENDING",
                                             !.content = content,
                                             !.time = time]]
  /\ request' = [request EXCEPT ![c] = [step |-> "attach", post |-> p,
                                        edit |-> NoEdit]]
  /\ UNCHANGED <<now, run, attempts, late, faults>>

(* The post is in the list of a run, or in its hands. *)
Listed(w, p) ==
  \/ \E copy \in run[w].list : copy.post = p
  \/ run[w].step \in {"publish", "record", "fail"} /\ run[w].current.post = p

TooLate(p) ==
  {q \in {p} : row[p].status # "PENDING" \/ \E w \in Runs : Listed(w, p)}

(* The uploads are over: mediaItems is written, whatever the row has       *)
(* become.                                                                 *)
AttachMedia(c) ==
  /\ request[c].step = "attach"
  /\ row' = [row EXCEPT ![request[c].post].stored = TRUE]
  /\ late' = late \cup TooLate(request[c].post)
  /\ request' = [request EXCEPT ![c] = IdleRequest]
  /\ UNCHANGED <<now, run, attempts, faults>>

(* updateScheduledPost: the row read is PENDING and the new time, if any,  *)
(* lies ahead ...                                                          *)
BeginEdit(c, p, edit) ==
  /\ request[c].step = "idle"
  /\ row[p].status = "PENDING"
  /\ edit.time # Null => edit.time > now
  /\ request' = [request EXCEPT ![c] = [step |-> "edit", post |-> p,
                                        edit |-> edit]]
  /\ UNCHANGED <<now, row, run, attempts, late, faults>>

Edited(r, edit) ==
  [r EXCEPT !.content = IF edit.content = Null THEN @ ELSE edit.content,
            !.time = IF edit.time = Null THEN @ ELSE edit.time,
            !.urls = @ \/ edit.urls]

(* ... and the fields are written to whatever the row is by then. *)
ApplyEdit(c) ==
  /\ request[c].step = "edit"
  /\ row' = [row EXCEPT ![request[c].post] = Edited(@, request[c].edit)]
  /\ late' = late \cup TooLate(request[c].post)
  /\ request' = [request EXCEPT ![c] = IdleRequest]
  /\ UNCHANGED <<now, run, attempts, faults>>

(* cancelScheduledPost, in the same two steps. *)
BeginCancel(c, p) ==
  /\ request[c].step = "idle"
  /\ row[p].status = "PENDING"
  /\ request' = [request EXCEPT ![c] = [step |-> "cancel", post |-> p,
                                        edit |-> NoEdit]]
  /\ UNCHANGED <<now, row, run, attempts, late, faults>>

ApplyCancel(c) ==
  /\ request[c].step = "cancel"
  /\ row' = [row EXCEPT ![request[c].post].status = "CANCELLED"]
  /\ request' = [request EXCEPT ![c] = IdleRequest]
  /\ UNCHANGED <<now, run, attempts, late, faults>>

(* An upload throws, the database refuses the write, or the process dies:  *)
(* what the request wrote so far stays.                                    *)
RequestFails(c) ==
  /\ request[c].step # "idle"
  /\ request' = [request EXCEPT ![c] = IdleRequest]
  /\ UNCHANGED <<now, row, run, attempts, late, faults>>

-----------------------------------------------------------------------------
(* One run of processScheduledPosts. *)

RunGoesTo(w, step) == run' = [run EXCEPT ![w].step = step]

Fault == faults < MaxFaults /\ faults' = faults + 1

(* What the run publishes for a row: mediaItems if it was ever written,    *)
(* else mediaUrls, else nothing.                                           *)
MediaOf(r) == IF r.stored THEN "stored" ELSE IF r.urls THEN "edited" ELSE "none"

(* MUTATION: the media an edit named are forgotten. *)
CopyOfStored(p) ==
  [post |-> p, content |-> row[p].content,
   media |-> IF row[p].stored THEN "stored" ELSE "none"]

CopyOf(p) == [post |-> p, content |-> row[p].content, media |-> MediaOf(row[p])]

(* MUTATION: the query forgets the status. *)
DueAnyStatus == {p \in Posts : row[p].status # "absent" /\ row[p].time <= now}

(* MUTATION: the query also takes the posts a user cancelled. *)
DueOrCancelled ==
  {p \in Posts : row[p].status \in {"PENDING", "CANCELLED"} /\ row[p].time <= now}

(* MUTATION: the query skips the posts due at this very moment. *)
DueStrictly == {p \in Posts : row[p].status = "PENDING" /\ row[p].time < now}

(* The query of the cron job. *)
Due == {p \in Posts : row[p].status = "PENDING" /\ row[p].time <= now}

ListDue(w) ==
  /\ run[w].step = "idle"
  /\ Due # {}
  /\ run' = [run EXCEPT ![w] = [IdleRun EXCEPT !.step = "next",
                                 !.list = {CopyOf(p) : p \in Due}]]
  /\ UNCHANGED <<now, row, request, attempts, late, faults>>

Take(w, copy, step) ==
  run' = [run EXCEPT ![w].step = step, ![w].list = @ \ {copy},
                     ![w].current = copy]

(* The next post of the list is marked as PROCESSING without looking at    *)
(* what it has become since the query.                                     *)
MarkProcessing(w) ==
  /\ run[w].step = "next"
  /\ \E copy \in run[w].list :
       /\ row' = [row EXCEPT ![copy.post].status = "PROCESSING"]
       /\ Take(w, copy, "publish")
  /\ UNCHANGED <<now, request, attempts, late, faults>>

MarkFails(w) ==
  /\ run[w].step = "next"
  /\ \E copy \in run[w].list : Take(w, copy, "fail")
  /\ Fault
  /\ UNCHANGED <<now, row, request, attempts, late>>

(* The publish call for the copy in hand puts it on these targets. *)
Attempts(w, reached) ==
  LET copy == run[w].current IN
  attempts' = [attempts EXCEPT ![copy.post] =
                 Append(@, [by |-> w, content |-> copy.content,
                            media |-> copy.media, reached |-> reached])]

PublishSettles(w) ==
  /\ run[w].step = "publish"
  /\ \E reached \in SUBSET Targets : \E successes \in SUBSET reached :
       /\ Attempts(w, reached)
       /\ run' = [run EXCEPT ![w].step = "record",
                             ![w].verdict = Verdict(successes, Targets)]
  /\ UNCHANGED <<now, row, request, late, faults>>

(* MUTATION: the error is swallowed, and there is no verdict to record. *)
PublishThrowsUnseen(w) ==
  /\ run[w].step = "publish"
  /\ \E reached \in SUBSET Targets : Attempts(w, reached)
  /\ RunGoesTo(w, "record")
  /\ Fault
  /\ UNCHANGED <<now, row, request, late>>

PublishThrows(w) ==
  /\ run[w].step = "publish"
  /\ \E reached \in SUBSET Targets : Attempts(w, reached)
  /\ RunGoesTo(w, "fail")
  /\ Fault
  /\ UNCHANGED <<now, row, request, late>>

(* MUTATION: a call that did not throw counts as published. *)
RecordAsPublished(w) ==
  /\ run[w].step = "record"
  /\ LET p == run[w].current.post IN
       row' = [row EXCEPT ![p].status = "PUBLISHED",
                          ![p].verdict = run[w].verdict]
  /\ RunGoesTo(w, "next")
  /\ UNCHANGED <<now, request, attempts, late, faults>>

(* MUTATION: the update forgets the status. *)
RecordOnlyResults(w) ==
  /\ run[w].step = "record"
  /\ row' = [row EXCEPT ![run[w].current.post].verdict = run[w].verdict]
  /\ RunGoesTo(w, "next")
  /\ UNCHANGED <<now, request, attempts, late, faults>>

(* Status, results and publishedAt in one update. *)
RecordVerdict(w) ==
  /\ run[w].step = "record"
  /\ LET p == run[w].current.post IN
       row' = [row EXCEPT ![p].status = ScheduleStatusOf(run[w].verdict),
                          ![p].verdict = run[w].verdict]
  /\ RunGoesTo(w, "next")
  /\ UNCHANGED <<now, request, attempts, late, faults>>

RecordVerdictFails(w) ==
  /\ run[w].step = "record"
  /\ RunGoesTo(w, "fail")
  /\ Fault
  /\ UNCHANGED <<now, row, request, attempts, late>>

(* The inner catch: FAILED with the error, and on to the next post. *)
RecordFailure(w) ==
  /\ run[w].step = "fail"
  /\ LET p == run[w].current.post IN
       row' = [row EXCEPT ![p].status = "FAILED", ![p].error = TRUE]
  /\ RunGoesTo(w, "next")
  /\ UNCHANGED <<now, request, attempts, late, faults>>

(* That update fails too: the outer catch gives up the rest of the list. *)
RecordFailureFails(w) ==
  /\ run[w].step = "fail"
  /\ run' = [run EXCEPT ![w] = IdleRun]
  /\ Fault
  /\ UNCHANGED <<now, row, request, attempts, late>>

RunEnds(w) ==
  /\ run[w].step = "next"
  /\ run[w].list = {}
  /\ run' = [run EXCEPT ![w] = IdleRun]
  /\ UNCHANGED <<now, row, request, attempts, late, faults>>

(* The process dies, perhaps in the middle of a publish call.  Its run     *)
(* starts again with a later tick, and remembers nothing.                  *)
Crash(w) ==
  /\ run[w].step # "idle"
  /\ \/ UNCHANGED attempts
     \/ /\ run[w].step = "publish"
        /\ \E reached \in SUBSET Targets : Attempts(w, reached)
  /\ run' = [run EXCEPT ![w] = IdleRun]
  /\ Fault
  /\ UNCHANGED <<now, row, request, late>>

-----------------------------------------------------------------------------
RunStep(w) ==
  \/ ListDue(w) \/ MarkProcessing(w) \/ PublishSettles(w)
  \/ RecordVerdict(w) \/ RecordFailure(w) \/ RunEnds(w)

RunFault(w) ==
  \/ MarkFails(w) \/ PublishThrows(w) \/ RecordVerdictFails(w)
  \/ RecordFailureFails(w) \/ Crash(w)

RequestStep(c) ==
  \/ \E p \in Posts :
       \/ \E content \in Contents, time \in Times : Schedule(c, p, content, time)
       \/ \E edit \in Edit \ {NoEdit} : BeginEdit(c, p, edit)
       \/ BeginCancel(c, p)
  \/ AttachMedia(c) \/ ApplyEdit(c) \/ ApplyCancel(c) \/ RequestFails(c)

Next ==
  \/ AdvanceTime
  \/ \E w \in Runs : RunStep(w) \/ RunFault(w)
  \/ \E c \in Clients : RequestStep(c)

Spec == Init /\ [][Next]_vars

(* Time passes, the cron job ticks for ever and its runs go on; requests   *)
(* owe nothing.                                                            *)
Fairness == WF_vars(AdvanceTime) /\ \A w \in Runs : WF_vars(RunStep(w))
FairSpec == Spec /\ Fairness

-----------------------------------------------------------------------------
Final == {"PUBLISHED", "PARTIALLY_PUBLISHED", "FAILED"}

(* However runs, edits, cancellations and crashes interleave, one run      *)
(* never publishes a post twice: with one run at a time every post is      *)
(* published at most once.                                                 *)
OneAttemptPerRun ==
  \A p \in Posts : \A i, j \in 1..Len(attempts[p]) :
    attempts[p][i].by = attempts[p][j].by => i = j

(* A post is only shown as published when some call put it on its targets, *)
(* and its status is the one its results call for, unless the results were *)
(* written before a failure or a cancellation.                             *)
StatusIsEarned ==
  \A p \in Posts :
    /\ row[p].status = "PUBLISHED" =>
         \E i \in 1..Len(attempts[p]) : attempts[p][i].reached = Targets
    /\ row[p].status = "PARTIALLY_PUBLISHED" =>
         \E i \in 1..Len(attempts[p]) : attempts[p][i].reached # {}
    /\ row[p].status \in Final =>
         \/ row[p].verdict # Null /\ row[p].status = ScheduleStatusOf(row[p].verdict)
         \/ row[p].status = "FAILED" /\ row[p].error

(* A cancellation that no run has overtaken holds: once a post is          *)
(* CANCELLED and in no run's list, no run takes it up again and it is      *)
(* never published.                                                        *)
Withdrawn(p) == row[p].status = "CANCELLED" /\ \A w \in Runs : ~Listed(w, p)

CancelHolds ==
  [][\A p \in Posts :
       Withdrawn(p) => Withdrawn(p)' /\ attempts'[p] = attempts[p]]_vars

(* With one run at a time, results are written once, and a status that     *)
(* tells the outcome is only ever overwritten by a cancellation.           *)
OutcomeStands ==
  [][\A p \in Posts :
       /\ row[p].verdict # Null => row'[p].verdict = row[p].verdict
       /\ row[p].status \in Final =>
            row'[p].status \in {row[p].status, "CANCELLED"}]_vars

(* What was published has the content of the row, unless a request changed *)
(* the row after a run had listed it: an edit of the text or the platforms *)
(* that comes in time is never lost.  Its media are those of mediaItems if *)
(* that column was ever written, be it as an empty list; only without it   *)
(* are the mediaUrls of an edit published.                                 *)
MediaShown(media, r) ==
  /\ r.stored => media = "stored"
  /\ ~r.stored /\ r.urls => media = "edited"
  /\ ~r.stored /\ ~r.urls => media = "none"

PublishedAsShown ==
  \A p \in Posts \ late : \A i \in 1..Len(attempts[p]) :
    /\ attempts[p][i].content = row[p].content
    /\ MediaShown(attempts[p][i].media, row[p])

(* Every scheduled post is taken up, cancelled or published at some time,  *)
(* whatever crashes and failures happen on the way.                        *)
PendingIsTakenUp ==
  \A p \in Posts : row[p].status = "PENDING" ~> row[p].status # "PENDING"

(* Without a crash or a failed database call, PROCESSING ends. *)
ProcessingEnds ==
  \A p \in Posts : row[p].status = "PROCESSING" ~>
    row[p].status # "PROCESSING" \/ faults > 0

(* "Can only cancel pending posts": a post becomes CANCELLED only when it  *)
(* was PENDING.                                                            *)
OnlyPendingIsCancelled ==
  [][\A p \in Posts : row'[p].status = "CANCELLED" =>
       row[p].status \in {"PENDING", "CANCELLED"}]_vars

-----------------------------------------------------------------------------
(* What makes OneAttemptPerRun and PublishedAsShown inductive. *)

Busy == {"publish", "record", "fail"}

(* A post shown as PENDING has never been handed to the publisher, and no  *)
(* run is publishing it: PENDING is never a state to come back to.         *)
PendingIsUntouched ==
  \A p \in Posts : row[p].status \in {"absent", "PENDING"} =>
    /\ attempts[p] = <<>>
    /\ row[p].verdict = Null
    /\ \A w \in Runs :
         run[w].step \in {"publish", "record"} => run[w].current.post # p

(* A list holds at most one copy of a post, and none of the one in hand. *)
OwnList(w) ==
  /\ \A x, y \in run[w].list : x.post = y.post => x = y
  /\ run[w].step \in Busy => \A x \in run[w].list : x.post # run[w].current.post

(* A run that has published a post does not have it before it any more. *)
Spent(w, p) ==
  (\E i \in 1..Len(attempts[p]) : attempts[p][i].by = w) =>
    /\ \A x \in run[w].list : x.post # p
    /\ run[w].step = "publish" => run[w].current.post # p

OnceInv ==
  /\ PendingIsUntouched
  /\ OneAttemptPerRun
  /\ \A w \in Runs : OwnList(w)
  /\ \A w \in Runs, p \in Posts : Spent(w, p)

(* A copy says what the row says, unless the row was changed too late. *)
Fresh(x) == x.post \notin late =>
  x.content = row[x.post].content /\ x.media = MediaOf(row[x.post])

(* PublishedAsShown in the words of the copy. *)
PublishedAsRead ==
  \A p \in Posts \ late : \A i \in 1..Len(attempts[p]) :
    /\ attempts[p][i].content = row[p].content
    /\ attempts[p][i].media = MediaOf(row[p])

ShownInv ==
  /\ PublishedAsRead
  /\ \A w \in Runs :
       /\ \A x \in run[w].list : Fresh(x) /\ row[x.post].status # "absent"
       /\ run[w].step = "publish" => Fresh(run[w].current)
=============================================================================
