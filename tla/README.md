# A TLA+ verification of LuftSocial

LuftSocial is a NestJS backend through which the members of an organisation
publish to their social networks, schedule posts and chat with each other. This
directory holds TLA+ models of its core, the TLC configurations that check them
and machine-checked proofs about them. Paths are relative to `src/src/` of the
repository unless they start with `src/`.

`PROJECT.json` lists every component, run, mutant, mapped definition, hazard,
finding and theorem; this file explains them.

## 1. The system

Everything runs in one Node process per instance, and several instances share a
Postgres database, Redis and S3. Concurrency is that of the event loop: a
handler runs undisturbed from one `await` to the next, and any other handler,
of this or another instance, may run in between. The code has almost no
transactions, locks or conditional writes, so what a handler read before an
`await` may be stale when it writes. That, failing calls half-way through a
handler, and the death of the process are what the models are about.

| Component | State it keeps | Operations | Hard part |
|---|---|---|---|
| Content publisher (`cross-platform/services/content-publisher.service.ts`) | `publish_records` rows | publish to several platforms, retry one by hand, read the status | concurrent targets, partial failure, a record several tasks write |
| Retry queue (`cross-platform/services/retry-queue.service.ts`) | BullMQ queue `platform-publish`, the results of a record | add, remove and list retry jobs | read-modify-write of the results; nobody consumes the queue |
| Scheduler (`cross-platform/services/scheduler.service.ts`) | `scheduled_posts` rows | schedule, edit, cancel; a cron job that publishes what is due | overlapping runs, a stale list, check-then-write requests, crashes |
| Media storage (`asset-management/media-storage/`) | `post_assets` rows, S3 objects | upload, upload from a URL, pre-signed upload, finalize | deduplication by check-then-act, uploads that never happen |
| Conversations (`messaging/conversations/`) | conversations, participants | direct chat, group chat, add and remove members, settings | duplicate chats, rights checked on a snapshot, no transactions |
| Messages (`messaging/messages/`) | messages with reactions, edit history, read receipts | create, edit, delete, react, mark as read | read-modify-write of one row |
| Realtime gateway (`messaging/realtime/`) | sockets per user, rooms | connect, disconnect, join, send, typing, receipts | access checked before an `await`, events to sockets that left |
| Tenant context (`user-management/tenant.service.ts`, `middleware/`) | one tenant id per process | set by a middleware, read by every repository | shared by concurrent requests |
| User synchronisation (`webhooks/clerk-webhook/`, `user-management/`) | users, tenants, memberships | webhook jobs | late, repeated and reordered events |
| Platform authorisation (`platform-auth/`, `cache/token-cache.service.ts`, `platforms/*/jobs/token-refresh.job.ts`) | OAuth states, tokens, a cache of refreshed tokens | authorise, callback, refresh, revoke | a state used twice, concurrent refreshes, a token lost after it was spent |
| Platforms (`platforms/facebook`, `instagram`, `linkedin`, `tiktok`) | accounts, posts, metrics, rate-limit rows | post, upload, poll, collect metrics | limits checked before they are recorded, polling against webhooks |
| Notifications, tasks, health, guards, filters, migrations, wiring | little or none | | |

How they interact: the controller calls the publisher; the scheduler calls the
publisher; the publisher calls media storage, one platform service per target,
and the retry queue, which writes to the publisher's own record. The gateway
calls messages and conversations and shares their tables with the REST
controllers. Platform services read their tokens from rows that the
authorisation service writes (the refresh jobs are meant to, but fail for every
account). Every repository of a tenant
asks the tenant service for the tenant of "the" request.

What makes each correct: a record tells what really happened on the platforms;
a post is published at most once per run, as the user last saw it, and not after
a cancellation; whatever is accepted is eventually settled; nobody sees a
conversation they were removed from; no update of a message is lost or undone;
a request acts for its own tenant; the tokens that are stored are the ones that
still work; no more calls are made than the limits allow.

## 2. Modules

| Module | What it is |
|---|---|
| `PublishVerdict` | The two status enums and the two functions that compute a status: `determineOverallStatus` and `mapPublishStatusToScheduleStatus` |
| `PublishPromise` | Abstract specification: what a caller of `publishContentWithMedia` may rely on |
| `ContentPublisher` | The publish call with its tasks, the retry queue, and the handlers that touch a publish record |
| `MCContentPublisher` | `ContentPublisher` for TLC |
| `ContentPublisherProofs` | Theorems about `ContentPublisher` |
| `Scheduler` | The scheduled posts, the cron runs, and the requests that change posts |
| `MCScheduler` | `Scheduler` for TLC, with its symmetry |
| `SchedulerProofs` | Theorems about `Scheduler` |
| `MessageBoard` | Abstract specification: messages whose operations act at once |
| `Messages` | The messages table and the operations of `MessageService` on it |
| `MessageFeed` | `Messages` behind the handlers that tell a room of what they did |
| `MCMessages` | `MessageFeed` for TLC, with its symmetry |
| `MessagesProofs`, `MessageFeedProofs` | Theorems about `Messages`; about `MessageFeed`, which use the first |
| `Membership` | Abstract specification: who belongs to a conversation |
| `Conversations` | `ConversationService` on its two tables |
| `ConversationsProofs` | Theorems about `Conversations` |
| `Gateway` | `Conversations` with sockets, rooms and the handlers that move them |
| `MCGateway`, `GatewayProofs` | `Gateway` for TLC; theorems about it |
| `PlatformCalls` | What the services of the platforms share: accounts, tokens, posts, open calls |
| `Facebook`, `Instagram`, `LinkedIn`, `TikTok` | The operations of each |
| `Platforms` | The four together, with connecting and disconnecting |
| `MCPlatforms`, `PlatformsProofs` | `Platforms` for TLC; theorems about it |
| `Callers` | The callers and tenants that the following modules share |
| `PlatformAuth`, `FacebookPages`, `MediaStorage`, `TenantContext`, `UserSync`, `RateLimit` | The services around the core; `FacebookPages` extends `TenantContext` |
| `Services` | These six, of which a behaviour shows one |
| `MCServices`, `ServicesProofs` | `Services` for TLC; theorems about it |
| `MCUserSync` | `UserSync` for TLC on its own, with two users |

### ContentPublisher

`record` is the table `publish_records`, `call` the progress of one execution of
`publishContentWithMedia`, `task` the branch of each platform under
`Promise.allSettled`, `queue` the retry jobs. One action ends at each `await`:

- `Start` saves the row as PENDING, `ProcessAndUploadMedia` uploads (a failing
  upload is skipped by the code, so a call may go on without media) and
  `AttachMedia` writes the media back.
- Each task is `PublishOk` or `PublishFails`; Instagram and TikTok refuse a post
  without media (`NeedsMedia`). A failed task awaits `addToRetryQueue`:
  `Enqueue` adds the job, `ReadForRetry` reads the record, `WriteForRetry` writes
  its whole result list back with one entry marked. `EnqueueFails` and
  `UpdateForRetryFails` are the two errors that the service swallows.
- `Finish` waits for all tasks and writes status and results in one update.
  `Throw` is a refused database call, `Crash` the death of the process; nothing
  resumes either.
- `CancelPublish`, `RetryPublish`, `CancelRetry`, `ReadStatus`/`ReadRecord` are the
  handlers of the controller. The status query reads twice; its second read swallows
  a database error (`findPublishById`), and the status already read is then answered
  with an empty list (`ReadRecordFails`, `OrEmpty`).

`dropped` remembers jobs that were never added or that a user removed, `live`
is where the content really is; both exist for the properties. The targets of a
call are distinct platforms, which is how the tests and the collections call it.

`PublishPromise` has a phase per call (open, settled, broken), the targets it
reached and the verdict it returned. `ContentPublisher` implements it with
`reached <- live` and the phase and verdict computed from `call` and `task`.
`Scheduler` uses the publisher by this promise: its `PublishSettles` returns the
verdict of some subset of the targets reached, its `PublishThrows` may have
reached any of them.

### Scheduler

`row` is the table `scheduled_posts`; `run` is one execution of
`processScheduledPosts`, with the list it read and the post in its hands;
`request` is an open HTTP request. A run is `ListDue`, then for each post
`MarkProcessing`, `PublishSettles` (or `PublishThrows`), `RecordVerdict` (or, in
the inner `catch`, `RecordFailure`), then `RunEnds`. `MarkFails`,
`RecordVerdictFails` and `RecordFailureFails` are failing updates; the last one is
the outer `catch`, which gives up the rest of the list. `Crash` ends a run
anywhere. Requests are check-then-write: `BeginEdit`/`ApplyEdit`,
`BeginCancel`/`ApplyCancel`, and `Schedule`/`AttachMedia`, where the row is ready
to be published before its media are there.

What a row says is abstracted to a member of `Contents` (text and platforms) and
to which of `mediaItems` and `mediaUrls` was written; results and `publishedAt`
are the verdict they were written with. `MediaOf` is the code's
`mediaItems?.map(...) || mediaUrls`: once `mediaItems` is written, be it as an empty
list, it decides. `attempts` (every publish call made) and
`late` (posts that a request changed after a run had listed them) are history.

### Messages

`row` is the table `messages`, `request` the open operation of each client. An
operation loads the entity (`Found`; a find of the repository leaves out rows
with a `deletedAt`, `Visible`), changes it in memory (`WithEdit`, `WithReaction`,
`WithoutReaction`, `WithReader`) and saves it. `save` is TypeORM's, modelled from
how it is used: it loads the row again, deleted or not, finds the columns in
which the entity differs (`Reload`, `Differing`) and updates these (`Write`,
`Merged`). It cannot tell what the operation changed from what others changed
since, so a stale entity writes old values back. An edit and a receipt carry a
timestamp, so their column always differs. A deletion is an UPDATE of its own
columns (`MarkAsDeleted`). `history` and `reactions` share the jsonb column
`metadata`; the unused column `edit_history`, pins, attachments and the status
(`updateMessageStatus` has no caller) are left out. A message is created in one
step: what `createMessage` checks before changes nothing here.

`alone` (nobody has written the row since the request read it) and `raced` (a save
that was not alone has written it) are history. `MessageBoard` has the same rows
without requests: each operation acts at once, only the sender edits and
deletes, nothing follows a deletion, and a message that was raced on is given
up. `Messages` implements it with `board <- seen`, the rows that were not.

`UpdateConversationSettings` is the operation on another service that writes
messages: it loads a conversation with its messages and saves it with them, each
as it was loaded. If nothing came in between it writes nothing; otherwise it
undoes what did, which makes the message raced. (A message created in between
would be detached, which its NOT NULL column refuses.) A conversation's messages
are saved in one transaction; one message at a time is enough to see each.

### MessageFeed

A handler of the gateway calls the service and then emits an event; a REST request
calls the service and tells nobody. `event` is what the operation of a client will
end with, `outbox` the events of finished operations in the order of their writes,
`told` what a socket that never left the room knows. `Emit` takes any event of the
outbox, not only the first, since the handlers go on independently. `Sanitize`, a
constant function on the texts, is what `ContentSanitizer.sanitize` makes of one, in
two places: the row holds the sanitised text, while the event of a creation carries
the text as it was sent; the event of an edit carries the row. `Means` says how the
two are compared: a text that was told and not edited since is compared after
sanitising, so that a room that got the raw text of a creation is right about the
row up to that. An event that would overtake an earlier one which says otherwise
(`Commute`), one that never comes (`EmitNothing`) and a raced save make the message
`adrift`: it is not followed any more.

### Conversations and Membership

`type` and `name` are the table `conversations`, `role` is
`conversation_participants`, `request` an open operation: the participants it
loaded (`found`), those of them whose row was deleted since (`gone`), and the name
it read. A creation saves the conversation first and its participants later
(`SaveConversation`, `SaveParticipants`); a direct chat is looked for before
(`FindDirectChat`). An addition and a removal load the conversation, check the
rights of the actor in a query of their own (`CheckAdmin`) and write
(`InsertParticipants`, `FindParticipants`, `DeleteParticipants`); between any two of
these others may write. `SaveSettings` follows TypeORM's cascade: participants
that were loaded and deleted since are inserted again, with the name of the
entity; a row that was added since makes the save fail. `RequestFails` is a
refused check, a database error or a crash, at every step.

`overlapped` (pairs whose direct chat two requests looked for at once) and `raced`
(conversations that a settings update wrote from an old state) are history.
`Membership` has no requests: a conversation opens with everybody who belongs to
it, only groups admit and expel, and no owner is expelled. `Conversations`
implements it with `chat <- seen`, where a conversation without participants is
not yet open and a raced one is given up.

### Gateway

`Gateway` extends `Conversations`: `connected`, `room` (the Socket.IO room of each
conversation), `pending` (the joins whose access check was answered and which
have not happened), `kicked` (how far the loop of a removal has come). The
handlers of participants end the requests of `Conversations`: `AnnounceAdded` makes
sockets join, `Kick` empties the room one user at a time, after the rows are
gone. Operations that come by REST end with `AnswerAdded` and touch no room.
Messages on sockets read the tables and the rooms and change neither, so that
they are in `MessageFeed`. A handler gets the server as its third parameter, as
the code of the handlers uses it. `crossed` is history: removals that met a join
already granted, or broke off before the room was empty.

### Platforms

`stored` is the token in `social_accounts`, `granted` the one the platform issued
last; `post` says how each post is on its platform (`remote`), in its table (`row`)
and what the caller was told (`answer`). A call (`call`) is a line of steps with the
token it loaded at the beginning: upload to storage, containers, attachments or
carousels, publish, comment, record, and for TikTok refresh, initialise, record
and poll. Which steps a post takes depends on its kind, as in the code
(`Kinds`). `CallFails` is a refusal of storage, platform or database, or a crash,
at any step. What the code cannot do is modelled so: a call that always throws
(`Throws`), rows that are always refused for want of a column, `DeleteAccount`,
which never deletes. `ScheduledTimeComes` and `TikTokFinishes` are the platforms'
own steps. `excused` is history.

### Services

The six modules share `Callers`, and `FacebookPages` the field of `TenantContext`: its
queries are made for the tenant that the field names at that moment. A behaviour of
`Services` chooses one part (`part`, in the initial state) and leaves the others
where they began, so that the states of the six add up instead of multiplying.
What one part does to another is in the part that suffers it: in the part of the
pages the field changes at any time (`OthersSetTenant`), as requests and sockets
of other tenants change it. The OAuth states and
accounts, media rows, memberships and rate limits are tables of their own, which no
other of the six writes, and what is looked for in them before a write (a state, an
identity with its user, a hash, a count) is looked for without the tenant: the field
is stored with an account and put into the name of a pre-signed key.

- `PlatformAuth`: an OAuth state is put in the cache, then in a file; a callback
  reads it, deletes it from the cache, then from the file, exchanges its code,
  caches the tokens and stores an account. An account belongs to an owner, a user
  with an identity on the platform: TikTok's look-up is by `openId` and user, so one
  user may have several rows, one for each identity. Entries expire at any time, and
  a file that cannot be written is let go in both directions.
- `FacebookPages`: `getUserPages` keeps the tenant, finds the account, looks for its
  rows under the tenant of that later moment (`Shows`), asks Facebook, and makes or
  updates a row for each page in parallel; an update is a find and a save
  (`FindPage`, `UpdatePage`). `editPage` and the insights job load a row and save it
  whole. Facebook may issue new tokens at any time. `overlapped` (pages two callers
  were busy with) and `hidden` (pages whose rows a look-up under another tenant has
  missed) are history.
- `MediaStorage`: the look-up by hash, the upload under a new key and the row that
  follows; pre-signed URLs with their pending rows, whose clients put what they
  like.
- `TenantContext`: the one field, set by two middlewares and read after awaits.
- `UserSync`: each webhook job of a worker. A membership event loads the tenant with
  its users (`LoadTenant`), then the user with the tenants (`LoadMember`), and saves the
  user; the save cascades to a tenant that is joined and from there to the users it
  was loaded with (`Cascaded`), so a save writes other users' memberships too. An
  event about a user sets the active tenant it names (`CreateUser`, `UpdateUser`). No
  variable is history: the exceptions of the properties (`Outdated`, `Crossed`,
  `NamesTenant`) compare what a worker holds with what is there.
- `RateLimit`: count, compare, record later; posts of the publisher pass by the
  interceptor of the controller (`PostDirectly`).

## 3. Runs

Run a model from this directory with `tlc -config <cfg> <module>`.

| Run | Instance | Checks |
|---|---|---|
| `publisher` (`MCContentPublisher.cfg`) | one call, three targets of which one needs media, a reader | `TypeOK`, `RecordTellsTruth`, `PromisedRetryQueued`, `AnswerMatches`, `CancelYieldsToVerdict`, `PendingResolved`, `KeepsPromise` |
| `overlap` (`SchedulerOverlap.cfg`) | one post, two overlapping runs, a client, two contents, two targets, two faults | `TypeOK`, `OneAttemptPerRun`, `StatusIsEarned`, `PublishedAsShown` |
| `single` (`SchedulerSingle.cfg`) | two posts, one run at a time, a client, two faults | `CancelHolds`, `OutcomeStands`, `PendingIsTakenUp`, `ProcessingEnds` |
| `messages` (`Messages.cfg`) | one message, two users, two requests, four texts of which sanitising changes two, one emoji, one edit | `TypeOK`, `FeedIsTrue`, `DeletionHolds`, `ActsLikeBoard` |
| `gateway` (`Gateway.cfg`) | two conversations, two users of whom one has a socket, two requests, two names | `GateTypeOK`, `OneDirectChat`, `OwnerStays`, `RoomsFollowMembers`, `MembersChangeByOwner`, `KeepsMembership` |
| `platforms` (`Platforms.cfg`) | two calls, two posts, one account at a time, two tokens, two polls | `PlatformTypeOK`, `OkMeansPublished`, `RowIsNotAhead`, `Recorded`, `CallsEnd` |
| `services` (`Services.cfg`) | two callers in each part; two tenants, OAuth states, TikTok identities, pages and contents | `ServicesTypeOK`, `StateAdmitsOnce`, `OneTikTokAccount`, `OneRowPerPage`, `TokenStands`, `AnsweredIsStored`, `OneKeyPerContent`, `RateIsBounded` |
| `user_sync` (`UserSync.cfg`) | two workers, two users, two tenants | `ActiveStaysMember`, `MembershipsStand` |
| `cancel_race` (`CancelRace.cfg`) | one of each, no fault | `OnlyPendingIsCancelled`: violated |
| `deleted_edited` (`DeletedEdited.cfg`) | one message, one user, two requests | `DeletedNotEdited`: violated |
| `failed_post` (`FailedPost.cfg`) | one call, one post | `FailedMeansNotPosted`: violated |
| `tenant_mixed` (`TenantMixed.cfg`) | two requests of two tenants | `TenantIsOwn`: violated |

What they show. Of the publisher: the read-modify-writes of the retry bookkeeping
never outlive the call, so the final update wins and the record tells the truth; a
retry that was reported has its job; a status query answers a verdict with its own
results or, when its second read failed, with none, and never with others; a
cancellation yields to the verdict of the call and to nothing else of it (that it
does yield is what the code does: the final update is unconditional); and the call
keeps its promise. Of the scheduler: overlapping runs may publish a post twice, but
one run never does; a post is shown as
published only when it is; an edit of the text or the platforms that comes in time
is what is published, and so are the stored media; an edit of `mediaUrls`, in time
or not, is published only where `mediaItems` was never written, and is lost
otherwise, since `schedulePost` ends by writing `mediaItems`, be it as an empty list
(scheduler.service.ts:53-56, 104-135); a cancellation that no run has overtaken
holds. Of the messages: a deleted message never changes again once the saves that
had read it before are over, and as long as no save races with another write, no
operation is lost to another; what a room was told is then what the table says,
although events are sent after the write and independently of each other, but for
the sanitising: the room hears a new message as it was sent, and the table has it
sanitised.

Of the conversations: two requests that look for the same direct chat at once
may both create it, nothing else doubles one; a group keeps one owner whatever
overlaps; rights are checked long before the write and hold at the write
nevertheless, because an owner is never removed, except for what a settings
update writes back. Of the gateway: a socket hears a conversation only as a
participant, while its removal is under way, or because a removal met a join
that had been granted, which is the race the code leaves open. Of the platforms:
"ok" means the post is out or waits for its time; the tables never run ahead of
the platform; a post of Facebook or TikTok is recorded unless its call was broken
off; every call ends, polling included. Of the services: a state passes once,
a TikTok identity of a user has one account, a page one row and a stored content one
key, and no page token goes back, unless two callers met on the very same one, or,
as the properties name them: the state's file could not be cleared, the tenant
changed before the look-up for pages, the look-up for a content failed, or a
pre-signed URL was involved. Of the webhooks: an event about one user and one tenant
leaves all other memberships alone, and an active tenant does not cease to be one of
the user's, unless the worker saves a user, or a tenant's users, that another worker
has changed since, or an event about a user names a tenant that is none of the
user's. Calls exceed a limit by less than the number of callers.

`OutcomeStands` is checked with one run at a time because it fails with two: a
second run marks a published post PROCESSING again. The code has no guard
against overlap; the run says what holds when a deployment provides it.

The four violations are disagreements between the code and what the repository
says of it, quoted in `PROJECT.json`: "Can only cancel pending posts" (a
cancellation overwrites whatever the row has become), "Cannot
edit deleted messages" (an edit that read the message before it was deleted
changes it afterwards, and brings it back), "Failed to create LinkedIn post" (the
post is out, its row is refused for want of a tenant; Instagram likewise) and
"tenant isolation" (a request reads the tenant that another one has set).

Bounds. Calls of the publisher share nothing but the queue, in which their jobs
are apart, so one call is enough; three targets give every overlap of two
retries with a success. Two runs and one post suffice for runs to meet, since a
run treats its posts one after the other; two posts are needed for a list that is
given up half-way. `MaxTime = 1` makes a post future, then due; `MaxFaults`
bounds crashes and failed updates, and is two in both runs: two reach a failing
recovery (`RecordVerdictFails` then `RecordFailureFails`), which gives up the rest
of a list. `Runs`, `Contents` and `Targets`
are symmetric in the safety run and not in the liveness run. Requests on
different messages share nothing, so one message is enough; two requests race,
and a third finds what they leave since clients are reused. The edits of a
message are bounded by `MaxEdits`; clients and users are symmetric, and so are the
texts in pairs (`Exchange`): a clean one and a raw one of which sanitising makes it.

In `gateway` two requests overlap in every way, and a third finds what they leave.
A direct chat needs a second conversation to be doubled; a group meets no other
conversation, so `GroupAlone` gives it none. A socket per user is enough, because
the sockets of a user join and leave alike, and the limit of one refuses the
second; one user without a socket is enough to be the other party. In
`platforms` two calls meet on one account, which is all the services share, and
two posts let each have its own; one account at a time suffices since two
platforms share nothing; two tokens show a refresh, two polls a poll that is
repeated and one that is given up. In `services` two callers make every overlap of
two, and each finds what earlier ones left. `Users` and
`Accounts` are single because nothing about one user's OAuth rows or one account's
pages depends on another's; two states, identities, pages, contents and tenants show
confusion of one with another. The account is of one tenant and the field may name
the other. Memberships of different users are not apart, because of the cascade:
`user_sync` has two users, tenants and workers, and `services` one user for the types.
The callers are symmetric, and the two things of each kind change places together
(`Exchange` in `MCServices`). `MaxRows`, `MaxPageRows`, `MaxAssets`,
`MaxKeys`, `MaxPageToken` and `MaxDirect` end what would go on for ever, each at one
more than the property forbids or needs. The theorems of section 4 have none of
these bounds on the sets of actors.

Fairness. `ContentPublisher!Fairness` is weak fairness of each call's own steps: the
event loop runs every continuation, and each database, queue and platform call
returns, one way or the other. Failures need no fairness and users owe nothing.
`Scheduler!Fairness` is that time passes, the cron job ticks again and again (every
12 hours, `EVERY_12_HOURS`, scheduler.service.ts:32), and a run's own steps are
taken; `ListDue` is part of it because the tick is. Without a crash nothing stays
PROCESSING; with one it may, and `ProcessingEnds` says so. `PlatformSpec` has weak
fairness of each open call: what it awaits answers or fails, and Node runs the
continuation. It does not say that a platform ever answers well; that polling ends
is due to its count. The other specifications state no fairness, since what is asked
of them is safety.

## 4. Proofs

Each is checked by TLAPS for every value of the constants. There are three kinds:
the properties that the runs check, each from an inductive invariant; facts that
no run checks and that follow from those invariants or from a refinement; and
what holds where requests take turns (section 4.1).

`SchedulerProofs`
- `TypeCorrect`. `TypeOK` is inductive. It includes that a run which publishes or
  records has a post, and a verdict, in its hands.
- `RunsPublishOnce`, `PendingUntouched`. `OneAttemptPerRun` is not inductive: a run
  could hold a second copy of the post in its list. `OnceInv` adds that a list
  holds a post once and not the one in hand (`OwnList`), that a run which has
  published a post does not have it before it any more (`Spent`), and that a
  PENDING post was never published, so `ListDue` cannot bring one back.
- `AtMostOnce`. With at most one run, a post has at most one attempt.
- `ShownIsPublished`. `ShownInv` adds that every copy a run still has says what
  the row says, unless the row was changed too late (`Fresh`). Its media clause says
  which media those are (`MediaShown`): stored ones, and those of an edit only where
  none were ever stored.
- `CancellationHolds`. The action property, from `TypeOK`: what a run lists is PENDING
  (`Due`), and what it works on comes from its list (`HandFromList`).
- `StatusesAreEarned`, from `EarnedInv`: the verdict a run is about to record, and the
  one in a row, was earned by an attempt (`VerdictEarned`).
- `OutcomesStand`: with a single run, from `OpenInv`: the posts in a run's list or in
  its hands have no outcome yet.
- `ProcessingHeld`. What `ProcessingEnds` rests on: a post shown as PROCESSING is in
  the hands of a run, unless there was a fault. Liveness adds that the run goes on.

`ContentPublisherProofs`
- `TypeCorrect`: among other things, what the retry bookkeeping writes back is a
  list of results.
- `RecordIsTrue`, `RetryIsQueued`, `AnswersMatch`, from one inductive invariant,
  `PublishInv`: no task starts before the call publishes and a task past
  `Enqueue` has its job (`TaskInv`); a verdict is only written by `Finish`, when
  all tasks have settled (`RecordInv`); a status query that has read a verdict
  belongs to a call that is over, and has its results or none (`AnswerInv`).
- `CancellationsYield`: a cancelled record leaves its status only by `Finish`.
- `PublisherKeepsPromise`: `ContentPublisher` implements `PublishPromise`, by
  initial states and step by step.
- `PendingHasCall`. What `PendingResolved` rests on: a record is PENDING only while
  its call is under way, or after it threw or died.
- `RetriesAreUnmarked`, from `BareInv`: while tasks are under way a record has no
  results to mark, and `Finish` writes its own. So `retryScheduled`, which
  `updatePublishRecord` of the retry queue sets, is never to be read anywhere; what a
  caller sees is `scheduled_for_retry`, of which `RetryIsQueued` speaks.

`MessagesProofs`
- `TypeCorrect`. `TypeOK` includes that a request works on a message that exists.
- `DeletionsHold`, from `CopyInv`: whoever deleted a message is its sender, and a
  save holds an entity that was not deleted (`HoldsCopy`), so a second deletion
  writes what is there and no new save can find the row.
- `MessagesAct`: `Messages` implements `MessageBoard`. `AloneInv` says that the copy
  of a request nobody wrote behind is at most one operation away from the row, and
  that its UPDATE makes the row the copy (`MergeAll`); each write is then a step of
  the board, a race, or invisible.

- `HistoriesTell`, `HistoriesKeep`: consequences of the board. A message nobody raced
  on is marked as edited exactly when a content was replaced (`Chronicle`), each entry
  of its history is its sender's, and no content goes without its entry.

`MessageFeedProofs`
- `FeedImplementsMessages`: the handlers and their events make the service take no
  step it does not take alone, so its theorems hold behind them
  (`FeedKeepsPromises`).
- `FeedTrue`, from `FeedInv`, for every function `Sanitize`. `FeedIsTrue` speaks of
  an empty outbox. To say what it means of one that is not, without folding events
  over what is known, which would be an induction, an event is taken as setting some
  parts of the knowledge (`Part`, `Touches`, `Set`): for each part, the last event
  of the outbox that touches it says what the row says, and if none does, it is
  known already (`Follows`). An event that is added is the last (`FollowsAppend`);
  one that commutes with all before it may be taken out (`FollowsRemove`), since
  events that commute agree on the parts they share (`CommuteAgree`). `Foretells` is
  what the event of an operation under way will say.

`ConversationsProofs`
- `RowsAreTyped`, `OwnersStay`, `OwnersChangeMembers`, from `ServiceInv`: what an open
  request may count on although all it has read may be old. `StepSound` says what
  each step has checked; `CopySound`, that a participant that was loaded and is not
  gone is still one, and an owner that was loaded still owns; `Apart`, that nobody
  holds anything of a conversation that is being filled; `RolesSound`, that a
  group with participants has one owner. That an owner is never removed makes an
  old check valid: it is an invariant and not a property of a single handler.
- `DirectChatsAreOne`, from `PairInv`, which adds what a request that looks for a chat
  found out (`LookInv`).
- `MembershipKept`: `Conversations` implements `Membership`, step by step.
- `DirectChatsHold`: a direct chat keeps its members for ever, whatever overlaps. A
  removal needs a group and a settings update has nothing to write back.

`GatewayProofs`
- `GatewayConverses`: `GateSpec` implements `ConvSpec`, so every theorem about the
  conversations holds behind the gateway.
- `GateIsTyped`, `RoomsAreMembers`, from `GateInv`: a join that is pending was granted
  and its user is still a participant, or a removal crossed it (`PendingInv`,
  `Granted`); likewise for an addition that will announce its users (`AddInv`); a
  removal deletes rows of its targets only and empties no room before (`RemoveInv`).
- `GatewayKeepsPromises`: what the run checks of the conversations behind the gateway,
  from the theorems about the conversations.

`PlatformsProofs`
- `PlatformsAreTyped`, `OkIsPublished`, `RowsStayBehind`, `PostsAreRecorded`, from
  `CallsInv`: a call knows at each step how its post stands (`GoodCall`), its tries
  and its token are in bounds (`Sane`), no two calls hold the same post, the answer
  and the row are true of the post (`GoodPost`), and one that no call holds is
  recorded or excused (`OnRecord`). The lemma `CallGoesOn` covers every step in
  which a call changes nothing but its own place.
- `FailuresTell`, for the other side of the violation `failed_post`. On Facebook and
  TikTok a failure that was not a break-off means the post was rejected; on Instagram
  and LinkedIn no post is ever reported as a success, nor recorded.

`ServicesProofs` proves an invariant for each part and lifts it to `Services`
(`PartSteps`): steps of the other parts leave it alone.
- `LimitsHold`: `RateInv` counts a checked caller as if it had recorded.
- `ActiveStays`, `MembershipsAreKept`: from the types (`SyncInv`) and, step by step,
  from what a save makes of the row it holds (`JoinedRow`, `LeftRow`) and of the users
  of the tenant: where these are still those that were loaded, the cascade changes
  nobody but the user of the event.
- `StatesAdmitOnce`, `TikTokAccountsAreOne`: while a callback takes a state out no other
  does, and one that let a callback pass is in neither place (`OneTime`), only an
  offered state is ever read (`Offered`, `HeldState`), and while a caller is about to
  insert an account nobody else is inserting one for the same user and identity, and
  there is none (`OneRow`).
- `AnswersAreStored`, `ContentsAreStoredOnce`: a key that a caller made is in no row
  yet and nobody else writes under it (`Working`), a key in a row holds the row's
  content (`StoredName`), and a content that is being uploaded has no other key
  (`Single`).
- `PagesAreOne`, `TokensStand`: what a caller found is still all there is, and what it
  fetched or loaded is not older than the row (`GoodSync`, `InTime`), or others were
  busy with the page, or the look-up could not see its row (`hidden`).
- `ServicesAreTyped`: the type invariants of all six.

### 4.1 Where requests take turns

The exceptions in the properties are history variables (`overlapped`, `raced`,
`late`, `doubled`, `hidden`) or conditions on a step (`Outdated`, `Crossed`,
`NamesTenant`). A reader may ask whether they excuse more than the races they are
named for, and whether the disagreements of the violation runs need a race at all.
These theorems answer both. Each has a hypothesis about a behaviour (no two requests
are open on the same thing at once, or what one has read stays as it is), and shows
that the property then holds without its exception. Everything else may happen: any
number of requests one after the other or on different things, failures and crashes
at every step.

| Theorem | Hypothesis | Then |
|---|---|---|
| `TurnsKeepDeleted` | `OneAtATime`: one open request on a message | `DeletedNotEdited`, which `deleted_edited` refutes without it |
| `TurnsActLikeBoard` | the same | the table implements `MessageBoard` with `board <- row` |
| `InTimeCancelled` | `RequestsInTime`: no request is open on a post that a run has listed | `OnlyPendingIsCancelled`, which `cancel_race` refutes without it |
| `InTimeShown` | the same | a cancelled post was never published; what was published has the content of the row, and its media as `MediaShown` says |
| `TurnsMakeOneChat` | `LooksTakeTurns`: one request looks for a pair's chat | one direct chat for two users |
| `TurnsKeepMembers` | `SettingsTakeTurns`: a settings update is alone in its conversation | only an owner changes the members |
| `TurnsKeepActive` | `WorkersTakeTurns`: nobody changes what a worker saves; `EventsNameMembers`: events about a user name tenants of the user | the active tenant is one of the user's |
| `TurnsAdmitOnce` | `CallbacksTakeTurns`: one callback takes out a state, one inserts for a user and identity, the file can be written | one callback passes, one account for a TikTok identity of a user |
| `TurnsStoreOnce` | `UploadsTakeTurns`, `LookupsAnswer`: one upload of a content, no look-up fails | one key for a content, pre-signed ones aside |
| `TurnsKeepPages` | `PagesTakeTurns`: nobody else is busy with a page about to be written; `LookUpsShow`: the tenant is still the account's when its rows are looked for | one row for a page, no token goes back |

The code enforces none of these hypotheses (section 1: it has no locks); they say
what a deployment, a lock or a conditional write would have to provide. Each is
satisfied by, among others, every behaviour in which a request ends before the next
on the same thing begins.

### 4.2 What is not proved

Only model-checked: the liveness properties `PendingResolved`, `PendingIsTakenUp`,
`ProcessingEnds` and `CallsEnd`, which rest on fairness and are out of this prover's
reach; the safety cores of `PendingResolved` and `ProcessingEnds` are
`PendingHasCall` and `ProcessingHeld`. Two violations have no counterpart in section
4.1: a post to LinkedIn or Instagram is never recorded, with or without an overlap
(`FailuresTell`), and that requests of different tenants never overlap is more than
any deployment could promise.

The assumptions are those named in the modules: `NeedsMedia \subseteq Targets`, that
`Null` is none of the things it stands in for (`NullAssumption`,
`AccountsAssumption`, `NullIsNoEvent`, `NullIsNoText`, `CallersAssumption`,
`CallsAssumption`, `AuthAssumption`, `MediaAssumption`), that a socket has a user
(`UserOfAssumption`) and an account a tenant (`PagesAssumption`), that sanitising
makes a text of every text (`SanitizeAssumption`), that there are finitely many
callers and at least one (`RateAssumption`), and that the bounds are natural
numbers, positive where one thing must fit.

## 5. Not modelled

See `components` in `PROJECT.json`. What is left out, and why:

- Analytics, and the rows of metrics, comments and media insights: they are
  appended and read by nobody who decides anything.
- What sanitising does to a text, character by character: it is a function of which
  nothing is assumed.
- Notifications, health, scheduled cleaning, typing notices and
  throttling: input and output, or timers that only drop events.
- Guards, interceptors, filters, entities, migrations, wiring: they decide whether
  a handler starts, or are generated. Where a column's constraint decides (a
  missing tenant, a unique index), the handler's action says so.
- Operations without a caller: `createConversation`, `updateMessageStatus`,
  `syncClerkUser`, `verifyUpload`, `uploadLocalVideo`, `uploadVideoChunks`. TikTok's
  webhook only logs: a video that was still being published when polling was
  given up is never settled later.
- The manual retry (`RetryPublish`) is in the model and refuses every record: it looks
  in the stored platforms for one with the account id, which the publisher does not
  store (content-publisher.service.ts:206-208, 548). No property speaks of it, since
  no order of events changes it.
- Nothing in the code consumes the queue `platform-publish`; the models add and
  remove its jobs and run none.
- The validation rules of the publisher decide only whether a call starts.

## 6. Plan

The plan of the inventory is carried out: publishing, messages, conversations and
gateway, platforms, and the services around them, each with its proofs. What
would come next, in order of importance:

1. A consumer of `platform-publish`, once the code has one: its retries have to
   respect `PublishPromise`.
2. `Gateway` and `MessageFeed` together: a message is only emitted to a room, and
   who is in it is the subject of `Gateway`.
3. The publisher on top of `Platforms` in place of the one outcome per target it
   has now.
