# RepoNotifier in TLA+

A verification project for RepoNotifier: three Go services that let users
subscribe to the releases of GitHub repositories and mail them about new ones.
The modules describe the services' control flow as the code has it; TLC checks
them on small instances, and TLAPS proves every safety property that the passing
runs check for every value of the constants.

Paths below are relative to the repository. `S/`, `T/` and `N/` abbreviate
`services/subscription/internal/`, `services/tracking/internal/` and
`services/notification/internal/`.

## 1. Inventory

| Component | State | Operations | Hard behaviour | What makes it correct |
|---|---|---|---|---|
| Subscription use cases (`S/usecase/user_usecase.go`) | `users`, `subscriptions` | Subscribe, Confirm, UnsubscribeByToken, ListByEmail | reads before the transaction; one row per pair is overwritten in place | double opt-in; row and event commit together |
| Saga orchestrator (`S/saga`, `S/transport/broker`) | `subscription_sagas` | Start, stepActivateSubscription, compensate | duplicated, late and contradictory replies; read and update are two statements | the status tells what happened to the mail; no saga is forgotten; compensation removes what it should and nothing else |
| Outbox (`S/infrastructure/outbox`, same code in `T/`) | `outbox_messages`, open batches | Insert, FetchPending, Publish, Delete, Fail | publishing inside a transaction that may roll back; several relays; attempts limit | at least once, only for committed changes |
| Confirmation mails (`N/transport`, `N/infrastructure`) | messages in hand | send, reply, settle the delivery | crash between mail, reply and ack; replies without publisher confirms | every command ends in a reply |
| Subscriber copy (`T/transport/broker`, `T/repository`) | `repositories`, `subscriptions` | activation and unsubscription handlers, GetOrCreate | two queues; one transaction per statement; cascade | the copy converges to what subscription says |
| Release scanner (`T/usecase/release_processor.go`) | `last_seen_tag` | ProcessReleases | subscribers read before the transaction; several instances; stale cache | every subscriber is told of a new tag, once |
| GitHub client (`T/infrastructure/clients/github`, `T/infrastructure/cache`) | breaker state and counts, two Redis keys per repository | RepoExists, GetLatestRelease | the breaker counts answers that are no failures; requests of an old generation; stale answers; a cache that is away | errors have a cause; the service recovers when GitHub does |
| Release mails (`N/transport/.../notification_consumer.go`) | deliveries in hand | Start, consume, handle | requeue without limit; no prefetch limit; lost links and shutdown | no notification is lost, repeats have a cause, deliverable mail gets through |
| RabbitMQ connection (`shared/infrastructure/broker`) | connection, mutex | Channel, reconnect | dialling while holding the mutex | one connection at most; callers recover after an outage |
| HTTP and gRPC servers of subscription (`S/transport`, `cmd/subscription-api`) | requests under way | middleware, handlers, shutdown | errors translated twice; cancelled requests; two servers shut down differently | an answer tells what happened |
| Wiring, configuration, logging, metrics | none of their own | start and stop of the processes | | |

How they interact: the HTTP or gRPC handlers of *subscription* call the use
cases. Subscribe asks *tracking* by gRPC for the repository, then commits the
row, the saga and a command in one transaction. The relay publishes the command
to queue `confirmations`; *notification* sends the mail and publishes a result;
the SagaResultConsumer of *subscription* completes or compensates the saga.
Clicking the mailed link confirms the row and queues SubscriptionActivated, the
unsubscribe link deletes it and queues UnsubscriptionActivated; *tracking* reads
both. Its scanner compares tags on a timer and queues one notification per
subscriber through an outbox of its own.

`PROJECT.json` lists the hazards, each at the line where it bites.

## 2. The plan

1. `SubscriptionSaga`: the saga with everything that touches its row. Checked,
   its inductive invariant proved.
2. `AtLeastOnce`, `OutboxRelay`: what an outbox promises and the relay that
   keeps the promise. Checked, invariants and refinement proved.
3. `TrackingReplica`: tracking's copy of the subscribers. Checked, its inductive
   invariant proved; it should also refine an abstract last-writer register
   wherever nothing is overtaken.
4. `ReleaseTracking`: the scanner, its cache, tag reports. Checked, its inductive
   invariant proved.
5. `RabbitConnection` and `NotificationService`: Channel and reconnect under
   the mutex, composed with the two consumers that share the connection.
   Checked, its inductive invariant proved.
6. `GitHubClient` and `SubscribeApi`: circuit breaker and cache, composed with
   the requests of both servers and the translation of errors. Checked, its
   inductive invariant proved.
7. Left: a composition of 1 and 3 through unordered queues, with the liveness of
   a whole subscription; the refinement named under 3.

## 3. The modules

**`SubscriptionSaga`.** Token, saga and command of one Subscribe request stand in
one-to-one correspondence (a fresh uuid, one transaction), so a member of `Sagas`
names all three and `PairOf` gives the pair the request is for. `subs`, `users`,
`sagas`, `outbox` are the tables; `requests` holds API requests between their
read and their transaction (`SubscribeLookup`, `SubscribeCreateUser`,
`SubscribeCommit`; `TokenLookup`, then `ConfirmCommit` or `UnsubscribeCommit`);
`announced` is the effect of the activation events committed so far. `Save`
copies the upsert: it keeps the id of an existing row. The relay is seen from
one row (`RelayPublish`, `RelayRollback`, `RelayFail`). The consumer of
`notification` is split where a crash matters: the SMTP outcome (`SmtpAccepts`,
`SmtpRefuses`, `SmtpBreaksAfterAccept`), then the reply and the settling of the
delivery (`ReplyDelivered`, `ReplyDropped`, `ReplyFails`, `ReplyUnsettled`).
stepActivateSubscription is split between its read and its update
(`StepActivateRead`, `StepActivateUpdate`); compensate is one transaction
(`Compensate`). Queues are counts of copies: no consumer sets a prefetch limit,
so a requeued delivery comes back behind later ones and order means nothing.
`Faults` chooses what may fail: requests, the relay's batch, SMTP after it took
the mail, the reply's way, the worker. A refused mail is not a fault but an
outcome.

**`OutboxRelay`.** Messages are the outbox ids. `Insert`, `Commit`, `Abandon` are
a business transaction; `Fetch`, `Publish`, `PublishError`, `StatementFails`,
`CommitBatch`, `CommitFails`, `Rollback` a batch of one relay. What a batch has
deleted or failed is kept in `sent` and `unsent` until it commits. A statement
that fails ends the transaction: PostgreSQL frees its rows at once (`Held`,
`Free`), the relay logs the error and goes on publishing the rest of its list
while another may fetch, publish and settle the same rows, and only the commit
fails. Hence `AtLeastOnce` allows a copy to be handed over after the message was
settled; what it forbids is to settle one before, to bring one back, and to
publish one that was never owed. `accepted` counts what the broker confirmed. It also confirms a message it drops because no
consumer has declared the queue yet: that loss is in `SubscriptionSaga` (`Route`,
`lost`). The module maps its rows onto `AtLeastOnce` with `INSTANCE ... WITH`.

**`TrackingReplica`.** `log[p]` is the sequence of events the subscription
service committed for a pair, `queued` those not yet delivered, in any order and
possibly again (`Repeat`). Every SQL statement of the two handlers is one step,
kept in `work` between statements: `ActivationBegins` (GetByName), `Create` or
`CreateConflicts`, `Upsert` or `UpsertFails` (foreign key);
`UnsubscriptionBegins` (DeleteByEmailAndRepo), `HasSubscriptions`, `Drop`.
`Resolve` is the gRPC call of a Subscribe request. `GiveBack` is a nack with
requeue. `unanswered` holds the repositories GitHub does not know or has no
release of at the moment (`GitHubChanges`, for the names in `Fickle`): an
activation of one that is not registered fails and is requeued at once
(`CreateRefused`). `latest` and `damaged` are history: a pair is damaged when its latest
change came from an event that a newer one had overtaken, or from the cascade of
a repository delete. The model delivers every event: losses in the outbox are
the subject of `OutboxRelay`.

**`ReleaseTracking`.** One repository; releases are numbered in the order of
publication. A scan (`active`) goes through GetAll (`Scan`), GetLatestRelease
(`CacheHit`, or `Fetch` and `Store`), the comparison of tags (`Decide`),
GetByRepoID (`ReadSubscribers`), one transaction (`CommitRelease`, or
`CommitFails` when the repository is gone) and `Report`. A GetOrCreate call
shares the cache and ends in `Create` and, when it came from the subscription
service, in `Answer`, the insert of that service's own row: its ON CONFLICT
clause leaves an existing tag alone. Subscribers come and go in single steps
here; what happens inside those handlers is the subject of `TrackingReplica`.
`told` counts commands per subscriber and release; `since`, `late` and `astray`
are history that the properties need.

**`RabbitConnection`** is the object a process's goroutines share: `mutex`,
`conn` (what IsClosed says), `links` (connections the broker holds open) and
where each goroutine is in Channel() (`Ask`, `Lock`, `Dial`, `Opened` or
`OpenFailed`). Failed dials change nothing and keep the mutex, so they are no
steps. `Outage` drops the link and may take the broker away until
`BrokerReturns`. Its actions change its variables only.

**`NotificationService`** extends it with the process: consume (`CallChannel` to
`ChannelOpens` or `ChannelFails`, `Take`, `Leave`), Start (`StartAgain`) and
handle (`SmtpAccepts`, `SmtpBreaks`, `SmtpRefuses`, `LoginRefused`;
`ReplyPublished` or `ReplyFails` through the same connection; `Settle`). `place`
is the broker's view of a message, `inbox` the channel's buffer; deliveries
buffered before a link went are still handled, and their acknowledgement then
does nothing. `Stop`, `Exit`, `Crash` and `Restart` are the process. Opening the
channel, declaring the queue and consuming are one step, and so are opening the
reply's channel and publishing: a link lost between them ends as one lost just
before. When the relays publish a message is seen as when it is first pushed.

**`GitHubClient`** is tracking's client for one repository: the keys
`repo_exists:` and `release:`, the breaker (gobreaker v1.0.0: state, consecutive
failures, probes and successes of its generation), and calls that look in the
cache (`CacheAnswers`), are refused (`BreakerRefuses`) or ask (`Ask`), are
answered and report (`Answers`), and store (`Stores`); `fresh` says whether a
call belongs to the breaker's current generation. A caller in `Others` asks about
another repository, which shows only in the breaker; while the fault is "others"
that repository has no release, and the 404 counts as a failure of GitHub
(`HasRelease`).

**`SubscribeApi`** puts the servers in front: `Refuse` is everything the
middleware and the validation turn away, `Serve` the operations that answer
without tracking, and a Subscribe request goes from `Begin` through `LookUp`,
`Existence`, `LatestRelease` and `Create` in tracking, then through `FindUser`,
`CreateUser` and `Save`, or ends early with what `Status`, `Translated`,
`HttpCode` and `GrpcCode` make of an error. Clients may share an email
(`EmailOf`): the user's row is inserted outside of any transaction, so of two
first requests that both missed it one gets 500 (`CreateUserConflicts`). A client
may hang up (`ClientLeaves`), the process shuts down (`Terminate`, `Exit`,
`Cut`). `saw` records what was amiss while a request ran, for as long as an
answer may still come of it (`Matters`), and `said` the last answer with what may
explain it. "raced" is recorded only when another request stores the user between
this one's look and its insert. The
gRPC server tells its clients "internal" where the HTTP server tells causes
apart, so ErrorsAreExplained speaks of HTTP. The row in the subscription
service's own `repositories` table is in `ReleaseTracking`.

`MC*` modules give the constants values; `*Proofs` modules hold the theorems.

## 4. The runs

| Run | Shows | Distinct states |
|---|---|---|
| SagaResubscribe | one user, one repository, two requests, all faults but the relay's: opt-in, rollback, events | 1.2 million |
| SagaTwoUsers | two users, two workers: compensation stays in its pair; the proofs' invariant holds | 24 500 |
| SagaLiveness | one request, two saga result consumers, all faults, two copies of each message: outcomes, nothing forgotten, every saga is decided | 103 000 |
| SagaCompensatesConfirmed | *violated*: a compensation deletes a confirmed row | |
| OutboxPromise | three messages, two relays, batches of two, all faults, transactions that end under a working relay: refinement of `AtLeastOnce`, duplicates accounted for, nothing stays pending | 240 000 |
| ReplicaTwoEmails | two subscribers, two instances, aborts, refusals by GitHub, a repetition: the copy converges; the proofs' invariant holds | 346 000 |
| ReplicaTwoRepos | two repositories deleted and re-created under held ids, GitHub may stop answering for one: every event is settled that GitHub does not hold up | 113 000 |
| ReplicaOvertaken | *violated*: an unsubscription is overtaken by its activation | |
| Releases | one scanner, two subscribers, re-registration, errors and crashes: nobody is passed over, the copied tag is explained, releases are seen; the proofs' invariant holds | 111 000 |
| ReleasesTwice | *violated*: two instances tell one subscriber of one release twice | |
| NotificationService | two notifications, one undeliverable, and a confirmation; one outage, one lost SMTP answer, one end of the process: nothing lost, repeats explained, shutdown completes, deliverable mail gets through; the proofs' invariant holds | 177 647 |
| SubscribeApi | an HTTP and a gRPC client of one user beside the scanner, five kinds of fault, shutdowns, overlapping first requests: answers are explained, the service recovers with GitHub; the proofs' invariant holds | 261 000 |

An event that the broker refuses five times becomes FAILED and is never sent again;
the models treat this as the code's intent (`aside` in `AtLeastOnce`, an exception
in `SagaIsDecided`), though the documentation promises more.

The violated runs state what the documentation says; each trace uses no fault
beyond what its title names and is described under `findings` in `PROJECT.json`.
Two more races are in the models without a run of their own: Confirm saves a row
it read before its transaction and so brings back one that was unsubscribed
meanwhile (`S/usecase/user_usecase.go:228`; ConfirmedIsAnnounced shows that it
comes back announced), and the cascade of a repository delete takes along a
subscriber that arrived after the count (`T/transport/broker`, `damaged` in
`TrackingReplica`).

`CHECK_DEADLOCK FALSE` is set in the runs of the saga, the outbox, the replica and
the releases, because these come to rest when every request, row and message
has been dealt with and users ask for no more. `NotificationService` and
`SubscribeApi` check deadlock: an undeliverable mail circles for ever, and users
go on asking.

*Bounds.* `Sagas`: two requests are the fewest with which an old link, mail or
reply can meet a newer row, and one request alone is enough for duplicates of
its own messages. `MaxCopies` is 1 or 2: two copies of one message already let
one be handled before and one after any other step. `MaxSubId` 3 lets the
sequence hand out ids 1 and 2: the second id is needed when a row was deleted
and inserted again. `MaxId` 3 with batches of two gives rows that succeed and
fail together, rows left for the next batch, and rows inserted while a batch is
open. `MaxAttempts` is 2 for the
code's 5: the last attempt and one before it. `MaxRollbacks` bounds crashes.
`MaxEvents` 2 per pair is enough for an event and its successor; `MaxRepoId`
leaves room for every deletion and re-creation of the instance. In `Releases`
two tags are an old and a new release, ids 1 and 2 a repository and its successor,
one abort a failure at any step; `MaxTold` 1 suffices to know that somebody was
told. One scanner has the cache, the list and GetOrCreate to race with; two
scanners are what `ReleasesTwice` is about. In
`NotificationService` the undeliverable mail keeps one consumer busy for ever
beside a deliverable one, and the confirmation shares their connection; one
outage leaves each goroutine anywhere in Channel(), and one end of the process
meets it there. `Fickle` names one repository, so that another stays answered
beside it. In `SubscribeApi` one thing goes wrong at a time: a fault, a shutdown,
or a request that overtakes another between its look for the user and its insert
(`MaxActive` and `MaxAmiss` 1); the fault "others" stands for clients that hang
up, rows of tracking that come and go, and the scanner's repository being without
releases. GitHub changes while no fault is there, and the world stands still while
the process is away; the proofs use none of these guards. The scanner keeps
breaker and cache moving; with `Threshold` 1 every failure of anybody opens the
breaker for all, and with `MaxRequests` 1 a probe has to wait. The safety
properties of the passing runs do not depend on the bounds at all: they are
proved for every value.

*Fairness.* Users, crashes and faults are never fair. In `SubscriptionSaga` the
consumers and the relay loop for ever (`Start`, `Run`), so a notification
instance eventually declares its queue (weak fairness), and what is tried again
and again gets through once: publishing, the SMTP answer, the reply, the
worker's statements (strong fairness, since a fault or a requeue disables them in
between). In `OutboxRelay` each relay's step is weakly fair (the ticker; the subscript names
what every step of a batch changes), and
rollbacks are bounded: a database that ends every transaction for ever would keep
rows pending for ever. In `TrackingReplica` a queued event is delivered when its
consumer is idle again and again (strong), and a handler that has begun goes on
(weak). GitHub owes no answer: EventsAreSettled excepts activations of
unregistered repositories that it refuses (`WaitsForGitHub`), which the consumer
requeues for as long as that lasts, and shows that the other events get past. In `ReleaseTracking` the ticker
starts scans, calls return and the cache's five minutes pass (weak); aborts are
bounded, since a scanner that fails each time sees nothing. In
`NotificationService` goroutines run, SMTP answers, the broker comes back and
pushes what is ready, and docker compose restarts the container
(`docker-compose.yml:166`) (weak); select picks among ready cases at random, so
it does not pass over ctx.Done for ever (strong for `Leave`), and SMTP takes a
deliverable mail if asked often enough (strong). In `SubscribeApi` clients ask
again, goroutines run, keys expire and the breaker's timeout passes (weak);
nothing says that a fault ends, so RecoversWithGitHub presumes it. It presumes,
too, that the repositories others ask about have releases: as long as the
scanner's probes are answered 404, it can keep the breaker open for everybody.

## 5. The proofs

`SubscriptionSagaProofs` proves `Spec => []IInv` and from it every safety
property the saga runs check. The properties are not inductive alone:

- DoubleOptIn needs the tokens of confirm requests to have been mailed and a
  row's token to belong to its pair (`EvidenceIsSound`, `RowsWellKeyed`), because
  Confirm saves what it read earlier.
- OutcomeIsEarned needs every reply, in a queue or in a worker's hands, to stand
  for what SMTP did (`EvidenceIsSound`).
- CompensationRollsBack needs pending rows to keep the id their own saga was
  started for (`PendingRowsKeepTheirSaga`); uniqueness of ids and pairs then
  shows that the delete by id hits exactly that row.
- CompensationStaysInPair rests on `RowsWellKeyed`: ids come from a sequence and
  are never reused for another pair.
- GhostsComeFromCompensation rests on the evidence for failure replies.

The proof of each conjunct is a lemma of its own with a step per action; `RowStep`
reduces what the actions do to rows to saving, deleting by pair or deleting by
id, and `SaveEffect` says once what an upsert yields.

`OutboxRelayProofs` proves the inductive invariant, from it PublishedIsCommitted
and DuplicatesAreAccounted, and `Implements`: every step of the relay is a step
of `AtLeastOnce` or stutters, hence `Spec => KeepsPromise`.

- DuplicatesAreAccounted needs `AcceptancesCharged`: every acceptance is charged to
  an attempt, a rollback, the row's deletion or the live transaction at work on
  it. A relay that lost its transaction publishes each message on its list once
  more; the rollback pays for that copy in advance, so the copies still to come
  are counted (`Late`, the number of such relays that list the message).
- A message is settled once because the row locks of live transactions are
  disjoint (`LocksExclusive`); they say nothing of a transaction that has ended.
- Late copies are of committed messages because a listed row was
  (`ListedAreCommitted`), whatever became of it since.

`NotificationServiceProofs` proves `Spec => []IInv` for any number of messages,
outages, crashes and lost SMTP answers, and from it TypeOK, OneConnection,
NothingLost and DuplicatesAreAccounted. None of these is inductive:

- OneConnection needs `ConnInv`: who is past the mutex holds it alone, and who
  dials does so with no connection there; and that no goroutine outlives its
  process (`NobodyLeft`), or a restart would find a stale dial.
- NothingLost needs `HandsAreOwn` (a channel's buffer holds deliveries of its own
  queue, each once, and none between two channels), `BrokerKnows` (what is in
  hand is unsettled at the broker while the channel lives and ready again when
  it is gone) and `StepsAreEarned` (a delivery about to be acknowledged was
  mailed and, for a confirmation, answered).
- DuplicatesAreAccounted needs the count per message to be tight: one mail
  without excuse only for a message that is settled or about to be
  (`MailIsCounted`).

Each action's effect on the deliveries is a lemma (`TakeEffect` and so on), each
conjunct's preservation another, with a step per kind of action.

`TrackingReplicaProofs` proves `Spec => []IInv` for any set of pairs, any number
of consumers, gRPC callers, events, aborts and repetitions, and from it TypeOK,
RowsAreActivated and ReplicaConverges:

- RowsAreActivated needs what a handler knows to stay true while it waits
  (`Sound`): the id it is going to upsert under belongs to the repository of its
  event or to none. That holds because `nextRepo` only grows and every id is
  below it (`IdsAreFresh`), so a repository that is deleted and registered again
  never gets an id a handler may hold.
- ReplicaConverges needs an account of each event: it is under way, applied, or
  overtaken by one that was applied (`NothingForgotten`); an unsubscription that
  waits between its statements has been applied (`Sound`). Then a pair with
  nothing under way has its newest event applied, and the rows are those of the
  latest applied event (`RowsAreLatest`, `LatestIsTracked`), unless the pair is
  damaged.

`Quiet` collects the steps that leave log, tables and history alone; the rest is
one step per statement of the handlers. `LogGrows`, `LatestGrows` and
`ReposGrow` say what no step takes back.

`ReleaseTrackingProofs` proves `Spec => []IInv` for any number of scanners,
callers, subscribers, releases, repository ids and aborts, and from it TypeOK,
RecordedIsTold and CopyIsExplained:

- RecordedIsTold needs `CommitsCover`: while a scan is between its reading of the
  subscribers and its commit, everybody who is subscribed was read by it or is
  marked late. A repository deleted and registered again has a new id, so the
  old scan's commit finds no row.
- TypeOK needs `TagsAreKnown`: who is past the cache and GitHub has a tag, so what
  is committed, created or reported is one.
- CopyIsExplained is inductive with them: whoever changes tracking's tag goes on
  to report it, or leaves its mark in `astray`.

`SubscribeApiProofs` proves `Spec => []IInv` for any clients of either server, any
faults and any thresholds of the breaker, and from it TypeOK (an open breaker has
no live request, its counts stay below their limits), NotFoundIsHonest,
ErrorsAreExplained, AcceptedIsRegistered and GrpcIsDrained. An answer is honest
when it is given because the reason was recorded when it arose:
`PhasesAgree` ties a request's place in the handler to its place in the client,
`ResultsAreExplained` finds each result's reason in the history, and
`WorldIsExplained` accounts for the world having changed behind a request (a
repository gone after its existence was confirmed, a repository or a user stored
by somebody else). `OnlyHttpRemains` is what GracefulStop leaves. The step of each action is
one lemma per part: its effect on types, on a request's place, on its reasons and
on what is said.

Assumptions: `PairOf` is a function from requests to pairs, and the pairs of the
replica are pairs; the attempts limit, the batch size, the breaker's thresholds
and the bounds on tags, ids and counted commands are positive, the other bounds
natural; the notification process has its two goroutines and `QueueOf` names one
of them for each message; there are finitely many relays; the client's callers
are the requests and the scanner, and each request has its transport and its
email. TLC evaluates them in every run. Like the
bounds of the runs, `MaxTag`, `MaxRepoId`, `MaxAborts`, `MaxEvents`, `MaxRepeats`
and `MaxTold` stay in the guards, and the theorems hold whatever they are.

Only model-checked: liveness (SagaIsDecided, PendingIsProcessed, EventsAreSettled,
ReleaseIsSeen, ShutdownCompletes, MailGetsThrough, RecoversWithGitHub), which
TLAPS cannot prove under fairness.

## 6. Not modelled

Of the servers, the regular expressions of the validation, CORS, request ids,
bodies and headers are left out: no property tells them apart. Metrics,
logging, configuration and dependency injection keep no state the properties
speak of. Generated code (`*.pb.go`, `wire_gen.go`, `docs.go`),
the publishers the outbox replaced, and operations nothing calls
(`UserUseCase.Unsubscribe`, `DeleteByUserIDAndRepo`) are left out.
A restart of tracking, which forgets the breaker's counts, is not in
`SubscribeApi`; its interval ending has the same effect on a closed breaker. How
long a hanging GitHub takes against the breaker's interval
(`T/infrastructure/clients/github/github_client.go:42`) is a matter of durations,
which the models do not have. Of GitHub's
answers `ReleaseTracking` knows a tag or an error (an abort): a release that is
withdrawn, so that an older one is the latest again, is not considered. SQL is
modelled at the granularity of statements and transactions under READ
COMMITTED, the level PostgreSQL uses here; a malformed message, which no
publisher of this system produces, is not considered.
