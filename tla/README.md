# Verification of overload-party-scenario

The scenario service of Overload Party serves story episodes, records their
completion, and runs the player's onboarding; it tells the other services of the
onboarding by events that go through a transactional outbox. This directory holds
TLA+ models of what is hard to test in it, the TLC runs that check them on small
instances, and TLAPS proofs of the main results for every size.

Paths below are relative to the repository root.

## 1. Inventory

| Component | State it keeps | Operations | Hard because | Correct when |
|---|---|---|---|---|
| Outbox repository (`internal/repository/postgres/outbox_repo.go`) | `scenario.outbox_events`: `published_at`, `failure_count`, `last_error`, `last_attempted_at` | `writeOutboxEvent`, `ClaimUnpublished`, `MarkPublished`, `RecordFailure` | several processes claim at once; leases run out; statements commit and their answers are lost | a row is settled only after delivery; leases exclude each other; retries are bounded; a committed row is settled or given up |
| Relay and ticker (`internal/usecase/outbox/relay.go`, `internal/handler/worker/outbox_ticker.go`) | the batch in hand | `RunOnce`, `processOne`, `Run` | crash between publish and mark; stale failure counts; ambiguous publish | as above, and a row given up has had its ERROR log |
| Onboarding (`internal/usecase/onboarding/service.go`, `internal/repository/postgres/onboarding_repo.go`) | `scenario.player_onboarding`, outbox rows | `GetScript`, `UpdateName`, `SelectFaction`, `Complete`, `MarkComplete`, `PublishEvents` | double clicks and retries; unique key held by an open transaction; ambiguous commit; account is read before its event has arrived | completion once, announced once; acknowledged steps survive; every request is answered |
| Story (`internal/usecase/story/service.go`, `internal/repository/postgres/story_repo.go`, `internal/domain/scenario.go`) | `scenario_episodes` (read), `player_story_progress` | `ListEpisodes`, `GetScript`, `CompleteEpisode` | the lock is decided on four reads at four moments, two of them calls to account | no unearned completion; lists and locks agree with the world |
| Router and REST handlers (`internal/router/router.go`, `internal/handler/rest`) | none | route, verify the token, bind the body, call the service, answer | routes and statuses are named a second time in the client; an ambiguous commit must not look like a refusal | every answer means to the client what happened |
| Account client (`internal/adapter/http/accountclient.go`) | none | `ValidateOnboardingName`, `GetOnboardingPlayer`, `GetPlayerProgress` (two calls) | torn reads | - |
| Pub/Sub publisher (`internal/adapter/pubsub/publisher.go`) | client, topics | `Publish`, `Close` | an error does not mean the topic lacks the message | - |
| Presenters, domain events | none | wire forms | - | list and lock use the same `LockReasons` |
| Script stores (GCS, local) | none | `ReadScript` | - | not found and failure are told apart |
| Process (`cmd/server/main.go`) | errgroup, server, pool, clients | `run`, `runHTTP` | shutdown order, 10 s limit, failing server | in-flight work ends before its resources go |
| Configuration (`internal/config/config.go`) | none | `FromEnv` | the same settings are checked in two places and in two units | what is accepted is usable |
| Test doubles for consumers (`packages/api-scenario/apiscenariofake`) | channels per topic | `Publish`, `Subscribe`, `Consume`, `ExpectHandled` | bounded channels, cancellation | `Consume` ends on cancellation |
| REST client (`packages/api-scenario/apiscenarioclient`, `openapi_gen.go`) | base URL, request editors | one method per operation | the caller gives up while its request still takes effect; responses are lost; calls are retried | a sentinel of refusal is told only of what never happens, success only of what has happened |
| REST server fake (`packages/api-scenario/apiscenarioserverfake`) | one callback per endpoint | three handlers, `Close` | callbacks are set while handlers run | a call ends as a callback of its time means |
| Test infrastructure (`pubsubtest/emulator.go`, `postgrestest/postgres.go`) | a subscription's goroutine and channel; containers | `Subscribe`, `WaitForN`, `stop`; start and stop of containers | bounded channel, acknowledgement before hand-over, timeouts in the middle of a wait | nothing acknowledged is lost, the cleanup returns |
| Firestore game config | none | never called by the running server | - | - |

How they interact. A request passes router and handler to a service, which asks
account over HTTP, reads and writes PostgreSQL, and reads the script store.
Onboarding writes its events into `outbox_events` in the transaction of the
business rows. In each server process one goroutine, the ticker, calls `RunOnce`,
which claims rows, publishes each to Pub/Sub and records the result. Account
consumes the events and changes the player the service later asks for: a loop with
a delay in it. Processes share nothing but the database, Pub/Sub and account. Consumers
call the service through the client, and in their tests the server fake and the test
doubles of the event side.

`PROJECT.json` lists the hazards at their lines.

## 2. Modules

| Module | Models | Uses |
|---|---|---|
| `EventDelivery` | the promise of the outbox: at least once, never before the commit, settled only after delivery | |
| `Outbox` | the table, the claim and result statements, the relay of every process, clock, crashes | instantiates `EventDelivery` as its abstract specification |
| `OutboxProofs` | theorems about `Outbox` | extends `Outbox` |
| `Onboarding` | the four onboarding endpoints of one player, their transactions, account | composes `EventDelivery`: its outbox is enqueued into and delivered from by that module's actions; takes outcomes and statuses from `ApiScenario` |
| `OnboardingProofs` | theorems about `Onboarding` | extends `Onboarding` |
| `Story` | the three story endpoints of one player | |
| `StoryProofs` | theorems about `Story` | extends `Story` |
| `Lifecycle` | one process from its first client to its exit: `run`, `runHTTP`, what is under way when it stops | |
| `LifecycleProofs` | theorems about `Lifecycle` | extends `Lifecycle` |
| `Startup` | the process from its environment on: `FromEnv`, the constructors, what a value can still spoil later | extends and composes `Lifecycle` |
| `StartupProofs` | that a process with any environment is one of `Lifecycle`, and that what is accepted is usable | extends `Startup`, `LifecycleProofs` |
| `RemoteCall` | what a caller may rely on when a call returns | |
| `ApiScenario` | the REST contract as both ends implement it: requests, routes, statuses, sentinels (pure operators) | |
| `Rest` | calls on their way from a client method through the service and back | extends `ApiScenario`; instantiates `RemoteCall` as its abstract specification |
| `ServerFake` | the server fake, with the client of `Rest` in front of it | extends and composes `Rest` |
| `RestProofs` | theorems about `Rest` and `ServerFake` together, the refinement of `RemoteCall` among them | extends `ServerFake` |
| `Subscription` | what the integration tests read the Pub/Sub emulator with | |
| `SubscriptionProofs` | theorems about `Subscription` | extends `Subscription` |
| `Fakes` | the test doubles: broker, publisher, stream and expecters over bounded channels | |
| `FakesProofs` | theorems about `Fakes` | extends `Fakes` |
| `MCOutbox`, `MCOnboarding`, `MCStory`, `MCLifecycle` (of `Startup`), `MCFakes`, `MCRest` (of `ServerFake`), `MCSubscription` | small instances for TLC | |

Because `Outbox` implements `EventDelivery` (checked and proved), `Onboarding` need
not look into the relay: an event of a committed row may reach account at any later
time, in any order, again, or never. `Onboarding` in its turn is proved to use the outbox as
`EventDelivery` has it.

### Outbox

State: `committed`, `published`, `failureCount`, `lastError` and `attemptAge` are the
columns of the table; `pc`, `batch`, `current` and `seen` are where each process is
in `RunOnce`/`processOne`; `claimAge` is how long ago it claimed; `delivered` is what
the topics hold and `stuckLogged` for which rows the ERROR line was written.

| Action | Code |
|---|---|
| `Enqueue` | `writeOutboxEvent`, at the commit of its transaction |
| `ClaimSelect`, `ClaimCommit` | the claim statement while it holds its row locks, and its commit with the rows returned |
| `ClaimFail`, `ClaimLost` | the statement is rolled back; it is committed but reading its rows fails. `RunOnce` returns the error and `OutboxTicker.Run` logs it |
| `PublishOk`, `PublishError` | `Publisher.Publish` returns; on an error `processOne` compares `FailureCount + 1` with the threshold and logs |
| `MarkPublished`, `RecordFailure`, `ResultLost` | the two result statements; either one failing is logged and the next row is taken |
| `Crash`, `Restart` | the process dies with its batch and comes back idle |
| `Tick` | the database clock |

Abstractions. A row is a number, in the order of `created_at`; rows are committed in
any order because `now()` is the start of the inserting transaction. Times are ages
that saturate one unit past `VisibilityTimeout`, the only comparison the code makes
(strict, as in the SQL). `LIMIT` with `ORDER BY` is `Oldest`: a set, because
`RETURNING` promises no order. A row lock is held only while a claim is in progress;
`SKIP LOCKED` leaves such rows out, a result statement waits for them. A result
statement takes its `now()` and its effect in one step. A result statement that commits while its answer
is lost is `MarkPublished` or `RecordFailure`: the code only logs the difference. A
message that is delivered after `Publish` has given up is delivered at the error: the
code looks at nothing in between. Nothing deletes rows.

### Onboarding

State: `onboarded` and `inserting` are the row of `player_onboarding` and the open
transaction that holds its key, `outbox` the committed events; `registered`, `faction`
and `delivered` are account; `req` is every request in progress with its step; `acked`,
`chosen` and `completions` are what the client was told. One player stands for all,
since everything is keyed by `player_id`.

The actions follow the calls of each method in their order: `ReadScript`;
`ValidateName` then `PublishEvents`; the faction check at arrival then `PublishEvents`;
`GetOnboardingPlayer`, `InsertOnboarding` (waits while another transaction holds the
key, then sees a unique violation or not) and `CommitOnboarding` (business row and
event together, or neither, with the answer possibly lost). `Crash` ends all requests
and rolls back. `Register` and `Consume` are account, outside the repository.
`AnswersAreTrue` is what `Rest` builds on: a request answered with success has happened and
one answered with a refusal has not, so that only a 5xx leaves the question open.

### Story

State: `active` and `completed` are the tables, `level` and `owned` account's, `req`
every request with the picture it has put together so far, `toldDone` the completions
the client was told of. Each read is an action: `ListActiveEpisodes` or `FindEpisode`,
`ReadPlayer` and `ReadFactions` (two HTTP calls), `ReadProgress`, at which the lock is
decided, then `ReadScript` or `MarkComplete`. `offered` and `failed` are history of a request:
the episode has been on offer ever since it arrived, and something it called has failed;
`CompletionIsRepeatable` needs both to say when a completion must be answered 200. `LevelUp`, `GainFaction`, `Publish` and
`Withdraw` change the world in between. An inactive episode is one `FindEpisode` does
not find: the query returns the row, the service refuses it with the same error.

Taken from outside the code: levels do not fall, factions are not lost, requirements of
an episode do not change while the server runs. Without the first two an episode could
become locked after it was completed, which the code does not try to prevent.

### Lifecycle

State: `main` is where `run` is, `opened` the stack of its deferred closes (`wanted` is
the whole stack, which depends on the configuration: a dialer with IAM authentication, a
GCS client unless scripts are local), `group` the goroutines of `runHTTP` that have not
returned, `failed` that one of them returned an error. The context of the group is
cancelled when `signalled` or `failed`. `relay` is where the ticker's `RunOnce` is,
`cause` how its publish ended, `charged` the causes of the failures that were recorded;
`request` is what each HTTP request is doing, `querying` meaning that it holds a
connection of the pool. The constructors that follow the clients and may refuse, too, are
in `StartFails`. Pool and server behave as pgx and net/http do: `pool.Close` refuses new
queries at once and waits for running ones, `Shutdown` lets running requests finish, and
no statement is begun with a cancelled context.

`Outbox` has the same relay among many and with the table; here it is one batch in a
process that stops. What a stop does to rows is there an ambiguous publish error whose
record fails.

### Startup

State: `env` is the environment, `built` the steps of `run` that have succeeded, `error`
the one that failed; the rest is `Lifecycle`. `Construct` is one step of `run`: reading the
configuration (`Accepts`, variable by variable), opening the next client, constructing the
account client, relay and ticker, parsing the public key, serving. `ConstructFails` is a step that refuses its values
(`Takes`), or a client that cannot be made; `NewAccountClient` panics then, and the deferred
closes run all the same. `Runs` is everything that follows, restricted by
what the environment spoils late: a port out of range makes `ListenAndServe` fail, a threshold
beyond PostgreSQL's INT makes every claim fail. `AcceptedIsUsable` is about the lower bounds
only: these two are accepted and useless. Which clients there are (`wanted` in
`Lifecycle`) follows from the environment.

A value is its text, with the number where it is one; durations are in microseconds, because
the claim cuts them to milliseconds. `MaxInt4` stands for 2^31 - 1 and is small in the run. The
libraries refuse the text `"garbage"` where they parse (`DATABASE_CONN`, the public key);
`ACCOUNT_BASE_URL` is not looked into at the start. In which order `FromEnv` reads the variables
shows only in the text of its error.

### Rest, ApiScenario, RemoteCall

`ApiScenario` has the tables of both ends side by side: methods and paths of the generated
client (`NewRequest`), the routes of the service, how each handler's service call can end
(`Outcomes`), the statuses, and what the client makes of a response (`Parsed`,
`ResolveStatusError`, `Result`). A body is none, one that fits the operation's type, or other
JSON; a token is valid or expired. The default of `lang` and the log levels are left out.
`Done` says whether the operation has taken effect when the service call ends so, which an
error without a sentinel leaves open; for onboarding that is `Onboarding!AnswersAreTrue`, and
in `Story` only `MarkComplete` has an effect.

In `Rest` `call` is the caller's side of each call and `server` the other one: the request
travels, is handled, is answered, and the response is received. `GiveUp` ends the caller's
side at any time (context, connection, reading of the body) while the other goes on;
`Vanish` ends the other side. `base` is the URL of `New`. The request editors are the caller's,
not the client's: `Send` takes what they leave, any token or none, and an editor that fails, or
a URL that does not parse, ends the call there. The calls have nothing to do with each other
in the service of `Rest`; that only one completion of the onboarding succeeds comes from the
INSERT and its key, and is `Onboarding!OneCompletion`. `happened` records what the
service has done for each call. The sentinels are refined to `RemoteCall`: nil to "done",
`ErrUnauthorized` to `ErrConflict` to "refused", everything else to "unknown".

### ServerFake

`peer` says whether the base URL is the service's or the fake's. `SetFn` is the test writing a
callback, `Find` the handler that copies it under the lock, `Serve` the rest of the handler. The
test writes the fields without the lock; a func is one word, so a read sees one of the values
written. `Close` is in two steps: no connection is accepted from the first on, and it returns when
no request is left. `seen` records the callbacks an endpoint has had while a call was under way;
a call may end as any of them means. Callers of the fake are outside `RemoteCall`: they are
told what the test makes up.

### Subscription

State: `callback`, `ch` and `receive` are the goroutine of `Subscribe` with its channel,
`wait` and `results` the test's waits, `stop` its cleanup; `backlog` is what the service still
has for the subscription, `acked` and `kept` what its client has acked or still extends. The
client's `Receive` is external: after a cancellation it starts no callback and returns when
those running have, and when every message that was neither acked nor nacked has been
given up (its `MaxExtension`). `Push` and `Abandon` are the two cases of the callback's
select, `Take` and `GiveUp` those of the wait. `pushed` and `returned` are history: what has
entered the channel, and what the waits have given the test.

### Fakes

State: `byTopic` and `queue` are the broker's lists and channels, `published` the
publisher's record, `call` what each publishing goroutine does, `consume`, `handled` and
`cancelled` each `Stream`; `taken` and `observed` are what receivers and tests have got.
`audience` and `missed` are history: who was subscribed when a `Publish` was called, and
what had been published when a receiver subscribed. A message is its place in the record,
since payloads are copied unread. A typed expecter is a receiver that reads one message
whenever its test calls `Wait`. Timeouts of `Wait` and `ExpectHandled` are not actions:
they take nothing, and the test may stop calling at any time.

## 3. Runs

| Run | Instance | Shows |
|---|---|---|
| `outbox_safety` | 2 rows, 2 processes, batch 2, threshold 2, timeout 1 | `TypeOK`, `PublishedIsDelivered`, `ExclusiveLease`, `RetryBudget`; implements `EventDelivery` (`Delivers`) |
| `outbox_live` | 2 rows, 1 process, batch 1 | `EventuallySettled`; with one process `DeadIsLogged` holds |
| `outbox_never_lost` | 1 row, 1 process, Pub/Sub recovering | refutes `NeverLost` |
| `outbox_dead_letter_log` | 1 row, 2 processes | refutes `DeadIsLogged` |
| `onboarding` | 2 requests at a time, 3 in all | `TypeOK`, `OnboardedIsAnnouncedOnce`, `OneCompletion`, `AckedIsDurable`, `AnswersAreTrue`, `AnnouncedWasSelected`, `EveryRequestAnswered` |
| `onboarding_conflict`, `onboarding_settled` | the same | refute `ConflictMeansStepSkipped`, `AnnouncedIsChosen` |
| `story` | 2 requests at a time without limit, a prologue and an episode that needs it, a level and a faction | `TypeOK`, `CompletionsAreEarned`, `LocksAreTrue`, `CompletionsAreShown`, `CompletionIsRepeatable` |
| `lifecycle` | 2 requests; 699 environments, all that differ from a valid one in at most two variables | `TypeOK`, `WhatIsUsedIsOpen`, `NothingCutShort`, `StoppingCostsNoRetry`, `AcceptedIsUsable`, `StopsWhenAsked` |
| `fakes` | 2 publishing goroutines, 2 topics, a stream and an expecter, 3 messages | `TypeOK`, `DeliveredOnce`, `NothingElse`, `ResultsInOrder`, `HangingPublishIsUndrained`, `CancelledConsumeReturns` |
| `rest` | 2 calls of one player of any operations, to the service with any token and base URL or to the fake with one callback set on the way | `TypeOK`, `NeverUnexpected`, `AnsweredAsProgrammed`; implements `RemoteCall` (`Keeps`) |
| `subscription` | 2 messages, 2 callbacks, channel of 1, 2 waits for at most 2 messages, 3 deliveries | `TypeOK`, `ForgottenIsHandedOver`, `WaitsLoseNothing`, `StopReturns` |

Bounds. In `Outbox` two processes are the fewest that race, two rows with a batch of two
the fewest for a batch that is half done, a threshold of two lets a row fail and be
retried before it dies, and a timeout of one unit separates "hidden" from "visible
again"; ages saturate and failure counts are bounded by `RetryBudget`, so nothing else is
cut. `outbox_live` has a batch of one so that an older failing row stands in front of a
younger. In `Onboarding` `MaxCalls = 3` is enough for select, select again, complete, and
for two completions with one selection; the calls being bounded, the system stops and
deadlock is not checked there. In `Story` nothing is bounded but the data: `MaxLevel = 1` reaches
every requirement of the instance. `Lifecycle` has no bound but two requests: one may be cut
off while another is answered. The checks of an environment look at one variable or at two
together (a dialer needs a name), so two changes reach each of them from the outside and from
the inside. `Rest` has no bound but two calls: they meet
only in the callbacks of the fake, where one may be under way while the other is answered;
`MaxSets = 1` already lets a callback change between the arrival of a call and its handler. In `Subscription` the channel holds one message (64 in the code), so that a callback
waits; one delivery more than messages makes one of them a redelivery, and a wait for two may be
cut after the first. In `Fakes` two topics let a message stray to a receiver of the other. Buffers
hold one element (100 and 16 in the code): a buffer of one is full after one message and so blocks in every way a larger one
does; three messages are then enough to fill channel, handler and results at once.

Symmetry is used for processes, requests and callers of the service, in safety runs only. `MCFakes`
cuts its alike topics and goroutines by hand instead, since it checks temporal properties: the
first message may be taken to be `c1`'s and about `t1`.

Fairness. `Outbox!Fairness`: the ticker calls `RunOnce` forever and a process that died
is started again (weak fairness of `Restart` and `Tick`); a claim or result statement that is tried
again and again succeeds in the end (strong fairness, since a failure or crash may come
in between); a publish is answered, but is owed no success. `Onboarding!Fairness`: every
step of a request returns (weak fairness per request): HTTP and SQL calls end, if only
with an error, when the client's context does. `Lifecycle!Fairness`: goroutines run and
timers fire; a publish and a statement of the relay return, and a batch ends; the database
answers a query. A request is owed no answer and the server no failure; in `Startup` a step
of the start succeeds or fails. `Subscription!Fairness`: goroutines run and timers fire, that of
a wait and the client's for a message never acked; nobody owes a message, an Ack or a read.
`Rest` states safety only: whether a call returns is up to its context. `Fakes!Fairness`:
goroutines run and a handler returns; nothing a test has to call itself is fair.

### Disagreements the runs show

* An event whose publishing failed `FailureThreshold` times is never tried again
  (`outbox_repo.go:48`), while `db/schema.sql:85` rules such a loss out and `relay.go:27`
  calls the threshold one for a log line.
* That log line can be missing: two processes with overlapping claims both compare an
  old count (`relay.go:81`).
* `Complete` answers 409 "faction not selected" to a client whose selection was accepted
  but has not reached account (`errors.go:21`, `data/openapi.yaml:176`).
* `Complete` may announce an earlier faction than the accepted one (`data/openapi.yaml:335`).

Seen while modelling; they are plain from the code, and no run is spent on them:

* The onboarding script is served after completion: `GetScript`
  (`usecase/onboarding/service.go:42`) reads the script store and nothing else, where
  `data/openapi.yaml:109` documents a 409.
* `completeOnboarding` can answer 404, `listEpisodes` and `completeEpisode` 500
  (`ApiScenario!Status`), which `data/openapi.yaml` does not list although it calls itself the
  single source of truth of the contract (line 7).
* The server fake without a callback answers 204 to `completeEpisode`
  (`apiscenarioserverfake/server.go:116`), which the client turns into an "unexpected status"
  error; the package comment (line 7) says that defaults are 200.
* Firestore is asked nothing at the start: `main.go:101` says its repository is made to verify
  that it can be reached, but the constructor sends nothing.
* A failure threshold beyond 2^31 - 1 is accepted, and no claim succeeds.
* `ErrConflict` has two meanings, "already completed" and "no faction yet": a caller that
  retries a completion cannot tell from it whether the first attempt succeeded.

## 4. Proofs

For any finite sets of rows and processes and any settings the constructor accepts
(`EventsAssumption`, `WorkersAssumption`, `NoEventAssumption`, `ConfigAssumption`):

* `TypeCorrect`. `TypeOK` is inductive as it stands.
* `PublishedDelivered`. `PublishedIsDelivered` alone is not inductive, since
  `MarkPublished` does not look at the topic. `DeliveryInv` adds that a worker holds
  committed rows only and that one about to mark has seen `Publish` succeed.
* `OutboxDelivers`. With `DeliveryInv`, `Enqueue` maps to `EventDelivery!Enqueue`,
  `PublishOk` and an ambiguous `PublishError` to `Deliver`, `MarkPublished` to `Settle`,
  and every other step leaves the abstract state alone.
* `LeaseIsExclusive`. `LeaseInv` adds that claims in progress hold disjoint rows, that
  their rows are expired, and that a held row was stamped no earlier than its holder's
  claim: so a second claim finds it only when the first one is older than the timeout.
* `RetriesAreBounded`. `RetryBudget` is inductive: a claim adds a holder only below the
  threshold, and each recorded failure costs a holder. The proof counts holders with the
  cardinality theorems of the library.
* `DeadLetterIsLogged` is stated for a single process only, because with two it is false: the
  run `outbox_dead_letter_log` shows it. `LogInv` says what one process makes true: the
  failure count it has in hand is the one in the table (`CountIsFresh`: nobody else records in
  between), so the failure that reaches the threshold is seen to (`LastFailureIsLogged`), and the
  line is written before the failure is recorded, which a crash or a lost result cannot turn
  round.

For any set of requests and any names, factions and languages (`OnboardingAssumption`;
`MaxCalls` any number):

* `TypeCorrect`, `OnboardedAnnouncedOnce`, `CompletesOnce`, `AckedDurable`,
  `SelectedAnnounced` and `AnswersTrue` from one invariant, `OnboardingInv`. None of the five
  properties is inductive: `NumberInv` adds that requests and their events have numbers of
  their own, so that the commit of one request is never taken for another's; `EventInv` that a
  request at work has no event yet and an answer says whether it has; `FactionInv` that the
  faction on its way to the announcement, in account or in a request, was delivered;
  `AnnounceInv` that the key of the row is held only while nothing is announced, so a commit
  announces first, and that every 200 a client has read carries the number of the one
  announcement. From the same invariant `OnboardingFitsTheOutbox`, that the onboarding implements
  `EventDelivery` (nothing it does to the outbox is anything but an enqueue, a delivery or a
  stutter), and `TransactionsBringNewEvents`, that the once-only `Enqueue` which `Onboarding`
  takes from there holds up no transaction. Three lemmas (`QuietStep`, `CommitStep`, `AccountStep`) say what a step that
  commits nothing, commits an event, or is account's leaves intact; every action is one of
  them, the arrival, the reading of an answer, or the crash.

For any episodes with any requirements, any set of requests, levels and factions
(`EpisodesAssumption`):

* `CompletionsEarned`, `LocksTrue`, `CompletionsShown`, `CompletionRepeatable` and `TypeCorrect` from one
  invariant, `StoryInv`: the picture of a request is never ahead of the world, which only
  grows (`WorldGrows`, `UnlockedGrows`); each part is, once read, not behind the arrival
  of the request; and a request about to mark has an episode its picture unlocks. A step
  of one request leaves the others what they rely on (`OneRequest`), so each action is
  looked at once. For `CompletionRepeatable`, `ReasonInv` says where every other answer comes
  from: not found only of what was withdrawn, an internal error only of a call that failed.

For any set of requests:

* `TypeCorrect`, `UsedIsOpen`, `OnlyTimeoutCutsShort` and `StopsAreFree` of `Lifecycle` from
  one invariant, `LifeInv`. `WhatIsUsedIsOpen` says nothing of a request that is between two
  queries; `PoolInv` adds that as long as any request is left, the pool refuses or is open
  with its dialer. `NothingCutShort` needs to know that nobody is left, unless on timeout,
  from the return of the shutdown goroutine on (`ServingInv`, `ClosingInv`), and
  `StoppingCostsNoRetry` that a publish fails by cancellation only with a cancelled context
  (`CauseInv`). `PoolStays` is the fact about the order of the deferred closes.

For any set of environments (`EnvironmentsAssumption` says only that a variable has a text and
a number):

* `StartedIsAlive`: `Startup` implements `Lifecycle`, fairness included, because every
  constructor opens the next client of its stack, begins to serve, or changes nothing there. So
  `StartedIsSafe`: the theorems above hold of a process however it is configured.
* `AcceptedUsable`. `AcceptedIsUsable` speaks of errors and of a relay at work, long after the
  configuration was read; `StartInv` adds that nothing is built, opened or served before
  everything is accepted, and `AcceptedIsTaken` that the checks of `FromEnv` imply those of
  `relay.New`, `NewOutboxTicker` and `pubsub.New` and a window of a millisecond.

For any calls, episodes and callbacks of the fake, with the service or the fake on the other
side (`NothingAssumption` keeps the model's null apart from real values; nothing else is assumed):

* `CallsKeepThePromise`, `ContractKept`, `FakeAnswers` and `TypeCorrect` from one invariant, `ConsumerInv`. What a caller is told says nothing of a request
  still on its way or handled after the caller gave up, so `SidesInv` says which pairs of states the
  two sides can be in; `RequestInv` that a request is the one of its operation and
  that it reaches the handler of its own name or none; `AnswerInv` that a response on its way, and a result told, are true of `happened`. That the two tables agree
  is proved operation by operation (`ResultOf` and `MeansOf` are the results of all responses as
  functions). `ProgramInv` adds for the fake that the callback a handler has copied is one of those `seen`.
* For the refinement, `Send` maps to `RemoteCall!Ask`, the handler that takes effect to `Happen`, the
  end of a call to `Tell`; a response that is lost, the routing and the whole of the fake are stutters.

For any messages, callbacks, capacity of the channel and bounds of the waits (`BoundsAssumption`,
`CapacityAssumption`: natural numbers, and the channel has a buffer):

* `NothingForgotten`, `WaitsAreComplete` and `TypeCorrect` of `Subscription` from `SubscriptionInv`.
  `ReturnedIsIdle` says that after the client's `Receive` no callback is left, `ComesFromTopic` that
  nothing is made up, and `HandedOver` follows an acknowledged message on its way from the callback
  to the channel. `WaitsLoseNothing` is an equation between sequences (what waits have returned, the
  one in progress has, and the channel holds is what was pushed), kept by every move
  (`AppendedAtTheEnd`, `TakenFromTheFront`).

For any topics, publishers, streams and expecters and any sizes of the buffers
(`CapAssumption`, `ReceiversAssumption`: a stream is no expecter):

* `FanoutIsExact`, `NothingElseArrives`, `ResultsKeepOrder` and `TypeCorrect` of `Fakes` from
  `FakesInv`. `DeliveredOnce` says of a `Publish` at work only that it has repeated nothing;
  `CallReaches` adds what it still owes: none of those left in its copy of the list has the message,
  all others of the audience have. That a send repeats nothing needs `CallsAreApart` (no two calls
  have the same message) and `SubscribedOnce` (no receiver is listed twice); that a late subscriber
  gets nothing old needs `MissedHasEnded`: what it missed is on nobody's list any more. A message
  that is taken still counts as arrived (`TakeKeepsArrived`), so that the broker's part of the
  invariant does not depend on who reads when.

Only model-checked: liveness (`EventuallySettled`, `EveryRequestAnswered`,
`StopsWhenAsked`, `HangingPublishIsUndrained`, `CancelledConsumeReturns`, `StopReturns`), which
is out of the prover's reach. Every invariant and every refinement of a passing run is proved.

## 5. Not modelled

Logs other than the ERROR at the threshold, JSON and SQL text, titles and paths. Token
verification is a library and external. The Firestore repository is constructed and never
called. Of the generated code the types, their JSON and the accessors of responses, and
`asyncapi_gen.go`, which has types only. Of the test infrastructure the containers
(`StartEmulator`, `postgrestest.Start`, `RunMain`, `Truncate`, `CreateTopic`): sequences of
calls to Docker, PostgreSQL and Pub/Sub's admin API in one goroutine, which succeed or end the
test.

## 6. Plan

Done: all modules of section 2, with the safety of each proved.

Next, in this order:

1. What the liveness properties rest on and can be proved: that a callback waiting for room, a
   publisher on a full channel and a shutdown that waits are never waiting for each other
   (`StopReturns`, `HangingPublishIsUndrained`, `StopsWhenAsked` without the fairness).
2. The converse of the disagreements of section 3: under which hypotheses `AnnouncedIsChosen` and
   `ConflictMeansStepSkipped` hold (account has consumed every event of an answered request).
3. The link from `Onboarding` and `Story` to the `happened` of `Rest`, which `ApiScenario!Done`
   states operation by operation, as a refinement of one request.
