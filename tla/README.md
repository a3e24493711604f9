# Verification of the Expo push worker

This directory holds TLA+ models of the notification worker in `src/app`, the TLC
configurations that check them on small instances, and TLAPS proofs of what holds
for every size. The worker takes notifications from Pub/Sub and from a Postgres
poller, claims each one, pushes it to the recipient's devices through Expo and
records a verdict.

## The system

| Component | State it keeps | Operations | Hard because |
| --- | --- | --- | --- |
| Claim (`pipeline/claimer.py`) | `notifications.push_status`, `updated_at` | `claim_by_id`, `claim_pending_batch` | several instances claim at once; a miss is explained by a second statement; the re-read after the commit can fail |
| Device ledger (`pipeline/device_idempotency.py`) | one row per (notification, device): `sending` or `sent` | `try_claim`, `mark_sent`, `release_claim`, `seal_open_sending`, `has_any_sent` | it is the only lock between two jobs, and outlives both |
| Runner (`pipeline/runner.py`) | locals of one job | `handle_notification_id`, `process_job`, `_execute_job` | many transactions with an HTTP call between two of them; any can fail or be the last |
| Expo sender (`pipeline/expo_sender.py`) | none | `send`, `_truncate` | an error does not mean that Expo did not accept; the text of an exception can cost the token |
| Recipients (`pipeline/recipient_resolver.py`) | reads users and tokens | `resolve` | NULLs, tenants and the actor's role decide who gets it; a token can be deactivated by another job |
| Finalizer (`pipeline/finalizer.py`) | `push_status`, `is_active` | `finalize`, `deactivate_tokens` | the update does not look at the status it overwrites |
| Reclaim (`ingress/reclaim.py`) | `push_status`, ledger | `reclaim_stale` | cannot tell a dead worker from a slow one |
| Subscriber (`ingress/pubsub_subscriber.py`) | a coroutine per message | `_on_message`, `stop` | redelivery, early messages, poison, shutdown before the answer |
| Poller (`ingress/pending_poller.py`) | the tick and its batch | `_tick`, `stop` | jobs wait for permits under a running lease; cancellation does not stop threads |
| Lifespan and endpoints (`main.py`) | the event loop, semaphore | start, shutdown, `/ready`, `/metrics/snapshot`, summaries | synchronous calls block the loop; the shutdown meets threads that run on |
| Database client (`db/postgres.py`, `db/session.py`) | engine, factory, sessions and their connections | `initialize`, `session`, `close`, `session_scope` | closed under running threads; an exhausted pool; a session closed by another thread than the one that uses it |
| Metrics (`monitoring/metrics.py`) | counters under a lock, a cache without one | `_inc`, `snapshot`, `snapshot_and_reset`, `log_summary` | reset against increments, two threads that fill the cache |
| Configuration (`core/`, `services/gcp/`) | none after start | `load_env_files`, `get_env`, `get_secret` | process, two files and a vault; blank is not unset |

What makes the components correct: at most one push per device is under way and
none follows a confirmed or undecided one; a notification has one owner while
leases hold; the verdict agrees with the ledger; nothing is stranded in `pending`,
`processing` or `sending`; a message is acked only when its row is taken care of;
every message ends; the semaphore loses no permit; no count is lost or reported
twice; sessions are closed on every way out, and none is kept while Expo is called; the event
loop and the shutdown never wait for Expo; a push goes to the tenant it is for.

## Modules

**`NotificationDelivery`** models the pipeline. A transaction the code commits is
one action, and the Expo call, which the code makes outside any transaction, is
another. `task[w]` is the local state of one `_execute_job`, its `pc` the point
between two transactions: `Resolve` (lines 81-87), `ClaimDevice`/`SkipDevice`
(94-102), `Send` (104), `MarkSent`/`ReleaseClaim` (106-124), `DeactivateTokens`
(128), `SealOpenSending` (131), `Decide` (133-138), `Finalize` (86 and 139).
`ReclaimStale` is the poller's single statement. `LeaseExpires` is the passing of
`RECLAIM_AFTER_SECONDS`: the age of a row is the one bit `stale`. `Fault` is an
exception that leaves the job, and the death of the process: both forget the job
where it stands and leave the tables alone. Five history variables record what
Expo was asked and answered, and no guard reads them.

`Send` takes its answer from **`ExpoSender`**: `Endings` is how Expo and its client
can end a call, `Classify` the exception clauses of `send`, and `Answers` what the
runner may get, each with the truth about whether Expo has the push. Only Expo's
own ticket is taken at its word. Any other exception may come after Expo accepted the
push and may say anything, so that an accepted push can be answered `unregistered`
(`expo_sender.py:113-118`): its row is deleted and its token switched off.

Two constants select assumptions the code does not enforce. `LeaseCoversJob` says
that no live job outlasts its lease. `Healthy` are the workers whose Expo calls and
transactions return; the fairness is theirs alone, so that another worker may
hang for ever at any point.

**`AtMostOncePush`** is what the ledger promises about one notification and one
device, without rows or statuses. `NotificationDelivery` implements it with `Open`
(devices whose worker is between claim and record) and `Closed` (rows that are
`sent`, or `sending` without a worker).

**`NotificationLifecycle`** is the life of `push_status` as other readers of the
table see it. Both large modules implement it while leases cover jobs.

**`WorkerService`** models what surrounds the job: Pub/Sub with attempts, lost and
early redelivery; `_on_message` and its `_handle` coroutine per instance and
message (`handler`); the semaphore (`permits`); the poller's tick (`poller`) and its
jobs (`batch`: `queued` for a permit, `running`, or `detached` after their coroutine
was cancelled); the lifespan (`phase`). The job itself is one step, `JobEnds` or
`BatchJobEnds` with either verdict, or a failure: `NotificationDelivery` covers its
inside. `TickFails` and `RaiseAfterClaim` are claims that commit and then raise.
`Leased` is what a stream may hold under `PUBSUB_MAX_MESSAGES`.

**`PushMetrics`** cuts `_inc`, `snapshot` and `snapshot_and_reset` where another thread
can come in between: `+=` is a `Load` and a `Store`, the reset a `Copy` and a `Clear`,
all four under `lock`; `Lookup`, `Create`, `Cache` and `Add` feed OpenTelemetry without
it. `Swallow` is a call of OpenTelemetry that raised: its increment is passed over.
`PushMetrics` implements **`PushTally`**, where counting and reporting are single steps.

**`DatabaseClient`** has the engine and the factory of `PostgresClient`, `close()` as the
three statements it is, and the session of each owner: open, waiting for a
connection of the pool, or connected. `dispose()` leaves connections that are out to
the old pool, so there are two.

**`ServiceProcess`** composes both with one process. `loop` is what the event loop is
in, and while that is not `"free"` no coroutine gets on; `tick` and `job` are the threads
of the poller's tick and of the jobs. `/ready` opens a session on the loop. A tick
whose thread has ended is `parked` until the loop closes its session. That of a
cancelled one is closed by the loop at once (`CloseUnder`), while its thread may be
inside a statement. The thread's next statement takes a connection again (SQLAlchemy
sessions are reusable), and nobody closes the session a second time: it stays as
`Park` finds it, unless it is collected as garbage (`TickCollected`). What the
statements do is in the other modules: here a job is any sequence of sessions,
commits, counts and Expo calls.

**`RecipientResolver`**, **`PushMessage`** (over **`Text`**), **`Settings`** and `ExpoSender` are
pure functions: the recipient query over tables of users and tokens, the cut of a
body, the environment with its files and the vault. `NotificationDelivery` takes
its recipients as constants; `TargetsAreFiltered` is why it may, as long as users
do not change.

The theorems and their proofs are in modules of their own: **`NotificationDeliveryProofs`**
with the ledger and the owner, **`AtMostOncePushProofs`** and **`NotificationOutcomeProofs`**
on top of it, **`WorkerServiceProofs`**, **`ServiceProcessProofs`** (with `PushMetrics` and
`DatabaseClient`), **`AlgorithmProofs`** and **`RecipientProofs`**. **`MCNotificationDelivery`**,
**`MCWorkerService`** and **`MCServiceProcess`** give the constants their values for TLC;
**`MCAlgorithms`** puts every question over small tables, texts and environments to the
pure functions, one per state. Definitions whose
comment begins with *Defect* are wrong versions of the definition below them; no
specification uses them, and each shows that some property notices that error.

External to `src/`, and modelled from how the code uses it: Pub/Sub's delivery, ack
deadline and answers, the service that inserts notifications, Expo's acceptance of a
push, SQLAlchemy's pool, `str.strip`, and the exit of the interpreter.

## Runs

| Run | Instance | Shows |
| --- | --- | --- |
| `overlap` | 1 notification, 2 devices, 2 workers, leases may expire under live jobs | `ExclusiveDevice`, `NoResend`, `RowsGuardDevices`, `NoDeviceForgotten`, `SentIsBacked`, `OnlyMisreportedRepeat`, and the refinement `AtMostOnce`, hold with crashes, reclaims and overlapping jobs |
| `lease` | 2 notifications, 2 devices, 2 workers, batches of 2, `LeaseCoversJob` | `SingleOwner`, `FailedMeansNoneSent`, `NoOpenRowLeft` and the refinement `Lifecycle` |
| `settles` | as `overlap`, one worker healthy and one that may hang, fair | `Settles`: every notification is finalized for good |
| `service` | 2 instances, 2 rows, 1 message, 1 permit, batches of 2, `LeaseCoversJob` | `PermitsConserved`, `OneOwner`, `NoEarlyAck`, `Lifecycle` |
| `recover` | 1 instance, 2 rows, a message for one and a malformed one, fair | `RowsSettle`, `MessagesEnd`, `PoisonIsAcked` |
| `unreported` | 1 instance, 1 row, its message and an undecodable one, flow control of 1 message, no attempts reported, fair | `MessagesOfRowsEnd` |
| `process` | 1 process: the event loop, the tick, 1 job of the subscriber and 1 of the poller, a pool of 2, 2 increments, fair | `NoSessionLeft`, `WaitsForThread`, `ExportsConserved`, the refinement `Tally`, and `LoopComesBack` and `ShutdownEnds` though jobs and tick may hang |
| `algorithms` | 3 users, 4 tokens, 2 tenants; texts up to 5 characters; 6 values of `ENV`, texts and ids of a secret in the process, 2 files and 3 vaults | `OutsidersChangeNothing`, `TargetsAreFiltered`, `BodyReadable`, `SecretPrecedence`, `OneEnvironment` |
| `zombie` | 1 notification, 1 device, 2 workers | violation of `FailedMeansNoneSent` |
| `ambiguous` | 1 notification, 1 device, `LeaseCoversJob` | violation of `NoDuplicatePush` |
| `undecodable` | 1 message that is not UTF-8, fair | violation of `PoisonIsAcked` |
| `parallel` | 1 instance, 2 rows, 1 message | violation of `ParallelLimit` |

### Bounds, and why they are enough

Notifications meet only in a batch claim and in reclaim, so one shows the
overlap of jobs and two show the batch. Two workers are a job and the one that
replaces it; with `Fault` and a new claim a slot stands for any number of jobs in
turn. Two devices give the loop a first and a last turn, and a device that is
skipped beside one that is tried. One permit makes every wait for the semaphore
happen. `MaxAttempts = 2` has an attempt that is retried and one that is given up;
the counter stops there because the code only compares with the maximum.
An instance has at most one coroutine per message at a time, so a message that is
redelivered early is handled a second time by another instance, not by the same one.
A device is tried at most once per job; the number of jobs per row is not bounded.

`MaxMessages = 1` in `unreported` lets one message nobody answers fill the stream;
2 in `recover` lets two handlers compete for one permit.

In `process` four threads share everything. A lost update needs two increments of
one key and a lost or doubled report one increment between copy and reset, so
`MaxCount = 2` increments of one key are enough; the bound keeps the counters finite. Two
connections are one for a job that hangs with it (in the wrong version) and one
more; with as many as owners the pool is a `NullPool` and nobody waits. With a pool
of one connection (`PG_POOL_SIZE` and `PG_MAX_OVERFLOW` adding up to 1) `WaitsForThread` fails:
a reclaim statement that raised keeps its connection until the loop closes the
session, and the loop may be inside `/ready`, waiting for that connection until the
pool's timeout of 30 seconds. The defaults (5, or none with `NullPool`) are not
exposed to it.

In `algorithms` one user varies in everything, beside an actor and a third user; two
tokens of one user, and one of each other user, are enough to mix active, inactive
and blank ones in every order. Tokens have different times of creation, one of them
perhaps NULL, which `DESC` puts first: for equal ones the order is the database's
choice. The process may have a secret, its id or both, as the deploy scripts put the
lines of `.env` into it, and so may the file of its environment. Texts are sequences of a blank and one
other character; the limit of 180 is 1 to 5.

`overlap`, `lease`, `zombie`, `ambiguous` and `service` use symmetry of
workers, or of instances; they check no liveness. `lease` and `settles` have a
view without the history variables, which their properties do not read.
The configurations of `NotificationDelivery` turn the deadlock check off: once all
notifications are final no step is left, and the worker rightly stops. Those of
`WorkerService` keep it on.

### Fairness

`NotificationDelivery`: the job of a healthy worker that can step steps (Expo and the
database answer), a pending row is claimed by some healthy worker (the poller ticks,
line 49), an expired row is reclaimed (line 56), time passes. Nothing makes the other
workers step: one that hangs in Expo's HTTP call, which has no timeout in this code,
must not strand its notification. The poller of its own instance does stall, because
`gather` waits for it; `ReclaimStale` and the claims are those of another instance, so
`Settles` needs one that is healthy.

`WorkerService`: waiting coroutines get permits (`asyncio.Semaphore` is first in, first
out), ticks, jobs and shutdowns come to their end, a stopped instance is started
again, by weak fairness. Pub/Sub's delivery is strongly fair: under flow control a
message can be taken only while others leave room, and that it is not passed over for
ever is an assumption about Pub/Sub.

`ServiceProcess`: threads run, weakly fair. Strong fairness is assumed where the event
loop competes: for the lock (`LoopEnters`), for a free connection (`ReadyConnects`, the
pool's queue is first in, first out), and for the ten seconds of `poller.stop()`
(`StopStep`), during which other callbacks keep running. The database
answers those who have a connection; nothing makes Expo return, or gives a job or
the tick a connection.

The premises `FaultsCease` and `Calm` say that failures stop at some time: with a
failure at every attempt nothing can be promised. A failure step that does what a
regular step would have done is not counted, because the states cannot tell them
apart.

## Where code and documents disagree

- `zombie`: `finalize` (`finalizer.py:23`) overwrites any status. A job that
  outlived its lease writes `failed` over the `sent` of the job that replaced it;
  `readme.md:50` promises `sent` when a device succeeded.
- `ambiguous`: a connection error after Expo accepted the push releases the row
  (`expo_sender.py:101`, `runner.py:114`); after a crash the reclaimed notification
  is pushed again. `reclaim.py:11` promises no duplicate.
- `undecodable`: `pubsub_subscriber.py:120` decodes outside the `try`, so bytes that
  are not UTF-8 are never acked; `readme.md:110` promises that poison is acked.
- `parallel`: a cancelled tick returns its permits while its threads run
  (`pending_poller.py:76`); `readme.md:86` calls the semaphore the limit of
  notifications processed in parallel.

## Proofs

Every safety property a passing run checks, each action property and each
refinement is also a theorem. They hold for every finite or infinite set of
notifications, devices, workers, instances, messages, jobs, threads and keys and
for every recipient function, from the assumptions named in the modules
(`ConstantsAssumption`, `ServiceAssumption`, `MetricsAssumption`, `PoolAssumption`,
`ProcessAssumption`). Each proof has a lemma or a step per action.

### The pipeline

- `TypeCorrect`: `Spec => []TypeOK`. Besides types, `TypeOK` says which fields a task
  has set at each point; the other proofs need that a worker that sends has a target.
- `DeviceExclusion`, `RowsOutliveJobs`, `NeverExpoAgain`: `ExclusiveDevice` alone is not
  inductive, because `ClaimDevice` excludes a second holder only if the first one's
  row is still there. `RowsGuardDevices` says so, and also that orphaned and
  confirmed devices keep theirs: `ReleaseClaim` could delete the row of a confirmed
  device unless a holder that was not answered `ok` knows that nobody else was.
  `IInv` is the conjunction of the three.
- `RepeatsAreMisreported`: `OnlyMisreportedRepeat`. An accepted push was confirmed or
  misreported, and `NoResend` keeps the sender from a confirmed device: what lands a
  second time was misreported the first time (`SendRepeatsMisreported`).
- `LedgerImplementsAtMostOnce`: each step is, for each notification and device, a step
  of `AtMostOncePush` or a stutter. The refinement mapping is over sets of devices that
  no variable holds, so the proof first says what each action does to `Open` and
  `Closed`; `IInv` gives that nobody else holds the device whose worker moves.
- `NobodyForgotten`: each active recipient of a final notification was sent to, is held
  by a worker between claim and record, or lost its worker there. The last case
  includes a device whose worker died before it called Expo, which nobody tries again.
- `NobodyForgotten`, `SentStaysBacked`: a final status says something about all devices,
  and jobs that overlap each saw some of them. `OutcomeInv` adds that a row is left
  only by a try (`RowsTried`), and what each job already knows (`Progress`): every
  active recipient is tried or still to do, and a verdict of sent is backed by the
  ledger when it is decided. `Lasts` is why that stays true while others run: tries,
  sent rows and deactivations are never undone.
- `RowsAreClosed`, `FailedSentNone` assume `LeaseCoversJob`. `LeaseInv` says that an open
  row belongs to the job that owns the notification, or nobody owns it and it is
  still processing (`OpenRowsHeld`), and that a verdict of failed is true when decided
  and stays so (`FailuresStand`). Without the assumption the second one is false: that
  is the run `zombie`.
- `SingleOwnerWithinLease` and `LifecycleWithinLease` assume `LeaseCoversJob`.
  `OwnerInv` adds to `SingleOwner` that the row of a live job is not stale. The second
  theorem is a refinement: each step of the pipeline is a step of
  `NotificationLifecycle` or leaves `push_status` alone.

### The service

- `NoPermitLost`: `PermitsConserved` with `BatchShape`. The count changes by one with
  every set it counts only if a job is not queued and running at once, and a tick
  that is cancelled returns the permits of its batch only once because jobs run while
  their tick gathers and threads are detached after it. The proof counts with the library's theorems on cardinality.
- `ServiceTypes`: `TypeOK`. That permits stay below `MAX_CONCURRENT_NOTIFICATIONS` is not
  inductive: it follows from the conservation above.
- `AcksAreEarned`: `NoEarlyAck`. `AckInv` adds that whoever has a row in hand, found it
  taken or final, or goes to ack its message comes after a claim, and that the attempt
  a coroutine remembers is not beyond the one Pub/Sub counts.
- `HandedToOne` and `ServiceLifecycle` assume `LeaseCoversJob`. `OneOwner` is inductive
  only together with: what is in hand is `processing` and its lease runs
  (`HandProcessing`), which keeps claims and reclaims away from it; `HandAlone` says
  the same as `OneOwner`, by instance.

### The process

- `CountsAreAtomic`: `Tally`. `MetricsInv` says that who reads or writes the counters has
  the lock, and that the value a thread loaded, or the copy it took, still is what
  the counters hold (`LockInv`).
- `ExportsAreAccountedFor`: `ExportsConserved`, by counting the threads between their
  store and their `add`: what OpenTelemetry lacks is under way or raised there. The
  cache of instruments may be filled twice; the proof does not need that it is not.
- `SessionsAreClosed`: `NoSessionLeft`, with a job's connection confined to the stretch
  between a statement and its commit (`SessionInv`). It exempts the session of a tick
  that was cancelled while its thread was at work: no code closes that one after the
  thread's next statement, and a shutdown may end with its connection taken. It
  happens only then, so a process loses one connection at most.
- `WaitersAreServed`: `WaitsForThread`, under `PoolSize > 1` (see Bounds: with one connection
  it is false).
- `ProcessTypes`: `TypeOK`; the bound of what was exported rests on `ExportsConserved`.

### The pure functions

Here a theorem is about any table or text in place of the small ones of `MCAlgorithms`;
its hypotheses say what the tables are, and the tables of the run satisfy them.

- `OutsidersDoNotMatter`: for all tables, if users have an id.
- `InactiveOnesDropOut`: for finitely many tokens whose users have numbers for
  priorities, if `ORDER BY` tells the tokens apart; without that their order is the
  database's choice. `SomeOrder` is what makes it more than a statement about a
  `CHOOSE`: such an order always exists.
- `BodiesAreReadable`: for every text and limit.
- `OneEnvironmentForAll`: for every `ENV` of the process, provided `dev.env` does not name
  another environment than its own; if it does, the file is that of `dev` and
  `config.ENV` is not. `SecretFromNearestPlace`: for all texts and ids, wherever they
  are set.

`LeastElement`, a least-number principle from the library's well-founded orders, stands
in for the induction theorems, whose operator parameter the provers cannot
instantiate: `SomeOrder` is an induction by least counterexample.

### Only model-checked

The liveness properties `Settles`, `RowsSettle`, `MessagesEnd`, `MessagesOfRowsEnd`,
`PoisonIsAcked`, `LoopComesBack` and `ShutdownEnds`: fairness and `ENABLED` are beyond the
prover. `LeaseCoversJob` and `PoolSize > 1` are hypotheses of the theorems
named above and constants of the runs.

## Not modelled

- The policy gate of `runner.py:70-79`: the only policy there is always delivers.
- Changes of users while the worker runs, and the registration of a token anew:
  both belong to other services, `src/` never makes them. So nothing is said about
  the token that `deactivate_tokens` switches off after it was registered again, nor
  about a user who opts out after the targets were read.
- Two `device_tokens` rows with the same token: the ledger is per row, so such a
  phone is pushed to twice. No constraint in `db/models.py` excludes it.
- Title and data of a push, `push_error`, log lines.
- Amounts of counters (every increment is one), `PushMetrics` without OpenTelemetry
  (`metrics.py:34-35`), and the counts after the last summary, which no summary has.
- Conversions of settings to numbers: `MAX_CONCURRENT_NOTIFICATIONS=0` is accepted and
  makes every job wait for ever, a text of blanks for a number raises at import, and
  a blank `NOTIFICATION_PUBSUB_TOPIC_NAME` turns the subscriber off. The modules assume
  positive constants. `get_project_id` and the cache of secrets, which only saves
  calls at start, are left out. `readme.md:80` names another default topic than
  `config.py:28-31`; no behaviour modelled here depends on the name.
- `ExpoPushSubscriber.start` without a library or without a project: an instance
  that only polls. Handlers that go on after the lifespan has ended are those of
  `WorkerService` in phase `closed`; there they can only fail or finish their session.
- Pre-ping and recycling of connections, the cloud and CI scripts. That `close()` of a
  session whose connection is inside a statement may wait for that statement in the
  driver: in `ServiceProcess` it returns at once.
- That a token is lost only for a reason: no property says so, because the code goes by
  the text of an exception.
- A failing reclaim statement is, in `WorkerService`, a tick that does not come; in
  `ServiceProcess` it is `TickRaises`.

## Plan

1. Done: `NotificationDelivery` and its two abstract specifications, `WorkerService`,
   `ServiceProcess` with `PushMetrics` and `DatabaseClient`, the pure functions, the runs
   above and the first theorems.
2. Done: the proofs of everything the runs check but liveness.
3. Next theorems: that jobs of `WorkerService` abstract those of `NotificationDelivery`, and the database calls
   of `ServiceProcess` those of the pipeline.
4. Next properties: several coroutines of one instance for one message; the wait of a
   batch job for its permit in the lease.
