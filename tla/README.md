# Verification of the job queue

TLA+ modules, TLC configurations and TLAPS proofs about the job queue and event
processing system of this repository. `J/` below stands for
`src/main/java/com/project/job_queue/`; the three scripts `test-runner.js`,
`e2e-test.js` and `scalability-test.js` are at the root of the repository.

1 The system, 2 Modules, 3 What is checked, 4 Where the code does otherwise than
it is said to, 5 What is proved, 6 What is not modelled, 7 Plan.

## 1. The system

A client posts a job; it is executed once its time has come, by one of several
listener threads, with retries, a rate limit per job type and a circuit breaker.

| Component | State it keeps | Operations | Hard behaviour | Correct when |
|---|---|---|---|---|
| MySQL, `J/model`, `J/repository/JobRepository` | one row per job: status, retryCount, scheduleTime, nextRetryTime | `findById`, `save` (whole row, no version), window queries with a page limit | last writer wins; pages leave rows out | no row is stuck, final rows stay |
| Redis, `J/service/RedisDelayQueueService`, `RedisService` | sorted set `scheduled_jobs`, keys `job:<id>` (10 minutes), `watcher:lastRun`, rate windows | add, range, remove; set, get, delete; Lua script | loss of data, expiry, disagreement with MySQL | every SCHEDULED job has an entry, at its due time |
| Kafka, `KafkaProducerService`, `KafkaConfig` | partitions of `job-topic`, offsets of `job-group` | send, poll, acknowledge, commit per batch | lost, failing, repeated messages; rebalance | every QUEUED job has a message |
| REST API, `JobController`, `JobService` | none | create (save PENDING, save QUEUED, send), cancel (set a flag) | the saves race with the watcher | the request is not undone |
| Watcher, `WatcherService` | heartbeat in Redis | `watch()` every 20 s after the end of the last: heartbeat, gap recovery, PENDING pass, RETRY pass | stale entities, two stores written in turn | jobs become SCHEDULED and are in the delay queue |
| Dispatcher, `RedisDispatcherService` | none | `dispatch()` every second: re-read, save QUEUED, send, remove | a step fails after the claim | due jobs are sent, no earlier |
| Consumer, `KafkaConsumerService` | circuit maps per type, in memory | `consume()` on 3 threads: cancellation, rate, circuit, status, execute, outcome | a copy of the row used until the end; redelivery; exceptions | one execution at a time, bounded retries |
| Rate limiter, `RateLimiterService` | window per type in Redis | `allow` (Lua, atomic) | two calls in one millisecond | at most 5 per second |
| Incident publisher | topic `incident-topic` | `publish` | may throw in the middle of a method | never harms the caller |
| Admin API, `AdminService` | none | recover, reconcile, requeue, reset circuit | on request threads, races with all of the above | repairs what it is meant to repair |
| Test scripts | counters, ids, deadlines, arrays of a level | requests one by one or in bundles, sleeps, polls, judgements, exit code | the service moves between two looks; requests fail or are late | what they report is so |
| AI agent, `ai-agent/app` | dedup map, history | observe, analyse, plan, execute | deduplication before handling, retried POSTs | each incident handled |
| Self-healer, `self-healer/src` | counters and windows of the detectors | `process` a log line, choose a strategy | thresholds, resets | an incident per cause |
| Log bridge, `log-bridge/bridge.py` | none | run the self-healer on a file, forward | a line that fails | every incident forwarded |

The parts of the service interact through the three stores only: the request
threads, the scheduler thread and the listener threads of an instance share no
memory but the circuit maps. Spring's default scheduler has one thread, so
`watch()` and `dispatch()` of one instance never overlap; an admin request runs
the watcher's recovery on a thread of its own. The scripts and the AI agent are
HTTP clients. `PROJECT.json` lists the components with their status, and under
`hazards` what is hard to test, line by line.

## 2. Modules

| Module | Models | State and actions |
|---|---|---|
| `JobStore` | MySQL, Redis, Kafka, the clock | `db`, `delayQueue`, `cancelFlag`, `lastRun`, `inbox`, `unacked`, `owner`, `now`, `faults`; the repository's queries and the services' operations as operators |
| `JobApi` | `JobService.createJob`, `JobController.cancel` | `api`: where each creation stands. `CreateJob`, `RouteJob`, `PublishCreated`, `CancelJob` |
| `SchedulerThread` | a thread that runs a `@Scheduled` or an admin method | `work`: point in the method, entities held, job in hand |
| `Watcher` | `WatcherService.watch`, `triggerRecovery` | one action per read and write of the loops |
| `Dispatcher` | `RedisDispatcherService.dispatch` | one action per read and write |
| `Consumer` | `KafkaConsumerService.consume` and the container around it | `task`: stage, job, copy of the row, clock read; `circuit`. One action per read and write; `AttemptThrows`, `ConsumeThrows`, `GiveBack` |
| `JobQueue` | all of them together | `Next`, clock, crash, rebalance, loss of Redis; the properties; fairness |
| `Admin` | `AdminService`, as further threads of `JobQueue` | the calls, and one action per read and write of recovery, reconciliation, requeue and circuit reset |
| `JobLifecycle` | what is promised of a job: the moves between statuses | `status`, `retries` |
| `JobServer` | the service as a client sees it | jobs that move along `JobLifecycle` until an old copy of their row is saved or their message comes again (`repeated`); the rate limiter's window with its count, cancellation flags |
| `ScriptClient` | what the three scripts have in common | one action per kind of step: a request, a bundle of requests, a sleep, a poll, a scan, a judgement |
| `TestRunner`, `E2ETest`, `ScalabilityTest` | one script each | its tests as tables of steps; counters and exit code of `e2e-test.js`; waves, fixed rates and draining of `scalability-test.js` |
| `TestBench` | a script against the service | `DoStep`, `EndTest`, `Quit`, `Conclude`, and `Meanwhile` for the service |
| `MCJobQueue`, `MCAdmin`, `MCTestBench` | instances for TLC | definitions the `.cfg` files name |
| `QueueInvariants` | why a job is handled by one thread, and not before its time | the conditions on the deployment, `FlightInv`, `DueInv`: both checked by runs and proved |
| `JobQueueProofs`, `CarriedProofs`, `FlightProofs`, `DueProofs`, `AdminProofs`, `TestBenchProofs`, `ReportProofs` | theorems | |

An action is what a thread does between two accesses to shared state, so that
everything another thread can see in between is in the model: `createJob` is
three actions, a turn of a watcher loop is two, `consume()` up to nine. A save
writes the copy the thread loaded, whatever has happened to the row since.
These simplifications are worth knowing:

- the status checks inside the watcher's loops (`WatcherService` 52, 66, 90,
  108) repeat the condition of the query on the same loaded copy: on the
  scheduler thread, where each query loads anew, they never fail and are not
  shown. On a request thread the second query may return an entity the session
  already holds (`spring.jpa.open-in-view` is on by default) with the status it
  had then, and the check skips it: `Skipping` leaves open which rows of the
  second page are skipped;
- the second and third write of a failure to the circuit maps are one step with
  the first (`Failed`), while the three writes of `resetCircuit` are three
  actions. In the code a reset that falls between the count and the opening
  leaves the circuit open with no failure counted, which this model does not
  show; no property depends on the count of an open circuit;
- a send that throws at the end of a request (`JobService` 64, `AdminService`
  100) ends the request with an error and leaves the row QUEUED without a
  message, as a lost record does (`SendOrThrow`);
- a listener is given one message at a time; what it has polled and not begun
  stays in `inbox`, hence goes to the new owner on a rebalance;
- the admin service asks for work on threads of their own (`Operators`); its
  recovery is the watcher's code, run there without the test for a gap.

**Exceptions in `consume()`.** The saves of an outcome stand inside the `try` of
the attempt: when one throws, the `catch` counts a failed attempt, though the
job was executed (`AttemptThrows`). An exception that leaves `consume()` reaches
the container's error handler, which seeks back to the record
(`ConsumeThrows`, `GiveBack`); fewer than ten deliveries are modelled, so it
never gives the record up. An exception after the last save, when
`JOB_EXECUTION_FAILED` is published, leaves what a crash at that point leaves.
One between the count and the save of the failure leaves the row PROCESSING, and
nobody but an operator brings it back: that is why the theorem about PROCESSING
jobs excludes it, and the run `Repair` includes it.

**Time.** Times are ticks. An instant beyond the horizon `MaxTime` is the horizon
(`Later`), and a delay has passed when the clock stands there (`Elapsed`), so
that the end of the clock never keeps a job waiting. The clock may stand still
while threads run, and moves between any two steps; the one restriction is
`PromptApi`: a creation request reads the clock twice within a tick, unless
`"slowApi"` is among the faults. The dispatcher's poll, one second away at most,
is always possible. The answer of the rate limiter and the outcome of an
execution are open in `JobQueue`; `JobServer` has the window itself, including
two calls in one millisecond that leave one mark.

**The scripts.** A step is what a script does until the next `await` it depends
on; between any two steps the service may do anything `JobServer` allows.
In `JobServer` a job moves along `JobLifecycle`, extended by what a client can
tell apart (started or not, looked at the flag or not). The refinement
`FollowsLifecycle` shows that the rows do so for jobs that are scheduled ahead
and delivered once. The scripts' jobs are nearly all immediate, and for those
`watch()` may save its PENDING copy over any later row and send the job again
(the race of `DoubleRun`), and any message may be delivered again. `SaveAgain`
and `Redeliver` therefore may befall a job at any time. It is `repeated` from
then on: its listeners ask the limiter once per message, defer or start it
whatever its status is, its retry count may go back to that of an old copy, and
COMPLETED is no longer final (`CancelAgain` to `EndAgain`). With `Trouble` a request may be answered with an error or
throw (in `e2e-test.js` after 15 seconds, in the others after the default of
`fetch`), whether the service has acted on it or not. A requested minute is cut
to the minute as in the scripts (`Lead`): late in the minute it is nearer than
it looks, or tomorrow.

Operators named in a comment as a *variant* (`ExhaustedLate`, `RouteJobUnsent`,
`StrayLandsShared`, ...) are plausible bugs; each is put in the place of the
definition that follows it to show that a property notices.

## 3. What is checked

The runs of `JobQueue` have one or two jobs, two listeners unless said
otherwise, one scheduler thread, one type, so that two jobs share a circuit. The
ratios of the code's constants are kept where they matter: the look-ahead is no
longer than the watcher's delay (20 s, 20 s), the gap limit no shorter than it
(25 s), the immediate threshold no shorter than the look-ahead.

| Run | Shows | Instance |
|---|---|---|
| `Stale` | `TypeOK`; a QUEUED job has a message or somebody about to send or start it, a SCHEDULED job an entry or the watcher about to add it (`ScheduledInv`, the inductive invariant behind `ScheduledIsCarried`), a PROCESSING job a listener | one job, immediate or not, slow requests, two partitions: every stale save happens |
| `Deferred` | one thread at a time handles a job (`SingleFlight`, by the inductive invariant `FlightInv`), final states stay, the rows implement `JobLifecycle` (refinement) | two jobs scheduled ahead, no fault, a cancellation that may expire |
| `Redelivery` | no QUEUED job loses its message | a crash of the listeners' instance, a rebalance, an exception in an attempt or out of `consume()`, a throwing incident publication, at any moment |
| `Outage` | no job is dispatched before its time or its backoff (`NotBeforeDue`, by the inductive invariant `DueInv`) | a crash of any instance, Redis emptied, a lost or a throwing send; a horizon long enough for a gap recovery, a failure and a retry |
| `LiveStale` | every job ends in a final state | immediate or deferred, two retries, refused rate checks, a save that throws in an attempt; the first failure opens the circuit, and the retry comes before its timeout, so that it is put off and later goes through half-open |
| `LiveCancel` | a cancelled job ends CANCELLED | the flag does not expire |
| `Repair` | whatever a fault has left behind is brought to its end by the operator's requests, in the middle of everything else | `Admin`: one loss of Redis, crash, throwing send or throwing `consume()`, then any of the four operations |
| `Bench` | what the scripts count and report is so: totals add up, a row of a fixed-rate level is its own, the threshold is the first level with a failure, no test before the server is healthy, "bypassed" means never executed, "all completed" means all, the waves of phase 2 stay within the limiter | the three scripts in full, every request may fail; the jobs of `SomeJobs` (in `test-runner.js` the last one of each test that follows jobs, in phase 2 of `scalability-test.js` both) may be repeated at any time |

Four runs find what a document or a comment says violated (`PROJECT.json`,
`findings`, quotes the lines; section 4 has more):

| Run | Violated | How |
|---|---|---|
| `DoubleRun` | `ExecutedByOne` | `watch()` overwrites the QUEUED row of a creation with its PENDING copy; the job is sent twice and both listeners see QUEUED |
| `ConsumerCrash` | `ProcessingResumes` | a redelivered PROCESSING job is acknowledged and dropped |
| `Recover` | `RecoveredAreReinserted` | the recovery on a request thread adds the entry before it saves SCHEDULED; a `dispatch()` in between sees PENDING and drops the entry |
| `NoAbort` | `Healthy` | the last attempt to reach the server throws, the exception is swallowed, `scalability-test.js` goes on |

Some results are less obvious than they look.

- `QueuedIsCarried` holds with all the stale saves: a save that takes a job back
  to SCHEDULED or PENDING starts a new round and leaves a message too many,
  never one too few. It holds with two faults as well (`Redelivery` with
  `MaxFaults = 2`, six million states).
- `NotBeforeDue` holds although the watcher's recovery adds SCHEDULED jobs at
  their schedule time, also those that wait for a retry: a gap must precede it,
  and with a look-ahead no longer than the watcher's delay the retry is due by
  then. It needs more than one crash to break it: one between send and ZREM
  leaves the old score, a second one between the save and the ZADD of the retry
  leaves that score for a SCHEDULED job (`MaxFaults = 2`, `Crashable = {i1}`).
  `DueInv`, too, holds in `Outage` with its one fault, although the proof needs
  that the scheduler's instance goes on.
- `AbandonedIsRepaired` is a leads-to, not an invariant: a single reconciliation
  can be undone by a `dispatch()` that is under way, and the operator has to
  look, and to ask, again.
- `WavesWithinLimit` rests on the sleep between two waves being longer than the
  window, not on the size of a wave alone: two waves without the sleep are
  refused.

**Bounds.** Horizon 2 to 6 ticks: creation, look-ahead, dispatch, failure, one
retry (two in `LiveStale`) with a backoff of one tick or more, and a gap, all
fit; `Repair` has no retry, a requeued attempt ends either way. `MaxLog` bounds
the messages of a partition (two are enough for a duplicate behind an original;
where the guard of `SendJob` would block for good liveness would fail).
`MaxFaults` is one: a fault at any moment of any behaviour of the instance.
`MaxRetry` is one: the first, a middle (liveness run) and the last attempt
differ in nothing else. `Alarm` and `Stuck` bound the operator: he comes into
play with the first fault and requeues a job he sees QUEUED or PROCESSING;
without them he could keep every job moving for ever. In `Bench` two ids,
two samples per poll, two attempts, a limit of one and bundles of two
keep every comparison of the scripts (accepted against needed, all against some,
more than the limit against fewer) with both outcomes; two levels, two rates and
two waves are enough for one to follow another. `Disturbed` names the jobs that
may be repeated: every job of every test would be out of TLC's time, and the
theorems are about all of them (a job sent again after its test is one of the
`others`). With those jobs `BypassIsTrue`, `CompletionIsTrue` and
`WavesWithinLimit` are each violated without the words that except repeated
jobs. `LiveStale` has one listener and one job: with two
listeners it is out of TLC's reach. Two scheduler threads are out of
TLC's reach (more than 13 million states for one job); the theorems cover them.

**Fairness** (`Fairness`). Every started method goes on (weak fairness of its
next step): a healthy thread is scheduled. Strong fairness for the start of
`watch()` and of `dispatch()`, which compete for one thread, and for the
delivery of a partition, which competes with the others of the same listener:
the scheduler and the container serve them in turn. Strong fairness of an
allowed rate check: the window does not refuse the same job for ever. Nothing is
assumed of clients, faults or the outcome of executions; an execution is assumed
to end, which an API job without a timeout may not. `FairRepairSpec` adds that
the operator, or the orchestrator in his place, does not tire of asking for a
reconciliation and for a job to be requeued (strong fairness), and that a
request thread goes on. `TestBench` states safety only and assumes none.

## 4. Where the code does otherwise than it is said to

Beside the four findings. The first five can be seen with the configurations
given, in a copy with the changes named.

- **A final row is written over.** README.md:189–193 lists final states and
  README.md:164 idempotency, but the rate limiter and the circuit are asked
  before the status is looked at: a redelivered message of a COMPLETED job that
  is refused makes it RETRY. `Redelivery` with `PROPERTY TerminalIsFinal`, and
  `RateAnswers <- Both` for the rate limiter; with `OnlyYes` it is the circuit.
- **A job stays behind until an operator acts.** After a send that throws, the
  row is QUEUED and its entry is dropped at the next poll; README.md:344 says
  such jobs "stay in the Redis queue or are re-queued from the DB". After a loss
  of Redis nothing re-scans the SCHEDULED rows unless the watcher itself has
  been away; README.md:337 says the watcher does. `Repair` with `Requests = {}`,
  `Crashable = {}` and `FaultKinds = {"sendThrows"}` or `{"redisLoss"}` violates
  `AbandonedIsRepaired`.
- **A cancellation expires.** "When the job eventually gets picked up, it will be
  CANCELLED" (e2e-test.js:299): the flag lives ten minutes. `LiveCancel` with
  `CancelTtl = 1`.
- **Reconciliation skips a backoff.** `reconcileRedis` (and the recovery an
  admin request starts) re-adds an overdue SCHEDULED job at its schedule time,
  also when it waits for a retry: the score of the retry is overwritten with one
  that is past, and the job is dispatched at once. So `NotBeforeDue` is not
  stated of `RepairSpec`. No job is lost by it (`RepairQueuedSafe`).
- **Backoff from when?** README.md:301 gives the backoff without saying from
  when; the code counts from the start of `consume()`, before the execution, and
  so does the model. README.md:143 says the dispatcher checks cancellations as
  well; it does not.

What the scripts report, or test, and what it is worth:

- *Delay queue test* (test-runner.js:109–160). A job "one minute ahead", cut to
  the minute, is within the immediate threshold (60 s) and goes straight to
  Kafka, or, if the minute has passed by then, it is due tomorrow: `Routes(1)`
  never is the way through the watcher the comments at 139–140 describe.
- *Late in the minute* the job of e2e-test.js:257, two minutes ahead, is 61
  seconds off and with a slow request QUEUED instead of PENDING: the test fails
  now and then.
- *"100% success at … RPS"* (scalability-test.js:282) is printed when no answer
  was bad, whatever requests are still unanswered after the ten seconds.
- *"triggered + auto-recovered"* (scalability-test.js:1232) is printed whenever
  the limiter was triggered, recovered or not (`Summary`).
- *"ALL COMPLETED SUCCESSFULLY"* (test-runner.js:508) includes the rate limiter,
  the circuit and the stress test, which judge nothing, and a cancellation test
  (206) that accepts any status.
- *"due to OPEN circuit"* (test-runner.js:341): the sixth job may as well have
  been put off by the rate limiter of its type. That it was never executed is so
  (`BypassIsTrue`) unless the job was repeated: executed and failed, it is RETRY
  with one attempt counted; when `watch()` then saves the PENDING copy it had
  loaded before the first attempt (WatcherService 53), the count is 0 again, and
  a deferral shows RETRY with no retry. The same comes of an incident
  publication that throws at KafkaConsumerService 140, and a redelivery.
- *All COMPLETED* (test-runner.js:273, e2e-test.js:523, scalability-test.js:528)
  is a count of looks. Each job that is counted has been executed and was
  COMPLETED when it was looked at; a repeated one may be SCHEDULED or RETRY by
  the time of the verdict (`CompletionIsTrue`).
- *"Hit rate-limiter"* (scalability-test.js:325) may be printed of a wave of
  five: a job that is repeated asks the limiter once more
  (`WavesWithinLimit`).
- *TOTAL is the sum* (e2e-test.js:461): the counts are queried one after the
  other, so a job that moves in between is counted twice or not at all.
- *"If still retrying, that's also valid"* (e2e-test.js:393), but the assertion
  three lines later refuses every status but RETRY and FAILED, among them QUEUED
  and PROCESSING of a job that is being retried.
- *All 50 complete* (e2e-test.js:523) compares with the number of ids: if no job
  was accepted, `0 === 0` passes.
- *Five LOG jobs complete within eight seconds* (e2e suite 2) shares the limit of
  five per second with the job of the test before.
- *Draining* (`drainQueue`) leaves SCHEDULED jobs out and is content with a
  backlog of up to 20 or 50.

## 5. What is proved

For every number of jobs, threads, partitions, instances, every bound, every
page size and every choice of faults not excluded below. The assumptions on
constants are `StoreAssumption`, `ApiAssumption`, `WatcherAssumption`,
`ConsumerAssumption`, `SystemAssumption`, `AdminAssumption`, and for the scripts
`ServerAssumption`, `ClientAssumption`, `SuiteAssumption`, `ScaleAssumption`,
`BenchAssumption`; TLC evaluates them in every run.

`JobQueueProofs`:

- `TypeCorrect`: `Spec => [](TypeOK /\ HandOK)`. The retry count stays within
  `MaxRetry` because each listener increments a copy it has just compared, and a
  copy is a row that was once in range. `HandOK` (the job in hand is on the
  thread's list) is needed because the dispatcher sends the job in hand.
- `ScheduledSafe`: with `SoleScheduler` (one thread runs the `@Scheduled`
  methods) and `SchedulerSurvives` (its instance does not crash, Redis keeps its
  data), `Spec => []ScheduledInv /\ []ScheduledIsCarried`.
  `ScheduledIsCarried` is not inductive: that the dispatcher removes an entry is
  harmless only because it has seen or made the row something else than
  SCHEDULED (`TakenOutUnscheduled`) and nobody else makes a row SCHEDULED
  (`OthersWriteUnscheduled`); that the recovery saves SCHEDULED is harmless
  because the entry is there (`RecoveredIsQueued`); and an entry is really added
  because the times of the listed rows are not null (`ListedIsDated`). `Known(w)`
  gathers this for the single thread, `WatchKnows` and `DispatchKnows` show that
  its own steps keep it, `OthersKeep` that nobody else's can break it. The
  finding `Recover` is what happens without `SoleScheduler`.

`CarriedProofs`, for any number of scheduler threads and instances:

- `ProcessingSafe`: with `ListenersSurvive` (no listener's instance crashes,
  `consume()` does not end with an exception) a PROCESSING job is always in the
  hands of a listener that will write its outcome. Who writes which status is
  three lemmas (`SchedulerWrites`, `RequestWrites`, `ListenerWrites`): only a
  listener brings PROCESSING about, and it keeps the job until it has saved
  another status.
- `QueuedSafe`: with `SendsSucceed` (no crash, no send that throws or is lost, no
  exception out of `consume()`) a QUEUED job always has a message, somebody about
  to send one, or a listener that will start it. Redis may be emptied, partitions
  may move, requests may be slow. The argument: whoever carries the job hands it
  on, or has written another status, before letting go (`SchedulerCarries`,
  `RequestCarries`, `ListenerCarries`); a message is taken from the head of a
  partition only, and a rewind pushes none out (`ReceivedIsHead`,
  `RewoundWaits`). `TypeOK` is the only strengthening it needs.

`FlightProofs`, with `SoleScheduler`, `ScheduledAhead` (every job is asked for
later than the immediate threshold, requests are prompt) and `DeliveredOnce` (no
listener's instance crashes, no exception leaves `consume()`, no rebalance, so
that Kafka delivers a record once). The scheduler's instance may crash at any
moment, Redis be emptied, sends be lost or throw, a save throw within an
attempt. The run `Deferred` has none of these faults; the theorems have them all.

- `FlightSafe`, `SingleFlightSafe`, `ExecutedByOneSafe`: `SingleFlight` says of
  the messages and the listeners that there is one per job, and is not
  inductive: nothing in it keeps a scheduler with a stale copy from saving
  SCHEDULED over PROCESSING. `FlightInv` adds who may write a row at all: a job
  on a list of `watch()` still is what it was when it was listed
  (`ListIsFresh`), the row the dispatcher is about to claim is the one it has
  loaded (`ClaimIsFresh`), what it is about to send is on no other way to be
  started (`PublishedIsNew`), and the row a listener works on is its copy but
  for the status (`CopiesAreRows`). The argument is a hand-over: whoever holds
  the job writes a status none of the others looks for before the next one can
  see it. `DoubleRun` is what happens without `ScheduledAhead`, and section 4
  without `DeliveredOnce`.
- `RowsMoveSafe`: every step leaves each row alone or moves it along the life
  cycle; because of `FlightInv` the status on the copy a thread writes from is
  the status in the row. From it follow `TerminalFinal` (`Spec =>
  TerminalIsFinal`) and `LifecycleFollowed`, the refinement: the initial rows
  are the initial state of `JobLifecycle`, and every step of every thread is one
  of its steps or a stutter. The latter excludes the save that throws within an
  attempt: when the save of PROCESSING does, a failure is counted of a row that is
  still QUEUED, a move the life cycle does not have.

`DueProofs`, with `SoleScheduler`, `SchedulerRuns` (its instance does not crash),
`ScheduledAhead` and `GapExceedsLookahead` (20 s against 25 s). Listeners may
crash, records be delivered again and again, Redis be emptied, sends and saves
fail, partitions move.

- `DueSafe`, `NotBeforeDueSafe`: `Spec => NotBeforeDue`. That the entry of a
  SCHEDULED job lies no earlier than its schedule and its retry time
  (`ScoreIsDue`) does not survive the gap recovery, which takes the schedule time
  as the score of a job that waits for a retry. It does no harm because that
  retry is due as well: `watch()` never makes a job SCHEDULED whose retry lies
  further ahead than `Lookahead` from the clock of that run, the heartbeat says
  when that was, and a gap is at least as long (`RetriesWithinReach`). The rest
  ties the copies to the rows: schedule times are never changed, lists carry
  times that were read from the row (`ListsAreTimely`), what has left the delay
  queue has arrived (`BeyondQueueArrived`, `RecordsArrived`, `CopiesArrived`),
  and what a poll has returned stays due (`PollIsDue`). The four conditions are
  needed: the QUEUED row of an immediate creation may be saved over the one
  `watch()` has scheduled, a recovery on another thread or two crashes leave an
  old score, and with a look-ahead longer than the gap the recovery meets retries
  that are not due.

`AdminProofs` carries the theorems of `CarriedProofs` over to `RepairSpec`: `RepairTypeCorrect`,
`RepairProcessingSafe` and `RepairQueuedSafe` (no admin operation, whenever it
comes and on however many threads, leaves a job without its carrier).

`TestBenchProofs`, for every size of bursts, levels, rates, waves and polls:

- `BenchTypeCorrect`: types; the window never holds more than `Limit` marks,
  which needs that what a sleep takes out of it is in it (`older <= recent`).
- `ReportsAddUp`: the totals of `e2e-test.js` are those of its suites and exit
  code 0 means no failure. The strengthening (`ReportInv`) is that the preflight
  is counted in no suite.
- `BypassedIsNotRun`: a job reported as bypassed was never executed unless it was
  repeated, because one that was executed is PROCESSING, final, or has a failure
  counted (`Shows`), as long as nobody saves an old copy of its row. It
  may have been put off and queued again any number of times in between.
- `GateHolds`: no test of `test-runner.js` or `e2e-test.js` before the server was
  found healthy.
- `ThresholdFound`: the reported threshold is the first level with a failure.
  Needs the tables: in `scalability-test.js` every level notes the threshold, in
  the others none does (`ScaleTable`, `RunnerTable`, `SuiteTable`, brought to the
  step under way by `CurrentKind`).
- `RowsAreTheirOwn`: a row of phase 1 counts the requests of its level only.
  Between two levels nothing is counted and nothing is under way (`RateInv`): a
  sleep keeps the counters, so they must be zero when it begins.

`ReportProofs`, about the two reports that rest on what the service does between
the script's steps, again for every size and number of samples:

- `CompletionHolds`: `Spec => CompletionIsTrue`. Whatever was seen COMPLETED has
  been executed, and the row of a job that is not repeated stays COMPLETED
  (`DoneStays`), so what was counted job by job is still so at the end,
  provided that the count began at nothing, for every scan of a wait as for every
  test (`CountInv`). Who looks at the last job only and insists on COMPLETED has
  created no other (`FollowsOne`, `FollowInv`), and a poll that ends because its
  time is over has not seen COMPLETED in an earlier sample (`PollInv`). That the
  tables are of this kind is `RunnerLooks`, `SuiteLooks` and `ScaleLooks`.
- `WavesFit`: `Spec => WavesWithinLimit` when `WaveSize <= Limit` (5 and 5 in the
  code). As long as the script has given up on no job and none is repeated, what is not over belongs
  to the current wave, and the jobs in the window and those that may still be put
  off are together no more than the wave has posted (`WaveInv`): a job let
  through moves from one to the other, and a LOG job needs a single attempt, so
  that none comes back to wait. A gap begins with nothing open and ends with an
  empty window, because it is longer than one; the first wave begins with one
  because the warm-up's jobs are others' (`QuietInv`).

Model-checked only: liveness (`EveryJobSettles`, `CancelTakesEffect`,
`AbandonedIsRepaired`), which is out of the prover's reach. All invariants and
action properties of the passing runs are theorems as well, under the conditions
named with each. What the four violation runs refute is of course not one, but
for `ExecutedByOne`, which holds under the conditions of `FlightProofs`.

## 6. What is not modelled

- Content: payloads, e-mails, HTTP calls of executors, the arithmetic of `HH:mm`
  beyond what `Lead` says of it, validation and error responses.
- A message that is no number, or of a job without a row: acknowledged without
  effect. No such message is ever produced.
- Exceptions of MySQL and Redis anywhere but in `consume()`, and the difference
  of clocks between instances that share a rate window.
- Of the scripts: latencies, percentiles, progress output and the HTML report.
- The AI agent: its rules and prompts decide what is asked of the admin API;
  `Admin` lets any operation come at any time, which covers every decision.
- The self-healer, which matches log lines and counts, and the log bridge, which
  is input and output only. Neither touches the queue but through incidents.

## 7. Plan

1. `CircuitBreaker`: the maps alone with many threads, against an abstract
   breaker (closed, open, half-open); the rate window against "at most N in any
   second", with equal milliseconds and clocks that differ.
2. `Orchestrator` (observer, deduplication, plan, execution, retried POSTs)
   composed with `Admin`, and the detectors of the self-healer as functions
   against a reference definition.
