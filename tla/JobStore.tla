------------------------------ MODULE JobStore ------------------------------
(***************************************************************************)
(* The state every thread of the job queue shares, and the operations the  *)
(* repository and the client services offer on it:                         *)
(*   - MySQL: one row per job (model/Job.java, repository/JobRepository);  *)
(*   - Redis: the delay queue, the cancellation flags, the heartbeat key;  *)
(*   - Kafka: the partitions of job-topic, seen by the group job-group;    *)
(*   - the wall clock, and the number of faults that have happened.        *)
(* A row is read and written whole (a detached JPA entity, no @Version):   *)
(* the last writer wins.  Times are ticks in 1..MaxTime, 0 is "null".      *)
(***************************************************************************)
EXTENDS Integers, Sequences, FiniteSets

CONSTANTS
  Jobs,           \* identities of jobs
  NoJob,          \* no job at hand
  Partitions,     \* partitions of job-topic
  Consumers,      \* listener threads of all instances (concurrency = 3 each)
  MaxRetry,       \* MAX_RETRY
  CancelTtl,      \* CANCEL_TTL, in ticks
  MaxTime,        \* bound: the horizon of the clock
  MaxLog,         \* bound: messages a partition holds
  FaultKinds,     \* which faults the environment may inject
  MaxFaults       \* bound: how many faults it injects

ASSUME StoreAssumption ==
  /\ NoJob \notin Jobs
  /\ MaxRetry \in Nat /\ CancelTtl \in Nat /\ MaxFaults \in Nat
  /\ MaxTime \in Nat \ {0} /\ MaxLog \in Nat \ {0}

VARIABLES
  db,             \* MySQL: the row of each job
  delayQueue,     \* Redis ZSET scheduled_jobs: score of a member, Null if absent
  cancelFlag,     \* Redis job:<id>: when the flag expires, Null if absent
  lastRun,        \* Redis watcher:lastRun
  inbox,          \* Kafka: messages of a partition not yet delivered
  unacked,        \* Kafka: messages delivered whose offset is not committed
  owner,          \* Kafka: the listener thread a partition is assigned to
  now,            \* System.currentTimeMillis()
  faults          \* faults injected so far

redisVars == <<delayQueue, cancelFlag, lastRun>>
kafkaVars == <<inbox, unacked, owner>>
storeVars == <<db, redisVars, kafkaVars, now, faults>>

-----------------------------------------------------------------------------
(* Rows and times.                                                         *)

Null == 0
Clock == 1 .. MaxTime
Time == 0 .. MaxTime

JobStatus == {"PENDING", "SCHEDULED", "QUEUED", "PROCESSING",
              "COMPLETED", "FAILED", "RETRY", "CANCELLED"}
Terminal == {"COMPLETED", "FAILED", "CANCELLED"}

\* "NONE" is the absence of a row: findById returns empty.
Job == [status  : JobStatus \cup {"NONE"},
        retries : 0 .. MaxRetry,        \* retryCount
        at      : Time,                 \* scheduleTime
        next    : Time]                 \* nextRetryTime

NoRow == [status |-> "NONE", retries |-> 0, at |-> Null, next |-> Null]
NewRow(t) == [status |-> "PENDING", retries |-> 0, at |-> t, next |-> Null]
WithStatus(row, s) == [row EXCEPT !.status = s]

\* Every instant at or beyond the horizon is the horizon itself: a timer set
\* past MaxTime has expired when the clock stops there.
Later(t, d) == IF t + d > MaxTime THEN MaxTime ELSE t + d
Elapsed(from, to, d) == to - from >= d \/ to = MaxTime

\* One more fault of kind f, if the environment may still inject it.
Fault(f) == f \in FaultKinds /\ faults < MaxFaults /\ faults' = faults + 1

-----------------------------------------------------------------------------
(* MySQL.                                                                  *)

\* repo.save(job): the whole row is replaced by the caller's copy.
Save(j, row) == db' = [db EXCEPT ![j] = row]

ScheduleTimes(rows) == [j \in Jobs |-> rows[j].at]
NextRetryTimes(rows) == [j \in Jobs |-> rows[j].next]

InRange(t, start, end) == t # Null /\ start <= t /\ t <= end

FindWindow(start, end) ==
  {j \in Jobs : db[j].status = "PENDING" /\ InRange(db[j].at, start, end)}

\* Variant: the end of the window is not looked at.
FindRetryWindowOpen(start, end) ==
  {j \in Jobs : db[j].status = "RETRY" /\ InRange(db[j].next, start, db[j].next)}

FindRetryWindow(start, end) ==
  {j \in Jobs : db[j].status = "RETRY" /\ InRange(db[j].next, start, end)}

FindPendingOrScheduledInRange(start, end) ==
  {j \in Jobs : db[j].status \in {"PENDING", "SCHEDULED"} /\ InRange(db[j].at, start, end)}

\* The same query text as findRetryWindow, without its ORDER BY.
FindRetryInRange(start, end) == FindRetryWindow(start, end)

\* The first page a query returns: n of the matches, chosen by the database.
Page(found, n) ==
  {P \in SUBSET found :
     Cardinality(P) = (IF Cardinality(found) < n THEN Cardinality(found) ELSE n)}

\* ... of a query with an ORDER BY: nothing left out comes before what is in.
OldestPage(found, n, time) ==
  {P \in Page(found, n) : \A x \in P, y \in found \ P : time[x] <= time[y]}

-----------------------------------------------------------------------------
(* Redis.                                                                  *)

ScheduleJob(j, t) == delayQueue' = [delayQueue EXCEPT ![j] = t]
RemoveJob(j) == delayQueue' = [delayQueue EXCEPT ![j] = Null]
GetReadyJobs(t) == {j \in Jobs : delayQueue[j] # Null /\ delayQueue[j] <= t}

\* An expiry beyond the horizon never comes.
Never == MaxTime + 1
SetCancelFlag(j) ==
  cancelFlag' = [cancelFlag EXCEPT ![j] = IF now + CancelTtl > MaxTime THEN Never ELSE now + CancelTtl]
IsCancelled(j) == cancelFlag[j] # Null
ClearCancelFlag(j) == cancelFlag' = [cancelFlag EXCEPT ![j] = Null]

\* Redis drops a key once its time to live is over.
Expire(t) == [j \in Jobs |-> IF cancelFlag[j] <= t THEN Null ELSE cancelFlag[j]]

-----------------------------------------------------------------------------
(* Kafka.                                                                  *)

\* kafkaTemplate.send("job-topic", id): no key, so any partition; the future
\* is ignored, so a record the broker never takes goes unnoticed.
SendJob(j) ==
  \/ /\ \E p \in Partitions :
          /\ Len(inbox[p]) + Len(unacked[p]) < MaxLog
          /\ inbox' = [inbox EXCEPT ![p] = Append(@, j)]
     /\ UNCHANGED faults
  \/ Fault("sendLost") /\ UNCHANGED inbox

\* The send a request ends with: when it throws, the request is over as well.
SendOrThrow(j) == SendJob(j) \/ (Fault("sendThrows") /\ UNCHANGED inbox)

\* What was delivered and not committed is delivered again, before the rest.
Rewind(lost) ==
  /\ inbox' = [p \in Partitions |-> IF p \in lost THEN unacked[p] \o inbox[p] ELSE inbox[p]]
  /\ unacked' = [p \in Partitions |-> IF p \in lost THEN <<>> ELSE unacked[p]]

-----------------------------------------------------------------------------
StoreInit(assignment) ==
  /\ db = [j \in Jobs |-> NoRow]
  /\ delayQueue = [j \in Jobs |-> Null]
  /\ cancelFlag = [j \in Jobs |-> Null]
  /\ lastRun = Null
  /\ inbox = [p \in Partitions |-> <<>>]
  /\ unacked = [p \in Partitions |-> <<>>]
  /\ owner = assignment
  /\ now = 1
  /\ faults = 0

StoreTypeOK ==
  /\ db \in [Jobs -> Job]
  /\ delayQueue \in [Jobs -> Time]
  /\ cancelFlag \in [Jobs -> 0 .. Never]
  /\ lastRun \in Time
  /\ inbox \in [Partitions -> Seq(Jobs)]
  /\ unacked \in [Partitions -> Seq(Jobs)]
  /\ owner \in [Partitions -> Consumers]
  /\ now \in Clock
  /\ faults \in 0 .. MaxFaults
=============================================================================
