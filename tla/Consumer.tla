------------------------------ MODULE Consumer ------------------------------
(***************************************************************************)
(* KafkaConsumerService.consume(): a listener thread takes a message, loads*)
(* the row, and works on that copy until the end: cancellation, rate limit,*)
(* circuit breaker, status check, execution, outcome.  Only the last check *)
(* looks at the status; the three before it may already write the row.     *)
(* The circuit of a job type lives in the memory of the instance.          *)
(***************************************************************************)
EXTENDS JobStore

CONSTANTS
  Instances,
  HostOf,            \* the instance a thread (or a creation request) runs in
  Types,
  TypeOf,            \* the type of a job
  FailureThreshold,  \* FAILURE_THRESHOLD
  CircuitTimeout,    \* CIRCUIT_TIMEOUT
  RateDelay,         \* currentTimeMillis() + 2000
  CircuitDelay,      \* now + 5000
  BackoffUnit,       \* 1000 ms
  BackoffCap,        \* 20000 ms
  RateAnswers,       \* the answers rateLimiter.allow may give
  ExecAnswers        \* the ways executor.execute may end: TRUE returns, FALSE throws

ASSUME ConsumerAssumption ==
  /\ TypeOf \in [Jobs -> Types]
  /\ \A c \in Consumers : HostOf[c] \in Instances
  /\ FailureThreshold \in Nat \ {0}
  /\ CircuitTimeout \in Nat /\ RateDelay \in Nat /\ CircuitDelay \in Nat
  /\ BackoffCap \in Nat
  /\ \A n \in 1 .. MaxRetry : 2^n * BackoffUnit \in Nat
  /\ RateAnswers \subseteq BOOLEAN /\ ExecAnswers \subseteq BOOLEAN

VARIABLES
  task,              \* what each listener thread is doing
  circuit            \* failureCountMap, circuitOpenMap, lastFailureTimeMap

Stage == {"idle", "loaded", "cancelling", "clearing", "gate", "limited", "circuit",
          "tripped", "halfOpen", "admit", "executing", "succeeded", "completed",
          "failed", "counted"}

Task == [stage   : Stage,
         job     : Jobs \cup {NoJob},
         entity  : Job,              \* the copy loaded by findById
         started : Time]             \* `now` of consume()

\* Bound: failures above the threshold are not told apart.
Circuit == [failures : 0 .. FailureThreshold, open : BOOLEAN, last : Time]

ConsumerTypeOK ==
  /\ task \in [Consumers -> Task]
  /\ circuit \in [Instances -> [Types -> Circuit]]

IdleTask == [stage |-> "idle", job |-> NoJob, entity |-> NoRow, started |-> Null]
ClosedCircuit == [failures |-> 0, open |-> FALSE, last |-> Null]

ConsumerInit ==
  /\ task = [c \in Consumers |-> IdleTask]
  /\ circuit = [i \in Instances |-> [t \in Types |-> ClosedCircuit]]

CircuitOf(c) == circuit[HostOf[c]][TypeOf[task[c].job]]
SetCircuit(c, value) == circuit' = [circuit EXCEPT ![HostOf[c]][TypeOf[task[c].job]] = value]

Enter(c, stage) == task' = [task EXCEPT ![c].stage = stage]

\* consume() returns; the offset is acknowledged, and committed with the batch.
Done(c) == task' = [task EXCEPT ![c] = IdleTask]

\* repo.save of the thread's copy, with some fields set.
SaveEntity(c, row) == Save(task[c].job, row)

\* min(2^retryCount * 1000, 20000)
Backoff(n) == IF 2^n * BackoffUnit < BackoffCap THEN 2^n * BackoffUnit ELSE BackoffCap

\* Variant: the time of the retry is not set.
DeferredUndated(row, t) == [row EXCEPT !.status = "RETRY"]

Deferred(row, t) == [row EXCEPT !.status = "RETRY", !.next = t]

-----------------------------------------------------------------------------
\* The listener container hands over the next record; findById loads the row.
Receive(c, p) ==
  /\ task[c].stage = "idle" /\ owner[p] = c /\ inbox[p] # <<>>
  /\ inbox' = [inbox EXCEPT ![p] = Tail(@)]
  /\ unacked' = [unacked EXCEPT ![p] = Append(@, Head(inbox[p]))]
  /\ task' = [task EXCEPT ![c].stage = "loaded", ![c].job = Head(inbox[p]),
                          ![c].entity = db[Head(inbox[p])]]
  /\ UNCHANGED <<db, redisVars, owner, now, faults, circuit>>

\* Variant: the flag is looked at before the first attempt only.
CheckCancelledOnce(c) ==
  /\ task[c].stage = "loaded"
  /\ IF IsCancelled(task[c].job) /\ task[c].entity.retries = 0
       THEN Enter(c, "cancelling")
       ELSE task' = [task EXCEPT ![c].stage = "gate", ![c].started = now]
  /\ UNCHANGED <<storeVars, circuit>>

\* redisService.isCancelled, then the clock is read.
CheckCancelled(c) ==
  /\ task[c].stage = "loaded"
  /\ IF IsCancelled(task[c].job)
       THEN Enter(c, "cancelling")
       ELSE task' = [task EXCEPT ![c].stage = "gate", ![c].started = now]
  /\ UNCHANGED <<storeVars, circuit>>

\* Variant: the return after the cancellation is missing.
SaveCancelledAndGoOn(c) ==
  /\ task[c].stage = "cancelling"
  /\ SaveEntity(c, WithStatus(task[c].entity, "CANCELLED"))
  /\ Enter(c, "gate")
  /\ UNCHANGED <<redisVars, kafkaVars, now, faults, circuit>>

SaveCancelled(c) ==
  /\ task[c].stage = "cancelling"
  /\ SaveEntity(c, WithStatus(task[c].entity, "CANCELLED"))
  /\ Enter(c, "clearing")
  /\ UNCHANGED <<redisVars, kafkaVars, now, faults, circuit>>

ClearCancellation(c) ==
  /\ task[c].stage = "clearing"
  /\ ClearCancelFlag(task[c].job)
  /\ Done(c)
  /\ UNCHANGED <<db, delayQueue, lastRun, kafkaVars, now, faults, circuit>>

\* rateLimiter.allow: the window is shared with all jobs of the type, so its
\* answer is left open.
RateGate(c) ==
  /\ task[c].stage = "gate"
  /\ \E allowed \in RateAnswers : Enter(c, IF allowed THEN "circuit" ELSE "limited")
  /\ UNCHANGED <<storeVars, circuit>>

\* Variant: the return after the deferral is missing.
DeferLimitedAndGoOn(c) ==
  /\ task[c].stage = "limited"
  /\ SaveEntity(c, Deferred(task[c].entity, Later(now, RateDelay)))
  /\ Enter(c, "circuit")
  /\ UNCHANGED <<redisVars, kafkaVars, now, faults, circuit>>

\* Variant: a deferral counts as an attempt.
DeferLimitedCounted(c) ==
  /\ task[c].stage = "limited"
  /\ SaveEntity(c, [Deferred(task[c].entity, Later(now, RateDelay)) EXCEPT !.retries = @ + 1])
  /\ Done(c)
  /\ UNCHANGED <<redisVars, kafkaVars, now, faults, circuit>>

\* Deferred by a clock read after the answer; the retry count stays.
DeferLimited(c) ==
  /\ task[c].stage = "limited"
  /\ SaveEntity(c, Deferred(task[c].entity, Later(now, RateDelay)))
  /\ Done(c)
  /\ UNCHANGED <<redisVars, kafkaVars, now, faults, circuit>>

\* isCircuitOpen and the age of the last failure, seen from `started`.
CircuitGate(c) ==
  /\ task[c].stage = "circuit"
  /\ Enter(c, IF ~CircuitOf(c).open THEN "admit"
              ELSE IF Elapsed(CircuitOf(c).last, task[c].started, CircuitTimeout)
                THEN "halfOpen"
                ELSE "tripped")
  /\ UNCHANGED <<storeVars, circuit>>

DeferTripped(c) ==
  /\ task[c].stage = "tripped"
  /\ SaveEntity(c, Deferred(task[c].entity, Later(task[c].started, CircuitDelay)))
  /\ Done(c)
  /\ UNCHANGED <<redisVars, kafkaVars, now, faults, circuit>>

\* setCircuitOpen(type, false): whatever another thread has put there since.
HalfOpen(c) ==
  /\ task[c].stage = "halfOpen"
  /\ SetCircuit(c, [CircuitOf(c) EXCEPT !.open = FALSE])
  /\ Enter(c, "admit")
  /\ UNCHANGED storeVars

\* A copy that is not QUEUED is acknowledged and dropped.
Admit(c) ==
  /\ task[c].stage = "admit"
  /\ IF task[c].entity.status = "QUEUED"
       THEN /\ SaveEntity(c, WithStatus(task[c].entity, "PROCESSING"))
            /\ Enter(c, "executing")
       ELSE Done(c) /\ UNCHANGED db
  /\ UNCHANGED <<redisVars, kafkaVars, now, faults, circuit>>

Execute(c) ==
  /\ task[c].stage = "executing"
  /\ \E ok \in ExecAnswers : Enter(c, IF ok THEN "succeeded" ELSE "failed")
  /\ UNCHANGED <<storeVars, circuit>>

SaveCompleted(c) ==
  /\ task[c].stage = "succeeded"
  /\ SaveEntity(c, WithStatus(task[c].entity, "COMPLETED"))
  /\ Enter(c, "completed")
  /\ UNCHANGED <<redisVars, kafkaVars, now, faults, circuit>>

ResetFailures(c) ==
  /\ task[c].stage = "completed"
  /\ SetCircuit(c, [CircuitOf(c) EXCEPT !.failures = 0])
  /\ Done(c)
  /\ UNCHANGED storeVars

-----------------------------------------------------------------------------
(* The catch block.                                                        *)

\* One more failure, its time, and the circuit open once there are enough.
\* Three writes in the code, one step here.  In the code a resetCircuit that
\* comes between them leaves the circuit open with no failure counted; no property
\* is about how often a circuit opens, and an open one lets a message through
\* after the timeout, whatever was counted.
Failed(circ, t) ==
  LET n == IF circ.failures < FailureThreshold THEN circ.failures + 1 ELSE FailureThreshold
  IN  [failures |-> n, open |-> circ.open \/ n >= FailureThreshold, last |-> t]

CountFailure(c) ==
  /\ task[c].stage = "failed"
  /\ SetCircuit(c, Failed(CircuitOf(c), task[c].started))
  /\ Enter(c, "counted")
  /\ UNCHANGED storeVars

Retried(row, t) ==
  [Deferred(row, Later(t, Backoff(row.retries + 1))) EXCEPT !.retries = row.retries + 1]

\* job.getRetryCount() >= MAX_RETRY, and a variant off by one.
ExhaustedLate(row) == row.retries > MaxRetry
Exhausted(row) == row.retries >= MaxRetry

\* Variant: the row of the last attempt is not saved.
SaveFailedUnsaved(c) ==
  /\ task[c].stage = "counted"
  /\ IF Exhausted(task[c].entity)
       THEN UNCHANGED db
       ELSE SaveEntity(c, Retried(task[c].entity, task[c].started))
  /\ Done(c)
  /\ UNCHANGED <<redisVars, kafkaVars, now, faults, circuit>>

SaveFailed(c) ==
  /\ task[c].stage = "counted"
  /\ SaveEntity(c, IF Exhausted(task[c].entity)
                     THEN WithStatus(task[c].entity, "FAILED")
                     ELSE Retried(task[c].entity, task[c].started))
  /\ Done(c)
  /\ UNCHANGED <<redisVars, kafkaVars, now, faults, circuit>>

-----------------------------------------------------------------------------
(* Exceptions: of MySQL and Redis, and of publishing an incident.          *)

\* A save inside the try block throws: the attempt has failed, whether the job
\* has not been executed yet or has been executed successfully.
AttemptThrows(c) ==
  /\ \/ task[c].stage = "admit" /\ task[c].entity.status = "QUEUED"
     \/ task[c].stage = "succeeded"
  /\ Fault("saveThrows")
  /\ Enter(c, "failed")
  /\ UNCHANGED <<db, redisVars, kafkaVars, now, circuit>>

\* The thread's record, if its partition has not moved.
Record(c, p) ==
  /\ owner[p] = c /\ unacked[p] # <<>>
  /\ unacked[p][Len(unacked[p])] = task[c].job

\* The container's error handler seeks back: the record is delivered once more.
\* Bound: fewer than the ten times after which the container drops a record.
GiveBack(c) ==
  \/ \E p \in Partitions :
       /\ Record(c, p)
       /\ inbox' = [inbox EXCEPT ![p] = <<task[c].job>> \o @]
       /\ unacked' = [unacked EXCEPT ![p] = SubSeq(@, 1, Len(@) - 1)]
  \/ (\A p \in Partitions : ~Record(c, p)) /\ UNCHANGED <<inbox, unacked>>

\* ... outside of it, in the catch block included: consume() ends.
ConsumeThrows(c) ==
  /\ task[c].stage \in {"loaded", "cancelling", "clearing", "gate", "limited", "tripped", "counted"}
  /\ Fault("consumeThrows")
  /\ GiveBack(c)
  /\ Done(c)
  /\ UNCHANGED <<db, redisVars, owner, now, circuit>>

-----------------------------------------------------------------------------
\* One step of a consume() that has started.
ConsumeStep(c) ==
  \/ CheckCancelled(c) \/ SaveCancelled(c) \/ ClearCancellation(c)
  \/ RateGate(c) \/ DeferLimited(c)
  \/ CircuitGate(c) \/ DeferTripped(c) \/ HalfOpen(c)
  \/ Admit(c) \/ Execute(c) \/ SaveCompleted(c) \/ ResetFailures(c)
  \/ CountFailure(c) \/ SaveFailed(c)

\* When the offsets of a partition may be committed: the batch is finished
\* (AckMode.MANUAL).  The variant is auto-commit, whatever the listener does.
CommittableAlways(p) == unacked[p] # <<>>
Committable(p) == task[owner[p]].stage = "idle" /\ unacked[p] # <<>>

Commit(p) ==
  /\ Committable(p)
  /\ unacked' = [unacked EXCEPT ![p] = <<>>]
  /\ UNCHANGED <<db, redisVars, inbox, owner, now, faults, task, circuit>>
=============================================================================
