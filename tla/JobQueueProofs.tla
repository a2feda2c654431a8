--------------------------- MODULE JobQueueProofs ---------------------------
(***************************************************************************)
(* Theorems about JobQueue for every value of its constants.               *)
(***************************************************************************)
EXTENDS JobQueue, TLAPS

-----------------------------------------------------------------------------
(* What the helpers of the stores return.                                  *)

\* Setting the status of a row gives a row.
LEMMA WithStatusType ==
  ASSUME NEW row \in Job, NEW s \in JobStatus
  PROVE  WithStatus(row, s) \in Job
BY DEF WithStatus, Job

\* A new row is a row, whatever its time.
LEMMA NewRowType == ASSUME NEW t \in Time PROVE NewRow(t) \in Job
BY StoreAssumption DEF NewRow, Job, JobStatus, Time, Null

\* The absence of a row is among the rows.
LEMMA NoRowType == NoRow \in Job
BY StoreAssumption DEF NoRow, Job, JobStatus, Time, Null

\* A time computed from the clock stays within the horizon.
LEMMA LaterType == ASSUME NEW t \in Time, NEW d \in Nat PROVE Later(t, d) \in Time
BY StoreAssumption DEF Later, Time

\* A deferred row is a row.
LEMMA DeferredType ==
  ASSUME NEW row \in Job, NEW t \in Time
  PROVE  Deferred(row, t) \in Job
BY DEF Deferred, Job, JobStatus, Time

\* The delay before an attempt is a number of ticks.
LEMMA BackoffType == ASSUME NEW n \in 1 .. MaxRetry PROVE Backoff(n) \in Nat
BY ConsumerAssumption DEF Backoff

\* The row saved after a failure counts one more attempt and stays in range.
LEMMA RetriedType ==
  ASSUME NEW row \in Job, ~Exhausted(row), NEW t \in Time
  PROVE  Retried(row, t) \in Job
<1>1. row.retries \in 0 .. MaxRetry /\ row.retries + 1 \in 1 .. MaxRetry
  BY StoreAssumption DEF Job, Exhausted
<1>2. Later(t, Backoff(row.retries + 1)) \in Time
  BY <1>1, BackoffType, LaterType
<1>3. Deferred(row, Later(t, Backoff(row.retries + 1))) \in Job
  BY <1>2, DeferredType
<1> QED
  BY <1>1, <1>3, StoreAssumption DEF Retried, Job

\* A failure counted on a circuit gives a circuit.
LEMMA FailedType ==
  ASSUME NEW circ \in Circuit, NEW t \in Time
  PROVE  Failed(circ, t) \in Circuit
BY ConsumerAssumption DEF Failed, Circuit

\* Saving a row keeps the table well formed, even for a job that is none.
LEMMA SaveType ==
  ASSUME db \in [Jobs -> Job], NEW j, NEW row, j \in Jobs => row \in Job, Save(j, row)
  PROVE  db' \in [Jobs -> Job]
BY DEF Save

\* Sending a job keeps the partitions well formed.
LEMMA SendType ==
  ASSUME inbox \in [Partitions -> Seq(Jobs)], faults \in 0 .. MaxFaults,
         NEW j \in Jobs, SendOrThrow(j)
  PROVE  inbox' \in [Partitions -> Seq(Jobs)] /\ faults' \in 0 .. MaxFaults
<1>1. CASE /\ \E p \in Partitions : inbox' = [inbox EXCEPT ![p] = Append(@, j)]
           /\ UNCHANGED faults
  BY <1>1
<1>2. CASE (Fault("sendLost") \/ Fault("sendThrows")) /\ UNCHANGED inbox
  BY <1>2, StoreAssumption DEF Fault
<1> QED
  BY <1>1, <1>2 DEF SendOrThrow, SendJob

\* Delivering again keeps the partitions well formed.
LEMMA RewindType ==
  ASSUME inbox \in [Partitions -> Seq(Jobs)], unacked \in [Partitions -> Seq(Jobs)],
         NEW lost, Rewind(lost)
  PROVE  inbox' \in [Partitions -> Seq(Jobs)] /\ unacked' \in [Partitions -> Seq(Jobs)]
BY DEF Rewind

\* Giving a record back keeps the partitions well formed.
LEMMA GiveBackType ==
  ASSUME inbox \in [Partitions -> Seq(Jobs)], unacked \in [Partitions -> Seq(Jobs)],
         NEW c, GiveBack(c)
  PROVE  inbox' \in [Partitions -> Seq(Jobs)] /\ unacked' \in [Partitions -> Seq(Jobs)]
<1>1. ASSUME NEW p \in Partitions, Record(c, p)
      PROVE  /\ <<task[c].job>> \o inbox[p] \in Seq(Jobs)
             /\ SubSeq(unacked[p], 1, Len(unacked[p]) - 1) \in Seq(Jobs)
  <2>1. unacked[p] \in Seq(Jobs) /\ unacked[p] # <<>> /\ inbox[p] \in Seq(Jobs)
    BY <1>1 DEF Record
  <2>2. Len(unacked[p]) \in 1 .. Len(unacked[p])
    BY <2>1
  <2>3. task[c].job \in Jobs
    BY <1>1, <2>1, <2>2 DEF Record
  <2> QED
    BY <2>1, <2>2, <2>3
<1> QED
  BY <1>1 DEF GiveBack

\* A thread that has returned is well formed.
LEMMA IdleWorkType == ASSUME NEW t \in Time PROVE IdleWork(t) \in Work
BY NoRowType, StoreAssumption DEF IdleWork, Work, WorkPc, NoBatch, Time, Null

\* A listener between two messages is well formed.
LEMMA IdleTaskType == IdleTask \in Task
BY NoRowType, StoreAssumption DEF IdleTask, Task, Stage, Time, Null

\* A closed circuit is well formed.
LEMMA ClosedCircuitType == ClosedCircuit \in Circuit
BY ConsumerAssumption, StoreAssumption DEF ClosedCircuit, Circuit, Time, Null

-----------------------------------------------------------------------------
(* Type correctness, one lemma per kind of thread.                         *)

\* A request keeps every variable in its type.
LEMMA ApiTypes ==
  ASSUME TypeOK, NEW j \in Jobs, ApiNext(j)
  PROVE  TypeOK'
<1> USE DEF TypeOK, StoreTypeOK, ApiTypeOK
<1>0. WorkTypeOK' /\ ConsumerTypeOK'
  BY DEF ApiNext, WorkTypeOK, ConsumerTypeOK
<1>1. ASSUME NEW d \in Delays, CreateJob(j, d) PROVE TypeOK'
  <2>1. now + d \in Time
    BY <1>1, ApiAssumption, StoreAssumption DEF CreateJob, Clock, Time
  <2>2. db' \in [Jobs -> Job]
    BY <1>1, <2>1, NewRowType, SaveType DEF CreateJob
  <2> QED
    BY <1>0, <1>1, <2>2 DEF CreateJob, redisVars, kafkaVars
<1>2. ASSUME RouteJob(j) PROVE TypeOK'
  <2>1. WithStatus(NewRow(db[j].at), "QUEUED") \in Job
    BY NewRowType, WithStatusType DEF Job, JobStatus
  <2>2. db' \in [Jobs -> Job]
    BY <1>2, <2>1, SaveType DEF RouteJob
  <2>3. api' \in [Jobs -> {"none", "saved", "queued", "done"}]
    BY <1>2 DEF RouteJob
  <2> QED
    BY <1>0, <1>2, <2>2, <2>3 DEF RouteJob, redisVars, kafkaVars
<1>3. ASSUME PublishCreated(j) PROVE TypeOK'
  <2>1. inbox' \in [Partitions -> Seq(Jobs)] /\ faults' \in 0 .. MaxFaults
    BY <1>3, SendType DEF PublishCreated
  <2> QED
    BY <1>0, <1>3, <2>1 DEF PublishCreated, redisVars
<1>4. ASSUME CancelJob(j) PROVE TypeOK'
  <2>1. cancelFlag' \in [Jobs -> 0 .. Never]
    BY <1>4, StoreAssumption DEF CancelJob, SetCancelFlag, Never, Clock
  <2> QED
    BY <1>0, <1>4, <2>1 DEF CancelJob, kafkaVars
<1> QED
  BY <1>1, <1>2, <1>3, <1>4 DEF ApiNext

\* Going to another point of the method keeps the threads well formed.
LEMMA GotoType ==
  ASSUME WorkTypeOK, NEW w \in Schedulers, NEW pc \in WorkPc, Goto(w, pc)
  PROVE  WorkTypeOK'
BY DEF WorkTypeOK, Work, Goto

\* Setting the fields of a thread's record gives such a record.
LEMMA WorkUpdateType ==
  ASSUME NEW r \in Work, NEW pc \in WorkPc, NEW T \in SUBSET Jobs,
         NEW j \in Jobs \cup {NoJob}, NEW B \in [Jobs -> Job]
  PROVE  [r EXCEPT !.pc = pc, !.todo = T, !.cur = j, !.batch = B] \in Work
BY DEF Work

\* Fetching entities keeps the threads well formed.
LEMMA FetchType ==
  ASSUME WorkTypeOK, db \in [Jobs -> Job],
         NEW w \in Schedulers, NEW pc \in WorkPc, NEW S \in SUBSET Jobs, Fetch(w, pc, S)
  PROVE  WorkTypeOK'
<1>1. [j \in Jobs |-> IF j \in S THEN db[j] ELSE NoRow] \in [Jobs -> Job]
  BY NoRowType
<1>2. [work[w] EXCEPT !.pc = pc, !.todo = S, !.cur = NoJob,
                      !.batch = [j \in Jobs |-> IF j \in S THEN db[j] ELSE NoRow]] \in Work
  BY <1>1, WorkUpdateType DEF WorkTypeOK
<1> QED
  BY <1>2 DEF WorkTypeOK, Fetch

\* Taking a job in hand keeps the threads well formed.
LEMMA TakeType ==
  ASSUME WorkTypeOK, NEW w \in Schedulers, NEW pc \in WorkPc, NEW j \in Jobs, Take(w, pc, j)
  PROVE  WorkTypeOK'
BY DEF WorkTypeOK, Work, Take

\* Finishing a job keeps the threads well formed.
LEMMA FinishType ==
  ASSUME WorkTypeOK, NEW w \in Schedulers, NEW pc \in WorkPc, NEW j, Finish(w, pc, j)
  PROVE  WorkTypeOK'
<1>1. [work[w].batch EXCEPT ![j] = NoRow] \in [Jobs -> Job]
  BY NoRowType DEF WorkTypeOK, Work
<1>2. work[w].todo \ {j} \in SUBSET Jobs
  BY DEF WorkTypeOK, Work
<1>3. [work[w] EXCEPT !.pc = pc, !.todo = work[w].todo \ {j}, !.cur = NoJob,
                      !.batch = [work[w].batch EXCEPT ![j] = NoRow]] \in Work
  BY <1>1, <1>2, WorkUpdateType DEF WorkTypeOK
<1> QED
  BY <1>3 DEF WorkTypeOK, Finish

\* Leaving the method keeps the threads well formed.
LEMMA ReturnType ==
  ASSUME WorkTypeOK, NEW w \in Schedulers, NEW t \in Time, Return(w, t)
  PROVE  WorkTypeOK'
BY IdleWorkType DEF WorkTypeOK, Return

\* Saving an entity of the thread keeps the table well formed.
LEMMA SaveAsType ==
  ASSUME WorkTypeOK, db \in [Jobs -> Job],
         NEW w \in Schedulers, NEW j, NEW s \in JobStatus, SaveAs(w, j, s)
  PROVE  db' \in [Jobs -> Job]
<1>1. j \in Jobs => WithStatus(work[w].batch[j], s) \in Job
  BY WithStatusType DEF WorkTypeOK, Work
<1> QED
  BY <1>1, SaveType DEF SaveAs

\* Adding an entry keeps the delay queue well formed.
LEMMA ScheduleType ==
  ASSUME delayQueue \in [Jobs -> Time], NEW j, NEW t, j \in Jobs => t \in Time, ScheduleJob(j, t)
  PROVE  delayQueue' \in [Jobs -> Time]
BY DEF ScheduleJob

\* Taking an entry out keeps the delay queue well formed.
LEMMA RemoveType ==
  ASSUME delayQueue \in [Jobs -> Time], NEW j, RemoveJob(j)
  PROVE  delayQueue' \in [Jobs -> Time]
<1>1. Null \in Time
  BY StoreAssumption DEF Null, Time
<1> QED
  BY <1>1 DEF RemoveJob

\* The jobs a page holds are among those found.
LEMMA PageType == ASSUME NEW found, NEW n, NEW P \in Page(found, n) PROVE P \subseteq found
BY DEF Page

\* ... and so are those of a sorted page.
LEMMA OldestPageType ==
  ASSUME NEW found, NEW n, NEW time, NEW P \in OldestPage(found, n, time)
  PROVE  P \subseteq found
BY DEF OldestPage, Page

\* A step of watch() keeps every variable in its type.
LEMMA WatchTypes ==
  ASSUME TypeOK, NEW w \in Schedulers, WatchNext(w)
  PROVE  TypeOK'
<1> USE DEF TypeOK
<1>0. ApiTypeOK' /\ ConsumerTypeOK'
  BY DEF WatchNext, ApiTypeOK, ConsumerTypeOK
<1>k. /\ db \in [Jobs -> Job] /\ delayQueue \in [Jobs -> Time]
      /\ now \in Time /\ work \in [Schedulers -> Work] /\ WorkTypeOK
  BY DEF StoreTypeOK, Clock, Time, WorkTypeOK
<1>r. \A j \in Jobs : work[w].batch[j].at \in Time /\ work[w].batch[j].next \in Time
  BY <1>k DEF Work, Job
<1>u. ASSUME UNCHANGED storeVars PROVE StoreTypeOK'
  BY <1>u DEF StoreTypeOK, storeVars, redisVars, kafkaVars
<1>d. ASSUME db' \in [Jobs -> Job], UNCHANGED <<redisVars, kafkaVars, now, faults>>
      PROVE  StoreTypeOK'
  BY <1>d DEF StoreTypeOK, redisVars, kafkaVars
<1>q. ASSUME delayQueue' \in [Jobs -> Time],
             UNCHANGED <<db, cancelFlag, lastRun, kafkaVars, now, faults>>
      PROVE  StoreTypeOK'
  BY <1>q DEF StoreTypeOK, kafkaVars
<1>e. Later(now, WatchDelay) \in Time
  BY <1>k, LaterType, WatcherAssumption
<1>s. "SCHEDULED" \in JobStatus
  BY DEF JobStatus
<1>1. ASSUME WatchStart(w) PROVE TypeOK'
  <2>1. WorkTypeOK'
    BY <1>k, <1>1 DEF WatchStart, WorkTypeOK, Work, WorkPc
  <2> QED
    BY <1>0, <1>u, <1>1, <2>1 DEF WatchStart
<1>2. ASSUME Heartbeat(w) PROVE TypeOK'
  <2>1. WorkTypeOK'
    BY <1>k, <1>2, GotoType DEF Heartbeat, WorkPc
  <2>2. lastRun' \in Time
    BY <1>k, <1>2 DEF Heartbeat, Work
  <2> QED
    BY <1>0, <1>2, <2>1, <2>2 DEF Heartbeat, StoreTypeOK, kafkaVars
<1>3. ASSUME GapPublishFails(w) PROVE TypeOK'
  <2>1. WorkTypeOK'
    BY <1>k, <1>e, <1>3, ReturnType DEF GapPublishFails
  <2>2. faults' \in 0 .. MaxFaults
    BY <1>3, StoreAssumption DEF GapPublishFails, Fault, StoreTypeOK
  <2> QED
    BY <1>0, <1>3, <2>1, <2>2 DEF GapPublishFails, StoreTypeOK, redisVars, kafkaVars
<1>4. ASSUME RecoverQuery(w) PROVE TypeOK'
  <2>1. PICK S \in Page(FindPendingOrScheduledInRange(work[w].clock - RecoveryWindow, work[w].clock),
                         RecoverPage) : Fetch(w, "recoverAdd", S)
    BY <1>4 DEF RecoverQuery
  <2>2. S \in SUBSET Jobs
    BY PageType DEF FindPendingOrScheduledInRange
  <2>3. WorkTypeOK'
    BY <1>k, <2>1, <2>2, FetchType DEF WorkPc
  <2> QED
    BY <1>0, <1>u, <1>4, <2>3 DEF RecoverQuery
<1>5. ASSUME RecoverAdd(w) PROVE TypeOK'
  <2>1. PICK j \in work[w].todo :
          /\ ScheduleJob(j, work[w].batch[j].at)
          /\ IF work[w].batch[j].status = "PENDING"
               THEN Take(w, "recoverSave", j) ELSE Finish(w, "recoverAdd", j)
    BY <1>5 DEF RecoverAdd
  <2>2. j \in Jobs
    BY <1>k DEF Work
  <2>3. WorkTypeOK'
    BY <1>k, <2>1, <2>2, TakeType, FinishType DEF WorkPc
  <2>4. delayQueue' \in [Jobs -> Time]
    BY <1>k, <1>r, <2>1, <2>2, ScheduleType
  <2> QED
    BY <1>0, <1>q, <1>5, <2>3, <2>4 DEF RecoverAdd
<1>6. ASSUME RecoverSave(w) PROVE TypeOK'
  <2>1. WorkTypeOK'
    BY <1>k, <1>6, FinishType DEF RecoverSave, WorkPc
  <2>2. db' \in [Jobs -> Job]
    BY <1>k, <1>s, <1>6, SaveAsType DEF RecoverSave
  <2> QED
    BY <1>0, <1>d, <1>6, <2>1, <2>2 DEF RecoverSave
<1>7. ASSUME RecoverRetryQuery(w) PROVE TypeOK'
  <2>1. PICK S \in Page(FindRetryInRange(work[w].clock - RecoveryWindow, work[w].clock),
                         RecoverPage) : Fetch(w, "recoverRetryAdd", S)
    BY <1>7 DEF RecoverRetryQuery
  <2>2. S \in SUBSET Jobs
    BY PageType DEF FindRetryInRange, FindRetryWindow
  <2>3. WorkTypeOK'
    BY <1>k, <2>1, <2>2, FetchType DEF WorkPc
  <2> QED
    BY <1>0, <1>u, <1>7, <2>3 DEF RecoverRetryQuery
<1>8. ASSUME RecoverRetryAdd(w) PROVE TypeOK'
  <2>1. PICK j \in work[w].todo :
          ScheduleJob(j, work[w].batch[j].next) /\ Take(w, "recoverRetrySave", j)
    BY <1>8 DEF RecoverRetryAdd
  <2>2. j \in Jobs
    BY <1>k DEF Work
  <2>3. WorkTypeOK'
    BY <1>k, <2>1, <2>2, TakeType DEF WorkPc
  <2>4. delayQueue' \in [Jobs -> Time]
    BY <1>k, <1>r, <2>1, <2>2, ScheduleType
  <2> QED
    BY <1>0, <1>q, <1>8, <2>3, <2>4 DEF RecoverRetryAdd
<1>9. ASSUME RecoverRetrySave(w) PROVE TypeOK'
  <2>1. WorkTypeOK'
    BY <1>k, <1>9, FinishType DEF RecoverRetrySave, WorkPc
  <2>2. db' \in [Jobs -> Job]
    BY <1>k, <1>s, <1>9, SaveAsType DEF RecoverRetrySave
  <2> QED
    BY <1>0, <1>d, <1>9, <2>1, <2>2 DEF RecoverRetrySave
<1>10. ASSUME PendingQuery(w) PROVE TypeOK'
  <2>1. PICK S \in OldestPage(FindWindow(Null, Later(work[w].clock, Lookahead)), WatchPage,
                               ScheduleTimes(db)) : Fetch(w, "pendingSave", S)
    BY <1>10 DEF PendingQuery
  <2>2. S \in SUBSET Jobs
    BY OldestPageType DEF FindWindow
  <2>3. WorkTypeOK'
    BY <1>k, <2>1, <2>2, FetchType DEF WorkPc
  <2> QED
    BY <1>0, <1>u, <1>10, <2>3 DEF PendingQuery
<1>11. ASSUME PendingSave(w) PROVE TypeOK'
  <2>1. PICK j \in Earliest(w, ScheduleTimes(work[w].batch)) :
          SaveAs(w, j, "SCHEDULED") /\ Take(w, "pendingAdd", j)
    BY <1>11 DEF PendingSave
  <2>2. j \in Jobs
    BY <1>k DEF Work, Earliest
  <2>3. WorkTypeOK'
    BY <1>k, <2>1, <2>2, TakeType DEF WorkPc
  <2>4. db' \in [Jobs -> Job]
    BY <1>k, <1>s, <2>1, SaveAsType
  <2> QED
    BY <1>0, <1>d, <1>11, <2>3, <2>4 DEF PendingSave
<1>12. ASSUME PendingAdd(w) PROVE TypeOK'
  <2>1. WorkTypeOK'
    BY <1>k, <1>12, FinishType DEF PendingAdd, WorkPc
  <2>2. delayQueue' \in [Jobs -> Time]
    BY <1>k, <1>r, <1>12, ScheduleType DEF PendingAdd
  <2> QED
    BY <1>0, <1>q, <1>12, <2>1, <2>2 DEF PendingAdd
<1>13. ASSUME RetryQuery(w) PROVE TypeOK'
  <2>1. PICK S \in OldestPage(FindRetryWindow(Null, Later(work[w].clock, Lookahead)), WatchPage,
                               NextRetryTimes(db)) : Fetch(w, "retrySave", S)
    BY <1>13 DEF RetryQuery
  <2>2. S \in SUBSET Jobs
    BY OldestPageType DEF FindRetryWindow
  <2>3. WorkTypeOK'
    BY <1>k, <2>1, <2>2, FetchType DEF WorkPc
  <2> QED
    BY <1>0, <1>u, <1>13, <2>3 DEF RetryQuery
<1>14. ASSUME RetrySave(w) PROVE TypeOK'
  <2>1. PICK j \in Earliest(w, NextRetryTimes(work[w].batch)) :
          SaveAs(w, j, "SCHEDULED") /\ Take(w, "retryAdd", j)
    BY <1>14 DEF RetrySave
  <2>2. j \in Jobs
    BY <1>k DEF Work, Earliest
  <2>3. WorkTypeOK'
    BY <1>k, <2>1, <2>2, TakeType DEF WorkPc
  <2>4. db' \in [Jobs -> Job]
    BY <1>k, <1>s, <2>1, SaveAsType
  <2> QED
    BY <1>0, <1>d, <1>14, <2>3, <2>4 DEF RetrySave
<1>15. ASSUME RetryAdd(w) PROVE TypeOK'
  <2>1. WorkTypeOK'
    BY <1>k, <1>15, FinishType DEF RetryAdd, WorkPc
  <2>2. delayQueue' \in [Jobs -> Time]
    BY <1>k, <1>r, <1>15, ScheduleType DEF RetryAdd, RetryScore
  <2> QED
    BY <1>0, <1>q, <1>15, <2>1, <2>2 DEF RetryAdd
<1>16. ASSUME WatchEnd(w) PROVE TypeOK'
  <2>1. WorkTypeOK'
    BY <1>k, <1>e, <1>16, ReturnType DEF WatchEnd
  <2> QED
    BY <1>0, <1>u, <1>16, <2>1 DEF WatchEnd
<1> QED
  BY <1>1, <1>2, <1>3, <1>4, <1>5, <1>6, <1>7, <1>8, <1>9, <1>10, <1>11, <1>12, <1>13,
     <1>14, <1>15, <1>16 DEF WatchNext, WatchStep

\* Going on to the next job of a poll keeps the thread well formed.
LEMMA DispatchNextType ==
  ASSUME WorkTypeOK, NEW w \in Schedulers, DispatchNext(w)
  PROVE  WorkTypeOK'
<1>1. work[w].due \in Time
  BY DEF WorkTypeOK, Work
<1> QED
  BY <1>1, FinishType, ReturnType DEF DispatchNext, WorkPc

\* A step of dispatch() keeps every variable in its type.
LEMMA DispatchTypes ==
  ASSUME TypeOK, HandOK, NEW w \in Schedulers, DispatchNow(w)
  PROVE  TypeOK'
<1> USE DEF TypeOK
<1>0. ApiTypeOK' /\ ConsumerTypeOK'
  BY DEF DispatchNow, ApiTypeOK, ConsumerTypeOK
<1>k. /\ db \in [Jobs -> Job] /\ delayQueue \in [Jobs -> Time]
      /\ now \in Time /\ work \in [Schedulers -> Work] /\ WorkTypeOK
  BY DEF StoreTypeOK, Clock, Time, WorkTypeOK
<1>q. ASSUME delayQueue' \in [Jobs -> Time],
             UNCHANGED <<db, cancelFlag, lastRun, kafkaVars, now, faults>>
      PROVE  StoreTypeOK'
  BY <1>q DEF StoreTypeOK, kafkaVars
<1>1. ASSUME DispatchStart(w) PROVE TypeOK'
  <2>1. GetReadyJobs(now) \in SUBSET Jobs
    BY DEF GetReadyJobs
  <2>2. [work[w] EXCEPT !.pc = "load", !.todo = GetReadyJobs(now), !.clock = now] \in Work
    BY <1>k, <2>1 DEF Work, WorkPc
  <2>3. WorkTypeOK'
    BY <1>k, <1>1, <2>2 DEF DispatchStart, WorkTypeOK
  <2> QED
    BY <1>0, <1>1, <2>3 DEF DispatchStart, StoreTypeOK, storeVars, redisVars, kafkaVars
<1>2. ASSUME DispatchLoad(w) PROVE TypeOK'
  <2>1. PICK j \in work[w].todo :
          work' = [work EXCEPT ![w].pc = IF db[j].status = "SCHEDULED" THEN "claim" ELSE "drop",
                               ![w].cur = j, ![w].batch = [@ EXCEPT ![j] = db[j]]]
    BY <1>2 DEF DispatchLoad
  <2>2. j \in Jobs /\ work[w].todo \in SUBSET Jobs /\ work[w].batch \in [Jobs -> Job]
    BY <1>k DEF Work
  <2>3. [work[w].batch EXCEPT ![j] = db[j]] \in [Jobs -> Job]
    BY <1>k, <2>2
  <2>4. ASSUME NEW pc \in WorkPc, NEW B \in [Jobs -> Job]
        PROVE  [work[w] EXCEPT !.pc = pc, !.cur = j, !.batch = B] \in Work
    BY <1>k, <2>2 DEF Work
  <2>5. (IF db[j].status = "SCHEDULED" THEN "claim" ELSE "drop") \in WorkPc
    BY DEF WorkPc
  <2>6. [work[w] EXCEPT !.pc = IF db[j].status = "SCHEDULED" THEN "claim" ELSE "drop",
                        !.cur = j, !.batch = [work[w].batch EXCEPT ![j] = db[j]]] \in Work
    BY <2>3, <2>4, <2>5
  <2>7. WorkTypeOK'
    BY <1>k, <2>1, <2>6 DEF WorkTypeOK
  <2> QED
    BY <1>0, <1>2, <2>7 DEF DispatchLoad, StoreTypeOK, storeVars, redisVars, kafkaVars
<1>3. ASSUME DispatchDrop(w) PROVE TypeOK'
  <2>1. WorkTypeOK' /\ delayQueue' \in [Jobs -> Time]
    BY <1>k, <1>3, DispatchNextType, RemoveType DEF DispatchDrop
  <2> QED
    BY <1>0, <1>q, <1>3, <2>1 DEF DispatchDrop
<1>4. ASSUME DispatchClaim(w) PROVE TypeOK'
  <2>1. WorkTypeOK'
    BY <1>k, <1>4, GotoType DEF DispatchClaim, WorkPc
  <2>2. db' \in [Jobs -> Job]
    BY <1>k, <1>4, SaveAsType DEF DispatchClaim, JobStatus
  <2> QED
    BY <1>0, <1>4, <2>1, <2>2 DEF DispatchClaim, StoreTypeOK, redisVars, kafkaVars
<1>5. ASSUME DispatchPublish(w) PROVE TypeOK'
  <2>1. WorkTypeOK'
    BY <1>k, <1>5, GotoType DEF DispatchPublish, WorkPc
  <2>2. inbox' \in [Partitions -> Seq(Jobs)] /\ faults' \in 0 .. MaxFaults
    <3>1. work[w].cur \in Jobs
      BY <1>k, <1>5 DEF DispatchPublish, HandOK, Holding, Work
    <3> QED
      BY <1>5, <3>1, SendType DEF DispatchPublish, SendOrThrow, StoreTypeOK
  <2> QED
    BY <1>0, <1>5, <2>1, <2>2 DEF DispatchPublish, StoreTypeOK, redisVars
<1>6. ASSUME DispatchSendThrows(w) PROVE TypeOK'
  <2>1. WorkTypeOK'
    BY <1>k, <1>6, DispatchNextType DEF DispatchSendThrows
  <2>2. faults' \in 0 .. MaxFaults
    BY <1>6, StoreAssumption DEF DispatchSendThrows, Fault, StoreTypeOK
  <2> QED
    BY <1>0, <1>6, <2>1, <2>2 DEF DispatchSendThrows, StoreTypeOK, redisVars, kafkaVars
<1>7. ASSUME DispatchRemove(w) PROVE TypeOK'
  <2>1. WorkTypeOK' /\ delayQueue' \in [Jobs -> Time]
    BY <1>k, <1>7, DispatchNextType, RemoveType DEF DispatchRemove
  <2> QED
    BY <1>0, <1>q, <1>7, <2>1 DEF DispatchRemove
<1> QED
  BY <1>1, <1>2, <1>3, <1>4, <1>5, <1>6, <1>7 DEF DispatchNow, DispatchStep

\* A step of consume() keeps every variable in its type.
LEMMA ConsumeTypes ==
  ASSUME TypeOK, NEW c \in Consumers, ConsumeNext(c)
  PROVE  TypeOK'
<1> USE DEF TypeOK
<1>0. ApiTypeOK' /\ WorkTypeOK'
  BY DEF ConsumeNext, ApiTypeOK, WorkTypeOK
<1>k. /\ db \in [Jobs -> Job] /\ now \in Time
      /\ task \in [Consumers -> Task] /\ circuit \in [Instances -> [Types -> Circuit]]
  BY DEF StoreTypeOK, Clock, Time, ConsumerTypeOK
<1>t. task[c].entity \in Job /\ task[c].started \in Time /\ task[c].job \in Jobs \cup {NoJob}
  BY <1>k DEF Task
\* The pieces the actions are made of.
<1>e. ASSUME NEW s \in Stage, Enter(c, s) PROVE task' \in [Consumers -> Task]
  BY <1>k, <1>e DEF Enter, Task
<1>f. ASSUME Done(c) PROVE task' \in [Consumers -> Task]
  BY <1>k, <1>f, IdleTaskType DEF Done
<1>s. ASSUME NEW row \in Job, SaveEntity(c, row) PROVE db' \in [Jobs -> Job]
  BY <1>k, <1>s, SaveType DEF SaveEntity
<1>h. TypeOf[task[c].job] \in Types => CircuitOf(c) \in Circuit
  BY <1>k, ConsumerAssumption DEF CircuitOf
<1>c. ASSUME NEW value, TypeOf[task[c].job] \in Types => value \in Circuit, SetCircuit(c, value)
      PROVE  circuit' \in [Instances -> [Types -> Circuit]]
  <2>1. [circuit[HostOf[c]] EXCEPT ![TypeOf[task[c].job]] = value] \in [Types -> Circuit]
    BY <1>k, <1>c, ConsumerAssumption
  <2> QED
    BY <1>k, <1>c, <2>1 DEF SetCircuit
<1>u. ASSUME UNCHANGED storeVars PROVE StoreTypeOK'
  BY <1>u DEF StoreTypeOK, storeVars, redisVars, kafkaVars
<1>d. ASSUME db' \in [Jobs -> Job], UNCHANGED <<redisVars, kafkaVars, now, faults>>
      PROVE  StoreTypeOK'
  BY <1>d DEF StoreTypeOK, redisVars, kafkaVars
<1>1. ASSUME NEW p \in Partitions, Receive(c, p) PROVE TypeOK'
  <2>1. Head(inbox[p]) \in Jobs /\ Tail(inbox[p]) \in Seq(Jobs)
    BY <1>1 DEF Receive, StoreTypeOK
  <2>2. inbox' \in [Partitions -> Seq(Jobs)] /\ unacked' \in [Partitions -> Seq(Jobs)]
    BY <1>1, <2>1 DEF Receive, StoreTypeOK
  <2>3. [task[c] EXCEPT !.stage = "loaded", !.job = Head(inbox[p]),
                        !.entity = db[Head(inbox[p])]] \in Task
    BY <1>k, <2>1 DEF Task, Stage
  <2>4. task' \in [Consumers -> Task]
    BY <1>k, <1>1, <2>3 DEF Receive
  <2> QED
    BY <1>0, <1>1, <2>2, <2>4 DEF Receive, StoreTypeOK, ConsumerTypeOK, redisVars
<1>2. ASSUME CheckCancelled(c) PROVE TypeOK'
  <2>1. [task[c] EXCEPT !.stage = "gate", !.started = now] \in Task
    BY <1>k DEF Task, Stage
  <2>2. task' \in [Consumers -> Task]
    BY <1>k, <1>e, <1>2, <2>1 DEF CheckCancelled, Stage
  <2> QED
    BY <1>0, <1>u, <1>2, <2>2 DEF CheckCancelled, ConsumerTypeOK
<1>3. ASSUME SaveCancelled(c) PROVE TypeOK'
  <2>1. db' \in [Jobs -> Job]
    BY <1>t, <1>s, <1>3, WithStatusType DEF SaveCancelled, JobStatus
  <2>2. task' \in [Consumers -> Task]
    BY <1>e, <1>3 DEF SaveCancelled, Stage
  <2> QED
    BY <1>0, <1>d, <1>3, <2>1, <2>2 DEF SaveCancelled, ConsumerTypeOK
<1>4. ASSUME ClearCancellation(c) PROVE TypeOK'
  <2>1. cancelFlag' \in [Jobs -> 0 .. Never]
    <3>1. Null \in 0 .. Never
      BY StoreAssumption DEF Never, Null
    <3>2. cancelFlag \in [Jobs -> 0 .. Never]
      BY DEF StoreTypeOK
    <3> QED
      BY <1>4, <3>1, <3>2 DEF ClearCancellation, ClearCancelFlag
  <2>2. task' \in [Consumers -> Task]
    BY <1>f, <1>4 DEF ClearCancellation
  <2> QED
    BY <1>0, <1>4, <2>1, <2>2 DEF ClearCancellation, StoreTypeOK, ConsumerTypeOK, kafkaVars
<1>5. ASSUME RateGate(c) PROVE TypeOK'
  <2>1. task' \in [Consumers -> Task]
    BY <1>e, <1>5 DEF RateGate, Stage
  <2> QED
    BY <1>0, <1>u, <1>5, <2>1 DEF RateGate, ConsumerTypeOK
<1>6. ASSUME DeferLimited(c) PROVE TypeOK'
  <2>1. db' \in [Jobs -> Job]
    BY <1>k, <1>t, <1>s, <1>6, LaterType, DeferredType, ConsumerAssumption DEF DeferLimited
  <2>2. task' \in [Consumers -> Task]
    BY <1>f, <1>6 DEF DeferLimited
  <2> QED
    BY <1>0, <1>d, <1>6, <2>1, <2>2 DEF DeferLimited, ConsumerTypeOK
<1>7. ASSUME CircuitGate(c) PROVE TypeOK'
  <2>1. task' \in [Consumers -> Task]
    BY <1>e, <1>7 DEF CircuitGate, Stage
  <2> QED
    BY <1>0, <1>u, <1>7, <2>1 DEF CircuitGate, ConsumerTypeOK
<1>8. ASSUME DeferTripped(c) PROVE TypeOK'
  <2>1. db' \in [Jobs -> Job]
    BY <1>t, <1>s, <1>8, LaterType, DeferredType, ConsumerAssumption DEF DeferTripped
  <2>2. task' \in [Consumers -> Task]
    BY <1>f, <1>8 DEF DeferTripped
  <2> QED
    BY <1>0, <1>d, <1>8, <2>1, <2>2 DEF DeferTripped, ConsumerTypeOK
<1>9. ASSUME HalfOpen(c) PROVE TypeOK'
  <2>1. circuit' \in [Instances -> [Types -> Circuit]]
    <3>1. TypeOf[task[c].job] \in Types => [CircuitOf(c) EXCEPT !.open = FALSE] \in Circuit
      BY <1>h DEF Circuit
    <3> QED
      BY <1>c, <1>9, <3>1 DEF HalfOpen
  <2>2. task' \in [Consumers -> Task]
    BY <1>e, <1>9 DEF HalfOpen, Stage
  <2> QED
    BY <1>0, <1>u, <1>9, <2>1, <2>2 DEF HalfOpen, ConsumerTypeOK
<1>10. ASSUME Admit(c) PROVE TypeOK'
  <2>1. db' \in [Jobs -> Job]
    BY <1>k, <1>t, <1>s, <1>10, WithStatusType DEF Admit, JobStatus
  <2>2. task' \in [Consumers -> Task]
    BY <1>e, <1>f, <1>10 DEF Admit, Stage
  <2> QED
    BY <1>0, <1>d, <1>10, <2>1, <2>2 DEF Admit, ConsumerTypeOK
<1>11. ASSUME Execute(c) PROVE TypeOK'
  <2>1. task' \in [Consumers -> Task]
    BY <1>e, <1>11 DEF Execute, Stage
  <2> QED
    BY <1>0, <1>u, <1>11, <2>1 DEF Execute, ConsumerTypeOK
<1>12. ASSUME SaveCompleted(c) PROVE TypeOK'
  <2>1. db' \in [Jobs -> Job]
    BY <1>t, <1>s, <1>12, WithStatusType DEF SaveCompleted, JobStatus
  <2>2. task' \in [Consumers -> Task]
    BY <1>e, <1>12 DEF SaveCompleted, Stage
  <2> QED
    BY <1>0, <1>d, <1>12, <2>1, <2>2 DEF SaveCompleted, ConsumerTypeOK
<1>13. ASSUME ResetFailures(c) PROVE TypeOK'
  <2>1. circuit' \in [Instances -> [Types -> Circuit]]
    <3>1. TypeOf[task[c].job] \in Types => [CircuitOf(c) EXCEPT !.failures = 0] \in Circuit
      BY <1>h, ConsumerAssumption DEF Circuit
    <3> QED
      BY <1>c, <1>13, <3>1 DEF ResetFailures
  <2>2. task' \in [Consumers -> Task]
    BY <1>f, <1>13 DEF ResetFailures
  <2> QED
    BY <1>0, <1>u, <1>13, <2>1, <2>2 DEF ResetFailures, ConsumerTypeOK
<1>14. ASSUME CountFailure(c) PROVE TypeOK'
  <2>1. TypeOf[task[c].job] \in Types => Failed(CircuitOf(c), task[c].started) \in Circuit
    BY <1>t, <1>h, FailedType
  <2>2. circuit' \in [Instances -> [Types -> Circuit]]
    BY <1>c, <1>14, <2>1 DEF CountFailure
  <2>3. task' \in [Consumers -> Task]
    BY <1>e, <1>14 DEF CountFailure, Stage
  <2> QED
    BY <1>0, <1>u, <1>14, <2>2, <2>3 DEF CountFailure, ConsumerTypeOK
<1>15. ASSUME SaveFailed(c) PROVE TypeOK'
  <2>1. (IF Exhausted(task[c].entity) THEN WithStatus(task[c].entity, "FAILED")
         ELSE Retried(task[c].entity, task[c].started)) \in Job
    BY <1>t, WithStatusType, RetriedType DEF JobStatus
  <2>2. db' \in [Jobs -> Job]
    BY <1>s, <1>15, <2>1 DEF SaveFailed
  <2>3. task' \in [Consumers -> Task]
    BY <1>f, <1>15 DEF SaveFailed
  <2> QED
    BY <1>0, <1>d, <1>15, <2>2, <2>3 DEF SaveFailed, ConsumerTypeOK
<1>16. ASSUME AttemptThrows(c) PROVE TypeOK'
  <2>1. task' \in [Consumers -> Task]
    BY <1>e, <1>16 DEF AttemptThrows, Stage
  <2>2. StoreTypeOK'
    BY <1>16, StoreAssumption DEF AttemptThrows, Fault, StoreTypeOK, redisVars, kafkaVars
  <2> QED
    BY <1>0, <1>16, <2>1, <2>2 DEF AttemptThrows, ConsumerTypeOK
<1>17. ASSUME ConsumeThrows(c) PROVE TypeOK'
  <2>1. task' \in [Consumers -> Task]
    BY <1>f, <1>17 DEF ConsumeThrows
  <2>2. inbox' \in [Partitions -> Seq(Jobs)] /\ unacked' \in [Partitions -> Seq(Jobs)]
    BY <1>k, <1>17, GiveBackType DEF ConsumeThrows, StoreTypeOK
  <2>3. StoreTypeOK'
    BY <1>17, <2>2, StoreAssumption DEF ConsumeThrows, Fault, StoreTypeOK, redisVars
  <2> QED
    BY <1>0, <1>17, <2>1, <2>3 DEF ConsumeThrows, ConsumerTypeOK
<1> QED
  BY <1>1, <1>2, <1>3, <1>4, <1>5, <1>6, <1>7, <1>8, <1>9, <1>10, <1>11, <1>12, <1>13,
     <1>14, <1>15, <1>16, <1>17 DEF ConsumeNext, ConsumeStep

\* A step of the environment, or a commit, keeps every variable in its type.
LEMMA EnvironmentTypes ==
  ASSUME TypeOK, EnvironmentNext \/ \E p \in Partitions : CommitNext(p)
  PROVE  TypeOK'
<1> USE DEF TypeOK
<1>1. ASSUME Tick PROVE TypeOK'
  <2>1. now' \in Clock
    BY <1>1, StoreAssumption DEF Tick, StoreTypeOK, Clock
  <2>2. cancelFlag' \in [Jobs -> 0 .. Never]
    BY <1>1, StoreAssumption DEF Tick, Expire, StoreTypeOK, Null, Never
  <2> QED
    BY <1>1, <2>1, <2>2 DEF Tick, StoreTypeOK, ApiTypeOK, WorkTypeOK, ConsumerTypeOK, kafkaVars
<1>2. ASSUME NEW i \in Instances, Crash(i) PROVE TypeOK'
  <2>1. inbox' \in [Partitions -> Seq(Jobs)] /\ unacked' \in [Partitions -> Seq(Jobs)]
    BY <1>2, RewindType DEF Crash, StoreTypeOK
  <2>2. faults' \in 0 .. MaxFaults
    BY <1>2, StoreAssumption DEF Crash, Fault, StoreTypeOK
  <2>3. StoreTypeOK'
    BY <1>2, <2>1, <2>2 DEF Crash, StoreTypeOK, redisVars
  <2>4. ApiTypeOK'
    BY <1>2 DEF Crash, ApiTypeOK
  <2>5. WorkTypeOK'
    <3>1. Null \in Time
      BY StoreAssumption DEF Null, Time
    <3> QED
      BY <1>2, <3>1, IdleWorkType DEF Crash, WorkTypeOK
  <2>6. ConsumerTypeOK'
    <3>1. task' \in [Consumers -> Task]
      BY <1>2, IdleTaskType DEF Crash, ConsumerTypeOK
    <3>2. circuit' \in [Instances -> [Types -> Circuit]]
      BY <1>2, ClosedCircuitType DEF Crash, ConsumerTypeOK
    <3> QED
      BY <3>1, <3>2 DEF ConsumerTypeOK
  <2> QED
    BY <2>3, <2>4, <2>5, <2>6
<1>3. ASSUME NEW p \in Partitions, NEW c \in Consumers, Rebalance(p, c) PROVE TypeOK'
  <2>1. inbox' \in [Partitions -> Seq(Jobs)] /\ unacked' \in [Partitions -> Seq(Jobs)]
    BY <1>3, RewindType DEF Rebalance, StoreTypeOK
  <2>2. faults' \in 0 .. MaxFaults
    BY <1>3, StoreAssumption DEF Rebalance, Fault, StoreTypeOK
  <2>3. owner' \in [Partitions -> Consumers]
    BY <1>3 DEF Rebalance, StoreTypeOK
  <2> QED
    BY <1>3, <2>1, <2>2, <2>3
       DEF Rebalance, StoreTypeOK, ApiTypeOK, WorkTypeOK, ConsumerTypeOK, redisVars
<1>4. ASSUME RedisLoss PROVE TypeOK'
  <2>1. Null \in Time /\ Null \in 0 .. Never
    BY StoreAssumption DEF Null, Time, Never
  <2>2. faults' \in 0 .. MaxFaults
    BY <1>4, StoreAssumption DEF RedisLoss, Fault, StoreTypeOK
  <2> QED
    BY <1>4, <2>1, <2>2
       DEF RedisLoss, StoreTypeOK, ApiTypeOK, WorkTypeOK, ConsumerTypeOK, kafkaVars
<1>5. ASSUME NEW p \in Partitions, CommitNext(p) PROVE TypeOK'
  <2>1. unacked' \in [Partitions -> Seq(Jobs)]
    BY <1>5 DEF CommitNext, Commit, StoreTypeOK
  <2> QED
    BY <1>5, <2>1
       DEF CommitNext, Commit, StoreTypeOK, ApiTypeOK, WorkTypeOK, ConsumerTypeOK, redisVars
<1> QED
  BY <1>1, <1>2, <1>3, <1>4, <1>5 DEF EnvironmentNext

-----------------------------------------------------------------------------
(* The job in hand is on the thread's list.                                *)

\* A step of watch() has in hand only what is on its list.
LEMMA WatchHand ==
  ASSUME TypeOK, HandOK, NEW w \in Schedulers, WatchNext(w)
  PROVE  HandOK'
<1>k. work \in [Schedulers -> Work]
  BY DEF TypeOK, WorkTypeOK
<1>r. ASSUME NEW t, Return(w, t) PROVE HandOK'
  BY <1>k, <1>r DEF HandOK, Holding, Return, IdleWork
<1>f. ASSUME NEW pc \in {"recoverAdd", "recoverRetryAdd", "pendingSave", "retrySave", "pending"},
             NEW S, Fetch(w, pc, S)
      PROVE  HandOK'
  BY <1>k, <1>f DEF HandOK, Holding, Fetch
<1>t. ASSUME NEW pc, NEW j \in work[w].todo, Take(w, pc, j) PROVE HandOK'
  BY <1>k, <1>t DEF HandOK, Take, Work
<1>n. ASSUME NEW pc \in {"recoverAdd", "recoverRetryAdd", "pendingSave", "retrySave"},
             NEW j, Finish(w, pc, j)
      PROVE  HandOK'
  BY <1>k, <1>n DEF HandOK, Holding, Finish
<1>1. ASSUME WatchStart(w) PROVE HandOK'
  BY <1>k, <1>1 DEF HandOK, Holding, WatchStart
<1>2. ASSUME Heartbeat(w) PROVE HandOK'
  BY <1>k, <1>2 DEF HandOK, Holding, Heartbeat, Goto
<1>3. ASSUME GapPublishFails(w) \/ WatchEnd(w) PROVE HandOK'
  BY <1>r, <1>3 DEF GapPublishFails, WatchEnd
<1>4. ASSUME RecoverQuery(w) \/ RecoverRetryQuery(w) \/ PendingQuery(w) \/ RetryQuery(w)
      PROVE  HandOK'
  BY <1>f, <1>4 DEF RecoverQuery, RecoverRetryQuery, PendingQuery, RetryQuery
<1>5. ASSUME RecoverAdd(w) PROVE HandOK'
  BY <1>t, <1>n, <1>5 DEF RecoverAdd
<1>6. ASSUME RecoverRetryAdd(w) \/ PendingSave(w) \/ RetrySave(w) PROVE HandOK'
  BY <1>t, <1>6 DEF RecoverRetryAdd, PendingSave, RetrySave, Earliest
<1>7. ASSUME RecoverSave(w) \/ RecoverRetrySave(w) \/ PendingAdd(w) \/ RetryAdd(w)
      PROVE  HandOK'
  BY <1>n, <1>7 DEF RecoverSave, RecoverRetrySave, PendingAdd, RetryAdd
<1> QED
  BY <1>1, <1>2, <1>3, <1>4, <1>5, <1>6, <1>7 DEF WatchNext, WatchStep

\* A step of dispatch() has in hand only what is on its list.
LEMMA DispatchHand ==
  ASSUME TypeOK, HandOK, NEW w \in Schedulers, DispatchNow(w)
  PROVE  HandOK'
<1>k. work \in [Schedulers -> Work]
  BY DEF TypeOK, WorkTypeOK
<1>n. ASSUME DispatchNext(w) PROVE HandOK'
  <2>1. ASSUME NEW due, Return(w, due) PROVE HandOK'
    BY <1>k, <2>1 DEF HandOK, Holding, Return, IdleWork
  <2>2. ASSUME NEW j, Finish(w, "load", j) PROVE HandOK'
    BY <1>k, <2>2 DEF HandOK, Holding, Finish
  <2> QED
    BY <1>n, <2>1, <2>2 DEF DispatchNext
<1>1. ASSUME DispatchStart(w) PROVE HandOK'
  BY <1>k, <1>1 DEF HandOK, Holding, DispatchStart
<1>2. ASSUME DispatchLoad(w) PROVE HandOK'
  BY <1>k, <1>2 DEF HandOK, Holding, DispatchLoad, Work
<1>3. ASSUME DispatchDrop(w) \/ DispatchSendThrows(w) \/ DispatchRemove(w) PROVE HandOK'
  BY <1>n, <1>3 DEF DispatchDrop, DispatchSendThrows, DispatchRemove
<1>4. ASSUME DispatchClaim(w) \/ DispatchPublish(w) PROVE HandOK'
  BY <1>k, <1>4 DEF HandOK, Holding, DispatchClaim, DispatchPublish, Goto, Work
<1> QED
  BY <1>1, <1>2, <1>3, <1>4 DEF DispatchNow, DispatchStep

\* No other step touches what a scheduler thread has in hand, but by ending it.
LEMMA OthersHand ==
  ASSUME TypeOK, HandOK,
         \/ \E j \in Jobs : ApiNext(j)
         \/ \E c \in Consumers : ConsumeNext(c)
         \/ \E p \in Partitions : CommitNext(p)
         \/ EnvironmentNext
  PROVE  HandOK'
<1>1. CASE UNCHANGED work
  BY <1>1 DEF HandOK
<1>2. CASE \E i \in Instances : Crash(i)
  BY <1>2 DEF HandOK, Holding, Crash, IdleWork
<1> QED
  BY <1>1, <1>2 DEF ApiNext, ConsumeNext, CommitNext, EnvironmentNext, Tick, Rebalance, RedisLoss

-----------------------------------------------------------------------------
\* Every variable keeps its type, whatever the threads, the clock and the
\* faults do: in particular retryCount never exceeds MAX_RETRY, no stale copy
\* or redelivery notwithstanding.  HandOK is needed because dispatch() sends
\* the job it has in hand.
THEOREM TypeCorrect == Spec => [](TypeOK /\ HandOK)
<1>1. Init => TypeOK /\ HandOK
  <2> SUFFICES ASSUME Init PROVE TypeOK /\ HandOK
    OBVIOUS
  <2>1. Null \in Time /\ Null \in 0 .. Never /\ 1 \in Clock /\ 0 \in 0 .. MaxFaults
    BY StoreAssumption DEF Null, Time, Never, Clock
  <2>2. StoreTypeOK
    BY <2>1, NoRowType, SystemAssumption DEF Init, StoreInit, StoreTypeOK
  <2>3. ApiTypeOK
    BY DEF Init, ApiInit, ApiTypeOK
  <2>4. WorkTypeOK
    BY <2>1, IdleWorkType DEF Init, WorkInit, WorkTypeOK
  <2>5. ConsumerTypeOK
    BY IdleTaskType, ClosedCircuitType DEF Init, ConsumerInit, ConsumerTypeOK
  <2>6. HandOK
    BY DEF Init, WorkInit, HandOK, Holding, IdleWork
  <2> QED
    BY <2>2, <2>3, <2>4, <2>5, <2>6 DEF TypeOK
<1>2. TypeOK /\ HandOK /\ [Next]_vars => (TypeOK /\ HandOK)'
  <2> SUFFICES ASSUME TypeOK, HandOK, [Next]_vars PROVE TypeOK' /\ HandOK'
    OBVIOUS
  <2>1. CASE \E j \in Jobs : ApiNext(j)
    BY <2>1, ApiTypes, OthersHand
  <2>2. CASE \E w \in Schedulers : WatchNext(w)
    BY <2>2, WatchTypes, WatchHand
  <2>3. CASE \E w \in Schedulers : DispatchNow(w)
    BY <2>3, DispatchTypes, DispatchHand
  <2>4. CASE \E c \in Consumers : ConsumeNext(c)
    BY <2>4, ConsumeTypes, OthersHand
  <2>5. CASE EnvironmentNext \/ \E p \in Partitions : CommitNext(p)
    BY <2>5, EnvironmentTypes, OthersHand
  <2>6. CASE UNCHANGED vars
    BY <2>6 DEF vars, TypeOK, StoreTypeOK, ApiTypeOK, WorkTypeOK, ConsumerTypeOK, HandOK
  <2> QED
    BY <2>1, <2>2, <2>3, <2>4, <2>5, <2>6 DEF Next
<1> QED
  BY <1>1, <1>2, PTL DEF Spec

-----------------------------------------------------------------------------
(* A SCHEDULED job is never lost from the delay queue.                     *)

\* What the scheduler thread w knows, when it is the only one.
Known(w) ==
  /\ work[w].pc \in {"drop", "publish", "remove"} => db[work[w].cur].status # "SCHEDULED"
  /\ work[w].pc \in {"recoverSave", "recoverRetrySave"} => delayQueue[work[w].cur] # Null
  /\ \A j \in work[w].todo :
       /\ work[w].pc \in {"recoverAdd", "recoverSave", "pendingSave", "pendingAdd"}
            => work[w].batch[j].at # Null
       /\ work[w].pc \in {"recoverRetryAdd", "recoverRetrySave", "retrySave", "retryAdd"}
            => work[w].batch[j].next # Null
  /\ \A j \in Jobs : db[j].status = "SCHEDULED" =>
       delayQueue[j] # Null \/ (work[w].cur = j /\ work[w].pc \in {"pendingAdd", "retryAdd"})

\* With one scheduler thread, ScheduledInv is what that thread knows.
LEMMA KnownIsInv ==
  ASSUME SoleScheduler, NEW w \in Schedulers, TypeOK, ScheduledInv
  PROVE  HandOK /\ Known(w)
<1>1. work[w].todo \subseteq Jobs
  BY DEF TypeOK, WorkTypeOK, Work
<1>2. \A j \in work[w].todo :
        /\ work[w].pc \in {"recoverAdd", "recoverSave", "pendingSave", "pendingAdd"}
             => work[w].batch[j].at # Null
        /\ work[w].pc \in {"recoverRetryAdd", "recoverRetrySave", "retrySave", "retryAdd"}
             => work[w].batch[j].next # Null
  BY <1>1 DEF ScheduledInv, ListedIsDated
<1>3. \A j \in Jobs : db[j].status = "SCHEDULED" =>
        delayQueue[j] # Null \/ (work[w].cur = j /\ work[w].pc \in {"pendingAdd", "retryAdd"})
  <2> SUFFICES ASSUME NEW j \in Jobs, db[j].status = "SCHEDULED", ~(delayQueue[j] # Null)
               PROVE  work[w].cur = j /\ work[w].pc \in {"pendingAdd", "retryAdd"}
    OBVIOUS
  <2>1. PICK v \in Schedulers : work[v].cur = j /\ work[v].pc \in {"pendingAdd", "retryAdd"}
    BY DEF ScheduledInv, ScheduledIsCarried, ScheduledCarried, InHand
  <2>2. v = w
    BY DEF SoleScheduler
  <2> QED
    BY <2>1, <2>2
<1> QED
  BY <1>2, <1>3 DEF ScheduledInv, TakenOutUnscheduled, RecoveredIsQueued, Known

\* ... and it suffices to establish that in the next state.
LEMMA KnownSuffices ==
  ASSUME SoleScheduler, NEW w \in Schedulers, HandOK', Known(w)'
  PROVE  ScheduledInv'
BY DEF SoleScheduler, ScheduledInv, TakenOutUnscheduled, RecoveredIsQueued, ListedIsDated,
       ScheduledIsCarried, ScheduledCarried, InHand, Known

\* Where a thread stands after it fetched entities.
LEMMA FetchMove ==
  ASSUME WorkTypeOK, NEW w \in Schedulers, NEW pc, NEW S, Fetch(w, pc, S)
  PROVE  /\ work'[w].pc = pc /\ work'[w].todo = S
         /\ work'[w].batch = [j \in Jobs |-> IF j \in S THEN db[j] ELSE NoRow]
BY DEF WorkTypeOK, Work, Fetch

\* Where a thread stands after it took a job in hand.
LEMMA TakeMove ==
  ASSUME WorkTypeOK, NEW w \in Schedulers, NEW pc, NEW j, Take(w, pc, j)
  PROVE  /\ work'[w].pc = pc /\ work'[w].cur = j
         /\ work'[w].todo = work[w].todo /\ work'[w].batch = work[w].batch
BY DEF WorkTypeOK, Work, Take

\* Where a thread stands after it finished a job of its list.
LEMMA FinishMove ==
  ASSUME WorkTypeOK, NEW w \in Schedulers, NEW pc, NEW j, Finish(w, pc, j)
  PROVE  /\ work'[w].pc = pc /\ work'[w].todo = work[w].todo \ {j}
         /\ work'[w].batch = [work[w].batch EXCEPT ![j] = NoRow]
BY DEF WorkTypeOK, Work, Finish

\* Where a thread stands after it moved on.
LEMMA GotoMove ==
  ASSUME WorkTypeOK, NEW w \in Schedulers, NEW pc, Goto(w, pc)
  PROVE  /\ work'[w].pc = pc /\ work'[w].cur = work[w].cur
         /\ work'[w].todo = work[w].todo /\ work'[w].batch = work[w].batch
BY DEF WorkTypeOK, Work, Goto

\* Where a thread stands after it left the method.
LEMMA ReturnMove ==
  ASSUME WorkTypeOK, NEW w \in Schedulers, NEW due, Return(w, due)
  PROVE  work'[w].pc = "idle" /\ work'[w].todo = {}
BY DEF WorkTypeOK, Work, Return, IdleWork

\* Finished with a job, the thread knows as much of the others on its list.
LEMMA FinishedList ==
  ASSUME WorkTypeOK, NEW w \in Schedulers, NEW pc, NEW j, Finish(w, pc, j)
  PROVE  \A k \in work'[w].todo : k \in work[w].todo /\ work'[w].batch[k] = work[w].batch[k]
<1>1. work[w].batch \in [Jobs -> Job] /\ work[w].todo \subseteq Jobs
  BY DEF WorkTypeOK, Work
<1>2. work'[w].todo = work[w].todo \ {j}
  BY FinishMove
<1>3. work'[w].batch = [work[w].batch EXCEPT ![j] = NoRow]
  BY FinishMove
<1> QED
  BY <1>1, <1>2, <1>3

\* A step that touches neither the delay queue nor the scheduler thread, and
\* makes no job SCHEDULED, changes nothing of what the thread knows.
LEMMA OthersKeep ==
  ASSUME SoleScheduler, TypeOK, ScheduledInv, UNCHANGED <<delayQueue, work>>,
         \A j \in Jobs : db'[j].status = "SCHEDULED" => db[j].status = "SCHEDULED"
  PROVE  ScheduledInv'
<1>1. HandOK'
  BY DEF ScheduledInv, HandOK
<1>2. RecoveredIsQueued' /\ ListedIsDated'
  BY DEF ScheduledInv, RecoveredIsQueued, ListedIsDated
<1>3. TakenOutUnscheduled'
  <2> SUFFICES ASSUME NEW w \in Schedulers, work[w].pc \in {"drop", "publish", "remove"}
               PROVE  db'[work[w].cur].status # "SCHEDULED"
    BY DEF TakenOutUnscheduled
  <2>1. work[w].cur \in Jobs
    BY DEF ScheduledInv, HandOK, Holding, TypeOK, WorkTypeOK, Work
  <2> QED
    BY <2>1 DEF ScheduledInv, TakenOutUnscheduled
<1>4. ScheduledIsCarried'
  BY DEF ScheduledInv, ScheduledIsCarried, ScheduledCarried, InHand
<1> QED
  BY <1>1, <1>2, <1>3, <1>4 DEF ScheduledInv

\* What the thread knows after a step of watch().
LEMMA WatchKnows ==
  ASSUME SoleScheduler, TypeOK, ScheduledInv, NEW w \in Schedulers, WatchNext(w)
  PROVE  Known(w)'
<1>k. /\ WorkTypeOK /\ db \in [Jobs -> Job] /\ delayQueue \in [Jobs -> Time]
      /\ work[w].todo \subseteq Jobs
  BY DEF TypeOK, StoreTypeOK, WorkTypeOK, Work
<1>h. HandOK /\ Known(w)
  BY KnownIsInv
<1>c. work[w].pc \in Holding => work[w].cur \in work[w].todo
  BY <1>h DEF HandOK
<1> USE DEF Known
<1>1. ASSUME WatchStart(w) PROVE Known(w)'
  <2>1. /\ work'[w].pc \in {"beat", "beatGap"}
        /\ work[w].pc = "idle"
    BY <1>k, <1>1 DEF WatchStart, WorkTypeOK, Work
  <2> QED
    BY <1>h, <1>1, <2>1 DEF WatchStart, storeVars, redisVars
<1>2. ASSUME Heartbeat(w) PROVE Known(w)'
  <2>1. work'[w].pc \in {"recover", "pending"}
    BY <1>k, <1>2, GotoMove DEF Heartbeat
  <2> QED
    BY <1>h, <1>2, <2>1 DEF Heartbeat
<1>3. ASSUME GapPublishFails(w) \/ WatchEnd(w) PROVE Known(w)'
  <2>1. work'[w].pc = "idle"
    BY <1>k, <1>3, ReturnMove DEF GapPublishFails, WatchEnd
  <2> QED
    BY <1>h, <1>3, <2>1 DEF GapPublishFails, WatchEnd, storeVars, redisVars
\* The queries: what they return is dated.
<1>4. ASSUME RecoverQuery(w) PROVE Known(w)'
  <2>1. PICK S \in Page(FindPendingOrScheduledInRange(work[w].clock - RecoveryWindow, work[w].clock),
                         RecoverPage) : Fetch(w, "recoverAdd", S)
    BY <1>4 DEF RecoverQuery
  <2>2. \A j \in S : j \in Jobs /\ db[j].at # Null
    BY PageType DEF FindPendingOrScheduledInRange, InRange
  <2>3. /\ work'[w].pc = "recoverAdd" /\ work'[w].todo = S
        /\ work'[w].batch = [j \in Jobs |-> IF j \in S THEN db[j] ELSE NoRow]
    BY <1>k, <2>1, FetchMove
  <2> QED
    BY <1>h, <1>4, <2>2, <2>3 DEF RecoverQuery, storeVars, redisVars
<1>5. ASSUME RecoverRetryQuery(w) PROVE Known(w)'
  <2>1. PICK S \in Page(FindRetryInRange(work[w].clock - RecoveryWindow, work[w].clock),
                         RecoverPage) : Fetch(w, "recoverRetryAdd", S)
    BY <1>5 DEF RecoverRetryQuery
  <2>2. \A j \in S : j \in Jobs /\ db[j].next # Null
    BY PageType DEF FindRetryInRange, FindRetryWindow, InRange
  <2>3. /\ work'[w].pc = "recoverRetryAdd" /\ work'[w].todo = S
        /\ work'[w].batch = [j \in Jobs |-> IF j \in S THEN db[j] ELSE NoRow]
    BY <1>k, <2>1, FetchMove
  <2> QED
    BY <1>h, <1>5, <2>2, <2>3 DEF RecoverRetryQuery, storeVars, redisVars
<1>6. ASSUME PendingQuery(w) PROVE Known(w)'
  <2>1. PICK S \in OldestPage(FindWindow(Null, Later(work[w].clock, Lookahead)), WatchPage,
                               ScheduleTimes(db)) : Fetch(w, "pendingSave", S)
    BY <1>6 DEF PendingQuery
  <2>2. \A j \in S : j \in Jobs /\ db[j].at # Null
    BY OldestPageType DEF FindWindow, InRange
  <2>3. /\ work'[w].pc = "pendingSave" /\ work'[w].todo = S
        /\ work'[w].batch = [j \in Jobs |-> IF j \in S THEN db[j] ELSE NoRow]
    BY <1>k, <2>1, FetchMove
  <2> QED
    BY <1>h, <1>6, <2>2, <2>3 DEF PendingQuery, storeVars, redisVars
<1>7. ASSUME RetryQuery(w) PROVE Known(w)'
  <2>1. PICK S \in OldestPage(FindRetryWindow(Null, Later(work[w].clock, Lookahead)), WatchPage,
                               NextRetryTimes(db)) : Fetch(w, "retrySave", S)
    BY <1>7 DEF RetryQuery
  <2>2. \A j \in S : j \in Jobs /\ db[j].next # Null
    BY OldestPageType DEF FindRetryWindow, InRange
  <2>3. /\ work'[w].pc = "retrySave" /\ work'[w].todo = S
        /\ work'[w].batch = [j \in Jobs |-> IF j \in S THEN db[j] ELSE NoRow]
    BY <1>k, <2>1, FetchMove
  <2> QED
    BY <1>h, <1>7, <2>2, <2>3 DEF RetryQuery, storeVars, redisVars
\* The recovery: the entry is there before the row says SCHEDULED.
<1>8. ASSUME RecoverAdd(w) PROVE Known(w)'
  <2>1. PICK j \in work[w].todo :
          /\ ScheduleJob(j, work[w].batch[j].at)
          /\ IF work[w].batch[j].status = "PENDING"
               THEN Take(w, "recoverSave", j) ELSE Finish(w, "recoverAdd", j)
    BY <1>8 DEF RecoverAdd
  <2>2. /\ delayQueue' = [delayQueue EXCEPT ![j] = work[w].batch[j].at]
        /\ work[w].batch[j].at # Null /\ db' = db /\ work[w].pc = "recoverAdd"
    BY <1>h, <1>8, <2>1 DEF ScheduleJob, RecoverAdd
  <2>3. CASE Take(w, "recoverSave", j)
    BY <1>k, <1>h, <2>2, <2>3, TakeMove
  <2>4. CASE Finish(w, "recoverAdd", j)
    <3>1. work'[w].pc = "recoverAdd"
      BY <1>k, <2>4, FinishMove
    <3>2. \A k \in work'[w].todo : k \in work[w].todo /\ work'[w].batch[k] = work[w].batch[k]
      BY <1>k, <2>4, FinishedList
    <3> QED
      BY <1>k, <1>h, <2>2, <3>1, <3>2
  <2> QED
    BY <2>1, <2>3, <2>4
<1>9. ASSUME RecoverSave(w) PROVE Known(w)'
  <2>1. /\ db' = [db EXCEPT ![work[w].cur] = WithStatus(work[w].batch[work[w].cur], "SCHEDULED")]
        /\ delayQueue' = delayQueue /\ work[w].pc = "recoverSave"
    BY <1>9 DEF RecoverSave, SaveAs, Save, redisVars
  <2>2. work'[w].pc = "recoverAdd" /\ delayQueue[work[w].cur] # Null
    BY <1>k, <1>h, <1>9, FinishMove DEF RecoverSave
  <2>3. \A k \in work'[w].todo : k \in work[w].todo /\ work'[w].batch[k] = work[w].batch[k]
    BY <1>k, <1>9, FinishedList DEF RecoverSave
  <2> QED
    BY <1>k, <1>h, <2>1, <2>2, <2>3
<1>10. ASSUME RecoverRetryAdd(w) PROVE Known(w)'
  <2>1. PICK j \in work[w].todo :
          ScheduleJob(j, work[w].batch[j].next) /\ Take(w, "recoverRetrySave", j)
    BY <1>10 DEF RecoverRetryAdd
  <2>2. /\ delayQueue' = [delayQueue EXCEPT ![j] = work[w].batch[j].next]
        /\ work[w].batch[j].next # Null /\ db' = db /\ work[w].pc = "recoverRetryAdd"
    BY <1>h, <1>10, <2>1 DEF ScheduleJob, RecoverRetryAdd
  <2> QED
    BY <1>k, <1>h, <2>1, <2>2, TakeMove
<1>11. ASSUME RecoverRetrySave(w) PROVE Known(w)'
  <2>1. /\ db' = [db EXCEPT ![work[w].cur] = WithStatus(work[w].batch[work[w].cur], "SCHEDULED")]
        /\ delayQueue' = delayQueue /\ work[w].pc = "recoverRetrySave"
    BY <1>11 DEF RecoverRetrySave, SaveAs, Save, redisVars
  <2>2. work'[w].pc = "recoverRetryAdd" /\ delayQueue[work[w].cur] # Null
    BY <1>k, <1>h, <1>11, FinishMove DEF RecoverRetrySave
  <2>3. \A k \in work'[w].todo : k \in work[w].todo /\ work'[w].batch[k] = work[w].batch[k]
    BY <1>k, <1>11, FinishedList DEF RecoverRetrySave
  <2> QED
    BY <1>k, <1>h, <2>1, <2>2, <2>3
\* The regular passes: the thread remembers the job until its entry is there.
<1>12. ASSUME PendingSave(w) PROVE Known(w)'
  <2>1. PICK j \in Earliest(w, ScheduleTimes(work[w].batch)) :
          SaveAs(w, j, "SCHEDULED") /\ Take(w, "pendingAdd", j)
    BY <1>12 DEF PendingSave
  <2>2. /\ db' = [db EXCEPT ![j] = WithStatus(work[w].batch[j], "SCHEDULED")]
        /\ delayQueue' = delayQueue /\ work[w].pc = "pendingSave"
    BY <1>12, <2>1 DEF PendingSave, SaveAs, Save, redisVars
  <2> QED
    BY <1>k, <1>h, <2>1, <2>2, TakeMove
<1>13. ASSUME RetrySave(w) PROVE Known(w)'
  <2>1. PICK j \in Earliest(w, NextRetryTimes(work[w].batch)) :
          SaveAs(w, j, "SCHEDULED") /\ Take(w, "retryAdd", j)
    BY <1>13 DEF RetrySave
  <2>2. /\ db' = [db EXCEPT ![j] = WithStatus(work[w].batch[j], "SCHEDULED")]
        /\ delayQueue' = delayQueue /\ work[w].pc = "retrySave"
    BY <1>13, <2>1 DEF RetrySave, SaveAs, Save, redisVars
  <2> QED
    BY <1>k, <1>h, <2>1, <2>2, TakeMove
<1>14. ASSUME PendingAdd(w) PROVE Known(w)'
  <2>1. /\ delayQueue' = [delayQueue EXCEPT ![work[w].cur] = work[w].batch[work[w].cur].at]
        /\ db' = db /\ work[w].pc = "pendingAdd"
    BY <1>14 DEF PendingAdd, ScheduleJob
  <2>2. work[w].cur \in work[w].todo /\ work[w].batch[work[w].cur].at # Null
    BY <1>h, <1>c, <2>1 DEF Holding
  <2>3. work'[w].pc = "pendingSave"
    BY <1>k, <1>14, FinishMove DEF PendingAdd
  <2>4. \A k \in work'[w].todo : k \in work[w].todo /\ work'[w].batch[k] = work[w].batch[k]
    BY <1>k, <1>14, FinishedList DEF PendingAdd
  <2> QED
    BY <1>k, <1>h, <2>1, <2>2, <2>3, <2>4
<1>15. ASSUME RetryAdd(w) PROVE Known(w)'
  <2>1. /\ delayQueue' = [delayQueue EXCEPT ![work[w].cur] = work[w].batch[work[w].cur].next]
        /\ db' = db /\ work[w].pc = "retryAdd"
    BY <1>15 DEF RetryAdd, ScheduleJob, RetryScore
  <2>2. work[w].cur \in work[w].todo /\ work[w].batch[work[w].cur].next # Null
    BY <1>h, <1>c, <2>1 DEF Holding
  <2>3. work'[w].pc = "retrySave"
    BY <1>k, <1>15, FinishMove DEF RetryAdd
  <2>4. \A k \in work'[w].todo : k \in work[w].todo /\ work'[w].batch[k] = work[w].batch[k]
    BY <1>k, <1>15, FinishedList DEF RetryAdd
  <2> QED
    BY <1>k, <1>h, <2>1, <2>2, <2>3, <2>4
<1> QED
  BY <1>1, <1>2, <1>3, <1>4, <1>5, <1>6, <1>7, <1>8, <1>9, <1>10, <1>11, <1>12, <1>13,
     <1>14, <1>15 DEF WatchNext, WatchStep

\* Going on to the next job of a poll, the thread keeps nothing in mind.
LEMMA DispatchNextMove ==
  ASSUME WorkTypeOK, NEW w \in Schedulers, DispatchNext(w)
  PROVE  work'[w].pc \in {"idle", "load"}
<1>1. CASE Return(w, work[w].due)
  BY <1>1, ReturnMove
<1>2. CASE Finish(w, "load", work[w].cur)
  BY <1>2, FinishMove
<1> QED
  BY <1>1, <1>2 DEF DispatchNext

\* What the thread knows after a step of dispatch(): the job whose entry is
\* taken out was seen not to be SCHEDULED, or has been claimed.
LEMMA DispatchKnows ==
  ASSUME SoleScheduler, TypeOK, ScheduledInv, NEW w \in Schedulers, DispatchNow(w)
  PROVE  Known(w)'
<1>k. /\ WorkTypeOK /\ db \in [Jobs -> Job] /\ delayQueue \in [Jobs -> Time]
      /\ work[w].todo \subseteq Jobs
  BY DEF TypeOK, StoreTypeOK, WorkTypeOK, Work
<1>h. HandOK /\ Known(w)
  BY KnownIsInv
<1>c. work[w].pc \in Holding => work[w].cur \in Jobs
  BY <1>h, <1>k DEF HandOK
<1> USE DEF Known
<1>n. ASSUME work[w].pc = "publish", UNCHANGED <<db, delayQueue>>, DispatchNext(w)
      PROVE  Known(w)'
  BY <1>k, <1>h, <1>n, DispatchNextMove
<1>r. ASSUME work[w].pc \in {"drop", "remove"}, UNCHANGED db, RemoveJob(work[w].cur), DispatchNext(w)
      PROVE  Known(w)'
  <2>1. work'[w].pc \in {"idle", "load"}
    BY <1>k, <1>r, DispatchNextMove
  <2>2. delayQueue' = [delayQueue EXCEPT ![work[w].cur] = Null]
    BY <1>r DEF RemoveJob
  <2>3. db' = db /\ db[work[w].cur].status # "SCHEDULED"
    BY <1>h, <1>r
  <2> QED
    BY <1>k, <1>h, <1>r, <2>1, <2>2, <2>3
<1>1. ASSUME DispatchStart(w) PROVE Known(w)'
  <2>1. work[w].pc = "idle" /\ work'[w].pc = "load"
    BY <1>k, <1>1 DEF DispatchStart, WorkTypeOK, Work
  <2> QED
    BY <1>h, <1>1, <2>1 DEF DispatchStart, storeVars, redisVars
<1>2. ASSUME DispatchLoad(w) PROVE Known(w)'
  <2>1. PICK j \in work[w].todo :
          work' = [work EXCEPT ![w].pc = IF db[j].status = "SCHEDULED" THEN "claim" ELSE "drop",
                               ![w].cur = j, ![w].batch = [@ EXCEPT ![j] = db[j]]]
    BY <1>2 DEF DispatchLoad
  <2>2. /\ work'[w].pc = (IF db[j].status = "SCHEDULED" THEN "claim" ELSE "drop")
        /\ work'[w].cur = j
    BY <1>k, <2>1 DEF WorkTypeOK, Work
  <2> QED
    BY <1>h, <1>2, <2>2 DEF DispatchLoad, storeVars, redisVars
<1>3. ASSUME DispatchDrop(w) \/ DispatchRemove(w) PROVE Known(w)'
  BY <1>r, <1>3 DEF DispatchDrop, DispatchRemove
<1>4. ASSUME DispatchClaim(w) PROVE Known(w)'
  <2>1. work'[w].pc = "publish" /\ work'[w].cur = work[w].cur /\ work[w].cur \in Jobs
    BY <1>k, <1>c, <1>4, GotoMove DEF DispatchClaim, Holding
  <2>2. db' = [db EXCEPT ![work[w].cur] = WithStatus(work[w].batch[work[w].cur], "QUEUED")]
    BY <1>4 DEF DispatchClaim, SaveAs, Save
  <2>3. work[w].batch[work[w].cur] \in Job
    BY <1>k, <2>1 DEF WorkTypeOK, Work
  <2>4. WithStatus(work[w].batch[work[w].cur], "QUEUED").status = "QUEUED"
    BY <2>3 DEF WithStatus, Job
  <2>5. delayQueue' = delayQueue /\ work[w].pc = "claim"
    BY <1>4 DEF DispatchClaim, redisVars
  <2> QED
    BY <1>k, <1>h, <2>1, <2>2, <2>4, <2>5
<1>5. ASSUME DispatchPublish(w) PROVE Known(w)'
  <2>1. work'[w].pc = "remove" /\ work'[w].cur = work[w].cur
    BY <1>k, <1>5, GotoMove DEF DispatchPublish
  <2> QED
    BY <1>h, <1>5, <2>1 DEF DispatchPublish, redisVars
<1>6. ASSUME DispatchSendThrows(w) PROVE Known(w)'
  BY <1>n, <1>6 DEF DispatchSendThrows, redisVars
<1> QED
  BY <1>1, <1>2, <1>3, <1>4, <1>5, <1>6 DEF DispatchNow, DispatchStep

\* The rows a request or a listener writes are never SCHEDULED: only a
\* scheduler thread makes a job so.
LEMMA OthersWriteUnscheduled ==
  ASSUME TypeOK,
         \/ \E j \in Jobs : ApiNext(j)
         \/ \E c \in Consumers : ConsumeNext(c)
         \/ \E p \in Partitions : CommitNext(p)
  PROVE  /\ UNCHANGED <<delayQueue, work>>
         /\ \A j \in Jobs : db'[j].status = "SCHEDULED" => db[j].status = "SCHEDULED"
<1>k. db \in [Jobs -> Job] /\ task \in [Consumers -> Task]
  BY DEF TypeOK, StoreTypeOK, ConsumerTypeOK
<1>w. ASSUME NEW row \in Job, NEW s \in JobStatus PROVE WithStatus(row, s).status = s
  BY DEF WithStatus, Job
<1>s. ASSUME NEW j, NEW row, row.status # "SCHEDULED", Save(j, row)
      PROVE  \A k \in Jobs : db'[k].status = "SCHEDULED" => db[k].status = "SCHEDULED"
  BY <1>k, <1>s DEF Save
<1>1. CASE \E j \in Jobs : ApiNext(j)
  <2> PICK j \in Jobs : ApiNext(j)
    BY <1>1
  <2>1. UNCHANGED <<delayQueue, work>>
    BY DEF ApiNext, CreateJob, RouteJob, PublishCreated, CancelJob, redisVars
  <2>2. ASSUME NEW d \in Delays, CreateJob(j, d)
        PROVE  \A k \in Jobs : db'[k].status = "SCHEDULED" => db[k].status = "SCHEDULED"
    BY <1>s, <2>2 DEF CreateJob, NewRow
  <2>3. ASSUME RouteJob(j)
        PROVE  \A k \in Jobs : db'[k].status = "SCHEDULED" => db[k].status = "SCHEDULED"
    <3>1. WithStatus(NewRow(db[j].at), "QUEUED").status # "SCHEDULED"
      BY DEF WithStatus, NewRow
    <3> QED
      BY <1>s, <2>3, <3>1 DEF RouteJob
  <2> QED
    BY <2>1, <2>2, <2>3 DEF ApiNext, PublishCreated, CancelJob
<1>2. CASE \E c \in Consumers : ConsumeNext(c)
  <2> PICK c \in Consumers : ConsumeNext(c)
    BY <1>2
  <2>e. task[c].entity \in Job
    BY <1>k DEF Task
  <2>1. UNCHANGED <<delayQueue, work>>
    BY DEF ConsumeNext, Receive, ConsumeStep, CheckCancelled, SaveCancelled, ClearCancellation,
           RateGate, DeferLimited, CircuitGate, DeferTripped, HalfOpen, Admit, Execute,
           SaveCompleted, ResetFailures, CountFailure, SaveFailed, AttemptThrows, ConsumeThrows,
           storeVars, redisVars
  <2>2. CASE UNCHANGED db
    BY <2>1, <2>2
  <2>3. CASE SaveCancelled(c) \/ Admit(c) \/ SaveCompleted(c)
    BY <1>s, <1>w, <2>1, <2>2, <2>e, <2>3
       DEF SaveCancelled, Admit, SaveCompleted, SaveEntity, JobStatus
  <2>4. CASE DeferLimited(c) \/ DeferTripped(c)
    <3>1. ASSUME NEW t PROVE Deferred(task[c].entity, t).status = "RETRY"
      BY <2>e DEF Deferred, Job
    <3> QED
      BY <1>s, <2>1, <2>4, <3>1 DEF DeferLimited, DeferTripped, SaveEntity
  <2>5. CASE SaveFailed(c)
    <3>1. WithStatus(task[c].entity, "FAILED").status # "SCHEDULED"
      BY <1>w, <2>e DEF JobStatus
    <3>2. Retried(task[c].entity, task[c].started).status # "SCHEDULED"
      BY <2>e DEF Retried, Deferred, Job
    <3> QED
      BY <1>s, <2>1, <2>5, <3>1, <3>2 DEF SaveFailed, SaveEntity
  <2> QED
    BY <2>1, <2>2, <2>3, <2>4, <2>5
       DEF ConsumeNext, Receive, ConsumeStep, CheckCancelled, ClearCancellation,
           RateGate, CircuitGate, HalfOpen, Execute, ResetFailures, CountFailure, AttemptThrows,
           ConsumeThrows, storeVars
<1>3. CASE \E p \in Partitions : CommitNext(p)
  BY <1>3 DEF CommitNext, Commit, redisVars
<1> QED
  BY <1>1, <1>2, <1>3

\* With one scheduler thread that survives and a Redis that keeps its data, a
\* SCHEDULED job always has its entry in the delay queue, or the thread is
\* about to add it: whatever the requests, the listeners and the broker do,
\* with any crash of the listeners, loss or failure of a send, rebalance, and
\* whichever jobs the pages leave out.
THEOREM ScheduledSafe ==
  ASSUME SoleScheduler, SchedulerSurvives
  PROVE  Spec => []ScheduledInv /\ []ScheduledIsCarried
<1>1. Init => ScheduledInv
  <2> SUFFICES ASSUME Init PROVE ScheduledInv
    OBVIOUS
  <2>1. \A w \in Schedulers : work[w].pc = "idle" /\ work[w].todo = {}
    BY DEF Init, WorkInit, IdleWork
  <2>2. \A j \in Jobs : db[j].status = "NONE"
    BY DEF Init, StoreInit, NoRow
  <2> QED
    BY <2>1, <2>2 DEF ScheduledInv, HandOK, Holding, TakenOutUnscheduled, RecoveredIsQueued,
                      ListedIsDated, ScheduledIsCarried, ScheduledCarried
<1>2. TypeOK /\ ScheduledInv /\ [Next]_vars => ScheduledInv'
  <2> SUFFICES ASSUME TypeOK, ScheduledInv, [Next]_vars PROVE ScheduledInv'
    OBVIOUS
  <2>h. HandOK
    BY DEF ScheduledInv
  <2>1. CASE \E w \in Schedulers : WatchNext(w)
    BY <2>1, <2>h, WatchHand, WatchKnows, KnownSuffices
  <2>2. CASE \E w \in Schedulers : DispatchNow(w)
    BY <2>2, <2>h, DispatchHand, DispatchKnows, KnownSuffices
  <2>3. CASE \/ \E j \in Jobs : ApiNext(j)
             \/ \E c \in Consumers : ConsumeNext(c)
             \/ \E p \in Partitions : CommitNext(p)
    BY <2>3, OthersWriteUnscheduled, OthersKeep
  <2>4. CASE EnvironmentNext
    <3>1. UNCHANGED <<delayQueue, work, db>>
      <4>1. work \in [Schedulers -> Work]
        BY DEF TypeOK, WorkTypeOK
      <4>2. ASSUME NEW i \in Instances, Crash(i) PROVE UNCHANGED <<delayQueue, work, db>>
        BY <4>1, <4>2 DEF Crash, SchedulerSurvives, redisVars
      <4>3. ~RedisLoss
        BY DEF RedisLoss, Fault, SchedulerSurvives
      <4> QED
        BY <2>4, <4>2, <4>3 DEF EnvironmentNext, Tick, Rebalance, redisVars
    <3> QED
      BY <3>1, OthersKeep
  <2>5. CASE UNCHANGED vars
    BY <2>5, OthersKeep DEF vars
  <2> QED
    BY <2>1, <2>2, <2>3, <2>4, <2>5 DEF Next
<1>3. ScheduledInv => ScheduledIsCarried
  BY DEF ScheduledInv
<1> QED
  BY <1>1, <1>2, <1>3, TypeCorrect, PTL DEF Spec
=============================================================================
