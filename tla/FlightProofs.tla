---------------------------- MODULE FlightProofs ----------------------------
(***************************************************************************)
(* A job that is scheduled ahead is handled by one thread at a time, ends  *)
(* for good, and follows the lifecycle of JobLifecycle: by FlightInv, when *)
(* there is one scheduler thread and Kafka delivers each record once.      *)
(***************************************************************************)
EXTENDS CarriedProofs, FiniteSetTheorems

-----------------------------------------------------------------------------
(* The moves of a row.                                                     *)

\* The statuses a failed attempt may find in the row.
FailsFrom == {"PROCESSING"} \cup (IF "saveThrows" \in FaultKinds THEN {"QUEUED"} ELSE {})

\* One move of a row along the lifecycle, the attempts counted.
Passes(old, new) ==
  /\ new.retries = old.retries
  /\ \/ old.status = "NONE" /\ new.status = "PENDING"
     \/ old.status \in {"PENDING", "RETRY"} /\ new.status = "SCHEDULED"
     \/ old.status = "SCHEDULED" /\ new.status = "QUEUED"
     \/ old.status = "QUEUED" /\ new.status \in {"PROCESSING", "RETRY", "CANCELLED"}
     \/ old.status = "PROCESSING" /\ new.status = "COMPLETED"
     \/ old.status \in FailsFrom /\ new.status = "FAILED" /\ old.retries = MaxRetry

Repeats(old, new) ==
  /\ old.status \in FailsFrom /\ new.status = "RETRY"
  /\ old.retries < MaxRetry /\ new.retries = old.retries + 1

RowMoves(j, row) == db' = [db EXCEPT ![j] = row] /\ (Passes(db[j], row) \/ Repeats(db[j], row))

\* A step changes at most one row, by one move.
StoreMoves == UNCHANGED db \/ \E j \in Jobs, row \in Job : RowMoves(j, row)

\* What a copy with another status keeps.
LEMMA CopyFields ==
  ASSUME NEW row \in Job, NEW s
  PROVE  /\ WithStatus(row, s).status = s /\ WithStatus(row, s).retries = row.retries
         /\ WithStatus(row, s).at = row.at /\ WithStatus(row, s).next = row.next
         /\ \A r : WithStatus(WithStatus(row, s), r) = WithStatus(row, r)
         /\ row.status = s => WithStatus(row, s) = row
BY DEF WithStatus, Job

\* What a deferred copy keeps.
LEMMA DeferredFields ==
  ASSUME NEW row \in Job, NEW t
  PROVE  /\ Deferred(row, t).status = "RETRY" /\ Deferred(row, t).retries = row.retries
         /\ Deferred(row, t).at = row.at /\ Deferred(row, t).next = t
BY DEF Deferred, Job

\* What a copy put off after a failure keeps.
LEMMA RetriedFields ==
  ASSUME NEW row \in Job, NEW t
  PROVE  /\ Retried(row, t).status = "RETRY" /\ Retried(row, t).retries = row.retries + 1
         /\ Retried(row, t).at = row.at
BY DEF Retried, Deferred, Job

-----------------------------------------------------------------------------
(* A listener writes the row of the job it holds, and no other.            *)

\* The statuses that only a scheduler thread moves on.
Resting == {"PENDING", "SCHEDULED", "RETRY"}

\* What a step of listener c, once it has its record, may do.
HolderMoves(c) ==
  /\ task[c].job \in Jobs /\ db[task[c].job].status \notin Resting \cup {"NONE"}
  /\ UNCHANGED <<inbox, now, api, work>>
  /\ task' = [task EXCEPT ![c] = task'[c]]
  /\ task'[c].job \in {task[c].job, NoJob}
  /\ \/ UNCHANGED db
     \/ \E row \in Job : /\ RowMoves(task[c].job, row)
                         /\ row.at = db[task[c].job].at
  /\ CopyIsRow(c)'

\* The row of a job that is held shows what its listener is doing.
LEMMA HeldRow ==
  ASSUME TypeOK, CopiesAreRows, NEW c \in Consumers, task[c].stage # "idle"
  PROVE  /\ task[c].job \in Jobs /\ task[c].entity \in Job /\ task[c].entity.status = "QUEUED"
         /\ Shows(task[c].stage, db[task[c].job].status)
         /\ db[task[c].job] = WithStatus(task[c].entity, db[task[c].job].status)
         /\ db[task[c].job].retries = task[c].entity.retries
         /\ db[task[c].job].at = task[c].entity.at
<1>1. task[c].job \in Jobs /\ task[c].entity \in Job /\ task[c].entity.status = "QUEUED"
  BY DEF CopiesAreRows, CopyIsRow, TypeOK, ConsumerTypeOK, Task
<1>2. PICK s \in JobStatus : /\ Shows(task[c].stage, s)
                             /\ db[task[c].job] = WithStatus(task[c].entity, s)
  BY DEF CopiesAreRows, CopyIsRow
<1> QED
  BY <1>1, <1>2, CopyFields

\* A step that leaves the row alone and goes on to a stage that shows as much.
LEMMA HolderGoesOn ==
  ASSUME TypeOK, CopiesAreRows, NEW c \in Consumers, task[c].stage # "idle",
         NEW stage, stage # "idle", Shows(stage, db[task[c].job].status),
         task' = [task EXCEPT ![c] = task'[c]],
         task'[c].stage = stage, task'[c].job = task[c].job, task'[c].entity = task[c].entity,
         UNCHANGED <<db, inbox, now, api, work>>
  PROVE  HolderMoves(c)
<1>h. /\ task[c].job \in Jobs /\ task[c].entity \in Job /\ task[c].entity.status = "QUEUED"
      /\ Shows(task[c].stage, db[task[c].job].status)
      /\ db[task[c].job] = WithStatus(task[c].entity, db[task[c].job].status)
  BY HeldRow
<1>1. db[task[c].job].status \in JobStatus /\ db[task[c].job].status \notin Resting \cup {"NONE"}
  BY <1>h DEF Shows, Resting, JobStatus
<1>2. CopyIsRow(c)'
  BY <1>h, <1>1 DEF CopyIsRow, Shows
<1> QED
  BY <1>h, <1>1, <1>2 DEF HolderMoves

\* A step that saves the copy with another status.
LEMMA HolderSaves ==
  ASSUME TypeOK, CopiesAreRows, NEW c \in Consumers, task[c].stage # "idle",
         NEW row \in Job, SaveEntity(c, row), row.at = task[c].entity.at,
         Passes(db[task[c].job], row) \/ Repeats(db[task[c].job], row),
         task' = [task EXCEPT ![c] = task'[c]],
         \/ task'[c] = IdleTask
         \/ /\ task'[c].job = task[c].job /\ task'[c].entity = task[c].entity
            /\ task'[c].stage # "idle"
            /\ Shows(task'[c].stage, row.status) /\ row = WithStatus(task[c].entity, row.status),
         UNCHANGED <<inbox, now, api, work>>
  PROVE  HolderMoves(c)
<1>h. /\ task[c].job \in Jobs /\ task[c].entity \in Job /\ task[c].entity.status = "QUEUED"
      /\ Shows(task[c].stage, db[task[c].job].status)
      /\ db[task[c].job].at = task[c].entity.at
  BY HeldRow
<1>k. db \in [Jobs -> Job]
  BY DEF TypeOK, StoreTypeOK
<1>1. db[task[c].job].status \notin Resting \cup {"NONE"}
  BY <1>h DEF Shows, Resting
<1>2. RowMoves(task[c].job, row) /\ db'[task[c].job] = row
  BY <1>h, <1>k DEF SaveEntity, Save, RowMoves
<1>3. CopyIsRow(c)'
  <2>1. CASE task'[c] = IdleTask
    BY <2>1 DEF CopyIsRow, IdleTask
  <2>2. CASE /\ task'[c].job = task[c].job /\ task'[c].entity = task[c].entity
             /\ task'[c].stage # "idle"
             /\ Shows(task'[c].stage, row.status) /\ row = WithStatus(task[c].entity, row.status)
    <3>1. row.status \in JobStatus
      BY <2>2 DEF Shows, JobStatus
    <3> QED
      BY <1>h, <1>2, <2>2, <3>1 DEF CopyIsRow, Shows
  <2> QED
    BY <2>1, <2>2
<1>4. task'[c].job \in {task[c].job, NoJob}
  BY DEF IdleTask
<1> QED
  BY <1>h, <1>1, <1>2, <1>3, <1>4 DEF HolderMoves

\* ... each step of consume() that has its record.
LEMMA HolderStep ==
  ASSUME TypeOK, CopiesAreRows, NEW c \in Consumers,
         ConsumeStep(c) \/ AttemptThrows(c), UNCHANGED <<api, work>>
  PROVE  HolderMoves(c)
<1>k. task \in [Consumers -> Task] /\ task[c] \in Task
  BY DEF TypeOK, ConsumerTypeOK
<1>s. task[c].stage # "idle"
  BY DEF ConsumeStep, CheckCancelled, SaveCancelled, ClearCancellation, RateGate, DeferLimited,
         CircuitGate, DeferTripped, HalfOpen, Admit, Execute, SaveCompleted, ResetFailures,
         CountFailure, SaveFailed, AttemptThrows
<1>h. /\ task[c].job \in Jobs /\ task[c].entity \in Job /\ task[c].entity.status = "QUEUED"
      /\ Shows(task[c].stage, db[task[c].job].status)
      /\ db[task[c].job] = WithStatus(task[c].entity, db[task[c].job].status)
      /\ db[task[c].job].retries = task[c].entity.retries
      /\ db[task[c].job].at = task[c].entity.at
  BY <1>s, HeldRow
<1> DEFINE row == db[task[c].job]
<1>r. task[c].entity.retries \in 0 .. MaxRetry /\ MaxRetry \in Nat
  BY <1>h, StoreAssumption DEF Job
<1>e. ASSUME NEW stage, Enter(c, stage)
      PROVE  /\ task' = [task EXCEPT ![c] = task'[c]]
             /\ task'[c].stage = stage /\ task'[c].job = task[c].job /\ task'[c].entity = task[c].entity
  BY <1>k, <1>e DEF Enter, Task
<1>d. ASSUME Done(c)
      PROVE  task' = [task EXCEPT ![c] = task'[c]] /\ task'[c] = IdleTask
  BY <1>k, <1>d DEF Done
\* Steps that leave the row alone.
<1>1. CASE CheckCancelled(c)
  <2>1. row.status = "QUEUED"
    BY <1>h, <1>1 DEF CheckCancelled, Shows, BeforeStart, Running
  <2>2. /\ task' = [task EXCEPT ![c] = task'[c]]
        /\ task'[c].stage \in {"cancelling", "gate"}
        /\ task'[c].job = task[c].job /\ task'[c].entity = task[c].entity
    BY <1>k, <1>e, <1>1 DEF CheckCancelled, Task
  <2> QED
    BY <1>s, <1>1, <2>1, <2>2, HolderGoesOn
       DEF CheckCancelled, Shows, BeforeStart, storeVars, kafkaVars
<1>2. CASE RateGate(c)
  <2>1. row.status = "QUEUED"
    BY <1>h, <1>2 DEF RateGate, Shows, BeforeStart, Running
  <2>2. PICK stage \in {"circuit", "limited"} : Enter(c, stage)
    BY <1>2 DEF RateGate
  <2> QED
    BY <1>s, <1>e, <1>2, <2>1, <2>2, HolderGoesOn
       DEF RateGate, Shows, BeforeStart, storeVars, kafkaVars
<1>3. CASE CircuitGate(c)
  <2>1. row.status = "QUEUED"
    BY <1>h, <1>3 DEF CircuitGate, Shows, BeforeStart, Running
  <2>2. PICK stage \in {"admit", "halfOpen", "tripped"} : Enter(c, stage)
    BY <1>3 DEF CircuitGate
  <2> QED
    BY <1>s, <1>e, <1>3, <2>1, <2>2, HolderGoesOn
       DEF CircuitGate, Shows, BeforeStart, storeVars, kafkaVars
<1>4. CASE HalfOpen(c)
  <2>1. row.status = "QUEUED"
    BY <1>h, <1>4 DEF HalfOpen, Shows, BeforeStart, Running
  <2> QED
    BY <1>s, <1>e, <1>4, <2>1, HolderGoesOn
       DEF HalfOpen, Shows, BeforeStart, storeVars, kafkaVars
<1>5. CASE Execute(c)
  <2>1. row.status = "PROCESSING"
    BY <1>h, <1>5 DEF Execute, Shows, BeforeStart
  <2>2. PICK stage \in {"succeeded", "failed"} : Enter(c, stage)
    BY <1>5 DEF Execute
  <2> QED
    BY <1>s, <1>e, <1>5, <2>1, <2>2, HolderGoesOn
       DEF Execute, Shows, Running, storeVars, kafkaVars
<1>6. CASE CountFailure(c)
  <2>1. Shows("counted", row.status)
    BY <1>h, <1>6 DEF CountFailure, Shows, BeforeStart, Running
  <2> QED
    BY <1>s, <1>e, <1>6, <2>1, HolderGoesOn DEF CountFailure, storeVars, kafkaVars
<1>7. CASE AttemptThrows(c)
  <2>1. Shows("failed", row.status)
    BY <1>h, <1>7 DEF AttemptThrows, Fault, Shows, BeforeStart, Running
  <2> QED
    BY <1>s, <1>e, <1>7, <2>1, HolderGoesOn DEF AttemptThrows, kafkaVars
<1>8. CASE ClearCancellation(c) \/ ResetFailures(c)
  <2>1. row.status \notin Resting \cup {"NONE"}
    BY <1>h DEF Shows, Resting
  <2>2. Done(c) /\ UNCHANGED <<db, inbox, now>>
    BY <1>8 DEF ClearCancellation, ResetFailures, storeVars, kafkaVars
  <2>3. CopyIsRow(c)'
    BY <1>d, <2>2 DEF CopyIsRow, IdleTask
  <2> QED
    BY <1>h, <1>d, <2>1, <2>2, <2>3 DEF HolderMoves, IdleTask
\* Steps that save it.
<1>9. CASE SaveCancelled(c)
  <2>1. row.status = "QUEUED"
    BY <1>h, <1>9 DEF SaveCancelled, Shows, BeforeStart, Running
  <2>2. /\ WithStatus(task[c].entity, "CANCELLED") \in Job
        /\ SaveEntity(c, WithStatus(task[c].entity, "CANCELLED")) /\ Enter(c, "clearing")
    BY <1>h, <1>9, WithStatusType DEF SaveCancelled, JobStatus
  <2>3. Passes(row, WithStatus(task[c].entity, "CANCELLED"))
    BY <1>h, <2>1, CopyFields DEF Passes
  <2>4. Shows("clearing", "CANCELLED")
    BY DEF Shows
  <2> QED
    BY <1>s, <1>h, <1>e, <1>9, <2>2, <2>3, <2>4, CopyFields, HolderSaves DEF SaveCancelled, kafkaVars
<1>10. CASE DeferLimited(c) \/ DeferTripped(c)
  <2>1. row.status = "QUEUED"
    BY <1>h, <1>10 DEF DeferLimited, DeferTripped, Shows, BeforeStart, Running
  <2>2. PICK t \in Time : SaveEntity(c, Deferred(task[c].entity, t))
    <3>t. now \in Time /\ task[c].started \in Time
      BY <1>k DEF TypeOK, StoreTypeOK, Clock, Time, Task
    <3>1. Later(now, RateDelay) \in Time /\ Later(task[c].started, CircuitDelay) \in Time
      BY <3>t, LaterType, ConsumerAssumption
    <3> QED
      BY <1>10, <3>1 DEF DeferLimited, DeferTripped
  <2>3. Deferred(task[c].entity, t) \in Job
    BY <1>h, DeferredType
  <2>4. Passes(row, Deferred(task[c].entity, t))
    BY <1>h, <2>1, DeferredFields DEF Passes
  <2>5. Done(c) /\ UNCHANGED <<inbox, now>>
    BY <1>10 DEF DeferLimited, DeferTripped, kafkaVars
  <2> QED
    BY <1>s, <1>h, <1>d, <2>2, <2>3, <2>4, <2>5, DeferredFields, HolderSaves
<1>11. CASE Admit(c)
  <2>1. row.status = "QUEUED"
    BY <1>h, <1>11 DEF Admit, Shows, BeforeStart, Running
  <2>2. /\ WithStatus(task[c].entity, "PROCESSING") \in Job
        /\ SaveEntity(c, WithStatus(task[c].entity, "PROCESSING")) /\ Enter(c, "executing")
    BY <1>h, <1>11, WithStatusType DEF Admit, JobStatus
  <2>3. Passes(row, WithStatus(task[c].entity, "PROCESSING"))
    BY <1>h, <2>1, CopyFields DEF Passes
  <2>4. Shows("executing", "PROCESSING")
    BY DEF Shows, Running
  <2> QED
    BY <1>s, <1>h, <1>e, <1>11, <2>2, <2>3, <2>4, CopyFields, HolderSaves DEF Admit, kafkaVars
<1>12. CASE SaveCompleted(c)
  <2>1. row.status = "PROCESSING"
    BY <1>h, <1>12 DEF SaveCompleted, Shows, BeforeStart
  <2>2. /\ WithStatus(task[c].entity, "COMPLETED") \in Job
        /\ SaveEntity(c, WithStatus(task[c].entity, "COMPLETED")) /\ Enter(c, "completed")
    BY <1>h, <1>12, WithStatusType DEF SaveCompleted, JobStatus
  <2>3. Passes(row, WithStatus(task[c].entity, "COMPLETED"))
    BY <1>h, <2>1, CopyFields DEF Passes
  <2>4. Shows("completed", "COMPLETED")
    BY DEF Shows
  <2> QED
    BY <1>s, <1>h, <1>e, <1>12, <2>2, <2>3, <2>4, CopyFields, HolderSaves
       DEF SaveCompleted, kafkaVars
<1>13. CASE SaveFailed(c)
  <2>1. row.status \in FailsFrom
    BY <1>h, <1>13 DEF SaveFailed, Shows, BeforeStart, FailsFrom
  <2>2. Done(c) /\ UNCHANGED <<inbox, now>>
    BY <1>13 DEF SaveFailed, kafkaVars
  <2>3. CASE Exhausted(task[c].entity)
    <3>1. /\ WithStatus(task[c].entity, "FAILED") \in Job
          /\ SaveEntity(c, WithStatus(task[c].entity, "FAILED"))
      BY <1>h, <1>13, <2>3, WithStatusType DEF SaveFailed, JobStatus
    <3>2. task[c].entity.retries = MaxRetry
      BY <1>r, <2>3 DEF Exhausted
    <3>3. Passes(row, WithStatus(task[c].entity, "FAILED"))
      BY <1>h, <2>1, <3>2, CopyFields DEF Passes
    <3> QED
      BY <1>s, <1>h, <1>d, <2>2, <3>1, <3>3, CopyFields, HolderSaves
  <2>4. CASE ~Exhausted(task[c].entity)
    <3>1. /\ Retried(task[c].entity, task[c].started) \in Job
          /\ SaveEntity(c, Retried(task[c].entity, task[c].started))
      BY <1>h, <1>k, <1>13, <2>4, RetriedType DEF SaveFailed, Task
    <3>2. task[c].entity.retries < MaxRetry
      BY <1>r, <2>4 DEF Exhausted
    <3>3. Repeats(row, Retried(task[c].entity, task[c].started))
      BY <1>h, <2>1, <3>2, RetriedFields DEF Repeats
    <3> QED
      BY <1>s, <1>h, <1>d, <2>2, <3>1, <3>3, RetriedFields, HolderSaves
  <2> QED
    BY <2>3, <2>4
<1> QED
  BY <1>1, <1>2, <1>3, <1>4, <1>5, <1>6, <1>7, <1>8, <1>9, <1>10, <1>11, <1>12, <1>13
     DEF ConsumeStep

\* What a listener does with the job it holds disturbs nobody else: the job is on
\* no list, has no other message and no other holder.
LEMMA HolderFlight ==
  ASSUME TypeOK, HandOK, FlightInv, NEW c \in Consumers, HolderMoves(c)
  PROVE  FlightInv'
<1>k. /\ task \in [Consumers -> Task] /\ db \in [Jobs -> Job] /\ inbox \in [Partitions -> Seq(Jobs)]
      /\ \A w \in Schedulers : work[w].cur \in Jobs \cup {NoJob}
  BY DEF TypeOK, StoreTypeOK, ConsumerTypeOK, WorkTypeOK, Work
<1> DEFINE j == task[c].job
<1>j. /\ j \in Jobs /\ db[j].status \notin Resting \cup {"NONE"}
      /\ UNCHANGED <<inbox, now, api, work>>
      /\ \A d \in Consumers \ {c} : task'[d] = task[d]
      /\ task'[c].job \in {j, NoJob} /\ CopyIsRow(c)'
  BY <1>k DEF HolderMoves
<1>d. /\ \A k \in Jobs \ {j} : db'[k] = db[k]
      /\ db'[j].at = db[j].at
  BY <1>k, <1>j DEF HolderMoves, RowMoves
<1>h. ~Waiting(j) /\ \A w \in Schedulers : work[w].pc = "publish" => work[w].cur # j
  BY <1>j DEF FlightInv, WaitingIsQueued, PublishedIsNew, Held
<1>l. \A k \in Jobs : Held(k)' => Held(k)
  BY <1>j, StoreAssumption DEF Held
<1>1. RequestInv'
  <2>1. UncreatedIsAbsent'
    BY <1>j, <1>d DEF FlightInv, RequestInv, UncreatedIsAbsent, NoRow
  <2>2. LeftToWatcher'
    BY <1>j, <1>d DEF FlightInv, RequestInv, LeftToWatcher
  <2> QED
    BY <2>1, <2>2 DEF RequestInv
<1>2. ListIsFresh'
  BY <1>j, <1>d DEF FlightInv, ListIsFresh, Unsaved, Resting
<1>3. ClaimIsFresh'
  <2> SUFFICES ASSUME NEW w \in Schedulers, work[w].pc = "claim"
               PROVE  /\ db'[work[w].cur] = work[w].batch[work[w].cur]
                      /\ db'[work[w].cur].status = "SCHEDULED"
    BY <1>j DEF ClaimIsFresh
  <2>1. work[w].cur \in Jobs
    BY DEF HandOK, Holding, TypeOK, WorkTypeOK, Work
  <2>2. work[w].cur # j
    BY <1>j DEF FlightInv, ClaimIsFresh, Resting
  <2> QED
    BY <1>d, <2>1, <2>2 DEF FlightInv, ClaimIsFresh
<1>4. PublishedIsNew'
  <2> SUFFICES ASSUME NEW w \in Schedulers, work[w].pc = "publish"
               PROVE  /\ db'[work[w].cur].status = "QUEUED"
                      /\ ~Waiting(work[w].cur)' /\ ~Held(work[w].cur)'
    BY <1>j DEF PublishedIsNew, Waiting, Held
  <2>1. work[w].cur \in Jobs
    BY DEF HandOK, Holding, TypeOK, WorkTypeOK, Work
  <2>2. work[w].cur # j
    BY <1>h
  <2> QED
    BY <1>j, <1>d, <1>l, <2>1, <2>2 DEF FlightInv, PublishedIsNew, Waiting
<1>5. WaitingIsQueued'
  <2> SUFFICES ASSUME NEW k \in Jobs, Waiting(k)' PROVE db'[k].status = "QUEUED" /\ ~Held(k)'
    BY DEF WaitingIsQueued
  <2>1. Waiting(k) /\ k # j
    BY <1>j, <1>h DEF Waiting
  <2> QED
    BY <1>d, <1>l, <2>1 DEF FlightInv, WaitingIsQueued
<1>6. OneMessage'
  BY <1>j DEF FlightInv, OneMessage
<1>7. OneHolder'
  BY <1>j, StoreAssumption DEF FlightInv, OneHolder
<1>8. CopiesAreRows'
  <2> SUFFICES ASSUME NEW d \in Consumers \ {c} PROVE CopyIsRow(d)'
    BY <1>j DEF CopiesAreRows
  <2>1. CopyIsRow(d) /\ task'[d] = task[d]
    BY <1>j DEF FlightInv, CopiesAreRows
  <2>2. task[d].job # j
    BY <1>j DEF FlightInv, OneHolder
  <2>3. task[d].job \in Jobs => db'[task[d].job] = db[task[d].job]
    BY <1>d, <2>2
  <2> QED
    BY <2>1, <2>3 DEF CopyIsRow
<1> QED
  BY <1>1, <1>2, <1>3, <1>4, <1>5, <1>6, <1>7, <1>8 DEF FlightInv

\* Taking the first record of partition p moves the others up.
Before(p, q, k) == IF q = p THEN k + 1 ELSE k

LEMMA TailPlaces ==
  ASSUME TypeOK, NEW p \in Partitions, inbox[p] # <<>>,
         inbox' = [inbox EXCEPT ![p] = Tail(@)]
  PROVE  \A q \in Partitions : \A k \in 1 .. Len(inbox'[q]) :
           /\ Before(p, q, k) \in 1 .. Len(inbox[q])
           /\ inbox'[q][k] = inbox[q][Before(p, q, k)]
           /\ ~(q = p /\ Before(p, q, k) = 1)
<1>1. inbox \in [Partitions -> Seq(Jobs)]
  BY DEF TypeOK, StoreTypeOK
<1>s. ASSUME NEW s \in Seq(Jobs), s # <<>>, NEW k \in 1 .. Len(Tail(s))
      PROVE  k + 1 \in 1 .. Len(s) /\ Tail(s)[k] = s[k + 1] /\ k + 1 # 1
  BY <1>s
<1> SUFFICES ASSUME NEW q \in Partitions, NEW k \in 1 .. Len(inbox'[q])
             PROVE  /\ Before(p, q, k) \in 1 .. Len(inbox[q])
                    /\ inbox'[q][k] = inbox[q][Before(p, q, k)]
                    /\ ~(q = p /\ Before(p, q, k) = 1)
  OBVIOUS
<1>2. CASE q = p
  <2>1. inbox'[q] = Tail(inbox[p]) /\ inbox[p] \in Seq(Jobs) /\ inbox[p] # <<>>
    BY <1>1, <1>2
  <2>2. k + 1 \in 1 .. Len(inbox[p]) /\ inbox'[q][k] = inbox[p][k + 1] /\ k + 1 # 1
    BY <1>s, <2>1
  <2> QED
    BY <1>2, <2>2 DEF Before
<1>3. CASE q # p
  <2>1. inbox'[q] = inbox[q]
    BY <1>1, <1>3
  <2> QED
    BY <1>3, <2>1 DEF Before
<1> QED
  BY <1>2, <1>3

\* A listener that takes a record is the only one that has the job.
LEMMA ReceiveFlight ==
  ASSUME TypeOK, HandOK, FlightInv, NEW c \in Consumers, NEW p \in Partitions,
         Receive(c, p), UNCHANGED <<api, work>>
  PROVE  FlightInv'
<1>k. /\ task \in [Consumers -> Task] /\ db \in [Jobs -> Job] /\ inbox \in [Partitions -> Seq(Jobs)]
      /\ \A w \in Schedulers : work[w].cur \in Jobs \cup {NoJob}
  BY DEF TypeOK, StoreTypeOK, ConsumerTypeOK, WorkTypeOK, Work
<1> DEFINE j == Head(inbox[p])
<1>r. /\ UNCHANGED <<db, now, api, work>> /\ inbox[p] # <<>>
      /\ inbox' = [inbox EXCEPT ![p] = Tail(@)]
      /\ task[c].stage = "idle"
      /\ \A d \in Consumers \ {c} : task'[d] = task[d]
      /\ task'[c].stage = "loaded" /\ task'[c].job = j /\ task'[c].entity = db[j]
  BY <1>k DEF Receive, Task
<1>i. inbox[p] \in Seq(Jobs) /\ 1 \in 1 .. Len(inbox[p]) /\ inbox[p][1] = j /\ j \in Jobs
  BY <1>k, <1>r
<1>j. db[j].status = "QUEUED" /\ ~Held(j)
  BY <1>i DEF FlightInv, WaitingIsQueued, Waiting
<1>t. \A q \in Partitions : \A k \in 1 .. Len(inbox'[q]) :
        /\ Before(p, q, k) \in 1 .. Len(inbox[q])
        /\ inbox'[q][k] = inbox[q][Before(p, q, k)]
        /\ ~(q = p /\ Before(p, q, k) = 1)
  BY <1>r, TailPlaces
<1>w. \A k \in Jobs : Waiting(k)' => Waiting(k) /\ k # j
  <2> SUFFICES ASSUME NEW q \in Partitions, NEW m \in 1 .. Len(inbox'[q])
               PROVE  Waiting(inbox'[q][m]) /\ inbox'[q][m] # j
    BY DEF Waiting
  <2>1. PICK i \in 1 .. Len(inbox[q]) : inbox'[q][m] = inbox[q][i] /\ ~(q = p /\ i = 1)
    BY <1>t
  <2>2. inbox[q][i] # j
    BY <1>i, <2>1 DEF FlightInv, OneMessage
  <2> QED
    BY <2>1, <2>2 DEF Waiting
<1>l. \A k \in Jobs : Held(k)' => Held(k) \/ k = j
  BY <1>r DEF Held
<1>1. RequestInv' /\ ListIsFresh' /\ ClaimIsFresh'
  BY <1>r DEF FlightInv, RequestInv, UncreatedIsAbsent, LeftToWatcher, ListIsFresh, Unsaved,
              ClaimIsFresh
<1>2. PublishedIsNew'
  <2> SUFFICES ASSUME NEW w \in Schedulers, work[w].pc = "publish"
               PROVE  /\ db[work[w].cur].status = "QUEUED"
                      /\ ~Waiting(work[w].cur)' /\ ~Held(work[w].cur)'
    BY <1>r DEF PublishedIsNew, Waiting, Held
  <2>1. work[w].cur \in Jobs
    BY DEF HandOK, Holding, TypeOK, WorkTypeOK, Work
  <2>2. /\ db[work[w].cur].status = "QUEUED"
        /\ ~Waiting(work[w].cur) /\ ~Held(work[w].cur)
    BY DEF FlightInv, PublishedIsNew
  <2>3. work[w].cur # j
    BY <1>i, <2>2 DEF Waiting
  <2> QED
    BY <1>w, <1>l, <2>1, <2>2, <2>3
<1>3. WaitingIsQueued'
  <2> SUFFICES ASSUME NEW k \in Jobs, Waiting(k)' PROVE db[k].status = "QUEUED" /\ ~Held(k)'
    BY <1>r DEF WaitingIsQueued
  <2> QED
    BY <1>w, <1>l DEF FlightInv, WaitingIsQueued
<1>4. OneMessage'
  <2> SUFFICES ASSUME NEW q \in Partitions, NEW s \in Partitions,
                      NEW m \in 1 .. Len(inbox'[q]), NEW n \in 1 .. Len(inbox'[s]),
                      inbox'[q][m] = inbox'[s][n]
               PROVE  q = s /\ m = n
    BY DEF OneMessage
  <2>1. /\ Before(p, q, m) \in 1 .. Len(inbox[q]) /\ inbox'[q][m] = inbox[q][Before(p, q, m)]
        /\ Before(p, s, n) \in 1 .. Len(inbox[s]) /\ inbox'[s][n] = inbox[s][Before(p, s, n)]
    BY <1>t
  <2>o. ASSUME NEW a \in 1 .. Len(inbox[q]), NEW b \in 1 .. Len(inbox[s]), inbox[q][a] = inbox[s][b]
        PROVE  q = s /\ a = b
    BY <2>o DEF FlightInv, OneMessage
  <2>2. q = s /\ Before(p, q, m) = Before(p, s, n)
    BY <2>1, <2>o
  <2>3. m \in Int /\ n \in Int
    BY <1>k
  <2> QED
    BY <2>2, <2>3 DEF Before
<1>5. OneHolder'
  BY <1>r, <1>j DEF FlightInv, OneHolder, Held
<1>6. CopiesAreRows'
  <2>1. CopyIsRow(c)'
    <3>1. db[j] = WithStatus(db[j], "QUEUED")
      BY <1>k, <1>i, <1>j, CopyFields
    <3> QED
      BY <1>r, <1>i, <1>j, <3>1 DEF CopyIsRow, Shows, BeforeStart, JobStatus
  <2>2. ASSUME NEW d \in Consumers \ {c} PROVE CopyIsRow(d)'
    BY <1>r DEF FlightInv, CopiesAreRows, CopyIsRow
  <2> QED
    BY <2>1, <2>2 DEF CopiesAreRows
<1> QED
  BY <1>1, <1>2, <1>3, <1>4, <1>5, <1>6 DEF FlightInv
-----------------------------------------------------------------------------
(* The scheduler thread writes the rows of jobs that rest.                 *)

\* What a step of the scheduler thread that sends nothing may do.
SchedulerMoves ==
  /\ UNCHANGED <<inbox, now, api, task>>
  /\ \/ UNCHANGED db
     \/ \E j \in Jobs, row \in Job :
          db[j].status \in Resting /\ RowMoves(j, row) /\ row.at = db[j].at

\* What the scheduler thread w has in mind, when it is the only one.
Mind(w) ==
  /\ work[w].pc \in Listing =>
       \A j \in Jobs : Unsaved(w, j) => db[j] = work[w].batch[j] /\ db[j].status \in Resting
  /\ work[w].pc = "claim" => /\ db[work[w].cur] = work[w].batch[work[w].cur]
                             /\ db[work[w].cur].status = "SCHEDULED"
  /\ work[w].pc = "publish" => /\ db[work[w].cur].status = "QUEUED"
                               /\ ~Waiting(work[w].cur) /\ ~Held(work[w].cur)

\* ... follows from FlightInv, and gives back the parts about the thread.
LEMMA MindIsInv ==
  ASSUME NEW w \in Schedulers, ListIsFresh, ClaimIsFresh, PublishedIsNew
  PROVE  Mind(w)
BY DEF ListIsFresh, ClaimIsFresh, PublishedIsNew, Mind, Resting

LEMMA MindSuffices ==
  ASSUME SoleScheduler, NEW w \in Schedulers, Mind(w)'
  PROVE  ListIsFresh' /\ ClaimIsFresh' /\ PublishedIsNew'
BY DEF SoleScheduler, ListIsFresh, ClaimIsFresh, PublishedIsNew, Mind, Resting

\* A job that rests has no record and no listener.
LEMMA RestingIsFree ==
  ASSUME TypeOK, WaitingIsQueued, CopiesAreRows, NEW j \in Jobs, db[j].status \in Resting
  PROVE  ~Waiting(j) /\ ~Held(j)
<1>1. ~Waiting(j)
  BY DEF WaitingIsQueued, Resting
<1>2. ASSUME NEW c \in Consumers, task[c].job = j PROVE FALSE
  <2>1. task[c].stage # "idle"
    BY <1>2, StoreAssumption DEF CopiesAreRows, CopyIsRow
  <2>2. Shows(task[c].stage, db[j].status)
    BY <1>2, <2>1, HeldRow
  <2> QED
    BY <2>2 DEF Shows, Resting
<1> QED
  BY <1>1, <1>2 DEF Held

\* Nobody else is disturbed by such a step.
LEMMA SchedulerDisturbsNone ==
  ASSUME TypeOK, FlightInv, SchedulerMoves
  PROVE  RequestInv' /\ WaitingIsQueued' /\ OneMessage' /\ OneHolder' /\ CopiesAreRows'
<1>u. UNCHANGED <<inbox, now, api, task>>
  BY DEF SchedulerMoves
<1>k. db \in [Jobs -> Job]
  BY DEF TypeOK, StoreTypeOK
<1>1. ASSUME NEW k \in Jobs PROVE db'[k].at = db[k].at
  BY <1>k DEF SchedulerMoves, RowMoves
<1>2. ASSUME NEW k \in Jobs, db[k].status \notin Resting PROVE db'[k] = db[k]
  BY <1>k, <1>2 DEF SchedulerMoves, RowMoves
<1>3. RequestInv'
  <2>1. UncreatedIsAbsent'
    BY <1>u, <1>2 DEF FlightInv, RequestInv, UncreatedIsAbsent, NoRow, Resting
  <2>2. LeftToWatcher'
    BY <1>u, <1>1 DEF FlightInv, RequestInv, LeftToWatcher
  <2> QED
    BY <2>1, <2>2 DEF RequestInv
<1>4. WaitingIsQueued'
  BY <1>u, <1>2 DEF FlightInv, WaitingIsQueued, Waiting, Held, Resting
<1>5. OneMessage' /\ OneHolder'
  BY <1>u DEF FlightInv, OneMessage, OneHolder
<1>6. CopiesAreRows'
  <2> SUFFICES ASSUME NEW c \in Consumers PROVE CopyIsRow(c)'
    BY DEF CopiesAreRows
  <2>1. CASE task[c].stage = "idle"
    BY <1>u, <2>1 DEF FlightInv, CopiesAreRows, CopyIsRow
  <2>2. CASE task[c].stage # "idle"
    <3>1. task[c].job \in Jobs /\ db[task[c].job].status \notin Resting
      BY <2>2, HeldRow DEF FlightInv, Shows, Resting
    <3> QED
      BY <1>u, <1>2, <2>2, <3>1 DEF FlightInv, CopiesAreRows, CopyIsRow
  <2> QED
    BY <2>1, <2>2
<1> QED
  BY <1>3, <1>4, <1>5, <1>6

\* Saving a copy that is as the row is moves the row as the status says.
LEMMA FreshSave ==
  ASSUME TypeOK, NEW w \in Schedulers, NEW j \in Jobs, NEW s \in JobStatus,
         db[j] = work[w].batch[j], SaveAs(w, j, s), UNCHANGED <<inbox, now, api, task>>,
         db[j].status \in Resting,
         s = "SCHEDULED" \/ (s = "QUEUED" /\ db[j].status = "SCHEDULED")
  PROVE  /\ SchedulerMoves
         /\ db'[j].status = s
         /\ \A k \in Jobs \ {j} : db'[k] = db[k]
<1> DEFINE row == WithStatus(db[j], s)
<1>k. db \in [Jobs -> Job] /\ db[j] \in Job
  BY DEF TypeOK, StoreTypeOK
<1>1. /\ row \in Job /\ row.status = s /\ row.retries = db[j].retries /\ row.at = db[j].at
      /\ db[j].status = s => row = db[j]
  BY <1>k, WithStatusType, CopyFields
<1>2. db' = [db EXCEPT ![j] = row]
  BY DEF SaveAs, Save
<1>3. CASE db[j].status = s
  BY <1>k, <1>1, <1>2, <1>3 DEF SchedulerMoves
<1>4. CASE db[j].status # s
  <2>1. Passes(db[j], row)
    BY <1>1, <1>4 DEF Passes, Resting
  <2>2. SchedulerMoves
    BY <1>1, <1>2, <2>1 DEF SchedulerMoves, RowMoves
  <2> QED
    BY <1>k, <1>1, <1>2, <2>2
<1> QED
  BY <1>3, <1>4

\* A step of watch() saves a copy that is fresh, and forgets it.
LEMMA WatchMinds ==
  ASSUME TypeOK, HandOK, FlightInv, NEW w \in Schedulers, WatchNext(w)
  PROVE  SchedulerMoves /\ Mind(w)'
<1>k. /\ WorkTypeOK /\ db \in [Jobs -> Job] /\ work[w].todo \subseteq Jobs
      /\ "SCHEDULED" \in JobStatus
  BY DEF TypeOK, StoreTypeOK, WorkTypeOK, Work, JobStatus
<1>h. Mind(w)
  BY MindIsInv DEF FlightInv
<1>c. work[w].pc \in Holding => work[w].cur \in work[w].todo
  BY DEF HandOK
<1>u. UNCHANGED <<inbox, now, api, task>>
  BY DEF WatchNext, WatchStart, WatchStep, Heartbeat, GapPublishFails,
         RecoverQuery, RecoverAdd, RecoverSave, RecoverRetryQuery, RecoverRetryAdd,
         RecoverRetrySave, PendingQuery, PendingSave, PendingAdd, RetryQuery, RetrySave, RetryAdd,
         WatchEnd, storeVars, kafkaVars
<1>s. UNCHANGED db => SchedulerMoves
  BY <1>u DEF SchedulerMoves
<1>o. work'[w].pc \notin Listing \cup {"claim", "publish"} => Mind(w)'
  BY DEF Mind
\* To establish what is known of a list.
<1>l. ASSUME work'[w].pc \in Listing,
             \A j \in Jobs : Unsaved(w, j)' => db'[j] = work'[w].batch[j] /\ db'[j].status \in Resting
      PROVE  Mind(w)'
  BY <1>l DEF Mind, Listing
<1>q. ASSUME NEW pc \in {"recoverAdd", "recoverRetryAdd", "pendingSave", "retrySave"},
             NEW S \in SUBSET Jobs, \A j \in S : db[j].status \in Resting,
             Fetch(w, pc, S), UNCHANGED db
      PROVE  SchedulerMoves /\ Mind(w)'
  <2>1. /\ work'[w].pc = pc /\ work'[w].todo = S
        /\ work'[w].batch = [j \in Jobs |-> IF j \in S THEN db[j] ELSE NoRow]
    BY <1>k, <1>q, FetchMove
  <2> QED
    BY <1>s, <1>l, <1>q, <2>1 DEF Unsaved, Listing
<1>f. ASSUME NEW pc \in {"recoverAdd", "recoverRetryAdd", "pendingSave", "retrySave"},
             NEW j \in work[w].todo, work[w].pc \in Listing, Finish(w, pc, j),
             work[w].cur = j \/ work[w].pc \notin {"pendingAdd", "retryAdd"},
             \A k \in Jobs \ {j} : db'[k] = db[k]
      PROVE  Mind(w)'
  <2>1. work'[w].pc = pc /\ work'[w].todo = work[w].todo \ {j}
    BY <1>k, <1>f, FinishMove
  <2>2. \A k \in work'[w].todo : k \in work[w].todo /\ work'[w].batch[k] = work[w].batch[k]
    BY <1>k, <1>f, FinishedList
  <2>3. ASSUME NEW k \in Jobs, Unsaved(w, k)'
        PROVE  db'[k] = work'[w].batch[k] /\ db'[k].status \in Resting
    <3>1. k \in work'[w].todo /\ k # j
      BY <2>1, <2>3 DEF Unsaved
    <3>2. k \in work[w].todo /\ work'[w].batch[k] = work[w].batch[k] /\ db'[k] = db[k]
      BY <1>f, <2>2, <3>1
    <3>3. Unsaved(w, k)
      BY <1>f, <3>1, <3>2 DEF Unsaved
    <3> QED
      BY <1>f, <1>h, <3>2, <3>3 DEF Mind
  <2> QED
    BY <1>l, <2>1, <2>3 DEF Listing
<1>t. ASSUME NEW pc \in {"recoverSave", "recoverRetrySave", "pendingAdd", "retryAdd"},
             NEW j \in work[w].todo, Take(w, pc, j),
             work[w].pc \in {"recoverAdd", "recoverRetryAdd", "pendingSave", "retrySave"},
             \A k \in Jobs \ {j} : db'[k] = db[k],
             pc \in {"pendingAdd", "retryAdd"} \/ db'[j] = db[j]
      PROVE  Mind(w)'
  <2>1. /\ work'[w].pc = pc /\ work'[w].cur = j
        /\ work'[w].todo = work[w].todo /\ work'[w].batch = work[w].batch
    BY <1>k, <1>t, TakeMove
  <2>2. ASSUME NEW k \in Jobs, Unsaved(w, k)'
        PROVE  db'[k] = work'[w].batch[k] /\ db'[k].status \in Resting
    <3>1. Unsaved(w, k) /\ db'[k] = db[k]
      BY <1>t, <2>1, <2>2 DEF Unsaved
    <3> QED
      BY <1>h, <1>t, <2>1, <3>1 DEF Mind, Listing
  <2> QED
    BY <1>l, <2>1, <2>2 DEF Listing
\* To save an entity of the list.
<1>v. ASSUME NEW j \in work[w].todo, SaveAs(w, j, "SCHEDULED"),
             work[w].pc \in {"recoverSave", "recoverRetrySave", "pendingSave", "retrySave"}
      PROVE  SchedulerMoves /\ \A k \in Jobs \ {j} : db'[k] = db[k]
  <2>1. j \in Jobs /\ Unsaved(w, j)
    BY <1>k, <1>v DEF Unsaved
  <2>2. db[j] = work[w].batch[j] /\ db[j].status \in Resting
    BY <1>h, <1>v, <2>1 DEF Mind, Listing
  <2> QED
    BY <1>k, <1>u, <1>v, <2>1, <2>2, FreshSave
\* The actions.
<1>1. CASE WatchStart(w)
  <2>1. work'[w].pc \in {"beat", "beatGap"}
    BY <1>k, <1>1 DEF WatchStart, WorkTypeOK, Work
  <2> QED
    BY <1>s, <1>o, <1>1, <2>1 DEF WatchStart, storeVars, Listing
<1>2. CASE Heartbeat(w)
  <2>1. work'[w].pc \in {"recover", "pending"}
    BY <1>k, <1>2, GotoMove DEF Heartbeat
  <2> QED
    BY <1>s, <1>o, <1>2, <2>1 DEF Heartbeat, Listing
<1>3. CASE GapPublishFails(w) \/ WatchEnd(w)
  <2>1. work'[w].pc = "idle"
    BY <1>k, <1>3, ReturnMove DEF GapPublishFails, WatchEnd
  <2> QED
    BY <1>s, <1>o, <1>3, <2>1 DEF GapPublishFails, WatchEnd, storeVars, Listing
<1>4. CASE RecoverQuery(w)
  <2>1. PICK S \in Page(FindPendingOrScheduledInRange(work[w].clock - RecoveryWindow, work[w].clock),
                         RecoverPage) : Fetch(w, "recoverAdd", S)
    BY <1>4 DEF RecoverQuery
  <2>2. S \in SUBSET Jobs /\ \A j \in S : db[j].status \in Resting
    BY PageType DEF FindPendingOrScheduledInRange, Resting
  <2> QED
    BY <1>q, <1>4, <2>1, <2>2 DEF RecoverQuery, storeVars
<1>5. CASE RecoverRetryQuery(w)
  <2>1. PICK S \in Page(FindRetryInRange(work[w].clock - RecoveryWindow, work[w].clock),
                         RecoverPage) : Fetch(w, "recoverRetryAdd", S)
    BY <1>5 DEF RecoverRetryQuery
  <2>2. S \in SUBSET Jobs /\ \A j \in S : db[j].status \in Resting
    BY PageType DEF FindRetryInRange, FindRetryWindow, Resting
  <2> QED
    BY <1>q, <1>5, <2>1, <2>2 DEF RecoverRetryQuery, storeVars
<1>6. CASE PendingQuery(w)
  <2>1. PICK S \in OldestPage(FindWindow(Null, Later(work[w].clock, Lookahead)), WatchPage,
                               ScheduleTimes(db)) : Fetch(w, "pendingSave", S)
    BY <1>6 DEF PendingQuery
  <2>2. S \in SUBSET Jobs /\ \A j \in S : db[j].status \in Resting
    BY OldestPageType DEF FindWindow, Resting
  <2> QED
    BY <1>q, <1>6, <2>1, <2>2 DEF PendingQuery, storeVars
<1>7. CASE RetryQuery(w)
  <2>1. PICK S \in OldestPage(FindRetryWindow(Null, Later(work[w].clock, Lookahead)), WatchPage,
                               NextRetryTimes(db)) : Fetch(w, "retrySave", S)
    BY <1>7 DEF RetryQuery
  <2>2. S \in SUBSET Jobs /\ \A j \in S : db[j].status \in Resting
    BY OldestPageType DEF FindRetryWindow, Resting
  <2> QED
    BY <1>q, <1>7, <2>1, <2>2 DEF RetryQuery, storeVars
<1>8. CASE RecoverAdd(w)
  <2>1. PICK j \in work[w].todo :
          IF work[w].batch[j].status = "PENDING"
            THEN Take(w, "recoverSave", j) ELSE Finish(w, "recoverAdd", j)
    BY <1>8 DEF RecoverAdd
  <2>2. UNCHANGED db /\ work[w].pc = "recoverAdd"
    BY <1>8 DEF RecoverAdd
  <2>3. CASE Take(w, "recoverSave", j)
    BY <1>k, <1>s, <1>t, <2>2, <2>3
  <2>4. CASE Finish(w, "recoverAdd", j)
    BY <1>s, <1>f, <2>2, <2>4 DEF Listing
  <2> QED
    BY <2>1, <2>3, <2>4
<1>9. CASE RecoverSave(w)
  <2>1. work[w].pc = "recoverSave" /\ work[w].cur \in work[w].todo
    BY <1>c, <1>9 DEF RecoverSave, Holding
  <2>2. SchedulerMoves /\ \A k \in Jobs \ {work[w].cur} : db'[k] = db[k]
    BY <1>v, <1>9, <2>1 DEF RecoverSave
  <2> QED
    BY <1>f, <1>9, <2>1, <2>2 DEF RecoverSave, Listing
<1>10. CASE RecoverRetryAdd(w)
  <2>1. PICK j \in work[w].todo : Take(w, "recoverRetrySave", j)
    BY <1>10 DEF RecoverRetryAdd
  <2> QED
    BY <1>k, <1>s, <1>t, <1>10, <2>1 DEF RecoverRetryAdd
<1>11. CASE RecoverRetrySave(w)
  <2>1. work[w].pc = "recoverRetrySave" /\ work[w].cur \in work[w].todo
    BY <1>c, <1>11 DEF RecoverRetrySave, Holding
  <2>2. SchedulerMoves /\ \A k \in Jobs \ {work[w].cur} : db'[k] = db[k]
    BY <1>v, <1>11, <2>1 DEF RecoverRetrySave
  <2> QED
    BY <1>f, <1>11, <2>1, <2>2 DEF RecoverRetrySave, Listing
<1>12. CASE PendingSave(w)
  <2>1. PICK j \in work[w].todo : SaveAs(w, j, "SCHEDULED") /\ Take(w, "pendingAdd", j)
    BY <1>12 DEF PendingSave, Earliest
  <2>2. SchedulerMoves /\ \A k \in Jobs \ {j} : db'[k] = db[k]
    BY <1>v, <1>12, <2>1 DEF PendingSave
  <2> QED
    BY <1>t, <1>12, <2>1, <2>2 DEF PendingSave
<1>13. CASE RetrySave(w)
  <2>1. PICK j \in work[w].todo : SaveAs(w, j, "SCHEDULED") /\ Take(w, "retryAdd", j)
    BY <1>13 DEF RetrySave, Earliest
  <2>2. SchedulerMoves /\ \A k \in Jobs \ {j} : db'[k] = db[k]
    BY <1>v, <1>13, <2>1 DEF RetrySave
  <2> QED
    BY <1>t, <1>13, <2>1, <2>2 DEF RetrySave
<1>14. CASE PendingAdd(w)
  <2>1. work[w].pc = "pendingAdd" /\ work[w].cur \in work[w].todo /\ UNCHANGED db
    BY <1>c, <1>14 DEF PendingAdd, Holding
  <2> QED
    BY <1>s, <1>f, <1>14, <2>1 DEF PendingAdd, Listing
<1>15. CASE RetryAdd(w)
  <2>1. work[w].pc = "retryAdd" /\ work[w].cur \in work[w].todo /\ UNCHANGED db
    BY <1>c, <1>15 DEF RetryAdd, Holding
  <2> QED
    BY <1>s, <1>f, <1>15, <2>1 DEF RetryAdd, Listing
<1> QED
  BY <1>1, <1>2, <1>3, <1>4, <1>5, <1>6, <1>7, <1>8, <1>9, <1>10, <1>11, <1>12, <1>13,
     <1>14, <1>15 DEF WatchNext, WatchStep

\* A step of dispatch() claims the row it has just read, and sends it later.
LEMMA DispatchMinds ==
  ASSUME TypeOK, HandOK, FlightInv, NEW w \in Schedulers, DispatchNow(w), ~DispatchPublish(w)
  PROVE  SchedulerMoves /\ Mind(w)'
<1>k. /\ WorkTypeOK /\ db \in [Jobs -> Job] /\ work[w].todo \subseteq Jobs
      /\ work[w].batch \in [Jobs -> Job]
  BY DEF TypeOK, StoreTypeOK, WorkTypeOK, Work
<1>h. Mind(w)
  BY MindIsInv DEF FlightInv
<1>u. UNCHANGED <<inbox, now, api, task>>
  BY DEF DispatchNow, DispatchStep, DispatchStart, DispatchLoad, DispatchDrop, DispatchClaim,
         DispatchSendThrows, DispatchRemove, storeVars, kafkaVars
<1>s. UNCHANGED db => SchedulerMoves
  BY <1>u DEF SchedulerMoves
<1>1. CASE DispatchStart(w)
  <2>1. work'[w].pc = "load"
    BY <1>k, <1>1 DEF DispatchStart, WorkTypeOK, Work
  <2> QED
    BY <1>s, <1>1, <2>1 DEF DispatchStart, storeVars, Mind, Listing
<1>2. CASE DispatchLoad(w)
  <2>1. PICK j \in work[w].todo :
          work' = [work EXCEPT ![w].pc = IF db[j].status = "SCHEDULED" THEN "claim" ELSE "drop",
                               ![w].cur = j, ![w].batch = [@ EXCEPT ![j] = db[j]]]
    BY <1>2 DEF DispatchLoad
  <2>2. /\ work'[w].pc = (IF db[j].status = "SCHEDULED" THEN "claim" ELSE "drop")
        /\ work'[w].cur = j /\ work'[w].batch = [work[w].batch EXCEPT ![j] = db[j]]
    BY <1>k, <2>1 DEF WorkTypeOK, Work
  <2>3. work'[w].batch[j] = db[j]
    BY <1>k, <2>2
  <2> QED
    BY <1>s, <1>2, <2>2, <2>3 DEF DispatchLoad, storeVars, Mind, Listing
<1>3. CASE DispatchDrop(w) \/ DispatchSendThrows(w) \/ DispatchRemove(w)
  <2>1. work'[w].pc \in {"idle", "load"}
    BY <1>k, <1>3, DispatchNextMove DEF DispatchDrop, DispatchSendThrows, DispatchRemove
  <2> QED
    BY <1>s, <1>3, <2>1 DEF DispatchDrop, DispatchSendThrows, DispatchRemove, Mind, Listing
<1>4. CASE DispatchClaim(w)
  <2> DEFINE j == work[w].cur
  <2>1. /\ work[w].pc = "claim" /\ j \in Jobs
        /\ work'[w].pc = "publish" /\ work'[w].cur = j
    BY <1>k, <1>4, GotoMove DEF DispatchClaim, HandOK, Holding
  <2>2. db[j] = work[w].batch[j] /\ db[j].status = "SCHEDULED"
    BY <1>h, <2>1 DEF Mind
  <2>3. SchedulerMoves /\ db'[j].status = "QUEUED"
    BY <1>u, <1>4, <2>1, <2>2, FreshSave DEF DispatchClaim, JobStatus, Resting
  <2>4. ~Waiting(j) /\ ~Held(j)
    BY <2>1, <2>2, RestingIsFree DEF FlightInv, Resting
  <2>5. ~Waiting(j)' /\ ~Held(j)'
    BY <1>u, <2>1, <2>4 DEF Waiting, Held
  <2>6. /\ db'[work'[w].cur].status = "QUEUED"
        /\ ~Waiting(work[w].cur)' /\ ~Held(work[w].cur)'
    BY <2>1, <2>3, <2>5 DEF Waiting, Held
  <2> QED
    BY <2>1, <2>3, <2>6 DEF Mind, Listing
<1> QED
  BY <1>1, <1>2, <1>3, <1>4 DEF DispatchNow, DispatchStep

\* A record that is sent for a job that has none is its only one.
LEMMA SentIsOne ==
  ASSUME TypeOK, OneMessage, NEW j \in Jobs, ~Waiting(j), SendJob(j)
  PROVE  OneMessage' /\ \A k \in Jobs : Waiting(k)' => Waiting(k) \/ k = j
<1>1. CASE UNCHANGED inbox
  BY <1>1 DEF OneMessage, Waiting
<1>2. ASSUME NEW p \in Partitions, inbox' = [inbox EXCEPT ![p] = Append(@, j)]
      PROVE  OneMessage' /\ \A k \in Jobs : Waiting(k)' => Waiting(k) \/ k = j
  <2>1. inbox \in [Partitions -> Seq(Jobs)]
    BY DEF TypeOK, StoreTypeOK
  <2> DEFINE n == Len(inbox[p]) + 1
  <2>2. inbox'[p] = Append(inbox[p], j) /\ inbox[p] \in Seq(Jobs)
    BY <1>2, <2>1
  <2>3. \A i \in 1 .. Len(inbox'[p]) :
          \/ i \in 1 .. Len(inbox[p]) /\ inbox'[p][i] = inbox[p][i]
          \/ i = n /\ inbox'[p][i] = j
    BY <2>2
  <2>4. \A q \in Partitions \ {p} : inbox'[q] = inbox[q]
    BY <1>2, <2>1
  <2>5. \A q \in Partitions : \A i \in 1 .. Len(inbox'[q]) :
          \/ i \in 1 .. Len(inbox[q]) /\ inbox'[q][i] = inbox[q][i] /\ inbox'[q][i] # j
          \/ q = p /\ i = n /\ inbox'[q][i] = j
    <3> SUFFICES ASSUME NEW q \in Partitions, NEW i \in 1 .. Len(inbox'[q])
                 PROVE  \/ i \in 1 .. Len(inbox[q]) /\ inbox'[q][i] = inbox[q][i] /\ inbox'[q][i] # j
                        \/ q = p /\ i = n /\ inbox'[q][i] = j
      OBVIOUS
    <3>1. \A m \in 1 .. Len(inbox[q]) : inbox[q][m] # j
      BY DEF Waiting
    <3> HIDE DEF n
    <3> QED
      BY <2>3, <2>4, <3>1
  <2> HIDE DEF n
  <2>6. OneMessage'
    <3> SUFFICES ASSUME NEW q \in Partitions, NEW s \in Partitions,
                        NEW i \in 1 .. Len(inbox'[q]), NEW m \in 1 .. Len(inbox'[s]),
                        inbox'[q][i] = inbox'[s][m]
                 PROVE  q = s /\ i = m
      BY DEF OneMessage
    <3>1. ASSUME NEW a \in 1 .. Len(inbox[q]), NEW b \in 1 .. Len(inbox[s]), inbox[q][a] = inbox[s][b]
          PROVE  q = s /\ a = b
      BY <3>1 DEF OneMessage
    <3> QED
      BY <2>5, <3>1
  <2>7. ASSUME NEW k \in Jobs, Waiting(k)' PROVE Waiting(k) \/ k = j
    BY <2>5, <2>7 DEF Waiting
  <2> QED
    BY <2>6, <2>7
<1> QED
  BY <1>1, <1>2 DEF SendJob

\* The record of a claimed job is its only one, whether it arrives or not.
LEMMA PublishFlight ==
  ASSUME SoleScheduler, TypeOK, HandOK, FlightInv, NEW w \in Schedulers,
         DispatchNow(w), DispatchPublish(w)
  PROVE  FlightInv' /\ UNCHANGED db
<1> DEFINE j == work[w].cur
<1>k. WorkTypeOK /\ work[w].todo \subseteq Jobs
  BY DEF TypeOK, WorkTypeOK, Work
<1>1. work[w].pc = "publish" /\ j \in Jobs /\ work'[w].pc = "remove"
  BY <1>k, GotoMove DEF DispatchPublish, HandOK, Holding
<1>2. UNCHANGED <<db, now, api, task>>
  BY DEF DispatchNow, DispatchPublish
<1>3. db[j].status = "QUEUED" /\ ~Waiting(j) /\ ~Held(j)
  BY <1>1 DEF FlightInv, PublishedIsNew
<1>4. OneMessage' /\ \A k \in Jobs : Waiting(k)' => Waiting(k) \/ k = j
  BY <1>1, <1>3, SentIsOne DEF FlightInv, DispatchPublish
<1>5. Mind(w)'
  BY <1>1 DEF Mind, Listing
<1>6. WaitingIsQueued'
  BY <1>2, <1>3, <1>4 DEF FlightInv, WaitingIsQueued, Held
<1>7. RequestInv' /\ OneHolder' /\ CopiesAreRows'
  BY <1>2 DEF FlightInv, RequestInv, UncreatedIsAbsent, LeftToWatcher, OneHolder, CopiesAreRows,
              CopyIsRow
<1> QED
  BY <1>2, <1>4, <1>5, <1>6, <1>7, MindSuffices DEF FlightInv

\* What the one scheduler thread does keeps FlightInv.
LEMMA SchedulerFlight ==
  ASSUME SoleScheduler, TypeOK, HandOK, FlightInv, NEW w \in Schedulers,
         WatchNext(w) \/ DispatchNow(w)
  PROVE  FlightInv' /\ StoreMoves
<1>1. CASE DispatchNow(w) /\ DispatchPublish(w)
  BY <1>1, PublishFlight DEF StoreMoves
<1>2. CASE SchedulerMoves /\ Mind(w)'
  <2>1. FlightInv'
    BY <1>2, SchedulerDisturbsNone, MindSuffices DEF FlightInv
  <2> QED
    BY <1>2, <2>1 DEF SchedulerMoves, StoreMoves
<1> QED
  BY <1>1, <1>2, WatchMinds, DispatchMinds

-----------------------------------------------------------------------------
(* The other steps.                                                        *)

\* The request that creates a job finds no row, and leaves it to the watcher.
LEMMA CreateKept ==
  ASSUME ScheduledAhead, TypeOK, RequestInv, NEW j \in Jobs, NEW d \in Delays, CreateJob(j, d)
  PROVE  /\ db[j] = NoRow
         /\ NewRow(now + d) \in Job /\ db'[j] = NewRow(now + d)
         /\ \A k \in Jobs \ {j} : db'[k] = db[k]
         /\ RequestInv'
<1>k. /\ db \in [Jobs -> Job] /\ now \in Clock
      /\ api \in [Jobs -> {"none", "saved", "queued", "done"}]
  BY DEF TypeOK, StoreTypeOK, ApiTypeOK
<1>n. db[j] = NoRow
  BY DEF RequestInv, UncreatedIsAbsent, CreateJob
<1>r. NewRow(now + d) \in Job /\ NewRow(now + d).at = now + d
  <2>1. now + d \in Time
    BY <1>k, ApiAssumption, StoreAssumption DEF CreateJob, Clock, Time
  <2> QED
    BY <2>1, NewRowType DEF NewRow
<1>d. /\ db'[j] = NewRow(now + d) /\ \A k \in Jobs \ {j} : db'[k] = db[k]
      /\ UNCHANGED now
  BY <1>k DEF CreateJob, Save
<1>a. api'[j] = "saved" /\ \A k \in Jobs \ {j} : api'[k] = api[k]
  BY <1>k DEF CreateJob
<1>1. UncreatedIsAbsent'
  BY <1>d, <1>a DEF RequestInv, UncreatedIsAbsent
<1>2. db'[j].at - now > ImmediateThreshold
  <2>1. d \in Nat /\ d > ImmediateThreshold /\ now \in Int /\ ImmediateThreshold \in Nat
    BY <1>k, ApiAssumption DEF ScheduledAhead, Clock
  <2> QED
    BY <1>d, <1>r, <2>1
<1>3. LeftToWatcher'
  BY <1>d, <1>a, <1>2 DEF RequestInv, LeftToWatcher
<1> QED
  BY <1>n, <1>r, <1>d, <1>1, <1>3 DEF RequestInv

\* ... and finds the job nowhere else.
LEMMA CreateFlight ==
  ASSUME ScheduledAhead, TypeOK, HandOK, FlightInv, NEW j \in Jobs, NEW d \in Delays,
         CreateJob(j, d), UNCHANGED <<work, task, circuit>>
  PROVE  FlightInv' /\ StoreMoves
<1>r. /\ RequestInv' /\ db[j] = NoRow /\ db'[j] = NewRow(now + d) /\ NewRow(now + d) \in Job
      /\ \A k \in Jobs \ {j} : db'[k] = db[k]
  BY CreateKept DEF FlightInv
<1>n. db[j].status = "NONE" /\ db[j].retries = 0
  BY <1>r DEF NoRow
<1>d. /\ db'[j] = NewRow(now + d) /\ \A k \in Jobs \ {j} : db'[k] = db[k]
      /\ UNCHANGED <<inbox, now, work, task>>
  BY <1>r DEF CreateJob, kafkaVars
<1>2. ListIsFresh'
  BY <1>d, <1>n DEF FlightInv, ListIsFresh, Unsaved
<1>3. ClaimIsFresh' /\ PublishedIsNew'
  <2>1. ASSUME NEW w \in Schedulers, work[w].pc \in {"claim", "publish"}
        PROVE  db'[work[w].cur] = db[work[w].cur]
    <3>1. work[w].cur \in Jobs
      BY <2>1 DEF HandOK, Holding, TypeOK, WorkTypeOK, Work
    <3>2. work[w].cur # j
      BY <1>n, <2>1 DEF FlightInv, ClaimIsFresh, PublishedIsNew
    <3> QED
      BY <1>d, <3>1, <3>2
  <2> QED
    BY <1>d, <2>1 DEF FlightInv, ClaimIsFresh, PublishedIsNew, Waiting, Held
<1>4. WaitingIsQueued'
  <2> SUFFICES ASSUME NEW k \in Jobs, Waiting(k) PROVE db'[k].status = "QUEUED" /\ ~Held(k)
    BY <1>d DEF WaitingIsQueued, Waiting, Held
  <2>1. db[k].status = "QUEUED" /\ ~Held(k)
    BY DEF FlightInv, WaitingIsQueued
  <2> QED
    BY <1>n, <1>d, <2>1
<1>5. OneMessage' /\ OneHolder'
  BY <1>d DEF FlightInv, OneMessage, OneHolder
<1>6. CopiesAreRows'
  <2> SUFFICES ASSUME NEW c \in Consumers PROVE CopyIsRow(c)'
    BY DEF CopiesAreRows
  <2>1. CASE task[c].stage = "idle"
    BY <1>d, <2>1 DEF FlightInv, CopiesAreRows, CopyIsRow
  <2>2. CASE task[c].stage # "idle"
    <3>1. task[c].job \in Jobs /\ db[task[c].job].status # "NONE"
      BY <2>2, HeldRow DEF FlightInv, Shows
    <3>2. db'[task[c].job] = db[task[c].job]
      BY <1>n, <1>d, <3>1
    <3> QED
      BY <1>d, <2>2, <3>2 DEF FlightInv, CopiesAreRows, CopyIsRow
  <2> QED
    BY <2>1, <2>2
<1>7. StoreMoves
  <2>1. Passes(db[j], NewRow(now + d))
    BY <1>n DEF Passes, NewRow
  <2>2. db' = [db EXCEPT ![j] = NewRow(now + d)]
    BY DEF CreateJob, Save
  <2> QED
    BY <1>r, <2>1, <2>2 DEF StoreMoves, RowMoves
<1> QED
  BY <1>r, <1>2, <1>3, <1>4, <1>5, <1>6, <1>7 DEF FlightInv

\* A step that leaves the rows, the records and the listeners alone.
LEMMA QuietFlight ==
  ASSUME FlightInv, UNCHANGED <<db, inbox, task>>, RequestInv',
         \A w \in Schedulers : work'[w] = work[w] \/ work'[w].pc = "idle"
  PROVE  FlightInv' /\ StoreMoves
<1>1. ListIsFresh'
  BY DEF FlightInv, ListIsFresh, Unsaved, Listing
<1>2. ClaimIsFresh' /\ PublishedIsNew'
  BY DEF FlightInv, ClaimIsFresh, PublishedIsNew, Waiting, Held
<1>3. WaitingIsQueued' /\ OneMessage' /\ OneHolder'
  BY DEF FlightInv, WaitingIsQueued, OneMessage, OneHolder, Waiting, Held
<1>4. CopiesAreRows'
  BY DEF FlightInv, CopiesAreRows, CopyIsRow
<1> QED
  BY <1>1, <1>2, <1>3, <1>4 DEF FlightInv, StoreMoves

\* The later steps of a request leave the job to the watcher.
LEMMA RequestKept ==
  ASSUME ScheduledAhead, TypeOK, RequestInv, NEW j \in Jobs,
         RouteJob(j) \/ PublishCreated(j) \/ CancelJob(j)
  PROVE  RequestInv' /\ UNCHANGED <<db, inbox>>
<1>k. api \in [Jobs -> {"none", "saved", "queued", "done"}]
  BY DEF TypeOK, ApiTypeOK
<1>1. ~PublishCreated(j)
  BY DEF RequestInv, LeftToWatcher, PublishCreated
<1>2. CASE CancelJob(j)
  BY <1>2 DEF CancelJob, RequestInv, UncreatedIsAbsent, LeftToWatcher, kafkaVars
<1>3. CASE RouteJob(j)
  <2>1. api[j] = "saved" /\ db[j].at - now > ImmediateThreshold
    BY <1>3 DEF RouteJob, RequestInv, LeftToWatcher
  <2>2. ~(db[j].at - now <= ImmediateThreshold)
    <3>1. db[j].at \in Int /\ now \in Int /\ ImmediateThreshold \in Int
      BY ApiAssumption DEF TypeOK, StoreTypeOK, Job, Time, Clock
    <3> QED
      BY <2>1, <3>1
  <2>3. api' = [api EXCEPT ![j] = "done"] /\ UNCHANGED <<db, inbox, now>>
    BY <1>3, <2>2 DEF RouteJob, kafkaVars
  <2> QED
    BY <1>k, <2>1, <2>3 DEF RequestInv, UncreatedIsAbsent, LeftToWatcher
<1> QED
  BY <1>1, <1>2, <1>3

\* The clock does not overtake a request, and a crash only ends one.
LEMMA ClockAndCrashKept ==
  ASSUME ScheduledAhead, TypeOK, RequestInv,
         EnvironmentNext \/ (\E p \in Partitions : CommitNext(p)) \/ UNCHANGED vars
  PROVE  RequestInv' /\ UNCHANGED db
<1>1. CASE Tick
  <2>1. \A j \in Jobs : api[j] # "saved"
    BY <1>1 DEF Tick, PromptApi, ScheduledAhead
  <2> QED
    BY <1>1, <2>1 DEF Tick, RequestInv, UncreatedIsAbsent, LeftToWatcher
<1>2. ASSUME NEW i, Crash(i) PROVE RequestInv' /\ UNCHANGED db
  BY <1>2 DEF Crash, RequestInv, UncreatedIsAbsent, LeftToWatcher
<1>3. CASE UNCHANGED <<db, now, api>>
  BY <1>3 DEF RequestInv, UncreatedIsAbsent, LeftToWatcher
<1> QED
  BY <1>1, <1>2, <1>3 DEF EnvironmentNext, Rebalance, RedisLoss, CommitNext, Commit, vars

\* A step of the environment takes no record back and no job from a listener.
LEMMA EnvironmentFlight ==
  ASSUME ScheduledAhead, DeliveredOnce, TypeOK, FlightInv,
         EnvironmentNext \/ (\E p \in Partitions : CommitNext(p)) \/ UNCHANGED vars
  PROVE  FlightInv' /\ StoreMoves
<1>1. RequestInv' /\ UNCHANGED db
  BY ClockAndCrashKept DEF FlightInv
<1>2. ASSUME NEW i \in Instances, Crash(i)
      PROVE  /\ UNCHANGED <<inbox, task>>
             /\ \A w \in Schedulers : work'[w] = work[w] \/ work'[w].pc = "idle"
  <2>1. \A c \in Consumers : HostOf[c] # i
    BY <1>2 DEF Crash, DeliveredOnce, ListenersSurvive
  <2>2. task \in [Consumers -> Task] /\ inbox \in [Partitions -> Seq(Jobs)]
        /\ owner \in [Partitions -> Consumers]
    BY DEF TypeOK, StoreTypeOK, ConsumerTypeOK
  <2>3. UNCHANGED task
    BY <1>2, <2>1, <2>2 DEF Crash
  <2>4. \A p \in Partitions : p \notin {q \in Partitions : HostOf[owner[q]] = i}
    BY <2>1, <2>2
  <2>5. UNCHANGED inbox
    BY <1>2, <2>2, <2>4 DEF Crash, Rewind
  <2>6. \A w \in Schedulers : work'[w] = work[w] \/ work'[w].pc = "idle"
    BY <1>2 DEF Crash, IdleWork
  <2> QED
    BY <2>3, <2>5, <2>6
<1>3. ~(\E p \in Partitions, c \in Consumers : Rebalance(p, c))
  BY DEF Rebalance, Fault, DeliveredOnce
<1>4. /\ UNCHANGED <<inbox, task>>
      /\ \A w \in Schedulers : work'[w] = work[w] \/ work'[w].pc = "idle"
  BY <1>2, <1>3 DEF EnvironmentNext, Tick, RedisLoss, CommitNext, Commit, vars, kafkaVars
<1> QED
  BY <1>1, <1>4, QuietFlight

\* Each step keeps FlightInv, and moves at most one row, by one move.
LEMMA FlightStep ==
  ASSUME SoleScheduler, ScheduledAhead, DeliveredOnce, TypeOK, HandOK, FlightInv, [Next]_vars
  PROVE  FlightInv' /\ StoreMoves
<1>1. CASE \E w \in Schedulers : WatchNext(w) \/ DispatchNow(w)
  BY <1>1, SchedulerFlight
<1>2. CASE \E j \in Jobs : ApiNext(j)
  <2> PICK j \in Jobs : ApiNext(j)
    BY <1>2
  <2>1. CASE \E d \in Delays : CreateJob(j, d)
    BY <2>1, CreateFlight DEF ApiNext
  <2>2. CASE RouteJob(j) \/ PublishCreated(j) \/ CancelJob(j)
    <3>1. RequestInv' /\ UNCHANGED <<db, inbox>>
      BY <2>2, RequestKept DEF FlightInv
    <3> QED
      BY <3>1, QuietFlight DEF ApiNext
  <2> QED
    BY <2>1, <2>2 DEF ApiNext
<1>3. CASE \E c \in Consumers : ConsumeNext(c)
  <2> PICK c \in Consumers : ConsumeNext(c)
    BY <1>3
  <2>1. ~ConsumeThrows(c)
    BY DEF ConsumeThrows, Fault, DeliveredOnce, ListenersSurvive
  <2>2. UNCHANGED <<api, work>>
    BY DEF ConsumeNext
  <2>3. CASE \E p \in Partitions : Receive(c, p)
    BY <2>2, <2>3, ReceiveFlight DEF Receive, StoreMoves
  <2>4. CASE ConsumeStep(c) \/ AttemptThrows(c)
    <3>1. HolderMoves(c)
      BY <2>2, <2>4, HolderStep DEF FlightInv
    <3>2. StoreMoves
      BY <3>1 DEF HolderMoves, StoreMoves
    <3> QED
      BY <3>1, <3>2, HolderFlight
  <2> QED
    BY <2>1, <2>3, <2>4 DEF ConsumeNext
<1>4. CASE EnvironmentNext \/ (\E p \in Partitions : CommitNext(p)) \/ UNCHANGED vars
  BY <1>4, EnvironmentFlight
<1> QED
  BY <1>1, <1>2, <1>3, <1>4 DEF Next

-----------------------------------------------------------------------------
\* With one scheduler thread, jobs scheduled ahead and records delivered once,
\* each job is on one list, in one partition or with one listener, which alone
\* writes its row: no interleaving of watch(), dispatch(), the requests and the
\* listeners, no loss of Redis or of a send, no crash of the scheduler's
\* instance and no failed save of an attempt makes a second copy.
THEOREM FlightSafe ==
  ASSUME SoleScheduler, ScheduledAhead, DeliveredOnce
  PROVE  Spec => [](TypeOK /\ HandOK /\ FlightInv)
<1>1. Init => FlightInv
  <2> SUFFICES ASSUME Init PROVE FlightInv
    OBVIOUS
  <2> USE DEF Init
  <2>1. \A w \in Schedulers : work[w].pc = "idle"
    BY DEF WorkInit, IdleWork
  <2>2. \A c \in Consumers : task[c].stage = "idle" /\ task[c].job = NoJob
    BY DEF ConsumerInit, IdleTask
  <2>3. \A p \in Partitions : inbox[p] = <<>> /\ 1 .. Len(inbox[p]) = {}
    BY DEF StoreInit
  <2>4. RequestInv
    BY DEF StoreInit, ApiInit, RequestInv, UncreatedIsAbsent, LeftToWatcher
  <2>5. ListIsFresh /\ ClaimIsFresh /\ PublishedIsNew
    BY <2>1 DEF ListIsFresh, ClaimIsFresh, PublishedIsNew, Listing
  <2>6. WaitingIsQueued /\ OneMessage
    BY <2>3 DEF WaitingIsQueued, OneMessage, Waiting
  <2>7. OneHolder /\ CopiesAreRows
    BY <2>2, StoreAssumption DEF OneHolder, CopiesAreRows, CopyIsRow
  <2> QED
    BY <2>4, <2>5, <2>6, <2>7 DEF FlightInv
<1>2. TypeOK /\ HandOK /\ FlightInv /\ [Next]_vars => FlightInv'
  BY FlightStep
<1> QED
  BY <1>1, <1>2, TypeCorrect, PTL DEF Spec

\* A set any two members of which are equal has at most one.
LEMMA AtMostOne ==
  ASSUME NEW S, \A x, y \in S : x = y
  PROVE  Cardinality(S) = 0 \/ Cardinality(S) = 1
<1>1. CASE S = {}
  BY <1>1, FS_EmptySet
<1>2. CASE S # {}
  <2>1. PICK x \in S : TRUE
    BY <1>2
  <2>2. S = {x}
    BY <2>1
  <2> QED
    BY <2>2, FS_Singleton
<1> QED
  BY <1>1, <1>2

\* There is one way at a time for a job to be started: the dispatcher sends one
\* record for a claim, and a job is claimed again only after its listener has
\* saved RETRY and let it go.
THEOREM SingleFlightSafe ==
  ASSUME SoleScheduler, ScheduledAhead, DeliveredOnce
  PROVE  Spec => []SingleFlight
<1>1. TypeOK /\ FlightInv => SingleFlight
  <2> SUFFICES ASSUME TypeOK, FlightInv, NEW j \in Jobs PROVE Copies(j) <= 1
    BY DEF SingleFlight
  <2> DEFINE M == {m \in Partitions \X (1 .. MaxLog) : m[2] <= Len(inbox[m[1]]) /\ inbox[m[1]][m[2]] = j}
             H == {c \in Consumers : task[c].job = j}
  <2>1. \A m \in M : m[1] \in Partitions /\ m[2] \in 1 .. Len(inbox[m[1]]) /\ inbox[m[1]][m[2]] = j
    <3>1. inbox \in [Partitions -> Seq(Jobs)]
      BY DEF TypeOK, StoreTypeOK
    <3>2. ASSUME NEW p \in Partitions, NEW k \in 1 .. MaxLog, k <= Len(inbox[p])
          PROVE  k \in 1 .. Len(inbox[p])
      BY <3>1, <3>2, StoreAssumption
    <3> QED
      BY <3>2
  <2>2. \A m, n \in M : m = n
    <3> SUFFICES ASSUME NEW m \in M, NEW n \in M PROVE m = n
      OBVIOUS
    <3>1. m[1] = n[1] /\ m[2] = n[2]
      BY <2>1 DEF FlightInv, OneMessage
    <3> QED
      BY <3>1
  <2>3. \A c, d \in H : c = d
    BY DEF FlightInv, OneHolder
  <2>4. M = {} \/ H = {}
    <3> SUFFICES ASSUME M # {} PROVE H = {}
      OBVIOUS
    <3>1. Waiting(j)
      BY <2>1 DEF Waiting
    <3> QED
      BY <3>1 DEF FlightInv, WaitingIsQueued, Held
  <2> HIDE DEF M, H
  <2>5. Cardinality(M) \in {0, 1} /\ Cardinality(H) \in {0, 1}
    BY <2>2, <2>3, AtMostOne
  <2>6. Cardinality(M) = 0 \/ Cardinality(H) = 0
    BY <2>4, FS_EmptySet
  <2>7. Copies(j) = Cardinality(M) + Cardinality(H)
    BY DEF Copies, M, H
  <2> QED
    BY <2>5, <2>6, <2>7
<1> QED
  BY <1>1, FlightSafe, PTL

\* No two listeners execute one job at the same time: a second listener could
\* pass the check of QUEUED only with a record of its own.
THEOREM ExecutedByOneSafe ==
  ASSUME SoleScheduler, ScheduledAhead, DeliveredOnce
  PROVE  Spec => []ExecutedByOne
<1>1. FlightInv => ExecutedByOne
  <2> SUFFICES ASSUME FlightInv, NEW c \in Consumers, NEW d \in Consumers, c # d,
                      task[c].stage \in Running
               PROVE  task[c].job # task[d].job
    BY DEF ExecutedByOne
  <2>1. task[c].job \in Jobs
    BY DEF FlightInv, CopiesAreRows, CopyIsRow, Running
  <2> QED
    BY <2>1 DEF FlightInv, OneHolder
<1> QED
  BY <1>1, FlightSafe, PTL

\* Each step moves at most one row, by one move of the lifecycle; the number of
\* attempts rises with a failure only.
RowsMove == [][StoreMoves]_vars

THEOREM RowsMoveSafe ==
  ASSUME SoleScheduler, ScheduledAhead, DeliveredOnce
  PROVE  Spec => RowsMove
<1>1. TypeOK /\ HandOK /\ FlightInv /\ [Next]_vars => [StoreMoves]_vars
  BY FlightStep
<1> QED
  BY <1>1, FlightSafe, PTL DEF Spec, RowsMove

\* COMPLETED, FAILED and CANCELLED are final: whatever copies of the row the
\* scheduler thread, a request or another listener may hold, none is written
\* over the outcome.
THEOREM TerminalFinal ==
  ASSUME SoleScheduler, ScheduledAhead, DeliveredOnce
  PROVE  Spec => TerminalIsFinal
<1>1. TypeOK /\ [StoreMoves]_vars =>
        [\A j \in Jobs : db[j].status \in Terminal => db'[j].status = db[j].status]_vars
  <2> SUFFICES ASSUME TypeOK, StoreMoves, NEW j \in Jobs, db[j].status \in Terminal
               PROVE  db'[j].status = db[j].status
    OBVIOUS
  <2>1. db \in [Jobs -> Job]
    BY DEF TypeOK, StoreTypeOK
  <2>2. CASE UNCHANGED db
    BY <2>2
  <2>3. ASSUME NEW k \in Jobs, NEW row \in Job, RowMoves(k, row) PROVE k # j
    BY <2>3 DEF RowMoves, Passes, Repeats, FailsFrom, Terminal
  <2> QED
    BY <2>1, <2>2, <2>3 DEF StoreMoves, RowMoves
<1> QED
  BY <1>1, TypeCorrect, RowsMoveSafe, PTL DEF RowsMove, TerminalIsFinal

-----------------------------------------------------------------------------
(* The refinement.                                                         *)

\* A move of a row is a step of the abstract lifecycle.
LEMMA MoveIsStep ==
  ASSUME TypeOK, "saveThrows" \notin FaultKinds, NEW j \in Jobs, NEW row \in Job, RowMoves(j, row)
  PROVE  Lifecycle!Next
<1> DEFINE status == [k \in Jobs |-> db[k].status]
           retries == [k \in Jobs |-> db[k].retries]
<1>k. db \in [Jobs -> Job]
  BY DEF TypeOK, StoreTypeOK
<1>1. status' = [status EXCEPT ![j] = row.status]
  BY <1>k DEF RowMoves
<1>2. retries' = [retries EXCEPT ![j] = row.retries]
  BY <1>k DEF RowMoves
<1>3. status[j] = db[j].status /\ retries[j] = db[j].retries
  OBVIOUS
<1>4. CASE Passes(db[j], row)
  <2>1. row.retries = db[j].retries
    BY <1>4 DEF Passes
  <2>2. retries' = retries
    BY <1>k, <2>1 DEF RowMoves
  <2>3. \/ Lifecycle!Create(j) \/ Lifecycle!Schedule(j) \/ Lifecycle!Enqueue(j)
        \/ Lifecycle!Start(j) \/ Lifecycle!Defer(j) \/ Lifecycle!Cancel(j)
        \/ Lifecycle!Complete(j) \/ Lifecycle!GiveUp(j)
    <3> HIDE DEF status, retries
    <3> QED
      BY <1>1, <1>3, <1>4, <2>2
         DEF Passes, FailsFrom, status, retries, Lifecycle!Move, Lifecycle!Create, Lifecycle!Schedule, Lifecycle!Enqueue,
             Lifecycle!Start, Lifecycle!Defer, Lifecycle!Cancel, Lifecycle!Complete, Lifecycle!GiveUp
  <2> QED
    BY <2>3 DEF Lifecycle!Next
<1>5. CASE Repeats(db[j], row)
  <2>1. Lifecycle!Retry(j)
    BY <1>1, <1>2, <1>3, <1>5 DEF Repeats, FailsFrom, Lifecycle!Retry, Lifecycle!Move
  <2> QED
    BY <2>1 DEF Lifecycle!Next
<1> QED
  BY <1>4, <1>5 DEF RowMoves

\* The rows follow the lifecycle of JobLifecycle: the detailed system, projected
\* on the status and the retry count of its rows, implements it when no save of
\* an attempt throws.  Redis may be lost, the scheduler's instance may crash, and
\* sends may be lost or throw: such a job stays QUEUED.
THEOREM LifecycleFollowed ==
  ASSUME SoleScheduler, ScheduledAhead, DeliveredOnce, "saveThrows" \notin FaultKinds
  PROVE  Spec => FollowsLifecycle
<1>1. Init => Lifecycle!Init
  BY DEF Init, StoreInit, NoRow, Lifecycle!Init
<1>2. TypeOK /\ [StoreMoves]_vars => [Lifecycle!Next]_(Lifecycle!vars)
  <2> SUFFICES ASSUME TypeOK, [StoreMoves]_vars PROVE [Lifecycle!Next]_(Lifecycle!vars)
    OBVIOUS
  <2>1. CASE UNCHANGED db
    BY <2>1 DEF Lifecycle!vars
  <2>2. CASE \E j \in Jobs, row \in Job : RowMoves(j, row)
    BY <2>2, MoveIsStep
  <2> QED
    BY <2>1, <2>2 DEF StoreMoves, vars
<1> QED
  BY <1>1, <1>2, TypeCorrect, RowsMoveSafe, PTL DEF Spec, RowsMove, FollowsLifecycle, Lifecycle!Spec
=============================================================================
