---------------------------- MODULE CarriedProofs ----------------------------
(***************************************************************************)
(* A QUEUED or PROCESSING job always has somebody who will move it on,     *)
(* however many instances there are: each carrier hands the job over or    *)
(* writes another status before it lets it go.                             *)
(***************************************************************************)
EXTENDS JobQueueProofs, QueueInvariants

\* Nothing that is on its way to Kafka or in a listener is lost: no instance
\* crashes, consume() ends without an exception, and a send neither throws nor
\* loses its record.  Redis may be emptied, partitions may move, requests may be
\* slow, a save in an attempt or the publication of a gap may throw.
SendsSucceed ==
  Crashable = {} /\ FaultKinds \cap {"sendLost", "sendThrows", "consumeThrows"} = {}

-----------------------------------------------------------------------------
(* Who writes which status.                                                *)

\* A copy with status s has status s.
LEMMA StatusOfCopy == ASSUME NEW row \in Job, NEW s PROVE WithStatus(row, s).status = s
BY DEF WithStatus, Job

\* A scheduler thread makes no job PROCESSING, and QUEUED only the one it claims.
LEMMA SchedulerWrites ==
  ASSUME TypeOK, NEW w \in Schedulers, WatchNext(w) \/ DispatchNow(w)
  PROVE  /\ UNCHANGED <<api, task>>
         /\ \A k \in Jobs : db'[k].status = "PROCESSING" => db[k].status = "PROCESSING"
         /\ \A k \in Jobs : db'[k].status = "QUEUED" =>
              db[k].status = "QUEUED" \/ (DispatchClaim(w) /\ k = work[w].cur)
<1>k. db \in [Jobs -> Job] /\ work[w].cur \in Jobs \cup {NoJob}
      /\ work[w].batch \in [Jobs -> Job] /\ work[w].todo \in SUBSET Jobs
  BY DEF TypeOK, StoreTypeOK, WorkTypeOK, Work
<1>u. UNCHANGED <<api, task>>
  BY DEF WatchNext, DispatchNow
<1>s. ASSUME NEW j, NEW s, s \notin {"PROCESSING", "QUEUED"}, SaveAs(w, j, s)
      PROVE  \A k \in Jobs : /\ db'[k].status = "PROCESSING" => db[k].status = "PROCESSING"
                             /\ db'[k].status = "QUEUED" => db[k].status = "QUEUED"
  <2>1. CASE j \in Jobs
    <3>1. WithStatus(work[w].batch[j], s).status = s
      BY <1>k, <2>1, StatusOfCopy
    <3> QED
      BY <1>k, <1>s, <2>1, <3>1 DEF SaveAs, Save
  <2>2. CASE j \notin Jobs
    BY <1>k, <1>s, <2>2 DEF SaveAs, Save
  <2> QED
    BY <2>1, <2>2
<1>c. ASSUME DispatchClaim(w)
      PROVE  \A k \in Jobs : /\ db'[k].status = "PROCESSING" => db[k].status = "PROCESSING"
                             /\ k # work[w].cur => db'[k].status = db[k].status
  <2>1. CASE work[w].cur \in Jobs
    <3>1. WithStatus(work[w].batch[work[w].cur], "QUEUED").status = "QUEUED"
      BY <1>k, <2>1, StatusOfCopy
    <3> QED
      BY <1>k, <1>c, <3>1 DEF DispatchClaim, SaveAs, Save
  <2>2. CASE work[w].cur \notin Jobs
    BY <1>k, <1>c, <2>2 DEF DispatchClaim, SaveAs, Save
  <2> QED
    BY <2>1, <2>2
<1>1. CASE UNCHANGED db
  BY <1>1, <1>u
<1>2. CASE DispatchClaim(w)
  BY <1>2, <1>c, <1>u
<1>3. CASE \/ RecoverSave(w) \/ RecoverRetrySave(w) \/ PendingSave(w) \/ RetrySave(w)
  <2>1. \E j : SaveAs(w, j, "SCHEDULED")
    BY <1>3 DEF RecoverSave, RecoverRetrySave, PendingSave, RetrySave
  <2> QED
    BY <1>s, <1>u, <2>1
<1> QED
  BY <1>1, <1>2, <1>3
     DEF WatchNext, DispatchNow, WatchStep, DispatchStep, WatchStart, Heartbeat, GapPublishFails,
         RecoverQuery, RecoverAdd, RecoverRetryQuery, RecoverRetryAdd, PendingQuery, PendingAdd,
         RetryQuery, RetryAdd, WatchEnd, DispatchStart, DispatchLoad, DispatchDrop,
         DispatchPublish, DispatchSendThrows, DispatchRemove, storeVars

\* A request makes no job PROCESSING, and QUEUED only the one it routes.
LEMMA RequestWrites ==
  ASSUME TypeOK, NEW j \in Jobs, ApiNext(j)
  PROVE  /\ UNCHANGED <<work, task>>
         /\ \A k \in Jobs : db'[k].status = "PROCESSING" => db[k].status = "PROCESSING"
         /\ \A k \in Jobs : db'[k].status = "QUEUED" =>
              db[k].status = "QUEUED" \/ (api[k] = "saved" /\ api'[k] = "queued")
<1>k. db \in [Jobs -> Job] /\ api \in [Jobs -> {"none", "saved", "queued", "done"}]
  BY DEF TypeOK, StoreTypeOK, ApiTypeOK
<1>u. UNCHANGED <<work, task>>
  BY DEF ApiNext
<1>1. ASSUME NEW d \in Delays, CreateJob(j, d)
      PROVE  \A k \in Jobs : /\ db'[k].status = "PROCESSING" => db[k].status = "PROCESSING"
                             /\ db'[k].status = "QUEUED" => db[k].status = "QUEUED"
  BY <1>1, <1>k DEF CreateJob, NewRow, Save
<1>2. ASSUME RouteJob(j)
      PROVE  \A k \in Jobs : /\ db'[k].status = "PROCESSING" => db[k].status = "PROCESSING"
                             /\ db'[k].status = "QUEUED" =>
                                  db[k].status = "QUEUED" \/ (api[k] = "saved" /\ api'[k] = "queued")
  <2>1. WithStatus(NewRow(db[j].at), "QUEUED").status = "QUEUED"
    BY DEF WithStatus, NewRow
  <2>2. CASE UNCHANGED db
    BY <2>2
  <2>3. CASE /\ Save(j, WithStatus(NewRow(db[j].at), "QUEUED"))
             /\ api' = [api EXCEPT ![j] = "queued"]
    BY <1>k, <1>2, <2>1, <2>3 DEF Save, RouteJob
  <2> QED
    BY <1>2, <2>2, <2>3 DEF RouteJob
<1> QED
  BY <1>u, <1>1, <1>2 DEF ApiNext, PublishCreated, CancelJob

\* A listener makes no job QUEUED.  It makes PROCESSING the job it starts to
\* execute, and keeps executing it until it saves another status.
LEMMA ListenerWrites ==
  ASSUME TypeOK, NEW c \in Consumers, ConsumeNext(c)
  PROVE  /\ UNCHANGED <<api, work>>
         /\ \A d \in Consumers \ {c} : task'[d] = task[d]
         /\ \A k \in Jobs : db'[k].status = "QUEUED" => db[k].status = "QUEUED"
         /\ ConsumeThrows(c) => UNCHANGED db
         /\ ~ConsumeThrows(c) => \A k \in Jobs : db'[k].status = "PROCESSING" =>
              \/ task'[c].job = k /\ task'[c].stage \in Running
              \/ /\ db[k].status = "PROCESSING"
                 /\ ~(task[c].job = k /\ task[c].stage \in Running)
<1>k. /\ db \in [Jobs -> Job] /\ task \in [Consumers -> Task]
      /\ task[c].entity \in Job /\ task[c].job \in Jobs \cup {NoJob}
  BY DEF TypeOK, StoreTypeOK, ConsumerTypeOK, Task
<1>u. UNCHANGED <<api, work>>
  BY DEF ConsumeNext
<1>t. \A d \in Consumers \ {c} : task'[d] = task[d]
  BY <1>k DEF ConsumeNext, Receive, ConsumeStep, CheckCancelled, SaveCancelled, ClearCancellation,
              RateGate, DeferLimited, CircuitGate, DeferTripped, HalfOpen, Admit, Execute,
              SaveCompleted, ResetFailures, CountFailure, SaveFailed, AttemptThrows,
              ConsumeThrows, Enter, Done
<1> DEFINE Writes ==
      /\ \A k \in Jobs : db'[k].status = "QUEUED" => db[k].status = "QUEUED"
      /\ \A k \in Jobs : db'[k].status = "PROCESSING" =>
           \/ task'[c].job = k /\ task'[c].stage \in Running
           \/ /\ db[k].status = "PROCESSING"
              /\ ~(task[c].job = k /\ task[c].stage \in Running)
<1>n. ConsumeThrows(c) => UNCHANGED db
  BY DEF ConsumeThrows
<1> SUFFICES ASSUME ~ConsumeThrows(c) PROVE Writes
  BY <1>u, <1>t, <1>n
<1>o. ASSUME NEW row, row.status \notin {"QUEUED", "PROCESSING"}, SaveEntity(c, row) PROVE Writes
  BY <1>k, <1>o DEF SaveEntity, Save
<1>d. ASSUME NEW t PROVE Deferred(task[c].entity, t).status = "RETRY"
  BY <1>k DEF Deferred, Job
<1>1. CASE UNCHANGED db /\ ~(task[c].stage \in Running)
  BY <1>1
<1>2. CASE SaveCancelled(c) \/ SaveCompleted(c)
  BY <1>k, <1>o, <1>2, StatusOfCopy DEF SaveCancelled, SaveCompleted
<1>3. CASE DeferLimited(c) \/ DeferTripped(c)
  BY <1>d, <1>o, <1>3 DEF DeferLimited, DeferTripped
<1>4. CASE SaveFailed(c)
  <2>1. WithStatus(task[c].entity, "FAILED").status = "FAILED"
    BY <1>k, StatusOfCopy
  <2>2. Retried(task[c].entity, task[c].started).status = "RETRY"
    BY <1>k DEF Retried, Deferred, Job
  <2>3. \E row : row.status \in {"FAILED", "RETRY"} /\ SaveEntity(c, row)
    <3>1. CASE Exhausted(task[c].entity)
      BY <1>4, <2>1, <3>1 DEF SaveFailed
    <3>2. CASE ~Exhausted(task[c].entity)
      BY <1>4, <2>2, <3>2 DEF SaveFailed
    <3> QED
      BY <3>1, <3>2
  <2> QED
    BY <1>o, <2>3
<1>5. CASE Admit(c)
  <2>1. CASE task[c].entity.status = "QUEUED"
    <3>1. WithStatus(task[c].entity, "PROCESSING").status = "PROCESSING"
      BY <1>k, StatusOfCopy
    <3>2. \A k \in Jobs : k # task[c].job => db'[k].status = db[k].status
      BY <1>k, <1>5, <2>1 DEF Admit, SaveEntity, Save
    <3>3. task'[c].job = task[c].job /\ task'[c].stage = "executing"
      BY <1>k, <1>5, <2>1 DEF Admit, Enter, Task
    <3>4. task[c].stage = "admit" /\ task[c].stage \notin Running
      BY <1>5 DEF Admit, Running
    <3>5. task[c].job \in Jobs => db'[task[c].job].status = "PROCESSING"
      BY <1>k, <1>5, <2>1, <3>1 DEF Admit, SaveEntity, Save
    <3> QED
      BY <3>2, <3>3, <3>4, <3>5 DEF Running
  <2>2. CASE task[c].entity.status # "QUEUED"
    BY <1>1, <1>5, <2>2 DEF Admit, Running
  <2> QED
    BY <2>1, <2>2
<1>6. CASE Execute(c) \/ CountFailure(c)
  <2>1. task'[c].job = task[c].job /\ task'[c].stage \in Running /\ UNCHANGED db
    BY <1>k, <1>6 DEF Execute, CountFailure, Enter, Task, Running, storeVars
  <2> QED
    BY <2>1
<1>7. CASE \/ \E p \in Partitions : Receive(c, p)
           \/ CheckCancelled(c) \/ ClearCancellation(c) \/ RateGate(c)
           \/ CircuitGate(c) \/ HalfOpen(c) \/ ResetFailures(c)
  BY <1>1, <1>7 DEF Receive, CheckCancelled, ClearCancellation, RateGate, CircuitGate, HalfOpen,
                    ResetFailures, Running, storeVars
<1>8. CASE AttemptThrows(c)
  <2>1. task'[c].job = task[c].job /\ task'[c].stage \in Running /\ UNCHANGED db
    BY <1>k, <1>8 DEF AttemptThrows, Enter, Task, Running
  <2> QED
    BY <2>1
<1> QED
  BY <1>2, <1>3, <1>4, <1>5, <1>6, <1>7, <1>8 DEF ConsumeNext, ConsumeStep

-----------------------------------------------------------------------------
\* No step takes a PROCESSING job from its listener.
LEMMA ProcessingStep ==
  ASSUME ListenersSurvive, TypeOK, ProcessingIsCarried, [Next]_vars
  PROVE  ProcessingIsCarried'
<1> SUFFICES ASSUME NEW j \in Jobs, db'[j].status = "PROCESSING"
             PROVE  HeldAt(j, Running)'
  BY DEF ProcessingIsCarried
<1>u. CASE db[j].status = "PROCESSING" /\ UNCHANGED task
  BY <1>u DEF ProcessingIsCarried, HeldAt
<1>1. CASE \E w \in Schedulers : WatchNext(w) \/ DispatchNow(w)
  BY <1>1, <1>u, SchedulerWrites
<1>2. CASE \E k \in Jobs : ApiNext(k)
  BY <1>2, <1>u, RequestWrites
<1>3. CASE \E c \in Consumers : ConsumeNext(c)
  <2> PICK c \in Consumers : ConsumeNext(c)
    BY <1>3
  <2>n. ~ConsumeThrows(c)
    BY DEF ConsumeThrows, Fault, ListenersSurvive
  <2>1. CASE task'[c].job = j /\ task'[c].stage \in Running
    BY <2>1 DEF HeldAt
  <2>2. CASE db[j].status = "PROCESSING" /\ ~(task[c].job = j /\ task[c].stage \in Running)
    <3>1. PICK d \in Consumers : task[d].job = j /\ task[d].stage \in Running
      BY <2>2 DEF ProcessingIsCarried, HeldAt
    <3>2. d # c /\ task'[d] = task[d]
      BY <2>2, <3>1, ListenerWrites
    <3> QED
      BY <3>1, <3>2 DEF HeldAt
  <2> QED
    BY <2>n, <2>1, <2>2, ListenerWrites
<1>4. CASE \E p \in Partitions : CommitNext(p)
  BY <1>4, <1>u DEF CommitNext, Commit
<1>5. CASE EnvironmentNext
  <2>1. task \in [Consumers -> Task]
    BY DEF TypeOK, ConsumerTypeOK
  <2>2. ASSUME NEW i \in Instances, Crash(i) PROVE UNCHANGED <<db, task>>
    BY <2>1, <2>2 DEF Crash, ListenersSurvive
  <2> QED
    BY <1>5, <1>u, <2>2 DEF EnvironmentNext, Tick, Rebalance, RedisLoss
<1>6. CASE UNCHANGED vars
  BY <1>6, <1>u DEF vars
<1> QED
  BY <1>1, <1>2, <1>3, <1>4, <1>5, <1>6 DEF Next

\* A PROCESSING job is in the hands of a listener that will write its outcome,
\* as long as no listener's instance crashes: no stale copy of a scheduler
\* thread, of a request or of another listener brings PROCESSING back, whatever
\* the number of instances and whatever is lost on the way.
THEOREM ProcessingSafe ==
  ASSUME ListenersSurvive
  PROVE  Spec => []ProcessingIsCarried
<1>1. Init => ProcessingIsCarried
  BY DEF Init, StoreInit, NoRow, ProcessingIsCarried
<1>2. TypeOK /\ ProcessingIsCarried /\ [Next]_vars => ProcessingIsCarried'
  BY ProcessingStep
<1> QED
  BY <1>1, <1>2, TypeCorrect, PTL DEF Spec

-----------------------------------------------------------------------------
(* The carriers of a QUEUED job.                                           *)

CarryingPcs == {"publish", "requeueSend"}

\* A listener that loaded j QUEUED and will save another status.
BeforeOutcome == BeforeStart \cup {"failed", "counted"}
Loaded(j, c) ==
  task[c].job = j /\ task[c].stage \in BeforeOutcome /\ task[c].entity.status = "QUEUED"

\* A record that is sent waits for its listener, and those before it still do.
LEMMA SentWaits ==
  ASSUME TypeOK, SendsSucceed, NEW j \in Jobs, SendOrThrow(j)
  PROVE  Waiting(j)' /\ \A k \in Jobs : Waiting(k) => Waiting(k)'
<1>1. inbox \in [Partitions -> Seq(Jobs)]
  BY DEF TypeOK, StoreTypeOK
<1>2. PICK p \in Partitions : inbox' = [inbox EXCEPT ![p] = Append(@, j)]
  BY DEF SendOrThrow, SendJob, SendsSucceed, Fault
<1>3. inbox'[p] = Append(inbox[p], j) /\ inbox[p] \in Seq(Jobs)
  BY <1>1, <1>2
<1>4. /\ Len(inbox'[p]) = Len(inbox[p]) + 1 /\ Len(inbox[p]) \in Nat
      /\ inbox'[p][Len(inbox[p]) + 1] = j
      /\ \A i \in 1 .. Len(inbox[p]) : inbox'[p][i] = inbox[p][i]
  BY <1>3
<1>5. \A q \in Partitions \ {p} : inbox'[q] = inbox[q]
  BY <1>1, <1>2
<1>6. Waiting(j)'
  BY <1>4 DEF Waiting
<1>7. ASSUME NEW k \in Jobs, Waiting(k) PROVE Waiting(k)'
  <2>q. PICK q \in Partitions : \E i \in 1 .. Len(inbox[q]) : inbox[q][i] = k
    BY <1>7 DEF Waiting
  <2>i. PICK i \in 1 .. Len(inbox[q]) : inbox[q][i] = k
    BY <2>q
  <2>1. CASE q = p
    BY <1>4, <2>i, <2>1 DEF Waiting
  <2>2. CASE q # p
    BY <1>5, <2>i, <2>2 DEF Waiting
  <2> QED
    BY <2>1, <2>2
<1> QED
  BY <1>6, <1>7

\* A record that is delivered again pushes none out.
LEMMA RewoundWaits ==
  ASSUME TypeOK, NEW lost, Rewind(lost)
  PROVE  \A k \in Jobs : Waiting(k) => Waiting(k)'
<1>1. inbox \in [Partitions -> Seq(Jobs)] /\ unacked \in [Partitions -> Seq(Jobs)]
  BY DEF TypeOK, StoreTypeOK
<1> SUFFICES ASSUME NEW k \in Jobs, Waiting(k) PROVE Waiting(k)'
  OBVIOUS
<1>q. PICK q \in Partitions : \E i \in 1 .. Len(inbox[q]) : inbox[q][i] = k
  BY DEF Waiting
<1>2. PICK i \in 1 .. Len(inbox[q]) : inbox[q][i] = k
  BY <1>q
<1>3. CASE q \in lost
  <2>1. inbox'[q] = unacked[q] \o inbox[q] /\ inbox[q] \in Seq(Jobs) /\ unacked[q] \in Seq(Jobs)
    BY <1>1, <1>3 DEF Rewind
  <2>2. /\ Len(unacked[q]) \in Nat /\ Len(inbox[q]) \in Nat
        /\ Len(inbox'[q]) = Len(unacked[q]) + Len(inbox[q])
    BY <2>1
  <2>3. Len(unacked[q]) + i \in 1 .. Len(inbox'[q])
    <3>1. ASSUME NEW a \in Nat, NEW b \in Nat, NEW n \in 1 .. b PROVE a + n \in 1 .. a + b
      OBVIOUS
    <3> QED
      BY <1>2, <2>2, <3>1
  <2>4. inbox'[q][Len(unacked[q]) + i] = inbox[q][i]
    <3>1. ASSUME NEW s \in Seq(Jobs), NEW t \in Seq(Jobs), NEW n \in 1 .. Len(t)
          PROVE  (s \o t)[Len(s) + n] = t[n]
      OBVIOUS
    <3>2. unacked[q] \in Seq(Jobs) /\ inbox[q] \in Seq(Jobs) /\ i \in 1 .. Len(inbox[q])
      BY <2>1
    <3>3. (unacked[q] \o inbox[q])[Len(unacked[q]) + i] = inbox[q][i]
      BY <3>1, <3>2, Zenon
    <3> QED
      BY <2>1, <3>3, Zenon
  <2> QED
    BY <1>2, <2>3, <2>4 DEF Waiting
<1>4. CASE q \notin lost
  <2>1. inbox'[q] = inbox[q]
    BY <1>1, <1>4 DEF Rewind
  <2> QED
    BY <1>2, <2>1 DEF Waiting
<1> QED
  BY <1>3, <1>4

\* The listener takes the first record of a partition: the others still wait.
LEMMA ReceivedIsHead ==
  ASSUME TypeOK, NEW c \in Consumers, NEW p \in Partitions, Receive(c, p),
         NEW k \in Jobs, Waiting(k), db[k].status = "QUEUED"
  PROVE  Waiting(k)' \/ Loaded(k, c)'
<1>1. inbox \in [Partitions -> Seq(Jobs)] /\ task \in [Consumers -> Task] /\ db \in [Jobs -> Job]
  BY DEF TypeOK, StoreTypeOK, ConsumerTypeOK
<1>q. PICK q \in Partitions : \E i \in 1 .. Len(inbox[q]) : inbox[q][i] = k
  BY DEF Waiting
<1>2. PICK i \in 1 .. Len(inbox[q]) : inbox[q][i] = k
  BY <1>q
<1>3. CASE q # p
  <2>1. inbox'[q] = inbox[q]
    BY <1>1, <1>3 DEF Receive
  <2> QED
    BY <1>2, <2>1 DEF Waiting
<1>4. CASE q = p /\ i # 1
  <2>1. inbox'[p] = Tail(inbox[p]) /\ inbox[p] \in Seq(Jobs) /\ inbox[p] # <<>>
    BY <1>1, <1>4 DEF Receive
  <2>2. i - 1 \in 1 .. Len(inbox'[p]) /\ inbox'[p][i - 1] = k
    BY <1>2, <1>4, <2>1
  <2> QED
    BY <2>2 DEF Waiting
<1>5. CASE q = p /\ i = 1
  <2>1. Head(inbox[p]) = k
    BY <1>1, <1>2, <1>5
  <2>2. task'[c].job = k /\ task'[c].stage = "loaded" /\ task'[c].entity = db[k]
    BY <1>1, <2>1 DEF Receive, Task
  <2> QED
    BY <2>2 DEF Loaded, BeforeOutcome, BeforeStart
<1> QED
  BY <1>3, <1>4, <1>5

\* A scheduler thread sends the job it has claimed, and touches no other's.
LEMMA SchedulerCarries ==
  ASSUME TypeOK, HandOK, SendsSucceed, NEW w \in Schedulers, WatchNext(w) \/ DispatchNow(w),
         NEW j \in Jobs, QueuedCarried(j) \/ (DispatchClaim(w) /\ j = work[w].cur)
  PROVE  QueuedCarried(j)'
<1>k. work \in [Schedulers -> Work]
  BY DEF TypeOK, WorkTypeOK
<1>u. UNCHANGED <<api, task>>
  BY DEF WatchNext, DispatchNow
<1>n. ~DispatchSendThrows(w)
  BY DEF DispatchSendThrows, Fault, SendsSucceed
<1>o. \A v \in Schedulers \ {w} : work'[v] = work[v]
  BY <1>k DEF WatchNext, DispatchNow, WatchStep, DispatchStep, WatchStart, Heartbeat, GapPublishFails,
       RecoverQuery, RecoverAdd, RecoverSave, RecoverRetryQuery, RecoverRetryAdd, RecoverRetrySave,
       PendingQuery, PendingSave, PendingAdd, RetryQuery, RetrySave, RetryAdd, WatchEnd,
       DispatchStart, DispatchLoad, DispatchDrop, DispatchClaim, DispatchPublish,
       DispatchSendThrows, DispatchRemove, DispatchNext, Goto, Fetch, Take, Finish, Return
<1>i. \/ DispatchPublish(w)
      \/ UNCHANGED inbox /\ work[w].pc \notin CarryingPcs
  BY <1>n DEF WatchNext, DispatchNow, WatchStep, DispatchStep, WatchStart, Heartbeat, GapPublishFails,
       RecoverQuery, RecoverAdd, RecoverSave, RecoverRetryQuery, RecoverRetryAdd, RecoverRetrySave,
       PendingQuery, PendingSave, PendingAdd, RetryQuery, RetrySave, RetryAdd, WatchEnd,
       DispatchStart, DispatchLoad, DispatchDrop, DispatchClaim, DispatchRemove,
       CarryingPcs, storeVars, kafkaVars
<1>c. ASSUME DispatchPublish(w) PROVE work[w].cur \in Jobs
  BY <1>k, <1>c DEF DispatchPublish, HandOK, Holding, Work
<1>w. Waiting(j) => Waiting(j)'
  <2>1. CASE DispatchPublish(w)
    BY <1>c, <2>1, SentWaits DEF DispatchPublish, SendOrThrow
  <2>2. CASE UNCHANGED inbox
    BY <2>2 DEF Waiting
  <2> QED
    BY <1>i, <2>1, <2>2
<1>1. CASE Waiting(j)
  BY <1>1, <1>w DEF QueuedCarried
<1>2. CASE api[j] = "queued"
  BY <1>2, <1>u DEF QueuedCarried
<1>3. CASE \E c \in Consumers : Loaded(j, c)
  BY <1>3, <1>u DEF QueuedCarried, Loaded, BeforeOutcome
<1>4. CASE InHand(j, CarryingPcs)
  <2> PICK v \in Schedulers : work[v].cur = j /\ work[v].pc \in CarryingPcs
    BY <1>4 DEF InHand
  <2>1. CASE v = w
    BY <1>i, <2>1, SentWaits DEF DispatchPublish, SendOrThrow, QueuedCarried
  <2>2. CASE v # w
    BY <1>o, <2>2 DEF InHand, QueuedCarried, CarryingPcs
  <2> QED
    BY <2>1, <2>2
<1>5. CASE DispatchClaim(w) /\ j = work[w].cur
  <2>1. work'[w].cur = j /\ work'[w].pc = "publish"
    BY <1>k, <1>5 DEF DispatchClaim, Goto, Work
  <2> QED
    BY <2>1 DEF InHand, QueuedCarried
<1> QED
  BY <1>1, <1>2, <1>3, <1>4, <1>5 DEF QueuedCarried, Loaded, BeforeOutcome, CarryingPcs

\* A request sends the job it has routed, and touches no other's.
LEMMA RequestCarries ==
  ASSUME TypeOK, SendsSucceed, NEW k \in Jobs, ApiNext(k), NEW j \in Jobs,
         QueuedCarried(j) \/ (api[j] = "saved" /\ api'[j] = "queued")
  PROVE  QueuedCarried(j)'
<1>k. api \in [Jobs -> {"none", "saved", "queued", "done"}]
  BY DEF TypeOK, ApiTypeOK
<1>u. UNCHANGED <<work, task>>
  BY DEF ApiNext
<1>w. Waiting(j) => Waiting(j)'
  <2>1. CASE PublishCreated(k)
    BY <2>1, SentWaits DEF PublishCreated
  <2>2. CASE UNCHANGED inbox
    BY <2>2 DEF Waiting
  <2> QED
    BY <2>1, <2>2 DEF ApiNext, CreateJob, RouteJob, CancelJob, kafkaVars
<1>q. ASSUME api[j] = "queued" PROVE Waiting(j)' \/ api'[j] = "queued"
  <2>1. CASE PublishCreated(k)
    BY <1>k, <1>q, <2>1, SentWaits DEF PublishCreated
  <2>2. CASE UNCHANGED api
    BY <1>q, <2>2
  <2>3. CASE api[k] # "queued" /\ \E x : api' = [api EXCEPT ![k] = x]
    BY <1>k, <1>q, <2>3
  <2> QED
    BY <1>k, <2>1, <2>2, <2>3 DEF ApiNext, CreateJob, RouteJob, CancelJob
<1>1. CASE Waiting(j)
  BY <1>1, <1>w DEF QueuedCarried
<1>2. CASE api[j] = "queued"
  BY <1>2, <1>q DEF QueuedCarried
<1>3. CASE api'[j] = "queued"
  BY <1>3 DEF QueuedCarried
<1>4. CASE InHand(j, {"publish", "requeueSend"}) \/ \E c \in Consumers : Loaded(j, c)
  BY <1>4, <1>u DEF QueuedCarried, InHand, Loaded, BeforeOutcome
<1> QED
  BY <1>1, <1>2, <1>3, <1>4 DEF QueuedCarried, Loaded, BeforeOutcome

\* A listener that lets a job go leaves it in another status, or still waiting.
LEMMA ListenerCarries ==
  ASSUME TypeOK, SendsSucceed, NEW c \in Consumers, ConsumeNext(c),
         NEW j \in Jobs, QueuedCarried(j), db[j].status = "QUEUED", db'[j].status = "QUEUED"
  PROVE  QueuedCarried(j)'
<1>k. /\ db \in [Jobs -> Job] /\ task \in [Consumers -> Task]
      /\ task[c].entity \in Job /\ task[c].job \in Jobs \cup {NoJob}
  BY DEF TypeOK, StoreTypeOK, ConsumerTypeOK, Task
<1>u. UNCHANGED <<api, work>> /\ \A d \in Consumers \ {c} : task'[d] = task[d]
  BY ListenerWrites
<1>i. \/ \E p \in Partitions : Receive(c, p)
      \/ (ConsumeStep(c) \/ AttemptThrows(c)) /\ UNCHANGED inbox
  BY DEF ConsumeThrows, Fault, SendsSucceed, AttemptThrows, ConsumeNext, ConsumeStep, CheckCancelled, SaveCancelled, ClearCancellation,
         RateGate, DeferLimited, CircuitGate, DeferTripped, HalfOpen, Admit, Execute,
         SaveCompleted, ResetFailures, CountFailure, SaveFailed, storeVars, kafkaVars
<1>1. CASE Waiting(j)
  <2>1. CASE \E p \in Partitions : Receive(c, p)
    BY <1>1, <2>1, ReceivedIsHead DEF QueuedCarried, Loaded, BeforeOutcome
  <2>2. CASE UNCHANGED inbox
    BY <1>1, <2>2 DEF QueuedCarried, Waiting
  <2> QED
    BY <1>i, <2>1, <2>2
<1>2. CASE api[j] = "queued" \/ InHand(j, {"publish", "requeueSend"})
  BY <1>2, <1>u DEF QueuedCarried, InHand
<1>3. CASE Loaded(j, c)
  <2> USE DEF Loaded, BeforeOutcome
  <2>r. task[c].stage # "idle"
    BY <1>3 DEF BeforeStart
  <2>s. ASSUME NEW row, row.status # "QUEUED", SaveEntity(c, row) PROVE FALSE
    BY <1>k, <1>3, <2>s DEF SaveEntity, Save
  <2>1. CASE SaveCancelled(c)
    BY <1>k, <2>1, <2>s, StatusOfCopy DEF SaveCancelled
  <2>2. CASE DeferLimited(c) \/ DeferTripped(c)
    <3>1. ASSUME NEW t PROVE Deferred(task[c].entity, t).status = "RETRY"
      BY <1>k DEF Deferred, Job
    <3> QED
      BY <2>2, <2>s, <3>1 DEF DeferLimited, DeferTripped
  <2>3. CASE Admit(c)
    BY <1>k, <1>3, <2>3, <2>s, StatusOfCopy DEF Admit
  <2>4. CASE SaveFailed(c)
    <3>1. WithStatus(task[c].entity, "FAILED").status = "FAILED"
      BY <1>k, StatusOfCopy
    <3>2. Retried(task[c].entity, task[c].started).status = "RETRY"
      BY <1>k DEF Retried, Deferred, Job
    <3>3. CASE Exhausted(task[c].entity)
      BY <2>4, <2>s, <3>1, <3>3 DEF SaveFailed
    <3>4. CASE ~Exhausted(task[c].entity)
      BY <2>4, <2>s, <3>2, <3>4 DEF SaveFailed
    <3> QED
      BY <3>3, <3>4
  <2>5. CASE \/ CheckCancelled(c) \/ RateGate(c) \/ CircuitGate(c) \/ HalfOpen(c)
             \/ CountFailure(c) \/ AttemptThrows(c)
    <3>1. /\ task'[c].job = task[c].job /\ task'[c].entity = task[c].entity
          /\ task'[c].stage \in BeforeOutcome
      BY <1>k, <2>5 DEF CheckCancelled, RateGate, CircuitGate, HalfOpen, CountFailure,
                        AttemptThrows, Enter, Task, BeforeStart
    <3> QED
      BY <1>3, <3>1 DEF QueuedCarried, BeforeOutcome
  <2> QED
    BY <1>3, <1>i, <2>r, <2>1, <2>2, <2>3, <2>4, <2>5
       DEF ConsumeStep, Receive, ClearCancellation, Execute, SaveCompleted,
           ResetFailures, BeforeStart
<1>4. ASSUME NEW d \in Consumers \ {c}, Loaded(j, d) PROVE QueuedCarried(j)'
  BY <1>4, <1>u DEF QueuedCarried, Loaded, BeforeOutcome
<1> QED
  BY <1>1, <1>2, <1>3, <1>4 DEF QueuedCarried, Loaded, BeforeOutcome

\* The clock, the broker and Redis take a QUEUED job from nobody.
LEMMA EnvironmentCarries ==
  ASSUME TypeOK, SendsSucceed, NEW j \in Jobs, QueuedCarried(j),
         EnvironmentNext \/ (\E p \in Partitions : CommitNext(p)) \/ UNCHANGED vars
  PROVE  QueuedCarried(j)' /\ UNCHANGED db
<1>1. UNCHANGED <<db, api, work, task>>
  BY DEF EnvironmentNext, Tick, Crash, Rebalance, RedisLoss, CommitNext, Commit, vars, SendsSucceed
<1>2. UNCHANGED inbox \/ \E lost : Rewind(lost)
  BY DEF EnvironmentNext, Tick, Crash, Rebalance, RedisLoss, CommitNext, Commit, vars, kafkaVars,
         SendsSucceed
<1>3. Waiting(j) => Waiting(j)'
  BY <1>2, RewoundWaits DEF Waiting
<1> QED
  BY <1>1, <1>3 DEF QueuedCarried, InHand

\* No step takes a QUEUED job from its last carrier.
LEMMA QueuedStep ==
  ASSUME SendsSucceed, TypeOK, HandOK, QueuedIsCarried, [Next]_vars
  PROVE  QueuedIsCarried'
<1> SUFFICES ASSUME NEW j \in Jobs, db'[j].status = "QUEUED"
             PROVE  QueuedCarried(j)'
  BY DEF QueuedIsCarried
<1>c. db[j].status = "QUEUED" => QueuedCarried(j)
  BY DEF QueuedIsCarried
<1>1. CASE \E w \in Schedulers : WatchNext(w) \/ DispatchNow(w)
  BY <1>1, <1>c, SchedulerWrites, SchedulerCarries
<1>2. CASE \E k \in Jobs : ApiNext(k)
  BY <1>2, <1>c, RequestWrites, RequestCarries
<1>3. CASE \E c \in Consumers : ConsumeNext(c)
  BY <1>3, <1>c, ListenerWrites, ListenerCarries
<1>4. CASE EnvironmentNext \/ (\E p \in Partitions : CommitNext(p)) \/ UNCHANGED vars
  <2>1. UNCHANGED db
    BY <1>4 DEF EnvironmentNext, Tick, Crash, Rebalance, RedisLoss, CommitNext, Commit, vars,
                SendsSucceed
  <2> QED
    BY <1>4, <1>c, <2>1, EnvironmentCarries
<1> QED
  BY <1>1, <1>2, <1>3, <1>4 DEF Next

\* A QUEUED job has a record on its way to a listener, somebody about to send
\* one, or a listener that will start it, whatever the number of instances,
\* slow requests, rebalances, losses of Redis and failures to publish an
\* incident: the row is saved QUEUED before the record is sent, and a listener
\* that declines the job saves another status first.
THEOREM QueuedSafe ==
  ASSUME SendsSucceed
  PROVE  Spec => []QueuedIsCarried
<1>1. Init => QueuedIsCarried
  BY DEF Init, StoreInit, NoRow, QueuedIsCarried
<1>2. TypeOK /\ HandOK /\ QueuedIsCarried /\ [Next]_vars => QueuedIsCarried'
  BY QueuedStep
<1> QED
  BY <1>1, <1>2, TypeCorrect, PTL DEF Spec
=============================================================================
