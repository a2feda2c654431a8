----------------------------- MODULE AdminProofs -----------------------------
(***************************************************************************)
(* What the operator's requests cannot break, for every value of the       *)
(* constants: types, and the carriers of QUEUED and PROCESSING jobs.       *)
(***************************************************************************)
EXTENDS Admin, CarriedProofs

\* The points at which a request of the operator has a job in hand.
AskedPcs == {"requeue", "requeueSend", "resetOpen", "resetLast"}
AskedOK == \A w \in Schedulers : work[w].pc \in AskedPcs => work[w].cur \in Jobs

RepairTypeOK == TypeOK /\ HandOK /\ AskedOK

\* A request, seen from one thread.
AdminOf(w) ==
  \/ AdminCall(w) /\ UNCHANGED <<api, task, circuit>>
  \/ AdminStep(w) /\ UNCHANGED <<api, task, circuit>>
  \/ (\E j \in Jobs : ResetCircuit(w, j)) /\ UNCHANGED <<api, task>>
  \/ ResetStep(w) /\ UNCHANGED <<api, task>>

-----------------------------------------------------------------------------
\* A scheduled method leaves the other threads alone, and never stands where a
\* request stands.
LEMMA ScheduledApart ==
  ASSUME TypeOK, NEW w \in Schedulers, WatchNext(w) \/ DispatchNow(w)
  PROVE  /\ \A v \in Schedulers \ {w} : work'[v] = work[v]
         /\ work'[w].pc \notin AskedPcs
<1>k. work \in [Schedulers -> Work]
  BY DEF TypeOK, WorkTypeOK
<1>1. \A v \in Schedulers \ {w} : work'[v] = work[v]
  BY <1>k DEF WatchNext, DispatchNow, WatchStep, DispatchStep, WatchStart, Heartbeat, GapPublishFails,
       RecoverQuery, RecoverAdd, RecoverSave, RecoverRetryQuery, RecoverRetryAdd, RecoverRetrySave,
       PendingQuery, PendingSave, PendingAdd, RetryQuery, RetrySave, RetryAdd, WatchEnd,
       DispatchStart, DispatchLoad, DispatchDrop, DispatchClaim, DispatchPublish,
       DispatchSendThrows, DispatchRemove, DispatchNext, Goto, Fetch, Take, Finish, Return
<1> SUFFICES work'[w].pc \notin AskedPcs
  BY <1>1
<1>g. ASSUME NEW pc, pc \notin AskedPcs, NEW S, NEW j,
             \/ Goto(w, pc) \/ Fetch(w, pc, S) \/ Take(w, pc, j) \/ Finish(w, pc, j)
      PROVE  work'[w].pc \notin AskedPcs
  BY <1>k, <1>g DEF Goto, Fetch, Take, Finish, Work
<1>r. ASSUME NEW t, Return(w, t) PROVE work'[w].pc \notin AskedPcs
  BY <1>k, <1>r DEF Return, IdleWork, AskedPcs
<1>2. CASE \/ RecoverQuery(w) \/ RecoverRetryQuery(w) \/ PendingQuery(w) \/ RetryQuery(w)
  <2>1. \E pc \in {"recoverAdd", "recoverRetryAdd", "pendingSave", "retrySave"}, S \in SUBSET Jobs :
          Fetch(w, pc, S)
    BY <1>2, PageType, OldestPageType
       DEF RecoverQuery, RecoverRetryQuery, PendingQuery, RetryQuery, FindPendingOrScheduledInRange,
           FindRetryInRange, FindRetryWindow, FindWindow
  <2> QED
    BY <1>g, <2>1 DEF AskedPcs
<1>3. CASE RecoverAdd(w) \/ RecoverRetryAdd(w) \/ PendingSave(w) \/ RetrySave(w)
  <2>1. \E pc \in {"recoverSave", "recoverRetrySave", "pendingAdd", "retryAdd", "recoverAdd"} :
          \E j : Take(w, pc, j) \/ Finish(w, pc, j)
    BY <1>3 DEF RecoverAdd, RecoverRetryAdd, PendingSave, RetrySave
  <2> QED
    BY <1>g, <2>1 DEF AskedPcs
<1>4. CASE RecoverSave(w) \/ RecoverRetrySave(w) \/ PendingAdd(w) \/ RetryAdd(w)
  <2>1. \E pc \in {"recoverAdd", "recoverRetryAdd", "pendingSave", "retrySave"} :
          \E j : Finish(w, pc, j)
    BY <1>4 DEF RecoverSave, RecoverRetrySave, PendingAdd, RetryAdd
  <2> QED
    BY <1>g, <2>1 DEF AskedPcs
<1>5. CASE WatchStart(w) \/ DispatchStart(w) \/ DispatchLoad(w)
  <2>1. ASSUME WatchStart(w) PROVE work'[w].pc \in {"beat", "beatGap"}
    BY <1>k, <2>1 DEF WatchStart, Work
  <2>2. ASSUME DispatchStart(w) PROVE work'[w].pc = "load"
    BY <1>k, <2>2 DEF DispatchStart, Work
  <2>3. ASSUME DispatchLoad(w) PROVE work'[w].pc \in {"claim", "drop"}
    BY <1>k, <2>3 DEF DispatchLoad, Work
  <2> QED
    BY <1>5, <2>1, <2>2, <2>3 DEF AskedPcs
<1>6. CASE Heartbeat(w) \/ DispatchClaim(w) \/ DispatchPublish(w)
  <2>1. \E pc \in {"recover", "pending", "publish", "remove"} : Goto(w, pc)
    BY <1>6 DEF Heartbeat, DispatchClaim, DispatchPublish
  <2> QED
    BY <1>g, <2>1 DEF AskedPcs
<1>7. CASE \/ GapPublishFails(w) \/ WatchEnd(w)
           \/ DispatchDrop(w) \/ DispatchSendThrows(w) \/ DispatchRemove(w)
  <2>1. \E t : Return(w, t) \/ Finish(w, "load", t)
    BY <1>7 DEF GapPublishFails, WatchEnd, DispatchDrop, DispatchSendThrows, DispatchRemove,
                DispatchNext
  <2> QED
    BY <1>g, <1>r, <2>1 DEF AskedPcs
<1> QED
  BY <1>2, <1>3, <1>4, <1>5, <1>6, <1>7
     DEF WatchNext, WatchStep, DispatchNow, DispatchStep

\* What is left of a page is of the rows found.
LEMMA SkippingType ==
  ASSUME NEW pages, NEW found, \A P \in pages : P \subseteq found,
         NEW S \in Skipping(pages)
  PROVE  S \subseteq found
BY DEF Skipping

\* Every request keeps every variable in its type.
LEMMA AdminTypes ==
  ASSUME RepairTypeOK, NEW w \in Schedulers, AdminOf(w)
  PROVE  RepairTypeOK'
<1> USE DEF TypeOK, RepairTypeOK
<1>0. ApiTypeOK'
  BY DEF AdminOf, ApiTypeOK
<1>k. /\ db \in [Jobs -> Job] /\ delayQueue \in [Jobs -> Time]
      /\ now \in Time /\ work \in [Schedulers -> Work] /\ WorkTypeOK
      /\ circuit \in [Instances -> [Types -> Circuit]]
  BY DEF StoreTypeOK, Clock, Time, WorkTypeOK, ConsumerTypeOK
<1>n. Null \in Time
  BY StoreAssumption DEF Null, Time
<1>u. ASSUME UNCHANGED storeVars PROVE StoreTypeOK'
  BY <1>u DEF StoreTypeOK, storeVars, redisVars, kafkaVars
<1>c. ASSUME UNCHANGED <<task, circuit>> PROVE ConsumerTypeOK'
  BY <1>c DEF ConsumerTypeOK
\* The pieces the requests are made of.
<1>r. ASSUME NEW t \in Time, Return(w, t) PROVE WorkTypeOK' /\ HandOK' /\ AskedOK'
  <2>1. WorkTypeOK'
    BY <1>k, <1>r, ReturnType
  <2> QED
    BY <1>k, <1>r, <2>1 DEF Return, IdleWork, HandOK, Holding, AskedOK, AskedPcs
<1>f. ASSUME NEW pc \in {"overdueAdd", "retrySave", "recoverRetryAdd"}, NEW S \in SUBSET Jobs, Fetch(w, pc, S)
      PROVE  WorkTypeOK' /\ HandOK' /\ AskedOK'
  <2>1. WorkTypeOK'
    BY <1>k, <1>f, FetchType DEF WorkPc
  <2> QED
    BY <1>k, <1>f, <2>1 DEF Fetch, HandOK, Holding, AskedOK, AskedPcs
<1>1. ASSUME AdminCall(w), UNCHANGED <<api, task, circuit>> PROVE RepairTypeOK'
  <2>1. ASSUME NEW pc \in {"recover", "overdue"}, Call(w, pc)
        PROVE  WorkTypeOK' /\ HandOK' /\ AskedOK' /\ UNCHANGED storeVars
    <3>1. [work[w] EXCEPT !.pc = pc, !.clock = now] \in Work
      BY <1>k, <2>1 DEF Work, WorkPc
    <3>2. WorkTypeOK'
      BY <1>k, <2>1, <3>1 DEF Call, WorkTypeOK
    <3>3. work'[w].pc = pc /\ \A v \in Schedulers \ {w} : work'[v] = work[v]
      BY <1>k, <2>1 DEF Call, Work
    <3> QED
      BY <2>1, <3>2, <3>3 DEF Call, HandOK, Holding, AskedOK, AskedPcs
  <2>2. ASSUME NEW j \in Jobs, RequeueCall(w, j)
        PROVE  WorkTypeOK' /\ HandOK' /\ AskedOK' /\ UNCHANGED storeVars
    <3>1. [work[w].batch EXCEPT ![j] = db[j]] \in [Jobs -> Job]
      BY <1>k DEF Work
    <3>2. [work[w] EXCEPT !.pc = "requeue", !.cur = j,
                          !.batch = [work[w].batch EXCEPT ![j] = db[j]]] \in Work
      <4>1. ASSUME NEW r \in Work, NEW B \in [Jobs -> Job]
            PROVE  [r EXCEPT !.pc = "requeue", !.cur = j, !.batch = B] \in Work
        BY DEF Work, WorkPc
      <4> QED
        BY <1>k, <3>1, <4>1
    <3>3. WorkTypeOK'
      BY <1>k, <2>2, <3>2 DEF RequeueCall, WorkTypeOK
    <3>4. /\ work'[w].pc = "requeue" /\ work'[w].cur = j
          /\ \A v \in Schedulers \ {w} : work'[v] = work[v]
      BY <1>k, <2>2 DEF RequeueCall, Work
    <3> QED
      BY <2>2, <3>3, <3>4 DEF RequeueCall, HandOK, Holding, AskedOK, AskedPcs
  <2> QED
    BY <1>0, <1>1, <1>u, <1>c, <2>1, <2>2 DEF AdminCall, RecoverCall, ReconcileCall
<1>2. ASSUME RecoverRun(w) \/ RetryDueRun(w), UNCHANGED <<api, task, circuit>>
      PROVE  RepairTypeOK'
  <2>1. WatchNext(w)
    BY <1>2 DEF WatchNext, WatchStep, RecoverRun, RetryDueRun
  <2>2. AskedOK'
    BY <2>1, ScheduledApart DEF AskedOK
  <2> QED
    BY <2>1, <2>2, WatchTypes, WatchHand
<1>3. ASSUME RecoverAnswer(w) \/ ReconcileAnswer(w), UNCHANGED <<api, task, circuit>>
      PROVE  RepairTypeOK'
  BY <1>0, <1>n, <1>r, <1>u, <1>c, <1>3 DEF RecoverAnswer, ReconcileAnswer, Answered
<1>4. ASSUME OverdueQuery(w) \/ RetryDueQuery(w) \/ RecoverReload(w),
             UNCHANGED <<api, task, circuit>>
      PROVE  RepairTypeOK'
  <2>1. \E pc \in {"overdueAdd", "retrySave", "recoverRetryAdd"}, S \in SUBSET Jobs : Fetch(w, pc, S)
    <3>1. ASSUME OverdueQuery(w) PROVE \E S \in SUBSET Jobs : Fetch(w, "overdueAdd", S)
      BY <3>1, OldestPageType DEF OverdueQuery, FindOverdueScheduled
    <3>2. ASSUME RetryDueQuery(w) PROVE \E S \in SUBSET Jobs : Fetch(w, "retrySave", S)
      <4>1. FindRetryDue(work[w].clock) \subseteq Jobs
        BY DEF FindRetryDue, FindRetryWindow
      <4> QED
        BY <3>2, <4>1, OldestPageType, SkippingType DEF RetryDueQuery
    <3>3. ASSUME RecoverReload(w) PROVE \E S \in SUBSET Jobs : Fetch(w, "recoverRetryAdd", S)
      <4>1. FindRetryInRange(work[w].clock - RecoveryWindow, work[w].clock) \subseteq Jobs
        BY DEF FindRetryInRange, FindRetryWindow
      <4> QED
        BY <3>3, <4>1, PageType, SkippingType DEF RecoverReload
    <3> QED
      BY <1>4, <3>1, <3>2, <3>3
  <2> QED
    BY <1>0, <1>u, <1>c, <1>f, <1>4, <2>1 DEF OverdueQuery, RetryDueQuery, RecoverReload
<1>5. ASSUME OverdueAdd(w), UNCHANGED <<api, task, circuit>> PROVE RepairTypeOK'
  <2>1. PICK j \in work[w].todo : /\ ScheduleJob(j, work[w].batch[j].at)
                                  /\ Finish(w, "overdueAdd", j)
    BY <1>5 DEF OverdueAdd, Earliest
  <2>2. j \in Jobs /\ work[w].batch[j].at \in Time
    BY <1>k DEF Work, Job
  <2>3. delayQueue' \in [Jobs -> Time]
    BY <1>k, <2>1, <2>2, ScheduleType
  <2>4. StoreTypeOK'
    BY <1>5, <2>3 DEF OverdueAdd, StoreTypeOK, kafkaVars
  <2>5. WorkTypeOK'
    BY <1>k, <2>1, FinishType DEF WorkPc
  <2>p. work'[w].pc = "overdueAdd" /\ \A v \in Schedulers \ {w} : work'[v] = work[v]
    BY <1>k, <2>1 DEF Finish, Work
  <2>6. HandOK' /\ AskedOK'
    BY <2>p DEF HandOK, Holding, AskedOK, AskedPcs
  <2> QED
    BY <1>0, <1>c, <1>5, <2>4, <2>5, <2>6
<1>6. ASSUME RequeueSave(w), UNCHANGED <<api, task, circuit>> PROVE RepairTypeOK'
  <2>1. db' \in [Jobs -> Job]
    BY <1>k, <1>6, SaveAsType DEF RequeueSave, JobStatus
  <2>2. StoreTypeOK'
    BY <1>6, <2>1 DEF RequeueSave, StoreTypeOK, redisVars, kafkaVars
  <2>3. WorkTypeOK'
    BY <1>k, <1>6, GotoType DEF RequeueSave, WorkPc
  <2>4. HandOK' /\ AskedOK'
    BY <1>k, <1>6 DEF RequeueSave, Goto, HandOK, Holding, AskedOK, AskedPcs, Work
  <2> QED
    BY <1>0, <1>c, <1>6, <2>2, <2>3, <2>4
<1>7. ASSUME RequeueSend(w), UNCHANGED <<api, task, circuit>> PROVE RepairTypeOK'
  <2>1. work[w].cur \in Jobs
    BY <1>7 DEF RequeueSend, AskedOK, AskedPcs
  <2>2. inbox' \in [Partitions -> Seq(Jobs)] /\ faults' \in 0 .. MaxFaults
    BY <1>7, <2>1, SendType DEF RequeueSend, StoreTypeOK
  <2>3. StoreTypeOK'
    BY <1>7, <2>2 DEF RequeueSend, StoreTypeOK, redisVars
  <2> QED
    BY <1>0, <1>n, <1>r, <1>c, <1>7, <2>3 DEF RequeueSend
<1>8. ASSUME (\E j \in Jobs : ResetCircuit(w, j)) \/ ResetStep(w), UNCHANGED <<api, task>>
      PROVE  RepairTypeOK'
  <2>i. HostOf[w] \in Instances
    BY SystemAssumption
  <2>z. ASSUME NEW circ \in Circuit
        PROVE  /\ [circ EXCEPT !.failures = 0] \in Circuit
               /\ [circ EXCEPT !.open = FALSE] \in Circuit
               /\ [circ EXCEPT !.last = Null] \in Circuit
    <3>1. 0 \in 0 .. FailureThreshold
      BY ConsumerAssumption
    <3>2. [circ EXCEPT !.failures = 0] \in Circuit
      BY <3>1 DEF Circuit
    <3>3. [circ EXCEPT !.open = FALSE] \in Circuit
      BY DEF Circuit
    <3>4. [circ EXCEPT !.last = Null] \in Circuit
      BY <1>n DEF Circuit
    <3> QED
      BY <3>2, <3>3, <3>4
  <2>s. ASSUME NEW j \in Jobs, NEW circ \in Circuit,
               circuit' = [circuit EXCEPT ![HostOf[w]][TypeOf[j]] = circ]
        PROVE  ConsumerTypeOK'
    <3>1. [circuit[HostOf[w]] EXCEPT ![TypeOf[j]] = circ] \in [Types -> Circuit]
      BY <1>k, <2>i, <2>s
    <3> QED
      BY <1>k, <1>8, <2>i, <2>s, <3>1 DEF ConsumerTypeOK
  <2>h. \A j \in Jobs : circuit[HostOf[w]][TypeOf[j]] \in Circuit
    BY <1>k, <2>i, ConsumerAssumption
  <2>1. ASSUME NEW j \in Jobs, ResetCircuit(w, j) PROVE RepairTypeOK'
    <3>1. ConsumerTypeOK'
      BY <2>1, <2>s, <2>h, <2>z DEF ResetCircuit
    <3>2. WorkTypeOK'
      BY <1>k, <2>1, TakeType DEF ResetCircuit, WorkPc
    <3>3. HandOK' /\ AskedOK'
      BY <1>k, <2>1 DEF ResetCircuit, Take, HandOK, Holding, AskedOK, AskedPcs, Work
    <3> QED
      BY <1>0, <1>u, <2>1, <3>1, <3>2, <3>3 DEF ResetCircuit
  <2>2. ASSUME ResetOpen(w) PROVE RepairTypeOK'
    <3>0. work[w].cur \in Jobs
      BY <2>2 DEF ResetOpen, AskedOK, AskedPcs
    <3>1. ConsumerTypeOK'
      BY <2>2, <2>s, <2>h, <2>z, <3>0 DEF ResetOpen
    <3>2. WorkTypeOK'
      BY <1>k, <2>2, GotoType DEF ResetOpen, WorkPc
    <3>3. HandOK' /\ AskedOK'
      BY <1>k, <2>2, <3>0 DEF ResetOpen, Goto, HandOK, Holding, AskedOK, AskedPcs, Work
    <3> QED
      BY <1>0, <1>u, <2>2, <3>1, <3>2, <3>3 DEF ResetOpen
  <2>3. ASSUME ResetLast(w) PROVE RepairTypeOK'
    <3>0. work[w].cur \in Jobs
      BY <2>3 DEF ResetLast, AskedOK, AskedPcs
    <3>1. ConsumerTypeOK'
      BY <2>3, <2>s, <2>h, <2>z, <3>0 DEF ResetLast
    <3> QED
      BY <1>0, <1>n, <1>r, <1>u, <2>3, <3>1 DEF ResetLast, Answered
  <2> QED
    BY <1>8, <2>1, <2>2, <2>3 DEF ResetStep
<1> QED
  BY <1>1, <1>2, <1>3, <1>4, <1>5, <1>6, <1>7, <1>8 DEF AdminOf, AdminStep

\* The operator's threads are among those of the instances.
LEMMA OperatorStep ==
  ASSUME AdminNext
  PROVE  \E w \in Schedulers : AdminOf(w)
BY AdminAssumption DEF AdminNext, AdminOf

\* No other step touches a request, but by ending it.
LEMMA OthersAsked ==
  ASSUME AskedOK,
         \/ UNCHANGED work
         \/ EnvironmentNext
  PROVE  AskedOK'
<1>1. CASE UNCHANGED work
  BY <1>1 DEF AskedOK
<1>2. CASE \E i \in Instances : Crash(i)
  BY <1>2 DEF AskedOK, AskedPcs, Crash, IdleWork
<1> QED
  BY <1>1, <1>2 DEF EnvironmentNext, Tick, Rebalance, RedisLoss

\* Every variable keeps its type while the operator repairs what he likes.
THEOREM RepairTypeCorrect == RepairSpec => []RepairTypeOK
<1>1. Init => RepairTypeOK
  <2> SUFFICES ASSUME Init PROVE RepairTypeOK
    OBVIOUS
  <2>1. Null \in Time /\ Null \in 0 .. Never /\ 1 \in Clock /\ 0 \in 0 .. MaxFaults
    BY StoreAssumption DEF Null, Time, Never, Clock
  <2>2. StoreTypeOK
    BY <2>1, NoRowType, SystemAssumption DEF Init, StoreInit, StoreTypeOK
  <2>3. ApiTypeOK
    BY DEF Init, ApiInit, ApiTypeOK
  <2>4. WorkTypeOK
    BY <2>1, IdleWorkType DEF Init, WorkInit, WorkTypeOK
  <2>5. ConsumerTypeOK
    BY IdleTaskType, ClosedCircuitType DEF Init, ConsumerInit, ConsumerTypeOK
  <2>6. HandOK /\ AskedOK
    BY DEF Init, WorkInit, HandOK, Holding, AskedOK, AskedPcs, IdleWork
  <2> QED
    BY <2>2, <2>3, <2>4, <2>5, <2>6 DEF TypeOK, RepairTypeOK
<1>2. RepairTypeOK /\ [RepairNext]_vars => RepairTypeOK'
  <2> SUFFICES ASSUME RepairTypeOK, [RepairNext]_vars PROVE RepairTypeOK'
    OBVIOUS
  <2> USE DEF RepairTypeOK
  <2>1. CASE \E j \in Jobs : ApiNext(j)
    BY <2>1, ApiTypes, OthersHand, OthersAsked DEF ApiNext
  <2>2. CASE \E w \in ScheduledThreads : WatchNext(w) \/ DispatchNow(w)
    <3> PICK w \in Schedulers : WatchNext(w) \/ DispatchNow(w)
      BY <2>2 DEF ScheduledThreads
    <3>1. AskedOK'
      BY ScheduledApart DEF AskedOK
    <3> QED
      BY <3>1, WatchTypes, WatchHand, DispatchTypes, DispatchHand
  <2>3. CASE AdminNext
    BY <2>3, OperatorStep, AdminTypes
  <2>4. CASE \E c \in Consumers : ConsumeNext(c)
    BY <2>4, ConsumeTypes, OthersHand, OthersAsked DEF ConsumeNext
  <2>5. CASE EnvironmentNext \/ \E p \in Partitions : CommitNext(p)
    BY <2>5, EnvironmentTypes, OthersHand, OthersAsked DEF CommitNext
  <2>6. CASE UNCHANGED vars
    BY <2>6 DEF vars, TypeOK, StoreTypeOK, ApiTypeOK, WorkTypeOK, ConsumerTypeOK, HandOK, AskedOK
  <2> QED
    BY <2>1, <2>2, <2>3, <2>4, <2>5, <2>6 DEF RepairNext
<1> QED
  BY <1>1, <1>2, PTL DEF RepairSpec

-----------------------------------------------------------------------------
\* A request makes no job PROCESSING, and QUEUED only the one it requeues.
LEMMA AdminWrites ==
  ASSUME RepairTypeOK, NEW w \in Schedulers, AdminOf(w)
  PROVE  /\ UNCHANGED <<api, task>>
         /\ \A k \in Jobs : db'[k].status = "PROCESSING" => db[k].status = "PROCESSING"
         /\ \A k \in Jobs : db'[k].status = "QUEUED" =>
              db[k].status = "QUEUED" \/ (RequeueSave(w) /\ k = work[w].cur)
<1>k. db \in [Jobs -> Job] /\ work[w].batch \in [Jobs -> Job]
  BY DEF RepairTypeOK, TypeOK, StoreTypeOK, WorkTypeOK, Work
<1>u. UNCHANGED <<api, task>>
  BY DEF AdminOf
<1>1. CASE UNCHANGED db
  BY <1>1, <1>u
<1>2. CASE RequeueSave(w)
  <2>1. work[w].cur \in Jobs
    BY <1>2 DEF RequeueSave, RepairTypeOK, AskedOK, AskedPcs
  <2>2. WithStatus(work[w].batch[work[w].cur], "QUEUED").status = "QUEUED"
    BY <1>k, <2>1, StatusOfCopy
  <2> QED
    BY <1>k, <1>u, <1>2, <2>2 DEF RequeueSave, SaveAs, Save
<1>3. CASE (RecoverRun(w) \/ RetryDueRun(w)) /\ UNCHANGED circuit
  <2>1. WatchNext(w)
    BY <1>u, <1>3 DEF WatchNext, WatchStep, RecoverRun, RetryDueRun
  <2>2. ~DispatchClaim(w)
    BY <1>3 DEF DispatchClaim, RecoverRun, RetryDueRun, RecoverQuery, RecoverAdd, RecoverSave,
                RecoverRetryQuery, RecoverRetryAdd, RecoverRetrySave, RetrySave, RetryAdd
  <2> QED
    BY <1>u, <2>1, <2>2, SchedulerWrites DEF RepairTypeOK
<1> QED
  BY <1>1, <1>2, <1>3
     DEF AdminOf, AdminCall, AdminStep, RecoverCall, ReconcileCall, Call, RequeueCall,
         RecoverReload, RecoverAnswer, ReconcileAnswer, Answered, OverdueQuery, OverdueAdd,
         RetryDueQuery, RequeueSend, ResetCircuit, ResetStep, ResetOpen, ResetLast, storeVars

\* A PROCESSING job is in the hands of a listener also while the operator
\* requeues jobs that are being executed (AdminService.java:93 refuses COMPLETED
\* and CANCELLED ones only).
THEOREM RepairProcessingSafe ==
  ASSUME ListenersSurvive
  PROVE  RepairSpec => []ProcessingIsCarried
<1>1. Init => ProcessingIsCarried
  BY DEF Init, StoreInit, NoRow, ProcessingIsCarried
<1>2. RepairTypeOK /\ ProcessingIsCarried /\ [RepairNext]_vars => ProcessingIsCarried'
  <2> SUFFICES ASSUME RepairTypeOK, ProcessingIsCarried, [RepairNext]_vars
               PROVE  ProcessingIsCarried'
    OBVIOUS
  <2>1. CASE AdminNext
    <3> PICK w \in Schedulers : AdminOf(w)
      BY <2>1, OperatorStep
    <3> QED
      BY AdminWrites DEF ProcessingIsCarried, HeldAt
  <2>2. CASE [Next]_vars
    BY <2>2, ProcessingStep DEF RepairTypeOK
  <2> QED
    BY <2>1, <2>2 DEF RepairNext, Next, ScheduledThreads
<1> QED
  BY <1>1, <1>2, RepairTypeCorrect, PTL DEF RepairSpec

\* A request sends the job it has made QUEUED, and takes no other from those who
\* carry it.
LEMMA AdminCarries ==
  ASSUME RepairTypeOK, SendsSucceed, NEW w \in Schedulers, AdminOf(w),
         NEW j \in Jobs, QueuedCarried(j) \/ (RequeueSave(w) /\ j = work[w].cur)
  PROVE  QueuedCarried(j)'
<1>k. TypeOK /\ HandOK /\ work \in [Schedulers -> Work]
  BY DEF RepairTypeOK, TypeOK, WorkTypeOK
<1>u. UNCHANGED <<api, task>>
  BY DEF AdminOf
<1>0. CASE RecoverRun(w) \/ RetryDueRun(w)
  <2>1. UNCHANGED circuit
    BY <1>0 DEF AdminOf, ResetCircuit, ResetStep, ResetOpen, ResetLast, RecoverRun, RetryDueRun,
                RecoverQuery, RecoverAdd, RecoverSave, RecoverRetryQuery, RecoverRetryAdd,
                RecoverRetrySave, RetrySave, RetryAdd, AdminCall, AdminStep
  <2>2. WatchNext(w)
    BY <1>u, <1>0, <2>1 DEF WatchNext, WatchStep, RecoverRun, RetryDueRun
  <2>3. ~RequeueSave(w)
    BY <1>0 DEF RequeueSave, RecoverRun, RetryDueRun, RecoverQuery, RecoverAdd, RecoverSave,
                RecoverRetryQuery, RecoverRetryAdd, RecoverRetrySave, RetrySave, RetryAdd
  <2> QED
    BY <1>k, <2>2, <2>3, SchedulerCarries
<1> SUFFICES ASSUME ~(RecoverRun(w) \/ RetryDueRun(w)) PROVE QueuedCarried(j)'
  BY <1>0
<1>o. \A v \in Schedulers \ {w} : work'[v] = work[v]
  BY <1>k DEF AdminOf, AdminCall, AdminStep, RecoverCall, ReconcileCall, Call, RequeueCall,
              RecoverReload, RecoverAnswer, ReconcileAnswer, Answered, OverdueQuery, OverdueAdd,
              RetryDueQuery, RequeueSave, RequeueSend, ResetCircuit, ResetStep, ResetOpen, ResetLast,
              Goto, Fetch, Take, Finish, Return
<1>i. \/ RequeueSend(w)
      \/ UNCHANGED inbox /\ work[w].pc \notin CarryingPcs
  BY DEF AdminOf, AdminCall, AdminStep, RecoverCall, ReconcileCall, Call, RequeueCall,
         RecoverReload, RecoverAnswer, ReconcileAnswer, Answered, OverdueQuery, OverdueAdd,
         RetryDueQuery, RequeueSave, ResetCircuit, ResetStep, ResetOpen, ResetLast, CarryingPcs,
         storeVars, kafkaVars
<1>c. RequeueSend(w) => work[w].cur \in Jobs
  BY DEF RequeueSend, RepairTypeOK, AskedOK, AskedPcs
<1>1. CASE Waiting(j)
  <2>1. CASE RequeueSend(w)
    BY <1>k, <1>c, <1>1, <2>1, SentWaits DEF RequeueSend, QueuedCarried
  <2>2. CASE UNCHANGED inbox
    BY <1>1, <2>2 DEF Waiting, QueuedCarried
  <2> QED
    BY <1>i, <2>1, <2>2
<1>2. CASE api[j] = "queued"
  BY <1>2, <1>u DEF QueuedCarried
<1>3. CASE \E c \in Consumers : Loaded(j, c)
  BY <1>3, <1>u DEF QueuedCarried, Loaded, BeforeOutcome
<1>4. CASE InHand(j, CarryingPcs)
  <2> PICK v \in Schedulers : work[v].cur = j /\ work[v].pc \in CarryingPcs
    BY <1>4 DEF InHand
  <2>1. CASE v = w
    BY <1>k, <1>i, <2>1, SentWaits DEF RequeueSend, QueuedCarried
  <2>2. CASE v # w
    BY <1>o, <2>2 DEF InHand, QueuedCarried, CarryingPcs
  <2> QED
    BY <2>1, <2>2
<1>5. CASE RequeueSave(w) /\ j = work[w].cur
  <2>1. work'[w].cur = j /\ work'[w].pc = "requeueSend"
    BY <1>k, <1>5 DEF RequeueSave, Goto, Work
  <2> QED
    BY <2>1 DEF InHand, QueuedCarried
<1> QED
  BY <1>1, <1>2, <1>3, <1>4, <1>5 DEF QueuedCarried, Loaded, BeforeOutcome, CarryingPcs

\* A QUEUED job has somebody who will move it on also while the operator requeues
\* jobs, one that is being executed included: the row is saved before the record
\* is sent (AdminService.java:98-100), and no listener drops the last record of a
\* row it has not written.
THEOREM RepairQueuedSafe ==
  ASSUME SendsSucceed
  PROVE  RepairSpec => []QueuedIsCarried
<1>1. Init => QueuedIsCarried
  BY DEF Init, StoreInit, NoRow, QueuedIsCarried
<1>2. RepairTypeOK /\ QueuedIsCarried /\ [RepairNext]_vars => QueuedIsCarried'
  <2> SUFFICES ASSUME RepairTypeOK, QueuedIsCarried, [RepairNext]_vars
               PROVE  QueuedIsCarried'
    OBVIOUS
  <2>1. CASE AdminNext
    <3> PICK w \in Schedulers : AdminOf(w)
      BY <2>1, OperatorStep
    <3> SUFFICES ASSUME NEW j \in Jobs, db'[j].status = "QUEUED" PROVE QueuedCarried(j)'
      BY DEF QueuedIsCarried
    <3>1. db[j].status = "QUEUED" => QueuedCarried(j)
      BY DEF QueuedIsCarried
    <3> QED
      BY <3>1, AdminWrites, AdminCarries
  <2>2. CASE [Next]_vars
    BY <2>2, QueuedStep DEF RepairTypeOK
  <2> QED
    BY <2>1, <2>2 DEF RepairNext, Next, ScheduledThreads
<1> QED
  BY <1>1, <1>2, RepairTypeCorrect, PTL DEF RepairSpec
=============================================================================
