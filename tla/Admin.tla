------------------------------- MODULE Admin -------------------------------
(***************************************************************************)
(* The job queue with AdminService: an operator (or the orchestrator) asks *)
(* for a repair, which a request thread carries out row by row while the   *)
(* scheduler and listener threads go on.  The watcher's recovery is the    *)
(* code of the scheduler thread (Watcher), run here by a request thread.   *)
(***************************************************************************)
EXTENDS JobQueue

CONSTANT
  Operators,      \* the threads in Schedulers that serve admin requests; the
                  \* others run the @Scheduled methods
  Requests,       \* the operations the operator uses
  Stuck,          \* bound: the statuses in which a job looks stuck to him
  Alarm           \* bound: the number of faults that bring him into play

ASSUME AdminAssumption ==
  /\ Operators \subseteq Schedulers
  /\ Requests \subseteq {"recover", "reconcile", "requeue", "reset"}
  /\ Stuck \subseteq JobStatus
  /\ Alarm \in Nat

ScheduledThreads == Schedulers \ Operators

FindOverdueScheduled(t) ==
  {j \in Jobs : db[j].status = "SCHEDULED" /\ InRange(db[j].at, Null, t)}
FindRetryDue(t) == FindRetryWindow(Null, t)

\* A request comes in: the clock is read.
Call(w, pc) ==
  /\ work[w].pc = "idle"
  /\ work' = [work EXCEPT ![w].pc = pc, ![w].clock = now]
  /\ UNCHANGED storeVars

Answered(w) == Return(w, Null) /\ UNCHANGED storeVars

\* The session of a request (open-in-view) gives a row that it has loaded before
\* as it was then, not as RETRY: the check in the second loop (WatcherService 108,
\* AdminService 69) skips it.  Which rows of the page these are is left open.
Skipping(pages) == UNION {SUBSET P : P \in pages}

-----------------------------------------------------------------------------
(* POST /admin/watcher/recover: recoverMissedJobs, whether there was a gap  *)
(* or not.                                                                 *)

RecoverCall(w) == "recover" \in Requests /\ Call(w, "recover")

RecoverRun(w) ==
  \/ RecoverQuery(w) \/ RecoverAdd(w) \/ RecoverSave(w)
  \/ RecoverRetryAdd(w) \/ RecoverRetrySave(w)

RecoverReload(w) ==
  /\ work[w].pc = "recoverAdd" /\ work[w].todo = {}
  /\ \E S \in Skipping(Page(FindRetryInRange(work[w].clock - RecoveryWindow, work[w].clock),
                            RecoverPage)) :
       Fetch(w, "recoverRetryAdd", S)
  /\ UNCHANGED storeVars

RecoverAnswer(w) ==
  /\ work[w].pc = "recoverRetryAdd" /\ work[w].todo = {}
  /\ Answered(w)

-----------------------------------------------------------------------------
(* POST /admin/redis/reconcile: overdue SCHEDULED rows are added again at   *)
(* their schedule time, due RETRY rows saved and added as watch() does.    *)

ReconcileCall(w) == "reconcile" \in Requests /\ Call(w, "overdue")

OverdueQuery(w) ==
  /\ work[w].pc = "overdue"
  /\ \E S \in OldestPage(FindOverdueScheduled(work[w].clock), RecoverPage, ScheduleTimes(db)) :
       Fetch(w, "overdueAdd", S)
  /\ UNCHANGED storeVars

OverdueAdd(w) ==
  /\ work[w].pc = "overdueAdd"
  /\ \E j \in Earliest(w, ScheduleTimes(work[w].batch)) :
       /\ ScheduleJob(j, work[w].batch[j].at)
       /\ Finish(w, "overdueAdd", j)
  /\ UNCHANGED <<db, cancelFlag, lastRun, kafkaVars, now, faults>>

RetryDueQuery(w) ==
  /\ work[w].pc = "overdueAdd" /\ work[w].todo = {}
  /\ \E S \in Skipping(OldestPage(FindRetryDue(work[w].clock), RecoverPage, NextRetryTimes(db))) :
       Fetch(w, "retrySave", S)
  /\ UNCHANGED storeVars

RetryDueRun(w) == RetrySave(w) \/ RetryAdd(w)

ReconcileAnswer(w) ==
  /\ work[w].pc = "retrySave" /\ work[w].todo = {}
  /\ Answered(w)

-----------------------------------------------------------------------------
(* POST /admin/jobs/{id}/requeue: any row that is not COMPLETED or          *)
(* CANCELLED, FAILED and PROCESSING ones included.                         *)

Requeuable(row) == row.status \notin {"NONE", "COMPLETED", "CANCELLED"}

RequeueCall(w, j) ==
  /\ "requeue" \in Requests
  /\ work[w].pc = "idle"
  /\ Requeuable(db[j]) /\ db[j].status \in Stuck
  /\ work' = [work EXCEPT ![w].pc = "requeue", ![w].cur = j, ![w].batch = [@ EXCEPT ![j] = db[j]]]
  /\ UNCHANGED storeVars

RequeueSave(w) ==
  /\ work[w].pc = "requeue"
  /\ SaveAs(w, work[w].cur, "QUEUED")
  /\ Goto(w, "requeueSend")
  /\ UNCHANGED <<redisVars, kafkaVars, now, faults>>

\* Variant: the row is saved, nothing is sent.
RequeueSendForgotten(w) ==
  /\ work[w].pc = "requeueSend"
  /\ Answered(w)

RequeueSend(w) ==
  /\ work[w].pc = "requeueSend"
  /\ SendOrThrow(work[w].cur)
  /\ Return(w, Null)
  /\ UNCHANGED <<db, redisVars, unacked, owner, now>>

-----------------------------------------------------------------------------
(* POST /admin/circuit/{type}/reset: three writes, one after the other, to *)
(* the maps of the instance that serves the request.  The type is that of  *)
(* the job in hand.                                                        *)

ResetCircuit(w, j) ==
  /\ "reset" \in Requests
  /\ work[w].pc = "idle"
  /\ circuit' = [circuit EXCEPT ![HostOf[w]][TypeOf[j]].failures = 0]
  /\ Take(w, "resetOpen", j)
  /\ UNCHANGED storeVars

ResetOpen(w) ==
  /\ work[w].pc = "resetOpen"
  /\ circuit' = [circuit EXCEPT ![HostOf[w]][TypeOf[work[w].cur]].open = FALSE]
  /\ Goto(w, "resetLast")
  /\ UNCHANGED storeVars

ResetLast(w) ==
  /\ work[w].pc = "resetLast"
  /\ circuit' = [circuit EXCEPT ![HostOf[w]][TypeOf[work[w].cur]].last = Null]
  /\ Answered(w)

-----------------------------------------------------------------------------
AdminCall(w) ==
  \/ RecoverCall(w) \/ ReconcileCall(w)
  \/ \E j \in Jobs : RequeueCall(w, j)

AdminStep(w) ==
  \/ RecoverRun(w) \/ RecoverReload(w) \/ RecoverAnswer(w)
  \/ OverdueQuery(w) \/ OverdueAdd(w) \/ RetryDueQuery(w) \/ RetryDueRun(w) \/ ReconcileAnswer(w)
  \/ RequeueSave(w) \/ RequeueSend(w)

ResetStep(w) == ResetOpen(w) \/ ResetLast(w)

Called == faults >= Alarm

AdminNext ==
  \E w \in Operators :
    \/ Called /\ AdminCall(w) /\ UNCHANGED <<api, task, circuit>>
    \/ AdminStep(w) /\ UNCHANGED <<api, task, circuit>>
    \/ Called /\ (\E j \in Jobs : ResetCircuit(w, j)) /\ UNCHANGED <<api, task>>
    \/ ResetStep(w) /\ UNCHANGED <<api, task>>

RepairNext ==
  \/ \E j \in Jobs : ApiNext(j)
  \/ \E w \in ScheduledThreads : WatchNext(w) \/ DispatchNow(w)
  \/ AdminNext
  \/ \E c \in Consumers : ConsumeNext(c)
  \/ \E p \in Partitions : CommitNext(p)
  \/ EnvironmentNext

RepairSpec == Init /\ [][RepairNext]_vars

\* The threads are as fair as without the operator, and he (a person, or the
\* orchestrator) does not tire of asking for a reconciliation and for any job
\* to be requeued.
OperatorFairness(w) ==
  /\ SF_vars(Called /\ ReconcileCall(w) /\ UNCHANGED <<api, task, circuit>>)
  /\ \A j \in Jobs : SF_vars(Called /\ RequeueCall(w, j) /\ UNCHANGED <<api, task, circuit>>)
  /\ WF_vars(AdminStep(w) /\ UNCHANGED <<api, task, circuit>>)
  /\ WF_vars(ResetStep(w) /\ UNCHANGED <<api, task>>)

FairRepairSpec ==
  /\ RepairSpec
  /\ ServiceFairness
  /\ \A w \in ScheduledThreads : SchedulerFairness(w)
  /\ \A w \in Operators : OperatorFairness(w)
-----------------------------------------------------------------------------
\* A fault, or a race of an operation with the service, has left the job where
\* no thread of the service will move it from.
Abandoned(j) ==
  \/ db[j].status = "SCHEDULED" /\ db[j].at <= now /\ ~ScheduledCarried(j)
  \/ db[j].status = "QUEUED" /\ ~QueuedCarried(j)
  \/ db[j].status = "PROCESSING" /\ ~HeldAt(j, Running)

\* The operator's requests bring such a job to its end: a loss of Redis, a send
\* that throws and a crash of the listeners are repaired by /admin/redis/reconcile
\* and /admin/jobs/{id}/requeue, in the middle of all that goes on.
AbandonedIsRepaired == \A j \in Jobs : Abandoned(j) ~> (db[j].status \in Terminal)

\* When a recovery is answered, the jobs it was to recover are in the delay queue:
\* "Recovered jobs reinserted into Redis delay queue" (AdminService.java:45).
RecoveredAreReinserted ==
  [][\A w \in Operators :
       RecoverAnswer(w) =>
         \A j \in Jobs :
           /\ db[j].status = "SCHEDULED"
           /\ InRange(db[j].at, work[w].clock - RecoveryWindow, work[w].clock)
           => ScheduledCarried(j)]_vars
=============================================================================
