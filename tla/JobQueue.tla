------------------------------ MODULE JobQueue ------------------------------
(***************************************************************************)
(* The job queue: the request threads, the scheduler threads and the       *)
(* listener threads of every instance, on the shared stores, with the      *)
(* clock and the faults the deployment is exposed to.                      *)
(***************************************************************************)
EXTENDS JobApi, Watcher, Dispatcher, Consumer

CONSTANTS
  Assignment,     \* the partitions each listener thread is given first
  Crashable       \* the instances that may crash

ASSUME SystemAssumption ==
  /\ Assignment \in [Partitions -> Consumers]
  /\ \A w \in Schedulers : HostOf[w] \in Instances
  /\ \A j \in Jobs : HostOf[j] \in Instances

vars == <<db, delayQueue, cancelFlag, lastRun, inbox, unacked, owner, now, faults,
          api, work, task, circuit>>

TypeOK == StoreTypeOK /\ ApiTypeOK /\ WorkTypeOK /\ ConsumerTypeOK

Init == StoreInit(Assignment) /\ ApiInit /\ WorkInit /\ ConsumerInit

-----------------------------------------------------------------------------
(* The environment.                                                        *)

\* The request between its two reads of the clock takes less than a tick,
\* unless slow requests are part of the scenario.
PromptApi == "slowApi" \in FaultKinds \/ \A j \in Jobs : api[j] # "saved"

Tick ==
  /\ now < MaxTime
  /\ PromptApi
  /\ now' = now + 1
  /\ cancelFlag' = Expire(now + 1)
  /\ UNCHANGED <<db, delayQueue, lastRun, kafkaVars, faults, api, work, task, circuit>>

\* The JVM dies and starts again: its threads and its memory are gone, and
\* what its listeners had not committed is delivered again.
Crash(i) ==
  /\ i \in Crashable
  /\ Fault("crash")
  /\ api' = [j \in Jobs |-> IF HostOf[j] = i /\ api[j] # "none" THEN "done" ELSE api[j]]
  /\ work' = [w \in Schedulers |-> IF HostOf[w] = i THEN IdleWork(Null) ELSE work[w]]
  /\ task' = [c \in Consumers |-> IF HostOf[c] = i THEN IdleTask ELSE task[c]]
  /\ circuit' = [circuit EXCEPT ![i] = [t \in Types |-> ClosedCircuit]]
  /\ Rewind({p \in Partitions : HostOf[owner[p]] = i})
  /\ UNCHANGED <<db, redisVars, owner, now>>

\* A partition moves to another listener; the one that had it may still be
\* in the middle of a message (a poll that came too late).
Rebalance(p, c) ==
  /\ c # owner[p]
  /\ Fault("rebalance")
  /\ owner' = [owner EXCEPT ![p] = c]
  /\ Rewind({p})
  /\ UNCHANGED <<db, redisVars, now, api, work, task, circuit>>

\* Redis restarts empty.
RedisLoss ==
  /\ Fault("redisLoss")
  /\ delayQueue' = [j \in Jobs |-> Null]
  /\ cancelFlag' = [j \in Jobs |-> Null]
  /\ lastRun' = Null
  /\ UNCHANGED <<db, kafkaVars, now, api, work, task, circuit>>

-----------------------------------------------------------------------------
ApiNext(j) ==
  /\ \/ \E d \in Delays : CreateJob(j, d)
     \/ RouteJob(j) \/ PublishCreated(j) \/ CancelJob(j)
  /\ UNCHANGED <<work, task, circuit>>

WatchNext(w) ==
  /\ WatchStart(w) \/ WatchStep(w) \/ GapPublishFails(w)
  /\ UNCHANGED <<api, task, circuit>>

DispatchNow(w) ==
  /\ DispatchStart(w) \/ DispatchStep(w) \/ DispatchSendThrows(w)
  /\ UNCHANGED <<api, task, circuit>>

ConsumeNext(c) ==
  /\ \/ \E p \in Partitions : Receive(c, p)
     \/ ConsumeStep(c)
     \/ AttemptThrows(c) \/ ConsumeThrows(c)
  /\ UNCHANGED <<api, work>>

CommitNext(p) == Commit(p) /\ UNCHANGED <<api, work>>

EnvironmentNext ==
  \/ Tick
  \/ \E i \in Instances : Crash(i)
  \/ \E p \in Partitions, c \in Consumers : Rebalance(p, c)
  \/ RedisLoss

Next ==
  \/ \E j \in Jobs : ApiNext(j)
  \/ \E w \in Schedulers : WatchNext(w) \/ DispatchNow(w)
  \/ \E c \in Consumers : ConsumeNext(c)
  \/ \E p \in Partitions : CommitNext(p)
  \/ EnvironmentNext

Spec == Init /\ [][Next]_vars

-----------------------------------------------------------------------------
(* Who still has to act on a job.                                          *)

\* A message for j waits in a partition.
Waiting(j) == \E p \in Partitions : \E k \in 1 .. Len(inbox[p]) : inbox[p][k] = j

\* A scheduler thread has job j in hand at one of these points.
InHand(j, pcs) == \E w \in Schedulers : work[w].cur = j /\ work[w].pc \in pcs

\* A listener thread has job j at one of these stages.
HeldAt(j, stages) == \E c \in Consumers : task[c].job = j /\ task[c].stage \in stages

BeforeStart == {"loaded", "cancelling", "gate", "limited", "circuit", "tripped", "halfOpen", "admit"}
Running == {"executing", "succeeded", "failed", "counted"}
PastCheck == {"gate", "limited", "circuit", "tripped", "halfOpen", "admit"} \cup Running

-----------------------------------------------------------------------------
(* No job is lost: in every state that is not final, somebody is bound to  *)
(* move it on.                                                             *)

\* A QUEUED job has a message, a thread about to send one (createJob,
\* dispatch or an admin request), or a listener that loaded it QUEUED and
\* has not started it, or is about to save that the attempt failed.
\* Threatened by the stale saves of createJob and watch(), and by a send
\* that is missing after the save.
QueuedCarried(j) ==
  \/ Waiting(j)
  \/ api[j] = "queued"
  \/ InHand(j, {"publish", "requeueSend"})
  \/ \E c \in Consumers : /\ task[c].job = j
                          /\ task[c].stage \in BeforeStart \cup {"failed", "counted"}
                          /\ task[c].entity.status = "QUEUED"

\* No QUEUED job is left without one of these (the send of createJob and
\* dispatch(), the listener's copy).
QueuedIsCarried == \A j \in Jobs : db[j].status = "QUEUED" => QueuedCarried(j)

ScheduledCarried(j) == delayQueue[j] # Null \/ InHand(j, {"pendingAdd", "retryAdd"})

\* A SCHEDULED job is in the delay queue, or the watcher is about to add it:
\* the dispatcher takes an entry out after re-reading the row, the watcher
\* writes the row and the entry in two steps.
ScheduledIsCarried == \A j \in Jobs : db[j].status = "SCHEDULED" => ScheduledCarried(j)

\* A PROCESSING job is in the hands of a listener that will write its outcome:
\* no copy read earlier may bring PROCESSING back later.
ProcessingIsCarried ==
  \A j \in Jobs : db[j].status = "PROCESSING" => HeldAt(j, Running)

-----------------------------------------------------------------------------
(* Why a SCHEDULED job stays in the delay queue: what a scheduler thread   *)
(* knows at each point of its loops, when it is the only one.  These parts *)
(* make ScheduledIsCarried inductive.                                      *)

\* The job in hand is on the thread's list.
Holding == {"recoverSave", "recoverRetrySave", "pendingAdd", "retryAdd",
            "drop", "claim", "publish", "remove"}
HandOK == \A w \in Schedulers : work[w].pc \in Holding => work[w].cur \in work[w].todo

\* The entry that is about to be taken out is not that of a SCHEDULED job.
TakenOutUnscheduled ==
  \A w \in Schedulers :
    work[w].pc \in {"drop", "publish", "remove"} => db[work[w].cur].status # "SCHEDULED"

\* The recovery saves SCHEDULED only once the entry is there.
RecoveredIsQueued ==
  \A w \in Schedulers :
    work[w].pc \in {"recoverSave", "recoverRetrySave"} => delayQueue[work[w].cur] # Null

\* The times the watcher is going to use as scores are not null.
ListedIsDated ==
  \A w \in Schedulers, j \in Jobs :
    j \in work[w].todo =>
      /\ work[w].pc \in {"recoverAdd", "recoverSave", "pendingSave", "pendingAdd"}
           => work[w].batch[j].at # Null
      /\ work[w].pc \in {"recoverRetryAdd", "recoverRetrySave", "retrySave", "retryAdd"}
           => work[w].batch[j].next # Null

\* No SCHEDULED job drops out of the delay queue (ScheduledIsCarried), with what
\* the scheduler thread must know for that.  The conjunction is inductive when there is
\* SoleScheduler and neither that thread nor Redis is lost: the other threads,
\* the broker and the clock may do what they like.
ScheduledInv ==
  HandOK /\ TakenOutUnscheduled /\ RecoveredIsQueued /\ ListedIsDated /\ ScheduledIsCarried

\* One instance runs the @Scheduled methods, as in docker-compose.yml.
SoleScheduler == \A v, w \in Schedulers : v = w

\* Neither the instance of a scheduler thread nor Redis is among what may fail.
SchedulerSurvives ==
  "redisLoss" \notin FaultKinds /\ \A w \in Schedulers : HostOf[w] \notin Crashable

-----------------------------------------------------------------------------
(* What a step may never do.                                               *)

\* A job goes from the delay queue to Kafka no earlier than its schedule
\* time, and after a failure no earlier than its backoff: no other path may
\* leave an older score in the queue.
NotBeforeDue ==
  [][\A j \in Jobs :
       db[j].status = "SCHEDULED" /\ db'[j].status = "QUEUED" =>
         now >= db[j].at /\ now >= db[j].next]_vars

\* COMPLETED, FAILED and CANCELLED are final: no thread writes an older copy
\* of the row over them (README.md:189, "Final State").
TerminalIsFinal ==
  [][\A j \in Jobs : db[j].status \in Terminal => db'[j].status = db[j].status]_vars

\* No two listeners execute one job at the same time: the check of QUEUED
\* before the execution "ensure[s] jobs aren't processed multiple times"
\* (README.md:164).
ExecutedByOne ==
  \A c, d \in Consumers :
    c # d /\ task[c].stage \in Running /\ task[d].stage \in Running => task[c].job # task[d].job

\* There is one way at a time for a job to be started: at most one message
\* waits for it or one listener holds it.
Copies(j) ==
  Cardinality({m \in Partitions \X (1 .. MaxLog) :
                 m[2] <= Len(inbox[m[1]]) /\ inbox[m[1]][m[2]] = j})
    + Cardinality({c \in Consumers : task[c].job = j})

SingleFlight == \A j \in Jobs : Copies(j) <= 1

-----------------------------------------------------------------------------
(* Liveness.  The threads of a healthy instance go on; one scheduler thread *)
(* serves both @Scheduled methods and the container polls every partition  *)
(* in turn, so each is served again and again (strong fairness); the rate  *)
(* window does not refuse forever.                                         *)

RateAllowed(c) == ConsumeNext(c) /\ task[c].stage = "gate" /\ task'[c].stage = "circuit"

SchedulerFairness(w) ==
  /\ SF_vars(WatchStart(w) /\ UNCHANGED <<api, task, circuit>>)
  /\ SF_vars(DispatchStart(w) /\ UNCHANGED <<api, task, circuit>>)
  /\ WF_vars((WatchStep(w) \/ DispatchStep(w)) /\ UNCHANGED <<api, task, circuit>>)

ServiceFairness ==
  /\ WF_vars(Tick)
  /\ \A j \in Jobs :
       WF_vars((RouteJob(j) \/ PublishCreated(j)) /\ UNCHANGED <<work, task, circuit>>)
  /\ \A c \in Consumers :
       /\ WF_vars(ConsumeStep(c) /\ UNCHANGED <<api, work>>)
       /\ SF_vars(RateAllowed(c))
  /\ \A p \in Partitions :
       /\ SF_vars(\E c \in Consumers : Receive(c, p) /\ UNCHANGED <<api, work>>)
       /\ SF_vars(CommitNext(p))

Fairness == ServiceFairness /\ \A w \in Schedulers : SchedulerFairness(w)

FairSpec == Spec /\ Fairness

\* Every job ends: from some moment on it is COMPLETED, FAILED or CANCELLED,
\* through retries, deferrals, an open circuit and stale copies.
EveryJobSettles ==
  \A j \in Jobs : <>[](db[j].status \in Terminal \cup {"NONE"})

\* A job cancelled before its listener has looked at the flag ends CANCELLED,
\* wherever it was: still to be watched, in the delay queue, in Kafka, or
\* waiting for a retry ("When the job eventually gets picked up, it will be
\* CANCELLED", e2e-test.js:299).  It is so as long as the flag does not expire.
CancelTakesEffect ==
  \A j \in Jobs :
    (cancelFlag[j] # Null /\ db[j].status \notin Terminal /\ ~HeldAt(j, PastCheck))
      ~> (db[j].status = "CANCELLED")

\* A job a consumer was processing when it crashed is taken up again: "If
\* consumers crash, they resume consumption from where they left off when they
\* restart" (README.md:345).
ProcessingResumes ==
  \A j \in Jobs : (db[j].status = "PROCESSING") ~> (db[j].status # "PROCESSING")

-----------------------------------------------------------------------------
(* The promise of JobLifecycle, read off the rows.  It is kept when every  *)
(* job is scheduled ahead and no fault occurs.                             *)

Lifecycle == INSTANCE JobLifecycle WITH
  status <- [j \in Jobs |-> db[j].status],
  retries <- [j \in Jobs |-> db[j].retries]

\* The rows of the jobs follow the abstract lifecycle, step by step.
FollowsLifecycle == Lifecycle!Spec
=============================================================================
