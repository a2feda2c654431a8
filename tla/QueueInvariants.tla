-------------------------- MODULE QueueInvariants --------------------------
(***************************************************************************)
(* Why a job that is scheduled ahead is handled by one thread at a time    *)
(* (FlightInv), and why it is not dispatched too early (DueInv): what each *)
(* thread knows at each point of its method.  Both invariants are          *)
(* inductive under the conditions named first.                             *)
(***************************************************************************)
EXTENDS JobQueue

-----------------------------------------------------------------------------
(* Conditions on the deployment and on what may fail.                      *)

\* Every job is asked for later than the immediate threshold, and the request
\* reads its clock twice within a tick: createJob leaves the job to the watcher.
ScheduledAhead ==
  "slowApi" \notin FaultKinds /\ \A d \in Delays : d > ImmediateThreshold

\* No listener's instance crashes, and consume() does not end with an exception.
ListenersSurvive ==
  "consumeThrows" \notin FaultKinds /\ \A c \in Consumers : HostOf[c] \notin Crashable

\* Then, and if no partition moves, Kafka delivers each record once.
DeliveredOnce == ListenersSurvive /\ "rebalance" \notin FaultKinds

\* The instance of the scheduler thread goes on.
SchedulerRuns == \A w \in Schedulers : HostOf[w] \notin Crashable

\* A gap is longer than the watcher looks ahead (25000 and 20000).
GapExceedsLookahead == Lookahead <= GapLimit

-----------------------------------------------------------------------------
(* The creation request.                                                   *)

\* What is not created has no row.
UncreatedIsAbsent == \A j \in Jobs : api[j] = "none" => db[j] = NoRow

\* A request that has saved its row will find it too far ahead to publish it.
LeftToWatcher ==
  \A j \in Jobs :
    /\ api[j] # "queued"
    /\ api[j] = "saved" => db[j].at - now > ImmediateThreshold

RequestInv == UncreatedIsAbsent /\ LeftToWatcher

-----------------------------------------------------------------------------
(* One thread at a time.                                                   *)

\* The points of watch() at which it goes through a list of entities.
Listing == {"recoverAdd", "recoverSave", "recoverRetryAdd", "recoverRetrySave",
            "pendingSave", "pendingAdd", "retrySave", "retryAdd"}

\* A job the thread still has to save is as it was when it was listed.
Unsaved(w, j) == j \in work[w].todo /\ ~(work[w].pc \in {"pendingAdd", "retryAdd"} /\ work[w].cur = j)

ListIsFresh ==
  \A w \in Schedulers, j \in Jobs :
    work[w].pc \in Listing /\ Unsaved(w, j) =>
      db[j] = work[w].batch[j] /\ db[j].status \in {"PENDING", "SCHEDULED", "RETRY"}

ClaimIsFresh ==
  \A w \in Schedulers :
    work[w].pc = "claim" => /\ db[work[w].cur] = work[w].batch[work[w].cur]
                            /\ db[work[w].cur].status = "SCHEDULED"

Held(j) == \E c \in Consumers : task[c].job = j

\* What is about to be published is QUEUED, and on no other way to be started.
PublishedIsNew ==
  \A w \in Schedulers :
    work[w].pc = "publish" =>
      /\ db[work[w].cur].status = "QUEUED"
      /\ ~Waiting(work[w].cur) /\ ~Held(work[w].cur)

\* A job with a message is QUEUED, the message is the only one, and no
\* listener has the job.
WaitingIsQueued == \A j \in Jobs : Waiting(j) => db[j].status = "QUEUED" /\ ~Held(j)

OneMessage ==
  \A p, q \in Partitions : \A k \in 1 .. Len(inbox[p]), l \in 1 .. Len(inbox[q]) :
    inbox[p][k] = inbox[q][l] => p = q /\ k = l

OneHolder ==
  \A c, d \in Consumers : task[c].job \in Jobs /\ task[c].job = task[d].job => c = d

\* The status a job shows while a listener is at a stage.  A save that throws
\* in the attempt leaves it QUEUED.
Shows(stage, s) ==
  \/ stage \in BeforeStart /\ s = "QUEUED"
  \/ stage \in Running /\ s = "PROCESSING"
  \/ stage \in {"failed", "counted"} /\ s = "QUEUED" /\ "saveThrows" \in FaultKinds
  \/ stage = "completed" /\ s = "COMPLETED"
  \/ stage = "clearing" /\ s = "CANCELLED"

\* But for the status, the row is the copy the listener has loaded.
CopyIsRow(c) ==
  IF task[c].stage = "idle"
    THEN task[c].job = NoJob
    ELSE /\ task[c].job \in Jobs
         /\ task[c].entity.status = "QUEUED"
         /\ \E s \in JobStatus : /\ Shows(task[c].stage, s)
                                 /\ db[task[c].job] = WithStatus(task[c].entity, s)

CopiesAreRows == \A c \in Consumers : CopyIsRow(c)

\* Each job is on one list, in one partition or with one listener, which alone
\* writes its row.  Makes SingleFlight inductive, under SoleScheduler,
\* ScheduledAhead and DeliveredOnce: the scheduler's instance may crash, Redis be
\* emptied, sends be lost or throw, saves throw in an attempt.
FlightInv ==
  /\ RequestInv
  /\ ListIsFresh /\ ClaimIsFresh /\ PublishedIsNew
  /\ WaitingIsQueued /\ OneMessage /\ OneHolder /\ CopiesAreRows

-----------------------------------------------------------------------------
(* Never too early.                                                        *)

\* The jobs whose schedule time has come.
Arrived == {j \in Jobs : db[j].status # "NONE" /\ db[j].at <= now}

\* A job that has left the delay queue has arrived, and so has every job with
\* a record, delivered or not, or a listener; its copies say the same time.
BeyondQueueArrived ==
  \A j \in Jobs : db[j].status \notin {"NONE", "PENDING", "SCHEDULED"} => j \in Arrived

RecordsArrived ==
  \A p \in Partitions : inbox[p] \in Seq(Arrived) /\ unacked[p] \in Seq(Arrived)

CopiesArrived ==
  \A c \in Consumers :
    task[c].job \in Jobs => task[c].job \in Arrived /\ task[c].entity.at = db[task[c].job].at

\* A job that was never tried has no retry time.
PendingUndated == \A j \in Jobs : db[j].status = "PENDING" => db[j].next = Null

\* The clock of a method is not ahead of the wall clock.
ClockRead == \A w \in Schedulers : work[w].clock <= now

\* What the lists of watch() say of the times.
ListTimes(w, j) ==
  LET row == work[w].batch[j]  pc == work[w].pc IN
  /\ pc \in Listing => db[j].status # "NONE" /\ row.at = db[j].at
  /\ pc \in {"recoverAdd", "recoverSave"} => row.at <= work[w].clock /\ row.next <= work[w].clock
  /\ pc \in {"recoverRetryAdd", "recoverRetrySave"} => row.next <= work[w].clock /\ j \in Arrived
  /\ pc \in {"pendingSave", "pendingAdd"} => row.next = Null
  /\ pc \in {"retrySave", "retryAdd"} =>
       row.next <= Later(work[w].clock, Lookahead) /\ j \in Arrived

ListsAreTimely == \A w \in Schedulers, j \in Jobs : j \in work[w].todo => ListTimes(w, j)

\* A job that is claimed or published has arrived, and the claimed copy says when;
\* the copy whose entry is about to be added has the retry time of the row, if that
\* is still SCHEDULED.
InHandIsTimely ==
  \A w \in Schedulers :
    LET j == work[w].cur IN
    /\ work[w].pc \in {"claim", "publish"} => j \in Arrived
    /\ work[w].pc = "claim" => work[w].batch[j].at = db[j].at
    /\ work[w].pc \in {"pendingAdd", "retryAdd"} /\ db[j].status = "SCHEDULED" =>
         db[j].next = work[w].batch[j].next

\* The entry of a SCHEDULED job comes up no earlier than its schedule time and
\* its retry time, unless the thread is about to write it.
ScoreIsDue ==
  \A j \in Jobs :
    db[j].status = "SCHEDULED" =>
      \/ delayQueue[j] = Null
      \/ InHand(j, {"pendingAdd", "retryAdd"})
      \/ \A t \in {db[j].at, db[j].next} : t <= now \/ t <= delayQueue[j]

\* What dispatch() goes through is due.
Polling == {"load", "drop", "claim", "publish", "remove"}
PollIsDue ==
  \A w \in Schedulers, j \in Jobs :
    work[w].pc \in Polling /\ j \in work[w].todo /\ db[j].status = "SCHEDULED" =>
      db[j].at <= now /\ db[j].next <= now

\* No SCHEDULED job waits for a retry that lies further ahead than the watcher
\* looks, seen from its last run: after a gap, all these retries are due.
Watching == Listing \cup {"beat", "beatGap", "recover", "pending"}
Recovering == {"beatGap", "recover", "recoverAdd", "recoverSave", "recoverRetryAdd", "recoverRetrySave"}

RetryWithin(t) == \A j \in Jobs : db[j].status = "SCHEDULED" => db[j].next <= t

RetriesWithinReach ==
  /\ RetryWithin(Later(now, Lookahead))
  /\ \A w \in Schedulers :
       /\ work[w].pc \in Watching => RetryWithin(Later(work[w].clock, Lookahead))
       /\ work[w].pc \in Recovering => RetryWithin(work[w].clock)
       /\ work[w].pc \in Watching \ {"beat", "beatGap"} => lastRun \in {Null, work[w].clock}
       /\ work[w].pc \notin Watching /\ lastRun # Null => RetryWithin(Later(lastRun, Lookahead))

\* Makes NotBeforeDue inductive, under SoleScheduler, SchedulerRuns,
\* ScheduledAhead and GapExceedsLookahead: listeners may crash, records be
\* delivered again, Redis be emptied, sends and saves fail.
DueInv ==
  /\ RequestInv
  /\ BeyondQueueArrived /\ RecordsArrived /\ CopiesArrived /\ PendingUndated
  /\ ClockRead /\ ListsAreTimely /\ InHandIsTimely
  /\ ScoreIsDue /\ PollIsDue /\ RetriesWithinReach
=============================================================================
