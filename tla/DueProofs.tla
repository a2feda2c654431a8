----------------------------- MODULE DueProofs -----------------------------
(***************************************************************************)
(* No job leaves the delay queue before its schedule time and its retry    *)
(* time, by DueInv: the scores the one scheduler thread writes are never   *)
(* earlier than both, and nobody else makes a job SCHEDULED.               *)
(***************************************************************************)
EXTENDS FlightProofs

-----------------------------------------------------------------------------
(* Times.                                                                  *)

\* What the horizon does to a time computed from the clock.
LEMMA LaterIs ==
  ASSUME NEW t \in Time, NEW d \in Nat
  PROVE  Later(t, d) \in Int /\ t <= Later(t, d) /\ (Later(t, d) <= t + d)
BY StoreAssumption DEF Later, Time

\* A later clock gives a later time.
LEMMA LaterGrows ==
  ASSUME NEW t \in Time, NEW u \in Time, t <= u, NEW d \in Nat
  PROVE  Later(t, d) <= Later(u, d)
BY StoreAssumption DEF Later, Time

\* Sequences of a set are sequences of a larger one.
LEMMA SeqGrows == ASSUME NEW S, NEW T, S \subseteq T PROVE Seq(S) \subseteq Seq(T)
OBVIOUS

-----------------------------------------------------------------------------
(* What the steps other than the scheduler's write.                        *)

\* The statuses of a job that has left the delay queue for the first time.
Beyond == JobStatus \ {"PENDING", "SCHEDULED"}

\* A request may create a row; a listener moves on the row of a job that has
\* arrived, keeps its time, and leaves no SCHEDULED row behind.
OthersMove ==
  \A k \in Jobs :
    \/ db'[k] = db[k]
    \/ db[k].status = "NONE" /\ db'[k].status = "PENDING" /\ db'[k].next = Null
    \/ k \in Arrived /\ db'[k].status \in Beyond /\ db'[k].at = db[k].at

\* A listener saves its copy, with another status than PENDING and SCHEDULED.
LEMMA ListenerSaves ==
  ASSUME TypeOK, NEW c \in Consumers, ConsumeNext(c)
  PROVE  \/ UNCHANGED db
         \/ \E row : /\ SaveEntity(c, row) /\ row.status \in Beyond
                     /\ row.at = task[c].entity.at
<1>k. task[c].entity \in Job
  BY DEF TypeOK, ConsumerTypeOK, Task
<1>1. CASE SaveCancelled(c) \/ Admit(c) \/ SaveCompleted(c)
  <2>1. ASSUME NEW s \in {"CANCELLED", "PROCESSING", "COMPLETED"}
        PROVE  /\ WithStatus(task[c].entity, s).status \in Beyond
               /\ WithStatus(task[c].entity, s).at = task[c].entity.at
    BY <1>k, CopyFields DEF Beyond, JobStatus
  <2> QED
    BY <1>1, <2>1 DEF SaveCancelled, Admit, SaveCompleted
<1>2. CASE DeferLimited(c) \/ DeferTripped(c)
  <2>1. ASSUME NEW t
        PROVE  /\ Deferred(task[c].entity, t).status \in Beyond
               /\ Deferred(task[c].entity, t).at = task[c].entity.at
    BY <1>k, DeferredFields DEF Beyond, JobStatus
  <2> QED
    BY <1>2, <2>1 DEF DeferLimited, DeferTripped
<1>3. CASE SaveFailed(c)
  <2>1. /\ WithStatus(task[c].entity, "FAILED").status \in Beyond
        /\ WithStatus(task[c].entity, "FAILED").at = task[c].entity.at
    BY <1>k, CopyFields DEF Beyond, JobStatus
  <2>2. /\ Retried(task[c].entity, task[c].started).status \in Beyond
        /\ Retried(task[c].entity, task[c].started).at = task[c].entity.at
    BY <1>k, RetriedFields DEF Beyond, JobStatus
  <2>3. CASE Exhausted(task[c].entity)
    BY <1>3, <2>1, <2>3 DEF SaveFailed
  <2>4. CASE ~Exhausted(task[c].entity)
    BY <1>3, <2>2, <2>4 DEF SaveFailed
  <2> QED
    BY <2>3, <2>4
<1> QED
  BY <1>1, <1>2, <1>3
     DEF ConsumeNext, Receive, ConsumeStep, CheckCancelled, ClearCancellation,
         RateGate, CircuitGate, HalfOpen, Execute, ResetFailures, CountFailure, AttemptThrows,
         ConsumeThrows, storeVars

\* ... and that is the row of a job that has arrived.
LEMMA ListenerMoves ==
  ASSUME TypeOK, CopiesArrived, NEW c \in Consumers, ConsumeNext(c)
  PROVE  /\ OthersMove
         /\ \A k \in Jobs : db'[k] = db[k] \/ (k \in Arrived /\ db'[k].at = db[k].at)
<1>k. db \in [Jobs -> Job] /\ task[c].job \in Jobs \cup {NoJob}
  BY DEF TypeOK, StoreTypeOK, ConsumerTypeOK, Task
<1>1. CASE UNCHANGED db
  BY <1>1 DEF OthersMove
<1>2. ASSUME NEW row, SaveEntity(c, row), row.status \in Beyond, row.at = task[c].entity.at
      PROVE  \A k \in Jobs :
               \/ db'[k] = db[k]
               \/ k \in Arrived /\ db'[k].status \in Beyond /\ db'[k].at = db[k].at
  <2>1. db' = [db EXCEPT ![task[c].job] = row]
    BY <1>2 DEF SaveEntity, Save
  <2>2. CASE task[c].job \in Jobs
    <3>1. task[c].job \in Arrived /\ row.at = db[task[c].job].at
      BY <1>2, <2>2 DEF CopiesArrived
    <3> QED
      BY <1>k, <1>2, <2>1, <2>2, <3>1
  <2>3. CASE task[c].job = NoJob
    BY <1>k, <2>1, <2>3, StoreAssumption
  <2> QED
    BY <1>k, <2>2, <2>3
<1> QED
  BY <1>1, <1>2, ListenerSaves DEF OthersMove

\* A listener keeps its copy, or lets it go, or takes a record.
LEMMA ListenerCopies ==
  ASSUME TypeOK, NEW c \in Consumers, ConsumeNext(c)
  PROVE  \/ task'[c] = IdleTask
         \/ task'[c].job = task[c].job /\ task'[c].entity = task[c].entity
         \/ \E p \in Partitions : /\ Receive(c, p)
                                  /\ task'[c].job = Head(inbox[p])
                                  /\ task'[c].entity = db[Head(inbox[p])]
<1>k. task \in [Consumers -> Task]
  BY DEF TypeOK, ConsumerTypeOK
<1>1. ASSUME NEW p \in Partitions, Receive(c, p)
      PROVE  task'[c].job = Head(inbox[p]) /\ task'[c].entity = db[Head(inbox[p])]
  BY <1>k, <1>1 DEF Receive, Task
<1>2. CASE Done(c)
  BY <1>k, <1>2 DEF Done
<1>3. CASE \E stage : Enter(c, stage)
  BY <1>k, <1>3 DEF Enter, Task
<1>4. CASE CheckCancelled(c)
  BY <1>k, <1>3, <1>4 DEF CheckCancelled, Task
<1> QED
  BY <1>1, <1>2, <1>3, <1>4
     DEF ConsumeNext, ConsumeStep, SaveCancelled, ClearCancellation, RateGate, DeferLimited,
         CircuitGate, DeferTripped, HalfOpen, Admit, Execute, SaveCompleted, ResetFailures,
         CountFailure, SaveFailed, AttemptThrows, ConsumeThrows

-----------------------------------------------------------------------------
(* Records and copies of jobs that have arrived.                           *)

\* Whatever the records are of, they stay so when they are delivered, given
\* back, delivered again or committed.
LEMMA RecordsStay ==
  ASSUME TypeOK, NEW S, \A p \in Partitions : inbox[p] \in Seq(S) /\ unacked[p] \in Seq(S),
         \/ \E c \in Consumers : (\E p \in Partitions : Receive(c, p)) \/ GiveBack(c)
         \/ \E lost : Rewind(lost)
         \/ UNCHANGED inbox /\ \E p \in Partitions : unacked' = [unacked EXCEPT ![p] = <<>>]
         \/ UNCHANGED <<inbox, unacked>>
  PROVE  \A p \in Partitions : inbox'[p] \in Seq(S) /\ unacked'[p] \in Seq(S)
<1>k. inbox \in [Partitions -> Seq(Jobs)] /\ unacked \in [Partitions -> Seq(Jobs)]
  BY DEF TypeOK, StoreTypeOK
<1>1. ASSUME NEW c \in Consumers, NEW p \in Partitions, Receive(c, p)
      PROVE  \A q \in Partitions : inbox'[q] \in Seq(S) /\ unacked'[q] \in Seq(S)
  <2>1. inbox[p] \in Seq(S) /\ inbox[p] # <<>> /\ unacked[p] \in Seq(S)
    BY <1>1 DEF Receive
  <2>2. Tail(inbox[p]) \in Seq(S) /\ Head(inbox[p]) \in S
    BY <2>1
  <2>3. Append(unacked[p], Head(inbox[p])) \in Seq(S)
    BY <2>1, <2>2
  <2> QED
    BY <1>k, <1>1, <2>2, <2>3 DEF Receive
<1>2. ASSUME NEW c \in Consumers, GiveBack(c)
      PROVE  \A q \in Partitions : inbox'[q] \in Seq(S) /\ unacked'[q] \in Seq(S)
  <2>1. ASSUME NEW p \in Partitions, Record(c, p)
        PROVE  /\ <<task[c].job>> \o inbox[p] \in Seq(S)
               /\ SubSeq(unacked[p], 1, Len(unacked[p]) - 1) \in Seq(S)
    <3>1. unacked[p] \in Seq(S) /\ unacked[p] # <<>> /\ inbox[p] \in Seq(S)
      BY <2>1 DEF Record
    <3>2. Len(unacked[p]) \in 1 .. Len(unacked[p])
      BY <3>1
    <3>3. task[c].job \in S
      BY <2>1, <3>1, <3>2 DEF Record
    <3> QED
      BY <3>1, <3>2, <3>3
  <2> QED
    BY <1>k, <1>2, <2>1 DEF GiveBack
<1>3. ASSUME NEW lost, Rewind(lost)
      PROVE  \A q \in Partitions : inbox'[q] \in Seq(S) /\ unacked'[q] \in Seq(S)
  <2>1. \A q \in Partitions : unacked[q] \o inbox[q] \in Seq(S) /\ <<>> \in Seq(S)
    OBVIOUS
  <2> QED
    BY <1>3, <2>1 DEF Rewind
<1>4. ASSUME NEW p \in Partitions, unacked' = [unacked EXCEPT ![p] = <<>>], UNCHANGED inbox
      PROVE  \A q \in Partitions : inbox'[q] \in Seq(S) /\ unacked'[q] \in Seq(S)
  BY <1>k, <1>4
<1> QED
  BY <1>1, <1>2, <1>3, <1>4

\* What arrives later does not undo what has arrived.
LEMMA ArrivedRecords ==
  ASSUME RecordsArrived, Arrived \subseteq Arrived', NEW S, S = Arrived,
         \A p \in Partitions : inbox'[p] \in Seq(S) /\ unacked'[p] \in Seq(S)
  PROVE  RecordsArrived'
BY SeqGrows DEF RecordsArrived

\* The copies of the listeners are of jobs that have arrived.
LEMMA ListenerArrived ==
  ASSUME TypeOK, RecordsArrived, CopiesArrived, OthersMove, Arrived \subseteq Arrived',
         NEW c \in Consumers, ConsumeNext(c)
  PROVE  RecordsArrived' /\ CopiesArrived'
<1>k. /\ task[c].job \in Jobs \cup {NoJob} /\ inbox \in [Partitions -> Seq(Jobs)]
      /\ db \in [Jobs -> Job]
  BY DEF TypeOK, ConsumerTypeOK, StoreTypeOK, Task
<1>o. \A d \in Consumers \ {c} : task'[d] = task[d]
  BY ListenerWrites
<1>a. ASSUME NEW j \in Arrived PROVE j \in Jobs /\ db'[j].at = db[j].at
  BY DEF Arrived, OthersMove
<1>1. RecordsArrived'
  <2>1. \/ \E p \in Partitions : Receive(c, p)
        \/ GiveBack(c)
        \/ UNCHANGED <<inbox, unacked>>
    BY DEF ConsumeNext, ConsumeStep, CheckCancelled, SaveCancelled, ClearCancellation,
           RateGate, DeferLimited, CircuitGate, DeferTripped, HalfOpen, Admit, Execute,
           SaveCompleted, ResetFailures, CountFailure, SaveFailed, AttemptThrows, ConsumeThrows,
           storeVars, kafkaVars
  <2>2. \A p \in Partitions : inbox'[p] \in Seq(Arrived) /\ unacked'[p] \in Seq(Arrived)
    BY <2>1, RecordsStay DEF RecordsArrived
  <2> QED
    BY <2>2, ArrivedRecords
<1>2. CopiesArrived'
  <2> SUFFICES ASSUME NEW d \in Consumers, task'[d].job \in Jobs
               PROVE  /\ task'[d].job \in Arrived'
                      /\ task'[d].entity.at = db'[task'[d].job].at
    BY DEF CopiesArrived
  <2>1. ASSUME task'[d].job = task[d].job, task'[d].entity = task[d].entity
        PROVE  /\ task'[d].job \in Arrived'
               /\ task'[d].entity.at = db'[task'[d].job].at
    <3>1. task[d].job \in Arrived /\ task[d].entity.at = db[task[d].job].at
      BY <2>1 DEF CopiesArrived
    <3> QED
      BY <1>a, <2>1, <3>1
  <2>2. CASE d # c
    BY <1>o, <2>1, <2>2
  <2>3. ASSUME NEW p \in Partitions, Receive(c, p), d = c,
               task'[c].job = Head(inbox[p]), task'[c].entity = db[Head(inbox[p])]
        PROVE  /\ task'[d].job \in Arrived'
               /\ task'[d].entity.at = db'[task'[d].job].at
    <3>1. inbox[p] \in Seq(Arrived) /\ inbox[p] # <<>>
      BY <2>3 DEF RecordsArrived, Receive
    <3>2. Head(inbox[p]) \in Arrived
      BY <3>1
    <3> QED
      BY <1>a, <2>3, <3>2
  <2>4. task'[d] # IdleTask
    BY StoreAssumption DEF IdleTask
  <2> QED
    BY <2>1, <2>2, <2>3, <2>4, ListenerCopies
<1> QED
  BY <1>1, <1>2

-----------------------------------------------------------------------------
(* The steps other than the scheduler's.                                   *)

\* The clock goes on, Redis may be emptied, and rows move as OthersMove says.
Aside ==
  /\ OthersMove /\ UNCHANGED work
  /\ now' \in Clock /\ now <= now'
  /\ UNCHANGED delayQueue \/ \A j \in Jobs : delayQueue'[j] = Null
  /\ lastRun' \in {lastRun, Null}

\* What has arrived has arrived.
LEMMA ArrivedGrows ==
  ASSUME TypeOK, OthersMove, now' \in Clock, now <= now'
  PROVE  Arrived \subseteq Arrived'
<1> SUFFICES ASSUME NEW k \in Jobs, db[k].status # "NONE", db[k].at <= now
             PROVE  db'[k].status # "NONE" /\ db'[k].at <= now'
  BY DEF Arrived
<1>1. db'[k].status # "NONE" /\ db'[k].at = db[k].at
  BY DEF OthersMove, Beyond, JobStatus
<1>2. db[k].at \in Int /\ now \in Int /\ now' \in Int
  BY DEF TypeOK, StoreTypeOK, Job, Time, Clock
<1> QED
  BY <1>1, <1>2

\* A SCHEDULED row after such a step was there before.
LEMMA ScheduledBefore ==
  ASSUME OthersMove, NEW k \in Jobs, db'[k].status = "SCHEDULED"
  PROVE  db'[k] = db[k]
BY DEF OthersMove, Beyond

\* Such a step leaves what the scheduler thread knows true.
LEMMA AsideTimes ==
  ASSUME TypeOK, HandOK, DueInv, Aside
  PROVE  /\ BeyondQueueArrived' /\ PendingUndated' /\ ClockRead'
         /\ ListsAreTimely' /\ InHandIsTimely'
<1>k. /\ db \in [Jobs -> Job] /\ now \in Int /\ now' \in Int
      /\ \A w \in Schedulers : work[w].clock \in Int /\ work[w].todo \subseteq Jobs
  BY DEF TypeOK, StoreTypeOK, WorkTypeOK, Work, Clock, Time, Aside
<1>a. Arrived \subseteq Arrived' /\ Arrived \subseteq Jobs
  BY ArrivedGrows DEF Aside, Arrived
<1>t. \A k \in Jobs : db[k].status # "NONE" => db'[k].status # "NONE" /\ db'[k].at = db[k].at
  BY DEF Aside, OthersMove, Beyond, JobStatus
<1>w. UNCHANGED work
  BY DEF Aside
<1>1. BeyondQueueArrived'
  BY <1>a DEF Aside, OthersMove, DueInv, BeyondQueueArrived
<1>2. PendingUndated'
  BY DEF Aside, OthersMove, Beyond, DueInv, PendingUndated
<1>3. ClockRead'
  BY <1>k, <1>w DEF Aside, DueInv, ClockRead
<1>4. ListsAreTimely'
  <2> SUFFICES ASSUME NEW w \in Schedulers, NEW j \in Jobs, j \in work[w].todo
               PROVE  ListTimes(w, j)'
    BY <1>w DEF ListsAreTimely
  <2>1. ListTimes(w, j)
    BY DEF DueInv, ListsAreTimely
  <2> QED
    BY <1>a, <1>t, <1>w, <2>1 DEF ListTimes
<1>5. InHandIsTimely'
  <2> SUFFICES ASSUME NEW w \in Schedulers
               PROVE  LET j == work[w].cur IN
                      /\ work[w].pc \in {"claim", "publish"} => j \in Arrived'
                      /\ work[w].pc = "claim" => work[w].batch[j].at = db'[j].at
                      /\ work[w].pc \in {"pendingAdd", "retryAdd"} /\ db'[j].status = "SCHEDULED" =>
                           db'[j].next = work[w].batch[j].next
    BY <1>w DEF InHandIsTimely
  <2> DEFINE j == work[w].cur
  <2>1. CASE work[w].pc \in {"claim", "publish"}
    <3>1. j \in Arrived /\ (work[w].pc = "claim" => work[w].batch[j].at = db[j].at)
      BY <2>1 DEF DueInv, InHandIsTimely
    <3>2. db'[j].at = db[j].at
      BY <1>a, <1>t, <3>1 DEF Arrived
    <3> QED
      BY <1>a, <2>1, <3>1, <3>2
  <2>2. CASE work[w].pc \in {"pendingAdd", "retryAdd"}
    <3>1. j \in Jobs
      BY <1>k, <2>2 DEF HandOK, Holding
    <3>2. db'[j].status = "SCHEDULED" => db'[j] = db[j]
      BY <3>1, ScheduledBefore DEF Aside
    <3> QED
      BY <2>2, <3>2 DEF DueInv, InHandIsTimely
  <2> QED
    BY <2>1, <2>2
<1> QED
  BY <1>1, <1>2, <1>3, <1>4, <1>5

\* ... and the queue as it should be.
LEMMA AsideScores ==
  ASSUME TypeOK, HandOK, DueInv, Aside
  PROVE  ScoreIsDue' /\ PollIsDue' /\ RetriesWithinReach'
<1>k. /\ now \in Time /\ now' \in Time /\ Lookahead \in Nat
      /\ \A j \in Jobs : db[j].at \in Int /\ db[j].next \in Int
      /\ \A w \in Schedulers : work[w].clock \in Time
      /\ lastRun \in Time
  BY WatcherAssumption DEF TypeOK, StoreTypeOK, WorkTypeOK, Work, Clock, Time, Job, Aside
<1>i. now \in Int /\ now' \in Int /\ now <= now'
  BY <1>k DEF Time, Aside
<1>w. UNCHANGED work
  BY DEF Aside
<1>s. \A j \in Jobs : db'[j].status = "SCHEDULED" => db'[j] = db[j]
  BY ScheduledBefore DEF Aside
<1>1. ScoreIsDue'
  <2> SUFFICES ASSUME NEW j \in Jobs, db'[j].status = "SCHEDULED", delayQueue'[j] # Null,
                      ~InHand(j, {"pendingAdd", "retryAdd"})
               PROVE  \A t \in {db'[j].at, db'[j].next} : t <= now' \/ t <= delayQueue'[j]
    BY <1>w DEF ScoreIsDue, InHand
  <2>1. db'[j] = db[j] /\ delayQueue'[j] = delayQueue[j]
    BY <1>s DEF Aside
  <2>2. \A t \in {db[j].at, db[j].next} : t <= now \/ t <= delayQueue[j]
    BY <2>1 DEF DueInv, ScoreIsDue
  <2> QED
    BY <1>k, <1>i, <2>1, <2>2
<1>2. PollIsDue'
  <2> SUFFICES ASSUME NEW w \in Schedulers, NEW j \in Jobs, work[w].pc \in Polling,
                      j \in work[w].todo, db'[j].status = "SCHEDULED"
               PROVE  db'[j].at <= now' /\ db'[j].next <= now'
    BY <1>w DEF PollIsDue
  <2>1. db'[j] = db[j]
    BY <1>s
  <2>2. db[j].at <= now /\ db[j].next <= now
    BY <2>1 DEF DueInv, PollIsDue
  <2> QED
    BY <1>k, <1>i, <2>1, <2>2
<1>3. RetriesWithinReach'
  <2>1. ASSUME NEW t, RetryWithin(t) PROVE \A j \in Jobs : db'[j].status = "SCHEDULED" => db'[j].next <= t
    BY <1>s, <2>1 DEF RetryWithin
  <2>2. \A j \in Jobs : db'[j].status = "SCHEDULED" => db'[j].next <= Later(now', Lookahead)
    <3>1. Later(now, Lookahead) <= Later(now', Lookahead)
      BY <1>k, <1>i, LaterGrows
    <3>2. Later(now, Lookahead) \in Int /\ Later(now', Lookahead) \in Int
      BY <1>k, LaterIs
    <3>3. \A j \in Jobs : db'[j].status = "SCHEDULED" =>
                            db'[j].next <= Later(now, Lookahead) /\ db'[j].next \in Int
      BY <1>k, <1>s, <2>1 DEF DueInv, RetriesWithinReach
    <3> QED
      BY <3>1, <3>2, <3>3
  <2>3. lastRun' \in {lastRun, Null}
    BY DEF Aside
  <2>4. ASSUME NEW w \in Schedulers
        PROVE  /\ work[w].pc \in Watching => RetryWithin(Later(work[w].clock, Lookahead))'
               /\ work[w].pc \in Recovering => RetryWithin(work[w].clock)'
               /\ work[w].pc \in Watching \ {"beat", "beatGap"} => lastRun' \in {Null, work[w].clock}
               /\ work[w].pc \notin Watching /\ lastRun' # Null => RetryWithin(Later(lastRun, Lookahead))'
    <3>o. /\ work[w].pc \in Watching => RetryWithin(Later(work[w].clock, Lookahead))
          /\ work[w].pc \in Recovering => RetryWithin(work[w].clock)
          /\ work[w].pc \in Watching \ {"beat", "beatGap"} => lastRun \in {Null, work[w].clock}
          /\ work[w].pc \notin Watching /\ lastRun # Null => RetryWithin(Later(lastRun, Lookahead))
      BY DEF DueInv, RetriesWithinReach
    <3>1. work[w].pc \in Watching => RetryWithin(Later(work[w].clock, Lookahead))'
      BY <1>w, <2>1, <3>o DEF RetryWithin
    <3>2. work[w].pc \in Recovering => RetryWithin(work[w].clock)'
      BY <1>w, <2>1, <3>o DEF RetryWithin
    <3>3. work[w].pc \notin Watching /\ lastRun' # Null => RetryWithin(Later(lastRun, Lookahead))'
      BY <2>1, <2>3, <3>o DEF RetryWithin
    <3> QED
      BY <2>3, <3>o, <3>1, <3>2, <3>3
  <2> QED
    BY <1>w, <2>2, <2>4 DEF RetriesWithinReach, RetryWithin
<1> QED
  BY <1>1, <1>2, <1>3

-----------------------------------------------------------------------------
(* The scheduler thread, part by part of what it knows of the times.       *)

Lists(w) == \A j \in work[w].todo : ListTimes(w, j)

Hand(w) ==
  LET j == work[w].cur IN
  /\ work[w].pc \in {"claim", "publish"} => j \in Arrived
  /\ work[w].pc = "claim" => work[w].batch[j].at = db[j].at
  /\ work[w].pc \in {"pendingAdd", "retryAdd"} /\ db[j].status = "SCHEDULED" =>
       db[j].next = work[w].batch[j].next

DueAt(j, score) == \A t \in {db[j].at, db[j].next} : t <= now \/ t <= score

Scores(w) ==
  \A j \in Jobs : db[j].status = "SCHEDULED" =>
    \/ delayQueue[j] = Null
    \/ work[w].cur = j /\ work[w].pc \in {"pendingAdd", "retryAdd"}
    \/ DueAt(j, delayQueue[j])

Poll(w) ==
  work[w].pc \in Polling =>
    \A j \in work[w].todo : db[j].status = "SCHEDULED" => db[j].at <= now /\ db[j].next <= now

Reach(w) ==
  /\ RetryWithin(Later(now, Lookahead))
  /\ work[w].pc \in Watching => RetryWithin(Later(work[w].clock, Lookahead))
  /\ work[w].pc \in Recovering => RetryWithin(work[w].clock)
  /\ work[w].pc \in Watching \ {"beat", "beatGap"} => lastRun \in {Null, work[w].clock}
  /\ work[w].pc \notin Watching /\ lastRun # Null => RetryWithin(Later(lastRun, Lookahead))

Timely(w) ==
  work[w].clock <= now /\ Lists(w) /\ Hand(w) /\ Scores(w) /\ Poll(w) /\ Reach(w)

\* With one scheduler thread, these parts of DueInv are what it knows.
LEMMA TimelyIsInv ==
  ASSUME SoleScheduler, TypeOK, DueInv, NEW w \in Schedulers
  PROVE  Timely(w)
<1>1. work[w].todo \subseteq Jobs
  BY DEF TypeOK, WorkTypeOK, Work
<1>2. Lists(w) /\ Poll(w)
  BY <1>1 DEF DueInv, ListsAreTimely, Lists, PollIsDue, Poll
<1>3. Hand(w) /\ Reach(w) /\ work[w].clock <= now
  BY DEF DueInv, InHandIsTimely, Hand, RetriesWithinReach, Reach, ClockRead
<1>4. Scores(w)
  <2> SUFFICES ASSUME NEW j \in Jobs, db[j].status = "SCHEDULED", delayQueue[j] # Null,
                      ~(work[w].cur = j /\ work[w].pc \in {"pendingAdd", "retryAdd"})
               PROVE  DueAt(j, delayQueue[j])
    BY DEF Scores
  <2>1. ~InHand(j, {"pendingAdd", "retryAdd"})
    BY DEF SoleScheduler, InHand
  <2> QED
    BY <2>1 DEF DueInv, ScoreIsDue, DueAt
<1> QED
  BY <1>2, <1>3, <1>4 DEF Timely

\* ... and it suffices to establish that in the next state.
LEMMA TimelySuffices ==
  ASSUME SoleScheduler, NEW w \in Schedulers, Timely(w)'
  PROVE  /\ ClockRead' /\ ListsAreTimely' /\ InHandIsTimely'
         /\ ScoreIsDue' /\ PollIsDue' /\ RetriesWithinReach'
<1>1. \A v \in Schedulers : v = w
  BY DEF SoleScheduler
<1>2. ClockRead' /\ ListsAreTimely' /\ PollIsDue'
  BY <1>1 DEF Timely, ClockRead, Lists, ListsAreTimely, Poll, PollIsDue
<1>3. InHandIsTimely' /\ RetriesWithinReach'
  BY <1>1 DEF Timely, Hand, InHandIsTimely, Reach, RetriesWithinReach
<1>4. ScoreIsDue'
  BY <1>1 DEF Timely, Scores, ScoreIsDue, DueAt, InHand
<1> QED
  BY <1>2, <1>3, <1>4

\* The fields of a thread, of its copies and of the rows that are times.
LEMMA Times ==
  ASSUME TypeOK
  PROVE  /\ now \in Time /\ now \in Int /\ Lookahead \in Nat /\ lastRun \in Time
         /\ \A j \in Jobs : db[j].at \in Int /\ db[j].next \in Int /\ delayQueue[j] \in Int
         /\ \A w \in Schedulers :
              /\ work[w].clock \in Time /\ work[w].clock \in Int /\ work[w].todo \subseteq Jobs
              /\ Later(work[w].clock, Lookahead) \in Int
              /\ work[w].clock <= Later(work[w].clock, Lookahead)
              /\ \A j \in Jobs : work[w].batch[j].at \in Int /\ work[w].batch[j].next \in Int
         /\ Later(now, Lookahead) \in Int
         /\ \A w \in Schedulers : work[w].clock <= now =>
              Later(work[w].clock, Lookahead) <= Later(now, Lookahead)
<1>1. /\ now \in Time /\ now \in Int /\ Lookahead \in Nat /\ lastRun \in Time
      /\ \A j \in Jobs : db[j].at \in Int /\ db[j].next \in Int /\ delayQueue[j] \in Int
  BY WatcherAssumption DEF TypeOK, StoreTypeOK, Clock, Time, Job
<1>2. ASSUME NEW w \in Schedulers
      PROVE  /\ work[w].clock \in Time /\ work[w].clock \in Int /\ work[w].todo \subseteq Jobs
             /\ \A j \in Jobs : work[w].batch[j].at \in Int /\ work[w].batch[j].next \in Int
  BY DEF TypeOK, WorkTypeOK, Work, Time, Job
<1> QED
  BY <1>1, <1>2, LaterIs, LaterGrows

-----------------------------------------------------------------------------
(* What its steps have in common.                                          *)

\* The time of an existing row stands.
RowsStand ==
  \A k \in Jobs : db[k].status # "NONE" => db'[k].status # "NONE" /\ db'[k].at = db[k].at

\* The loops of watch(), each over one list.
Loops == {{"recoverAdd", "recoverSave"}, {"recoverRetryAdd", "recoverRetrySave"},
          {"pendingSave", "pendingAdd"}, {"retrySave", "retryAdd"}}
SameLoop(p, q) == \E L \in Loops : p \in L /\ q \in L

\* A thread that takes or finishes a job of its list stays in its loop.
LEMMA LoopMove ==
  ASSUME WorkTypeOK, NEW w \in Schedulers, NEW pc, NEW j, Take(w, pc, j) \/ Finish(w, pc, j)
  PROVE  /\ work'[w].pc = pc /\ work'[w].clock = work[w].clock
         /\ \A k \in work'[w].todo : k \in work[w].todo /\ work'[w].batch[k] = work[w].batch[k]
<1>1. CASE Take(w, pc, j)
  BY <1>1 DEF WorkTypeOK, Work, Take
<1>2. CASE Finish(w, pc, j)
  <2>1. work'[w].pc = pc /\ work'[w].clock = work[w].clock
    BY <1>2 DEF WorkTypeOK, Work, Finish
  <2> QED
    BY <1>2, <2>1, FinishedList
<1> QED
  BY <1>1, <1>2

\* It knows as much of the others.
LEMMA LoopLists ==
  ASSUME TypeOK, RowsStand, UNCHANGED now, Arrived \subseteq Arrived', NEW w \in Schedulers, Timely(w),
         NEW pc, NEW j, Take(w, pc, j) \/ Finish(w, pc, j), SameLoop(work[w].pc, pc)
  PROVE  work'[w].clock <= now' /\ Lists(w)' /\ Poll(w)'
<1>k. WorkTypeOK /\ work[w].todo \subseteq Jobs
  BY DEF TypeOK, WorkTypeOK, Work
<1>1. /\ work'[w].pc = pc /\ work'[w].clock = work[w].clock
      /\ \A k \in work'[w].todo : k \in work[w].todo /\ work'[w].batch[k] = work[w].batch[k]
  BY <1>k, LoopMove
<1>2. Lists(w)'
  <2> SUFFICES ASSUME NEW k \in work'[w].todo PROVE ListTimes(w, k)'
    BY DEF Lists
  <2>1. k \in Jobs /\ ListTimes(w, k) /\ work'[w].batch[k] = work[w].batch[k]
    BY <1>k, <1>1 DEF Timely, Lists
  <2>2. db[k].status # "NONE" => db'[k].status # "NONE" /\ db'[k].at = db[k].at
    BY <2>1 DEF RowsStand
  <2> QED
    BY <1>1, <2>1, <2>2 DEF ListTimes, SameLoop, Loops, Listing
<1>3. Poll(w)'
  BY <1>1 DEF Poll, Polling, SameLoop, Loops
<1> QED
  BY <1>1, <1>2, <1>3 DEF Timely

\* The retry time of a job it makes SCHEDULED is within its reach.
LEMMA LoopReach ==
  ASSUME TypeOK, UNCHANGED <<now, lastRun>>, NEW w \in Schedulers, Timely(w),
         NEW pc, NEW j, Take(w, pc, j) \/ Finish(w, pc, j), SameLoop(work[w].pc, pc),
         \A k \in Jobs : db'[k].status = "SCHEDULED" =>
           \/ db'[k] = db[k]
           \/ /\ db'[k].next \in Int /\ db'[k].next <= Later(work[w].clock, Lookahead)
              /\ work[w].pc \in Recovering => db'[k].next <= work[w].clock
  PROVE  Reach(w)'
<1>k. WorkTypeOK /\ work[w].clock <= now
  BY DEF TypeOK, Timely
<1>t. /\ work[w].clock \in Int /\ Later(work[w].clock, Lookahead) \in Int /\ Later(now, Lookahead) \in Int
      /\ Later(work[w].clock, Lookahead) <= Later(now, Lookahead)
  BY <1>k, Times
<1>1. work'[w].pc = pc /\ work'[w].clock = work[w].clock
  BY <1>k, LoopMove
<1>2. /\ work[w].pc \in Watching /\ pc \in Watching
      /\ work[w].pc \notin {"beat", "beatGap"} /\ pc \notin {"beat", "beatGap"}
      /\ pc \in Recovering <=> work[w].pc \in Recovering
  BY DEF SameLoop, Loops, Watching, Recovering, Listing
<1>h. /\ RetryWithin(Later(now, Lookahead)) /\ RetryWithin(Later(work[w].clock, Lookahead))
      /\ work[w].pc \in Recovering => RetryWithin(work[w].clock)
      /\ lastRun \in {Null, work[w].clock}
  BY <1>2 DEF Timely, Reach
<1>3. \A k \in Jobs : db'[k].status = "SCHEDULED" =>
        /\ db'[k].next <= Later(now, Lookahead)
        /\ db'[k].next <= Later(work[w].clock, Lookahead)
        /\ work[w].pc \in Recovering => db'[k].next <= work[w].clock
  BY <1>t, <1>h DEF RetryWithin
<1> QED
  BY <1>1, <1>2, <1>h, <1>3 DEF Reach, RetryWithin
-----------------------------------------------------------------------------
(* What it writes.                                                         *)

\* It leaves the rows alone, or saves a copy that says the same time.
Rewrites(w) ==
  \/ UNCHANGED db
  \/ \E j \in Jobs, s \in {"SCHEDULED", "QUEUED"} :
       /\ SaveAs(w, j, s) /\ db[j].status # "NONE" /\ work[w].batch[j].at = db[j].at
       /\ s = "QUEUED" => j \in Arrived

\* ... which disturbs none of what the others know.
LEMMA RewritesKeep ==
  ASSUME TypeOK, DueInv, NEW w \in Schedulers, Rewrites(w), UNCHANGED <<now, task, api>>
  PROVE  /\ RowsStand /\ Arrived \subseteq Arrived'
         /\ RequestInv' /\ BeyondQueueArrived' /\ CopiesArrived' /\ PendingUndated'
<1>k. /\ db \in [Jobs -> Job] /\ work[w].batch \in [Jobs -> Job]
  BY DEF TypeOK, StoreTypeOK, WorkTypeOK, Work
<1>1. \A k \in Jobs :
        \/ db'[k] = db[k]
        \/ /\ db[k].status # "NONE" /\ db'[k].status \in {"SCHEDULED", "QUEUED"}
           /\ db'[k].at = db[k].at
           /\ db'[k].status = "QUEUED" => k \in Arrived
  <2>1. ASSUME NEW j \in Jobs, NEW s \in {"SCHEDULED", "QUEUED"},
               SaveAs(w, j, s), db[j].status # "NONE", work[w].batch[j].at = db[j].at,
               s = "QUEUED" => j \in Arrived, NEW k \in Jobs, db'[k] # db[k]
        PROVE  /\ db[k].status # "NONE" /\ db'[k].status \in {"SCHEDULED", "QUEUED"}
               /\ db'[k].at = db[k].at
               /\ db'[k].status = "QUEUED" => k \in Arrived
    <3>1. k = j /\ db'[k] = WithStatus(work[w].batch[j], s)
      BY <1>k, <2>1 DEF SaveAs, Save
    <3>2. db'[k].status = s /\ db'[k].at = work[w].batch[j].at
      BY <1>k, <2>1, <3>1, CopyFields
    <3> QED
      BY <2>1, <3>1, <3>2
  <2> QED
    BY <2>1 DEF Rewrites
<1>2. RowsStand
  BY <1>1 DEF RowsStand
<1>3. Arrived \subseteq Arrived'
  BY <1>2 DEF Arrived, RowsStand
<1>4. RequestInv'
  <2>1. \A k \in Jobs : db'[k].at = db[k].at /\ (db[k] = NoRow => db'[k] = NoRow)
    BY <1>1 DEF NoRow
  <2> QED
    BY <2>1 DEF DueInv, RequestInv, UncreatedIsAbsent, LeftToWatcher
<1>5. BeyondQueueArrived'
  BY <1>1, <1>3 DEF DueInv, BeyondQueueArrived
<1>6. CopiesArrived'
  BY <1>1, <1>3 DEF DueInv, CopiesArrived
<1>7. PendingUndated'
  BY <1>1 DEF DueInv, PendingUndated
<1> QED
  BY <1>2, <1>3, <1>4, <1>5, <1>6, <1>7

\* A job of its list, saved SCHEDULED, has the times of the copy.
LEMMA LoopSave ==
  ASSUME TypeOK, NEW w \in Schedulers, Timely(w), work[w].pc \in Listing,
         NEW j \in work[w].todo, SaveAs(w, j, "SCHEDULED")
  PROVE  /\ Rewrites(w)
         /\ db'[j].status = "SCHEDULED"
         /\ db'[j].at = work[w].batch[j].at /\ db'[j].at = db[j].at
         /\ db'[j].next = work[w].batch[j].next
         /\ \A k \in Jobs \ {j} : db'[k] = db[k]
<1>k. db \in [Jobs -> Job] /\ work[w].batch \in [Jobs -> Job] /\ j \in Jobs
  BY DEF TypeOK, StoreTypeOK, WorkTypeOK, Work
<1>1. db[j].status # "NONE" /\ work[w].batch[j].at = db[j].at
  BY DEF Timely, Lists, ListTimes
<1>2. db'[j] = WithStatus(work[w].batch[j], "SCHEDULED") /\ \A k \in Jobs \ {j} : db'[k] = db[k]
  BY <1>k DEF SaveAs, Save
<1>3. Rewrites(w)
  BY <1>k, <1>1 DEF Rewrites
<1> QED
  BY <1>k, <1>1, <1>2, <1>3, CopyFields

\* What is left to show of a step within a loop of watch().
LEMMA LoopTimely ==
  ASSUME TypeOK, DueInv, NEW w \in Schedulers, Timely(w), Rewrites(w),
         UNCHANGED <<now, lastRun, task, api>>,
         NEW pc, NEW j, Take(w, pc, j) \/ Finish(w, pc, j), SameLoop(work[w].pc, pc),
         \A k \in Jobs : db'[k].status = "SCHEDULED" =>
           \/ db'[k] = db[k]
           \/ /\ db'[k].next \in Int /\ db'[k].next <= Later(work[w].clock, Lookahead)
              /\ work[w].pc \in Recovering => db'[k].next <= work[w].clock,
         Hand(w)', Scores(w)'
  PROVE  Timely(w)'
<1>1. RowsStand /\ Arrived \subseteq Arrived'
  BY RewritesKeep
<1>2. work'[w].clock <= now' /\ Lists(w)' /\ Poll(w)'
  BY <1>1, LoopLists
<1>3. Reach(w)'
  BY LoopReach
<1> QED
  BY <1>2, <1>3 DEF Timely
-----------------------------------------------------------------------------
(* The passes of watch() over a list.                                      *)

Recovery == {"recoverAdd", "recoverSave", "recoverRetryAdd", "recoverRetrySave"}

\* During the recovery all times at hand have come.
LEMMA RecoveredAreDue ==
  ASSUME TypeOK, NEW w \in Schedulers, Timely(w), work[w].pc \in Recovery
  PROVE  /\ work[w].pc \in Listing /\ work[w].pc \in Recovering
         /\ \A j \in work[w].todo : /\ j \in Jobs /\ db[j].at <= now
                                    /\ work[w].batch[j].next \in Int
                                    /\ work[w].batch[j].next <= work[w].clock
                                    /\ work[w].batch[j].next <= now
                                    /\ work[w].batch[j].next <= Later(work[w].clock, Lookahead)
         /\ \A j \in Jobs : db[j].status = "SCHEDULED" => db[j].next <= now
<1>t. /\ now \in Int /\ work[w].clock \in Int /\ work[w].clock <= now
      /\ \A j \in Jobs : /\ db[j].at \in Int /\ db[j].next \in Int
                         /\ work[w].batch[j].at \in Int /\ work[w].batch[j].next \in Int
      /\ work[w].clock <= Later(work[w].clock, Lookahead)
      /\ Later(work[w].clock, Lookahead) \in Int /\ work[w].todo \subseteq Jobs
  BY Times DEF Timely
<1>1. work[w].pc \in Listing /\ work[w].pc \in Recovering
  BY DEF Recovery, Listing, Recovering
<1>2. ASSUME NEW j \in work[w].todo
      PROVE  j \in Jobs /\ db[j].at <= now /\ work[w].batch[j].next <= work[w].clock
  <2>1. ListTimes(w, j) /\ j \in Jobs
    BY <1>t DEF Timely, Lists
  <2> QED
    BY <1>t, <1>1, <2>1 DEF ListTimes, Recovery, Arrived
<1>3. \A j \in Jobs : db[j].status = "SCHEDULED" => db[j].next <= work[w].clock
  BY <1>1 DEF Timely, Reach, RetryWithin
<1> QED
  BY <1>t, <1>1, <1>2, <1>3

\* An entry is written: its job is due, whatever the score.
LEMMA RecoverAddTimely ==
  ASSUME TypeOK, DueInv, NEW w \in Schedulers, Timely(w), UNCHANGED <<api, task>>,
         RecoverAdd(w) \/ RecoverRetryAdd(w)
  PROVE  Rewrites(w) /\ Timely(w)'
<1>k. /\ WorkTypeOK /\ work[w].todo \subseteq Jobs /\ delayQueue \in [Jobs -> Time]
  BY DEF TypeOK, StoreTypeOK, WorkTypeOK, Work
<1>1. work[w].pc \in Recovery /\ UNCHANGED <<db, now, lastRun>>
  BY DEF RecoverAdd, RecoverRetryAdd, Recovery
<1>2. PICK j \in work[w].todo, pc \in Recovery :
        /\ \A k \in Jobs \ {j} : delayQueue'[k] = delayQueue[k]
        /\ Take(w, pc, j) \/ Finish(w, pc, j)
        /\ SameLoop(work[w].pc, pc)
  <2>1. CASE RecoverAdd(w)
    <3>1. PICK j \in work[w].todo :
            /\ ScheduleJob(j, work[w].batch[j].at)
            /\ Take(w, "recoverSave", j) \/ Finish(w, "recoverAdd", j)
      BY <2>1 DEF RecoverAdd
    <3>2. \A k \in Jobs \ {j} : delayQueue'[k] = delayQueue[k]
      BY <1>k, <3>1 DEF ScheduleJob
    <3>3. \A pc \in {"recoverAdd", "recoverSave"} : SameLoop(work[w].pc, pc) /\ pc \in Recovery
      BY <2>1 DEF RecoverAdd, Recovery, SameLoop, Loops
    <3> QED
      BY <3>1, <3>2, <3>3
  <2>2. CASE RecoverRetryAdd(w)
    <3>1. PICK j \in work[w].todo :
            /\ ScheduleJob(j, work[w].batch[j].next)
            /\ Take(w, "recoverRetrySave", j)
      BY <2>2 DEF RecoverRetryAdd
    <3>2. \A k \in Jobs \ {j} : delayQueue'[k] = delayQueue[k]
      BY <1>k, <3>1 DEF ScheduleJob
    <3>3. SameLoop(work[w].pc, "recoverRetrySave") /\ "recoverRetrySave" \in Recovery
      BY <2>2 DEF RecoverRetryAdd, Recovery, SameLoop, Loops
    <3> QED
      BY <3>1, <3>2, <3>3
  <2> QED
    BY <2>1, <2>2
<1>3. work'[w].pc = pc
  BY <1>k, <1>2, LoopMove
<1>4. Hand(w)'
  BY <1>3 DEF Hand, Recovery
<1>5. Scores(w)'
  <2> SUFFICES ASSUME NEW k \in Jobs, db[k].status = "SCHEDULED", delayQueue'[k] # Null
               PROVE  DueAt(k, delayQueue[k])'
    BY <1>1 DEF Scores
  <2>1. CASE k = j
    <3>1. db[k].at <= now /\ db[k].next <= now
      BY <1>1, <2>1, RecoveredAreDue
    <3> QED
      BY <1>1, <3>1 DEF DueAt
  <2>2. CASE k # j
    <3>1. delayQueue'[k] = delayQueue[k]
      BY <1>2, <2>2
    <3>2. DueAt(k, delayQueue[k])
      BY <1>1, <3>1 DEF Timely, Scores, Recovery
    <3> QED
      BY <1>1, <3>1, <3>2 DEF DueAt
  <2> QED
    BY <2>1, <2>2
<1>6. Rewrites(w)
  BY <1>1 DEF Rewrites
<1> QED
  BY <1>1, <1>2, <1>4, <1>5, <1>6, LoopTimely

\* A row is saved after its entry was written.
LEMMA RecoverSaveTimely ==
  ASSUME TypeOK, HandOK, DueInv, NEW w \in Schedulers, Timely(w), UNCHANGED <<api, task>>,
         RecoverSave(w) \/ RecoverRetrySave(w)
  PROVE  Rewrites(w) /\ Timely(w)'
<1>k. WorkTypeOK
  BY DEF TypeOK
<1>1. work[w].pc \in Recovery /\ UNCHANGED <<delayQueue, now, lastRun>>
  BY DEF RecoverSave, RecoverRetrySave, Recovery, redisVars
<1>2. PICK j \in work[w].todo, pc \in Recovery :
        /\ SaveAs(w, j, "SCHEDULED") /\ Finish(w, pc, j)
        /\ SameLoop(work[w].pc, pc)
  <2>1. work[w].cur \in work[w].todo
    BY DEF HandOK, Holding, RecoverSave, RecoverRetrySave
  <2> QED
    BY <2>1 DEF RecoverSave, RecoverRetrySave, Recovery, SameLoop, Loops
<1>3. work'[w].pc = pc
  BY <1>k, <1>2, LoopMove
<1>d. /\ work[w].pc \in Listing /\ work[w].pc \in Recovering
      /\ j \in Jobs /\ db[j].at <= now
      /\ work[w].batch[j].next \in Int /\ work[w].batch[j].next <= work[w].clock
      /\ work[w].batch[j].next <= now
      /\ work[w].batch[j].next <= Later(work[w].clock, Lookahead)
  BY <1>1, <1>2, RecoveredAreDue
<1>s. /\ Rewrites(w) /\ db'[j].at = db[j].at /\ db'[j].next = work[w].batch[j].next
      /\ \A k \in Jobs \ {j} : db'[k] = db[k]
  BY <1>1, <1>2, <1>d, LoopSave
<1>4. Hand(w)'
  BY <1>3 DEF Hand, Recovery
<1>5. Scores(w)'
  <2> SUFFICES ASSUME NEW k \in Jobs, db'[k].status = "SCHEDULED", delayQueue[k] # Null
               PROVE  DueAt(k, delayQueue[k])'
    BY <1>1 DEF Scores
  <2>1. CASE k = j
    BY <1>1, <1>d, <1>s, <2>1 DEF DueAt
  <2>2. CASE k # j
    <3>1. db'[k] = db[k]
      BY <1>s, <2>2
    <3>2. DueAt(k, delayQueue[k])
      BY <1>1, <3>1 DEF Timely, Scores, Recovery
    <3> QED
      BY <1>1, <3>1, <3>2 DEF DueAt
  <2> QED
    BY <2>1, <2>2
<1>6. \A k \in Jobs : db'[k].status = "SCHEDULED" =>
        \/ db'[k] = db[k]
        \/ /\ db'[k].next \in Int /\ db'[k].next <= Later(work[w].clock, Lookahead)
           /\ work[w].pc \in Recovering => db'[k].next <= work[w].clock
  BY <1>d, <1>s
<1> QED
  BY <1>1, <1>2, <1>4, <1>5, <1>6, <1>s, LoopTimely
\* A PENDING or RETRY row is saved SCHEDULED before its entry is written.
LEMMA PassSaveTimely ==
  ASSUME TypeOK, DueInv, NEW w \in Schedulers, Timely(w), UNCHANGED <<api, task>>,
         PendingSave(w) \/ RetrySave(w)
  PROVE  Rewrites(w) /\ Timely(w)'
<1>k. WorkTypeOK /\ work[w].todo \subseteq Jobs
  BY DEF TypeOK, WorkTypeOK, Work
<1>1. /\ work[w].pc \in {"pendingSave", "retrySave"} /\ work[w].pc \in Listing
      /\ work[w].pc \notin Recovering /\ UNCHANGED <<delayQueue, now, lastRun>>
  BY DEF PendingSave, RetrySave, Listing, Recovering, redisVars
<1>2. PICK j \in work[w].todo, pc \in {"pendingAdd", "retryAdd"} :
        /\ SaveAs(w, j, "SCHEDULED") /\ Take(w, pc, j)
        /\ SameLoop(work[w].pc, pc)
  BY DEF PendingSave, RetrySave, Earliest, SameLoop, Loops
<1>3. /\ work'[w].pc = pc /\ work'[w].cur = j /\ work'[w].batch = work[w].batch
  BY <1>k, <1>2, TakeMove
<1>d. work[w].batch[j].next \in Int /\ work[w].batch[j].next <= Later(work[w].clock, Lookahead)
  <2>1. ListTimes(w, j)
    BY <1>2 DEF Timely, Lists
  <2>2. /\ work[w].batch[j].next \in Int /\ work[w].clock \in Int
        /\ Later(work[w].clock, Lookahead) \in Int
        /\ work[w].clock <= Later(work[w].clock, Lookahead)
        /\ 0 <= work[w].clock
    BY <1>k, Times DEF Time
  <2> QED
    BY <1>1, <2>1, <2>2 DEF ListTimes, Null
<1>s. /\ Rewrites(w) /\ db'[j].next = work[w].batch[j].next
      /\ \A k \in Jobs \ {j} : db'[k] = db[k]
  BY <1>1, <1>2, LoopSave
<1>4. Hand(w)'
  BY <1>3, <1>s DEF Hand
<1>5. Scores(w)'
  <2> SUFFICES ASSUME NEW k \in Jobs, db'[k].status = "SCHEDULED", delayQueue[k] # Null, k # j
               PROVE  DueAt(k, delayQueue[k])'
    BY <1>1, <1>3 DEF Scores
  <2>1. db'[k] = db[k]
    BY <1>s
  <2>2. DueAt(k, delayQueue[k])
    BY <1>1, <2>1 DEF Timely, Scores
  <2> QED
    BY <1>1, <2>1, <2>2 DEF DueAt
<1>6. \A k \in Jobs : db'[k].status = "SCHEDULED" =>
        \/ db'[k] = db[k]
        \/ /\ db'[k].next \in Int /\ db'[k].next <= Later(work[w].clock, Lookahead)
           /\ work[w].pc \in Recovering => db'[k].next <= work[w].clock
  BY <1>1, <1>d, <1>s
<1> QED
  BY <1>1, <1>2, <1>4, <1>5, <1>6, <1>s, LoopTimely

\* The entry of the job in hand is written: a job never tried has its schedule
\* time for a score, the others, which have arrived, their retry time.
LEMMA PassAddTimely ==
  ASSUME TypeOK, HandOK, DueInv, NEW w \in Schedulers, Timely(w), UNCHANGED <<api, task>>,
         PendingAdd(w) \/ RetryAdd(w)
  PROVE  Rewrites(w) /\ Timely(w)'
<1>k. /\ WorkTypeOK /\ work[w].todo \subseteq Jobs /\ delayQueue \in [Jobs -> Time]
  BY DEF TypeOK, StoreTypeOK, WorkTypeOK, Work
<1>t. /\ now \in Int /\ 0 <= now
      /\ \A j \in Jobs : db[j].at \in Int /\ db[j].next \in Int
  BY Times DEF Time
<1>j. PICK j \in work[w].todo : j = work[w].cur /\ j \in Jobs
  BY <1>k DEF PendingAdd, RetryAdd, HandOK, Holding
<1>1. work[w].pc \in {"pendingAdd", "retryAdd"} /\ UNCHANGED <<db, now, lastRun>>
  BY DEF PendingAdd, RetryAdd
<1>2. PICK pc \in {"pendingSave", "retrySave"} : Finish(w, pc, j) /\ SameLoop(work[w].pc, pc)
  BY <1>j DEF PendingAdd, RetryAdd, SameLoop, Loops
<1>3. work'[w].pc = pc
  BY <1>k, <1>2, FinishMove
<1>4. Hand(w)'
  BY <1>3 DEF Hand
<1>l. ListTimes(w, j) /\ (db[j].status = "SCHEDULED" => db[j].next = work[w].batch[j].next)
  BY <1>j, <1>1 DEF Timely, Lists, Hand
<1>5. delayQueue'[j] \in {work[w].batch[j].at, work[w].batch[j].next}
      /\ \A k \in Jobs \ {j} : delayQueue'[k] = delayQueue[k]
  BY <1>k, <1>j DEF PendingAdd, RetryAdd, ScheduleJob, RetryScore
<1>6. db[j].status = "SCHEDULED" => DueAt(j, delayQueue[j])'
  <2>1. CASE PendingAdd(w)
    <3>1. delayQueue'[j] = work[w].batch[j].at
      BY <1>k, <1>j, <2>1 DEF PendingAdd, ScheduleJob
    <3>2. work[w].batch[j].at = db[j].at /\ work[w].batch[j].next = 0
      BY <1>l, <2>1 DEF PendingAdd, ListTimes, Listing, Null
    <3>3. db[j].status = "SCHEDULED" => db[j].next = 0
      BY <1>l, <3>2
    <3> QED
      BY <1>j, <1>1, <1>t, <3>1, <3>2, <3>3 DEF DueAt
  <2>2. CASE RetryAdd(w)
    <3>1. delayQueue'[j] = work[w].batch[j].next
      BY <1>k, <1>j, <2>2 DEF RetryAdd, ScheduleJob, RetryScore
    <3>2. db[j].at <= now
      BY <1>l, <2>2 DEF RetryAdd, ListTimes, Arrived
    <3> QED
      BY <1>j, <1>1, <1>t, <1>l, <3>1, <3>2 DEF DueAt
  <2> QED
    BY <2>1, <2>2
<1>7. Scores(w)'
  <2> SUFFICES ASSUME NEW k \in Jobs, db[k].status = "SCHEDULED", delayQueue'[k] # Null, k # j
               PROVE  DueAt(k, delayQueue[k])'
    BY <1>1, <1>6 DEF Scores
  <2>1. DueAt(k, delayQueue[k]) /\ delayQueue'[k] = delayQueue[k]
    BY <1>j, <1>5 DEF Timely, Scores
  <2> QED
    BY <1>1, <2>1 DEF DueAt
<1>8. Rewrites(w)
  BY <1>1 DEF Rewrites
<1> QED
  BY <1>1, <1>2, <1>4, <1>7, <1>8, LoopTimely
-----------------------------------------------------------------------------
(* The other steps of watch().                                             *)

\* A query lists rows whose times are as the next loop needs them.
LEMMA QueryTimely ==
  ASSUME TypeOK, NEW w \in Schedulers, Timely(w), UNCHANGED storeVars,
         NEW pc \in {"recoverAdd", "recoverRetryAdd", "pendingSave", "retrySave"},
         NEW S \in SUBSET Jobs, Fetch(w, pc, S),
         work[w].pc \in {"recover", "recoverAdd", "recoverRetryAdd", "pending", "pendingSave"},
         pc \in Recovering => work[w].pc \in Recovering,
         \A j \in S :
           /\ db[j].status # "NONE"
           /\ pc = "recoverAdd" => db[j].at <= work[w].clock /\ db[j].next <= work[w].clock
           /\ pc = "recoverRetryAdd" => db[j].next <= work[w].clock /\ j \in Arrived
           /\ pc = "pendingSave" => db[j].next = Null
           /\ pc = "retrySave" => db[j].next <= Later(work[w].clock, Lookahead) /\ j \in Arrived
  PROVE  Rewrites(w) /\ Timely(w)'
<1>u. UNCHANGED <<db, delayQueue, now, lastRun>>
  BY DEF storeVars, redisVars
<1>1. /\ work'[w].pc = pc /\ work'[w].todo = S /\ work'[w].clock = work[w].clock
      /\ \A j \in S : work'[w].batch[j] = db[j]
  BY DEF TypeOK, WorkTypeOK, Work, Fetch
<1>2. work'[w].clock <= now'
  BY <1>u, <1>1 DEF Timely
<1>3. Lists(w)'
  BY <1>u, <1>1 DEF Lists, ListTimes, Arrived
<1>4. Hand(w)' /\ Poll(w)'
  BY <1>1 DEF Hand, Poll, Polling
<1>5. Scores(w)'
  BY <1>u, <1>1 DEF Timely, Scores, DueAt
<1>6. Reach(w)'
  BY <1>u, <1>1 DEF Timely, Reach, RetryWithin, Watching, Listing
<1>7. Rewrites(w)
  BY <1>u DEF Rewrites
<1> QED
  BY <1>2, <1>3, <1>4, <1>5, <1>6, <1>7 DEF Timely

\* The queries of watch().
LEMMA QueriesTimely ==
  ASSUME TypeOK, DueInv, NEW w \in Schedulers, Timely(w),
         RecoverQuery(w) \/ RecoverRetryQuery(w) \/ PendingQuery(w) \/ RetryQuery(w)
  PROVE  Rewrites(w) /\ Timely(w)'
<1>t. 0 <= work[w].clock
  <2>1. work[w].clock \in Time
    BY Times
  <2> QED
    BY <2>1 DEF Time
<1>b. \A j \in Jobs : db[j].status = "RETRY" => j \in Arrived
  BY DEF DueInv, BeyondQueueArrived
<1>n. \A j \in Jobs : db[j].status = "PENDING" => db[j].next = Null
  BY DEF DueInv, PendingUndated
<1>1. CASE RecoverQuery(w)
  <2>1. PICK S \in Page(FindPendingOrScheduledInRange(work[w].clock - RecoveryWindow, work[w].clock),
                        RecoverPage) : Fetch(w, "recoverAdd", S)
    BY <1>1 DEF RecoverQuery
  <2>2. \A j \in S : /\ j \in Jobs /\ db[j].status \in {"PENDING", "SCHEDULED"}
                     /\ db[j].at <= work[w].clock
    BY <2>1, PageType DEF FindPendingOrScheduledInRange, InRange
  <2>3. work[w].pc = "recover" /\ work[w].pc \in Recovering /\ UNCHANGED storeVars
    BY <1>1 DEF RecoverQuery, Recovering
  <2>4. \A j \in S : db[j].next <= work[w].clock
    BY <1>t, <1>n, <2>2, <2>3 DEF Timely, Reach, RetryWithin, Null
  <2>5. \A j \in S : db[j].status # "NONE"
    BY <2>2
  <2>6. S \in SUBSET Jobs
    BY <2>2
  <2> QED
    BY <2>1, <2>2, <2>3, <2>4, <2>5, <2>6, QueryTimely
<1>2. CASE RecoverRetryQuery(w)
  <2>1. PICK S \in Page(FindRetryInRange(work[w].clock - RecoveryWindow, work[w].clock),
                        RecoverPage) : Fetch(w, "recoverRetryAdd", S)
    BY <1>2 DEF RecoverRetryQuery
  <2>2. \A j \in S : j \in Jobs /\ db[j].status = "RETRY" /\ db[j].next <= work[w].clock
    BY <2>1, PageType DEF FindRetryInRange, FindRetryWindow, InRange
  <2>3. work[w].pc = "recoverAdd" /\ work[w].pc \in Recovering /\ UNCHANGED storeVars
    BY <1>2 DEF RecoverRetryQuery, Recovering
  <2>4. S \in SUBSET Jobs /\ \A j \in S : db[j].status # "NONE" /\ j \in Arrived
    BY <1>b, <2>2
  <2> QED
    BY <2>1, <2>2, <2>3, <2>4, QueryTimely
<1>3. CASE PendingQuery(w)
  <2>1. PICK S \in OldestPage(FindWindow(Null, Later(work[w].clock, Lookahead)), WatchPage,
                              ScheduleTimes(db)) : Fetch(w, "pendingSave", S)
    BY <1>3 DEF PendingQuery
  <2>2. \A j \in S : j \in Jobs /\ db[j].status = "PENDING"
    BY <2>1, OldestPageType DEF FindWindow
  <2>3. work[w].pc \in {"pending", "recoverRetryAdd"} /\ UNCHANGED storeVars
    BY <1>3 DEF PendingQuery
  <2>4. S \in SUBSET Jobs /\ \A j \in S : db[j].status # "NONE" /\ db[j].next = Null
    BY <1>n, <2>2
  <2>5. "pendingSave" \notin Recovering
    BY DEF Recovering
  <2> QED
    BY <2>1, <2>3, <2>4, <2>5, QueryTimely
<1>4. CASE RetryQuery(w)
  <2>1. PICK S \in OldestPage(FindRetryWindow(Null, Later(work[w].clock, Lookahead)), WatchPage,
                              NextRetryTimes(db)) : Fetch(w, "retrySave", S)
    BY <1>4 DEF RetryQuery
  <2>2. \A j \in S : /\ j \in Jobs /\ db[j].status = "RETRY"
                     /\ db[j].next <= Later(work[w].clock, Lookahead)
    BY <2>1, OldestPageType DEF FindRetryWindow, InRange
  <2>3. work[w].pc = "pendingSave" /\ UNCHANGED storeVars
    BY <1>4 DEF RetryQuery
  <2>4. S \in SUBSET Jobs /\ \A j \in S : db[j].status # "NONE" /\ j \in Arrived
    BY <1>b, <2>2
  <2>5. "retrySave" \notin Recovering
    BY DEF Recovering
  <2> QED
    BY <2>1, <2>2, <2>3, <2>4, <2>5, QueryTimely
<1> QED
  BY <1>1, <1>2, <1>3, <1>4
\* watch() starts: after a gap the retries within reach of the last run are due.
LEMMA StartTimely ==
  ASSUME GapExceedsLookahead, TypeOK, NEW w \in Schedulers, Timely(w), WatchStart(w)
  PROVE  Rewrites(w) /\ Timely(w)'
<1>u. UNCHANGED <<db, delayQueue, now, lastRun>> /\ work[w].pc = "idle"
  BY DEF WatchStart, storeVars, redisVars
<1>1. /\ work'[w].clock = now /\ work'[w].pc \in {"beat", "beatGap"}
      /\ work'[w].pc = "beatGap" => lastRun # Null /\ now - lastRun > GapLimit
  BY DEF WatchStart, TypeOK, WorkTypeOK, Work
<1>t. now \in Int
  BY Times
<1>2. work'[w].clock <= now'
  BY <1>u, <1>1, <1>t
<1>3. Lists(w)' /\ Hand(w)' /\ Poll(w)'
  BY <1>1 DEF Lists, ListTimes, Listing, Hand, Poll, Polling
<1>4. Scores(w)'
  BY <1>u, <1>1 DEF Timely, Scores, DueAt
<1>5. work'[w].pc = "beatGap" => RetryWithin(now)
  <2> SUFFICES ASSUME lastRun # Null, now - lastRun > GapLimit,
                      NEW j \in Jobs, db[j].status = "SCHEDULED"
               PROVE  db[j].next <= now
    BY <1>1 DEF RetryWithin
  <2>1. RetryWithin(Later(lastRun, Lookahead))
    BY <1>u DEF Timely, Reach, Watching, Listing
  <2>2. lastRun \in Time /\ Lookahead \in Nat /\ db[j].next \in Int
    BY Times
  <2>3. Later(lastRun, Lookahead) \in Int /\ Later(lastRun, Lookahead) <= lastRun + Lookahead
    BY <2>2, LaterIs
  <2>4. db[j].next <= Later(lastRun, Lookahead)
    BY <2>1 DEF RetryWithin
  <2>5. lastRun \in Int /\ GapLimit \in Int
    BY <2>2, WatcherAssumption DEF Time
  <2> QED
    BY <1>t, <2>2, <2>3, <2>4, <2>5 DEF GapExceedsLookahead
<1>6. Reach(w)'
  BY <1>u, <1>1, <1>5 DEF Timely, Reach, RetryWithin, Recovering, Watching
<1>7. Rewrites(w)
  BY <1>u DEF Rewrites
<1> QED
  BY <1>2, <1>3, <1>4, <1>6, <1>7 DEF Timely

\* The heartbeat says when watch() has started.
LEMMA HeartbeatTimely ==
  ASSUME TypeOK, NEW w \in Schedulers, Timely(w), Heartbeat(w)
  PROVE  Rewrites(w) /\ Timely(w)'
<1>u. /\ UNCHANGED <<db, delayQueue, now>> /\ lastRun' = work[w].clock
      /\ work[w].pc \in {"beat", "beatGap"}
  BY DEF Heartbeat
<1>1. /\ work'[w].clock = work[w].clock
      /\ work'[w].pc = IF work[w].pc = "beatGap" THEN "recover" ELSE "pending"
  BY DEF Heartbeat, Goto, TypeOK, WorkTypeOK, Work
<1>2. work'[w].clock <= now'
  BY <1>u, <1>1 DEF Timely
<1>3. Lists(w)' /\ Hand(w)' /\ Poll(w)'
  BY <1>1 DEF Lists, ListTimes, Listing, Hand, Poll, Polling
<1>4. Scores(w)'
  BY <1>u, <1>1 DEF Timely, Scores, DueAt
<1>5. Reach(w)'
  BY <1>u, <1>1 DEF Timely, Reach, RetryWithin, Recovering, Watching
<1>6. Rewrites(w)
  BY <1>u DEF Rewrites
<1> QED
  BY <1>2, <1>3, <1>4, <1>5, <1>6 DEF Timely

\* A method that ends leaves nothing to know of but the scores.
LEMMA ReturnTimely ==
  ASSUME TypeOK, NEW w \in Schedulers, Timely(w), UNCHANGED <<db, now, lastRun>>,
         NEW due, Return(w, due), work[w].pc \notin {"pendingAdd", "retryAdd", "beat", "beatGap"},
         \A j \in Jobs : delayQueue'[j] \in {delayQueue[j], Null}
  PROVE  Rewrites(w) /\ Timely(w)'
<1>1. work'[w].pc = "idle" /\ work'[w].clock = Null /\ work'[w].todo = {}
  BY DEF Return, IdleWork, TypeOK, WorkTypeOK
<1>2. work'[w].clock <= now'
  BY <1>1, Times DEF Null, Time
<1>3. Lists(w)' /\ Hand(w)' /\ Poll(w)'
  BY <1>1 DEF Lists, Hand, Poll, Polling
<1>4. Scores(w)'
  BY <1>1 DEF Timely, Scores, DueAt
<1>5. Reach(w)'
  BY <1>1 DEF Timely, Reach, RetryWithin, Recovering, Watching, Listing
<1>6. Rewrites(w)
  BY DEF Rewrites
<1> QED
  BY <1>2, <1>3, <1>4, <1>5, <1>6 DEF Timely

\* A step of watch() leaves the thread, and the queue, timely.
LEMMA WatchTimely ==
  ASSUME GapExceedsLookahead, TypeOK, HandOK, DueInv, NEW w \in Schedulers, Timely(w), WatchNext(w)
  PROVE  Rewrites(w) /\ Timely(w)'
<1>u. UNCHANGED <<api, task>>
  BY DEF WatchNext
<1>1. CASE WatchStart(w)
  BY <1>1, StartTimely
<1>2. CASE Heartbeat(w)
  BY <1>2, HeartbeatTimely
<1>3. CASE RecoverQuery(w) \/ RecoverRetryQuery(w) \/ PendingQuery(w) \/ RetryQuery(w)
  BY <1>3, QueriesTimely
<1>4. CASE RecoverAdd(w) \/ RecoverRetryAdd(w)
  BY <1>4, <1>u, RecoverAddTimely
<1>5. CASE RecoverSave(w) \/ RecoverRetrySave(w)
  BY <1>5, <1>u, RecoverSaveTimely
<1>6. CASE PendingSave(w) \/ RetrySave(w)
  BY <1>6, <1>u, PassSaveTimely
<1>7. CASE PendingAdd(w) \/ RetryAdd(w)
  BY <1>7, <1>u, PassAddTimely
<1>8. CASE WatchEnd(w) \/ GapPublishFails(w)
  <2>1. /\ Return(w, Later(now, WatchDelay)) /\ UNCHANGED <<db, now, lastRun, delayQueue>>
        /\ work[w].pc \in {"retrySave", "recover"}
    BY <1>8 DEF WatchEnd, GapPublishFails, storeVars, redisVars
  <2>2. \A j \in Jobs : delayQueue'[j] \in {delayQueue[j], Null}
    BY <2>1
  <2>3. work[w].pc \notin {"pendingAdd", "retryAdd", "beat", "beatGap"}
    BY <2>1
  <2> QED
    BY <2>1, <2>2, <2>3, ReturnTimely
<1> QED
  BY <1>1, <1>2, <1>3, <1>4, <1>5, <1>6, <1>7, <1>8 DEF WatchNext, WatchStep
-----------------------------------------------------------------------------
(* The steps of dispatch().                                                *)

\* A poll that goes on makes no job SCHEDULED and writes no score.
LEMMA PollTimely ==
  ASSUME TypeOK, NEW w \in Schedulers, Timely(w), UNCHANGED <<now, lastRun>>,
         work[w].pc \in Polling, work'[w].pc \in Polling, work'[w].clock = work[w].clock,
         work'[w].todo \subseteq work[w].todo,
         \A k \in Jobs : db'[k].status = "SCHEDULED" => db'[k] = db[k],
         \A k \in Jobs : delayQueue'[k] \in {delayQueue[k], Null},
         Hand(w)'
  PROVE  Timely(w)'
<1>k. work[w].todo \subseteq Jobs
  BY DEF TypeOK, WorkTypeOK, Work
<1>1. work'[w].clock <= now'
  BY DEF Timely
<1>2. Lists(w)'
  BY DEF Lists, ListTimes, Polling, Listing
<1>3. Scores(w)'
  <2> SUFFICES ASSUME NEW k \in Jobs, db'[k].status = "SCHEDULED", delayQueue'[k] # Null
               PROVE  DueAt(k, delayQueue[k])'
    BY DEF Scores
  <2>1. db'[k] = db[k] /\ delayQueue'[k] = delayQueue[k]
    OBVIOUS
  <2>2. DueAt(k, delayQueue[k])
    BY <2>1 DEF Timely, Scores, Polling
  <2> QED
    BY <2>1, <2>2 DEF DueAt
<1>4. Poll(w)'
  <2> SUFFICES ASSUME NEW k \in work'[w].todo, db'[k].status = "SCHEDULED"
               PROVE  db'[k].at <= now /\ db'[k].next <= now
    BY DEF Poll
  <2>1. k \in work[w].todo /\ db'[k] = db[k]
    BY <1>k
  <2> QED
    BY <2>1 DEF Timely, Poll
<1>5. Reach(w)'
  <2>1. ASSUME NEW t, RetryWithin(t) PROVE \A k \in Jobs : db'[k].status = "SCHEDULED" => db'[k].next <= t
    BY <2>1 DEF RetryWithin
  <2>2. /\ work[w].pc \notin Watching /\ work'[w].pc \notin Watching
        /\ work[w].pc \notin Recovering /\ work'[w].pc \notin Recovering
    BY DEF Polling, Watching, Recovering, Listing
  <2>3. /\ RetryWithin(Later(now, Lookahead))
        /\ lastRun # Null => RetryWithin(Later(lastRun, Lookahead))
    BY <2>2 DEF Timely, Reach
  <2> QED
    BY <2>1, <2>2, <2>3 DEF Reach, RetryWithin
<1> QED
  BY <1>1, <1>2, <1>3, <1>4, <1>5 DEF Timely

\* The poll finds jobs that are due: their scores have come.
LEMMA FoundTimely ==
  ASSUME TypeOK, NEW w \in Schedulers, Timely(w), DispatchStart(w)
  PROVE  Rewrites(w) /\ Timely(w)'
<1>u. UNCHANGED <<db, delayQueue, now, lastRun>> /\ work[w].pc = "idle"
  BY DEF DispatchStart, storeVars, redisVars
<1>t. /\ now \in Int
      /\ \A j \in Jobs : db[j].at \in Int /\ db[j].next \in Int /\ delayQueue[j] \in Int
  BY Times
<1>1. work'[w].clock = now /\ work'[w].pc = "load" /\ work'[w].todo = GetReadyJobs(now)
  BY DEF DispatchStart, TypeOK, WorkTypeOK, Work
<1>2. work'[w].clock <= now'
  BY <1>u, <1>1, <1>t
<1>3. Lists(w)' /\ Hand(w)'
  BY <1>1 DEF Lists, ListTimes, Listing, Hand
<1>4. Scores(w)'
  BY <1>u, <1>1 DEF Timely, Scores, DueAt
<1>5. Poll(w)'
  <2> SUFFICES ASSUME NEW j \in GetReadyJobs(now), db[j].status = "SCHEDULED"
               PROVE  db[j].at <= now /\ db[j].next <= now
    BY <1>u, <1>1 DEF Poll
  <2>1. j \in Jobs /\ delayQueue[j] # Null /\ delayQueue[j] <= now
    BY DEF GetReadyJobs
  <2>2. DueAt(j, delayQueue[j])
    BY <1>u, <2>1 DEF Timely, Scores
  <2> QED
    BY <1>t, <2>1, <2>2 DEF DueAt
<1>6. Reach(w)'
  BY <1>u, <1>1 DEF Timely, Reach, RetryWithin, Recovering, Watching, Listing
<1>7. Rewrites(w)
  BY <1>u DEF Rewrites
<1> QED
  BY <1>2, <1>3, <1>4, <1>5, <1>6, <1>7 DEF Timely

\* A row that is loaded SCHEDULED is of a job whose time has come.
LEMMA LoadTimely ==
  ASSUME TypeOK, NEW w \in Schedulers, Timely(w), DispatchLoad(w)
  PROVE  Rewrites(w) /\ Timely(w)'
<1>u. UNCHANGED <<db, delayQueue, now, lastRun>> /\ work[w].pc = "load"
  BY DEF DispatchLoad, storeVars, redisVars
<1>1. PICK j \in work[w].todo :
        work' = [work EXCEPT ![w].pc = IF db[j].status = "SCHEDULED" THEN "claim" ELSE "drop",
                             ![w].cur = j, ![w].batch = [@ EXCEPT ![j] = db[j]]]
  BY DEF DispatchLoad
<1>k. /\ j \in Jobs /\ work \in [Schedulers -> Work] /\ work[w].batch \in [Jobs -> Job]
  BY DEF TypeOK, WorkTypeOK, Work
<1>2. /\ work'[w].pc = IF db[j].status = "SCHEDULED" THEN "claim" ELSE "drop"
      /\ work'[w].cur = j /\ work'[w].todo = work[w].todo /\ work'[w].clock = work[w].clock
      /\ work'[w].batch[j] = db[j]
  BY <1>1, <1>k DEF Work
<1>3. db[j].status = "SCHEDULED" => j \in Arrived
  BY <1>u, <1>k DEF Timely, Poll, Polling, Arrived
<1>4. Hand(w)'
  BY <1>u, <1>2, <1>3 DEF Hand, Arrived
<1>5. Rewrites(w)
  BY <1>u DEF Rewrites
<1> QED
  BY <1>u, <1>2, <1>4, <1>5, PollTimely DEF Polling

\* The claim takes a row out of SCHEDULED.
LEMMA ClaimTimely ==
  ASSUME TypeOK, HandOK, DueInv, NEW w \in Schedulers, Timely(w), UNCHANGED <<api, task>>,
         DispatchClaim(w)
  PROVE  Rewrites(w) /\ Timely(w)'
<1>u. UNCHANGED <<delayQueue, now, lastRun>> /\ work[w].pc = "claim"
  BY DEF DispatchClaim, redisVars
<1>j. PICK j \in work[w].todo : j = work[w].cur
  BY <1>u DEF HandOK, Holding
<1>k. /\ j \in Jobs /\ WorkTypeOK /\ work[w].batch \in [Jobs -> Job] /\ db \in [Jobs -> Job]
  BY DEF TypeOK, StoreTypeOK, WorkTypeOK, Work
<1>1. /\ work'[w].pc = "publish" /\ work'[w].cur = j /\ work'[w].todo = work[w].todo
      /\ work'[w].clock = work[w].clock
  BY <1>j DEF DispatchClaim, Goto, TypeOK, WorkTypeOK, Work
<1>2. j \in Arrived /\ work[w].batch[j].at = db[j].at
  BY <1>u, <1>j DEF Timely, Hand
<1>3. SaveAs(w, j, "QUEUED")
  BY <1>j DEF DispatchClaim
<1>4. Rewrites(w)
  BY <1>k, <1>2, <1>3 DEF Rewrites, Arrived
<1>5. Arrived \subseteq Arrived'
  BY <1>4, <1>u, RewritesKeep
<1>6. Hand(w)'
  BY <1>1, <1>2, <1>5 DEF Hand
<1>7. \A k \in Jobs : db'[k].status = "SCHEDULED" => db'[k] = db[k]
  <2>1. db'[j].status = "QUEUED" /\ \A k \in Jobs \ {j} : db'[k] = db[k]
    BY <1>k, <1>3, CopyFields DEF SaveAs, Save
  <2> QED
    BY <2>1
<1> QED
  BY <1>u, <1>1, <1>4, <1>6, <1>7, PollTimely DEF Polling

\* The record of a job that has arrived is sent, or lost.
LEMMA PublishTimely ==
  ASSUME TypeOK, NEW w \in Schedulers, Timely(w), DispatchPublish(w)
  PROVE  Rewrites(w) /\ Timely(w)'
<1>u. UNCHANGED <<db, delayQueue, now, lastRun>> /\ work[w].pc = "publish"
  BY DEF DispatchPublish, redisVars
<1>1. work'[w].pc = "remove" /\ work'[w].todo = work[w].todo /\ work'[w].clock = work[w].clock
  BY DEF DispatchPublish, Goto, TypeOK, WorkTypeOK, Work
<1>2. Hand(w)'
  BY <1>1 DEF Hand
<1>3. Rewrites(w)
  BY <1>u DEF Rewrites
<1> QED
  BY <1>u, <1>1, <1>2, <1>3, PollTimely DEF Polling

\* Entries that are taken out, or left in after send() threw.
LEMMA NextTimely ==
  ASSUME TypeOK, NEW w \in Schedulers, Timely(w),
         DispatchDrop(w) \/ DispatchRemove(w) \/ DispatchSendThrows(w)
  PROVE  Rewrites(w) /\ Timely(w)'
<1>k. WorkTypeOK /\ delayQueue \in [Jobs -> Time]
  BY DEF TypeOK, StoreTypeOK
<1>u. /\ UNCHANGED <<db, now, lastRun>> /\ DispatchNext(w)
      /\ work[w].pc \in {"drop", "publish", "remove"}
  BY DEF DispatchDrop, DispatchRemove, DispatchSendThrows, redisVars
<1>q. \A k \in Jobs : delayQueue'[k] \in {delayQueue[k], Null}
  BY <1>k DEF DispatchDrop, DispatchRemove, DispatchSendThrows, RemoveJob, redisVars
<1>1. Rewrites(w)
  BY <1>u DEF Rewrites
<1>2. CASE Return(w, work[w].due)
  BY <1>u, <1>q, <1>2, ReturnTimely
<1>3. CASE Finish(w, "load", work[w].cur)
  <2>1. work'[w].pc = "load" /\ work'[w].clock = work[w].clock
    BY <1>k, <1>3, LoopMove
  <2>2. work'[w].todo \subseteq work[w].todo
    BY <1>k, <1>3, FinishMove
  <2>3. Hand(w)'
    BY <2>1 DEF Hand
  <2> QED
    BY <1>u, <1>q, <1>1, <2>1, <2>2, <2>3, PollTimely DEF Polling
<1> QED
  BY <1>u, <1>2, <1>3 DEF DispatchNext

\* A step of dispatch() leaves the thread, and the queue, timely.
LEMMA DispatchTimely ==
  ASSUME TypeOK, HandOK, DueInv, NEW w \in Schedulers, Timely(w), DispatchNow(w)
  PROVE  Rewrites(w) /\ Timely(w)'
<1>u. UNCHANGED <<api, task>>
  BY DEF DispatchNow
<1> QED
  BY <1>u, FoundTimely, LoadTimely, ClaimTimely, PublishTimely, NextTimely
     DEF DispatchNow, DispatchStep
-----------------------------------------------------------------------------
(* Each step keeps DueInv.                                                 *)

\* The records of a scheduler thread are of jobs that have arrived.
LEMMA SchedulerRecords ==
  ASSUME TypeOK, HandOK, RecordsArrived, Arrived \subseteq Arrived', NEW w \in Schedulers, Timely(w),
         WatchNext(w) \/ DispatchNow(w)
  PROVE  RecordsArrived'
<1>k. inbox \in [Partitions -> Seq(Jobs)] /\ Arrived \subseteq Jobs
  BY DEF TypeOK, StoreTypeOK, Arrived
<1>1. CASE UNCHANGED <<inbox, unacked>>
  BY <1>1, RecordsStay, ArrivedRecords DEF RecordsArrived
<1>2. ASSUME DispatchPublish(w), ~UNCHANGED <<inbox, unacked>> PROVE RecordsArrived'
  <2>1. work[w].cur \in Arrived
    BY <1>2 DEF DispatchPublish, Timely, Hand
  <2>2. PICK p \in Partitions : inbox' = [inbox EXCEPT ![p] = Append(@, work[w].cur)]
    BY <1>2 DEF DispatchPublish, SendJob
  <2>3. UNCHANGED unacked
    BY <1>2 DEF DispatchPublish
  <2>4. \A q \in Partitions : inbox'[q] \in Seq(Arrived) /\ unacked'[q] \in Seq(Arrived)
    BY <1>k, <2>1, <2>2, <2>3 DEF RecordsArrived
  <2> QED
    BY <2>4, ArrivedRecords
<1> QED
  BY <1>1, <1>2
     DEF WatchNext, DispatchNow, WatchStart, WatchStep, Heartbeat, GapPublishFails,
         RecoverQuery, RecoverAdd, RecoverSave, RecoverRetryQuery, RecoverRetryAdd,
         RecoverRetrySave, PendingQuery, PendingSave, PendingAdd, RetryQuery, RetrySave,
         RetryAdd, WatchEnd, DispatchStart, DispatchStep, DispatchLoad, DispatchDrop,
         DispatchClaim, DispatchRemove, DispatchSendThrows, storeVars, kafkaVars

\* The scheduler thread neither writes an early score nor claims a job early.
LEMMA SchedulerDue ==
  ASSUME SoleScheduler, GapExceedsLookahead, TypeOK, HandOK, DueInv,
         NEW w \in Schedulers, WatchNext(w) \/ DispatchNow(w)
  PROVE  DueInv'
<1>1. Timely(w)
  BY TimelyIsInv
<1>2. Rewrites(w) /\ Timely(w)'
  BY <1>1, WatchTimely, DispatchTimely
<1>3. UNCHANGED <<now, task, api>>
  BY DEF WatchNext, DispatchNow, WatchStart, WatchStep, Heartbeat, GapPublishFails,
         RecoverQuery, RecoverAdd, RecoverSave, RecoverRetryQuery, RecoverRetryAdd,
         RecoverRetrySave, PendingQuery, PendingSave, PendingAdd, RetryQuery, RetrySave,
         RetryAdd, WatchEnd, DispatchStart, DispatchStep, DispatchLoad, DispatchDrop,
         DispatchClaim, DispatchPublish, DispatchRemove, DispatchSendThrows, storeVars
<1>4. /\ Arrived \subseteq Arrived'
      /\ RequestInv' /\ BeyondQueueArrived' /\ CopiesArrived' /\ PendingUndated'
  BY <1>2, <1>3, RewritesKeep
<1>5. RecordsArrived'
  BY <1>1, <1>4, SchedulerRecords DEF DueInv
<1> QED
  BY <1>2, <1>4, <1>5, TimelySuffices DEF DueInv

\* What the others do is Aside; what is left to show of such a step.
LEMMA AsideDue ==
  ASSUME TypeOK, HandOK, DueInv, Aside, RequestInv', RecordsArrived', CopiesArrived'
  PROVE  DueInv'
BY AsideTimes, AsideScores DEF DueInv

\* Records and listeners that a step leaves alone.
LEMMA QuietArrived ==
  ASSUME TypeOK, DueInv, OthersMove, UNCHANGED <<inbox, unacked, task>>, Arrived \subseteq Arrived'
  PROVE  RecordsArrived' /\ CopiesArrived'
<1>1. RecordsArrived'
  BY RecordsStay, ArrivedRecords DEF DueInv, RecordsArrived
<1>2. \A j \in Arrived : j \in Jobs /\ db'[j].at = db[j].at
  BY DEF Arrived, OthersMove
<1>3. CopiesArrived'
  BY <1>2 DEF DueInv, CopiesArrived
<1> QED
  BY <1>1, <1>3

\* A request creates a row, or does nothing to the rows.
LEMMA RequestDue ==
  ASSUME ScheduledAhead, TypeOK, HandOK, DueInv, NEW j \in Jobs, ApiNext(j)
  PROVE  DueInv'
<1>k. now \in Clock /\ now \in Int /\ RequestInv
  BY DEF TypeOK, StoreTypeOK, Clock, DueInv
<1>1. RequestInv' /\ OthersMove
  <2>1. ASSUME NEW d \in Delays, CreateJob(j, d) PROVE RequestInv' /\ OthersMove
    <3>1. /\ RequestInv' /\ db[j] = NoRow /\ db'[j] = NewRow(now + d)
          /\ \A k \in Jobs \ {j} : db'[k] = db[k]
      BY <1>k, <2>1, CreateKept
    <3> QED
      BY <3>1 DEF OthersMove, NoRow, NewRow
  <2>2. CASE RouteJob(j) \/ PublishCreated(j) \/ CancelJob(j)
    BY <1>k, <2>2, RequestKept DEF OthersMove
  <2> QED
    BY <2>1, <2>2 DEF ApiNext
<1>2. /\ UNCHANGED <<work, task, now, delayQueue, lastRun, unacked>>
      /\ UNCHANGED inbox
  <2>1. ~PublishCreated(j)
    BY DEF DueInv, RequestInv, LeftToWatcher, PublishCreated
  <2> QED
    BY <2>1 DEF ApiNext, CreateJob, RouteJob, CancelJob, redisVars, kafkaVars
<1>3. Aside
  BY <1>k, <1>1, <1>2 DEF Aside
<1>4. Arrived \subseteq Arrived'
  BY <1>k, <1>1, <1>2, ArrivedGrows
<1>5. RecordsArrived' /\ CopiesArrived'
  BY <1>1, <1>2, <1>4, QuietArrived
<1> QED
  BY <1>1, <1>3, <1>5, AsideDue

\* A listener moves on a job that has arrived.
LEMMA ListenerDue ==
  ASSUME TypeOK, HandOK, DueInv, NEW c \in Consumers, ConsumeNext(c)
  PROVE  DueInv'
<1>k. now \in Clock /\ now \in Int
  BY DEF TypeOK, StoreTypeOK, Clock
<1>1. /\ OthersMove
      /\ \A k \in Jobs : db'[k] = db[k] \/ (k \in Arrived /\ db'[k].at = db[k].at)
  BY ListenerMoves DEF DueInv
<1>2. UNCHANGED <<api, work, now, delayQueue, lastRun>>
  BY DEF ConsumeNext, Receive, ConsumeStep, CheckCancelled, SaveCancelled, ClearCancellation,
         RateGate, DeferLimited, CircuitGate, DeferTripped, HalfOpen, Admit, Execute,
         SaveCompleted, ResetFailures, CountFailure, SaveFailed, AttemptThrows, ConsumeThrows,
         GiveBack, storeVars, redisVars
<1>3. Aside
  BY <1>k, <1>1, <1>2 DEF Aside
<1>4. Arrived \subseteq Arrived'
  BY <1>k, <1>1, <1>2, ArrivedGrows
<1>5. RecordsArrived' /\ CopiesArrived'
  BY <1>1, <1>4, ListenerArrived DEF DueInv
<1>6. RequestInv'
  <2>1. \A j \in Jobs : db'[j].at = db[j].at /\ (db[j] = NoRow => db'[j] = NoRow)
    BY <1>1 DEF NoRow, Arrived
  <2> QED
    BY <1>2, <2>1 DEF DueInv, RequestInv, UncreatedIsAbsent, LeftToWatcher
<1> QED
  BY <1>3, <1>5, <1>6, AsideDue
\* A crash elsewhere, a moved partition, the loss of Redis, a commit and the
\* clock leave the scores of the queue alone, or take them all away.
LEMMA EnvironmentDue ==
  ASSUME ScheduledAhead, SchedulerRuns, TypeOK, HandOK, DueInv,
         EnvironmentNext \/ (\E p \in Partitions : CommitNext(p)) \/ UNCHANGED vars
  PROVE  DueInv'
<1>k. /\ now \in Clock /\ now \in Int /\ RequestInv
      /\ work \in [Schedulers -> Work] /\ task \in [Consumers -> Task]
      /\ MaxTime \in Int
  BY StoreAssumption DEF TypeOK, StoreTypeOK, WorkTypeOK, ConsumerTypeOK, Clock, DueInv
<1>1. RequestInv' /\ UNCHANGED db
  BY <1>k, ClockAndCrashKept
<1>2. UNCHANGED work
  <2>1. ASSUME NEW i \in Instances, Crash(i) PROVE UNCHANGED work
    <3>1. \A w \in Schedulers : HostOf[w] # i
      BY <2>1 DEF Crash, SchedulerRuns
    <3> QED
      BY <1>k, <2>1, <3>1 DEF Crash
  <2> QED
    BY <2>1 DEF EnvironmentNext, Tick, Rebalance, RedisLoss, CommitNext, vars
<1>3. now' \in Clock /\ now <= now'
  <2>1. CASE Tick
    BY <1>k, <2>1 DEF Tick, Clock
  <2>2. CASE UNCHANGED now
    BY <1>k, <2>2
  <2> QED
    BY <2>1, <2>2 DEF EnvironmentNext, Crash, Rebalance, RedisLoss, CommitNext, Commit, vars
<1>4. /\ UNCHANGED delayQueue \/ \A j \in Jobs : delayQueue'[j] = Null
      /\ lastRun' \in {lastRun, Null}
  BY DEF EnvironmentNext, Tick, Crash, Rebalance, RedisLoss, CommitNext, Commit, vars, redisVars
<1>5. Aside
  BY <1>1, <1>2, <1>3, <1>4 DEF Aside, OthersMove
<1>6. Arrived \subseteq Arrived'
  BY <1>3, <1>5, ArrivedGrows DEF Aside
<1>7. RecordsArrived'
  <2>1. \/ \E lost : Rewind(lost)
        \/ UNCHANGED inbox /\ \E p \in Partitions : unacked' = [unacked EXCEPT ![p] = <<>>]
        \/ UNCHANGED <<inbox, unacked>>
    BY DEF EnvironmentNext, Tick, Crash, Rebalance, RedisLoss, CommitNext, Commit, vars, kafkaVars
  <2>2. \A p \in Partitions : inbox'[p] \in Seq(Arrived) /\ unacked'[p] \in Seq(Arrived)
    BY <2>1, RecordsStay DEF DueInv, RecordsArrived
  <2> QED
    BY <1>6, <2>2, ArrivedRecords DEF DueInv
<1>8. CopiesArrived'
  <2>1. ASSUME NEW c \in Consumers PROVE task'[c] \in {task[c], IdleTask}
    <3>1. ASSUME NEW i \in Instances, Crash(i) PROVE task'[c] \in {task[c], IdleTask}
      BY <3>1 DEF Crash
    <3> QED
      BY <3>1 DEF EnvironmentNext, Tick, Rebalance, RedisLoss, CommitNext, Commit, vars
  <2>2. IdleTask.job \notin Jobs
    BY StoreAssumption DEF IdleTask
  <2> QED
    BY <1>1, <1>6, <2>1, <2>2 DEF DueInv, CopiesArrived
<1> QED
  BY <1>1, <1>5, <1>7, <1>8, AsideDue

\* Each step keeps DueInv.
LEMMA DueStep ==
  ASSUME SoleScheduler, SchedulerRuns, ScheduledAhead, GapExceedsLookahead,
         TypeOK, HandOK, DueInv, [Next]_vars
  PROVE  DueInv'
BY SchedulerDue, RequestDue, ListenerDue, EnvironmentDue DEF Next

\* A job that leaves the delay queue in a step is claimed by dispatch().
LEMMA ClaimIsDue ==
  ASSUME SoleScheduler, ScheduledAhead, TypeOK, HandOK, DueInv, DueInv', [Next]_vars,
         NEW j \in Jobs, db[j].status = "SCHEDULED", db'[j].status = "QUEUED"
  PROVE  now >= db[j].at /\ now >= db[j].next
<1>t. now \in Int /\ db[j].at \in Int /\ db[j].next \in Int
  BY Times
<1>1. ASSUME NEW w \in Schedulers, DispatchClaim(w), j = work[w].cur
      PROVE  now >= db[j].at /\ now >= db[j].next
  <2>1. work[w].pc = "claim" /\ j \in work[w].todo
    BY <1>1 DEF DispatchClaim, HandOK, Holding
  <2>2. db[j].at <= now /\ db[j].next <= now
    BY <2>1 DEF DueInv, PollIsDue, Polling
  <2> QED
    BY <1>t, <2>2
<1>2. ASSUME NEW k \in Jobs, ApiNext(k) PROVE FALSE
  <2>1. api'[j] = "queued"
    BY <1>2, RequestWrites
  <2> QED
    BY <2>1 DEF DueInv, RequestInv, LeftToWatcher
<1>3. ASSUME NEW c \in Consumers, ConsumeNext(c) PROVE FALSE
  BY <1>3, ListenerWrites
<1>4. ASSUME EnvironmentNext \/ (\E p \in Partitions : CommitNext(p)) \/ UNCHANGED vars
      PROVE  FALSE
  <2>1. UNCHANGED db
    BY <1>4, ClockAndCrashKept DEF DueInv
  <2> QED
    BY <2>1
<1>5. ASSUME NEW w \in Schedulers, WatchNext(w) \/ DispatchNow(w)
      PROVE  now >= db[j].at /\ now >= db[j].next
  BY <1>1, <1>5, SchedulerWrites
<1> QED
  BY <1>2, <1>3, <1>4, <1>5 DEF Next

-----------------------------------------------------------------------------
\* With one scheduler thread whose instance goes on, jobs scheduled ahead and a
\* gap limit no shorter than the lookahead, no entry of the delay queue comes
\* up before its job may run, and what has left the queue has arrived: in
\* whatever order watch(), dispatch(), the recovery after a gap, the requests
\* and the listeners take their steps, when listeners crash or records come
\* twice, when Redis is emptied, and when sends and saves fail.
THEOREM DueSafe ==
  ASSUME SoleScheduler, SchedulerRuns, ScheduledAhead, GapExceedsLookahead
  PROVE  Spec => [](TypeOK /\ HandOK /\ DueInv)
<1>1. Init => DueInv
  <2> SUFFICES ASSUME Init PROVE DueInv
    OBVIOUS
  <2> USE DEF Init
  <2>1. \A w \in Schedulers : work[w].pc = "idle" /\ work[w].todo = {} /\ work[w].clock = 0
    BY DEF WorkInit, IdleWork, Null
  <2>2. \A c \in Consumers : task[c].job \notin Jobs
    BY StoreAssumption DEF ConsumerInit, IdleTask
  <2>3. \A j \in Jobs : db[j] = NoRow /\ db[j].status = "NONE"
    BY DEF StoreInit, NoRow
  <2>4. now = 1 /\ lastRun = Null
    BY DEF StoreInit
  <2>5. RequestInv
    BY <2>3 DEF ApiInit, RequestInv, UncreatedIsAbsent, LeftToWatcher
  <2>6. RecordsArrived
    BY DEF StoreInit, RecordsArrived
  <2>7. BeyondQueueArrived /\ CopiesArrived /\ PendingUndated
    BY <2>2, <2>3 DEF BeyondQueueArrived, CopiesArrived, PendingUndated
  <2>8. ClockRead /\ ListsAreTimely /\ InHandIsTimely
    BY <2>1, <2>4 DEF ClockRead, ListsAreTimely, InHandIsTimely
  <2>9. ScoreIsDue /\ PollIsDue /\ RetriesWithinReach
    BY <2>1, <2>3, <2>4
       DEF ScoreIsDue, PollIsDue, RetriesWithinReach, RetryWithin, Watching, Recovering, Listing
  <2> QED
    BY <2>5, <2>6, <2>7, <2>8, <2>9 DEF DueInv
<1>2. TypeOK /\ HandOK /\ DueInv /\ [Next]_vars => DueInv'
  BY DueStep
<1> QED
  BY <1>1, <1>2, TypeCorrect, PTL DEF Spec

\* ... so that no job goes from the delay queue to Kafka before its schedule
\* time, nor, after a failure or a refusal, before its retry time.
THEOREM NotBeforeDueSafe ==
  ASSUME SoleScheduler, SchedulerRuns, ScheduledAhead, GapExceedsLookahead
  PROVE  Spec => NotBeforeDue
<1> DEFINE Due == \A j \in Jobs :
                    db[j].status = "SCHEDULED" /\ db'[j].status = "QUEUED" =>
                      now >= db[j].at /\ now >= db[j].next
<1>1. ASSUME TypeOK, HandOK, DueInv, DueInv', [Next]_vars PROVE [Due]_vars
  BY <1>1, ClaimIsDue
<1>2. Spec => [](TypeOK /\ HandOK /\ DueInv)
  BY DueSafe
<1>3. Spec => [][Due]_vars
  BY <1>1, <1>2, PTL DEF Spec
<1> QED
  BY <1>3 DEF NotBeforeDue
=============================================================================
