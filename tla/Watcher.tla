------------------------------- MODULE Watcher -------------------------------
(***************************************************************************)
(* WatcherService.watch(): heartbeat, recovery when the last heartbeat is  *)
(* too old, then two passes that move PENDING and RETRY jobs to the delay  *)
(* queue.  In the two passes the row is saved before the queue entry is    *)
(* added; in the recovery it is the other way round.                       *)
(***************************************************************************)
EXTENDS SchedulerThread

CONSTANTS
  WatchDelay,       \* fixedDelay = 20000
  GapLimit,         \* 25000
  Lookahead,        \* now + 20000
  RecoveryWindow,   \* now - 60000
  WatchPage,        \* PageRequest.of(0, 200)
  RecoverPage       \* PageRequest.of(0, 500)

ASSUME WatcherAssumption ==
  /\ WatchDelay \in Nat /\ GapLimit \in Nat /\ Lookahead \in Nat /\ RecoveryWindow \in Nat
  /\ WatchPage \in Nat \ {0} /\ RecoverPage \in Nat \ {0}

-----------------------------------------------------------------------------
\* Reads the clock and watcher:lastRun; a missing key means no gap.
WatchStart(w) ==
  /\ work[w].pc = "idle"
  /\ now >= work[w].due
  /\ work' = [work EXCEPT
       ![w].clock = now,
       ![w].pc = IF lastRun # Null /\ now - lastRun > GapLimit THEN "beatGap" ELSE "beat"]
  /\ UNCHANGED storeVars

\* The heartbeat is set whether or not a gap was found, before any recovery.
Heartbeat(w) ==
  /\ work[w].pc \in {"beat", "beatGap"}
  /\ lastRun' = work[w].clock
  /\ Goto(w, IF work[w].pc = "beatGap" THEN "recover" ELSE "pending")
  /\ UNCHANGED <<db, delayQueue, cancelFlag, kafkaVars, now, faults>>

\* incidentPublisher.publish throws: watch() ends, the heartbeat stays set.
GapPublishFails(w) ==
  /\ work[w].pc = "recover"
  /\ Fault("publishThrows")
  /\ Return(w, Later(now, WatchDelay))
  /\ UNCHANGED <<db, redisVars, kafkaVars, now>>

-----------------------------------------------------------------------------
(* recoverMissedJobs(now): the entry is added first, the row saved after.  *)

RecoverQuery(w) ==
  /\ work[w].pc = "recover"
  /\ \E S \in Page(FindPendingOrScheduledInRange(work[w].clock - RecoveryWindow, work[w].clock),
                   RecoverPage) :
       Fetch(w, "recoverAdd", S)
  /\ UNCHANGED storeVars

RecoverAdd(w) ==
  /\ work[w].pc = "recoverAdd"
  /\ \E j \in work[w].todo :
       /\ ScheduleJob(j, work[w].batch[j].at)
       /\ IF work[w].batch[j].status = "PENDING"
            THEN Take(w, "recoverSave", j)
            ELSE Finish(w, "recoverAdd", j)
  /\ UNCHANGED <<db, cancelFlag, lastRun, kafkaVars, now, faults>>

RecoverSave(w) ==
  /\ work[w].pc = "recoverSave"
  /\ SaveAs(w, work[w].cur, "SCHEDULED")
  /\ Finish(w, "recoverAdd", work[w].cur)
  /\ UNCHANGED <<redisVars, kafkaVars, now, faults>>

RecoverRetryQuery(w) ==
  /\ work[w].pc = "recoverAdd" /\ work[w].todo = {}
  /\ \E S \in Page(FindRetryInRange(work[w].clock - RecoveryWindow, work[w].clock),
                   RecoverPage) :
       Fetch(w, "recoverRetryAdd", S)
  /\ UNCHANGED storeVars

RecoverRetryAdd(w) ==
  /\ work[w].pc = "recoverRetryAdd"
  /\ \E j \in work[w].todo :
       /\ ScheduleJob(j, work[w].batch[j].next)
       /\ Take(w, "recoverRetrySave", j)
  /\ UNCHANGED <<db, cancelFlag, lastRun, kafkaVars, now, faults>>

RecoverRetrySave(w) ==
  /\ work[w].pc = "recoverRetrySave"
  /\ SaveAs(w, work[w].cur, "SCHEDULED")
  /\ Finish(w, "recoverRetryAdd", work[w].cur)
  /\ UNCHANGED <<redisVars, kafkaVars, now, faults>>

-----------------------------------------------------------------------------
(* The two regular passes: the row is saved first, the entry added after.  *)

PendingQuery(w) ==
  /\ \/ work[w].pc = "pending"
     \/ work[w].pc = "recoverRetryAdd" /\ work[w].todo = {}
  /\ \E S \in OldestPage(FindWindow(Null, Later(work[w].clock, Lookahead)), WatchPage,
                         ScheduleTimes(db)) :
       Fetch(w, "pendingSave", S)
  /\ UNCHANGED storeVars

PendingSave(w) ==
  /\ work[w].pc = "pendingSave"
  /\ \E j \in Earliest(w, ScheduleTimes(work[w].batch)) :
       /\ SaveAs(w, j, "SCHEDULED")
       /\ Take(w, "pendingAdd", j)
  /\ UNCHANGED <<redisVars, kafkaVars, now, faults>>

\* Variant: a time that has passed already is not added.
PendingAddFuture(w) ==
  /\ work[w].pc = "pendingAdd"
  /\ IF work[w].batch[work[w].cur].at > work[w].clock
       THEN ScheduleJob(work[w].cur, work[w].batch[work[w].cur].at)
       ELSE UNCHANGED delayQueue
  /\ Finish(w, "pendingSave", work[w].cur)
  /\ UNCHANGED <<db, cancelFlag, lastRun, kafkaVars, now, faults>>

PendingAdd(w) ==
  /\ work[w].pc = "pendingAdd"
  /\ ScheduleJob(work[w].cur, work[w].batch[work[w].cur].at)
  /\ Finish(w, "pendingSave", work[w].cur)
  /\ UNCHANGED <<db, cancelFlag, lastRun, kafkaVars, now, faults>>

RetryQuery(w) ==
  /\ work[w].pc = "pendingSave" /\ work[w].todo = {}
  /\ \E S \in OldestPage(FindRetryWindow(Null, Later(work[w].clock, Lookahead)), WatchPage,
                         NextRetryTimes(db)) :
       Fetch(w, "retrySave", S)
  /\ UNCHANGED storeVars

RetrySave(w) ==
  /\ work[w].pc = "retrySave"
  /\ \E j \in Earliest(w, NextRetryTimes(work[w].batch)) :
       /\ SaveAs(w, j, "SCHEDULED")
       /\ Take(w, "retryAdd", j)
  /\ UNCHANGED <<redisVars, kafkaVars, now, faults>>

\* The score of a retry, and a variant that takes the schedule time for it.
RetryScoreAtScheduleTime(row) == row.at
RetryScore(row) == row.next

RetryAdd(w) ==
  /\ work[w].pc = "retryAdd"
  /\ ScheduleJob(work[w].cur, RetryScore(work[w].batch[work[w].cur]))
  /\ Finish(w, "retrySave", work[w].cur)
  /\ UNCHANGED <<db, cancelFlag, lastRun, kafkaVars, now, faults>>

\* fixedDelay counts from the end of the run.
WatchEnd(w) ==
  /\ work[w].pc = "retrySave" /\ work[w].todo = {}
  /\ Return(w, Later(now, WatchDelay))
  /\ UNCHANGED storeVars

-----------------------------------------------------------------------------
\* One step of a watch() that has started.
WatchStep(w) ==
  \/ Heartbeat(w)
  \/ RecoverQuery(w) \/ RecoverAdd(w) \/ RecoverSave(w)
  \/ RecoverRetryQuery(w) \/ RecoverRetryAdd(w) \/ RecoverRetrySave(w)
  \/ PendingQuery(w) \/ PendingSave(w) \/ PendingAdd(w)
  \/ RetryQuery(w) \/ RetrySave(w) \/ RetryAdd(w)
  \/ WatchEnd(w)
=============================================================================
