----------------------------- MODULE Dispatcher -----------------------------
(***************************************************************************)
(* RedisDispatcherService.dispatch(): for each job whose score has come,   *)
(* re-read the row, claim it (QUEUED), publish it, and only then take it   *)
(* out of the delay queue.  A job whose row is not SCHEDULED is taken out  *)
(* without being published.  Any exception moves on to the next job.       *)
(***************************************************************************)
EXTENDS SchedulerThread

\* The next poll is one second away at most, less than a tick: an idle
\* thread may always poll.  A poll that finds nothing returns at once.
\* The jobs of a poll are handled in any order: each looks at its row alone.
DispatchStart(w) ==
  /\ work[w].pc = "idle"
  /\ GetReadyJobs(now) # {}
  /\ work' = [work EXCEPT ![w].pc = "load", ![w].todo = GetReadyJobs(now), ![w].clock = now]
  /\ UNCHANGED storeVars

\* repo.findById and the check of the status.
DispatchLoad(w) ==
  /\ work[w].pc = "load"
  /\ \E j \in work[w].todo :
       work' = [work EXCEPT ![w].pc = IF db[j].status = "SCHEDULED" THEN "claim" ELSE "drop",
                            ![w].cur = j, ![w].batch = [@ EXCEPT ![j] = db[j]]]
  /\ UNCHANGED storeVars

\* Done with the job in hand: the next one, or the end of the method.
DispatchNext(w) ==
  IF work[w].todo = {work[w].cur}
    THEN Return(w, work[w].due)
    ELSE Finish(w, "load", work[w].cur)

DispatchDrop(w) ==
  /\ work[w].pc = "drop"
  /\ RemoveJob(work[w].cur)
  /\ DispatchNext(w)
  /\ UNCHANGED <<db, cancelFlag, lastRun, kafkaVars, now, faults>>

\* Variant: the row is not saved before the job is sent.
DispatchClaimUnsaved(w) ==
  /\ work[w].pc = "claim"
  /\ Goto(w, "publish")
  /\ UNCHANGED storeVars

DispatchClaim(w) ==
  /\ work[w].pc = "claim"
  /\ SaveAs(w, work[w].cur, "QUEUED")
  /\ Goto(w, "publish")
  /\ UNCHANGED <<redisVars, kafkaVars, now, faults>>

DispatchPublish(w) ==
  /\ work[w].pc = "publish"
  /\ SendJob(work[w].cur)
  /\ Goto(w, "remove")
  /\ UNCHANGED <<db, redisVars, unacked, owner, now>>

\* Variant: the claim is undone, and the entry taken out all the same.
DispatchSendThrowsUndone(w) ==
  /\ work[w].pc = "publish"
  /\ Fault("sendThrows")
  /\ SaveAs(w, work[w].cur, "SCHEDULED")
  /\ RemoveJob(work[w].cur)
  /\ DispatchNext(w)
  /\ UNCHANGED <<cancelFlag, lastRun, kafkaVars, now>>

\* send() itself throws (no metadata, no buffer): the entry stays in Redis,
\* the row stays QUEUED.
DispatchSendThrows(w) ==
  /\ work[w].pc = "publish"
  /\ Fault("sendThrows")
  /\ DispatchNext(w)
  /\ UNCHANGED <<db, redisVars, kafkaVars, now>>

DispatchRemove(w) ==
  /\ work[w].pc = "remove"
  /\ RemoveJob(work[w].cur)
  /\ DispatchNext(w)
  /\ UNCHANGED <<db, cancelFlag, lastRun, kafkaVars, now, faults>>

\* One step of a dispatch() that has started.
DispatchStep(w) ==
  \/ DispatchLoad(w) \/ DispatchDrop(w) \/ DispatchClaim(w)
  \/ DispatchPublish(w) \/ DispatchRemove(w)
=============================================================================
