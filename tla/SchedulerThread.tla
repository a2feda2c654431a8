--------------------------- MODULE SchedulerThread ---------------------------
(***************************************************************************)
(* The thread of an instance that runs the @Scheduled methods.  Spring's   *)
(* default scheduler has one thread, so watch() and dispatch() of one      *)
(* instance never overlap; those of two instances do.  Both methods are a  *)
(* loop over entities read earlier: the thread keeps the entities it holds *)
(* (`batch`), those still to be handled (`todo`), the one in hand (`cur`)  *)
(* and the clock it read when it started.  The admin operations are loops  *)
(* of the same form on request threads (module Admin).                     *)
(***************************************************************************)
EXTENDS JobStore

CONSTANT Schedulers

VARIABLE work

WorkPc == {"idle", "beat", "beatGap",
           "recover", "recoverAdd", "recoverSave", "recoverRetryAdd", "recoverRetrySave",
           "pending", "pendingSave", "pendingAdd", "retrySave", "retryAdd",
           "load", "drop", "claim", "publish", "remove",
           "overdue", "overdueAdd", "requeue", "requeueSend", "resetOpen", "resetLast"}

Work == [pc    : WorkPc,
         todo  : SUBSET Jobs,
         batch : [Jobs -> Job],
         cur   : Jobs \cup {NoJob},
         clock : Time,
         due   : Time]            \* when the next watch() may start

WorkTypeOK == work \in [Schedulers -> Work]

NoBatch == [j \in Jobs |-> NoRow]
IdleWork(due) == [pc |-> "idle", todo |-> {}, batch |-> NoBatch, cur |-> NoJob,
                  clock |-> Null, due |-> due]
WorkInit == work = [w \in Schedulers |-> IdleWork(Null)]

\* The thread goes to pc, all else it holds unchanged.
Goto(w, pc) == work' = [work EXCEPT ![w].pc = pc]

\* The thread holds the entities of S, read now, and goes to pc.
Fetch(w, pc, S) ==
  work' = [work EXCEPT ![w].pc = pc, ![w].todo = S, ![w].cur = NoJob,
                       ![w].batch = [j \in Jobs |-> IF j \in S THEN db[j] ELSE NoRow]]

\* The thread takes job j of its list in hand.
Take(w, pc, j) == work' = [work EXCEPT ![w].pc = pc, ![w].cur = j]

\* The thread is done with job j of its list, and with the entity.
Finish(w, pc, j) ==
  work' = [work EXCEPT ![w].pc = pc, ![w].todo = @ \ {j}, ![w].cur = NoJob,
                       ![w].batch = [@ EXCEPT ![j] = NoRow]]

\* The thread leaves the method.
Return(w, due) == work' = [work EXCEPT ![w] = IdleWork(due)]

\* The jobs that may be next in a list sorted by time.
Earliest(w, time) ==
  {j \in work[w].todo : \A k \in work[w].todo : time[j] <= time[k]}

\* save(entity with status s) of the job in hand.
SaveAs(w, j, s) == Save(j, WithStatus(work[w].batch[j], s))
=============================================================================
