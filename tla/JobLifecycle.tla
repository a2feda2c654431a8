---------------------------- MODULE JobLifecycle ----------------------------
(***************************************************************************)
(* What the job queue promises of a job that is scheduled ahead: it moves  *)
(* along the lifecycle of README.md ("End-to-End Data Flow") one status at *)
(* a time, is executed at most MaxRetry + 1 times, and stays in the final  *)
(* status it reaches.  Threads, queues, messages and clocks are absent.    *)
(***************************************************************************)
EXTENDS Naturals

CONSTANTS Jobs, MaxRetry

VARIABLES status, retries

vars == <<status, retries>>

Init == status = [j \in Jobs |-> "NONE"] /\ retries = [j \in Jobs |-> 0]

Move(j, from, to) ==
  /\ status[j] \in from
  /\ status' = [status EXCEPT ![j] = to]

\* The client's request.
Create(j) == Move(j, {"NONE"}, "PENDING") /\ UNCHANGED retries

\* The watcher puts the job in the delay queue.
Schedule(j) == Move(j, {"PENDING", "RETRY"}, "SCHEDULED") /\ UNCHANGED retries

\* The dispatcher publishes it.
Enqueue(j) == Move(j, {"SCHEDULED"}, "QUEUED") /\ UNCHANGED retries

\* A consumer starts it, puts it off without an attempt, or finds it cancelled.
Start(j) == Move(j, {"QUEUED"}, "PROCESSING") /\ UNCHANGED retries
Defer(j) == Move(j, {"QUEUED"}, "RETRY") /\ UNCHANGED retries
Cancel(j) == Move(j, {"QUEUED"}, "CANCELLED") /\ UNCHANGED retries

\* The attempt succeeds, is to be repeated, or was the last one.
Complete(j) == Move(j, {"PROCESSING"}, "COMPLETED") /\ UNCHANGED retries
Retry(j) ==
  /\ retries[j] < MaxRetry
  /\ Move(j, {"PROCESSING"}, "RETRY")
  /\ retries' = [retries EXCEPT ![j] = @ + 1]
GiveUp(j) ==
  /\ retries[j] = MaxRetry
  /\ Move(j, {"PROCESSING"}, "FAILED")
  /\ UNCHANGED retries

Next ==
  \E j \in Jobs :
    \/ Create(j) \/ Schedule(j) \/ Enqueue(j)
    \/ Start(j) \/ Defer(j) \/ Cancel(j)
    \/ Complete(j) \/ Retry(j) \/ GiveUp(j)

Spec == Init /\ [][Next]_vars
=============================================================================
