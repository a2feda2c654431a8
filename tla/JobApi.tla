------------------------------- MODULE JobApi -------------------------------
(***************************************************************************)
(* The REST front end: JobController and JobService.  A request to create  *)
(* a job runs on a servlet thread of its own: it saves the row PENDING,    *)
(* reads the clock again, and, when the job is due within the threshold,   *)
(* saves the same entity as QUEUED and publishes it itself.  Nothing holds *)
(* the row between the two saves.                                          *)
(***************************************************************************)
EXTENDS JobStore

CONSTANTS
  Delays,              \* how far ahead the requested times lie (0: no time given)
  ImmediateThreshold,  \* IMMEDIATE_THRESHOLD
  Cancellable          \* the jobs some client asks to cancel

ASSUME ApiAssumption ==
  /\ Delays \subseteq Nat
  /\ ImmediateThreshold \in Nat
  /\ Cancellable \subseteq Jobs

VARIABLE api           \* where the request that creates a job stands

ApiTypeOK == api \in [Jobs -> {"none", "saved", "queued", "done"}]
ApiInit == api = [j \in Jobs |-> "none"]

\* The row is PENDING.  Bound: the time asked for lies within the horizon.
CreateJob(j, d) ==
  /\ api[j] = "none"
  /\ now + d <= MaxTime
  /\ Save(j, NewRow(now + d))
  /\ api' = [api EXCEPT ![j] = "saved"]
  /\ UNCHANGED <<redisVars, kafkaVars, now, faults>>

\* Variant: the job is marked QUEUED and the send is forgotten.
RouteJobUnsent(j) ==
  /\ api[j] = "saved"
  /\ api' = [api EXCEPT ![j] = "done"]
  /\ IF db[j].at - now <= ImmediateThreshold
       THEN Save(j, WithStatus(NewRow(db[j].at), "QUEUED"))
       ELSE UNCHANGED db
  /\ UNCHANGED <<redisVars, kafkaVars, now, faults>>

\* The entity the second save writes is the one the first save returned:
\* whatever happened to the row in between is overwritten.
RouteJob(j) ==
  /\ api[j] = "saved"
  /\ IF db[j].at - now <= ImmediateThreshold
       THEN /\ Save(j, WithStatus(NewRow(db[j].at), "QUEUED"))
            /\ api' = [api EXCEPT ![j] = "queued"]
       ELSE /\ api' = [api EXCEPT ![j] = "done"]
            /\ UNCHANGED db
  /\ UNCHANGED <<redisVars, kafkaVars, now, faults>>

\* producer.sendJob at the end of createJob.
PublishCreated(j) ==
  /\ api[j] = "queued"
  /\ SendOrThrow(j)
  /\ api' = [api EXCEPT ![j] = "done"]
  /\ UNCHANGED <<db, redisVars, unacked, owner, now>>

\* POST /jobs/{id}/cancel: a flag, whatever the state of the job.
CancelJob(j) ==
  /\ j \in Cancellable
  /\ api[j] # "none"
  /\ SetCancelFlag(j)
  /\ UNCHANGED <<db, delayQueue, lastRun, kafkaVars, now, faults, api>>
=============================================================================
