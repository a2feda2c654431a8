--------------------------- MODULE ScalabilityTest ---------------------------
(***************************************************************************)
(* scalability-test.js: its phases in the order main() runs them, and the  *)
(* kinds of step only this script has: waiting for the backlog, waves that *)
(* are followed to their end, requests at a fixed rate, the summary.  Its  *)
(* helpers (submitJob, getJob, getStats) swallow exceptions; the bare      *)
(* requests of phase 4 do not, and end the script with exit code 1.        *)
(***************************************************************************)
EXTENDS ScriptClient

CONSTANTS
  WaveSize,    \* WAVE
  Waves,       \* BATCH / WAVE
  Rates        \* requests of each fixed-rate level, in order

ASSUME ScaleAssumption ==
  /\ WaveSize \in Nat \ {0} /\ Waves \in Nat \ {0}
  /\ Rates \in Seq(Nat \ {0})

scaleIdle == <<ids, fails, first>>

-----------------------------------------------------------------------------
(* drainQueue: skipped without the stats endpoint; a sample is below the   *)
(* target, which needs not be zero and leaves SCHEDULED jobs out, or not.  *)

DrainSample(s) ==
  /\ s.op = "drain"
  /\ IF "stats" \notin report \/ tries = s.size THEN Proceed
     ELSE \/ Proceed
          \/ /\ Trouble \/ others
             /\ tries' = tries + 1 /\ UNCHANGED <<step, n, last, tally, outcome>>
  /\ UNCHANGED <<serverVars, ids, levelVars, report>>

-----------------------------------------------------------------------------
(* A wave of phase 2: each job is submitted and followed by itself.        *)

WavePost(s) ==
  /\ s.op = "wave" /\ n < s.size
  /\ n' = n + 1
  /\ \/ /\ Accept("log", "QUEUED")
        /\ polling' = polling \cup {Fresh}
        /\ UNCHANGED <<tally, windowVars>>
     \/ /\ Trouble /\ AcceptUnseen("log")
        /\ tally' = Add("bad")
        /\ UNCHANGED polling
  /\ UNCHANGED <<step, tries, last, outcome, scaleIdle, flight, strays, report>>

WaveFinished(s, i) ==
  /\ s.op = "wave" /\ i \in polling
  /\ status[i] \in Final
  /\ polling' = polling \ {i}
  /\ tally' = IF status[i] = "COMPLETED" THEN Add("ok") ELSE Add("bad")
  /\ UNCHANGED <<serverVars, step, n, tries, last, outcome, scaleIdle, flight, strays, report>>

\* waitForCompletion gives up: the job may still be executed, in a later wave.
WaveTimeout(s, i) ==
  /\ s.op = "wave" /\ i \in polling
  /\ polling' = polling \ {i}
  /\ tally' = Add("retry")
  /\ UNCHANGED <<serverVars, step, n, tries, last, outcome, scaleIdle, flight, strays, report>>

\* The next wave waits for every job of this one.
WaveEnd(s) ==
  /\ s.op = "wave" /\ n = s.size /\ polling = {}
  /\ ProceedCounting
  /\ UNCHANGED <<serverVars, ids, levelVars, report>>

-----------------------------------------------------------------------------
(* runAtFixedRPS: tries is 0 while requests are sent, 1 while the last are *)
(* waited for.                                                             *)

RateSend(s) ==
  /\ s.op = "rate" /\ tries = 0 /\ n < s.size
  /\ n' = n + 1 /\ flight' = flight + 1
  /\ UNCHANGED <<serverVars, step, tries, last, tally, outcome, scaleIdle, polling,
                 strays, report>>

RateAnswer(s) ==
  /\ s.op = "rate" /\ flight > 0
  /\ flight' = flight - 1
  /\ \/ /\ tally' = Add("ok")
        /\ others' = TRUE /\ UNCHANGED <<recent, older, jobVars>>
     \/ Trouble /\ tally' = Add("bad") /\ AcceptUnseen("log")
  /\ UNCHANGED <<step, n, tries, last, outcome, scaleIdle, polling, strays, report>>

\* The time of the level is over; at least one request has been sent.
RateStop(s) ==
  /\ s.op = "rate" /\ tries = 0 /\ n > 0
  /\ tries' = 1
  /\ UNCHANGED <<serverVars, step, n, last, tally, outcome, ids, levelVars, report>>

\* Everything has landed, or ten seconds are over: what is still under way will
\* land in an array nobody reads any more.
RateEnd(s) ==
  /\ s.op = "rate" /\ tries = 1
  /\ strays' = strays + flight /\ flight' = 0
  /\ Proceed
  /\ UNCHANGED <<serverVars, scaleIdle, polling, report>>

\* Variant: the levels share one array of results.
StrayLandsShared ==
  /\ strays > 0
  /\ strays' = strays - 1
  /\ tally' = Add("ok")
  /\ others' = TRUE /\ UNCHANGED <<recent, older, jobVars>>
  /\ UNCHANGED <<step, n, tries, last, outcome, scaleIdle, polling, flight, report>>

StrayLands ==
  /\ strays > 0
  /\ strays' = strays - 1
  /\ \/ others' = TRUE /\ UNCHANGED <<recent, older, jobVars>>
     \/ AcceptUnseen("log")
  /\ UNCHANGED <<progressVars, scaleIdle, polling, flight, report>>

-----------------------------------------------------------------------------
(* The last lines of main(), and the labels of the report: the limiter is  *)
(* said to have been "triggered + auto-recovered" whenever it was          *)
(* triggered.                                                              *)

Summary(s) ==
  /\ s.op = "summary"
  /\ IF "throttled" \in report THEN Printed("autoRecovered") ELSE UNCHANGED report
  /\ Proceed
  /\ UNCHANGED <<serverVars, ids, levelVars>>

ScaleStep(s) ==
  \/ DrainSample(s)
  \/ WavePost(s) \/ WaveEnd(s)
  \/ \E i \in Ids : WaveFinished(s, i) \/ WaveTimeout(s, i)
  \/ RateSend(s) \/ RateAnswer(s) \/ RateStop(s) \/ RateEnd(s)
  \/ Summary(s)

-----------------------------------------------------------------------------
(* The phases.                                                             *)

Drain == [Step("drain") EXCEPT !.size = Polls]
Wave == [Step("wave") EXCEPT !.size = WaveSize]
Rate(r) == [Step("rate") EXCEPT !.size = r]

Phase0Warmup ==
  <<Caught(Health(Attempts, "lenient")), Caught(Ask("lax", "stats")),
    Caught(Spike(Many, 0, "none")), Nap, Caught(Ask("lax", "none"))>>

\* Variant: no gap between the waves.
Phase2E2ELatencyNoGap == <<Drain>> \o [k \in 1 .. Waves |-> Wave]

\* A gap longer than the window between the waves.
Phase2E2ELatency ==
  <<Drain>> \o [k \in 1 .. 2 * Waves - 1 |-> IF k % 2 = 1 THEN Wave ELSE Nap]

Phase1SustainedThroughput ==
  [k \in 1 .. 2 * Len(Rates) |-> IF k % 2 = 1 THEN Rate(Rates[(k + 1) \div 2]) ELSE Nap]

Phase3ConcurrencyStress ==
  [k \in 1 .. 2 * Len(Levels) |->
     IF k % 2 = 1 THEN Caught(Spike(Levels[(k + 1) \div 2], 0, "threshold")) ELSE Nap]

Phase4RateLimiter ==
  <<Drain, Caught(Burst("log", Many, "skip", 0)), Nap, Caught(Scan("throttled", 0)),
    Nap, Caught(Scan("recovered", 0))>>

Phase4CircuitBreaker ==
  <<Posts("bad", Several, "lax"), Nap, Caught(Scan("none", 0)),
    Post("bad", 0, "lax", {}), Nap, Caught(Get({}, "bypassed"))>>

Phase4Cancellation ==
  <<Post("log", 2, "lax", {}), Cancel("lax"), Caught(Get({}, "none"))>>

Conclusion == <<Caught(Ask("lax", "none")), Step("summary")>>

ScalePhases ==
  <<Phase0Warmup, Phase2E2ELatency, Phase1SustainedThroughput, Phase3ConcurrencyStress,
    Phase4RateLimiter, Phase4CircuitBreaker, Phase4Cancellation, Conclusion>>
=============================================================================
