----------------------------- MODULE TestRunner -----------------------------
(***************************************************************************)
(* test-runner.js: the tests, in the order main() runs them.  The first    *)
(* that fails ends the script with exit code 1.                            *)
(***************************************************************************)
EXTENDS ScriptClient

WaitForServer == <<Health(Attempts, "exit")>>

ImmediateJobTest ==
  <<Post("log", 0, "assert", {}), Nap, Get({"COMPLETED"}, "none")>>

\* One minute ahead, to the minute; one look every five seconds.
ScheduledJobTest ==
  <<Post("log", 1, "assert", {}), Poll({"COMPLETED"}, {"COMPLETED"}, Polls, "counted")>>

\* Whatever the answers are, as long as they can be parsed.
CancellationTest == <<Post("log", 2, "lax", {}), Cancel("lax"), Get({}, "none")>>

RateLimitingAndRetryTest ==
  <<Burst("log", Many, "lax", 0), Nap, Scan("throttled", 0), Nap, Scan("recovered", 0)>>

CircuitBreakerTest ==
  <<Burst("bad", Several, "lax", 0), Nap, Scan("none", 0),
    Post("bad", 0, "lax", {}), Nap, Get({}, "bypassed")>>

\* A level and a sleep in turn, then the analysis.
StressTest ==
  [l \in 1 .. 2 * Len(Levels) |->
     IF l % 2 = 1 THEN Caught(Spike(Levels[(l + 1) \div 2], 0, "row")) ELSE Nap]
  \o <<Step("find")>>

RunnerTests ==
  <<WaitForServer, ImmediateJobTest, CancellationTest, RateLimitingAndRetryTest,
    CircuitBreakerTest, ScheduledJobTest, StressTest>>
=============================================================================
