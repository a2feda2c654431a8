------------------------------ MODULE E2ETest ------------------------------
(***************************************************************************)
(* e2e-test.js: ten suites of tests, and the bookkeeping of runTest,       *)
(* runSuite and main.  Each request is aborted after 15 seconds, which is  *)
(* an exception like any other; a test that throws is counted as failed    *)
(* and the next one runs.                                                  *)
(***************************************************************************)
EXTENDS ScriptClient

CONSTANTS
  Burst10,     \* jobs of suite 10 (50 in the script)
  Need10       \* how many of them must be accepted (45)

ASSUME SuiteAssumption == Burst10 \in Nat \ {0} /\ Need10 \in 0 .. Burst10

VARIABLES
  passed, failed,            \* totalPassed, totalFailed
  suitePassed, suiteFailed,  \* the counters of the suite under way
  sumPassed, sumFailed       \* what suiteResults adds up to

countVars == <<passed, failed, suitePassed, suiteFailed, sumPassed, sumFailed>>

Asked == <<Ask("assert", "none")>>

Preflight == << <<Health(1, "exit")>> >>

Suite1ApiValidation ==
  << <<Post("log", 0, "assert", {"QUEUED", "PENDING"})>>,
     Asked, Asked, Asked,
     <<Post("log", 0, "lax", {}), Get(Statuses, "none")>>,
     Asked, Asked,
     <<Post("log", 0, "lax", {}), Cancel("assert")>>,
     Asked >>

Suite2LogLifecycle ==
  << <<Post("log", 0, "assert", {}), Poll({"COMPLETED"}, {"COMPLETED"}, Polls, "none")>>,
     <<Posts("log", Several, "lax"), Nap, Scan("all", 0)>> >>

Suite3ApiLifecycle ==
  << <<Post("api", 0, "assert", {}),
       Poll({"COMPLETED", "RETRY", "FAILED"}, {"COMPLETED", "RETRY"}, Polls, "none")>>,
     <<Post("bad", 0, "assert", {}),
       Poll({"RETRY", "FAILED"}, {"RETRY", "FAILED"}, Polls, "none")>> >>

Suite4ScheduledJob ==
  << <<Post("log", 2, "assert", {"PENDING"}), Nap, Get({"PENDING", "SCHEDULED"}, "none")>>,
     <<Post("log", 0, "assert", {"QUEUED", "PROCESSING", "COMPLETED"})>> >>

Suite5Cancellation ==
  << <<Post("log", 5, "assert", {}), Cancel("assert")>>,
     <<Post("log", 0, "lax", {}), Cancel("assert"), Nap,
       Get({"CANCELLED", "COMPLETED"}, "none")>> >>

Suite6RateLimiter ==
  << <<Burst("log", Many, "skip", Many), Nap, Scan("atLeast", Limit)>> >>

Suite7RetryBackoff ==
  << <<Post("bad", 0, "assert", {}), Nap,
       Get({"RETRY", "FAILED", "PROCESSING", "QUEUED"}, "none")>>,
     <<Post("bad", 0, "assert", {}),
       Poll({"FAILED"}, {"RETRY", "FAILED"}, Polls, "exhausted")>> >>

Suite8CircuitBreaker == << <<Posts("bad", Several, "assert"), Nap, Scan("some", 0)>> >>

Suite9Stats ==
  << <<Ask("assert", "sum")>>,
     <<Ask("lax", "none"), Post("log", 0, "lax", {}), Ask("assert", "grown")>> >>

Suite10ConcurrencyStress ==
  << <<Spike(Burst10, Need10, "none")>>,
     <<Posts("log", Burst10, "skip"), Scan("until", Polls)>> >>

E2ESuites ==
  <<Preflight, Suite1ApiValidation, Suite2LogLifecycle, Suite3ApiLifecycle,
    Suite4ScheduledJob, Suite5Cancellation, Suite6RateLimiter, Suite7RetryBackoff,
    Suite8CircuitBreaker, Suite9Stats, Suite10ConcurrencyStress>>

-----------------------------------------------------------------------------
CountTypeOK ==
  /\ passed \in Nat /\ failed \in Nat
  /\ suitePassed \in Nat /\ suiteFailed \in Nat
  /\ sumPassed \in Nat /\ sumFailed \in Nat

CountInit ==
  /\ passed = 0 /\ failed = 0 /\ suitePassed = 0 /\ suiteFailed = 0
  /\ sumPassed = 0 /\ sumFailed = 0

\* Variant: a test that throws is counted in its suite only.
RunTestUncounted(ok) ==
  /\ passed' = passed + (IF ok THEN 1 ELSE 0)
  /\ UNCHANGED failed

\* runTest: its result goes to the totals ...
RunTest(ok) ==
  /\ passed' = passed + (IF ok THEN 1 ELSE 0)
  /\ failed' = failed + (IF ok THEN 0 ELSE 1)

\* ... and runSuite counts it for the suite, whose sums are noted at its end.
RunSuite(ok, lastOfSuite) ==
  LET p == suitePassed + (IF ok THEN 1 ELSE 0)
      f == suiteFailed + (IF ok THEN 0 ELSE 1)
  IN  IF lastOfSuite
        THEN /\ suitePassed' = 0 /\ suiteFailed' = 0
             /\ sumPassed' = sumPassed + p /\ sumFailed' = sumFailed + f
        ELSE /\ suitePassed' = p /\ suiteFailed' = f
             /\ UNCHANGED <<sumPassed, sumFailed>>

\* main's exit code, when all suites have run.
E2EExit == IF failed > 0 THEN "1" ELSE "0"
=============================================================================
