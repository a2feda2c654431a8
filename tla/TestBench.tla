------------------------------ MODULE TestBench ------------------------------
(***************************************************************************)
(* One of the three scripts run against the service: its tests one after   *)
(* the other, while the service works on what it was sent.                 *)
(***************************************************************************)
EXTENDS TestRunner, E2ETest, ScalabilityTest

CONSTANTS
  Scripts,     \* those of "runner", "e2e", "scale" that may be run
  Disturbed    \* bound: the jobs that may become repeated in a test, as script,
               \* number of the suite, number of the test, id of the job

\* There is an id for every job a test follows.
ASSUME BenchAssumption ==
  /\ Scripts \subseteq {"runner", "e2e", "scale"} /\ Scripts # {}
  /\ Many <= MaxJob /\ Several + 1 <= MaxJob
  /\ Burst10 <= MaxJob /\ WaveSize * Waves <= MaxJob

VARIABLES
  script,      \* the script that runs
  suite,       \* number of the suite ...
  test,        \* ... and of the test in it
  exit         \* "running", or the exit code of the process

placeVars == <<script, suite, test, exit>>
vars == <<serverVars, clientVars, countVars, placeVars>>

Suites == [runner |-> <<RunnerTests>>, e2e |-> E2ESuites, scale |-> <<ScalePhases>>]
AllSuites == Suites[script]
Tests == AllSuites[suite]
InTest == exit = "running" /\ suite <= Len(AllSuites)
InStep == InTest /\ outcome = "running" /\ step <= Len(Tests[test])
Current == Tests[test][step]

Init ==
  /\ ServerInit /\ ClientInit /\ CountInit
  /\ script \in Scripts /\ suite = 1 /\ test = 1 /\ exit = "running"

TypeOK ==
  /\ ServerTypeOK /\ ClientTypeOK /\ CountTypeOK
  /\ script \in Scripts /\ suite \in Nat \ {0} /\ test \in Nat \ {0}
  /\ exit \in {"running", "0", "1"}

-----------------------------------------------------------------------------
DoStep ==
  /\ InStep
  /\ ClientStep(Current) \/ ScaleStep(Current)
  /\ UNCHANGED <<countVars, placeVars>>

\* A test is over: the next one starts with nothing of it left.
FreshTest ==
  /\ step' = 1 /\ Rest /\ tally' = NoTally /\ outcome' = "running"
  /\ ids' = <<>> /\ fails' = <<>> /\ first' = 0 /\ Forget
  /\ UNCHANGED <<polling, flight, strays, report>>

\* e2e-test.js counts a test that failed; its preflight is none.
Counted == script = "e2e" /\ suite > 1
EndsWell == outcome = "running" /\ step > Len(Tests[test])

EndTest ==
  /\ InTest
  /\ EndsWell \/ (outcome = "failed" /\ Counted)
  /\ IF Counted THEN RunTest(EndsWell) /\ RunSuite(EndsWell, test = Len(Tests))
     ELSE UNCHANGED countVars
  /\ IF test = Len(Tests) THEN suite' = suite + 1 /\ test' = 1
     ELSE suite' = suite /\ test' = test + 1
  /\ FreshTest
  /\ UNCHANGED <<script, exit>>

\* The others end with the first test that fails.
Quit ==
  /\ InTest
  /\ outcome = "quit" \/ (outcome = "failed" /\ ~Counted)
  /\ exit' = "1"
  /\ UNCHANGED <<serverVars, clientVars, countVars, script, suite, test>>

Conclude ==
  /\ exit = "running" /\ suite > Len(AllSuites)
  /\ exit' = IF script = "e2e" THEN E2EExit ELSE "0"
  /\ UNCHANGED <<serverVars, clientVars, countVars, script, suite, test>>

ScriptNext == DoStep \/ EndTest \/ Quit \/ Conclude

\* What happens while the script waits.
Meanwhile ==
  /\ exit = "running"
  /\ \/ /\ ServerStep /\ UNCHANGED clientVars
        /\ \A i \in repeated' \ repeated : <<script, suite, test, i>> \in Disturbed
     \/ StrayLands
  /\ UNCHANGED <<countVars, placeVars>>

Next == ScriptNext \/ Meanwhile

Spec == Init /\ [][Next]_vars

-----------------------------------------------------------------------------
(* What the reports say is so.                                             *)

\* A job reported to have "bypassed execution" (test-runner.js:341,
\* scalability-test.js:580) has never been executed, however often it was put off
\* and queued again between the answer that created it and the look at its row;
\* unless it was repeated: an old copy hides the attempts its row has counted.
BypassIsTrue ==
  [][("bypassed" \in report' /\ "bypassed" \notin report)
       => LastId \notin started \/ LastId \in repeated]_vars

AllAreDone ==
  \A k \in 1 .. Len(ids) :
    /\ ids[k] # NoId /\ ids[k] \in started
    /\ ids[k] \notin repeated => status[ids[k]] = "COMPLETED"

\* When every job is reported COMPLETED, every one has been executed, and is
\* COMPLETED at that moment although they were looked at one after the other; a
\* repeated job may have left COMPLETED again since it was looked at.
CompletionIsTrue ==
  [][InStep =>
       /\ ("recovered" \in report' /\ "recovered" \notin report) => AllAreDone
       /\ \/ Current.op = "scan" /\ Current.judge \in {"all", "until"}
          \/ Current.op \in {"get", "poll"} /\ Current.expect = {"COMPLETED"}
          => (step' = step + 1 => AllAreDone)]_vars

\* The numbers of e2e-test.js add up: the totals are those of the suites that
\* have ended and of the one under way, and the exit code tells a failure.
ReportAddsUp ==
  /\ passed = sumPassed + suitePassed
  /\ failed = sumFailed + suiteFailed
  /\ Counted /\ InTest => suitePassed + suiteFailed = test - 1
  /\ script = "e2e" /\ exit = "0" => failed = 0

\* The row of a fixed-rate level accounts for every request of that level and no
\* other, while answers of earlier levels still arrive.
RateRowIsItsOwn ==
  InStep /\ Current.op = "rate" => tally.ok + tally.bad + flight = n

\* The reported threshold is the first level with a failure, found at the end
\* in one script and on the way in the other.
ThresholdIsFirst ==
  /\ first # 0 => fails[first] > 0 /\ \A l \in 1 .. first - 1 : fails[l] = 0
  /\ script = "scale" /\ first = 0 => \A l \in 1 .. Len(fails) : fails[l] = 0

\* The waves of phase 2 do not "hit rate-limiter" (scalability-test.js:325), as
\* long as no other LOG job is about, the script has given up on none, and none
\* of its own has been repeated: a second message asks the limiter again.
WavesWithinLimit ==
  [][InStep /\ Current.op = "wave" /\ ~others /\ tally.retry = 0 /\ repeated = {}
       => \A i \in Ids : ~(status[i] = "QUEUED" /\ status'[i] = "RETRY")]_vars

\* No test is run against a server that was never found healthy: "Server not
\* healthy after 60s - aborting" (scalability-test.js:189), and likewise at
\* test-runner.js:64 and e2e-test.js:556.
Healthy == suite > 1 \/ test > 1 \/ step > 1 => "healthy" \in report

\* Two of the scripts keep to it, whichever way the last attempt fails.
HealthGate == script # "scale" => Healthy
=============================================================================
