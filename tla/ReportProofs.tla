---------------------------- MODULE ReportProofs ----------------------------
(***************************************************************************)
(* Two reports of the scripts that rest on what the service does between   *)
(* their steps: "all completed" after looks at one job after the other,    *)
(* and the waves of phase 2, which are not to meet the rate limiter.       *)
(***************************************************************************)
EXTENDS TestBenchProofs, FiniteSetTheorems

(***************************************************************************)
(* Which action a kind of step is.                                         *)
(***************************************************************************)

LEMMA ActionKinds ==
  ASSUME NEW s
  PROVE  /\ DoPost(s) => s.op = "post"
         /\ DoBurst(s) => s.op = "burst"
         /\ DoSpike(s) => s.op = "spike"
         /\ FindThreshold(s) => s.op = "find"
         /\ DoAsk(s) => s.op = "ask"
         /\ DoCancel(s) => s.op = "cancel"
         /\ FallAsleep(s) \/ WakeUp(s) => s.op = "nap"
         /\ DoGet(s) => s.op = "get"
         /\ PollSample(s) \/ PollTimeout(s) => s.op = "poll"
         /\ ScanRead(s) \/ ScanJudge(s) => s.op = "scan"
         /\ DoHealth(s) => s.op = "health"
         /\ DrainSample(s) => s.op = "drain"
         /\ WavePost(s) \/ WaveEnd(s) => s.op = "wave"
         /\ (\E i \in Ids : WaveFinished(s, i) \/ WaveTimeout(s, i)) => s.op = "wave"
         /\ RateSend(s) \/ RateAnswer(s) \/ RateStop(s) \/ RateEnd(s) => s.op = "rate"
         /\ Summary(s) => s.op = "summary"
<1>1. /\ DoPost(s) => s.op = "post"
      /\ DoBurst(s) => s.op = "burst"
      /\ DoSpike(s) => s.op = "spike"
      /\ FindThreshold(s) => s.op = "find"
      /\ DoAsk(s) => s.op = "ask"
      /\ DoCancel(s) => s.op = "cancel"
      /\ FallAsleep(s) \/ WakeUp(s) => s.op = "nap"
  BY DEF DoPost, DoBurst, DoSpike, FindThreshold, DoAsk, DoCancel, FallAsleep, WakeUp
<1>2. /\ DoGet(s) => s.op = "get"
      /\ PollSample(s) \/ PollTimeout(s) => s.op = "poll"
      /\ ScanRead(s) \/ ScanJudge(s) => s.op = "scan"
      /\ DoHealth(s) => s.op = "health"
      /\ DrainSample(s) => s.op = "drain"
  BY DEF DoGet, PollSample, PollTimeout, ScanRead, ScanJudge, DoHealth, DrainSample
<1>3. /\ WavePost(s) \/ WaveEnd(s) => s.op = "wave"
      /\ (\E i \in Ids : WaveFinished(s, i) \/ WaveTimeout(s, i)) => s.op = "wave"
      /\ RateSend(s) \/ RateAnswer(s) \/ RateStop(s) \/ RateEnd(s) => s.op = "rate"
      /\ Summary(s) => s.op = "summary"
  BY DEF WavePost, WaveEnd, WaveFinished, WaveTimeout, RateSend, RateAnswer, RateStop,
         RateEnd, Summary
<1> QED BY <1>1, <1>2, <1>3

LEMMA KindActions ==
  ASSUME NEW s, ClientStep(s) \/ ScaleStep(s)
  PROVE  /\ s.op = "post" => DoPost(s)
         /\ s.op = "spike" => DoSpike(s)
         /\ s.op = "ask" => DoAsk(s)
         /\ s.op = "nap" => FallAsleep(s) \/ WakeUp(s)
         /\ s.op = "get" => DoGet(s)
         /\ s.op = "poll" => PollSample(s) \/ PollTimeout(s)
         /\ s.op = "scan" => ScanRead(s) \/ ScanJudge(s)
         /\ s.op = "health" => DoHealth(s)
         /\ s.op = "drain" => DrainSample(s)
         /\ s.op = "wave" => \/ WavePost(s) \/ WaveEnd(s)
                             \/ \E i \in Ids : WaveFinished(s, i) \/ WaveTimeout(s, i)
BY ActionKinds DEF ClientStep, ScaleStep

\* A step stays what it is, or the next one begins with nothing of it left; only
\* a sleep and a wave hand on what was counted.
Stays == step' = step
Begins(s) ==
  /\ step' \in {step + 1, step + 3} /\ Rest
  /\ tally' = NoTally \/ (s.op \in {"nap", "wave"} /\ tally' = tally)

LEMMA StaysOrBegins ==
  ASSUME NEW s, ClientStep(s) \/ ScaleStep(s)
  PROVE  Stays \/ Begins(s)
<1>1. ASSUME NEW ok, Judge(ok) PROVE Stays \/ Begins(s)
  BY <1>1 DEF Judge, Proceed, Fail, Stop, Stays, Begins
<1>2. ASSUME NEW ok, NEW t, Counting(s, ok, t) PROVE Stays \/ Begins(s)
  BY <1>1, <1>2 DEF Counting, Stays
<1>3. \/ Proceed \/ SkipTwo \/ Once \/ Fail \/ Again \/ Stop("quit") => Stays \/ Begins(s)
  BY DEF Proceed, SkipTwo, Once, Fail, Stop, Again, Stays, Begins
<1>4. s.op \in {"nap", "wave"} /\ ProceedCounting => Begins(s)
  BY DEF ProceedCounting, Begins
<1>5. CASE DoPost(s) \/ DoBurst(s) \/ DoSpike(s) \/ FindThreshold(s)
  BY <1>2, <1>3, <1>5 DEF DoPost, DoBurst, DoSpike, FindThreshold
<1>6. CASE DoAsk(s) \/ DoCancel(s) \/ FallAsleep(s) \/ WakeUp(s) \/ DoHealth(s)
  BY <1>1, <1>3, <1>4, <1>6 DEF DoAsk, DoCancel, FallAsleep, WakeUp, DoHealth
<1>7. CASE DoGet(s) \/ PollSample(s) \/ PollTimeout(s) \/ ScanRead(s) \/ ScanJudge(s)
  BY <1>1, <1>3, <1>7 DEF DoGet, PollSample, PollTimeout, ScanRead, ScanJudge, Throws, Stays
<1>8. CASE ScaleStep(s)
  BY <1>3, <1>4, <1>8
     DEF ScaleStep, DrainSample, WavePost, WaveEnd, WaveFinished, WaveTimeout, RateSend,
         RateAnswer, RateStop, RateEnd, Summary, Stays
<1> QED BY <1>5, <1>6, <1>7, <1>8 DEF ClientStep

\* The kinds of step that count.
Counters == {"burst", "spike", "scan", "rate", "wave"}

LEMMA OthersCountNothing ==
  ASSUME NEW s, ClientStep(s) \/ ScaleStep(s), s.op \notin Counters, step' = step, step \in Nat
  PROVE  tally' = tally
<1>1. ASSUME NEW ok, Judge(ok) PROVE tally' = tally
  BY <1>1 DEF Judge, Proceed, Fail, Stop
<1>2. ASSUME NEW ok, Counting(s, ok, tally) PROVE tally' = tally
  BY <1>1, <1>2 DEF Counting
<1>3. \/ Proceed \/ Once \/ Fail \/ ProceedCounting \/ Stop("quit") => tally' = tally
  BY DEF Proceed, Once, Fail, Stop, ProceedCounting
<1>4. CASE DoPost(s) \/ FindThreshold(s)
  BY <1>2, <1>3, <1>4 DEF DoPost, FindThreshold
<1>5. CASE DoAsk(s) \/ DoCancel(s) \/ FallAsleep(s) \/ WakeUp(s) \/ DoHealth(s)
  BY <1>1, <1>3, <1>5 DEF DoAsk, DoCancel, FallAsleep, WakeUp, DoHealth
<1>6. CASE DoGet(s) \/ PollSample(s) \/ PollTimeout(s)
  BY <1>1, <1>3, <1>6 DEF DoGet, PollSample, PollTimeout, Throws
<1>7. CASE DrainSample(s) \/ Summary(s)
  BY <1>3, <1>7 DEF DrainSample, Summary
<1> QED BY <1>4, <1>5, <1>6, <1>7, ActionKinds DEF ClientStep, ScaleStep, Counters

(***************************************************************************)
(* What the tables say of steps that look for COMPLETED.                   *)
(***************************************************************************)

InWaves == script = "scale" /\ suite = 1 /\ test = 2

LooksForCompleted(s) == s.op \in {"get", "poll"} /\ s.expect = {"COMPLETED"}

\* A test that creates one job and looks at it.
FollowsOne(T) ==
  /\ Len(T) \in Nat \ {0} /\ T[1].op = "post" /\ T[1].size = 1
  /\ \A k \in 2 .. Len(T) : T[k].op \in {"nap", "get", "poll"}

\* Who insists on COMPLETED follows one job, and a poll waits for it; only phase
\* 2 has waves.
Plain(s) == s.op # "wave" /\ ~LooksForCompleted(s)
SoundLook(T) ==
  \A k \in 1 .. Len(T) :
    /\ T[k].op # "wave"
    /\ LooksForCompleted(T[k]) =>
         FollowsOne(T) /\ (T[k].op = "poll" => T[k].target = {"COMPLETED"})

LEMMA LookKinds ==
  /\ \A e, j : Get(e, j).expect = e /\ Caught(Get(e, j)).expect = e
  /\ \A t, e, z, j : Poll(t, e, z, j).expect = e /\ Poll(t, e, z, j).target = t
  /\ \A k, a, p, e : Post(k, a, p, e).size = 1
<1>1. \A e, j : Get(e, j).expect = e /\ Caught(Get(e, j)).expect = e
  BY DEF Get, Caught, Step
<1>2. \A t, e, z, j : Poll(t, e, z, j).expect = e /\ Poll(t, e, z, j).target = t
  BY DEF Poll, Step
<1>3. \A k, a, p, e : Post(k, a, p, e).size = 1
  BY DEF Post, Step
<1> QED BY <1>1, <1>2, <1>3

\* The steps the tables are made of that insist on nothing.
LEMMA PlainKinds ==
  /\ \A s : s.op \in {"health", "ask", "scan", "burst", "spike", "post", "cancel", "rate",
                      "drain", "nap", "find", "summary"} => Plain(s)
  /\ \A e, j : e # {"COMPLETED"} => Plain(Get(e, j)) /\ Plain(Caught(Get(e, j)))
  /\ \A t, e, z, j : e # {"COMPLETED"} => Plain(Poll(t, e, z, j))
BY StepKinds, LookKinds DEF Plain, LooksForCompleted

LEMMA PlainIsSound == ASSUME NEW T, \A k \in 1 .. Len(T) : Plain(T[k]) PROVE SoundLook(T)
BY DEF Plain, SoundLook

LEMMA ExpectedSets ==
  /\ {} # {"COMPLETED"} /\ Statuses # {"COMPLETED"}
  /\ {"PENDING", "SCHEDULED"} # {"COMPLETED"}
  /\ {"CANCELLED", "COMPLETED"} # {"COMPLETED"}
  /\ {"COMPLETED", "RETRY"} # {"COMPLETED"}
  /\ {"RETRY", "FAILED"} # {"COMPLETED"}
  /\ {"RETRY", "FAILED", "PROCESSING", "QUEUED"} # {"COMPLETED"}
<1>1. "PENDING" \in Statuses
  BY DEF Statuses
<1> QED BY <1>1

LEMMA RunnerLooks == \A t \in 1 .. 7 : SoundLook(RunnerTests[t])
<1> USE PlainKinds, StepKinds, ExpectedSets
<1>1. SoundLook(WaitForServer) /\ SoundLook(CancellationTest)
  <2>1. \A k \in 1 .. Len(WaitForServer) : Plain(WaitForServer[k])
    BY DEF WaitForServer
  <2>2. \A k \in 1 .. Len(CancellationTest) : Plain(CancellationTest[k])
    BY DEF CancellationTest
  <2> QED BY <2>1, <2>2, PlainIsSound
<1>2. SoundLook(RateLimitingAndRetryTest) /\ SoundLook(CircuitBreakerTest)
  <2>1. \A k \in 1 .. Len(RateLimitingAndRetryTest) : Plain(RateLimitingAndRetryTest[k])
    BY DEF RateLimitingAndRetryTest
  <2>2. \A k \in 1 .. Len(CircuitBreakerTest) : Plain(CircuitBreakerTest[k])
    BY DEF CircuitBreakerTest
  <2> QED BY <2>1, <2>2, PlainIsSound
<1>3. SoundLook(StressTest)
  BY LevelTable, PlainIsSound
<1>4. SoundLook(ImmediateJobTest)
  BY LookKinds DEF ImmediateJobTest, SoundLook, FollowsOne
<1>5. SoundLook(ScheduledJobTest)
  BY LookKinds DEF ScheduledJobTest, SoundLook, FollowsOne
<1> QED BY <1>1, <1>2, <1>3, <1>4, <1>5 DEF RunnerTests

SoundSuite(S) == \A t \in 1 .. Len(S) : SoundLook(S[t])
PlainTests(S) == \A t \in 1 .. Len(S) : \A k \in 1 .. Len(S[t]) : Plain(S[t][k])

LEMMA SuiteLooks == \A u \in 1 .. 11 : SoundSuite(E2ESuites[u])
<1> USE PlainKinds, StepKinds, ExpectedSets
<1>1. ASSUME NEW S, PlainTests(S)
      PROVE  SoundSuite(S)
  BY <1>1, PlainIsSound DEF SoundSuite, PlainTests
<1>2. PlainTests(Preflight) /\ PlainTests(Suite6RateLimiter)
  BY DEF Preflight, Suite6RateLimiter, PlainTests
<1>3. PlainTests(Suite1ApiValidation)
  <2>1. Len(Suite1ApiValidation) = 9
    BY DEF Suite1ApiValidation
  <2>2. \A k \in 1 .. Len(Asked) : Plain(Asked[k])
    BY DEF Asked
  <2>3. ASSUME NEW t \in {2, 3, 4, 6, 7, 9}
        PROVE  Suite1ApiValidation[t] = Asked
    BY DEF Suite1ApiValidation
  <2>4. ASSUME NEW t \in {1, 5, 8}, NEW k \in 1 .. Len(Suite1ApiValidation[t])
        PROVE  Plain(Suite1ApiValidation[t][k])
    <3>1. CASE t = 1
      BY <2>4, <3>1 DEF Suite1ApiValidation
    <3>2. CASE t = 5
      <4>1. Suite1ApiValidation[t] = <<Post("log", 0, "lax", {}), Get(Statuses, "none")>>
        BY <3>2 DEF Suite1ApiValidation
      <4> QED BY <2>4, <4>1
    <3>3. CASE t = 8
      <4>1. Suite1ApiValidation[t] = <<Post("log", 0, "lax", {}), Cancel("assert")>>
        BY <3>3 DEF Suite1ApiValidation
      <4> QED BY <2>4, <4>1
    <3> QED BY <2>4, <3>1, <3>2, <3>3
  <2> QED BY <2>1, <2>2, <2>3, <2>4 DEF PlainTests
<1>4. SoundSuite(Suite2LogLifecycle)
  <2>1. SoundLook(Suite2LogLifecycle[1])
    BY LookKinds DEF Suite2LogLifecycle, SoundLook, FollowsOne
  <2>2. \A k \in 1 .. Len(Suite2LogLifecycle[2]) : Plain(Suite2LogLifecycle[2][k])
    BY DEF Suite2LogLifecycle
  <2>3. Len(Suite2LogLifecycle) = 2
    BY DEF Suite2LogLifecycle
  <2> QED BY <2>1, <2>2, <2>3, PlainIsSound DEF SoundSuite
<1>5. PlainTests(Suite3ApiLifecycle)
  <2>1. Plain(Poll({"COMPLETED", "RETRY", "FAILED"}, {"COMPLETED", "RETRY"}, Polls, "none"))
    OBVIOUS
  <2>2. Plain(Poll({"RETRY", "FAILED"}, {"RETRY", "FAILED"}, Polls, "none"))
    OBVIOUS
  <2>3. Plain(Post("api", 0, "assert", {})) /\ Plain(Post("bad", 0, "assert", {}))
    OBVIOUS
  <2> HIDE PlainKinds, StepKinds, ExpectedSets
  <2> QED BY <2>1, <2>2, <2>3 DEF Suite3ApiLifecycle, PlainTests
<1>6. PlainTests(Suite4ScheduledJob)
  <2>1. Plain(Get({"PENDING", "SCHEDULED"}, "none"))
    OBVIOUS
  <2>2. Plain(Post("log", 2, "assert", {"PENDING"})) /\ Plain(Nap)
    OBVIOUS
  <2>3. Plain(Post("log", 0, "assert", {"QUEUED", "PROCESSING", "COMPLETED"}))
    OBVIOUS
  <2> HIDE PlainKinds, StepKinds, ExpectedSets
  <2> QED BY <2>1, <2>2, <2>3 DEF Suite4ScheduledJob, PlainTests
<1>7. PlainTests(Suite5Cancellation)
  <2>1. Plain(Get({"CANCELLED", "COMPLETED"}, "none"))
    OBVIOUS
  <2>2. Plain(Post("log", 5, "assert", {})) /\ Plain(Post("log", 0, "lax", {}))
    OBVIOUS
  <2>3. Plain(Cancel("assert")) /\ Plain(Nap)
    OBVIOUS
  <2> HIDE PlainKinds, StepKinds, ExpectedSets
  <2> QED BY <2>1, <2>2, <2>3 DEF Suite5Cancellation, PlainTests
<1>8. PlainTests(Suite7RetryBackoff)
  <2>1. Plain(Get({"RETRY", "FAILED", "PROCESSING", "QUEUED"}, "none"))
    OBVIOUS
  <2>2. Plain(Poll({"FAILED"}, {"RETRY", "FAILED"}, Polls, "exhausted"))
    OBVIOUS
  <2>3. Plain(Post("bad", 0, "assert", {})) /\ Plain(Nap)
    OBVIOUS
  <2> HIDE PlainKinds, StepKinds, ExpectedSets
  <2> QED BY <2>1, <2>2, <2>3 DEF Suite7RetryBackoff, PlainTests
<1>9. PlainTests(Suite9Stats)
  BY DEF Suite9Stats, PlainTests
<1>10. PlainTests(Suite10ConcurrencyStress)
  BY DEF Suite10ConcurrencyStress, PlainTests
<1>11. PlainTests(Suite8CircuitBreaker)
  BY DEF Suite8CircuitBreaker, PlainTests
<1> QED BY <1>1, <1>2, <1>3, <1>4, <1>5, <1>6, <1>7, <1>8, <1>9, <1>10, <1>11 DEF E2ESuites

LEMMA ScaleLooks == \A t \in 1 .. 8 : t # 2 => SoundLook(ScalePhases[t])
<1> USE PlainKinds, StepKinds, ExpectedSets
<1>1. \A k \in 1 .. Len(Phase0Warmup) : Plain(Phase0Warmup[k])
  BY DEF Phase0Warmup
<1>2. \A k \in 1 .. Len(Phase1SustainedThroughput) : Plain(Phase1SustainedThroughput[k])
  BY RateTable
<1>3. \A k \in 1 .. Len(Phase3ConcurrencyStress) : Plain(Phase3ConcurrencyStress[k])
  BY StressTable
<1>4. \A k \in 1 .. Len(Phase4RateLimiter) : Plain(Phase4RateLimiter[k])
  BY DEF Phase4RateLimiter
<1>5. \A k \in 1 .. Len(Phase4CircuitBreaker) : Plain(Phase4CircuitBreaker[k])
  BY DEF Phase4CircuitBreaker
<1>6. \A k \in 1 .. Len(Phase4Cancellation) : Plain(Phase4Cancellation[k])
  BY DEF Phase4Cancellation
<1>7. \A k \in 1 .. Len(Conclusion) : Plain(Conclusion[k])
  BY DEF Conclusion
<1> QED BY <1>1, <1>2, <1>3, <1>4, <1>5, <1>6, <1>7, PlainIsSound DEF ScalePhases

\* Where a script is, in terms of its tables.
LEMMA CurrentPlace ==
  ASSUME Typed, PlaceInv, InStep
  PROVE  /\ suite \in 1 .. Len(AllSuites) /\ test \in 1 .. Len(Tests)
         /\ step \in 1 .. Len(Tests[test])
BY SuitesHaveTests
   DEF Typed, PlaceOK, StepTypeOK, ProgressOK, PlaceInv, InStep, InTest, Tests

LEMMA CurrentLooks ==
  ASSUME Typed, PlaceInv, InStep, ~InWaves
  PROVE  /\ Current.op # "wave"
         /\ LooksForCompleted(Current) =>
              FollowsOne(Tests[test]) /\ (Current.op = "poll" => Current.target = {"COMPLETED"})
<1>1. SoundLook(Tests[test])
  <2>1. CASE script = "runner"
    <3>1. AllSuites = <<RunnerTests>>
      BY <2>1 DEF AllSuites, Suites
    <3>2. Tests = RunnerTests
      BY <3>1, CurrentPlace DEF Tests
    <3> QED BY <3>2, CurrentPlace, RunnerLooks, RunnerTable
  <2>2. CASE script = "e2e"
    <3>1. AllSuites = E2ESuites
      BY <2>2 DEF AllSuites, Suites
    <3>2. SoundSuite(Tests)
      BY <3>1, CurrentPlace, SuiteLooks, SuiteTable DEF Tests
    <3> QED BY <3>2, CurrentPlace DEF SoundSuite
  <2>3. CASE script = "scale"
    <3>1. AllSuites = <<ScalePhases>>
      BY <2>3 DEF AllSuites, Suites
    <3>2. suite = 1 /\ Tests = ScalePhases
      BY <3>1, CurrentPlace DEF Tests
    <3>3. test \in 1 .. 8 /\ test # 2
      BY <2>3, <3>2, CurrentPlace, ScaleTable DEF InWaves
    <3> QED BY <3>2, <3>3, ScaleLooks
  <2> QED BY <2>1, <2>2, <2>3, BenchAssumption DEF Typed, PlaceOK
<1> QED BY <1>1, CurrentPlace DEF SoundLook, Current

LEMMA CurrentInWaves ==
  ASSUME Typed, PlaceInv, InStep, InWaves
  PROVE  Tests[test] = Phase2E2ELatency /\ Current.op \in {"drain", "wave", "nap"}
<1>1. AllSuites = <<ScalePhases>>
  BY DEF AllSuites, Suites, InWaves
<1>2. Tests = ScalePhases
  BY <1>1 DEF Tests, InWaves
<1>3. Tests[test] = Phase2E2ELatency
  BY <1>2 DEF InWaves, ScalePhases
<1> QED BY <1>3, CurrentPlace, WaveTable DEF Current

(***************************************************************************)
(* "All completed".                                                        *)
(***************************************************************************)

IsDone(i) == /\ i # NoId /\ i \in started
             /\ i \notin repeated => status[i] = "COMPLETED"

\* A look at one job after the other begins with nothing counted, and every job
\* counted so far is done, which it stays.
CountInv ==
  InStep /\ ~InWaves =>
    /\ Current.op \notin Counters => tally = NoTally
    /\ Current.op = "scan" =>
         /\ n <= Len(ids) /\ tally.ok <= n
         /\ tally.ok = n => \A k \in 1 .. n : IsDone(ids[k])

\* A poll that waits for COMPLETED has not seen it in a sample before.
PollInv ==
  InStep /\ ~InWaves /\ Current.op = "poll" /\ LooksForCompleted(Current) => last # "COMPLETED"

\* A test that follows one job has no more than one.
FollowInv ==
  InStep /\ FollowsOne(Tests[test]) => IF step = 1 THEN ids = <<>> ELSE Len(ids) <= 1

CompletionInv == CountInv /\ PollInv /\ FollowInv /\ Shows

\* A job seen COMPLETED has been executed.
LEMMA SeenCompleted ==
  ASSUME Shows, NEW i \in Ids \cup {NoId}, "COMPLETED" \in Reads(i)
  PROVE  IsDone(i)
<1>1. i # NoId /\ status[i] = "COMPLETED"
  BY DEF Reads, Seen
<1> QED BY <1>1 DEF Shows, IsDone

\* COMPLETED is final for a job that is not repeated, and what has been executed
\* remains so.
LEMMA DoneStays ==
  ASSUME JobsTypeOK, ServerStep, NEW i \in Ids, IsDone(i)
  PROVE  IsDone(i)'
<1>1. CASE \E k \in Ids : LookForFlag(k) \/ HonourFlag(k) \/ EndAttempt(k) \/ MoveOn(k)
                          \/ DeferJob(k) \/ StartJob(k)
  <2> PICK k \in Ids : LookForFlag(k) \/ HonourFlag(k) \/ EndAttempt(k) \/ MoveOn(k)
                       \/ DeferJob(k) \/ StartJob(k)
    BY <1>1
  <2>1. repeated' = repeated /\ (i \in started => i \in started')
    BY DEF LookForFlag, HonourFlag, EndAttempt, MoveOn, DeferJob, StartJob
  <2>2. CASE LookForFlag(k)
    BY <2>1, <2>2 DEF LookForFlag, IsDone
  <2>3. CASE HonourFlag(k) \/ EndAttempt(k) \/ MoveOn(k) \/ DeferJob(k) \/ StartJob(k)
    <3>1. \/ Life!Schedule(k) \/ Life!Enqueue(k) \/ Life!Start(k) \/ Life!Defer(k)
          \/ Life!Cancel(k) \/ Life!Complete(k) \/ Life!Retry(k) \/ Life!GiveUp(k)
      BY <2>3 DEF HonourFlag, EndAttempt, MoveOn, DeferJob, StartJob
    <3>2. status[k] # "COMPLETED" /\ \E to : status' = [status EXCEPT ![k] = to]
      BY <3>1 DEF Life!Schedule, Life!Enqueue, Life!Start, Life!Defer, Life!Cancel,
                  Life!Complete, Life!Retry, Life!GiveUp, Life!Move
    <3>3. status[i] = "COMPLETED" => status'[i] = "COMPLETED"
      BY <3>2 DEF JobsTypeOK
    <3> QED BY <2>1, <3>3 DEF IsDone
  <2> QED BY <2>2, <2>3
<1>2. CASE \E k \in Ids : AgainStep(k)
  <2> PICK k \in Ids : AgainStep(k)
    BY <1>2
  <2>1. repeated' = repeated \cup {k} /\ (i \in started => i \in started')
    BY AgainChanges
  <2>2. i # k => status'[i] = status[i]
    BY AgainChanges, CopyTypes
  <2> QED BY <2>1, <2>2 DEF IsDone
<1>3. CASE SlideWindow \/ OtherComes \/ OtherStarts \/ OthersGone
  BY <1>3 DEF SlideWindow, OtherComes, OtherStarts, OthersGone, jobVars, IsDone
<1> QED BY <1>1, <1>2, <1>3 DEF ServerStep

LEMMA ScanKeepsCount ==
  ASSUME Typed, CountInv, Shows, InStep, ~InWaves, Current.op = "scan",
         ScanRead(Current) \/ ScanJudge(Current), Stays, outcome' = "running"
  PROVE  /\ n' <= Len(ids') /\ tally'.ok <= n'
         /\ tally'.ok = n' => \A k \in 1 .. n' : IsDone(ids[k])'
<1>1. /\ n \in Nat /\ tally \in Tallies /\ tally.ok \in Nat /\ Len(ids) \in Nat /\ step \in Nat
      /\ n <= Len(ids) /\ tally.ok <= n
      /\ tally.ok = n => \A k \in 1 .. n : IsDone(ids[k])
  BY DEF Typed, StepTypeOK, ProgressOK, IdsOK, Tallies, CountInv
<1>2. UNCHANGED <<status, started, repeated, ids>>
  BY DEF ScanRead, ScanJudge, serverVars, jobVars
<1>3. outcome = "running"
  BY DEF InStep
<1>4. CASE ScanJudge(Current)
  <2>1. ASSUME NEW ok, Judge(ok) PROVE FALSE
    BY <1>1, <2>1 DEF Judge, Proceed, Fail, Stop, Stays
  <2>2. Proceed \/ SkipTwo => FALSE
    BY <1>1 DEF Proceed, SkipTwo, Stays
  <2>3. Again
    BY <1>4, <2>1, <2>2 DEF ScanJudge
  <2>4. n' = 0 /\ tally'.ok = 0
    BY <2>3 DEF Again, NoTally
  <2> QED BY <1>1, <1>2, <2>4
<1>5. CASE ScanRead(Current)
  <2>1. PICK r \in Reads(ids[n + 1]) :
          /\ n' = n + 1
          /\ tally' = CASE r = "COMPLETED" -> Add("ok")
                        [] r = "RETRY" -> Add("retry")
                        [] r = "FAILED" -> Add("bad")
                        [] OTHER -> tally
    BY <1>5 DEF ScanRead, Throws, Fail, Stop
  <2>2. n < Len(ids)
    BY <1>5 DEF ScanRead
  <2>3. CASE r = "COMPLETED"
    <3>1. tally' = Add("ok")
      BY <2>1, <2>3
    <3>2. tally'.ok = tally.ok + 1
      BY <1>1, <3>1 DEF Add, Tallies
    <3>3. IsDone(ids[n + 1])
      <4>1. ids[n + 1] \in Ids \cup {NoId}
        BY <1>1, <2>2 DEF Typed, StepTypeOK, IdsOK
      <4> QED BY <2>1, <2>3, <4>1, SeenCompleted
    <3>4. \A k \in 1 .. n + 1 : k \in 1 .. n \/ k = n + 1
      BY <1>1
    <3> QED BY <1>1, <1>2, <2>1, <2>2, <3>2, <3>3, <3>4 DEF IsDone
  <2>4. CASE r # "COMPLETED"
    <3>1. tally' \in {Add("retry"), Add("bad"), tally}
      BY <2>1, <2>4
    <3>2. tally'.ok = tally.ok
      BY <1>1, <3>1 DEF Add, Tallies
    <3> QED BY <1>1, <1>2, <2>1, <2>2, <3>2
  <2> QED BY <2>3, <2>4
<1> QED BY <1>4, <1>5

LEMMA DoStepKeepsCompletion ==
  ASSUME Typed, PlaceInv, CompletionInv, DoStep
  PROVE  CompletionInv'
<1>1. /\ InStep
      /\ ClientStep(Current) \/ ScaleStep(Current)
      /\ UNCHANGED <<script, suite, test, exit>>
      /\ Tests' = Tests /\ InWaves' = InWaves
  BY DEF DoStep, placeVars, Tests, AllSuites, InWaves
<1>2. step \in Nat \ {0} /\ n \in Nat /\ Len(ids) \in Nat
  BY DEF Typed, StepTypeOK, ProgressOK, IdsOK, PlaceInv
<1>3. Stays => Current' = Current
  BY <1>1 DEF Stays, Current
<1>4. CountInv'
  <2> SUFFICES ASSUME InStep', ~InWaves' PROVE
        /\ Current'.op \notin Counters => tally' = NoTally
        /\ Current'.op = "scan" =>
             /\ n' <= Len(ids') /\ tally'.ok <= n'
             /\ tally'.ok = n' => \A k \in 1 .. n' : IsDone(ids[k])'
    BY DEF CountInv, IsDone
  <2>1. CASE Stays
    <3>1. Current.op \notin Counters => tally' = NoTally
      BY <1>1, <1>2, <2>1, OthersCountNothing DEF CompletionInv, CountInv, Stays
    <3>2. CASE Current.op = "scan"
      BY <1>1, <1>3, <2>1, <3>1, <3>2, KindActions, ScanKeepsCount DEF CompletionInv, InStep
    <3> QED BY <1>3, <2>1, <3>1, <3>2
  <2>2. CASE Begins(Current)
    <3>1. Current.op # "wave"
      BY <1>1, CurrentLooks
    <3>2. tally' = NoTally
      BY <1>1, <2>2, <3>1 DEF Begins, CompletionInv, CountInv, Counters
    <3>3. ids' \in Seq(Ids \cup {NoId})
      BY NextKeepsTypes DEF Next, ScriptNext, Typed, StepTypeOK, IdsOK
    <3>4. n' = 0 /\ tally'.ok = 0 /\ Len(ids') \in Nat
      BY <2>2, <3>2, <3>3 DEF Begins, Rest, NoTally
    <3> QED BY <3>2, <3>4
  <2> QED BY <1>1, <2>1, <2>2, StaysOrBegins
<1>5. PollInv'
  <2> SUFFICES ASSUME InStep', ~InWaves', Current'.op = "poll", LooksForCompleted(Current)'
               PROVE  last' # "COMPLETED"
    BY DEF PollInv
  <2>1. CASE Stays
    <3>1. Current.op = "poll" /\ LooksForCompleted(Current) /\ Current.target = {"COMPLETED"}
      BY <1>1, <1>3, <2>1, CurrentLooks DEF LooksForCompleted
    <3>2. last # "COMPLETED"
      BY <1>1, <3>1 DEF CompletionInv, PollInv
    <3>3. PollSample(Current) \/ PollTimeout(Current)
      BY <1>1, <3>1, KindActions
    <3>4. ASSUME NEW ok, Judge(ok) PROVE FALSE
      BY <1>2, <2>1, <3>4 DEF Judge, Proceed, Fail, Stop, Stays, InStep
    <3>5. ~Fail
      BY DEF Fail, Stop, InStep
    <3> QED BY <3>1, <3>2, <3>3, <3>4, <3>5 DEF PollSample, PollTimeout, Throws
  <2>2. CASE Begins(Current)
    BY <2>2 DEF Begins, Rest
  <2> QED BY <1>1, <2>1, <2>2, StaysOrBegins
<1>6. FollowInv'
  <2> SUFFICES ASSUME InStep', FollowsOne(Tests[test])
               PROVE  IF step' = 1 THEN ids' = <<>> ELSE Len(ids') <= 1
    BY <1>1 DEF FollowInv
  <2>1. IF step = 1 THEN ids = <<>> ELSE Len(ids) <= 1
    BY <1>1 DEF CompletionInv, FollowInv
  <2>2. step \in 1 .. Len(Tests[test])
    BY <1>1, CurrentPlace
  <2>3. CASE step = 1
    <3>1. Current.op = "post" /\ Current.size = 1
      BY <2>3 DEF Current, FollowsOne
    <3>2. DoPost(Current)
      BY <1>1, <3>1, KindActions
    <3>3. \E t : Counting(Current, TRUE, t)
      BY <3>2 DEF DoPost, Fail, Stop, InStep
    <3>4. step' = 2
      BY <1>2, <2>3, <3>1, <3>3 DEF Counting, Judge, Proceed
    <3>5. ids = <<>>
      BY <2>1, <2>3
    <3>6. ids' = <<>> \/ \E i \in Ids \cup {NoId} : ids' = Append(<<>>, i)
      BY <3>2, <3>5, FreshFree DEF DoPost, Accept
    <3>7. Len(ids') <= 1
      <4>1. Len(<<>>) <= 1 /\ \A i : Len(Append(<<>>, i)) <= 1
        OBVIOUS
      <4> QED BY <3>6, <4>1
    <3> QED BY <3>4, <3>7
  <2>4. CASE step # 1
    <3>1. Current.op \in {"nap", "get", "poll"}
      BY <2>2, <2>4 DEF Current, FollowsOne
    <3>2. ids' = ids
      BY <1>1, <3>1, KindActions
         DEF FallAsleep, WakeUp, DoGet, PollSample, PollTimeout
    <3>3. step' # 1
      BY <1>1, <1>2, <2>4, StaysOrBegins DEF Stays, Begins
    <3> QED BY <2>1, <2>4, <3>2, <3>3
  <2> QED BY <2>3, <2>4
<1>7. Shows'
  BY NextKeepsShows DEF CompletionInv, Next, ScriptNext
<1> QED BY <1>4, <1>5, <1>6, <1>7 DEF CompletionInv

LEMMA NextKeepsCompletion ==
  ASSUME Typed, PlaceInv, CompletionInv, [Next]_vars
  PROVE  CompletionInv'
<1>0. Shows'
  BY NextKeepsShows DEF CompletionInv
<1>1. CASE DoStep
  BY <1>1, DoStepKeepsCompletion
<1>2. CASE EndTest
  <2>1. step' = 1 /\ n' = 0 /\ last' = "none" /\ tally' = NoTally /\ ids' = <<>>
    BY <1>2 DEF EndTest, FreshTest, Rest
  <2> QED BY <1>0, <2>1 DEF CompletionInv, CountInv, PollInv, FollowInv, NoTally
<1>3. CASE Quit \/ Conclude
  <2>1. ~InStep'
    BY <1>3 DEF Quit, Conclude, InStep, InTest, E2EExit
  <2> QED BY <1>0, <2>1 DEF CompletionInv, CountInv, PollInv, FollowInv
<1>4. CASE Meanwhile \/ UNCHANGED vars
  <2>1. UNCHANGED <<script, suite, test, exit, step, n, last, tally, outcome, ids>>
    BY <1>4 DEF Meanwhile, StrayLands, vars, placeVars, clientVars, progressVars, scaleIdle
  <2>2. /\ Tests' = Tests /\ InStep' = InStep /\ InWaves' = InWaves /\ Current' = Current
    BY <2>1 DEF Tests, AllSuites, InStep, InTest, InWaves, Current
  <2>3. \A i \in Ids : IsDone(i) => IsDone(i)'
    <3>1. ServerStep \/ UNCHANGED <<status, started, repeated>>
      BY <1>4 DEF Meanwhile, StrayLands, AcceptUnseen, jobVars, vars, serverVars
    <3>2. CASE ServerStep
      BY <3>2, DoneStays DEF Typed, StepTypeOK
    <3>3. CASE UNCHANGED <<status, started, repeated>>
      BY <3>3 DEF IsDone
    <3> QED BY <3>1, <3>2, <3>3
  <2>4. n \in Nat /\ Len(ids) \in Nat /\ \A k \in 1 .. Len(ids) : ids[k] \in Ids \cup {NoId}
    BY DEF Typed, StepTypeOK, ProgressOK, IdsOK
  <2>5. \A k \in 1 .. Len(ids) : IsDone(ids[k]) => IsDone(ids[k])'
    BY <2>1, <2>3, <2>4 DEF IsDone
  <2>6. CountInv'
    BY <2>1, <2>2, <2>4, <2>5 DEF CompletionInv, CountInv, IsDone
  <2> QED BY <1>0, <2>1, <2>2, <2>6 DEF CompletionInv, PollInv, FollowInv
<1> QED BY <1>1, <1>2, <1>3, <1>4 DEF Next, ScriptNext

\* All jobs of the test have been looked at, and all looks were at COMPLETED.
LEMMA CountedAreDone ==
  ASSUME Typed, PlaceInv, CompletionInv, InStep, Current.op = "scan", n = Len(ids), AllDone
  PROVE  AllAreDone
<1>1. ~InWaves
  BY CurrentInWaves
<1> QED BY <1>1 DEF CompletionInv, CountInv, AllDone, AllAreDone, IsDone

LEMMA LastIsAll ==
  ASSUME Typed, NEW k \in 1 .. Len(ids), Len(ids) <= 1
  PROVE  ids[k] = LastId
<1>1. Len(ids) \in Nat
  BY DEF Typed, StepTypeOK, IdsOK
<1>2. Len(ids) = 1 /\ k = 1
  <2> DEFINE m == Len(ids)
  <2>1. m \in Nat /\ m <= 1 /\ k \in 1 .. m
    BY <1>1
  <2>2. m = 1 /\ k = 1
    <3> HIDE DEF m
    <3> QED BY <2>1
  <2> QED BY <2>2
<1>3. ids # <<>>
  BY <1>2
<1> QED BY <1>2, <1>3 DEF LastId

\* Who insists on COMPLETED and goes on has seen the only job COMPLETED.
LEMMA SeenIsDone ==
  ASSUME Typed, PlaceInv, CompletionInv, InStep, ClientStep(Current) \/ ScaleStep(Current),
         LooksForCompleted(Current), step' = step + 1
  PROVE  AllAreDone
<1>1. step \in Nat
  BY DEF Typed, StepTypeOK, ProgressOK
<1>2. ~InWaves
  BY CurrentInWaves DEF LooksForCompleted
<1>3. FollowsOne(Tests[test]) /\ (Current.op = "poll" => Current.target = {"COMPLETED"})
  BY <1>2, CurrentLooks
<1>4. Len(ids) <= 1
  BY <1>3 DEF CompletionInv, FollowInv
<1>5. ~Fail /\ (\A ok : Judge(ok) => ok)
  BY <1>1 DEF Fail, Stop, Judge
<1>6. "COMPLETED" \in Reads(LastId)
  <2>1. CASE Current.op = "get"
    <3>1. DoGet(Current)
      BY <2>1, KindActions
    <3> QED BY <1>5, <3>1 DEF DoGet, Throws, LooksForCompleted
  <2>2. CASE Current.op = "poll"
    <3>1. last # "COMPLETED"
      BY <1>2, <2>2 DEF CompletionInv, PollInv
    <3>2. PollSample(Current) \/ PollTimeout(Current)
      BY <2>2, KindActions
    <3>3. ~PollTimeout(Current)
      <4>1. Judge(last \in Current.expect) => last \in Current.expect
        BY <1>1 DEF Judge, Fail, Stop
      <4> QED BY <3>1, <4>1 DEF PollTimeout, LooksForCompleted
    <3> QED BY <1>1, <1>3, <1>5, <2>2, <3>2, <3>3 DEF PollSample, Throws, LooksForCompleted
  <2> QED BY <2>1, <2>2 DEF LooksForCompleted
<1>7. IsDone(LastId)
  <2>1. LastId \in Ids \cup {NoId}
    BY LastIdTypes DEF Typed, StepTypeOK
  <2> QED BY <1>6, <2>1, SeenCompleted DEF CompletionInv
<1> QED BY <1>4, <1>7, LastIsAll DEF AllAreDone, IsDone

\* The only step that prints "recovered" has just counted all jobs.
LEMMA RecoveredIsCounted ==
  ASSUME NEW s, ClientStep(s) \/ ScaleStep(s), "recovered" \in report', "recovered" \notin report
  PROVE  s.op = "scan" /\ n = Len(ids) /\ AllDone
<1>1. \/ report' = report
      \/ \E what \in Prints \ {"recovered"} : Printed(what)
      \/ ScanJudge(s)
  <2>1. CASE ClientStep(s)
    BY <2>1 DEF ClientStep, DoPost, DoBurst, DoSpike, FindThreshold, DoAsk, DoCancel,
                FallAsleep, WakeUp, PollSample, PollTimeout, ScanRead, DoGet, DoHealth, Prints
  <2>2. CASE ScaleStep(s)
    BY <2>2 DEF ScaleStep, DrainSample, WavePost, WaveEnd, WaveFinished, WaveTimeout,
                RateSend, RateAnswer, RateStop, RateEnd, Summary, Prints
  <2> QED BY <2>1, <2>2
<1>2. ScanJudge(s)
  BY <1>1 DEF Printed
<1> QED BY <1>2 DEF ScanJudge, Printed

\* A scan that has to find all jobs goes on when it has.
LEMMA JudgedAreDone ==
  ASSUME NEW s, ClientStep(s) \/ ScaleStep(s), s.op = "scan", s.judge \in {"all", "until"},
         step \in Nat, step' = step + 1
  PROVE  n = Len(ids) /\ AllDone
<1>1. \A ok : Judge(ok) => ok
  BY DEF Judge, Fail, Stop
<1>2. ScanJudge(s)
  <2>1. ~ScanRead(s)
    BY DEF ScanRead, Throws, Fail, Stop
  <2> QED BY <2>1, KindActions
<1>3. ~Again
  BY DEF Again
<1> QED BY <1>1, <1>2, <1>3 DEF ScanJudge

\* When the scripts report all jobs as COMPLETED, all of them have been executed,
\* and those that were not repeated are COMPLETED at that moment, for any number
\* of jobs, attempts and samples: a job counted once stays done, each count starts
\* from nothing, and whoever looks at one job has created only one.
THEOREM CompletionHolds == Spec => CompletionIsTrue
<1> DEFINE Reports ==
      InStep =>
        /\ ("recovered" \in report' /\ "recovered" \notin report) => AllAreDone
        /\ \/ Current.op = "scan" /\ Current.judge \in {"all", "until"}
           \/ Current.op \in {"get", "poll"} /\ Current.expect = {"COMPLETED"}
           => (step' = step + 1 => AllAreDone)
<1>1. Init => Typed /\ PlaceInv /\ CompletionInv
  <2>1. Init => /\ Typed /\ step = 1 /\ suite = 1 /\ test = 1
                /\ n = 0 /\ last = "none" /\ tally = NoTally /\ ids = <<>>
    BY InitTyped DEF Init, ClientInit
  <2>2. Init => PlaceInv
    BY <2>1, SuitesHaveTests DEF PlaceInv, Tests
  <2> QED BY <2>1, <2>2, InitShows DEF CompletionInv, CountInv, PollInv, FollowInv, NoTally
<1>2. Typed /\ PlaceInv /\ CompletionInv /\ [Next]_vars =>
        Typed' /\ PlaceInv' /\ CompletionInv'
  BY NextKeepsTypes, NextKeepsPlace, NextKeepsCompletion
<1>3. Typed /\ PlaceInv /\ CompletionInv /\ [Next]_vars => [Reports]_vars
  <2> SUFFICES ASSUME Typed, PlaceInv, CompletionInv, [Next]_vars, InStep PROVE Reports
    OBVIOUS
  <2>1. step \in Nat
    BY DEF Typed, StepTypeOK, ProgressOK
  <2>2. CASE DoStep
    <3>1. ClientStep(Current) \/ ScaleStep(Current)
      BY <2>2 DEF DoStep
    <3>2. ("recovered" \in report' /\ "recovered" \notin report) => AllAreDone
      BY <3>1, RecoveredIsCounted, CountedAreDone
    <3>3. ASSUME Current.op = "scan", Current.judge \in {"all", "until"}, step' = step + 1
          PROVE  AllAreDone
      BY <2>1, <3>1, <3>3, JudgedAreDone, CountedAreDone
    <3>4. ASSUME Current.op \in {"get", "poll"}, Current.expect = {"COMPLETED"}, step' = step + 1
          PROVE  AllAreDone
      BY <3>1, <3>4, SeenIsDone DEF LooksForCompleted
    <3> QED BY <3>2, <3>3, <3>4
  <2>3. CASE ~DoStep
    <3>1. ~EndTest /\ ~Quit
      BY CurrentPlace DEF EndTest, Quit, EndsWell, InStep, InTest
    <3>2. Conclude \/ Meanwhile \/ UNCHANGED vars
      BY <2>3, <3>1 DEF Next, ScriptNext
    <3>3. UNCHANGED <<step, report>>
      BY <3>2 DEF Conclude, Meanwhile, StrayLands, vars, clientVars, progressVars
    <3> QED BY <2>1, <3>3
  <2> QED BY <2>2, <2>3
<1> QED BY <1>1, <1>2, <1>3, PTL DEF Spec, CompletionIsTrue


(***************************************************************************)
(* The waves of phase 2.                                                   *)
(***************************************************************************)

\* Phase 2 waits for the backlog, then has waves with a gap after each but the last.
LEMMA WavePlaces ==
  ASSUME NEW k \in 1 .. Len(Phase2E2ELatency)
  PROVE  Phase2E2ELatency[k] = IF k = 1 THEN Drain ELSE IF k % 2 = 0 THEN Wave ELSE Nap
<1> DEFINE m == 2 * Waves - 1
           W == [p \in 1 .. m |-> IF p % 2 = 1 THEN Wave ELSE Nap]
<1>1. m \in Nat
  BY ScaleAssumption
<1>2. W \in Seq({Wave, Nap}) /\ Len(W) = m
  BY <1>1
<1>3. Phase2E2ELatency = <<Drain>> \o W
  BY DEF Phase2E2ELatency
<1>4. Len(Phase2E2ELatency) = m + 1
  <2> HIDE DEF m, W
  <2> QED BY <1>1, <1>2, <1>3
<1>5. CASE k = 1
  <2> HIDE DEF m, W
  <2> QED BY <1>2, <1>3, <1>5
<1>6. CASE k # 1
  <2>1. k - 1 \in 1 .. m
    BY <1>1, <1>4, <1>6
  <2>2. Phase2E2ELatency[k] = W[k - 1]
    <3> HIDE DEF m, W
    <3> QED BY <1>1, <1>2, <1>3, <1>4, <1>6
  <2>3. W[k - 1] = IF (k - 1) % 2 = 1 THEN Wave ELSE Nap
    BY <2>1
  <2>4. (k - 1) % 2 = 1 <=> k % 2 = 0
    BY <1>1, <1>4
  <2> QED BY <1>6, <2>2, <2>3, <2>4
<1> QED BY <1>5, <1>6

\* A job that needs nothing any more, and the jobs that may still be put off.
Closed == Final \cup {"NONE"}
Waiting == {i \in Ids : status[i] \notin Closed \cup {"PROCESSING"}}

\* No job is repeated, nor becomes so in this step.
NoneAgain == ~\E i \in Ids : AgainStep(i)

LEMMA NoneRepeated ==
  /\ repeated' = {} => NoneAgain
  /\ repeated = {} /\ (\A i \in Ids : status[i] = "NONE") => NoneAgain
<1>1. ASSUME NEW i \in Ids, AgainStep(i)
      PROVE  i \in repeated' /\ (status[i] # "NONE" \/ i \in repeated)
  BY <1>1, AgainChanges
<1> QED BY <1>1 DEF NoneAgain

\* When no job is open, the service only lets time pass and works for others.
LEMMA IdleServer ==
  ASSUME ServerStep, NoneAgain, \A i \in Ids : status[i] \in Closed
  PROVE  UNCHANGED jobVars /\ (SlideWindow \/ OtherComes \/ OtherStarts \/ OthersGone)
<1>1. ASSUME NEW i \in Ids,
             \/ LookForFlag(i) \/ HonourFlag(i) \/ EndAttempt(i) \/ MoveOn(i)
             \/ DeferJob(i) \/ StartJob(i)
      PROVE  FALSE
  <2>1. status[i] \in {"QUEUED", "PROCESSING", "SCHEDULED", "PENDING", "RETRY"}
    BY <1>1 DEF LookForFlag, HonourFlag, EndAttempt, MoveOn, DeferJob, StartJob, Life!Schedule,
                Life!Enqueue, Life!Start, Life!Defer, Life!Cancel, Life!Complete, Life!Retry,
                Life!GiveUp, Life!Move
  <2> QED BY <2>1 DEF Closed, Final
<1>2. SlideWindow \/ OtherComes \/ OtherStarts \/ OthersGone
  BY <1>1 DEF ServerStep, NoneAgain
<1> QED BY <1>2 DEF SlideWindow, OtherComes, OtherStarts, OthersGone

\* A job of a wave is let through or ends; none begins to wait again, because a
\* LOG job that is not repeated needs one attempt.
LEMMA ServerKeepsWaiting ==
  ASSUME JobsTypeOK, WindowTypeOK, ServerStep, NoneAgain,
         \A i \in Ids : status[i] # "NONE" => kind[i] = "log"
  PROVE  /\ kind' = kind
         /\ \A i \in Ids : /\ status'[i] = "NONE" <=> status[i] = "NONE"
                           /\ status[i] \in Final => status'[i] \in Final
         /\ Waiting' \subseteq Waiting
         /\ ~others' => \/ recent' = 0
                        \/ ~others /\ recent' <= recent
                        \/ /\ ~others /\ recent' = recent + 1
                           /\ \E i \in Waiting : i \notin Waiting'
<1>1. CASE \E k \in Ids : LookForFlag(k) \/ HonourFlag(k) \/ EndAttempt(k) \/ MoveOn(k)
                          \/ DeferJob(k)
  <2> PICK k \in Ids : LookForFlag(k) \/ HonourFlag(k) \/ EndAttempt(k) \/ MoveOn(k)
                       \/ DeferJob(k)
    BY <1>1
  <2>1. UNCHANGED <<kind, recent, older, others>>
    BY DEF LookForFlag, HonourFlag, EndAttempt, MoveOn, DeferJob, windowVars
  <2>2. \/ status' = status
        \/ /\ status[k] \in {"QUEUED", "SCHEDULED", "PENDING", "RETRY"}
           /\ \E to \in Statuses : status' = [status EXCEPT ![k] = to]
        \/ /\ status[k] = "PROCESSING"
           /\ status' = [status EXCEPT ![k] = "COMPLETED"]
    <3>1. LookForFlag(k) => status' = status
      BY DEF LookForFlag
    <3>2. Life!Schedule(k) \/ Life!Enqueue(k) \/ Life!Defer(k) \/ Life!Cancel(k)
            => /\ status[k] \in {"QUEUED", "SCHEDULED", "PENDING", "RETRY"}
               /\ \E to \in Statuses : status' = [status EXCEPT ![k] = to]
      BY DEF Life!Schedule, Life!Enqueue, Life!Defer, Life!Cancel, Life!Move, Statuses, Final
    <3>3. EndAttempt(k) => /\ status[k] = "PROCESSING"
                           /\ status' = [status EXCEPT ![k] = "COMPLETED"]
      <4>1. Life!Complete(k) \/ Life!Retry(k) \/ Life!GiveUp(k) => status[k] = "PROCESSING"
        BY DEF Life!Complete, Life!Retry, Life!GiveUp, Life!Move
      <4>2. EndAttempt(k) => kind[k] = "log" /\ Life!Complete(k)
        BY <4>1 DEF EndAttempt
      <4> QED BY <4>2 DEF Life!Complete, Life!Move
    <3> QED BY <3>1, <3>2, <3>3 DEF HonourFlag, MoveOn, DeferJob
  <2>3. /\ \A i \in Ids : /\ status'[i] = "NONE" <=> status[i] = "NONE"
                          /\ status[i] \in Final => status'[i] \in Final
        /\ Waiting' \subseteq Waiting
    BY <2>2 DEF JobsTypeOK, Waiting, Closed, Final, Statuses
  <2>4. recent \in Nat
    BY ConstantsOK DEF WindowTypeOK
  <2> QED BY <2>1, <2>3, <2>4
<1>2. CASE \E k \in Ids : StartJob(k)
  <2> PICK k \in Ids : StartJob(k)
    BY <1>2
  <2>1. /\ UNCHANGED <<kind, older, others>>
        /\ status[k] = "QUEUED" /\ status' = [status EXCEPT ![k] = "PROCESSING"]
    BY DEF StartJob, Life!Start, Life!Move
  <2>2. recent \in Nat /\ recent' \in {recent, recent + 1}
    BY <2>1, ConstantsOK DEF StartJob, LetThrough, WindowTypeOK
  <2>3. \A i \in Ids : /\ status'[i] = "NONE" <=> status[i] = "NONE"
                       /\ status[i] \in Final => status'[i] \in Final
    BY <2>1 DEF JobsTypeOK, Final
  <2>4. Waiting' \subseteq Waiting /\ k \in Waiting /\ k \notin Waiting'
    BY <2>1 DEF JobsTypeOK, Waiting, Closed, Final
  <2> QED BY <2>1, <2>2, <2>3, <2>4
<1>3. CASE SlideWindow \/ OtherComes \/ OtherStarts \/ OthersGone
  <2>1. UNCHANGED <<kind, status>>
    BY <1>3 DEF SlideWindow, OtherComes, OtherStarts, OthersGone, jobVars
  <2>2. Waiting' = Waiting
    BY <2>1 DEF Waiting
  <2>3. recent \in Nat
    BY ConstantsOK DEF WindowTypeOK
  <2>4. ~others' => recent' = 0 \/ (~others /\ recent' <= recent)
    BY <1>3, <2>3 DEF SlideWindow, OtherComes, OtherStarts, OthersGone
  <2> QED BY <2>1, <2>2, <2>4
<1> QED BY <1>1, <1>2, <1>3 DEF ServerStep, NoneAgain


LEMMA WaitingCount ==
  ASSUME NEW S \in SUBSET Ids, NEW T \in SUBSET S
  PROVE  /\ Cardinality(S) \in Nat /\ Cardinality(T) \in Nat /\ Cardinality(T) <= Cardinality(S)
         /\ \A i \in S : i \notin T => Cardinality(T) + 1 <= Cardinality(S)
         /\ \A i : Cardinality(S \cup {i}) <= Cardinality(S) + 1
<1>1. IsFiniteSet(Ids)
  BY ConstantsOK, FS_Interval DEF Ids
<1>2. IsFiniteSet(S)
  BY <1>1, FS_Subset
<1>3. /\ Cardinality(S) \in Nat /\ IsFiniteSet(T) /\ Cardinality(T) \in Nat
      /\ Cardinality(T) <= Cardinality(S)
  BY <1>2, FS_Subset, FS_CardinalityType
<1>4. ASSUME NEW i \in S, i \notin T PROVE Cardinality(T) + 1 <= Cardinality(S)
  <2>1. IsFiniteSet(S \ {i}) /\ Cardinality(S \ {i}) = Cardinality(S) - 1
    BY <1>2, FS_RemoveElement
  <2>2. T \in SUBSET (S \ {i})
    BY <1>4
  <2>3. Cardinality(T) <= Cardinality(S \ {i})
    BY <2>1, <2>2, FS_Subset
  <2> QED BY <1>3, <2>1, <2>3
<1>5. ASSUME NEW i PROVE Cardinality(S \cup {i}) <= Cardinality(S) + 1
  BY <1>2, <1>3, FS_AddElement
<1> QED BY <1>3, <1>4, <1>5

\* Until the first wave the script follows no job, and the only LOG jobs in the
\* window are those of others.
BeforeWaves == script = "scale" /\ suite = 1 /\ (test = 1 \/ (test = 2 /\ step = 1))
QuietInv ==
  BeforeWaves =>
    /\ polling = {} /\ repeated = {} /\ \A i \in Ids : status[i] = "NONE"
    /\ ~others => recent = 0

\* While the script has given up on no job and none is repeated: what is not over belongs to this
\* wave; the jobs let through in this window and those that may still be put off
\* are, together, no more than the wave has posted; and in a gap all that is in
\* the window was there when the gap began.
InWave == InWaves /\ step > 1
WaveInv ==
  InWave /\ tally.retry = 0 /\ repeated = {} =>
    /\ \A i \in Ids : status[i] # "NONE" => kind[i] = "log"
    /\ \A i \in Ids : status[i] \notin Closed => i \in polling
    /\ step % 2 = 0 =>
         /\ n <= WaveSize /\ Cardinality(Waiting) <= n
         /\ ~others => recent + Cardinality(Waiting) <= n
    /\ step % 2 = 1 =>
         /\ polling = {}
         /\ ~others /\ n = 1 => recent = older

LEMMA QuietTable ==
  ASSUME Typed, PlaceInv, InStep, BeforeWaves
  PROVE  Current.op \in IF test = 1 THEN {"health", "ask", "spike", "nap"} ELSE {"drain"}
<1>1. AllSuites = <<ScalePhases>>
  BY DEF AllSuites, Suites, BeforeWaves
<1>2. Tests = ScalePhases
  BY <1>1 DEF Tests, BeforeWaves
<1>3. CASE test = 1
  <2>1. Tests[test] = Phase0Warmup
    BY <1>2, <1>3 DEF ScalePhases
  <2>2. \A k \in 1 .. Len(Phase0Warmup) : Phase0Warmup[k].op \in {"health", "ask", "spike", "nap"}
    BY StepKinds DEF Phase0Warmup
  <2> QED BY <1>3, <2>1, <2>2, CurrentPlace DEF Current
<1>4. CASE test # 1
  <2>1. Tests[test] = Phase2E2ELatency
    BY <1>2, <1>4 DEF ScalePhases, BeforeWaves
  <2> QED BY <1>4, <2>1, CurrentPlace, WavePlaces, StepKinds DEF Current, BeforeWaves
<1> QED BY <1>3, <1>4

LEMMA DoStepKeepsQuiet ==
  ASSUME Typed, PlaceInv, QuietInv, BeforeWaves, DoStep
  PROVE  /\ UNCHANGED <<status, repeated, polling>>
         /\ ~others' => recent' = 0
<1>1. InStep /\ (ClientStep(Current) \/ ScaleStep(Current))
  BY DEF DoStep
<1>2. Current.op \in {"health", "ask", "spike", "nap", "drain"}
  BY <1>1, QuietTable
<1>3. /\ ~others => recent = 0
      /\ recent \in Nat /\ older \in Nat /\ older <= recent /\ others \in BOOLEAN
  BY ConstantsOK DEF QuietInv, Typed, StepTypeOK, WindowTypeOK
<1>4. CASE Current.op \in {"health", "ask", "drain"}
  BY <1>1, <1>3, <1>4, KindActions
     DEF DoHealth, DoAsk, DrainSample, serverVars, jobVars, windowVars, levelVars
<1>5. CASE Current.op = "spike"
  <2>1. DoSpike(Current)
    BY <1>1, <1>5, KindActions
  <2>2. UNCHANGED <<recent, status, repeated, polling>>
    BY <2>1 DEF DoSpike, AcceptUnseen, jobVars
  <2>3. ~others' => ~others
    BY <1>3, <2>1 DEF DoSpike, AcceptUnseen
  <2> QED BY <1>3, <2>2, <2>3
<1>6. CASE Current.op = "nap"
  BY <1>1, <1>3, <1>6, KindActions DEF FallAsleep, WakeUp, jobVars, levelVars
<1> QED BY <1>2, <1>4, <1>5, <1>6

LEMMA NextKeepsQuiet ==
  ASSUME Typed, PlaceInv, QuietInv, [Next]_vars
  PROVE  QuietInv'
<1>1. SUFFICES ASSUME BeforeWaves'
               PROVE  /\ polling' = {} /\ repeated' = {}
                      /\ \A i \in Ids : status'[i] = "NONE"
                      /\ ~others' => recent' = 0
  BY DEF QuietInv
<1>2. /\ step \in Nat \ {0} /\ suite \in Nat \ {0} /\ test \in Nat \ {0}
      /\ recent \in Nat /\ others \in BOOLEAN
  BY ConstantsOK DEF Typed, StepTypeOK, ProgressOK, PlaceOK, PlaceInv, WindowTypeOK
<1>3. BeforeWaves => /\ polling = {} /\ repeated = {}
                     /\ \A i \in Ids : status[i] = "NONE"
                     /\ ~others => recent = 0
  BY DEF QuietInv
<1>4. CASE DoStep
  <2>1. /\ UNCHANGED <<script, suite, test>>
        /\ step' \in {step, step + 1, step + 3}
    BY <1>4, StaysOrBegins DEF DoStep, placeVars, Stays, Begins
  <2>2. BeforeWaves
    BY <1>1, <1>2, <2>1 DEF BeforeWaves
  <2> QED BY <1>3, <1>4, <2>2, DoStepKeepsQuiet
<1>5. CASE EndTest
  <2>1. BeforeWaves
    BY <1>1, <1>2, <1>5 DEF BeforeWaves, EndTest
  <2>2. /\ Forget /\ polling' = polling
    BY <1>5 DEF EndTest, FreshTest
  <2> QED BY <1>2, <1>3, <2>1, <2>2 DEF Forget
<1>6. CASE Quit \/ Conclude \/ UNCHANGED vars
  BY <1>1, <1>3, <1>6
     DEF Quit, Conclude, vars, placeVars, BeforeWaves, serverVars, jobVars, windowVars,
         clientVars, progressVars, levelVars
<1>7. CASE Meanwhile
  <2>1. BeforeWaves /\ polling' = polling
    BY <1>1, <1>7 DEF Meanwhile, StrayLands, BeforeWaves, placeVars, clientVars, progressVars,
                      levelVars
  <2>2. CASE ServerStep
    <3>1. NoneAgain
      BY <1>3, <2>1, NoneRepeated
    <3>2. UNCHANGED jobVars /\ (SlideWindow \/ OtherComes \/ OtherStarts \/ OthersGone)
      BY <1>3, <2>1, <2>2, <3>1, IdleServer DEF Closed
    <3> QED BY <1>2, <1>3, <2>1, <3>2
            DEF SlideWindow, OtherComes, OtherStarts, OthersGone, jobVars
  <2>3. CASE StrayLands
    BY <1>2, <1>3, <2>1, <2>3 DEF StrayLands, AcceptUnseen, jobVars
  <2> QED BY <1>7, <2>2, <2>3 DEF Meanwhile
<1> QED BY <1>4, <1>5, <1>6, <1>7 DEF Next, ScriptNext


\* Which step of phase 2 it is.
LEMMA WaveNow ==
  ASSUME Typed, PlaceInv, InStep, InWaves
  PROVE  Current = IF step = 1 THEN Drain ELSE IF step % 2 = 0 THEN Wave ELSE Nap
BY CurrentInWaves, CurrentPlace, WavePlaces DEF Current

LEMMA WaveKinds ==
  /\ Drain.op = "drain" /\ Wave.op = "wave" /\ Nap.op = "nap"
  /\ Wave.size = WaveSize
BY StepKinds DEF Wave, Step

\* The first wave begins with nothing of the script's own about.
LEMMA DrainKeepsWaves ==
  ASSUME Typed, PlaceInv, QuietInv, InWaves, step = 1, DoStep, step' > 1
  PROVE  WaveInv'
<1>1. InStep /\ (ClientStep(Current) \/ ScaleStep(Current))
  BY DEF DoStep
<1>2. Current.op = "drain"
  BY <1>1, WaveNow, WaveKinds
<1>3. DrainSample(Current)
  BY <1>1, <1>2, KindActions
<1>4. step' = 2 /\ n' = 0
  BY <1>3 DEF DrainSample, Proceed, Rest
<1>5. /\ \A i \in Ids : status'[i] = "NONE"
      /\ ~others' => recent' = 0
  BY DoStepKeepsQuiet DEF BeforeWaves, InWaves, QuietInv
<1>6. Waiting' = {}
  BY <1>5 DEF Waiting, Closed
<1>7. Cardinality(Waiting') = 0
  BY <1>6, FS_EmptySet
<1>8. WaveSize \in Nat
  BY ScaleAssumption
<1>9. \A i \in Ids : status'[i] \in Closed
  BY <1>5 DEF Closed
<1>10. step' % 2 = 0
  BY <1>4
<1>11. ~others' => recent' + Cardinality(Waiting') <= n'
  BY <1>4, <1>5, <1>7
<1> QED BY <1>4, <1>5, <1>7, <1>8, <1>9, <1>10, <1>11 DEF WaveInv

\* What WaveInv says in the middle of a wave, and in a gap.
AllLog == \A i \in Ids : status[i] # "NONE" => kind[i] = "log"
AllPolled == \A i \in Ids : status[i] \notin Closed => i \in polling
WaveRoom ==
  /\ n <= WaveSize /\ Cardinality(Waiting) <= n
  /\ ~others => recent + Cardinality(Waiting) <= n

LEMMA WaveParts ==
  ASSUME step \in Nat
  PROVE  WaveInv <=>
           (InWave /\ tally.retry = 0 /\ repeated = {} =>
              /\ AllLog /\ AllPolled
              /\ step % 2 = 0 => WaveRoom
              /\ step % 2 # 0 => polling = {} /\ (~others /\ n = 1 => recent = older))
<1>1. step % 2 = 1 <=> step % 2 # 0
  OBVIOUS
<1> QED BY <1>1 DEF WaveInv, AllLog, AllPolled, WaveRoom

\* With nothing open, nothing waits.
LEMMA NoneWaiting ==
  ASSUME AllPolled, polling = {}
  PROVE  Waiting = {} /\ Cardinality(Waiting) = 0 /\ \A i \in Ids : status[i] \in Closed
<1>1. \A i \in Ids : status[i] \in Closed
  BY DEF AllPolled
<1>2. Waiting = {}
  BY <1>1 DEF Waiting
<1> QED BY <1>1, <1>2, FS_EmptySet

LEMMA PostKeepsWaves ==
  ASSUME Typed, AllLog, AllPolled, WaveRoom, WavePost(Wave)
  PROVE  AllLog' /\ AllPolled' /\ WaveRoom'
<1>1. /\ n \in Nat /\ recent \in Nat /\ others \in BOOLEAN /\ WaveSize \in Nat
      /\ JobsTypeOK
  BY ConstantsOK, ScaleAssumption DEF Typed, StepTypeOK, ProgressOK, WindowTypeOK
<1>2. n' = n + 1 /\ n < WaveSize
  BY WaveKinds DEF WavePost
<1>3. CASE Accept("log", "QUEUED") /\ polling' = polling \cup {Fresh} /\ UNCHANGED windowVars
  <2>1. /\ Fresh \in Ids
        /\ status' = [status EXCEPT ![Fresh] = "QUEUED"]
        /\ kind' = [kind EXCEPT ![Fresh] = "log"]
        /\ UNCHANGED <<recent, others>>
    BY <1>3, FreshFree DEF Accept, windowVars
  <2>2. AllLog' /\ AllPolled'
    BY <1>1, <1>3, <2>1 DEF AllLog, AllPolled, JobsTypeOK
  <2>3. Waiting' = Waiting \cup {Fresh}
    BY <1>1, <2>1 DEF Waiting, JobsTypeOK, Closed, Final
  <2>4. Waiting \in SUBSET Ids
    BY DEF Waiting
  <2>5. Cardinality(Waiting) \in Nat /\ Cardinality(Waiting') <= Cardinality(Waiting) + 1
    BY <2>3, <2>4, WaitingCount
  <2>6. Cardinality(Waiting') \in Nat
    BY <2>1, <2>3, <2>4, WaitingCount
  <2> QED BY <1>1, <1>2, <2>1, <2>2, <2>5, <2>6 DEF WaveRoom
<1>4. CASE AcceptUnseen("log") /\ UNCHANGED polling
  <2>1. /\ UNCHANGED <<status, kind, recent>>
        /\ ~others' => ~others
    BY <1>1, <1>4 DEF AcceptUnseen, jobVars
  <2>2. Waiting' = Waiting /\ Cardinality(Waiting) \in Nat
    BY <2>1, WaitingCount DEF Waiting
  <2>3. AllLog' /\ AllPolled'
    BY <1>4, <2>1 DEF AllLog, AllPolled
  <2> QED BY <1>1, <1>2, <2>1, <2>2, <2>3 DEF WaveRoom
<1> QED BY <1>3, <1>4 DEF WavePost

\* A step of a wave keeps the invariant, or the script has given up on a job.
LEMMA WaveStepKeepsWaves ==
  ASSUME Typed, PlaceInv, WaveInv, InWaves, step > 1, step % 2 = 0, DoStep, tally'.retry = 0,
         repeated = {}
  PROVE  WaveInv'
<1>1. InStep /\ (ClientStep(Current) \/ ScaleStep(Current))
  BY DEF DoStep
<1>2. step \in Nat /\ tally \in Tallies /\ tally.retry \in Nat /\ n \in Nat
  BY DEF Typed, StepTypeOK, ProgressOK, Tallies
<1>3. Current = Wave
  BY <1>1, <1>2, WaveNow
<1>4. \/ WavePost(Wave) \/ WaveEnd(Wave)
      \/ \E i \in Ids : WaveFinished(Wave, i) \/ WaveTimeout(Wave, i)
  BY <1>1, <1>3, KindActions, WaveKinds
<1>5. tally.retry = 0 /\ ~\E i \in Ids : WaveTimeout(Wave, i)
  BY <1>2, <1>4 DEF WavePost, WaveEnd, WaveFinished, WaveTimeout, ProceedCounting, Add, Tallies
<1>6. AllLog /\ AllPolled /\ WaveRoom
  BY <1>2, <1>5, WaveParts DEF InWave
<1>7. CASE WavePost(Wave)
  <2>1. AllLog' /\ AllPolled' /\ WaveRoom'
    BY <1>6, <1>7, PostKeepsWaves
  <2>2. step' = step
    BY <1>7 DEF WavePost
  <2> QED BY <1>2, <2>1, <2>2 DEF WaveInv, AllLog, AllPolled, WaveRoom
<1>8. CASE \E i \in Ids : WaveFinished(Wave, i)
  <2> PICK i \in Ids : WaveFinished(Wave, i)
    BY <1>8
  <2>1. UNCHANGED <<status, kind, recent, others, step, n>>
    BY DEF WaveFinished, serverVars, jobVars, windowVars
  <2>2. status[i] \in Closed /\ polling' = polling \ {i}
    BY DEF WaveFinished, Closed
  <2>3. AllLog' /\ AllPolled'
    BY <1>6, <2>1, <2>2 DEF AllLog, AllPolled
  <2>4. Waiting' = Waiting
    BY <2>1 DEF Waiting
  <2>5. WaveRoom'
    BY <1>6, <2>1, <2>4 DEF WaveRoom
  <2> QED BY <1>2, <2>1, <2>3, <2>5 DEF WaveInv, AllLog, AllPolled, WaveRoom
<1>9. CASE WaveEnd(Wave)
  <2>1. UNCHANGED <<status, kind, polling>> /\ polling = {} /\ step' = step + 1 /\ n' = 0
    BY <1>9 DEF WaveEnd, ProceedCounting, Rest, serverVars, jobVars, levelVars
  <2>2. AllLog' /\ AllPolled'
    BY <1>6, <2>1 DEF AllLog, AllPolled
  <2>3. step' % 2 # 0
    BY <1>2, <2>1
  <2> QED BY <2>1, <2>2, <2>3 DEF WaveInv, AllLog, AllPolled, WaveRoom
<1> QED BY <1>4, <1>5, <1>7, <1>8, <1>9

\* A gap is longer than the window: what it began with has left it at its end.
LEMMA GapKeepsWaves ==
  ASSUME Typed, PlaceInv, WaveInv, InWaves, step > 1, step % 2 # 0, DoStep, tally'.retry = 0,
         repeated = {}
  PROVE  WaveInv'
<1>1. InStep /\ (ClientStep(Current) \/ ScaleStep(Current))
  BY DEF DoStep
<1>2. /\ step \in Nat /\ recent \in Nat /\ older \in Nat /\ others \in BOOLEAN
      /\ WaveSize \in Nat
  BY ConstantsOK, ScaleAssumption DEF Typed, StepTypeOK, ProgressOK, WindowTypeOK
<1>3. Current = Nap
  BY <1>1, <1>2, WaveNow
<1>4. FallAsleep(Nap) \/ WakeUp(Nap)
  BY <1>1, <1>3, KindActions, WaveKinds
<1>5. UNCHANGED <<status, kind, polling, tally, others>>
  BY <1>4 DEF FallAsleep, WakeUp, Once, ProceedCounting, jobVars, levelVars
<1>6. AllLog /\ AllPolled /\ polling = {} /\ (~others /\ n = 1 => recent = older)
  BY <1>2, <1>5, WaveParts DEF InWave
<1>7. AllLog' /\ AllPolled' /\ polling' = {}
  BY <1>5, <1>6 DEF AllLog, AllPolled
<1>8. CASE FallAsleep(Nap)
  <2>1. step' = step /\ recent' = older'
    BY <1>8 DEF FallAsleep, Once
  <2> QED BY <1>7, <2>1 DEF WaveInv, AllLog, AllPolled
<1>9. CASE WakeUp(Nap)
  <2>1. step' = step + 1 /\ n' = 0 /\ n = 1 /\ recent' = recent - older
    BY <1>9 DEF WakeUp, ProceedCounting, Rest
  <2>2. step' % 2 # 1
    BY <1>2, <2>1
  <2>3. Waiting' = {} /\ Cardinality(Waiting') = 0
    BY <1>5, <1>6, NoneWaiting DEF Waiting
  <2>4. ~others' => recent' + Cardinality(Waiting') <= n'
    BY <1>2, <1>5, <1>6, <2>1, <2>3
  <2> QED BY <1>2, <1>7, <2>1, <2>2, <2>3, <2>4 DEF WaveInv, AllLog, AllPolled
<1> QED BY <1>4, <1>8, <1>9


\* What the service does during a wave or a gap.
LEMMA ServerKeepsWaves ==
  ASSUME Typed, PlaceInv, WaveInv, InWave, tally.retry = 0, repeated = {}, ServerStep,
         NoneAgain, UNCHANGED <<clientVars, placeVars>>
  PROVE  WaveInv'
<1>1. UNCHANGED <<step, n, tally, polling>>
  BY DEF clientVars, progressVars, levelVars
<1>2. /\ step \in Nat /\ n \in Nat /\ recent \in Nat /\ older \in Nat /\ older <= recent
      /\ others \in BOOLEAN /\ JobsTypeOK /\ WindowTypeOK
  BY ConstantsOK DEF Typed, StepTypeOK, ProgressOK, WindowTypeOK
<1>3. /\ AllLog /\ AllPolled
      /\ step % 2 = 0 => WaveRoom
      /\ step % 2 # 0 => polling = {} /\ (~others /\ n = 1 => recent = older)
  BY <1>2, WaveParts
<1>4. /\ kind' = kind
      /\ \A i \in Ids : /\ status'[i] = "NONE" <=> status[i] = "NONE"
                        /\ status[i] \in Final => status'[i] \in Final
      /\ Waiting' \subseteq Waiting
      /\ ~others' => \/ recent' = 0
                     \/ ~others /\ recent' <= recent
                     \/ /\ ~others /\ recent' = recent + 1
                        /\ \E i \in Waiting : i \notin Waiting'
  BY <1>2, <1>3, ServerKeepsWaiting DEF AllLog
<1>5. AllLog' /\ AllPolled'
  BY <1>1, <1>3, <1>4 DEF AllLog, AllPolled, Closed
<1>6. CASE step % 2 = 0
  <2>1. Waiting \in SUBSET Ids /\ Waiting' \in SUBSET Waiting
    BY <1>4 DEF Waiting
  <2>2. /\ Cardinality(Waiting) \in Nat /\ Cardinality(Waiting') \in Nat
        /\ Cardinality(Waiting') <= Cardinality(Waiting)
        /\ \A i \in Waiting : i \notin Waiting' => Cardinality(Waiting') + 1 <= Cardinality(Waiting)
    BY <2>1, WaitingCount
  <2>3. recent' \in Nat
    BY <1>2, ServerKeepsTypes, ConstantsOK DEF WindowTypeOK
  <2>4. n' <= WaveSize /\ Cardinality(Waiting') <= n'
    BY <1>1, <1>2, <1>3, <1>6, <2>2, ScaleAssumption DEF WaveRoom
  <2>5. ~others' => recent' + Cardinality(Waiting') <= n'
    <3> SUFFICES ASSUME ~others' PROVE recent' + Cardinality(Waiting') <= n'
      OBVIOUS
    <3>1. CASE recent' = 0
      BY <2>2, <2>4, <3>1
    <3>2. CASE ~others /\ recent' <= recent
      BY <1>1, <1>2, <1>3, <1>6, <2>2, <2>3, <3>2 DEF WaveRoom
    <3>3. CASE ~others /\ recent' = recent + 1 /\ \E i \in Waiting : i \notin Waiting'
      BY <1>1, <1>2, <1>3, <1>6, <2>2, <3>3 DEF WaveRoom
    <3> QED BY <1>4, <3>1, <3>2, <3>3
  <2> QED BY <1>1, <1>2, <1>5, <1>6, <2>4, <2>5 DEF WaveInv, AllLog, AllPolled
<1>7. CASE step % 2 # 0
  <2>1. \A i \in Ids : status[i] \in Closed
    BY <1>3, <1>7, NoneWaiting
  <2>2. SlideWindow \/ OtherComes \/ OtherStarts \/ OthersGone
    BY <2>1, IdleServer
  <2>3. ~others' /\ n' = 1 => recent' = older'
    BY <1>1, <1>2, <1>3, <1>7, <2>2 DEF SlideWindow, OtherComes, OtherStarts, OthersGone
  <2> QED BY <1>1, <1>3, <1>5, <1>7, <2>3 DEF WaveInv, AllLog, AllPolled
<1> QED BY <1>6, <1>7

LEMMA NextKeepsWaves ==
  ASSUME Typed, PlaceInv, QuietInv, WaveInv, [Next]_vars
  PROVE  WaveInv'
<1>1. SUFFICES ASSUME InWave', tally'.retry = 0, repeated' = {} PROVE WaveInv'
  BY DEF WaveInv
<1>2. /\ step \in Nat \ {0} /\ step' \in Nat \ {0}
      /\ recent \in Nat /\ others \in BOOLEAN
  BY NextKeepsTypes, NextKeepsPlace, ConstantsOK
     DEF Typed, StepTypeOK, ProgressOK, PlaceInv, WindowTypeOK
<1>3. CASE DoStep
  <2>1. InWaves /\ step' > 1
    BY <1>1, <1>3 DEF InWave, InWaves, DoStep, placeVars
  <2>2. repeated = {}
    BY <1>1, <1>3, ClientMoves DEF DoStep, Accept
  <2> QED BY <1>1, <1>2, <1>3, <2>1, <2>2, DrainKeepsWaves, WaveStepKeepsWaves, GapKeepsWaves
<1>4. CASE EndTest
  <2>1. step' = 1
    BY <1>4 DEF EndTest, FreshTest
  <2> QED BY <1>1, <2>1 DEF InWave
<1>5. CASE Quit \/ Conclude \/ UNCHANGED vars
  <2>1. UNCHANGED <<script, suite, test, step, n, tally, polling, status, kind, repeated,
                    recent, older, others>>
    BY <1>5 DEF Quit, Conclude, vars, placeVars, serverVars, jobVars, windowVars, clientVars,
                progressVars, levelVars
  <2> QED BY <2>1 DEF WaveInv, InWave, InWaves, Waiting
<1>6. CASE Meanwhile
  <2>1. UNCHANGED <<script, suite, test, step, n, tally, polling>>
    BY <1>6 DEF Meanwhile, StrayLands, placeVars, clientVars, progressVars, levelVars
  <2>2. InWave /\ tally.retry = 0
    BY <1>1, <2>1 DEF InWave, InWaves
  <2>3. CASE ServerStep /\ UNCHANGED clientVars
    <3>1. NoneAgain
      BY <1>1, NoneRepeated
    <3>2. repeated = {}
      BY <1>1, <2>3, <3>1
         DEF ServerStep, NoneAgain, LookForFlag, HonourFlag, StartJob, DeferJob, EndAttempt,
             MoveOn, SlideWindow, OtherComes, OtherStarts, OthersGone, jobVars
    <3> QED BY <1>6, <2>2, <2>3, <3>1, <3>2, ServerKeepsWaves DEF Meanwhile
  <2>4. CASE StrayLands
    <3>1. UNCHANGED <<status, kind, repeated, recent, older>> /\ (~others' => ~others)
      BY <1>2, <2>4 DEF StrayLands, AcceptUnseen, jobVars
    <3> QED BY <2>1, <2>2, <3>1 DEF WaveInv, Waiting
  <2> QED BY <1>6, <2>3, <2>4 DEF Meanwhile
<1> QED BY <1>3, <1>4, <1>5, <1>6 DEF Next, ScriptNext

\* A LOG job that may be put off during a wave finds room in the window.
LEMMA NoneDeferred ==
  ASSUME Typed, PlaceInv, WaveInv, [Next]_vars, WaveSize <= Limit,
         InStep, Current.op = "wave", ~others, tally.retry = 0, repeated = {},
         NEW i \in Ids, status[i] = "QUEUED", status'[i] = "RETRY"
  PROVE  FALSE
<1>1. InWaves
  BY CurrentLooks
<1>2. step \in Nat \ {0} /\ n \in Nat /\ recent \in Nat /\ Limit \in Nat /\ WaveSize \in Nat
  BY ConstantsOK, ScaleAssumption DEF Typed, StepTypeOK, ProgressOK, PlaceInv, WindowTypeOK
<1>3. step > 1 /\ step % 2 = 0
  BY <1>1, <1>2, WaveNow, WaveKinds
<1>4. AllLog /\ WaveRoom
  BY <1>1, <1>2, <1>3, WaveParts DEF InWave
<1>5. kind[i] = "log" /\ i \in Waiting
  BY <1>4 DEF AllLog, Waiting, Closed, Final
<1>6. recent < Limit
  <2>1. /\ Cardinality(Waiting) \in Nat /\ {} \in SUBSET Waiting /\ Waiting \in SUBSET Ids
        /\ Cardinality({}) = 0
    BY WaitingCount, FS_EmptySet DEF Waiting
  <2>2. Cardinality(Waiting) >= 1
    BY <1>5, <2>1, WaitingCount
  <2> QED BY <1>2, <1>4, <2>1, <2>2 DEF WaveRoom
<1>7. ~\E k \in Ids : DeferJob(k) /\ k = i
  BY <1>2, <1>5, <1>6 DEF DeferJob
<1>8. ~ServerStep
  <2>1. ASSUME NEW k \in Ids,
               LookForFlag(k) \/ HonourFlag(k) \/ EndAttempt(k) \/ MoveOn(k) \/ StartJob(k)
        PROVE  FALSE
    BY <2>1 DEF Typed, StepTypeOK, JobsTypeOK, LookForFlag, HonourFlag, EndAttempt, MoveOn,
                StartJob, Life!Schedule, Life!Enqueue, Life!Start, Life!Cancel, Life!Complete,
                Life!Retry, Life!GiveUp, Life!Move
  <2>2. ASSUME NEW k \in Ids, DeferJob(k) PROVE FALSE
    BY <1>7, <2>2 DEF Typed, StepTypeOK, JobsTypeOK, DeferJob, Life!Defer, Life!Move
  <2>3. ~SlideWindow /\ ~OtherComes /\ ~OtherStarts /\ ~OthersGone
    BY DEF SlideWindow, OtherComes, OtherStarts, OthersGone, jobVars
  <2>4. ASSUME NEW k \in Ids, AgainStep(k) PROVE FALSE
    <3>1. SaveAgain(k) \/ Redeliver(k)
      BY <2>4 DEF AgainStep, CancelAgain, DeferAgain, StartAgain, DropAgain, EndAgain
    <3>2. status' \in {status, [status EXCEPT ![k] = "SCHEDULED"], [status EXCEPT ![k] = "QUEUED"]}
      BY <3>1 DEF SaveAgain, Redeliver, SaveCopy
    <3> QED BY <3>2 DEF Typed, StepTypeOK, JobsTypeOK
  <2> QED BY <2>1, <2>2, <2>3, <2>4 DEF ServerStep
<1>9. ~DoStep
  <2>1. ~\E k, r : Accept(k, r)
    BY FreshFree DEF Accept, Free, Typed, StepTypeOK, JobsTypeOK
  <2> QED BY <2>1, ClientMoves DEF DoStep
<1>10. ~EndTest
  BY DEF EndTest, FreshTest, Forget
<1> QED BY <1>8, <1>9, <1>10
        DEF Next, ScriptNext, Quit, Conclude, Meanwhile, StrayLands, AcceptUnseen, vars,
            serverVars, jobVars

\* When a wave is no larger than the limit, no job of it is put off as long as
\* only the script's own LOG jobs are about, it has given up on none and none is
\* repeated: what a wave can have in the window and on the way to it is what it
\* has posted.
THEOREM WavesFit ==
  ASSUME WaveSize <= Limit
  PROVE  Spec => WavesWithinLimit
<1> DEFINE NonePutOff ==
      InStep /\ Current.op = "wave" /\ ~others /\ tally.retry = 0 /\ repeated = {}
        => \A i \in Ids : ~(status[i] = "QUEUED" /\ status'[i] = "RETRY")
<1>1. Init => Typed /\ PlaceInv /\ QuietInv /\ WaveInv
  <2>1. Init => /\ Typed /\ step = 1 /\ suite = 1 /\ test = 1 /\ polling = {}
                /\ recent = 0 /\ repeated = {} /\ \A i \in Ids : status[i] = "NONE"
    BY InitTyped DEF Init, ClientInit, ServerInit, Life!Init
  <2>2. Init => PlaceInv
    BY <2>1, SuitesHaveTests DEF PlaceInv, Tests
  <2> QED BY <2>1, <2>2 DEF QuietInv, WaveInv, InWave
<1>2. Typed /\ PlaceInv /\ QuietInv /\ WaveInv /\ [Next]_vars =>
        Typed' /\ PlaceInv' /\ QuietInv' /\ WaveInv'
  BY NextKeepsTypes, NextKeepsPlace, NextKeepsQuiet, NextKeepsWaves
<1>3. Typed /\ PlaceInv /\ WaveInv /\ [Next]_vars => [NonePutOff]_vars
  BY NoneDeferred
<1> QED BY <1>1, <1>2, <1>3, PTL DEF Spec, WavesWithinLimit
=============================================================================
