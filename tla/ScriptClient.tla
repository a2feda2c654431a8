---------------------------- MODULE ScriptClient ----------------------------
(***************************************************************************)
(* How the three scripts at the root of the repository (test-runner.js,    *)
(* e2e-test.js, scalability-test.js) drive the service.  A test is a       *)
(* sequence of steps: one request or a bundle of them, a sleep, a look at  *)
(* jobs and a judgement.  Here is what each kind of step does; the tests   *)
(* themselves are tables in TestRunner, E2ETest and ScalabilityTest.       *)
(* A script has one thread: a step goes on when an answer arrives, and     *)
(* only the requests of a bundle overlap.                                  *)
(***************************************************************************)
EXTENDS JobServer

CONSTANTS
  Trouble,     \* whether a request may be answered with an error, or throw
  Attempts,    \* attempts to find the server healthy
  Polls,       \* bound: samples taken until a deadline
  Several,     \* a few jobs (5, 6 or 7 in the scripts)
  Many,        \* more than the rate limiter lets through (12, 20 or 25)
  Levels       \* sizes of the stress levels, in order

ASSUME ClientAssumption ==
  /\ Trouble \in BOOLEAN
  /\ Attempts \in Nat \ {0} /\ Polls \in Nat \ {0}
  /\ Several \in Nat \ {0} /\ Many \in Nat \ {0}
  /\ Levels \in Seq(Nat \ {0})

VARIABLES
  step,        \* the step of the test under way
  n,           \* requests or jobs this step is done with
  tries,       \* samples it has taken
  last,        \* status in the last sample that showed one
  tally,       \* what it has counted
  outcome,     \* "running", or the test "failed", or the script must "quit"
  ids,         \* ids of the jobs the test has created, in order
  polling,     \* jobs of a wave that are being waited for
  flight,      \* requests of a fixed-rate level not answered yet
  strays,      \* ... of earlier levels, which nobody waits for any more
  fails,       \* failures of each stress level so far
  first,       \* the first level with a failure, 0 if there is none
  report       \* what the script has found or printed

progressVars == <<step, n, tries, last, tally, outcome>>
levelVars == <<polling, flight, strays, fails, first>>
clientVars == <<progressVars, ids, levelVars, report>>

\* One step of a test, with the parts a kind of step does not use at rest.
Step(op) ==
  [op     |-> op,
   kind   |-> "log",   \* kind of the jobs it creates
   ahead  |-> 0,       \* minutes they are scheduled ahead
   size   |-> 1,       \* how many requests, samples or attempts
   need   |-> 0,       \* how many must succeed
   target |-> {},      \* statuses a poll waits for
   expect |-> {},      \* statuses the test accepts; {}: any answer
   policy |-> "lax",   \* an error answer: "assert" fails, "lax" goes on
                       \* without an id, "skip" leaves the job out
   catch  |-> FALSE,   \* whether an exception is swallowed
   judge  |-> "none"]  \* what is concluded at the end

Post(kd, ahead, policy, expect) ==
  [Step("post") EXCEPT !.kind = kd, !.ahead = ahead, !.policy = policy, !.expect = expect]
Posts(kd, size, policy) == [Post(kd, 0, policy, {}) EXCEPT !.size = size]
Burst(kd, size, policy, need) ==
  [Step("burst") EXCEPT !.kind = kd, !.size = size, !.policy = policy, !.need = need]
Spike(size, need, judge) ==
  [Step("spike") EXCEPT !.size = size, !.need = need, !.judge = judge]
Nap == Step("nap")
Ask(policy, judge) == [Step("ask") EXCEPT !.policy = policy, !.judge = judge]
Cancel(policy) == [Step("cancel") EXCEPT !.policy = policy]
Get(expect, judge) == [Step("get") EXCEPT !.expect = expect, !.judge = judge]
Poll(target, expect, size, judge) ==
  [Step("poll") EXCEPT !.target = target, !.expect = expect, !.size = size, !.judge = judge]
Scan(judge, size) == [Step("scan") EXCEPT !.judge = judge, !.size = size]
Health(size, judge) == [Step("health") EXCEPT !.size = size, !.judge = judge]
Caught(s) == [s EXCEPT !.catch = TRUE]

-----------------------------------------------------------------------------
(* How a test goes on.                                                     *)

NoTally == [ok |-> 0, bad |-> 0, retry |-> 0]
Add(field) == [tally EXCEPT ![field] = @ + 1]

Rest == n' = 0 /\ tries' = 0 /\ last' = "none"
Proceed == step' = step + 1 /\ Rest /\ tally' = NoTally /\ UNCHANGED outcome
SkipTwo == step' = step + 3 /\ Rest /\ tally' = NoTally /\ UNCHANGED outcome
ProceedCounting == step' = step + 1 /\ Rest /\ UNCHANGED <<tally, outcome>>
Once == n' = n + 1 /\ UNCHANGED <<step, tries, last, tally, outcome>>
Stop(how) == outcome' = how /\ UNCHANGED <<step, n, tries, last, tally>>
Fail == Stop("failed")
Judge(ok) == IF ok THEN Proceed ELSE Fail

\* The last of the step's requests has been answered, or there are more.
Counting(s, ok, t) ==
  IF n + 1 < s.size THEN n' = n + 1 /\ tally' = t /\ UNCHANGED <<step, tries, last, outcome>>
  ELSE Judge(ok)

Printed(what) == report' = report \cup {what}

LastId == IF ids = <<>> THEN NoId ELSE ids[Len(ids)]

-----------------------------------------------------------------------------
(* Requests.                                                               *)

\* await createJob(...), as often as the step says.
DoPost(s) ==
  /\ s.op = "post"
  /\ \/ \E r \in Routes(s.ahead) :
          /\ Accept(s.kind, r)
          /\ ids' = Append(ids, Fresh)
          /\ IF s.expect = {} \/ r \in s.expect THEN Counting(s, TRUE, tally) ELSE Fail
          /\ UNCHANGED windowVars
     \/ /\ Trouble /\ AcceptUnseen(s.kind)
        /\ \/ s.policy = "lax" /\ ids' = Append(ids, NoId) /\ Counting(s, TRUE, tally)
           \/ s.policy = "skip" /\ UNCHANGED ids /\ Counting(s, TRUE, tally)
           \/ Fail /\ UNCHANGED ids
  /\ UNCHANGED <<levelVars, report>>

\* Promise.all over concurrent requests for jobs the test looks at later.
DoBurst(s) ==
  /\ s.op = "burst"
  /\ \/ /\ Accept(s.kind, "QUEUED")
        /\ ids' = Append(ids, Fresh)
        /\ Counting(s, tally.ok + 1 >= s.need, Add("ok"))
        /\ UNCHANGED windowVars
     \/ /\ Trouble /\ AcceptUnseen(s.kind)
        /\ ids' = (IF s.policy = "lax" THEN Append(ids, NoId) ELSE ids)
        /\ Counting(s, tally.ok >= s.need, Add("bad"))
     \/ /\ Trouble /\ ~s.catch /\ AcceptUnseen(s.kind)
        /\ Fail /\ UNCHANGED ids
  /\ UNCHANGED <<levelVars, report>>

\* Variant: every level with failures overwrites the threshold.
SpikeRowLast(s, bad) ==
  IF n + 1 < s.size \/ s.judge = "none" THEN UNCHANGED <<fails, first>>
  ELSE /\ fails' = Append(fails, bad)
       /\ first' = IF s.judge = "threshold" /\ bad > 0 THEN Len(fails) + 1 ELSE first

\* A stress level's failures are noted when its last answer is there, in
\* scalability-test.js with the first level that has any.
SpikeRow(s, bad) ==
  IF n + 1 < s.size \/ s.judge = "none" THEN UNCHANGED <<fails, first>>
  ELSE /\ fails' = Append(fails, bad)
       /\ first' = IF s.judge = "threshold" /\ bad > 0 /\ first = 0 THEN Len(fails) + 1 ELSE first

\* Promise.all over requests for LOG jobs nobody looks at later.
DoSpike(s) ==
  /\ s.op = "spike"
  /\ \/ /\ others' = TRUE /\ UNCHANGED <<recent, older, jobVars>>
        /\ Counting(s, tally.ok + 1 >= s.need, Add("ok"))
        /\ SpikeRow(s, tally.bad)
     \/ /\ Trouble /\ AcceptUnseen("log")
        /\ Counting(s, tally.ok >= s.need, Add("bad"))
        /\ SpikeRow(s, tally.bad + 1)
     \/ /\ Trouble /\ ~s.catch /\ AcceptUnseen("log")
        /\ Fail /\ UNCHANGED <<fails, first>>
  /\ UNCHANGED <<ids, polling, flight, strays, report>>

\* stressResults.find(r => r.failCount > 0), after the last level.
FindThreshold(s) ==
  /\ s.op = "find"
  /\ \/ first' = 0 /\ \A l \in 1 .. Len(fails) : fails[l] = 0
     \/ \E l \in 1 .. Len(fails) :
          first' = l /\ fails[l] > 0 /\ \A k \in 1 .. l - 1 : fails[k] = 0
  /\ Proceed
  /\ UNCHANGED <<serverVars, ids, polling, flight, strays, fails, report>>

\* A request whose good answer does not depend on the jobs.  The status counts
\* are queried one after the other: a job that moves meanwhile is counted twice
\* or not at all; and TOTAL grows by the job that was created, if it was.
DoAsk(s) ==
  /\ s.op = "ask"
  /\ \/ /\ Judge(TRUE)
        /\ IF s.judge = "stats" THEN Printed("stats") ELSE UNCHANGED report
     \/ /\ Trouble \/ s.judge = "sum" \/ (s.judge = "grown" /\ LastId = NoId)
        /\ Judge(s.policy # "assert") /\ UNCHANGED report
     \/ Trouble /\ ~s.catch /\ Fail /\ UNCHANGED report
  /\ UNCHANGED <<serverVars, ids, levelVars>>

\* POST /jobs/{id}/cancel for the last job; the flag may be set though the
\* answer is lost.
DoCancel(s) ==
  /\ s.op = "cancel"
  /\ LET i == LastId IN
       \/ i # NoId /\ Flag(i) /\ Proceed
       \/ /\ Trouble \/ i = NoId
          /\ IF i # NoId THEN Flag(i) \/ UNCHANGED jobVars ELSE UNCHANGED jobVars
          /\ Judge(s.policy # "assert") \/ (Trouble /\ Fail)
  /\ UNCHANGED <<windowVars, ids, levelVars, report>>

\* A sleep of a second or more: what was in the window at its beginning has
\* left it at its end.
FallAsleep(s) ==
  /\ s.op = "nap" /\ n = 0
  /\ older' = recent /\ UNCHANGED <<recent, others, jobVars>>
  /\ Once
  /\ UNCHANGED <<ids, levelVars, report>>

WakeUp(s) ==
  /\ s.op = "nap" /\ n = 1
  /\ recent' = recent - older /\ older' = 0 /\ UNCHANGED <<others, jobVars>>
  /\ ProceedCounting
  /\ UNCHANGED <<ids, levelVars, report>>

-----------------------------------------------------------------------------
(* Looking at jobs.                                                        *)

\* What a GET may show, and the exception it may end with.
Reads(i) == {Seen(i)} \cup (IF Trouble THEN {"none"} ELSE {})
Throws(s) == Trouble /\ ~s.catch /\ Fail

\* Variant: the retry count is not looked at.
DoGetUncounted(s) ==
  /\ s.op = "get"
  /\ LET i == LastId IN
       \/ \E r \in Reads(i) :
            /\ Judge(s.expect = {} \/ r \in s.expect)
            /\ IF s.judge = "bypassed" /\ r = "RETRY"
                 THEN Printed("bypassed") ELSE UNCHANGED report
       \/ Throws(s) /\ UNCHANGED report
  /\ UNCHANGED <<serverVars, ids, levelVars>>

\* The last job, once.  A job that is RETRY without an attempt has been put off.
DoGet(s) ==
  /\ s.op = "get"
  /\ LET i == LastId IN
       \/ \E r \in Reads(i) :
            /\ Judge(s.expect = {} \/ r \in s.expect)
            /\ IF s.judge = "bypassed" /\ r = "RETRY" /\ retries[i] = 0
                 THEN Printed("bypassed") ELSE UNCHANGED report
       \/ Throws(s) /\ UNCHANGED report
  /\ UNCHANGED <<serverVars, ids, levelVars>>

\* pollJobStatus: a sample, until it shows a target ...
PollSample(s) ==
  /\ s.op = "poll" /\ tries < s.size
  /\ LET i == LastId IN
       \/ \E r \in Reads(i) :
            IF r \in s.target
              THEN Judge(r \in s.expect /\ (s.judge = "exhausted" => retries[i] >= MaxRetry))
              ELSE /\ tries' = tries + 1
                   /\ last' = IF r = "none" THEN last ELSE r
                   /\ UNCHANGED <<step, n, tally, outcome>>
       \/ Throws(s)
  /\ UNCHANGED <<serverVars, ids, levelVars, report>>

\* ... or the time is over, which it never is before the first sample; a poll
\* that counts its samples takes them all.
PollTimeout(s) ==
  /\ s.op = "poll" /\ tries > 0
  /\ s.judge = "counted" => tries = s.size
  /\ Judge(last \in s.expect)
  /\ UNCHANGED <<serverVars, ids, levelVars, report>>

\* All jobs of the test, one after the other.
ScanRead(s) ==
  /\ s.op = "scan" /\ n < Len(ids)
  /\ \/ \E r \in Reads(ids[n + 1]) :
          /\ n' = n + 1
          /\ tally' = CASE r = "COMPLETED" -> Add("ok")
                        [] r = "RETRY" -> Add("retry")
                        [] r = "FAILED" -> Add("bad")
                        [] OTHER -> tally
          /\ UNCHANGED <<step, tries, last, outcome>>
     \/ Throws(s)
  /\ UNCHANGED <<serverVars, ids, levelVars, report>>

\* Variant: the count goes on from one scan of a wait to the next.
AgainCounting == n' = 0 /\ tries' = tries + 1 /\ UNCHANGED <<step, last, tally, outcome>>

\* The next scan of a wait for all jobs.
Again == n' = 0 /\ tally' = NoTally /\ tries' = tries + 1 /\ UNCHANGED <<step, last, outcome>>

AllDone == tally.ok = Len(ids)

ScanJudge(s) ==
  /\ s.op = "scan" /\ n = Len(ids)
  /\ \/ s.judge = "none" /\ Proceed /\ UNCHANGED report
     \/ s.judge = "all" /\ Judge(AllDone) /\ UNCHANGED report
     \/ s.judge = "atLeast" /\ Judge(tally.ok >= s.size) /\ UNCHANGED report
     \/ s.judge = "some" /\ Judge(tally.retry + tally.bad > 0) /\ UNCHANGED report
     \* Only if the rate limiter has engaged are the next two steps taken.
     \/ /\ s.judge = "throttled"
        /\ IF tally.retry > 0 THEN Proceed /\ Printed("throttled") ELSE SkipTwo /\ UNCHANGED report
     \/ /\ s.judge = "recovered"
        /\ IF AllDone THEN Printed("recovered") ELSE UNCHANGED report
        /\ Proceed
     \* Again, until all are done or the attempts are used up.
     \/ /\ s.judge = "until" /\ UNCHANGED report
        /\ IF AllDone \/ tries + 1 = s.size THEN Judge(AllDone)
           ELSE Again
  /\ UNCHANGED <<serverVars, ids, levelVars>>

-----------------------------------------------------------------------------
(* Is the server there?  The scripts give up after the last attempt; one   *)
(* of them ("lenient") only if that attempt was answered.                  *)

\* Variant: the attempts just run out.
DoHealthEndless(s) ==
  /\ s.op = "health"
  /\ \/ Proceed /\ Printed("healthy")
     \/ /\ Trouble /\ UNCHANGED report
        /\ IF n + 1 < s.size THEN Once ELSE Proceed
  /\ UNCHANGED <<serverVars, ids, levelVars>>

DoHealth(s) ==
  /\ s.op = "health"
  /\ \/ Proceed /\ Printed("healthy")
     \/ /\ Trouble /\ UNCHANGED report
        /\ IF n + 1 < s.size THEN Once
           ELSE Stop("quit") \/ (s.judge = "lenient" /\ Proceed)
  /\ UNCHANGED <<serverVars, ids, levelVars>>

ClientTypeOK ==
  /\ step \in Nat /\ n \in Nat /\ tries \in Nat
  /\ last \in Statuses \cup {"NONE", "none"}
  /\ tally \in [ok : Nat, bad : Nat, retry : Nat]
  /\ outcome \in {"running", "failed", "quit"}
  /\ ids \in Seq(Ids \cup {NoId})
  /\ polling \in SUBSET Ids
  /\ flight \in Nat /\ strays \in Nat
  /\ fails \in Seq(Nat) /\ first \in Nat
  /\ report \in SUBSET {"healthy", "stats", "throttled", "recovered", "bypassed",
                        "autoRecovered"}

ClientInit ==
  /\ step = 1 /\ n = 0 /\ tries = 0 /\ last = "none" /\ tally = NoTally
  /\ outcome = "running"
  /\ ids = <<>> /\ polling = {} /\ flight = 0 /\ strays = 0
  /\ fails = <<>> /\ first = 0 /\ report = {}

ClientStep(s) ==
  \/ DoPost(s) \/ DoBurst(s) \/ DoSpike(s) \/ FindThreshold(s)
  \/ DoAsk(s) \/ DoCancel(s) \/ FallAsleep(s) \/ WakeUp(s)
  \/ DoGet(s) \/ PollSample(s) \/ PollTimeout(s) \/ ScanRead(s) \/ ScanJudge(s)
  \/ DoHealth(s)
=============================================================================
