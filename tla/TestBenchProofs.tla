--------------------------- MODULE TestBenchProofs ---------------------------
(***************************************************************************)
(* What holds of every run of the scripts, for every size of their tests:  *)
(* types, the numbers of e2e-test.js, what "bypassed" says of a job, the   *)
(* look at the server that comes first, the threshold of the stress levels *)
(* and the rows of the fixed-rate levels.                                  *)
(***************************************************************************)
EXTENDS TestBench, TLAPS

(***************************************************************************)
(* What the service does.                                                  *)
(***************************************************************************)

JobsTypeOK ==
  /\ status \in [Ids -> Statuses \cup {"NONE"}]
  /\ retries \in [Ids -> 0 .. MaxRetry]
  /\ kind \in [Ids -> Kinds]
  /\ flagged \in SUBSET Ids /\ checked \in SUBSET Ids /\ started \in SUBSET Ids
  /\ repeated \in SUBSET Ids

WindowTypeOK ==
  /\ recent \in 0 .. Limit /\ older \in 0 .. Limit /\ older <= recent
  /\ others \in BOOLEAN

LEMMA ConstantsOK == MaxJob \in Nat /\ MaxRetry \in Nat /\ Limit \in Nat /\ Limit > 0
BY ServerAssumption

LEMMA ServerTypes == ServerTypeOK /\ older <= recent <=> JobsTypeOK /\ WindowTypeOK
BY DEF ServerTypeOK, JobsTypeOK, WindowTypeOK

\* A move of JobLifecycle keeps the rows in their types.
LEMMA MoveTypes ==
  ASSUME NEW i \in Ids, JobsTypeOK,
         \/ Life!Schedule(i) \/ Life!Enqueue(i) \/ Life!Start(i) \/ Life!Defer(i)
         \/ Life!Cancel(i) \/ Life!Complete(i) \/ Life!Retry(i) \/ Life!GiveUp(i)
  PROVE  /\ status' \in [Ids -> Statuses \cup {"NONE"}]
         /\ retries' \in [Ids -> 0 .. MaxRetry]
BY ConstantsOK
   DEF JobsTypeOK, Statuses, Final, Life!Schedule, Life!Enqueue, Life!Start, Life!Defer,
       Life!Cancel, Life!Complete, Life!Retry, Life!GiveUp, Life!Move

LEMMA LetThroughTypes ==
  ASSUME WindowTypeOK, LetThrough, UNCHANGED <<older, others>>
  PROVE  WindowTypeOK'
BY ConstantsOK DEF WindowTypeOK, LetThrough

LEMMA CopyTypes ==
  ASSUME NEW i \in Ids, NEW s \in Statuses, JobsTypeOK, SaveCopy(i, s)
  PROVE  /\ status' = [status EXCEPT ![i] = s]
         /\ \A k \in Ids : k # i => status'[k] = status[k] /\ retries'[k] = retries[k]
         /\ status' \in [Ids -> Statuses \cup {"NONE"}]
         /\ retries' \in [Ids -> 0 .. MaxRetry]
<1>1. PICK c \in CopiedCounts(i) : retries' = [retries EXCEPT ![i] = c]
  BY DEF SaveCopy
<1>2. c \in 0 .. MaxRetry
  BY <1>1, ConstantsOK DEF CopiedCounts
<1> QED BY <1>1, <1>2 DEF SaveCopy, JobsTypeOK

\* What a step on a repeated job may change: the row is what an old copy said, the
\* job is marked as repeated, and it shows an execution only if there was one.
LEMMA AgainChanges ==
  ASSUME NEW i \in Ids, AgainStep(i)
  PROVE  /\ UNCHANGED <<kind, flagged, checked>>
         /\ repeated' = repeated \cup {i}
         /\ started' = started \/ started' = started \cup {i}
         /\ \/ UNCHANGED <<status, retries>>
            \/ \E s \in Statuses :
                 SaveCopy(i, s) /\ (s \in {"PROCESSING", "COMPLETED"} => i \in started')
         /\ UNCHANGED windowVars \/ (LetThrough /\ UNCHANGED <<older, others>>)
         /\ status[i] # "NONE" \/ i \in repeated
<1>1. {"SCHEDULED", "QUEUED", "CANCELLED", "RETRY", "PROCESSING", "COMPLETED", "FAILED"}
        \subseteq Statuses
  BY DEF Statuses, Final
<1>2. CASE SaveAgain(i)
  BY <1>1, <1>2 DEF SaveAgain
<1>3. CASE Redeliver(i)
  BY <1>3 DEF Redeliver
<1>4. CASE CancelAgain(i)
  BY <1>1, <1>4 DEF CancelAgain
<1>5. CASE DeferAgain(i)
  BY <1>1, <1>5 DEF DeferAgain
<1>6. CASE StartAgain(i)
  BY <1>1, <1>6 DEF StartAgain, windowVars
<1>7. CASE DropAgain(i)
  BY <1>7 DEF DropAgain, jobVars
<1>8. CASE EndAgain(i)
  BY <1>1, <1>8 DEF EndAgain
<1> QED BY <1>2, <1>3, <1>4, <1>5, <1>6, <1>7, <1>8 DEF AgainStep

\* Every step of the service keeps its types.
LEMMA ServerKeepsTypes ==
  ASSUME JobsTypeOK, WindowTypeOK, ServerStep
  PROVE  JobsTypeOK' /\ WindowTypeOK'
<1>1. CASE \E i \in Ids : LookForFlag(i) \/ HonourFlag(i) \/ EndAttempt(i) \/ MoveOn(i)
  <2> PICK i \in Ids : LookForFlag(i) \/ HonourFlag(i) \/ EndAttempt(i) \/ MoveOn(i)
    BY <1>1
  <2>1. WindowTypeOK'
    BY DEF WindowTypeOK, windowVars, LookForFlag, HonourFlag, EndAttempt, MoveOn
  <2>2. CASE LookForFlag(i)
    BY <2>1, <2>2 DEF JobsTypeOK, LookForFlag
  <2>3. CASE HonourFlag(i) \/ EndAttempt(i) \/ MoveOn(i)
    <3>1. /\ status' \in [Ids -> Statuses \cup {"NONE"}]
          /\ retries' \in [Ids -> 0 .. MaxRetry]
      BY <2>3, MoveTypes DEF HonourFlag, EndAttempt, MoveOn
    <3>2. UNCHANGED <<kind, flagged, checked, started, repeated>>
      BY <2>3 DEF HonourFlag, EndAttempt, MoveOn
    <3> QED BY <2>1, <3>1, <3>2 DEF JobsTypeOK
  <2> QED BY <2>2, <2>3
<1>2. CASE \E i \in Ids : StartJob(i)
  <2> PICK i \in Ids : StartJob(i)
    BY <1>2
  <2>1. /\ status' \in [Ids -> Statuses \cup {"NONE"}]
        /\ retries' \in [Ids -> 0 .. MaxRetry]
    BY MoveTypes DEF StartJob
  <2>2. JobsTypeOK'
    BY <2>1 DEF JobsTypeOK, StartJob
  <2>3. CASE kind[i] = "log"
    BY <2>2, <2>3, LetThroughTypes DEF StartJob
  <2>4. CASE kind[i] # "log"
    BY <2>2, <2>4 DEF WindowTypeOK, StartJob
  <2> QED BY <2>3, <2>4
<1>3. CASE \E i \in Ids : DeferJob(i)
  <2> PICK i \in Ids : DeferJob(i)
    BY <1>3
  <2>1. /\ status' \in [Ids -> Statuses \cup {"NONE"}]
        /\ retries' \in [Ids -> 0 .. MaxRetry]
    BY MoveTypes DEF DeferJob
  <2> QED BY <2>1 DEF JobsTypeOK, WindowTypeOK, windowVars, DeferJob
<1>4. CASE SlideWindow
  BY <1>4, ConstantsOK DEF JobsTypeOK, WindowTypeOK, SlideWindow, jobVars
<1>5. CASE OtherStarts
  BY <1>5, LetThroughTypes DEF JobsTypeOK, OtherStarts, jobVars
<1>6. CASE OtherComes \/ OthersGone
  BY <1>6 DEF JobsTypeOK, WindowTypeOK, OtherComes, OthersGone, jobVars
<1>7. CASE \E i \in Ids : AgainStep(i)
  <2> PICK i \in Ids : AgainStep(i)
    BY <1>7
  <2>1. /\ status' \in [Ids -> Statuses \cup {"NONE"}]
        /\ retries' \in [Ids -> 0 .. MaxRetry]
    BY AgainChanges, CopyTypes DEF JobsTypeOK
  <2>2. JobsTypeOK'
    BY <2>1, AgainChanges DEF JobsTypeOK
  <2>3. WindowTypeOK'
    BY AgainChanges, LetThroughTypes DEF WindowTypeOK, windowVars
  <2> QED BY <2>2, <2>3
<1> QED BY <1>1, <1>2, <1>3, <1>4, <1>5, <1>6, <1>7 DEF ServerStep

(***************************************************************************)
(* What a client does to the service.                                      *)
(***************************************************************************)

LEMMA FreshFree == Free # {} => Fresh \in Free /\ Fresh \in Ids
BY DEF Fresh, Free

LEMMA AcceptTypes ==
  ASSUME JobsTypeOK, NEW k, NEW r \in {"QUEUED", "PENDING"}, Accept(k, r)
  PROVE  JobsTypeOK'
BY FreshFree DEF JobsTypeOK, Accept, Statuses

LEMMA RoutesTypes == \A a : Routes(a) \subseteq {"QUEUED", "PENDING"}
BY DEF Routes

LEMMA UnseenTypes ==
  ASSUME JobsTypeOK, WindowTypeOK, NEW k, AcceptUnseen(k)
  PROVE  JobsTypeOK' /\ WindowTypeOK'
<1>1. others' \in BOOLEAN
  BY DEF AcceptUnseen, WindowTypeOK
<1>2. UNCHANGED <<recent, older, status, retries, kind, flagged, checked, started, repeated>>
  BY DEF AcceptUnseen, jobVars
<1> QED BY <1>1, <1>2 DEF JobsTypeOK, WindowTypeOK

LEMMA OthersTypes ==
  ASSUME JobsTypeOK, WindowTypeOK, others' = TRUE, UNCHANGED <<recent, older, jobVars>>
  PROVE  JobsTypeOK' /\ WindowTypeOK'
BY DEF JobsTypeOK, WindowTypeOK, jobVars

LEMMA SameServer ==
  ASSUME JobsTypeOK, WindowTypeOK, UNCHANGED serverVars
  PROVE  JobsTypeOK' /\ WindowTypeOK'
BY DEF JobsTypeOK, WindowTypeOK, serverVars, jobVars, windowVars

LEMMA ForgetTypes ==
  ASSUME JobsTypeOK, WindowTypeOK, Forget
  PROVE  JobsTypeOK' /\ WindowTypeOK'
<1>1. others' \in BOOLEAN
  BY DEF Forget, WindowTypeOK
<1>2. JobsTypeOK'
  BY ConstantsOK DEF Forget, JobsTypeOK, Kinds
<1>3. UNCHANGED <<recent, older>>
  BY DEF Forget
<1> QED BY <1>1, <1>2, <1>3 DEF WindowTypeOK

(***************************************************************************)
(* How a test goes on.                                                     *)
(***************************************************************************)

Tallies == [ok : Nat, bad : Nat, retry : Nat]

ProgressOK ==
  /\ step \in Nat /\ n \in Nat /\ tries \in Nat
  /\ last \in Statuses \cup {"NONE", "none"}
  /\ tally \in Tallies
  /\ outcome \in {"running", "failed", "quit"}

LevelsOK ==
  /\ polling \in SUBSET Ids
  /\ flight \in Nat /\ strays \in Nat
  /\ fails \in Seq(Nat) /\ first \in Nat

IdsOK == ids \in Seq(Ids \cup {NoId})

Prints == {"healthy", "stats", "throttled", "recovered", "bypassed", "autoRecovered"}

ReportOK == report \in SUBSET Prints

LEMMA ClientTypes == ClientTypeOK <=> ProgressOK /\ LevelsOK /\ IdsOK /\ ReportOK
BY DEF ClientTypeOK, ProgressOK, LevelsOK, IdsOK, ReportOK, Prints, Tallies

LEMMA AddTypes ==
  ASSUME ProgressOK, NEW f \in {"ok", "bad", "retry"}
  PROVE  Add(f) \in Tallies
BY DEF Add, ProgressOK, Tallies

\* The ways a step may end keep the types of what records the progress.
LEMMA ProgressTypes ==
  ASSUME ProgressOK,
         \/ Proceed \/ SkipTwo \/ ProceedCounting \/ Once \/ Fail
         \/ Stop("quit") \/ UNCHANGED progressVars \/ Judge(TRUE) \/ Judge(FALSE)
         \/ Again
  PROVE  ProgressOK'
BY DEF ProgressOK, Proceed, SkipTwo, ProceedCounting, Once, Fail, Stop, Judge, Rest,
       progressVars, NoTally, Tallies, Again

LEMMA JudgeTypes ==
  ASSUME ProgressOK, NEW ok, Judge(ok)
  PROVE  ProgressOK'
BY ProgressTypes DEF Judge

LEMMA CountingTypes ==
  ASSUME ProgressOK, NEW s, NEW ok, NEW t \in Tallies, Counting(s, ok, t)
  PROVE  ProgressOK'
<1>1. CASE n + 1 < s.size
  BY <1>1 DEF Counting, ProgressOK
<1>2. CASE ~(n + 1 < s.size)
  BY <1>2, JudgeTypes DEF Counting
<1> QED BY <1>1, <1>2

LEMMA PrintedTypes ==
  ASSUME ReportOK, (\E what \in Prints : Printed(what)) \/ UNCHANGED report
  PROVE  ReportOK'
BY DEF ReportOK, Printed

LEMMA LastIdTypes == ASSUME IdsOK PROVE LastId \in Ids \cup {NoId}
BY DEF IdsOK, LastId

(***************************************************************************)
(* Every step of a test keeps the types.                                   *)
(***************************************************************************)

StepTypeOK ==
  JobsTypeOK /\ WindowTypeOK /\ ProgressOK /\ LevelsOK /\ IdsOK /\ ReportOK

LEMMA SameWindow ==
  ASSUME WindowTypeOK, UNCHANGED windowVars
  PROVE  WindowTypeOK'
BY DEF WindowTypeOK, windowVars

LEMMA SameLevels ==
  ASSUME LevelsOK, UNCHANGED levelVars
  PROVE  LevelsOK'
BY DEF LevelsOK, levelVars

LEMMA RequestsKeepTypes ==
  ASSUME StepTypeOK, NEW s, DoPost(s) \/ DoBurst(s)
  PROVE  StepTypeOK'
<1>1. LevelsOK' /\ ReportOK'
  <2>1. UNCHANGED <<levelVars, report>>
    BY DEF DoPost, DoBurst
  <2> QED BY <2>1, SameLevels, PrintedTypes DEF StepTypeOK
<1>2. ASSUME NEW r \in {"QUEUED", "PENDING"}, Accept(s.kind, r), ids' = Append(ids, Fresh),
             UNCHANGED windowVars
      PROVE  JobsTypeOK' /\ WindowTypeOK' /\ IdsOK'
  <2>1. Fresh \in Ids
    BY <1>2, FreshFree DEF Accept
  <2> QED BY <1>2, <2>1, AcceptTypes, SameWindow DEF StepTypeOK, IdsOK
<1>3. ASSUME AcceptUnseen(s.kind), ids' = Append(ids, NoId) \/ UNCHANGED ids
      PROVE  JobsTypeOK' /\ WindowTypeOK' /\ IdsOK'
  BY <1>3, UnseenTypes DEF StepTypeOK, IdsOK
<1>4. CASE DoPost(s)
  <2>1. CASE \E r \in Routes(s.ahead) :
               /\ Accept(s.kind, r)
               /\ ids' = Append(ids, Fresh)
               /\ IF s.expect = {} \/ r \in s.expect THEN Counting(s, TRUE, tally) ELSE Fail
               /\ UNCHANGED windowVars
    <3>1. JobsTypeOK' /\ WindowTypeOK' /\ IdsOK'
      BY <2>1, <1>2, RoutesTypes
    <3>2. Counting(s, TRUE, tally) \/ Fail
      BY <2>1
    <3>3. ProgressOK'
      <4>1. CASE Counting(s, TRUE, tally)
        BY <4>1, CountingTypes DEF StepTypeOK, ProgressOK
      <4>2. CASE Fail
        BY <4>2, ProgressTypes DEF StepTypeOK
      <4> QED BY <3>2, <4>1, <4>2
    <3> QED BY <1>1, <3>1, <3>3 DEF StepTypeOK
  <2>2. CASE /\ Trouble /\ AcceptUnseen(s.kind)
             /\ \/ s.policy = "lax" /\ ids' = Append(ids, NoId) /\ Counting(s, TRUE, tally)
                \/ s.policy = "skip" /\ UNCHANGED ids /\ Counting(s, TRUE, tally)
                \/ Fail /\ UNCHANGED ids
    <3>1. JobsTypeOK' /\ WindowTypeOK' /\ IdsOK'
      BY <2>2, <1>3
    <3>2. CASE Counting(s, TRUE, tally)
      BY <3>1, <3>2, <1>1, CountingTypes DEF StepTypeOK, ProgressOK
    <3>3. CASE Fail
      BY <3>1, <3>3, <1>1, ProgressTypes DEF StepTypeOK
    <3> QED BY <2>2, <3>2, <3>3
  <2> QED BY <1>4, <2>1, <2>2 DEF DoPost
<1>5. CASE DoBurst(s)
  <2>1. CASE /\ Accept(s.kind, "QUEUED")
             /\ ids' = Append(ids, Fresh)
             /\ Counting(s, tally.ok + 1 >= s.need, Add("ok"))
             /\ UNCHANGED windowVars
    <3>1. ProgressOK'
      BY <2>1, AddTypes, CountingTypes DEF StepTypeOK
    <3> QED BY <2>1, <3>1, <1>1, <1>2 DEF StepTypeOK
  <2>2. CASE /\ Trouble /\ AcceptUnseen(s.kind)
             /\ ids' = (IF s.policy = "lax" THEN Append(ids, NoId) ELSE ids)
             /\ Counting(s, tally.ok >= s.need, Add("bad"))
    <3>1. ProgressOK'
      BY <2>2, AddTypes, CountingTypes DEF StepTypeOK
    <3> QED BY <2>2, <3>1, <1>1, <1>3 DEF StepTypeOK
  <2>3. CASE /\ Trouble /\ ~s.catch /\ AcceptUnseen(s.kind)
             /\ Fail /\ UNCHANGED ids
    <3>1. ProgressOK'
      BY <2>3, ProgressTypes DEF StepTypeOK
    <3> QED BY <2>3, <3>1, <1>1, <1>3 DEF StepTypeOK
  <2> QED BY <1>5, <2>1, <2>2, <2>3 DEF DoBurst
<1> QED BY <1>4, <1>5

LEMMA LevelTypes ==
  ASSUME StepTypeOK, NEW s, NEW bad \in Nat,
         SpikeRow(s, bad) \/ UNCHANGED <<fails, first>>,
         UNCHANGED <<polling, flight, strays>>
  PROVE  LevelsOK'
<1>1. fails \in Seq(Nat) /\ first \in Nat
  BY DEF StepTypeOK, LevelsOK
<1>2. CASE UNCHANGED <<fails, first>>
  BY <1>2 DEF StepTypeOK, LevelsOK
<1>3. CASE fails' = Append(fails, bad) /\ first' \in {first, Len(fails) + 1}
  <2>1. fails' \in Seq(Nat)
    BY <1>1, <1>3
  <2>2. first' \in Nat
    BY <1>1, <1>3
  <2> QED BY <2>1, <2>2 DEF StepTypeOK, LevelsOK
<1> QED BY <1>2, <1>3 DEF SpikeRow

LEMMA SpikeKeepsTypes ==
  ASSUME StepTypeOK, NEW s, DoSpike(s)
  PROVE  StepTypeOK'
<1>1. IdsOK' /\ ReportOK' /\ UNCHANGED <<polling, flight, strays>>
  BY PrintedTypes DEF StepTypeOK, DoSpike, IdsOK
<1>2. tally.bad \in Nat /\ tally.bad + 1 \in Nat
  BY DEF StepTypeOK, ProgressOK, Tallies
<1>3. CASE /\ others' = TRUE /\ UNCHANGED <<recent, older, jobVars>>
           /\ Counting(s, tally.ok + 1 >= s.need, Add("ok"))
           /\ SpikeRow(s, tally.bad)
  <2>1. ProgressOK'
    BY <1>3, AddTypes, CountingTypes DEF StepTypeOK
  <2>2. LevelsOK'
    BY <1>1, <1>2, <1>3, LevelTypes
  <2> QED BY <1>1, <1>3, <2>1, <2>2, OthersTypes DEF StepTypeOK
<1>4. CASE /\ Trouble /\ AcceptUnseen("log")
           /\ Counting(s, tally.ok >= s.need, Add("bad"))
           /\ SpikeRow(s, tally.bad + 1)
  <2>1. ProgressOK'
    BY <1>4, AddTypes, CountingTypes DEF StepTypeOK
  <2>2. LevelsOK'
    BY <1>1, <1>2, <1>4, LevelTypes
  <2> QED BY <1>1, <1>4, <2>1, <2>2, UnseenTypes DEF StepTypeOK
<1>5. CASE /\ Trouble /\ ~s.catch /\ AcceptUnseen("log")
           /\ Fail /\ UNCHANGED <<fails, first>>
  <2>1. ProgressOK'
    BY <1>5, ProgressTypes DEF StepTypeOK
  <2>2. LevelsOK'
    BY <1>1, <1>2, <1>5, LevelTypes
  <2> QED BY <1>1, <1>5, <2>1, <2>2, UnseenTypes DEF StepTypeOK
<1> QED BY <1>3, <1>4, <1>5 DEF DoSpike

\* Steps that leave the service alone and do no more than look.
LEMMA LookingKeepsTypes ==
  ASSUME StepTypeOK, NEW s,
         DoGet(s) \/ PollTimeout(s) \/ ScanJudge(s) \/ DoHealth(s) \/ DoAsk(s)
  PROVE  StepTypeOK'
<1>1. UNCHANGED <<serverVars, ids, levelVars>>
  BY DEF DoGet, PollTimeout, ScanJudge, DoHealth, DoAsk
<1>2. ReportOK'
  <2>1. (\E what \in Prints : Printed(what)) \/ UNCHANGED report
    BY DEF DoGet, PollTimeout, ScanJudge, DoHealth, DoAsk, Prints
  <2> QED BY <2>1, PrintedTypes DEF StepTypeOK
<1>3. ProgressOK'
  <2>1. \/ \E ok : Judge(ok)
        \/ Proceed \/ SkipTwo \/ Fail \/ Again \/ Once \/ Stop("quit")
    BY DEF DoGet, PollTimeout, ScanJudge, DoHealth, DoAsk, Throws
  <2>2. CASE \E ok : Judge(ok)
    BY <2>2, JudgeTypes DEF StepTypeOK
  <2>3. CASE Proceed \/ SkipTwo \/ Fail \/ Again \/ Once \/ Stop("quit")
    BY <2>3, ProgressTypes DEF StepTypeOK
  <2> QED BY <2>1, <2>2, <2>3
<1>4. JobsTypeOK' /\ WindowTypeOK' /\ LevelsOK' /\ IdsOK'
  BY <1>1, SameServer, SameLevels DEF StepTypeOK, IdsOK
<1> QED BY <1>2, <1>3, <1>4 DEF StepTypeOK

LEMMA FindKeepsTypes ==
  ASSUME StepTypeOK, NEW s, FindThreshold(s)
  PROVE  StepTypeOK'
<1>1. first' \in Nat
  <2>1. Len(fails) \in Nat
    BY DEF StepTypeOK, LevelsOK
  <2> QED BY <2>1 DEF FindThreshold
<1>2. LevelsOK'
  BY <1>1 DEF FindThreshold, StepTypeOK, LevelsOK
<1>3. ProgressOK'
  BY ProgressTypes DEF FindThreshold, StepTypeOK
<1>4. JobsTypeOK' /\ WindowTypeOK' /\ IdsOK' /\ ReportOK'
  BY SameServer DEF FindThreshold, StepTypeOK, IdsOK, ReportOK
<1> QED BY <1>2, <1>3, <1>4 DEF StepTypeOK

LEMMA CancelKeepsTypes ==
  ASSUME StepTypeOK, NEW s, DoCancel(s)
  PROVE  StepTypeOK'
<1>1. WindowTypeOK' /\ LevelsOK' /\ IdsOK' /\ ReportOK'
  <2>1. UNCHANGED <<windowVars, ids, levelVars, report>>
    BY DEF DoCancel
  <2> QED BY <2>1, SameWindow, SameLevels DEF StepTypeOK, IdsOK, ReportOK
<1>2. LastId \in Ids \/ LastId = NoId
  BY LastIdTypes DEF StepTypeOK
<1>3. UNCHANGED jobVars \/ (LastId \in Ids /\ Flag(LastId))
  BY <1>2 DEF DoCancel
<1>4. JobsTypeOK'
  BY <1>3 DEF StepTypeOK, JobsTypeOK, jobVars, Flag
<1>5. ProgressOK'
  <2>1. Proceed \/ Fail \/ \E ok : Judge(ok)
    BY DEF DoCancel
  <2> QED BY <2>1, JudgeTypes, ProgressTypes DEF StepTypeOK
<1> QED BY <1>1, <1>4, <1>5 DEF StepTypeOK

LEMMA NapKeepsTypes ==
  ASSUME StepTypeOK, NEW s, FallAsleep(s) \/ WakeUp(s)
  PROVE  StepTypeOK'
<1>1. JobsTypeOK' /\ LevelsOK' /\ IdsOK' /\ ReportOK'
  <2>1. UNCHANGED <<jobVars, ids, levelVars, report>>
    BY DEF FallAsleep, WakeUp
  <2> QED BY <2>1, SameLevels DEF StepTypeOK, JobsTypeOK, jobVars, IdsOK, ReportOK
<1>2. WindowTypeOK'
  BY ConstantsOK DEF FallAsleep, WakeUp, StepTypeOK, WindowTypeOK
<1>3. ProgressOK'
  <2>1. Once \/ ProceedCounting
    BY DEF FallAsleep, WakeUp
  <2> QED BY <2>1, ProgressTypes DEF StepTypeOK
<1> QED BY <1>1, <1>2, <1>3 DEF StepTypeOK

LEMMA SeenTypes ==
  ASSUME JobsTypeOK, NEW i \in Ids \cup {NoId}
  PROVE  Reads(i) \subseteq Statuses \cup {"NONE", "none"}
BY DEF Reads, Seen, JobsTypeOK

LEMMA SamplesKeepTypes ==
  ASSUME StepTypeOK, NEW s, PollSample(s) \/ ScanRead(s)
  PROVE  StepTypeOK'
<1>1. JobsTypeOK' /\ WindowTypeOK' /\ LevelsOK' /\ IdsOK' /\ ReportOK'
  <2>1. UNCHANGED <<serverVars, ids, levelVars, report>>
    BY DEF PollSample, ScanRead
  <2> QED BY <2>1, SameServer, SameLevels DEF StepTypeOK, IdsOK, ReportOK
<1>2. ASSUME PollSample(s) PROVE ProgressOK'
  <2>1. Reads(LastId) \subseteq Statuses \cup {"NONE", "none"}
    BY LastIdTypes, SeenTypes DEF StepTypeOK
  <2>2. CASE Fail \/ \E ok : Judge(ok)
    BY <2>2, JudgeTypes, ProgressTypes DEF StepTypeOK
  <2>3. CASE \E r \in Reads(LastId) :
               /\ tries' = tries + 1
               /\ last' = IF r = "none" THEN last ELSE r
               /\ UNCHANGED <<step, n, tally, outcome>>
    BY <2>1, <2>3 DEF StepTypeOK, ProgressOK
  <2> QED BY <1>2, <2>2, <2>3 DEF PollSample, Throws
<1>3. ASSUME ScanRead(s) PROVE ProgressOK'
  <2>1. CASE Fail
    BY <2>1, ProgressTypes DEF StepTypeOK
  <2>2. CASE \E r \in Reads(ids[n + 1]) :
               /\ n' = n + 1
               /\ tally' = CASE r = "COMPLETED" -> Add("ok")
                             [] r = "RETRY" -> Add("retry")
                             [] r = "FAILED" -> Add("bad")
                             [] OTHER -> tally
               /\ UNCHANGED <<step, tries, last, outcome>>
    <3>1. tally' \in {Add("ok"), Add("retry"), Add("bad"), tally}
      BY <2>2
    <3>2. tally' \in Tallies
      BY <3>1, AddTypes DEF StepTypeOK, ProgressOK
    <3> QED BY <2>2, <3>2 DEF StepTypeOK, ProgressOK
  <2> QED BY <1>3, <2>1, <2>2 DEF ScanRead, Throws
<1> QED BY <1>1, <1>2, <1>3 DEF StepTypeOK

LEMMA ClientKeepsTypes ==
  ASSUME StepTypeOK, NEW s, ClientStep(s)
  PROVE  StepTypeOK'
BY RequestsKeepTypes, SpikeKeepsTypes, LookingKeepsTypes, FindKeepsTypes, CancelKeepsTypes,
   NapKeepsTypes, SamplesKeepTypes DEF ClientStep

(***************************************************************************)
(* The kinds of step of scalability-test.js, and the strays.               *)
(***************************************************************************)

LEMMA WaveKeepsTypes ==
  ASSUME StepTypeOK, NEW s,
         WavePost(s) \/ \E i \in Ids : WaveFinished(s, i) \/ WaveTimeout(s, i)
  PROVE  StepTypeOK'
<1>1. IdsOK' /\ ReportOK' /\ UNCHANGED <<step, last, outcome, fails, first, flight, strays, tries>>
  BY DEF StepTypeOK, IdsOK, ReportOK, WavePost, WaveFinished, WaveTimeout, scaleIdle
<1>2. tally' \in Tallies /\ n' \in Nat
  <2>1. n' \in {n, n + 1}
    BY DEF WavePost, WaveFinished, WaveTimeout
  <2>2. tally' \in {tally, Add("ok"), Add("bad"), Add("retry")}
    BY DEF WavePost, WaveFinished, WaveTimeout
  <2> QED BY <2>1, <2>2, AddTypes DEF StepTypeOK, ProgressOK
<1>3. ProgressOK'
  BY <1>1, <1>2 DEF StepTypeOK, ProgressOK
<1>4. polling' \in SUBSET Ids /\ JobsTypeOK' /\ WindowTypeOK'
  <2>1. CASE WavePost(s)
    <3>1. CASE /\ Accept("log", "QUEUED")
               /\ polling' = polling \cup {Fresh}
               /\ UNCHANGED <<tally, windowVars>>
      BY <3>1, AcceptTypes, FreshFree, SameWindow DEF StepTypeOK, LevelsOK, Accept
    <3>2. CASE Trouble /\ AcceptUnseen("log") /\ tally' = Add("bad") /\ UNCHANGED polling
      BY <3>2, UnseenTypes DEF StepTypeOK, LevelsOK
    <3> QED BY <2>1, <3>1, <3>2 DEF WavePost
  <2>2. CASE \E i \in Ids : WaveFinished(s, i) \/ WaveTimeout(s, i)
    BY <2>2, SameServer DEF StepTypeOK, LevelsOK, WaveFinished, WaveTimeout
  <2> QED BY <2>1, <2>2
<1>5. LevelsOK'
  BY <1>1, <1>4 DEF StepTypeOK, LevelsOK
<1> QED BY <1>1, <1>3, <1>4, <1>5 DEF StepTypeOK

LEMMA RateKeepsTypes ==
  ASSUME StepTypeOK, NEW s, RateSend(s) \/ RateAnswer(s) \/ RateStop(s) \/ RateEnd(s)
  PROVE  StepTypeOK'
<1>1. IdsOK' /\ ReportOK' /\ UNCHANGED <<polling, fails, first>>
  BY DEF StepTypeOK, IdsOK, ReportOK, RateSend, RateAnswer, RateStop, RateEnd, scaleIdle, levelVars
<1>2. JobsTypeOK' /\ WindowTypeOK'
  BY SameServer, OthersTypes, UnseenTypes DEF StepTypeOK, RateSend, RateAnswer, RateStop, RateEnd
<1>3. LevelsOK'
  <2>1. flight' \in Nat /\ strays' \in Nat
    BY DEF StepTypeOK, LevelsOK, RateSend, RateAnswer, RateStop, RateEnd, levelVars
  <2> QED BY <1>1, <2>1 DEF StepTypeOK, LevelsOK
<1>4. ProgressOK'
  <2>1. CASE RateAnswer(s)
    <3>1. tally' \in Tallies
      BY <2>1, AddTypes DEF RateAnswer, StepTypeOK
    <3> QED BY <2>1, <3>1 DEF RateAnswer, StepTypeOK, ProgressOK
  <2>2. CASE RateSend(s) \/ RateStop(s)
    BY <2>2 DEF RateSend, RateStop, StepTypeOK, ProgressOK
  <2>3. CASE RateEnd(s)
    BY <2>3, ProgressTypes DEF RateEnd, StepTypeOK
  <2> QED BY <2>1, <2>2, <2>3
<1> QED BY <1>1, <1>2, <1>3, <1>4 DEF StepTypeOK

LEMMA PassingKeepsTypes ==
  ASSUME StepTypeOK, NEW s, DrainSample(s) \/ WaveEnd(s) \/ Summary(s)
  PROVE  StepTypeOK'
<1>1. UNCHANGED <<serverVars, ids, levelVars>>
  BY DEF DrainSample, WaveEnd, Summary
<1>2. ReportOK'
  BY PrintedTypes DEF StepTypeOK, DrainSample, WaveEnd, Summary, Prints
<1>3. ProgressOK'
  <2>1. CASE Proceed \/ ProceedCounting
    BY <2>1, ProgressTypes DEF StepTypeOK
  <2>2. CASE tries' = tries + 1 /\ UNCHANGED <<step, n, last, tally, outcome>>
    BY <2>2 DEF StepTypeOK, ProgressOK
  <2> QED BY <2>1, <2>2 DEF DrainSample, WaveEnd, Summary
<1> QED BY <1>1, <1>2, <1>3, SameServer, SameLevels DEF StepTypeOK, IdsOK

LEMMA ScaleKeepsTypes ==
  ASSUME StepTypeOK, NEW s, ScaleStep(s)
  PROVE  StepTypeOK'
BY WaveKeepsTypes, RateKeepsTypes, PassingKeepsTypes DEF ScaleStep

LEMMA StraysKeepTypes ==
  ASSUME StepTypeOK, StrayLands
  PROVE  StepTypeOK'
<1>1. JobsTypeOK' /\ WindowTypeOK'
  BY OthersTypes, UnseenTypes DEF StepTypeOK, StrayLands
<1>2. LevelsOK'
  BY DEF StepTypeOK, LevelsOK, StrayLands, scaleIdle
<1>3. UNCHANGED <<ids, report, step, n, tries, last, tally, outcome>>
  BY DEF StrayLands, scaleIdle, progressVars
<1> QED BY <1>1, <1>2, <1>3 DEF StepTypeOK, ProgressOK, IdsOK, ReportOK

(***************************************************************************)
(* Type correctness.  No more than Limit LOG jobs are in the window: that  *)
(* needs to know that what a sleep takes out of it is in it.               *)
(***************************************************************************)

PlaceOK ==
  /\ script \in Scripts /\ suite \in Nat \ {0} /\ test \in Nat \ {0}
  /\ exit \in {"running", "0", "1"}

Typed == StepTypeOK /\ CountTypeOK /\ PlaceOK

LEMMA TypedIsTypeOK == Typed <=> TypeOK /\ older <= recent
BY ServerTypes, ClientTypes DEF Typed, StepTypeOK, PlaceOK, TypeOK

LEMMA InitTyped == Init => Typed
<1> SUFFICES ASSUME Init PROVE Typed
  OBVIOUS
<1>1. JobsTypeOK
  <2>1. status = [i \in Ids |-> "NONE"] /\ retries = [i \in Ids |-> 0]
    BY DEF Init, ServerInit, Life!Init
  <2>2. /\ kind = [i \in Ids |-> "log"]
        /\ flagged = {} /\ checked = {} /\ started = {} /\ repeated = {}
    BY DEF Init, ServerInit
  <2>3. 0 \in 0 .. MaxRetry
    BY ConstantsOK
  <2>4. status \in [Ids -> Statuses \cup {"NONE"}]
    BY <2>1
  <2>5. retries \in [Ids -> 0 .. MaxRetry]
    BY <2>1, <2>3
  <2>6. kind \in [Ids -> Kinds]
    BY <2>2 DEF Kinds
  <2>7. /\ flagged \in SUBSET Ids /\ checked \in SUBSET Ids
        /\ started \in SUBSET Ids /\ repeated \in SUBSET Ids
    BY <2>2
  <2> QED BY <2>4, <2>5, <2>6, <2>7 DEF JobsTypeOK
<1>2. WindowTypeOK
  <2>1. recent = 0 /\ older = 0 /\ others = FALSE
    BY DEF Init, ServerInit
  <2>2. 0 \in 0 .. Limit
    BY ConstantsOK
  <2>3. older <= recent
    BY <2>1
  <2>4. recent \in 0 .. Limit /\ older \in 0 .. Limit
    BY <2>1, <2>2
  <2>5. others \in BOOLEAN
    BY <2>1
  <2> QED BY <2>3, <2>4, <2>5 DEF WindowTypeOK
<1>3. ProgressOK /\ LevelsOK /\ IdsOK /\ ReportOK
  BY DEF Init, ClientInit, ProgressOK, LevelsOK, IdsOK, ReportOK, NoTally, Tallies
<1>4. CountTypeOK /\ PlaceOK
  BY DEF Init, CountInit, CountTypeOK, PlaceOK
<1> QED BY <1>1, <1>2, <1>3, <1>4 DEF Typed, StepTypeOK

LEMMA CountsKeepTypes ==
  ASSUME CountTypeOK, NEW ok \in BOOLEAN, NEW lastOfSuite \in BOOLEAN,
         RunTest(ok), RunSuite(ok, lastOfSuite)
  PROVE  CountTypeOK'
BY DEF CountTypeOK, RunTest, RunSuite

LEMMA SamePlace == PlaceOK /\ UNCHANGED placeVars => PlaceOK'
BY DEF PlaceOK, placeVars

LEMMA SameCounts == CountTypeOK /\ UNCHANGED countVars => CountTypeOK'
BY DEF CountTypeOK, countVars

LEMMA FreshTestTypes ==
  ASSUME StepTypeOK, FreshTest
  PROVE  StepTypeOK'
<1>1. JobsTypeOK' /\ WindowTypeOK'
  BY ForgetTypes DEF StepTypeOK, FreshTest
<1>2. ProgressOK'
  BY DEF FreshTest, Rest, ProgressOK, NoTally, Tallies
<1>3. LevelsOK'
  BY DEF StepTypeOK, LevelsOK, FreshTest
<1>4. IdsOK' /\ ReportOK'
  BY DEF StepTypeOK, IdsOK, ReportOK, FreshTest
<1> QED BY <1>1, <1>2, <1>3, <1>4 DEF StepTypeOK

LEMMA EndTestKeepsTypes ==
  ASSUME Typed, EndTest
  PROVE  Typed'
<1>1. StepTypeOK'
  BY FreshTestTypes DEF Typed, EndTest
<1>2. PlaceOK'
  BY DEF Typed, PlaceOK, EndTest
<1>3. EndsWell \in BOOLEAN /\ (test = Len(Tests)) \in BOOLEAN
  BY DEF EndsWell
<1>4. CASE Counted
  BY <1>1, <1>2, <1>3, <1>4, CountsKeepTypes DEF Typed, EndTest
<1>5. CASE ~Counted
  BY <1>1, <1>2, <1>5, SameCounts DEF Typed, EndTest
<1> QED BY <1>4, <1>5

LEMMA SameStep ==
  ASSUME StepTypeOK, UNCHANGED <<serverVars, clientVars>>
  PROVE  StepTypeOK'
<1>1. JobsTypeOK' /\ WindowTypeOK'
  BY SameServer DEF StepTypeOK
<1>2. ProgressOK' /\ LevelsOK' /\ IdsOK' /\ ReportOK'
  BY SameLevels, ProgressTypes DEF StepTypeOK, clientVars, IdsOK, ReportOK
<1> QED BY <1>1, <1>2 DEF StepTypeOK

LEMMA NextKeepsTypes ==
  ASSUME Typed, [Next]_vars
  PROVE  Typed'
<1>1. CASE DoStep
  BY <1>1, ClientKeepsTypes, ScaleKeepsTypes, SamePlace, SameCounts DEF DoStep, Typed
<1>2. CASE EndTest
  BY <1>2, EndTestKeepsTypes
<1>3. CASE Quit \/ Conclude
  <2>1. StepTypeOK' /\ CountTypeOK'
    BY <1>3, SameStep, SameCounts DEF Typed, Quit, Conclude
  <2>2. PlaceOK'
    BY <1>3 DEF Typed, PlaceOK, Quit, Conclude, E2EExit
  <2> QED BY <2>1, <2>2 DEF Typed
<1>4. CASE Meanwhile
  <2>1. StepTypeOK'
    <3>1. CASE ServerStep /\ UNCHANGED clientVars
      <4>1. JobsTypeOK' /\ WindowTypeOK'
        BY <3>1, ServerKeepsTypes DEF Typed, StepTypeOK
      <4>2. ProgressOK' /\ LevelsOK' /\ IdsOK' /\ ReportOK'
        BY <3>1, SameLevels, ProgressTypes DEF Typed, StepTypeOK, clientVars, IdsOK, ReportOK
      <4> QED BY <4>1, <4>2 DEF StepTypeOK
    <3>2. CASE StrayLands
      BY <3>2, StraysKeepTypes DEF Typed
    <3> QED BY <1>4, <3>1, <3>2 DEF Meanwhile
  <2> QED BY <1>4, <2>1, SamePlace, SameCounts DEF Meanwhile, Typed
<1>5. CASE UNCHANGED vars
  BY <1>5, SameStep, SamePlace, SameCounts DEF vars, Typed
<1> QED BY <1>1, <1>2, <1>3, <1>4, <1>5 DEF Next, ScriptNext

\* The types of the scripts' and the service's state, for every number of jobs
\* and every size of the tests; the window never holds more than Limit jobs.
THEOREM BenchTypeCorrect == Spec => []TypeOK
<1>1. Init => Typed
  BY InitTyped
<1>2. Typed /\ [Next]_vars => Typed'
  BY NextKeepsTypes
<1>3. Typed => TypeOK
  BY TypedIsTypeOK
<1> QED BY <1>1, <1>2, <1>3, PTL DEF Spec

(***************************************************************************)
(* The numbers of e2e-test.js.                                             *)
(***************************************************************************)

\* ReportAddsUp is not inductive: that the first suite starts from zero rests on
\* the preflight being counted in none.
ReportInv == ReportAddsUp /\ (suite = 1 => suitePassed = 0 /\ suiteFailed = 0)

LEMMA EndTestKeepsReport ==
  ASSUME Typed, ReportInv, EndTest
  PROVE  ReportInv'
<1>1. /\ exit = "running" /\ exit' = "running" /\ script' = script
      /\ passed = sumPassed + suitePassed /\ failed = sumFailed + suiteFailed
      /\ suite = 1 => suitePassed = 0 /\ suiteFailed = 0
      /\ Counted => suitePassed + suiteFailed = test - 1
  BY DEF EndTest, InTest, ReportInv, ReportAddsUp
<1>2. /\ suite' \in {suite, suite + 1} /\ suite \in Nat \ {0}
      /\ test = Len(Tests) => test' = 1 /\ suite' = suite + 1
      /\ test # Len(Tests) => test' = test + 1 /\ suite' = suite
      /\ test \in Nat
  BY DEF EndTest, Typed, PlaceOK
<1>3. CASE Counted
  <2>1. RunTest(EndsWell) /\ RunSuite(EndsWell, test = Len(Tests))
    BY <1>3 DEF EndTest
  <2>2. passed' = sumPassed' + suitePassed' /\ failed' = sumFailed' + suiteFailed'
    BY <1>1, <2>1 DEF RunTest, RunSuite, Typed, CountTypeOK
  <2>3. suitePassed' + suiteFailed' = test' - 1
    BY <1>1, <1>2, <1>3, <2>1 DEF RunSuite, Typed, CountTypeOK
  <2>4. suite' # 1
    BY <1>2, <1>3 DEF Counted
  <2> QED BY <1>1, <2>2, <2>3, <2>4 DEF ReportInv, ReportAddsUp
<1>4. CASE ~Counted
  <2>1. UNCHANGED <<passed, failed, suitePassed, suiteFailed, sumPassed, sumFailed>>
    BY <1>4 DEF EndTest, countVars
  <2>2. CASE suite = 1
    BY <1>1, <1>2, <2>1, <2>2 DEF ReportInv, ReportAddsUp, Counted
  <2>3. CASE suite # 1
    <3>1. script # "e2e" /\ suite' # 1
      BY <1>2, <1>4, <2>3 DEF Counted
    <3> QED BY <1>1, <2>1, <3>1 DEF ReportInv, ReportAddsUp, Counted
  <2> QED BY <2>2, <2>3
<1> QED BY <1>3, <1>4

LEMMA NextKeepsReport ==
  ASSUME Typed, ReportInv, [Next]_vars
  PROVE  ReportInv'
<1>1. CASE UNCHANGED <<countVars, placeVars>>
  BY <1>1 DEF countVars, placeVars, ReportInv, ReportAddsUp, Counted, InTest, AllSuites
<1>2. CASE EndTest
  BY <1>2, EndTestKeepsReport
<1>3. CASE Quit
  <2>1. exit' = "1" /\ UNCHANGED <<countVars, script, suite, test>>
    BY <1>3 DEF Quit
  <2> QED BY <2>1 DEF countVars, ReportInv, ReportAddsUp, InTest
<1>4. CASE Conclude
  <2>1. /\ exit' = IF script = "e2e" THEN E2EExit ELSE "0"
        /\ UNCHANGED <<countVars, script, suite, test>>
    BY <1>4 DEF Conclude
  <2>2. exit' # "running" /\ (script = "e2e" /\ exit' = "0" => failed = 0)
    BY <2>1 DEF E2EExit, Typed, CountTypeOK
  <2> QED BY <2>1, <2>2 DEF countVars, ReportInv, ReportAddsUp, InTest
<1> QED BY <1>1, <1>2, <1>3, <1>4 DEF Next, ScriptNext, DoStep, Meanwhile, vars

\* However many suites and tests there are and whatever they end with, the totals
\* of e2e-test.js are the sums of its suites, and exit code 0 means no failure.
THEOREM ReportsAddUp == Spec => []ReportAddsUp
<1>1. Init => ReportInv
  BY DEF Init, CountInit, ReportInv, ReportAddsUp, Counted
<1>2. Init => Typed
  BY InitTyped
<1>3. Typed /\ [Next]_vars => Typed'
  BY NextKeepsTypes
<1>4. Typed /\ ReportInv /\ [Next]_vars => ReportInv'
  BY NextKeepsReport
<1>5. ReportInv => ReportAddsUp
  BY DEF ReportInv
<1> QED BY <1>1, <1>2, <1>3, <1>4, <1>5, PTL DEF Spec

(***************************************************************************)
(* What "bypassed" says of a job.                                          *)
(***************************************************************************)

\* A job that has been executed shows it, unless it was repeated: it is under way
\* or final, or its failures are counted.  And what shows an execution had one.
Shows ==
  \A i \in Ids :
    /\ i \in started \ repeated =>
         status[i] \in Final \cup {"PROCESSING"} \/ retries[i] > 0
    /\ status[i] \in {"PROCESSING", "COMPLETED"} => i \in started

LEMMA ServerKeepsShows ==
  ASSUME JobsTypeOK, Shows, ServerStep
  PROVE  Shows'
<1>1. CASE \E i \in Ids : LookForFlag(i) \/ HonourFlag(i) \/ EndAttempt(i) \/ MoveOn(i) \/ DeferJob(i)
  <2> PICK i \in Ids : LookForFlag(i) \/ HonourFlag(i) \/ EndAttempt(i) \/ MoveOn(i) \/ DeferJob(i)
    BY <1>1
  <2>1. UNCHANGED <<started, repeated>>
    BY DEF LookForFlag, HonourFlag, EndAttempt, MoveOn, DeferJob
  <2>2. CASE LookForFlag(i)
    BY <2>1, <2>2 DEF LookForFlag, Shows
  <2>3. CASE Life!Cancel(i) \/ Life!Complete(i) \/ Life!GiveUp(i) \/ Life!Retry(i)
    BY <2>1, <2>3, ConstantsOK
       DEF Shows, JobsTypeOK, Final, Life!Cancel, Life!Complete, Life!GiveUp,
           Life!Retry, Life!Move
  <2>4. CASE Life!Schedule(i) \/ Life!Enqueue(i) \/ Life!Defer(i)
    BY <2>1, <2>4
       DEF Shows, JobsTypeOK, Final, Life!Schedule, Life!Enqueue, Life!Defer, Life!Move
  <2> QED BY <2>2, <2>3, <2>4 DEF HonourFlag, EndAttempt, MoveOn, DeferJob
<1>2. CASE \E i \in Ids : StartJob(i)
  BY <1>2 DEF StartJob, Shows, JobsTypeOK, Life!Start, Life!Move
<1>3. CASE SlideWindow \/ OtherComes \/ OtherStarts \/ OthersGone
  BY <1>3 DEF SlideWindow, OtherComes, OtherStarts, OthersGone, jobVars, Shows
<1>4. CASE \E i \in Ids : AgainStep(i)
  <2> PICK i \in Ids : AgainStep(i)
    BY <1>4
  <2>1. /\ i \in repeated' /\ \A k \in Ids : k \in repeated => k \in repeated'
        /\ \A k \in Ids : /\ k \in started => k \in started'
                          /\ k # i /\ k \in started' => k \in started
    BY AgainChanges
  <2>2. \A k \in Ids : k # i => status'[k] = status[k] /\ retries'[k] = retries[k]
    BY AgainChanges, CopyTypes
  <2>3. status'[i] \in {"PROCESSING", "COMPLETED"} => i \in started'
    <3>1. CASE UNCHANGED <<status, retries>>
      BY <2>1, <3>1 DEF Shows
    <3>2. ASSUME NEW s \in Statuses, SaveCopy(i, s), s \in {"PROCESSING", "COMPLETED"} => i \in started'
          PROVE  status'[i] \in {"PROCESSING", "COMPLETED"} => i \in started'
      BY <3>2, CopyTypes DEF JobsTypeOK
    <3> QED BY <3>1, <3>2, AgainChanges
  <2> QED BY <2>1, <2>2, <2>3 DEF Shows
<1> QED BY <1>1, <1>2, <1>3, <1>4 DEF ServerStep

\* What a client may do to the jobs.
LEMMA ClientMoves ==
  ASSUME NEW s, ClientStep(s) \/ ScaleStep(s)
  PROVE  \/ UNCHANGED <<status, retries, started, repeated>>
         \/ \E k : \E r \in {"QUEUED", "PENDING"} : Accept(k, r)
<1> USE DEF serverVars, jobVars
<1>1. CASE DoPost(s) \/ DoBurst(s) \/ DoSpike(s) \/ FindThreshold(s)
  BY <1>1, RoutesTypes DEF DoPost, DoBurst, DoSpike, FindThreshold, AcceptUnseen
<1>2. CASE DoAsk(s) \/ DoCancel(s) \/ FallAsleep(s) \/ WakeUp(s) \/ DoHealth(s)
  BY <1>2 DEF DoAsk, DoCancel, FallAsleep, WakeUp, DoHealth, Flag
<1>3. CASE DoGet(s) \/ PollSample(s) \/ PollTimeout(s) \/ ScanRead(s) \/ ScanJudge(s)
  BY <1>3 DEF DoGet, PollSample, PollTimeout, ScanRead, ScanJudge
<1>4. CASE ScaleStep(s)
  BY <1>4 DEF ScaleStep, DrainSample, WavePost, WaveEnd, WaveFinished, WaveTimeout,
              RateSend, RateAnswer, RateStop, RateEnd, Summary, AcceptUnseen
<1> QED BY <1>1, <1>2, <1>3, <1>4 DEF ClientStep

LEMMA InitShows == Init => Shows
BY DEF Init, ServerInit, Life!Init, Shows

LEMMA NextKeepsShows ==
  ASSUME Typed, Shows, [Next]_vars
  PROVE  Shows'
<1>1. CASE UNCHANGED <<status, retries, started, repeated>>
  BY <1>1 DEF Shows
<1>2. CASE \E k : \E r \in {"QUEUED", "PENDING"} : Accept(k, r)
  BY <1>2, FreshFree DEF Accept, Free, Shows, Typed, StepTypeOK, JobsTypeOK, Final
<1>3. CASE ServerStep
  BY <1>3, ServerKeepsShows DEF Typed, StepTypeOK
<1>4. CASE EndTest
  BY <1>4 DEF EndTest, FreshTest, Forget, Shows
<1>5. DoStep => UNCHANGED <<status, retries, started, repeated>>
               \/ \E k : \E r \in {"QUEUED", "PENDING"} : Accept(k, r)
  BY ClientMoves DEF DoStep
<1>6. Quit \/ Conclude \/ StrayLands \/ UNCHANGED vars =>
        UNCHANGED <<status, retries, started, repeated>>
  BY DEF Quit, Conclude, StrayLands, AcceptUnseen, vars, serverVars, jobVars
<1> QED BY <1>1, <1>2, <1>3, <1>4, <1>5, <1>6 DEF Next, ScriptNext, Meanwhile

\* The only step that prints "bypassed" has just read RETRY with no attempt.
LEMMA BypassedIsRead ==
  ASSUME Typed, [Next]_vars, "bypassed" \in report', "bypassed" \notin report
  PROVE  LastId \in Ids /\ status[LastId] = "RETRY" /\ retries[LastId] = 0
<1>1. InStep /\ DoGet(Current)
  <2>1. CASE DoStep
    <3>1. ClientStep(Current) \/ ScaleStep(Current)
      BY <2>1 DEF DoStep
    <3>2. \/ report' = report
          \/ \E what \in Prints \ {"bypassed"} : Printed(what)
          \/ DoGet(Current)
      <4>1. CASE ClientStep(Current)
        BY <4>1 DEF ClientStep, DoPost, DoBurst, DoSpike, FindThreshold, DoAsk, DoCancel,
                    FallAsleep, WakeUp, PollSample, PollTimeout, ScanRead, ScanJudge,
                    DoHealth, Prints
      <4>2. CASE ScaleStep(Current)
        BY <4>2 DEF ScaleStep, DrainSample, WavePost, WaveEnd, WaveFinished, WaveTimeout,
                    RateSend, RateAnswer, RateStop, RateEnd, Summary, Prints
      <4> QED BY <3>1, <4>1, <4>2
    <3> QED BY <2>1, <3>2 DEF DoStep, Printed
  <2>2. EndTest \/ Quit \/ Conclude \/ Meanwhile \/ UNCHANGED vars => report' = report
    BY DEF EndTest, FreshTest, Quit, Conclude, Meanwhile, StrayLands, vars, clientVars
  <2> QED BY <2>1, <2>2 DEF Next, ScriptNext
<1>2. \E r \in Reads(LastId) : r = "RETRY" /\ retries[LastId] = 0
  BY <1>1 DEF DoGet
<1>3. LastId \in Ids \cup {NoId}
  BY LastIdTypes DEF Typed, StepTypeOK
<1>4. LastId # NoId /\ status[LastId] = "RETRY"
  BY <1>2 DEF Reads, Seen
<1> QED BY <1>2, <1>3, <1>4

\* A job the scripts report as bypassed has never been executed, unless an old
\* copy of its row was saved or its message came again before the look.
THEOREM BypassedIsNotRun == Spec => BypassIsTrue
<1>1. Init => Typed /\ Shows
  BY InitTyped, InitShows
<1>2. Typed /\ Shows /\ [Next]_vars => Typed' /\ Shows'
  BY NextKeepsTypes, NextKeepsShows
<1>3. Typed /\ Shows /\ [Next]_vars =>
        [("bypassed" \in report' /\ "bypassed" \notin report)
           => LastId \notin started \/ LastId \in repeated]_vars
  BY BypassedIsRead DEF Shows, Final, Typed, StepTypeOK, JobsTypeOK
<1> QED BY <1>1, <1>2, <1>3, PTL DEF Spec, BypassIsTrue

(***************************************************************************)
(* No test before the server is found healthy.                             *)
(***************************************************************************)

\* What is printed stays printed.
LEMMA ReportGrows == [Next]_vars => report \subseteq report'
<1>1. ASSUME NEW s, ClientStep(s)
      PROVE  report' = report \/ \E what : Printed(what)
  BY <1>1 DEF ClientStep, DoPost, DoBurst, DoSpike, FindThreshold, DoAsk, DoCancel,
              FallAsleep, WakeUp, PollSample, PollTimeout, ScanRead, ScanJudge, DoHealth, DoGet
<1>2. ASSUME NEW s, ScaleStep(s)
      PROVE  report' = report \/ \E what : Printed(what)
  BY <1>2 DEF ScaleStep, DrainSample, WavePost, WaveEnd, WaveFinished, WaveTimeout,
              RateSend, RateAnswer, RateStop, RateEnd, Summary
<1>3. DoStep => report' = report \/ \E what : Printed(what)
  BY <1>1, <1>2 DEF DoStep
<1>4. EndTest \/ Quit \/ Conclude \/ Meanwhile \/ UNCHANGED vars => report' = report
  BY DEF EndTest, FreshTest, Quit, Conclude, Meanwhile, StrayLands, vars, clientVars
<1> QED BY <1>3, <1>4 DEF Next, ScriptNext, Printed

\* A test never goes back behind its first step.
LEMMA StepStaysPositive ==
  ASSUME Typed, step > 0, [Next]_vars
  PROVE  step' > 0
<1> DEFINE Goes == step' \in {step, step + 1, step + 3, 1}
<1>1. ASSUME NEW ok, Judge(ok)
      PROVE  Goes
  BY <1>1 DEF Judge, Proceed, Fail, Stop
<1>2. ASSUME NEW s, NEW ok, NEW t, Counting(s, ok, t)
      PROVE  Goes
  BY <1>1, <1>2 DEF Counting
<1>3. ASSUME NEW s, ClientStep(s)
      PROVE  Goes
  BY <1>1, <1>2, <1>3
     DEF ClientStep, DoPost, DoBurst, DoSpike, FindThreshold, DoAsk, DoCancel, FallAsleep,
         WakeUp, PollSample, PollTimeout, ScanRead, ScanJudge, DoHealth, DoGet, Proceed,
         SkipTwo, ProceedCounting, Once, Fail, Stop, Again, Throws
<1>4. ASSUME NEW s, ScaleStep(s)
      PROVE  Goes
  BY <1>4 DEF ScaleStep, DrainSample, WavePost, WaveEnd, WaveFinished, WaveTimeout, RateSend,
              RateAnswer, RateStop, RateEnd, Summary, Proceed, ProceedCounting
<1>5. Goes
  <2>1. DoStep => Goes
    BY <1>3, <1>4 DEF DoStep
  <2>2. EndTest \/ Quit \/ Conclude \/ Meanwhile \/ UNCHANGED vars => Goes
    BY DEF EndTest, FreshTest, Quit, Conclude, Meanwhile, StrayLands, vars, clientVars,
           progressVars
  <2> QED BY <2>1, <2>2 DEF Next, ScriptNext
<1> QED BY <1>5 DEF Typed, StepTypeOK, ProgressOK

\* Two of the scripts begin with a look at the server that ends them.
LEMMA HealthIsFirst ==
  ASSUME script \in {"runner", "e2e"}, suite = 1, test = 1, step = 1
  PROVE  Len(Tests[test]) = 1 /\ Current.op = "health" /\ Current.judge = "exit"
<1>1. CASE script = "runner"
  <2>1. Tests = RunnerTests
    BY <1>1 DEF Tests, AllSuites, Suites
  <2>2. Tests[test] = WaitForServer
    BY <2>1 DEF RunnerTests
  <2>3. Len(Tests[test]) = 1 /\ Current = Health(Attempts, "exit")
    BY <2>2 DEF WaitForServer, Current
  <2> QED BY <2>3 DEF Health, Step
<1>2. CASE script = "e2e"
  <2>1. Tests = Preflight
    BY <1>2 DEF Tests, AllSuites, Suites, E2ESuites
  <2>2. Len(Tests[test]) = 1 /\ Current = Health(1, "exit")
    BY <2>1 DEF Preflight, Current
  <2> QED BY <2>2 DEF Health, Step
<1> QED BY <1>1, <1>2

LEMMA NextKeepsGate ==
  ASSUME Typed, HealthGate, step > 0, [Next]_vars
  PROVE  HealthGate'
<1>1. script' = script /\ (script # "scale" => script \in {"runner", "e2e"})
  <2>1. UNCHANGED script
    BY DEF Next, ScriptNext, DoStep, EndTest, Quit, Conclude, Meanwhile, vars, placeVars
  <2> QED BY <2>1, BenchAssumption DEF Typed, PlaceOK
<1>2. CASE "healthy" \in report
  BY <1>2, ReportGrows DEF HealthGate, Healthy
<1>3. CASE script # "scale" /\ "healthy" \notin report
  <2>1. script \in {"runner", "e2e"} /\ suite = 1 /\ test = 1 /\ step = 1
    BY <1>1, <1>3 DEF HealthGate, Healthy, Typed, PlaceOK, StepTypeOK, ProgressOK
  <2>2. CASE DoStep
    <3>1. Current.op = "health" /\ Current.judge = "exit"
      BY <2>1, HealthIsFirst
    <3>2. DoHealth(Current)
      BY <2>2, <3>1
         DEF DoStep, ClientStep, DoPost, DoBurst, DoSpike, FindThreshold, DoAsk, DoCancel,
             FallAsleep, WakeUp, PollSample, PollTimeout, ScanRead, ScanJudge, DoGet,
             ScaleStep, DrainSample, WavePost, WaveEnd, WaveFinished, WaveTimeout,
             RateSend, RateAnswer, RateStop, RateEnd, Summary
    <3>3. "healthy" \in report' \/ step' = step
      BY <3>1, <3>2 DEF DoHealth, Printed, Once, Stop
    <3> QED BY <2>1, <2>2, <3>3 DEF DoStep, placeVars, HealthGate, Healthy
  <2>3. CASE EndTest
    <3>1. FALSE
      BY <2>1, <2>3, HealthIsFirst DEF EndTest, EndsWell, Counted
    <3> QED BY <3>1
  <2>4. CASE Quit \/ Conclude \/ Meanwhile \/ UNCHANGED vars
    <3>1. UNCHANGED <<suite, test, step>>
      BY <2>4 DEF Quit, Conclude, Meanwhile, StrayLands, vars, placeVars, clientVars, progressVars
    <3> QED BY <2>1, <3>1 DEF HealthGate, Healthy
  <2> QED BY <2>2, <2>3, <2>4 DEF Next, ScriptNext
<1> QED BY <1>1, <1>2, <1>3 DEF HealthGate

GateInv == HealthGate /\ step > 0

\* test-runner.js and e2e-test.js run no test before the server has answered that
\* it is healthy, however many attempts they make and however these fail.
THEOREM GateHolds == Spec => []HealthGate
<1>1. Init => Typed /\ GateInv
  BY InitTyped DEF Init, ClientInit, GateInv, HealthGate, Healthy
<1>2. Typed /\ GateInv /\ [Next]_vars => Typed' /\ GateInv'
  BY NextKeepsTypes, NextKeepsGate, StepStaysPositive DEF GateInv
<1>3. GateInv => HealthGate
  BY DEF GateInv
<1> QED BY <1>1, <1>2, <1>3, PTL DEF Spec

(***************************************************************************)
(* The threshold of the stress levels.                                     *)
(***************************************************************************)

\* The kinds of the steps the tables are made of.
LEMMA StepKinds ==
  /\ \A a, j : Health(a, j).op = "health" /\ Caught(Health(a, j)).op = "health"
  /\ \A p, j : Ask(p, j).op = "ask" /\ Caught(Ask(p, j)).op = "ask"
  /\ \A e, j : Get(e, j).op = "get" /\ Caught(Get(e, j)).op = "get"
  /\ \A j, z : Scan(j, z).op = "scan" /\ Caught(Scan(j, z)).op = "scan"
  /\ \A k, z, p, m : Burst(k, z, p, m).op = "burst" /\ Caught(Burst(k, z, p, m)).op = "burst"
  /\ \A z, m, j : Spike(z, m, j).op = "spike" /\ Spike(z, m, j).judge = j
  /\ \A z, m, j : Caught(Spike(z, m, j)).op = "spike" /\ Caught(Spike(z, m, j)).judge = j
  /\ \A k, a, p, e : Post(k, a, p, e).op = "post"
  /\ \A k, z, p : Posts(k, z, p).op = "post"
  /\ \A p : Cancel(p).op = "cancel"
  /\ \A t, e, z, j : Poll(t, e, z, j).op = "poll"
  /\ \A r : Rate(r).op = "rate"
  /\ Drain.op = "drain" /\ Wave.op = "wave" /\ Nap.op = "nap"
  /\ Step("find").op = "find" /\ Step("summary").op = "summary"
<1>1. \A a, j : Health(a, j).op = "health" /\ Caught(Health(a, j)).op = "health"
  BY DEF Health, Caught, Step
<1>2. \A p, j : Ask(p, j).op = "ask" /\ Caught(Ask(p, j)).op = "ask"
  BY DEF Ask, Caught, Step
<1>3. \A e, j : Get(e, j).op = "get" /\ Caught(Get(e, j)).op = "get"
  BY DEF Get, Caught, Step
<1>4. \A j, z : Scan(j, z).op = "scan" /\ Caught(Scan(j, z)).op = "scan"
  BY DEF Scan, Caught, Step
<1>5. \A k, z, p, m : Burst(k, z, p, m).op = "burst" /\ Caught(Burst(k, z, p, m)).op = "burst"
  BY DEF Burst, Caught, Step
<1>6. \A z, m, j : Spike(z, m, j).op = "spike" /\ Spike(z, m, j).judge = j
  BY DEF Spike, Step
<1>7. \A z, m, j : Caught(Spike(z, m, j)).op = "spike" /\ Caught(Spike(z, m, j)).judge = j
  BY DEF Spike, Caught, Step
<1>8. \A k, a, p, e : Post(k, a, p, e).op = "post"
  BY DEF Post, Step
<1>9. \A k, z, p : Posts(k, z, p).op = "post"
  BY DEF Posts, Post, Step
<1>10. (\A p : Cancel(p).op = "cancel") /\ \A t, e, z, j : Poll(t, e, z, j).op = "poll"
  BY DEF Cancel, Poll, Step
<1>11. (\A r : Rate(r).op = "rate") /\ Drain.op = "drain" /\ Wave.op = "wave" /\ Nap.op = "nap"
  BY DEF Rate, Drain, Wave, Nap, Step
<1>12. Step("find").op = "find" /\ Step("summary").op = "summary"
  BY DEF Step
<1> QED BY <1>1, <1>2, <1>3, <1>4, <1>5, <1>6, <1>7, <1>8, <1>9, <1>10, <1>11, <1>12

\* Only scalability-test.js notes the threshold as it goes, at every level, and
\* sends at a fixed rate.
NotesThreshold(s) == s.op = "spike" => s.judge \in {"none", "threshold"}
NotesRow(s) == s.op # "rate" /\ (s.op = "spike" => s.judge # "threshold")

LEMMA WaveTable ==
  ASSUME NEW k \in 1 .. Len(Phase2E2ELatency)
  PROVE  Phase2E2ELatency[k].op \in {"drain", "wave", "nap"}
<1> DEFINE S == {Drain, Wave, Nap}
           W == [m \in 1 .. 2 * Waves - 1 |-> IF m % 2 = 1 THEN Wave ELSE Nap]
<1>1. 2 * Waves - 1 \in Nat
  BY ScaleAssumption
<1>2. W \in Seq(S)
  BY <1>1
<1>3. <<Drain>> \in Seq(S)
  OBVIOUS
<1>4. <<Drain>> \o W \in Seq(S)
  <2> HIDE DEF W, S
  <2> QED BY <1>2, <1>3
<1>5. Phase2E2ELatency = <<Drain>> \o W
  BY DEF Phase2E2ELatency
<1>6. Phase2E2ELatency[k] \in S
  <2> HIDE DEF W, S
  <2> QED BY <1>4, <1>5
<1> QED BY <1>6, StepKinds

LEMMA RateTable ==
  ASSUME NEW k \in 1 .. Len(Phase1SustainedThroughput)
  PROVE  /\ Len(Phase1SustainedThroughput) = 2 * Len(Rates)
         /\ Phase1SustainedThroughput[k].op = IF k % 2 = 1 THEN "rate" ELSE "nap"
<1>1. Len(Rates) \in Nat
  BY ScaleAssumption
<1>2. Len(Phase1SustainedThroughput) = 2 * Len(Rates)
  BY <1>1 DEF Phase1SustainedThroughput
<1>3. Phase1SustainedThroughput[k] = IF k % 2 = 1 THEN Rate(Rates[(k + 1) \div 2]) ELSE Nap
  BY <1>2 DEF Phase1SustainedThroughput
<1> QED BY <1>2, <1>3, StepKinds

LEMMA StressTable ==
  ASSUME NEW k \in 1 .. Len(Phase3ConcurrencyStress)
  PROVE  /\ NotesThreshold(Phase3ConcurrencyStress[k])
         /\ Phase3ConcurrencyStress[k].op \in {"spike", "nap"}
<1>1. Len(Levels) \in Nat
  BY ClientAssumption
<1>2. Len(Phase3ConcurrencyStress) = 2 * Len(Levels)
  BY <1>1 DEF Phase3ConcurrencyStress
<1>3. Phase3ConcurrencyStress[k] =
        IF k % 2 = 1 THEN Caught(Spike(Levels[(k + 1) \div 2], 0, "threshold")) ELSE Nap
  BY <1>2 DEF Phase3ConcurrencyStress
<1> QED BY <1>3, StepKinds DEF NotesThreshold

LEMMA ScaleTable ==
  /\ Len(ScalePhases) = 8
  /\ \A t \in 1 .. 8 : \A k \in 1 .. Len(ScalePhases[t]) :
       /\ NotesThreshold(ScalePhases[t][k])
       /\ t # 3 => ScalePhases[t][k].op # "rate"
<1>1. \A k \in 1 .. Len(Phase0Warmup) :
        NotesThreshold(Phase0Warmup[k]) /\ Phase0Warmup[k].op # "rate"
  BY StepKinds DEF Phase0Warmup, NotesThreshold
<1>2. \A k \in 1 .. Len(Phase2E2ELatency) :
        NotesThreshold(Phase2E2ELatency[k]) /\ Phase2E2ELatency[k].op # "rate"
  BY WaveTable DEF NotesThreshold
<1>3. \A k \in 1 .. Len(Phase1SustainedThroughput) : NotesThreshold(Phase1SustainedThroughput[k])
  BY RateTable DEF NotesThreshold
<1>4. \A k \in 1 .. Len(Phase3ConcurrencyStress) :
        NotesThreshold(Phase3ConcurrencyStress[k]) /\ Phase3ConcurrencyStress[k].op # "rate"
  BY StressTable
<1>5. \A k \in 1 .. Len(Phase4RateLimiter) :
        NotesThreshold(Phase4RateLimiter[k]) /\ Phase4RateLimiter[k].op # "rate"
  BY StepKinds DEF Phase4RateLimiter, NotesThreshold
<1>6. \A k \in 1 .. Len(Phase4CircuitBreaker) :
        NotesThreshold(Phase4CircuitBreaker[k]) /\ Phase4CircuitBreaker[k].op # "rate"
  BY StepKinds DEF Phase4CircuitBreaker, NotesThreshold
<1>7. \A k \in 1 .. Len(Phase4Cancellation) :
        NotesThreshold(Phase4Cancellation[k]) /\ Phase4Cancellation[k].op # "rate"
  BY StepKinds DEF Phase4Cancellation, NotesThreshold
<1>8. \A k \in 1 .. Len(Conclusion) :
        NotesThreshold(Conclusion[k]) /\ Conclusion[k].op # "rate"
  BY StepKinds DEF Conclusion, NotesThreshold
<1> QED BY <1>1, <1>2, <1>3, <1>4, <1>5, <1>6, <1>7, <1>8 DEF ScalePhases

LEMMA LevelTable ==
  \A k \in 1 .. Len(StressTest) :
    NotesRow(StressTest[k]) /\ StressTest[k].op \in {"spike", "nap", "find"}
<1> DEFINE L == [l \in 1 .. 2 * Len(Levels) |->
                   IF l % 2 = 1 THEN Caught(Spike(Levels[(l + 1) \div 2], 0, "row")) ELSE Nap]
           S == {Step("find"), Nap} \cup {Caught(Spike(Levels[m], 0, "row")) : m \in 1 .. Len(Levels)}
<1>1. Len(Levels) \in Nat
  BY ClientAssumption
<1>2. L \in Seq(S)
  <2>1. \A l \in 1 .. 2 * Len(Levels) : l % 2 = 1 => (l + 1) \div 2 \in 1 .. Len(Levels)
    BY <1>1
  <2>2. \A l \in 1 .. 2 * Len(Levels) : L[l] \in S
    BY <2>1
  <2>3. DOMAIN L = 1 .. 2 * Len(Levels) /\ 2 * Len(Levels) \in Nat
    BY <1>1
  <2> QED BY <2>2, <2>3
<1>3. StressTest \in Seq(S)
  <2>1. <<Step("find")>> \in Seq(S)
    OBVIOUS
  <2>2. StressTest = L \o <<Step("find")>>
    BY DEF StressTest
  <2> HIDE DEF L, S
  <2> QED BY <1>2, <2>1, <2>2
<1>4. \A s \in S : NotesRow(s) /\ s.op \in {"spike", "nap", "find"}
  BY StepKinds DEF NotesRow
<1>5. \A k \in 1 .. Len(StressTest) : StressTest[k] \in S
  <2> HIDE DEF S
  <2> QED BY <1>3
<1> QED BY <1>4, <1>5

LEMMA RunnerTable ==
  /\ Len(RunnerTests) = 7
  /\ \A t \in 1 .. 7 : \A k \in 1 .. Len(RunnerTests[t]) : NotesRow(RunnerTests[t][k])
<1>1. \A k \in 1 .. Len(WaitForServer) : NotesRow(WaitForServer[k])
  BY StepKinds DEF WaitForServer, NotesRow
<1>2. \A k \in 1 .. Len(ImmediateJobTest) : NotesRow(ImmediateJobTest[k])
  BY StepKinds DEF ImmediateJobTest, NotesRow
<1>3. \A k \in 1 .. Len(CancellationTest) : NotesRow(CancellationTest[k])
  BY StepKinds DEF CancellationTest, NotesRow
<1>4. \A k \in 1 .. Len(RateLimitingAndRetryTest) : NotesRow(RateLimitingAndRetryTest[k])
  BY StepKinds DEF RateLimitingAndRetryTest, NotesRow
<1>5. \A k \in 1 .. Len(CircuitBreakerTest) : NotesRow(CircuitBreakerTest[k])
  BY StepKinds DEF CircuitBreakerTest, NotesRow
<1>6. \A k \in 1 .. Len(ScheduledJobTest) : NotesRow(ScheduledJobTest[k])
  BY StepKinds DEF ScheduledJobTest, NotesRow
<1> QED BY <1>1, <1>2, <1>3, <1>4, <1>5, <1>6, LevelTable DEF RunnerTests

\* A suite of e2e-test.js has a test, and its tests are plain.
PlainSuite(S) ==
  /\ Len(S) \in Nat \ {0}
  /\ \A t \in 1 .. Len(S) : \A k \in 1 .. Len(S[t]) : NotesRow(S[t][k])

LEMMA SuiteTable ==
  /\ Len(E2ESuites) = 11
  /\ \A u \in 1 .. 11 : PlainSuite(E2ESuites[u])
<1>1. PlainSuite(Preflight)
  BY StepKinds DEF Preflight, PlainSuite, NotesRow
<1>2. PlainSuite(Suite1ApiValidation)
  <2>1. Len(Suite1ApiValidation) = 9
    BY DEF Suite1ApiValidation
  <2>2. \A k \in 1 .. Len(Asked) : NotesRow(Asked[k])
    BY StepKinds DEF Asked, NotesRow
  <2>3. ASSUME NEW t \in {2, 3, 4, 6, 7, 9}
        PROVE  Suite1ApiValidation[t] = Asked
    BY DEF Suite1ApiValidation
  <2>4. ASSUME NEW t \in {1, 5, 8}, NEW k \in 1 .. Len(Suite1ApiValidation[t])
        PROVE  NotesRow(Suite1ApiValidation[t][k])
    <3>1. CASE t = 1
      BY <2>4, <3>1, StepKinds DEF Suite1ApiValidation, NotesRow
    <3>2. CASE t = 5
      <4>1. Suite1ApiValidation[t] = <<Post("log", 0, "lax", {}), Get(Statuses, "none")>>
        BY <3>2 DEF Suite1ApiValidation
      <4> QED BY <2>4, <4>1, StepKinds DEF NotesRow
    <3>3. CASE t = 8
      <4>1. Suite1ApiValidation[t] = <<Post("log", 0, "lax", {}), Cancel("assert")>>
        BY <3>3 DEF Suite1ApiValidation
      <4> QED BY <2>4, <4>1, StepKinds DEF NotesRow
    <3> QED BY <2>4, <3>1, <3>2, <3>3
  <2> QED BY <2>1, <2>2, <2>3, <2>4 DEF PlainSuite
<1>3. PlainSuite(Suite2LogLifecycle)
  BY StepKinds DEF Suite2LogLifecycle, PlainSuite, NotesRow
<1>4. PlainSuite(Suite3ApiLifecycle)
  BY StepKinds DEF Suite3ApiLifecycle, PlainSuite, NotesRow
<1>5. PlainSuite(Suite4ScheduledJob)
  BY StepKinds DEF Suite4ScheduledJob, PlainSuite, NotesRow
<1>6. PlainSuite(Suite5Cancellation)
  BY StepKinds DEF Suite5Cancellation, PlainSuite, NotesRow
<1>7. PlainSuite(Suite6RateLimiter)
  BY StepKinds DEF Suite6RateLimiter, PlainSuite, NotesRow
<1>8. PlainSuite(Suite7RetryBackoff)
  BY StepKinds DEF Suite7RetryBackoff, PlainSuite, NotesRow
<1>9. PlainSuite(Suite8CircuitBreaker)
  BY StepKinds DEF Suite8CircuitBreaker, PlainSuite, NotesRow
<1>10. PlainSuite(Suite9Stats)
  BY StepKinds DEF Suite9Stats, PlainSuite, NotesRow
<1>11. PlainSuite(Suite10ConcurrencyStress)
  BY StepKinds DEF Suite10ConcurrencyStress, PlainSuite, NotesRow
<1> QED BY <1>1, <1>2, <1>3, <1>4, <1>5, <1>6, <1>7, <1>8, <1>9, <1>10, <1>11 DEF E2ESuites

(***************************************************************************)
(* Where a script is.                                                      *)
(***************************************************************************)

PlaceInv ==
  /\ step > 0
  /\ suite <= Len(AllSuites) => test <= Len(Tests)

LEMMA SuitesHaveTests ==
  ASSUME Typed
  PROVE  /\ Len(AllSuites) \in Nat
         /\ \A u \in 1 .. Len(AllSuites) : Len(AllSuites[u]) \in Nat \ {0}
<1>1. CASE script = "runner"
  <2>1. AllSuites = <<RunnerTests>>
    BY <1>1 DEF AllSuites, Suites
  <2>2. Len(RunnerTests) = 7
    BY RunnerTable
  <2> QED BY <2>1, <2>2
<1>2. CASE script = "e2e"
  <2>1. AllSuites = E2ESuites
    BY <1>2 DEF AllSuites, Suites
  <2> QED BY <2>1, SuiteTable DEF PlainSuite
<1>3. CASE script = "scale"
  <2>1. AllSuites = <<ScalePhases>>
    BY <1>3 DEF AllSuites, Suites
  <2>2. Len(ScalePhases) = 8
    BY ScaleTable
  <2> QED BY <2>1, <2>2
<1> QED BY <1>1, <1>2, <1>3, BenchAssumption DEF Typed, PlaceOK

LEMMA NextKeepsPlace ==
  ASSUME Typed, PlaceInv, [Next]_vars
  PROVE  PlaceInv'
<1>1. step' > 0
  BY StepStaysPositive DEF PlaceInv
<1>2. CASE UNCHANGED <<script, suite, test>>
  BY <1>1, <1>2 DEF PlaceInv, AllSuites, Tests
<1>3. CASE EndTest
  <2>1. /\ script' = script /\ AllSuites' = AllSuites
        /\ IF test = Len(Tests) THEN suite' = suite + 1 /\ test' = 1
           ELSE suite' = suite /\ test' = test + 1
        /\ suite <= Len(AllSuites)
    BY <1>3 DEF EndTest, AllSuites, InTest
  <2>2. suite \in Nat \ {0} /\ test \in Nat \ {0} /\ test <= Len(Tests) /\ Len(Tests) \in Nat
    BY <2>1, SuitesHaveTests DEF Typed, PlaceOK, PlaceInv, Tests
  <2>3. CASE test = Len(Tests)
    <3>1. suite' <= Len(AllSuites) => Len(AllSuites[suite']) \in Nat \ {0}
      BY <2>1, <2>2, <2>3, SuitesHaveTests
    <3>2. Tests' = AllSuites[suite']
      BY <2>1 DEF Tests
    <3> QED BY <1>1, <2>1, <2>3, <3>1, <3>2 DEF PlaceInv
  <2>4. CASE test # Len(Tests)
    <3>1. Tests' = Tests
      BY <2>1, <2>4 DEF Tests
    <3> QED BY <1>1, <2>1, <2>2, <2>4, <3>1 DEF PlaceInv
  <2> QED BY <2>3, <2>4
<1> QED BY <1>2, <1>3 DEF Next, ScriptNext, DoStep, Quit, Conclude, Meanwhile, vars, placeVars

InRates == script = "scale" /\ suite = 1 /\ test = 3

\* What the tables say of the step under way.
LEMMA CurrentKind ==
  ASSUME Typed, PlaceInv, InStep
  PROVE  /\ script = "scale" => NotesThreshold(Current)
         /\ script # "scale" => NotesRow(Current)
         /\ Current.op = "rate" <=> InRates /\ step % 2 = 1
         /\ InRates => /\ Current.op \in {"rate", "nap"}
                       /\ Len(Tests[test]) = 2 * Len(Rates) /\ step <= 2 * Len(Rates)
<1>1. /\ suite \in 1 .. Len(AllSuites) /\ test \in 1 .. Len(Tests)
      /\ step \in Nat \ {0} /\ step <= Len(Tests[test])
  BY SuitesHaveTests DEF Typed, PlaceOK, StepTypeOK, ProgressOK, PlaceInv, InStep, InTest, Tests
<1>2. CASE script = "runner"
  <2>1. AllSuites = <<RunnerTests>>
    BY <1>2 DEF AllSuites, Suites
  <2>2. suite = 1 /\ Tests = RunnerTests /\ test \in 1 .. 7
    <3>1. suite = 1
      BY <1>1, <2>1
    <3>2. Tests = RunnerTests
      BY <2>1, <3>1 DEF Tests
    <3> QED BY <1>1, <3>1, <3>2, RunnerTable
  <2>3. step \in 1 .. Len(RunnerTests[test])
    BY <1>1, <2>2, RunnerTable
  <2>4. NotesRow(Current)
    BY <2>2, <2>3, RunnerTable DEF Current
  <2> QED BY <1>2, <2>4 DEF NotesRow, InRates
<1>3. CASE script = "e2e"
  <2>1. AllSuites = E2ESuites
    BY <1>3 DEF AllSuites, Suites
  <2>2. PlainSuite(Tests)
    BY <1>1, <2>1, SuiteTable DEF Tests
  <2>3. step \in 1 .. Len(Tests[test])
    BY <1>1, <2>2
  <2>4. NotesRow(Current)
    BY <1>1, <2>2, <2>3 DEF Current, PlainSuite
  <2> QED BY <1>3, <2>4 DEF NotesRow, InRates
<1>4. CASE script = "scale"
  <2>1. AllSuites = <<ScalePhases>>
    BY <1>4 DEF AllSuites, Suites
  <2>2. suite = 1 /\ Tests = ScalePhases /\ test \in 1 .. 8
    <3>1. Len(ScalePhases) = 8
      BY ScaleTable
    <3>2. suite = 1
      BY <1>1, <2>1
    <3> QED BY <1>1, <2>1, <3>1, <3>2 DEF Tests
  <2>3. step \in 1 .. Len(ScalePhases[test])
    BY <1>1, <2>2
  <2>4. NotesThreshold(Current) /\ (test # 3 => Current.op # "rate")
    BY <2>2, <2>3, ScaleTable DEF Current
  <2>5. CASE test = 3
    <3>1. Tests[test] = Phase1SustainedThroughput
      BY <2>2, <2>5 DEF ScalePhases
    <3> QED BY <1>1, <1>4, <2>2, <2>4, <2>5, <3>1, RateTable DEF Current, InRates
  <2> QED BY <1>4, <2>2, <2>4, <2>5 DEF InRates
<1> QED BY <1>2, <1>3, <1>4, BenchAssumption DEF Typed, PlaceOK

(***************************************************************************)
(* The threshold of the stress levels.                                     *)
(***************************************************************************)

ThresholdInv == ThresholdIsFirst /\ first <= Len(fails)

LEMMA SameThreshold ==
  ThresholdInv /\ UNCHANGED <<script, fails, first>> => ThresholdInv'
BY DEF ThresholdInv, ThresholdIsFirst

LEMMA SpikeKeepsThreshold ==
  ASSUME Typed, ThresholdInv, NEW s, NEW bad \in Nat, SpikeRow(s, bad), script' = script,
         IF script = "scale" THEN s.judge \in {"none", "threshold"} ELSE s.judge # "threshold"
  PROVE  ThresholdInv'
<1>1. fails \in Seq(Nat) /\ first \in Nat /\ Len(fails) \in Nat /\ first <= Len(fails)
  BY DEF Typed, StepTypeOK, LevelsOK, ThresholdInv
<1>2. CASE UNCHANGED <<fails, first>>
  BY <1>2, SameThreshold
<1>3. CASE ~UNCHANGED <<fails, first>>
  <2>1. /\ fails' = Append(fails, bad) /\ s.judge # "none"
        /\ first' = IF s.judge = "threshold" /\ bad > 0 /\ first = 0 THEN Len(fails) + 1 ELSE first
    BY <1>3 DEF SpikeRow
  <2>2. /\ Len(fails') = Len(fails) + 1 /\ fails'[Len(fails) + 1] = bad
        /\ \A l \in 1 .. Len(fails) : fails'[l] = fails[l]
    BY <1>1, <2>1
  <2>3. CASE first # 0
    <3>1. first' = first /\ fails[first] > 0 /\ \A l \in 1 .. first - 1 : fails[l] = 0
      BY <2>1, <2>3 DEF ThresholdInv, ThresholdIsFirst
    <3>2. \A l \in 1 .. first : fails'[l] = fails[l]
      BY <1>1, <2>2
    <3>3. fails'[first] > 0 /\ \A l \in 1 .. first - 1 : fails'[l] = 0
      BY <1>1, <2>3, <3>1, <3>2
    <3> QED BY <1>1, <2>2, <2>3, <3>1, <3>3 DEF ThresholdInv, ThresholdIsFirst
  <2>4. CASE first = 0 /\ script = "scale"
    <3>1. \A l \in 1 .. Len(fails) : fails'[l] = 0
      BY <2>2, <2>4 DEF ThresholdInv, ThresholdIsFirst
    <3>2. first' = IF bad > 0 THEN Len(fails) + 1 ELSE 0
      BY <2>1, <2>4
    <3>3. CASE bad > 0
      BY <1>1, <2>2, <3>1, <3>2, <3>3 DEF ThresholdInv, ThresholdIsFirst
    <3>4. CASE bad = 0
      <4>1. first' = 0 /\ \A l \in 1 .. Len(fails') : fails'[l] = 0
        BY <1>1, <2>2, <3>1, <3>2, <3>4
      <4> QED BY <1>1, <2>2, <4>1 DEF ThresholdInv, ThresholdIsFirst
    <3> QED BY <3>3, <3>4
  <2>5. CASE first = 0 /\ script # "scale"
    <3>1. first' = 0 /\ script' # "scale"
      BY <2>1, <2>5
    <3> QED BY <1>1, <2>2, <3>1 DEF ThresholdInv, ThresholdIsFirst
  <2> QED BY <2>3, <2>4, <2>5
<1> QED BY <1>2, <1>3

LEMMA NextKeepsThreshold ==
  ASSUME Typed, PlaceInv, ThresholdInv, [Next]_vars
  PROVE  ThresholdInv'
<1>1. script' = script
  BY DEF Next, ScriptNext, DoStep, EndTest, Quit, Conclude, Meanwhile, vars, placeVars
<1>2. CASE DoStep
  <2>1. CASE DoSpike(Current)
    <3>1. IF script = "scale" THEN Current.judge \in {"none", "threshold"}
          ELSE Current.judge # "threshold"
      BY <1>2, <2>1, CurrentKind DEF DoStep, DoSpike, NotesThreshold, NotesRow
    <3>2. tally.bad \in Nat /\ tally.bad + 1 \in Nat
      BY DEF Typed, StepTypeOK, ProgressOK, Tallies
    <3> QED BY <1>1, <2>1, <3>1, <3>2, SpikeKeepsThreshold, SameThreshold DEF DoSpike
  <2>2. CASE FindThreshold(Current)
    <3>1. Len(fails) \in Nat
      BY DEF Typed, StepTypeOK, LevelsOK
    <3>2. /\ fails' = fails
          /\ \/ first' = 0 /\ \A l \in 1 .. Len(fails) : fails[l] = 0
             \/ \E l \in 1 .. Len(fails) :
                  first' = l /\ fails[l] > 0 /\ \A k \in 1 .. l - 1 : fails[k] = 0
      BY <2>2 DEF FindThreshold
    <3> QED BY <3>1, <3>2 DEF ThresholdInv, ThresholdIsFirst
  <2>3. ASSUME ClientStep(Current)
        PROVE  DoSpike(Current) \/ FindThreshold(Current) \/ UNCHANGED <<fails, first>>
    BY <2>3 DEF ClientStep, DoPost, DoBurst, DoAsk, DoCancel, FallAsleep, WakeUp, DoGet,
                PollSample, PollTimeout, ScanRead, ScanJudge, DoHealth, levelVars
  <2>4. ASSUME ScaleStep(Current)
        PROVE  UNCHANGED <<fails, first>>
    BY <2>4 DEF ScaleStep, DrainSample, WavePost, WaveEnd, WaveFinished, WaveTimeout, RateSend,
                RateAnswer, RateStop, RateEnd, Summary, levelVars, scaleIdle
  <2> QED BY <1>1, <1>2, <2>1, <2>2, <2>3, <2>4, SameThreshold DEF DoStep
<1>3. CASE EndTest
  BY <1>3 DEF EndTest, FreshTest, ThresholdInv, ThresholdIsFirst
<1>4. CASE Quit \/ Conclude \/ Meanwhile \/ UNCHANGED vars
  <2>1. UNCHANGED <<fails, first>>
    BY <1>4 DEF Quit, Conclude, Meanwhile, StrayLands, vars, clientVars, levelVars, scaleIdle
  <2> QED BY <1>1, <2>1, SameThreshold
<1> QED BY <1>2, <1>3, <1>4 DEF Next, ScriptNext

\* Whatever the levels are and whichever requests fail, the threshold a script
\* reports is its first level with a failure, and scalability-test.js reports
\* none only if no level had one.
THEOREM ThresholdFound == Spec => []ThresholdIsFirst
<1>1. Init => Typed /\ PlaceInv /\ ThresholdInv
  <2>1. Init => Typed /\ step > 0 /\ fails = <<>> /\ first = 0 /\ suite = 1 /\ test = 1
    BY InitTyped DEF Init, ClientInit
  <2>2. Init => PlaceInv
    BY <2>1, SuitesHaveTests DEF PlaceInv, Tests
  <2> QED BY <2>1, <2>2 DEF ThresholdInv, ThresholdIsFirst
<1>2. Typed /\ PlaceInv /\ ThresholdInv /\ [Next]_vars => Typed' /\ PlaceInv' /\ ThresholdInv'
  BY NextKeepsTypes, NextKeepsPlace, NextKeepsThreshold
<1>3. ThresholdInv => ThresholdIsFirst
  BY DEF ThresholdInv
<1> QED BY <1>1, <1>2, <1>3, PTL DEF Spec

(***************************************************************************)
(* The rows of the fixed-rate levels.                                      *)
(***************************************************************************)

AtRate == InRates /\ step % 2 = 1 /\ step <= 2 * Len(Rates)

\* Between two levels nothing is counted and nothing is under way.
RateInv ==
  /\ ~AtRate => flight = 0
  /\ AtRate => tally.ok + tally.bad + flight = n
  /\ InRates /\ step % 2 = 0 => tally.ok + tally.bad = 0

LEMMA DoStepKeepsRates ==
  ASSUME Typed, PlaceInv, RateInv, DoStep
  PROVE  RateInv'
<1>1. /\ InRates' <=> InRates
      /\ step \in Nat \ {0} /\ n \in Nat /\ flight \in Nat /\ Len(Rates) \in Nat
      /\ tally \in Tallies
  BY ScaleAssumption
     DEF DoStep, placeVars, InRates, Typed, StepTypeOK, ProgressOK, LevelsOK, PlaceInv
<1>2. Current.op = "rate" <=> InRates /\ step % 2 = 1
  BY CurrentKind DEF DoStep
<1>3. InRates => Current.op \in {"rate", "nap"} /\ step <= 2 * Len(Rates)
  BY CurrentKind DEF DoStep
<1>4. CASE Current.op = "rate"
  <2>1. RateSend(Current) \/ RateAnswer(Current) \/ RateStop(Current) \/ RateEnd(Current)
    BY <1>4 DEF DoStep, ClientStep, DoPost, DoBurst, DoSpike, FindThreshold, DoAsk, DoCancel,
                FallAsleep, WakeUp, PollSample, PollTimeout, ScanRead, ScanJudge, DoGet, DoHealth,
                ScaleStep, DrainSample, WavePost, WaveEnd, WaveFinished, WaveTimeout, Summary
  <2>2. AtRate /\ tally.ok + tally.bad + flight = n
    BY <1>2, <1>3, <1>4 DEF RateInv, AtRate
  <2>3. CASE RateEnd(Current)
    <3>1. step' = step + 1 /\ flight' = 0 /\ tally' = NoTally
      BY <2>3 DEF RateEnd, Proceed
    <3>2. step' % 2 = 0
      BY <1>1, <1>2, <1>4, <3>1
    <3> QED BY <1>1, <3>1, <3>2 DEF RateInv, AtRate, NoTally
  <2>4. CASE RateSend(Current) \/ RateStop(Current)
    <3>1. /\ UNCHANGED <<step, tally>>
          /\ (n' = n + 1 /\ flight' = flight + 1) \/ (n' = n /\ flight' = flight)
      BY <1>1, <2>4 DEF RateSend, RateStop, levelVars
    <3>2. n' \in Nat /\ flight' \in Nat /\ tally.ok \in Nat /\ tally.bad \in Nat
      BY <1>1, <2>4 DEF RateSend, RateStop, levelVars, Tallies
    <3>3. tally'.ok + tally'.bad + flight' = n'
      <4> DEFINE c == tally.ok + tally.bad
      <4>1. n \in Nat /\ flight \in Nat /\ c \in Nat /\ c + flight = n
        BY <1>1, <2>2, <3>2
      <4>2. c + flight' = n'
        <5> HIDE DEF c
        <5> QED BY <3>1, <4>1
      <4> QED BY <3>1, <4>2
    <3>4. AtRate' /\ step' % 2 = 1
      BY <1>1, <2>2, <3>1 DEF AtRate
    <3> QED BY <3>3, <3>4 DEF RateInv
  <2>5. CASE RateAnswer(Current)
    <3>1. /\ UNCHANGED <<step, n>> /\ flight > 0 /\ flight' = flight - 1
          /\ tally' \in {Add("ok"), Add("bad")}
      BY <2>5 DEF RateAnswer
    <3>2. tally.ok \in Nat /\ tally.bad \in Nat /\ flight' \in Nat
      BY <1>1, <3>1 DEF Tallies
    <3>3. tally'.ok + tally'.bad = tally.ok + tally.bad + 1
      BY <1>1, <3>1, <3>2 DEF Add, Tallies
    <3>4. tally'.ok + tally'.bad + flight' = n'
      BY <1>1, <2>2, <3>1, <3>2, <3>3
    <3>5. AtRate' /\ step' % 2 = 1
      BY <1>1, <2>2, <3>1 DEF AtRate
    <3> QED BY <3>4, <3>5 DEF RateInv
  <2> QED BY <2>1, <2>3, <2>4, <2>5
<1>5. CASE Current.op = "nap" /\ InRates
  <2>1. FallAsleep(Current) \/ WakeUp(Current)
    BY <1>5 DEF DoStep, ClientStep, DoPost, DoBurst, DoSpike, FindThreshold, DoAsk, DoCancel,
                PollSample, PollTimeout, ScanRead, ScanJudge, DoGet, DoHealth,
                ScaleStep, DrainSample, WavePost, WaveEnd, WaveFinished, WaveTimeout, Summary,
                RateSend, RateAnswer, RateStop, RateEnd
  <2>2. step % 2 = 0 /\ ~AtRate /\ flight = 0 /\ tally.ok + tally.bad = 0
    BY <1>1, <1>2, <1>5 DEF RateInv, AtRate
  <2>3. UNCHANGED <<tally, flight>> /\ (step' = step \/ (step' = step + 1 /\ n' = 0))
    BY <2>1 DEF FallAsleep, WakeUp, Once, ProceedCounting, Rest, levelVars
  <2>4. step' = step => ~AtRate'
    BY <1>1, <2>2 DEF AtRate
  <2> QED BY <1>1, <2>2, <2>3, <2>4 DEF RateInv
<1>6. CASE ~InRates
  <2>1. Current.op # "rate" /\ ~AtRate /\ flight = 0
    BY <1>2, <1>6 DEF RateInv, AtRate
  <2>2. flight' = flight
    BY <2>1 DEF DoStep, ClientStep, DoPost, DoBurst, DoSpike, FindThreshold, DoAsk, DoCancel,
                FallAsleep, WakeUp, PollSample, PollTimeout, ScanRead, ScanJudge, DoGet, DoHealth,
                ScaleStep, DrainSample, WavePost, WaveEnd, WaveFinished, WaveTimeout, Summary,
                RateSend, RateAnswer, RateStop, RateEnd, levelVars
  <2> QED BY <1>1, <1>6, <2>1, <2>2 DEF RateInv, AtRate
<1> QED BY <1>2, <1>3, <1>4, <1>5, <1>6

LEMMA NextKeepsRates ==
  ASSUME Typed, PlaceInv, RateInv, [Next]_vars
  PROVE  RateInv'
<1>1. CASE UNCHANGED <<script, suite, test, step, n, tally, flight>>
  BY <1>1 DEF RateInv, AtRate, InRates
<1>2. CASE EndTest
  <2>1. flight = 0
    <3>1. CASE ~AtRate
      BY <3>1 DEF RateInv
    <3>2. CASE AtRate
      <4>1. EndsWell
        BY <1>2, <3>2 DEF EndTest, Counted, AtRate, InRates
      <4>2. Tests[test] = Phase1SustainedThroughput
        <5>1. AllSuites = <<ScalePhases>>
          BY <3>2 DEF AtRate, InRates, AllSuites, Suites
        <5>2. Tests = ScalePhases
          BY <3>2, <5>1 DEF AtRate, InRates, Tests
        <5> QED BY <3>2, <5>2 DEF AtRate, InRates, ScalePhases
      <4>3. Len(Rates) \in Nat
        BY ScaleAssumption
      <4>4. Len(Tests[test]) = 2 * Len(Rates)
        BY <4>2, <4>3 DEF Phase1SustainedThroughput
      <4> QED BY <3>2, <4>1, <4>3, <4>4 DEF AtRate, EndsWell, Typed, StepTypeOK, ProgressOK
    <3> QED BY <3>1, <3>2
  <2>2. step' = 1 /\ n' = 0 /\ tally' = NoTally /\ flight' = flight
    BY <1>2 DEF EndTest, FreshTest, Rest
  <2> QED BY <2>1, <2>2 DEF RateInv, NoTally
<1>3. CASE DoStep
  BY <1>3, DoStepKeepsRates
<1>4. Quit \/ Conclude \/ Meanwhile \/ UNCHANGED vars =>
        UNCHANGED <<script, suite, test, step, n, tally, flight>>
  BY DEF Quit, Conclude, Meanwhile, StrayLands, vars, placeVars, clientVars, levelVars, progressVars
<1> QED BY <1>1, <1>2, <1>3, <1>4 DEF Next, ScriptNext

\* Each row of phase 1 accounts for the requests of its own level, however many
\* answers of earlier levels are still on their way.
THEOREM RowsAreTheirOwn == Spec => []RateRowIsItsOwn
<1>1. Init => Typed /\ PlaceInv /\ RateInv
  <2>1. Init => /\ Typed /\ step = 1 /\ suite = 1 /\ test = 1
                /\ n = 0 /\ flight = 0 /\ tally = NoTally
    BY InitTyped DEF Init, ClientInit
  <2>2. Init => PlaceInv
    BY <2>1, SuitesHaveTests DEF PlaceInv, Tests
  <2> QED BY <2>1, <2>2 DEF RateInv, InRates, AtRate, NoTally
<1>2. Typed /\ PlaceInv /\ RateInv /\ [Next]_vars => Typed' /\ PlaceInv' /\ RateInv'
  BY NextKeepsTypes, NextKeepsPlace, NextKeepsRates
<1>3. Typed /\ PlaceInv /\ RateInv => RateRowIsItsOwn
  BY CurrentKind DEF RateRowIsItsOwn, RateInv, AtRate
<1> QED BY <1>1, <1>2, <1>3, PTL DEF Spec
=============================================================================
