----------------------------- MODULE JobServer -----------------------------
(***************************************************************************)
(* The service as an HTTP client sees it: jobs that are accepted, worked   *)
(* on while nobody looks, and read one at a time.  A job moves along       *)
(* JobLifecycle until a thread saves an old copy of its row or its message *)
(* is delivered again; from then on it is "repeated", and its row may go   *)
(* from any status to any other.                                           *)
(* Only the jobs the client still follows have an identity; of all others  *)
(* only the LOG jobs matter, because they share the rate limit ("others"). *)
(***************************************************************************)
EXTENDS Naturals, Sequences, FiniteSets

CONSTANTS
  MaxJob,      \* bound: jobs a test follows at a time
  MaxRetry,    \* MAX_RETRY
  Limit,       \* LOG jobs started per window of the rate limiter
  Minute,      \* length of a minute, and of IMMEDIATE_THRESHOLD, in ticks
  Latency      \* the longest way of a request, in ticks

ASSUME ServerAssumption ==
  /\ MaxJob \in Nat /\ MaxRetry \in Nat /\ Latency \in Nat
  /\ Limit \in Nat \ {0} /\ Minute \in Nat \ {0}

Ids == 1 .. MaxJob
NoId == 0      \* the id of an answer that has none

VARIABLES
  status,      \* status of a followed job, "NONE" when the id is free
  retries,     \* its retryCount
  kind,        \* "log", "api", or "bad": an API job whose URL never answers
  flagged,     \* followed jobs with a cancellation flag
  checked,     \* ... whose listener has looked for the flag and found none
  started,     \* ... that have been executed, successfully or not
  repeated,    \* ... saved again from an old copy, or delivered again
  recent,      \* LOG jobs let through in the current window
  older,       \* how many of them before the client's last long sleep began
  others       \* some LOG job nobody follows is open or in the window

jobVars == <<status, retries, kind, flagged, checked, started, repeated>>
windowVars == <<recent, older, others>>
serverVars == <<jobVars, windowVars>>

Life == INSTANCE JobLifecycle WITH Jobs <- Ids

Kinds == {"log", "api", "bad"}
Final == {"COMPLETED", "FAILED", "CANCELLED"}
Statuses == Final \cup {"PENDING", "SCHEDULED", "QUEUED", "PROCESSING", "RETRY"}

ServerTypeOK ==
  /\ status \in [Ids -> Statuses \cup {"NONE"}]
  /\ retries \in [Ids -> 0 .. MaxRetry]
  /\ kind \in [Ids -> Kinds]
  /\ flagged \in SUBSET Ids /\ checked \in SUBSET Ids /\ started \in SUBSET Ids
  /\ repeated \in SUBSET Ids
  /\ recent \in 0 .. Limit /\ older \in 0 .. Limit
  /\ others \in BOOLEAN

ServerInit ==
  /\ Life!Init
  /\ kind = [i \in Ids |-> "log"]
  /\ flagged = {} /\ checked = {} /\ started = {} /\ repeated = {}
  /\ recent = 0 /\ older = 0 /\ others = FALSE

-----------------------------------------------------------------------------
(* POST /jobs.                                                             *)

\* How far off the requested minute lies when the request is handled: the time
\* of day is cut to the minute, and one that is past by then means tomorrow.
Day == 24 * 60 * Minute
Lead(ahead, second, way) ==
  LET d == ahead * Minute - second - way IN IF d < 0 THEN d + Day ELSE d

Leads(ahead) ==
  IF ahead = 0 THEN {0}
  ELSE {Lead(ahead, s, w) : s \in 0 .. Minute - 1, w \in 0 .. Latency}

\* The status the answer shows: dispatched at once, or left to the watcher.
Routes(ahead) == {IF d <= Minute THEN "QUEUED" ELSE "PENDING" : d \in Leads(ahead)}

Free == {i \in Ids : status[i] = "NONE"}
Fresh == CHOOSE i \in Free : TRUE

\* A job of a known type is created and its id returned.
Accept(k, s) ==
  /\ k \in Kinds /\ Free # {}
  /\ status' = [status EXCEPT ![Fresh] = s]
  /\ kind' = [kind EXCEPT ![Fresh] = k]
  /\ UNCHANGED <<retries, flagged, checked, started, repeated>>

\* A job the client learns no id of: it counts as one of the others.
AcceptUnseen(k) ==
  /\ others' \in {others, others \/ k = "log"}
  /\ UNCHANGED <<recent, older, jobVars>>

-----------------------------------------------------------------------------
(* What the service does meanwhile.                                        *)

\* Variant: the count is not compared with the limit.
LetThroughAlways ==
  recent' \in {recent + 1} \cup (IF recent > 0 THEN {recent} ELSE {})

\* The sliding window: a job is let through while fewer than Limit were in the
\* last second.  Two in one millisecond leave one mark.
LetThrough ==
  /\ recent < Limit
  /\ recent' \in {recent + 1} \cup (IF recent > 0 THEN {recent} ELSE {})

\* The listener looks for the flag ...
LookForFlag(i) ==
  /\ status[i] = "QUEUED" /\ i \notin flagged \cup checked
  /\ checked' = checked \cup {i}
  /\ UNCHANGED <<status, retries, kind, flagged, started, repeated, windowVars>>

HonourFlag(i) ==
  /\ i \in flagged \ checked
  /\ Life!Cancel(i)
  /\ UNCHANGED <<kind, flagged, checked, started, repeated, windowVars>>

\* ... then asks the rate limiter; the window of the API jobs and the circuit
\* breaker may defer an API job at any time.
StartJob(i) ==
  /\ i \in checked
  /\ Life!Start(i)
  /\ IF kind[i] = "log" THEN LetThrough ELSE UNCHANGED recent
  /\ checked' = checked \ {i}
  /\ started' = started \cup {i}
  /\ UNCHANGED <<kind, flagged, repeated, older, others>>

DeferJob(i) ==
  /\ i \in checked
  /\ kind[i] = "log" => recent = Limit
  /\ Life!Defer(i)
  /\ checked' = checked \ {i}
  /\ UNCHANGED <<kind, flagged, started, repeated, windowVars>>

\* A LOG job succeeds; a URL that never answers fails every attempt.  When the
\* report of an open circuit throws, a failed attempt never ends: the row stays
\* PROCESSING, and the message is delivered again.
EndAttempt(i) ==
  /\ \/ kind[i] # "bad" /\ Life!Complete(i)
     \/ kind[i] # "log" /\ (Life!Retry(i) \/ Life!GiveUp(i))
  /\ UNCHANGED <<kind, flagged, checked, started, repeated, windowVars>>

\* The watcher and the dispatcher.
MoveOn(i) ==
  /\ Life!Schedule(i) \/ Life!Enqueue(i)
  /\ UNCHANGED <<kind, flagged, checked, started, repeated, windowVars>>

(* Jobs that are sent more than once.                                      *)

\* The retry counts a copy of the row may hold: no failed attempt is counted before
\* the first one, nor of a LOG job, whose attempts do not fail.
CopiedCounts(i) ==
  IF i \in started /\ kind[i] # "log" THEN 0 .. MaxRetry ELSE {0}

\* A thread saves the copy it read earlier.
SaveCopy(i, s) ==
  /\ status' = [status EXCEPT ![i] = s]
  /\ \E c \in CopiedCounts(i) : retries' = [retries EXCEPT ![i] = c]

\* watch() or a recovery puts the job in the delay queue, whatever has become of
\* it since its row was read; the dispatcher may hold a copy of that in turn.
SaveAgain(i) ==
  /\ status[i] # "NONE"
  /\ SaveCopy(i, "SCHEDULED") \/ SaveCopy(i, "QUEUED")
  /\ repeated' = repeated \cup {i}
  /\ UNCHANGED <<kind, flagged, checked, started, windowVars>>

\* The message is delivered once more: after a crash, a rebalance, or an
\* exception out of consume().
Redeliver(i) ==
  /\ status[i] \notin {"NONE", "PENDING"}
  /\ repeated' = repeated \cup {i}
  /\ UNCHANGED <<status, retries, kind, flagged, checked, started, windowVars>>

\* What a listener does with another message, or does late with the first: the
\* flag and the limiter come before the status is looked at, and with the row it
\* read as QUEUED it goes on whatever the row is by now.
CancelAgain(i) ==
  /\ i \in repeated \cap flagged
  /\ SaveCopy(i, "CANCELLED")
  /\ UNCHANGED <<kind, flagged, checked, started, repeated, windowVars>>

DeferAgain(i) ==
  /\ i \in repeated
  /\ kind[i] = "log" => recent = Limit
  /\ SaveCopy(i, "RETRY")
  /\ UNCHANGED <<kind, flagged, checked, started, repeated, windowVars>>

StartAgain(i) ==
  /\ i \in repeated
  /\ IF kind[i] = "log" THEN LetThrough ELSE UNCHANGED recent
  /\ SaveCopy(i, "PROCESSING")
  /\ started' = started \cup {i}
  /\ UNCHANGED <<kind, flagged, checked, repeated, older, others>>

\* The limiter has let the message through, the status has not.
DropAgain(i) ==
  /\ i \in repeated /\ kind[i] = "log" /\ LetThrough
  /\ UNCHANGED <<jobVars, older, others>>

EndAgain(i) ==
  /\ i \in repeated \cap started
  /\ \/ kind[i] # "bad" /\ SaveCopy(i, "COMPLETED")
     \/ kind[i] # "log" /\ (SaveCopy(i, "RETRY") \/ SaveCopy(i, "FAILED"))
  /\ UNCHANGED <<kind, flagged, checked, started, repeated, windowVars>>

AgainStep(i) ==
  \/ SaveAgain(i) \/ Redeliver(i)
  \/ CancelAgain(i) \/ DeferAgain(i) \/ StartAgain(i) \/ DropAgain(i) \/ EndAgain(i)

-----------------------------------------------------------------------------
(* Time, and the jobs nobody follows.                                      *)

\* Time passes: the oldest mark leaves the window.
SlideWindow ==
  /\ recent > 0
  /\ recent' = recent - 1
  /\ older' = IF older > 0 THEN older - 1 ELSE 0
  /\ UNCHANGED <<others, jobVars>>

\* A job nobody follows comes: another client's, or one of an earlier test that
\* is sent again.
OtherComes == ~others /\ others' = TRUE /\ UNCHANGED <<recent, older, jobVars>>

\* A job nobody follows is let through; in the end the last of them is gone.
OtherStarts == others /\ LetThrough /\ UNCHANGED <<older, others, jobVars>>
OthersGone == others /\ recent = 0 /\ others' = FALSE /\ UNCHANGED <<recent, older, jobVars>>

ServerStep ==
  \/ \E i \in Ids : \/ LookForFlag(i) \/ HonourFlag(i)
                    \/ StartJob(i) \/ DeferJob(i) \/ EndAttempt(i) \/ MoveOn(i)
                    \/ AgainStep(i)
  \/ SlideWindow \/ OtherComes \/ OtherStarts \/ OthersGone

-----------------------------------------------------------------------------
(* What a client gets or does otherwise.                                   *)

\* POST /jobs/{id}/cancel.
Flag(i) == flagged' = flagged \cup {i} /\ UNCHANGED <<status, retries, kind, checked, started, repeated>>

\* The status a GET shows: an error answer, and the answer about an id that is
\* none, carry no job.
Seen(i) == IF i = NoId THEN "none" ELSE status[i]

\* The jobs leave the client's sight.
Forget ==
  /\ status' = [i \in Ids |-> "NONE"]
  /\ retries' = [i \in Ids |-> 0]
  /\ kind' = [i \in Ids |-> "log"]
  /\ flagged' = {} /\ checked' = {} /\ started' = {} /\ repeated' = {}
  /\ others' = (others \/ \E i \in Ids :
                   kind[i] = "log" /\ (status[i] \notin Final \cup {"NONE"} \/ i \in repeated))
  /\ UNCHANGED <<recent, older>>
=============================================================================
