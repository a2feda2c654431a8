----------------------------- MODULE MCJobQueue -----------------------------
(***************************************************************************)
(* Small instances of JobQueue for TLC.                                    *)
(***************************************************************************)
EXTENDS QueueInvariants

CONSTANTS i1, i2, p1, p2, c1, c2, j1, j2, w1

\* Every job has the same type, hence shares the circuit breaker.
OneType == {"LOG"}
AllLog == [j \in Jobs |-> "LOG"]

\* One instance runs every thread.
OneHost == [x \in Jobs \cup Schedulers \cup Consumers |-> i1]

\* The listeners run in an instance of their own.
SplitHost == [x \in Jobs \cup Schedulers \cup Consumers |-> IF x \in Consumers THEN i2 ELSE i1]

\* Each listener has at least one partition, if there are enough.
Spread == [p \in Partitions |->
             IF p = p1 THEN c1
             ELSE IF Consumers = {c1} THEN c1 ELSE CHOOSE c \in Consumers : c # c1]

\* The answers of the rate limiter and of the executors.
Both == BOOLEAN
OnlyYes == {TRUE}
=============================================================================
