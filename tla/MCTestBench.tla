----------------------------- MODULE MCTestBench -----------------------------
(***************************************************************************)
(* Small instances of TestBench for TLC.                                   *)
(***************************************************************************)
EXTENDS TestBench

TwoLevels == <<1, 2>>
TwoRates == <<1, 1>>

\* In one script the job each test creates last, in another both jobs of the waves.
SomeJobs ==
  {<<"runner", 1, 2, 1>>, <<"runner", 1, 3, 1>>, <<"runner", 1, 4, 2>>,
   <<"runner", 1, 5, 2>>, <<"runner", 1, 6, 1>>,
   <<"scale", 1, 2, 1>>, <<"scale", 1, 2, 2>>}
NoJobs == {}
=============================================================================
