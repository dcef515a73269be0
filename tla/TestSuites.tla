----------------------------- MODULE TestSuites -----------------------------
(***************************************************************************)
(* The two programs that run tests of Quinoa, one of them at a time: the   *)
(* main chares of src/Main/RNGTest.C and UnitTest.C create the suite and   *)
(* exit when it calls finalize().                                          *)
(***************************************************************************)
EXTENDS TestU01Suite, TUTSuite

VARIABLE program

vars == <<suiteVars, tutVars, program>>

Init == program \in {"rngtest", "unittest"} /\ SuiteInit /\ TUTInit

RNGTest == program = "rngtest" /\ SuiteNext /\ UNCHANGED <<tutVars, program>>

UnitTest == program = "unittest" /\ TUTNext /\ UNCHANGED <<suiteVars, program>>

\* finalize() was called, and there is nothing left to do.
Exit ==
  /\ \/ program = "rngtest" /\ assessed # {} /\ calls = {}
     \/ program = "unittest" /\ final # <<>> /\ work = {} /\ results = {}
  /\ UNCHANGED vars

Next == RNGTest \/ UnitTest \/ Exit

Spec == Init /\ [][Next]_vars

\* The Charm++ scheduler delivers a message as long as there is one.
FairSpec == Spec /\ WF_vars(Next)

-----------------------------------------------------------------------------
\* Each program ends, once, after all results: none is lost between two rounds of
\* the suite, and the harness expects exactly the results that arrive.
Ends ==
  /\ program = "rngtest" => <>[]Assessed
  /\ program = "unittest" => <>[]Finished
=============================================================================
