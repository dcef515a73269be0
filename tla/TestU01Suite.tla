---------------------------- MODULE TestU01Suite ----------------------------
(***************************************************************************)
(* The suite of random number generator tests: the chare TestU01Suite      *)
(* (src/RNGTest/TestU01Suite.C, testu01suite.ci) and the chares TestU01,   *)
(* one for each statistical test of each generator (TestU01.h).  The suite *)
(* asks the tests of the first generator for the number of their p-values, *)
(* then for their names, has all tests run, asks all for the time they     *)
(* took, and assesses.  Calls are messages, delivered in any order.        *)
(***************************************************************************)
EXTENDS Integers, FiniteSets, FiniteSetsExt

CONSTANTS
  NRng,       \* random number generators selected
  NPval       \* p-values of each statistical test of the battery, 1 first

NTest == Cardinality(DOMAIN NPval)

\* m_tests: the tests of the first generator come first, TestU01Suite::addTests.
Test == 1 .. (NRng * NTest)
Rng(t) == (t - 1) \div NTest
Kind(t) == ((t - 1) % NTest) + 1

ASSUME SuiteAssumption ==
  /\ NRng \in Nat \ {0} /\ DOMAIN NPval = 1 .. NTest /\ NTest > 0
  /\ \A i \in 1 .. NTest : NPval[i] \in Nat \ {0}

VARIABLES
  calls,      \* entry-method calls in flight
  ntest,      \* m_ntest: tests heard from about p-values, then names
  npval,      \* m_npval: p-values per generator
  ncomplete,  \* m_ncomplete: tests evaluated, then tests timed
  pvals,      \* p-values reported to the user
  time,       \* m_time: tests whose time is in the sum of each generator
  assessed    \* m_npval * rngs.size() of each final assessment

suiteVars == <<calls, ntest, npval, ncomplete, pvals, time, assessed>>

\* A call of tests, which answer by a call of the same name of the suite.
Ask(type, tests) == {[type |-> type, of |-> "test", test |-> t] : t \in tests}

\* ntest(): tests per generator.
First == 1 .. NTest

SuiteInit ==
  /\ calls = Ask("npval", First)
  /\ ntest = 0 /\ npval = 0 /\ ncomplete = 0 /\ pvals = 0
  /\ time = [r \in 0 .. (NRng - 1) |-> 0]
  /\ assessed = {}

\* TestU01::npval, names, run and time: answer what was asked.
Answer(t) ==
  \E m \in calls :
    /\ m.of = "test" /\ m.test = t
    /\ calls' = (calls \ {m}) \cup {[m EXCEPT !.of = "suite"]}
    /\ UNCHANGED <<ntest, npval, ncomplete, pvals, time, assessed>>

\* The call of a test is taken, and others are made.
Taken(type, t, asked) ==
  LET m == [type |-> type, of |-> "suite", test |-> t]
  IN  m \in calls /\ calls' = (calls \ {m}) \cup asked

\* Mutant of Npval: m_ntest is not reset.
NpvalCounting(t) ==
  /\ Taken("npval", t, IF ntest + 1 = NTest THEN Ask("names", First) ELSE {})
  /\ ntest' = ntest + 1
  /\ npval' = npval + NPval[Kind(t)]
  /\ UNCHANGED <<ncomplete, pvals, time, assessed>>

\* TestU01Suite::npval: with the last answer, ask for names and count anew.
Npval(t) ==
  /\ Taken("npval", t, IF ntest + 1 = NTest THEN Ask("names", First) ELSE {})
  /\ ntest' = IF ntest + 1 = NTest THEN 0 ELSE ntest + 1
  /\ npval' = npval + NPval[Kind(t)]
  /\ UNCHANGED <<ncomplete, pvals, time, assessed>>

\* TestU01Suite::names: with the last answer, run all tests.
Names(t) ==
  /\ Taken("names", t, IF ntest + 1 = NTest THEN Ask("evaluate", Test) ELSE {})
  /\ ntest' = ntest + 1
  /\ UNCHANGED <<npval, ncomplete, pvals, time, assessed>>

\* TestU01Suite::evaluate: with the last result, ask for times and count anew.
EvaluateTest(t) ==
  /\ Taken("evaluate", t, IF ncomplete + 1 = Cardinality(Test) THEN Ask("time", Test) ELSE {})
  /\ ncomplete' = IF ncomplete + 1 = Cardinality(Test) THEN 0 ELSE ncomplete + 1
  /\ pvals' = pvals + NPval[Kind(t)]
  /\ UNCHANGED <<ntest, npval, time, assessed>>

\* TestU01Suite::time: with the last one, assess() and quit.
Time(t) ==
  /\ Taken("time", t, {})
  /\ ncomplete' = ncomplete + 1
  /\ time' = [time EXCEPT ![Rng(t)] = @ + 1]
  /\ assessed' = IF ncomplete + 1 = Cardinality(Test)
                 THEN assessed \cup {npval * NRng} ELSE assessed
  /\ UNCHANGED <<ntest, npval, pvals>>

SuiteNext == \E t \in Test : Answer(t) \/ Npval(t) \/ Names(t) \/ EvaluateTest(t) \/ Time(t)

-----------------------------------------------------------------------------
\* The suite assesses once, with all tests timed, and the number of statistics it
\* announced, computed from the tests of the first generator, is the number of
\* p-values it reported (TestU01Suite::npval, names, evaluate, time).
Assessed ==
  /\ assessed = {pvals}
  /\ pvals = NRng * FoldSet(LAMBDA i, sum : sum + NPval[i], 0, 1 .. NTest)
  /\ \A r \in DOMAIN time : time[r] = NTest
=============================================================================
