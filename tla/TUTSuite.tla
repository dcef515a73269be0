------------------------------ MODULE TUTSuite ------------------------------
(***************************************************************************)
(* The unit test harness: the chare TUTSuite (src/UnitTest/TUTSuite.C)     *)
(* starts a chare TUTTest for every test number of every serial group, and *)
(* the nodegroup MPIRunner (MPIRunner.h) for every MPI group; each of them *)
(* reports a result, a dummy if there is no such test.  A test of Charm++  *)
(* migration creates a chare that reports one more.  TUTSuite counts the   *)
(* results and quits at the last.                                          *)
(***************************************************************************)
EXTENDS Integers, FiniteSets, Sequences

CONSTANTS
  NNode,        \* compute nodes
  Serial, Mpi,  \* test groups whose names do not, or do, contain "MPI"
  MaxTests,     \* g_maxTestsInGroup
  Migrations    \* m_migrations: group -> tests that migrate an object, if any

Group == Serial \cup Mpi
Number == 1 .. MaxTests

ASSUME TUTAssumption ==
  /\ NNode \in Nat \ {0} /\ MaxTests \in Nat \ {0} /\ Group # {}
  /\ Serial \cap Mpi = {}
  /\ DOMAIN Migrations \subseteq Serial
  /\ \A g \in DOMAIN Migrations : Migrations[g] \in Number

VARIABLES
  work,       \* constructors of TUTTest and of migrated chares, and calls of rungroup,
              \* in flight
  results,    \* calls of evaluate in flight
  nrun,       \* m_nrun
  evaluated,  \* results evaluated
  final       \* what was evaluated when mainProxy.finalize was called

tutVars == <<work, results, nrun, evaluated, final>>

\* m_ngroup and m_nmigr when the constructor of TUTSuite is through.
NGroup == Cardinality(Group)
NMigr == Cardinality({p \in (DOMAIN Migrations) \X Number : p[2] <= Migrations[p[1]]})

\* The constructor of TUTSuite and spawngrp() for all groups.
TUTInit ==
  /\ work = {[type |-> "TUTTest", group |-> g, test |-> t, part |-> 1] : g \in Serial, t \in Number}
            \cup {[type |-> "rungroup", group |-> g, node |-> n] : g \in Mpi, n \in 0 .. (NNode - 1)}
  /\ results = {} /\ nrun = 0 /\ evaluated = {} /\ final = <<>>

\* TUTTest's constructor: run the test and report.  A test that migrates an object
\* has created a chare by then.
TUTTest ==
  \E m \in work :
    /\ m.type = "TUTTest"
    /\ work' = (work \ {m}) \cup
         {[m EXCEPT !.type = "Migrated", !.part = 2] :
            g \in {g \in {m.group} \cap DOMAIN Migrations : m.test <= Migrations[g]}}
    /\ results' = results \cup {<<m.group, m.test, m.part>>}
    /\ UNCHANGED <<nrun, evaluated, final>>

\* The migrated chare reports the second part of the test.
Migrated ==
  \E m \in work :
    /\ m.type = "Migrated"
    /\ work' = work \ {m}
    /\ results' = results \cup {<<m.group, m.test, m.part>>}
    /\ UNCHANGED <<nrun, evaluated, final>>

\* MPIRunner::rungroup: the node of PE 0 reports a result for each test number.
RunGroup ==
  \E m \in work :
    /\ m.type = "rungroup"
    /\ work' = work \ {m}
    /\ results' = IF m.node = 0 THEN results \cup {<<m.group, t, 1>> : t \in Number} ELSE results
    /\ UNCHANGED <<nrun, evaluated, final>>

\* TUTSuite::evaluate: count, and quit at the last.
Evaluate ==
  \E r \in results :
    /\ results' = results \ {r}
    /\ nrun' = nrun + 1
    /\ evaluated' = evaluated \cup {r}
    /\ final' = IF nrun + 1 = NGroup * MaxTests + NMigr THEN Append(final, evaluated') ELSE final
    /\ UNCHANGED work

TUTNext == TUTTest \/ Migrated \/ RunGroup \/ Evaluate

-----------------------------------------------------------------------------
\* The harness quits once, with a result evaluated for every test number of every
\* group and a second one for every test that migrates (TUTSuite::spawngrp counts
\* them before, TUTSuite::evaluate after).
Finished ==
  final = <<{<<g, t, 1>> : g \in Group, t \in Number} \cup
            {<<p[1], p[2], 2>> : p \in {p \in (DOMAIN Migrations) \X Number :
                                          p[2] <= Migrations[p[1]]}}>>
=============================================================================
