----------------------------- MODULE BulkSteps -----------------------------
(***************************************************************************)
(* What the time stepping of Inciter promises, whatever the scheme: chares *)
(* make the same number of time steps, on meshes that fit together.  A     *)
(* chare makes a step only when no other is behind and all have the mesh   *)
(* of that step; the mesh changes only when all have done the steps before *)
(* it; the run ends when all steps are done.                               *)
(***************************************************************************)
EXTENDS Integers

CONSTANTS
  Chare,      \* chares
  NStep,      \* number of time steps
  MeshOf(_)   \* number of meshes before the one a step is made on, the same for the
              \* next step or one more

VARIABLES
  it,         \* time steps each chare has done
  itr,        \* meshes each chare has had before its mesh
  finished    \* the run has ended

vars == <<it, itr, finished>>

Init == it = [i \in Chare |-> 0] /\ itr = [i \in Chare |-> 0] /\ ~finished

\* Chare i makes a time step.
Step(i) ==
  /\ it[i] < NStep
  /\ \A j \in Chare : it[j] >= it[i] /\ (it[j] = it[i] => itr[j] = MeshOf(it[i]))
  /\ it' = [it EXCEPT ![i] = @ + 1]
  /\ UNCHANGED <<itr, finished>>

\* Chare i gets its next mesh.
Remesh(i) ==
  /\ itr[i] < MeshOf(it[i])
  /\ \A j \in Chare : it[j] = it[i]
  /\ itr' = [itr EXCEPT ![i] = @ + 1]
  /\ UNCHANGED <<it, finished>>

Finish ==
  /\ ~finished /\ \A i \in Chare : it[i] = NStep /\ itr[i] = MeshOf(NStep)
  /\ finished' = TRUE
  /\ UNCHANGED <<it, itr>>

Next == Finish \/ \E i \in Chare : Step(i) \/ Remesh(i)

Spec == Init /\ [][Next]_vars
FairSpec == Spec /\ WF_vars(Next)
=============================================================================
