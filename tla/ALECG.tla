-------------------------------- MODULE ALECG --------------------------------
(***************************************************************************)
(* Time stepping of the ALE continuous Galerkin scheme: src/Inciter/       *)
(* ALECG.C on top of module Discretization.  The scheme is a skeleton: it  *)
(* communicates its left- and right-hand side but computes no own part,    *)
(* and the solution does not change.  Execution starts where the workers   *)
(* are created.                                                            *)
(***************************************************************************)
EXTENDS Discretization

VARIABLE added    \* contributions last added to m_lhs and m_rhs

vars == <<discVars, added>>

\* Volumes, left- and right-hand side.
ALECGKind == {"vol", "lhs", "rhs"}

\* The waits of alecg.ci and transporter.ci.
ALECGNeeds ==
  [w \in {"lhs", "rhs", "out", "resize"} |->
    CASE w = "out"    -> {done("diag"), done("ref"), done("lhs"), done("resize")}
      [] w = "resize" -> ResizeNeeds
      [] OTHER        -> {own(w), com(w)}]

ASSUME ALECGAssumption == Kind = ALECGKind /\ Needs = ALECGNeeds

-----------------------------------------------------------------------------
\* ALECG::dt: the size of the next time step is the minimum over all chares.
Dt == Posts({"rhs", "out"}) ++ Contributes("worker", "advance")

\* Sorter::createWorkers, ALECG::ALECG
Create(i, m) ==
  /\ Is(m, "create", i)
  /\ buf' = [buf EXCEPT ![i] = Zero(@, {"lhs"})]
  /\ Take(i, m, Posts({"lhs"}) ++ Contributes("worker", "comfinal"))
  /\ UNCHANGED <<stepVars, fileVars, refined, field, count, added>>

\* ALECG::setup: output of the initial conditions.
Setup(i, m) ==
  /\ Is(m, "setup", i)
  /\ Dumped(i)
  /\ Take(i, m, Calls({Dump(i, "init")}))
  /\ UNCHANGED <<stepVars, refined, nodeVars, added>>

\* ALECG::init, ALECG::lhs
Lhs(i, m) ==
  /\ Is(m, "init", i) \/ Is(m, "lhs", i)
  /\ Take(i, m, Sends(i, "lhs"))
  /\ UNCHANGED <<stepVars, fileVars, refined, nodeVars, added>>

Comlhs(i, m) == Receive(i, "lhs", m, Triggers({com("lhs")})) /\ UNCHANGED added

\* The buffer of kind x is added to its field.
Merge(i, x) ==
  /\ field' = [field EXCEPT ![i] = Combine(i, {x})]
  /\ added' = [added EXCEPT ![i][x] = buf[i][x]]

\* ALECG::lhsmerge, ALECG::start
LhsMerge(i) ==
  /\ Merge(i, "lhs")
  /\ buf' = [buf EXCEPT ![i] = Zero(@, {"rhs"})]
  /\ Run(i, "lhs", IF itr[i] = 0 THEN Dt ELSE Triggers({done("lhs")}))
  /\ UNCHANGED <<stepVars, fileVars, refined, count>>

\* ALECG::advance, ALECG::rhs
Advance(i, m) ==
  /\ Is(m, "advance", i)
  /\ Take(i, m, Sends(i, "rhs"))
  /\ UNCHANGED <<stepVars, fileVars, refined, nodeVars, added>>

Comrhs(i, m) == Receive(i, "rhs", m, Triggers({com("rhs")})) /\ UNCHANGED added

\* Mutant of Refine: the step is signalled complete in any case.
RefineSignalled(n) ==
  Triggers({done("ref"), done("lhs"), done("resize")})
  ++ (IF Refines(n) THEN Contributes("refiner", "matched") ELSE Nothing)

\* ALECG::refine, Refiner::dtref: after step n.
Refine(n) ==
  IF Refines(n) THEN Contributes("refiner", "matched")
                ELSE Triggers({done("ref"), done("lhs"), done("resize")})

\* Mutants of Solve: the buffers are not zeroed; skipped diagnostics are not signalled.
SolveKeeping(i) ==
  /\ Merge(i, "rhs")
  /\ it' = [it EXCEPT ![i] = @ + 1]
  /\ Run(i, "rhs", Diagnostics(i, "refiner") ++ Refine(it[i] + 1))
  /\ UNCHANGED <<itr, finished, fileVars, refined, buf, count>>
SolveUnsignalled(i) ==
  /\ Merge(i, "rhs")
  /\ buf' = [buf EXCEPT ![i] = Zero(@, {"rhs"})]
  /\ it' = [it EXCEPT ![i] = @ + 1]
  /\ Run(i, "rhs", Refine(it[i] + 1))
  /\ UNCHANGED <<itr, finished, fileVars, refined, count>>

\* ALECG::solve
Solve(i) ==
  /\ Merge(i, "rhs")
  /\ buf' = [buf EXCEPT ![i] = Zero(@, {"rhs"})]
  /\ it' = [it EXCEPT ![i] = @ + 1]
  /\ Run(i, "rhs", Diagnostics(i, "refiner") ++ Refine(it[i] + 1))
  /\ UNCHANGED <<itr, finished, fileVars, refined, count>>

\* ALECG::diag, ALECG::resized
Diag(i, m) == Signal(i, m, "diag", "diag") /\ UNCHANGED added
Resized(i, m) == Signal(i, m, "resized", "resize") /\ UNCHANGED added

\* ALECG::resizeAfterRefined, ALECG::resizeComm
Eval(i, m) ==
  /\ Is(m, "eval", i)
  /\ Resize(i, {"lhs"})
  /\ Take(i, m, Contributes("disc", "discresized") ++ Posts({"lhs"})
                ++ Triggers({done("ref")}) ++ Contributes("worker", "workresized"))
  /\ UNCHANGED <<it, finished, lastDump, file, refined, added>>

\* ALECG::step
Step(i) == NextStep(i, "disc", Dt)

\* ALECG::out
Out(i) ==
  /\ IF it[i] % FieldFreq = 0 \/ it[i] = NStep
     THEN Dumped(i) /\ Run(i, "out", Calls({Dump(i, "step")}))
     ELSE Run(i, "out", Step(i)) /\ UNCHANGED fileVars
  /\ UNCHANGED <<stepVars, refined, nodeVars, added>>

\* ALECG::step, called by the file writer.
Written(i, m) ==
  /\ Is(m, "step", i)
  /\ Take(i, m, Step(i))
  /\ UNCHANGED <<stepVars, fileVars, refined, nodeVars, added>>

\* ALECG::ResumeFromSync
ResumeFromSync(i, m) == Resume(i, m, Dt) /\ UNCHANGED added

-----------------------------------------------------------------------------
\* The targets of Transporter that depend on the scheme: comfinal, advance, resized,
\* diagnostics, finish.
Comfinal == Target("worker", "comfinal", Calls(Broadcast("setup"))) /\ UNCHANGED added
TransporterAdvance ==
  Target("worker", "advance", Posts({"resize"}) ++ Calls(Broadcast("advance"))) /\ UNCHANGED added
MeshResized == TransporterResized(Broadcast("vol") \cup Broadcast("lhs")) /\ UNCHANGED added
Diagnosed == TransporterDiagnostics("refiner") /\ UNCHANGED added
End == Finish("disc") /\ UNCHANGED added

Init == DiscretizationInit /\ added = [i \in Chare |-> [x \in Kind |-> {}]]

ALECGCall(i, m) ==
  \/ Create(i, m) \/ Setup(i, m) \/ Lhs(i, m) \/ Comlhs(i, m) \/ Advance(i, m) \/ Comrhs(i, m)
  \/ Diag(i, m) \/ Resized(i, m) \/ Eval(i, m) \/ Written(i, m) \/ ResumeFromSync(i, m)

Next ==
  \/ DiscretizationNext /\ UNCHANGED added
  \/ \E m \in msgs : ALECGCall(m.to, m)
  \/ \E i \in Chare : LhsMerge(i) \/ Solve(i) \/ Out(i)
  \/ Comfinal \/ TransporterAdvance \/ MeshResized \/ Diagnosed \/ End
  \/ Exit /\ UNCHANGED added

Spec == Init /\ [][Next]_vars
FairSpec == Spec /\ WF_vars(Next)

-----------------------------------------------------------------------------
\* When a step is made, what lhsmerge() and solve() added at the nodes shared with other chares is what
\* each of those sent in this step and on this mesh, and nothing else (ALECG::lhsmerge, solve,
\* comlhs, comrhs, resizeComm); the volumes are those of this mesh.
Received(i, n, x) == {p \in Needed(i, n, x) : p.from # i}
AddedComplete ==
  [][\A i \in Chare : it'[i] # it[i] =>
       /\ added'[i]["rhs"] = Received(i, it[i], "rhs")
       /\ added[i]["lhs"] = Received(i, it[i], "lhs")
       /\ field[i]["vol"] = Needed(i, it[i], "vol")]_vars
=============================================================================
