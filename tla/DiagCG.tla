------------------------------- MODULE DiagCG -------------------------------
(***************************************************************************)
(* Time stepping of the continuous Galerkin scheme with a lumped mass      *)
(* matrix and flux-corrected transport: src/Inciter/DiagCG.C and           *)
(* DistFCT.C, on top of module Discretization.  Execution starts where the *)
(* workers are created.                                                    *)
(***************************************************************************)
EXTENDS Discretization

VARIABLE sol    \* contributions the last update of the solution m_u used

vars == <<discVars, sol>>

\* Volumes, lumped mass, right-hand side, mass diffusion; antidiffusive
\* contributions, allowed limits and limited contributions of flux correction.
DiagCGKind == {"vol", "lhs", "rhs", "dif", "aec", "alw", "lim"}

\* The waits of diagcg.ci, distfct.ci and transporter.ci.
DiagCGNeeds ==
  [w \in {"lhs", "rhs", "out", "fct", "app", "resize"} |->
    CASE w = "lhs"    -> {own("lhs"), com("lhs")}
      [] w = "rhs"    -> {own("rhs"), com("rhs"), own("dif"), com("dif")}
      [] w = "out"    -> {done("diag"), done("ref"), done("lhs"), done("resize")}
      [] w = "fct"    -> {own("aec"), com("aec"), own("alw"), com("alw")}
      [] w = "app"    -> {own("lim"), com("lim")}
      [] w = "resize" -> ResizeNeeds]

ASSUME DiagCGAssumption == Kind = DiagCGKind /\ Needs = DiagCGNeeds

-----------------------------------------------------------------------------
\* DiagCG::dt: the size of the next time step is the minimum over all chares.
Dt == Posts({"rhs", "out"}) ++ Contributes("worker", "advance")

\* Sorter::createWorkers, DiagCG::DiagCG
Create(i, m) ==
  /\ Is(m, "create", i)
  /\ buf' = [buf EXCEPT ![i] = Zero(@, {"lhs"})]
  /\ Take(i, m, Posts({"lhs"}) ++ Contributes("worker", "comfinal"))
  /\ UNCHANGED <<stepVars, fileVars, refined, field, count, sol>>

\* DiagCG::setup: output of the initial conditions.
Setup(i, m) ==
  /\ Is(m, "setup", i)
  /\ Dumped(i)
  /\ Take(i, m, Calls({Dump(i, "init")}))
  /\ UNCHANGED <<stepVars, refined, nodeVars, sol>>

\* DiagCG::init, DiagCG::lhs
Lhs(i, m) ==
  /\ Is(m, "init", i) \/ Is(m, "lhs", i)
  /\ field' = [field EXCEPT ![i] = Compute(@, i, {"lhs"})]
  /\ Take(i, m, Sends(i, "lhs"))
  /\ UNCHANGED <<stepVars, fileVars, refined, buf, count, sol>>

Comlhs(i, m) == Receive(i, "lhs", m, Triggers({com("lhs")})) /\ UNCHANGED sol

\* DiagCG::lhsmerge, DiagCG::start
LhsMerge(i) ==
  /\ field' = [field EXCEPT ![i] = Combine(i, {"lhs"})]
  /\ buf' = [buf EXCEPT ![i] = Zero(@, {"rhs", "dif"})]
  /\ Run(i, "lhs", IF itr[i] = 0 THEN Dt ELSE Triggers({done("lhs")}))
  /\ UNCHANGED <<stepVars, fileVars, refined, count, sol>>

\* DistFCT::next: the fields and buffers of flux correction are empty.
Corrected == {"aec", "alw", "lim"}

\* The chare starts the step; the buffers of the kinds in zs are empty.
Start(i, m, zs) ==
  /\ Is(m, "advance", i)
  /\ buf' = [buf EXCEPT ![i] = Zero(@, zs)]
  /\ field' = [field EXCEPT ![i] = Compute(Zero(@, Corrected), i, {"rhs", "dif"})]
  /\ Take(i, m, Posts({"fct", "app"}) ++ Sends(i, "rhs") ++ Sends(i, "dif"))
  /\ UNCHANGED <<stepVars, fileVars, refined, count, sol>>

\* DiagCG::advance, DiagCG::rhs
Advance(i, m) == Start(i, m, Corrected)

Comrhs(i, m) == Receive(i, "rhs", m, Triggers({com("rhs")})) /\ UNCHANGED sol
Comdif(i, m) == Receive(i, "dif", m, Triggers({com("dif")})) /\ UNCHANGED sol

\* DistFCT::aec, DistFCT::alw: add to what is there.
Aec(i, f) == Accumulate(f, i, {"aec"})
Alw(i, f) == Accumulate(f, i, {"alw"})

\* DiagCG::solve
Solve(i) ==
  /\ field' = [field EXCEPT ![i] = Alw(i, Aec(i, Combine(i, {"rhs", "dif"})))]
  /\ buf' = [buf EXCEPT ![i] = Zero(@, {"rhs", "dif"})]
  /\ Run(i, "rhs", Sends(i, "aec") ++ Sends(i, "alw"))
  /\ UNCHANGED <<stepVars, fileVars, refined, count, sol>>

Comaec(i, m) == Receive(i, "aec", m, Triggers({com("aec")})) /\ UNCHANGED sol
Comalw(i, m) == Receive(i, "alw", m, Triggers({com("alw")})) /\ UNCHANGED sol

\* DistFCT::lim
Lim(i) ==
  /\ field' = [field EXCEPT ![i] = Accumulate(Combine(i, {"aec", "alw"}), i, {"lim"})]
  /\ Run(i, "fct", Sends(i, "lim"))
  /\ UNCHANGED <<stepVars, fileVars, refined, buf, count, sol>>

Comlim(i, m) == Receive(i, "lim", m, Triggers({com("lim")})) /\ UNCHANGED sol

\* DiagCG::refine, Refiner::dtref: after step n.
Refine(n) ==
  IF Refines(n) THEN Contributes("refiner", "matched")
                ELSE Triggers({done("ref"), done("lhs"), done("resize")})

\* Mutant of Apply: the end of the step without diagnostics is not signalled.
ApplyUnsignalled(i) ==
  /\ field' = [field EXCEPT ![i] = Combine(i, {"lim"})]
  /\ sol' = [sol EXCEPT ![i] = Combine(i, {"lim"})]
  /\ it' = [it EXCEPT ![i] = @ + 1]
  /\ Run(i, "app", Refine(it[i] + 1))
  /\ UNCHANGED <<itr, finished, fileVars, refined, buf, count>>

\* DistFCT::apply, DiagCG::update
Apply(i) ==
  /\ field' = [field EXCEPT ![i] = Combine(i, {"lim"})]
  /\ sol' = [sol EXCEPT ![i] = Combine(i, {"lim"})]
  /\ it' = [it EXCEPT ![i] = @ + 1]
  /\ Run(i, "app", Diagnostics(i, "refiner") ++ Refine(it[i] + 1))
  /\ refined' = [refined EXCEPT ![i] = Refines(it[i] + 1)]
  /\ UNCHANGED <<itr, finished, fileVars, buf, count>>

\* DiagCG::diag, DiagCG::resized
Diag(i, m) == Signal(i, m, "diag", "diag") /\ UNCHANGED sol
Resized(i, m) == Signal(i, m, "resized", "resize") /\ UNCHANGED sol

\* DiagCG::resizeAfterRefined; the buffers of the kinds in zs are empty, e is what follows.
NewMesh(i, m, zs, e) ==
  /\ Is(m, "eval", i)
  /\ Resize(i, zs)
  /\ Take(i, m, Contributes("disc", "discresized") ++ Posts({"lhs"})
                ++ Triggers({done("ref")}) ++ Contributes("worker", "workresized") ++ e)
  /\ UNCHANGED <<it, finished, lastDump, file, refined, sol>>

\* Mutants of Eval: the buffer of the lumped mass is not zeroed; the volumes are computed
\* at once.
EvalKeeping(i, m) == NewMesh(i, m, {}, Nothing)
EvalAtOnce(i, m) == NewMesh(i, m, {"lhs"}, Calls({[type |-> "vol", to |-> i]}))

\* DiagCG::resizeAfterRefined, DiagCG::resizeComm
Eval(i, m) == NewMesh(i, m, {"lhs"}, Nothing)

\* DiagCG::step
Step(i) == NextStep(i, "disc", Dt)

\* DiagCG::out
Out(i) ==
  /\ IF it[i] % FieldFreq = 0 \/ it[i] = NStep
     THEN Dumped(i) /\ Run(i, "out", Calls({Dump(i, "step")}))
     ELSE Run(i, "out", Step(i)) /\ UNCHANGED fileVars
  /\ UNCHANGED <<stepVars, refined, nodeVars, sol>>

\* DiagCG::step, called by the file writer.
Written(i, m) ==
  /\ Is(m, "step", i)
  /\ Take(i, m, Step(i))
  /\ UNCHANGED <<stepVars, fileVars, refined, nodeVars, sol>>

\* DiagCG::ResumeFromSync
ResumeFromSync(i, m) == Resume(i, m, Dt) /\ UNCHANGED sol

-----------------------------------------------------------------------------
\* The targets of Transporter that depend on the scheme: comfinal, advance, resized,
\* diagnostics, finish.
Comfinal == Target("worker", "comfinal", Calls(Broadcast("setup"))) /\ UNCHANGED sol
TransporterAdvance ==
  Target("worker", "advance", Posts({"resize"}) ++ Calls(Broadcast("advance"))) /\ UNCHANGED sol
MeshResized == TransporterResized(Broadcast("vol") \cup Broadcast("lhs")) /\ UNCHANGED sol
Diagnosed == TransporterDiagnostics("refiner") /\ UNCHANGED sol
End == Finish("disc") /\ UNCHANGED sol

Init == DiscretizationInit /\ sol = field

DiagCGCall(i, m) ==
  \/ Create(i, m) \/ Setup(i, m) \/ Lhs(i, m) \/ Comlhs(i, m) \/ Advance(i, m)
  \/ Comrhs(i, m) \/ Comdif(i, m) \/ Comaec(i, m) \/ Comalw(i, m) \/ Comlim(i, m)
  \/ Diag(i, m) \/ Resized(i, m) \/ Eval(i, m) \/ Written(i, m) \/ ResumeFromSync(i, m)

Next ==
  \/ DiscretizationNext /\ UNCHANGED sol
  \/ \E m \in msgs : DiagCGCall(m.to, m)
  \/ \E i \in Chare : LhsMerge(i) \/ Solve(i) \/ Lim(i) \/ Apply(i) \/ Out(i)
  \/ Comfinal \/ TransporterAdvance \/ MeshResized \/ Diagnosed \/ End
  \/ Exit /\ UNCHANGED sol

Spec == Init /\ [][Next]_vars
FairSpec == Spec /\ WF_vars(Next)

-----------------------------------------------------------------------------
TypeOK ==
  /\ DiscretizationTypeOK
  /\ \A i \in Chare, x \in Kind :
       sol[i][x] \subseteq [from : Chare, it : 0 .. NStep, itr : 0 .. NStep]

\* Each update of the solution uses, for each field, the contributions of all chares
\* that share the mesh nodes, computed in this time step and on this mesh, and no
\* others: none was added to a buffer before the buffer was zeroed, none is left over
\* (DiagCG::update, solve, lhsmerge; DistFCT::next, lim, apply; Discretization::resize).
SolutionComplete ==
  \A i \in Chare : it[i] > 0 => \A x \in Kind : sol[i][x] = Needed(i, it[i] - 1, x)
=============================================================================
