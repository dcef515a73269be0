--------------------------------- MODULE DG ---------------------------------
(***************************************************************************)
(* Time stepping of the discontinuous Galerkin schemes, three Runge-Kutta  *)
(* stages per step: src/Inciter/DG.C on top of module Discretization.      *)
(* Execution starts where the workers are created.                         *)
(*                                                                         *)
(* Chares that share a mesh face send each other the solution and limiter  *)
(* function in the cells at the face, the ghosts of the receiver; one cell *)
(* stands for those at the faces shared with a chare.  What m_ipface keeps *)
(* out of the set of shared faces, faces inside the chare, is never among  *)
(* the faces received.  m_exptGhost is filled in debug builds only;        *)
(* m_expChBndFace and m_recvGhost are left out.                            *)
(***************************************************************************)
EXTENDS Discretization

CONSTANTS
  Fac,        \* the chares each chare shares mesh faces with
  NCell,      \* number of cells of each chare on the n-th mesh
  Ndof        \* ndof: number of degrees of freedom per cell

ASSUME DGAssumption ==
  /\ Fac \in [Chare -> SUBSET Chare]
  /\ \A i, j \in Chare : i \in Fac[j] => j \in Fac[i] /\ i \in Nbr[j]
  /\ NCell \in [Chare -> [0 .. NStep -> Nat]] /\ Ndof \in {1, 4, 10}

VARIABLES
  stage,      \* m_stage: Runge-Kutta stage
  bndFace,    \* keys of m_bndFace: chares with known shared faces
  ghostData,  \* keys of m_ghostData: chares to send cell data to
  ghost,      \* m_ghost: local id of the ghost cell of each chare known
  exptGhost,  \* m_exptGhost: the ids inserted into it, one set for each mesh
  usol,       \* the ghosts of m_u: where and when they were computed
  ulim,       \* the ghosts of m_limFunc
  used        \* what the last update used

stageVars == <<stage, used>>
meshVars == <<bndFace, ghostData, ghost, exptGhost>>
cellVars == <<usol, ulim>>
dgVars == <<stageVars, meshVars, cellVars>>
vars == <<discVars, dgVars>>

\* Volumes, and what is counted of the calls of other chares: m_ncomfac, m_ghostReq,
\* m_nadj, m_ninitsol, m_nsol, m_nlim.
DGKind == {"vol", "fac", "req", "ghost", "init", "sol", "lim"}

\* Mutant of DGNeeds: ghosts are computed before all chares have the new mesh.
DGNeedsLess ==
  [w \in {"ghost", "initlim", "sol", "lim", "recompghost", "resize"} |->
    CASE w = "recompghost" -> {done("diag"), done("ref")}
      [] w = "resize"      -> ResizeNeeds
      [] w = "initlim"     -> {own("init"), com("init")}
      [] OTHER             -> {own(w), com(w)}]

\* The waits of dg.ci and transporter.ci.
DGNeeds ==
  [w \in {"ghost", "initlim", "sol", "lim", "recompghost", "resize"} |->
    CASE w = "recompghost" -> {done("diag"), done("ref"), done("resize")}
      [] w = "resize"      -> ResizeNeeds
      [] w = "initlim"     -> {own("init"), com("init")}
      [] OTHER             -> {own(w), com(w)}]

ASSUME DGDefines == Kind = DGKind /\ Needs = DGNeeds

\* Calls of the chares in cs with data of the cells of chare i.
ToAll(i, type, cs) ==
  {[type |-> type, from |-> i, to |-> j, it |-> it[i], stage |-> stage[i], itr |-> itr[i]] : j \in cs}

\* Own cells are sent to the chares sharing faces, signalled.
SendCells(i, type, x) ==
  Calls(ToAll(i, type, ghostData[i]))
  ++ Triggers({own(x)} \cup (IF ghostData[i] = {} THEN {com(x)} ELSE {}))

\* The ghosts u with those that call m brings.
Cells(u, m) ==
  {p \in u : p.from # m.from} \cup {[from |-> m.from, it |-> m.it, stage |-> m.stage, itr |-> m.itr]}

-----------------------------------------------------------------------------
\* DG::adj: the communication maps of chare i are complete, with ghosts g.
Adj(i, g) ==
  /\ bndFace' = [bndFace EXCEPT ![i] = {}]
  /\ exptGhost' = [exptGhost EXCEPT ![i] = Append(@, {g[j] : j \in DOMAIN g})]
Complete == Contributes("worker", "comfinal")

\* DG::resizeComm, and its effect.
ResizeComm(i) ==
  IF Nbr[i] = {} THEN Adj(i, ghost[i]) /\ UNCHANGED <<ghostData, ghost>> ELSE UNCHANGED meshVars
AsksForFaces(i) ==
  Posts({"ghost"} \cup (IF itr[i] = 0 THEN {"initlim", "sol", "lim"} ELSE {}))
  ++ (IF Nbr[i] = {} THEN Complete ELSE Calls(ToAll(i, "comfac", Nbr[i])))

\* Sorter::createWorkers, DG::DG
Create(i, m) ==
  /\ Is(m, "create", i)
  /\ ResizeComm(i) /\ Take(i, m, AsksForFaces(i))
  /\ UNCHANGED <<stepVars, fileVars, refined, nodeVars, stageVars, cellVars>>

\* Calls of an element wait until it is created.
Created(i) == [type |-> "create", to |-> i] \notin msgs

\* DG::setupGhost: the chares whose faces have been received get the data of the cells there.
SetupGhost(i) == bndFace'[i]

\* DG::comfac: with the last faces the ghost data is set up, and that of
\* the others is asked for.
Comfac(i, m) ==
  /\ Is(m, "comfac", i) /\ Created(i)
  /\ Heard(i, "fac", m, Cardinality(Nbr[i]),
           Triggers({own("ghost")}) ++ Calls(ToAll(i, "reqGhost", Nbr[i])))
  /\ bndFace' = [bndFace EXCEPT ![i] = IF m.from \in Fac[i] THEN @ \cup {m.from} ELSE @]
  /\ IF count'[i]["fac"] = 0
     THEN ghostData' = [ghostData EXCEPT ![i] = SetupGhost(i)]
     ELSE UNCHANGED ghostData
  /\ UNCHANGED <<stepVars, fileVars, refined, field, buf, ghost, exptGhost, stageVars, cellVars>>

\* DG::reqGhost
ReqGhost(i, m) ==
  /\ Is(m, "reqGhost", i) /\ Created(i)
  /\ Heard(i, "req", m, Cardinality(Nbr[i]), Triggers({com("ghost")}))
  /\ UNCHANGED <<stepVars, fileVars, refined, field, buf, dgVars>>

\* DG::sendGhost
SendGhost(i) ==
  /\ Run(i, "ghost", Calls(ToAll(i, "comGhost", ghostData[i])))
  /\ UNCHANGED <<stepVars, fileVars, refined, nodeVars, dgVars>>

\* The ghosts g with that of chare j, of local id n.
GhostOf(g, j, n) == [k \in DOMAIN g \cup {j} |-> IF k = j THEN n ELSE g[k]]

\* DG::comGhost: m_nunk is the number of cells with the ghosts.
ComGhost(i, m) ==
  /\ Is(m, "comGhost", i)
  /\ ghost' = [ghost EXCEPT ![i] = GhostOf(@, m.from, NCell[i][itr[i]] + Cardinality(DOMAIN @))]
  /\ Heard(i, "ghost", m, Cardinality(ghostData[i]), Complete)
  /\ IF count'[i]["ghost"] = 0 THEN Adj(i, ghost'[i]) ELSE UNCHANGED <<bndFace, exptGhost>>
  /\ UNCHANGED <<stepVars, fileVars, refined, field, buf, ghostData, stageVars, cellVars>>

-----------------------------------------------------------------------------
\* DG::setup
Setup(i, m) ==
  /\ Is(m, "setup", i)
  /\ Take(i, m, Contributes("worker", "sendinit"))
  /\ UNCHANGED <<stepVars, fileVars, refined, nodeVars, dgVars>>

\* DG::sendinit
SendInit(i, m) ==
  /\ Is(m, "sendinit", i)
  /\ Take(i, m, SendCells(i, "cominit", "init"))
  /\ UNCHANGED <<stepVars, fileVars, refined, nodeVars, dgVars>>

\* DG::cominit: with the last cells no ghosts are expected.
ComInit(i, m) ==
  /\ Is(m, "cominit", i)
  /\ usol' = [usol EXCEPT ![i] = Cells(@, m)]
  /\ Heard(i, "init", m, Cardinality(ghostData[i]), Triggers({com("init")}))
  /\ exptGhost' = [exptGhost EXCEPT ![i] = IF count'[i]["init"] = 0 THEN <<>> ELSE @]
  /\ UNCHANGED <<stepVars, fileVars, refined, field, buf, stageVars, bndFace, ghostData,
                 ghost, ulim>>

\* DG::limitIC
LimitIC(i) ==
  /\ Dumped(i)
  /\ Run(i, "initlim", Calls({Dump(i, "start")}))
  /\ UNCHANGED <<stepVars, refined, nodeVars, dgVars>>

\* DG::start
Start(i, m) ==
  /\ Is(m, "start", i)
  /\ Take(i, m, Contributes("worker", "advance"))
  /\ UNCHANGED <<stepVars, fileVars, refined, nodeVars, dgVars>>

-----------------------------------------------------------------------------
\* DG::advance
Advance(i, m) ==
  /\ Is(m, "advance", i)
  /\ Take(i, m, SendCells(i, "comsol", "sol"))
  /\ UNCHANGED <<stepVars, fileVars, refined, nodeVars, dgVars>>

\* Mutant of ComSol: the limiter function is computed with the first cells.
ComSolFirst(i, m) ==
  /\ Is(m, "comsol", i)
  /\ usol' = [usol EXCEPT ![i] = Cells(@, m)]
  /\ Heard(i, "sol", m, 1, Triggers({com("sol")}))
  /\ UNCHANGED <<stepVars, fileVars, refined, field, buf, stageVars, meshVars, ulim>>

\* DG::comsol
ComSol(i, m) ==
  /\ Is(m, "comsol", i)
  /\ usol' = [usol EXCEPT ![i] = Cells(@, m)]
  /\ Heard(i, "sol", m, Cardinality(ghostData[i]), Triggers({com("sol")}))
  /\ UNCHANGED <<stepVars, fileVars, refined, field, buf, stageVars, meshVars, ulim>>

\* DG::lim
Lim(i) ==
  /\ Run(i, "sol", IF Ndof > 1 THEN SendCells(i, "comlim", "lim")
                               ELSE Triggers({own("lim"), com("lim")}))
  /\ UNCHANGED <<stepVars, fileVars, refined, nodeVars, dgVars>>

\* DG::comlim
ComLim(i, m) ==
  /\ Is(m, "comlim", i)
  /\ ulim' = [ulim EXCEPT ![i] = Cells(@, m)]
  /\ Heard(i, "lim", m, Cardinality(ghostData[i]), Triggers({com("lim")}))
  /\ UNCHANGED <<stepVars, fileVars, refined, field, buf, stageVars, meshVars, usol>>

\* DG::dt: the size of the step is the minimum over all chares, in the first stage.
Dt(i) ==
  /\ Run(i, "lim", Contributes("worker", "solve"))
  /\ UNCHANGED <<stepVars, fileVars, refined, nodeVars, dgVars>>

\* DG::next
NextStage == Contributes("disc", "advance")

\* Mutant of Step: the stage is not reset.
StepStaying(i) == UNCHANGED stage

\* DG::step, and what it does next.
Step(i) == stage' = [stage EXCEPT ![i] = 0]
StepNext(i) == NextStep(i, "worker", NextStage)

\* DG::stage, DG::out with effects e: after the last stage, output or the end of the step.
Outputs(i) == it[i] % FieldFreq = 0 \/ it[i] = NStep
Stage(i) ==
  IF stage[i] = 2 /\ ~Outputs(i) THEN Step(i) /\ UNCHANGED fileVars
  ELSE /\ stage' = [stage EXCEPT ![i] = @ + 1]
       /\ IF stage[i] = 2 THEN Dumped(i) ELSE UNCHANGED fileVars
StageNext(i) ==
  IF stage[i] < 2 THEN NextStage
  ELSE IF Outputs(i) THEN Calls({Dump(i, "step")}) ELSE StepNext(i)

\* Mutant of Refine: the step is signalled complete in any case.
RefineSignalled(n) ==
  Triggers({done("ref"), done("resize")})
  ++ (IF Refines(n) THEN Contributes("refiner", "matched") ELSE Nothing)

\* DG::refine, Refiner::dtref: after step n.
Refine(n) ==
  IF Refines(n) THEN Contributes("refiner", "matched") ELSE Triggers({done("ref"), done("resize")})

\* DG::solve: an update of the solution.
Update(i) ==
  used' = [used EXCEPT ![i] =
    {[sol |-> usol[i], lim |-> ulim[i], it |-> it[i], stage |-> stage[i], itr |-> itr[i]]}]

\* Mutant of Solve: the waits of the next stage are not posted.
SolveUnposted(i, m) ==
  /\ Is(m, "solve", i) /\ stage[i] < 2
  /\ Update(i)
  /\ Stage(i) /\ Take(i, m, StageNext(i))
  /\ UNCHANGED <<stepVars, refined, nodeVars, meshVars, cellVars>>

\* DG::solve in the first stages.
Solve(i, m) ==
  /\ Is(m, "solve", i) /\ stage[i] < 2
  /\ Update(i)
  /\ Stage(i) /\ Take(i, m, Posts({"sol", "lim"}) ++ StageNext(i))
  /\ UNCHANGED <<stepVars, refined, nodeVars, meshVars, cellVars>>

\* DG::solve in the last stage.
SolveLast(i, m) ==
  /\ Is(m, "solve", i) /\ stage[i] = 2
  /\ Update(i)
  /\ it' = [it EXCEPT ![i] = @ + 1]
  /\ refined' = [refined EXCEPT ![i] = Refines(it[i] + 1)]
  /\ Take(i, m, Posts({"sol", "lim", "recompghost"}) ++ Diagnostics(i, "disc") ++ Refine(it[i] + 1))
  /\ UNCHANGED <<itr, finished, fileVars, nodeVars, stage, meshVars, cellVars>>

\* DG::diag, DG::resized
Diag(i, m) == Signal(i, m, "diag", "diag") /\ UNCHANGED dgVars
Resized(i, m) == Signal(i, m, "resized", "resize") /\ UNCHANGED dgVars

\* DG::resizeAfterRefined
Eval(i, m) ==
  /\ Is(m, "eval", i)
  /\ Resize(i, {})
  /\ Take(i, m, Contributes("disc", "discresized") ++ Triggers({done("ref")})
                ++ Contributes("worker", "workresized"))
  /\ bndFace' = [bndFace EXCEPT ![i] = {}]
  /\ ghostData' = [ghostData EXCEPT ![i] = {}]
  /\ ghost' = [ghost EXCEPT ![i] = <<>>]
  /\ usol' = [usol EXCEPT ![i] = {}] /\ ulim' = [ulim EXCEPT ![i] = {}]
  /\ UNCHANGED <<it, finished, lastDump, file, refined, stageVars, exptGhost>>

\* DG::recompGhostRefined
RecompGhostRefined(i) ==
  /\ IF refined[i]
     THEN /\ ResizeComm(i) /\ Run(i, "recompghost", AsksForFaces(i))
          /\ UNCHANGED <<fileVars, stage>>
     ELSE /\ Stage(i) /\ Run(i, "recompghost", StageNext(i))
          /\ UNCHANGED meshVars
  /\ UNCHANGED <<stepVars, refined, nodeVars, used, cellVars>>

\* DG::lhs, on a new mesh.
Lhs(i, m) ==
  /\ Is(m, "lhs", i)
  /\ Stage(i) /\ Take(i, m, StageNext(i))
  /\ UNCHANGED <<stepVars, refined, nodeVars, used, meshVars, cellVars>>

\* DG::step, called by the file writer.
Written(i, m) ==
  /\ Is(m, "step", i)
  /\ Step(i) /\ Take(i, m, StepNext(i))
  /\ UNCHANGED <<stepVars, fileVars, refined, nodeVars, used, meshVars, cellVars>>

\* DG::ResumeFromSync
ResumeFromSync(i, m) == Resume(i, m, NextStage) /\ UNCHANGED dgVars

-----------------------------------------------------------------------------
\* The targets of Transporter that depend on the scheme: comfinal, sendinit, advance,
\* resized, diagnostics, finish; and the broadcast of the size of the step.
Comfinal ==
  LET initial == \E i \in Chare : itr[i] = 0
  IN  /\ Target("worker", "comfinal", Calls(Broadcast(IF initial THEN "setup" ELSE "lhs")))
      /\ UNCHANGED dgVars
Sendinit == Target("worker", "sendinit", Calls(Broadcast("sendinit"))) /\ UNCHANGED dgVars
TransporterAdvance ==
  /\ \E a \in {"worker", "disc"} :
       Target(a, "advance", Posts({"resize"}) ++ Calls(Broadcast("advance")))
  /\ UNCHANGED dgVars
MinDt == Target("worker", "solve", Calls(Broadcast("solve"))) /\ UNCHANGED dgVars
MeshResized == TransporterResized(Broadcast("vol")) /\ UNCHANGED dgVars
Diagnosed == TransporterDiagnostics("disc") /\ UNCHANGED dgVars
End == Finish("worker") /\ UNCHANGED dgVars

Init ==
  /\ DiscretizationInit
  /\ stage = [i \in Chare |-> 0] /\ used = [i \in Chare |-> {}]
  /\ bndFace = [i \in Chare |-> {}] /\ ghostData = bndFace
  /\ ghost = [i \in Chare |-> <<>>] /\ exptGhost = ghost
  /\ usol = [i \in Chare |-> {}] /\ ulim = usol

DGCall(i, m) ==
  \/ Create(i, m) \/ Comfac(i, m) \/ ReqGhost(i, m) \/ ComGhost(i, m) \/ Setup(i, m)
  \/ SendInit(i, m) \/ ComInit(i, m) \/ Start(i, m) \/ Advance(i, m) \/ ComSol(i, m)
  \/ ComLim(i, m) \/ Solve(i, m) \/ SolveLast(i, m) \/ Diag(i, m) \/ Resized(i, m)
  \/ Eval(i, m) \/ Lhs(i, m) \/ Written(i, m) \/ ResumeFromSync(i, m)

Next ==
  \/ DiscretizationNext /\ UNCHANGED dgVars
  \/ \E m \in msgs : DGCall(m.to, m)
  \/ \E i \in Chare : SendGhost(i) \/ LimitIC(i) \/ Lim(i) \/ Dt(i) \/ RecompGhostRefined(i)
  \/ Comfinal \/ Sendinit \/ TransporterAdvance \/ MinDt \/ MeshResized \/ Diagnosed \/ End
  \/ Exit /\ UNCHANGED dgVars

Spec == Init /\ [][Next]_vars
FairSpec == Spec /\ WF_vars(Next)

-----------------------------------------------------------------------------
Tag == [from : Chare, it : 0 .. NStep, stage : 0 .. 3, itr : 0 .. NStep]

\* The data of all chares sharing faces, computed in the stage, step and mesh of s.
Current(i, s) ==
  {[from |-> j, it |-> s.it, stage |-> s.stage, itr |-> s.itr] : j \in Fac[i]}

\* Each update uses the solution and limiter function all chares sharing faces computed
\* in the same stage and step, on the same mesh (DG::comsol, comlim, solve).
GhostsCurrent ==
  \A i \in Chare : \A s \in used[i] :
    /\ s.sol = Current(i, s) /\ s.itr = MeshOf(s.it)
    /\ s.lim = IF Ndof > 1 THEN Current(i, s) ELSE {}

\* A chare updates its solution in the stages 0, 1, 2 of a step, one after the other
\* (DG::stage, step).
StageFollows(s, t) ==
  \/ t.stage = s.stage + 1 /\ t.it = s.it
  \/ t.stage = 0 /\ s.stage = 2 /\ t.it = s.it + 1
StagesInOrder ==
  [][\A i \in Chare : \A s \in used[i], t \in used'[i] : s # t => StageFollows(s, t)]_vars

\* A call with cell data is about the mesh its receiver has, and the receiver knows the
\* cells: cref_find of m_bndFace in comGhost(), of m_ghost in cominit(), comsol(), comlim()
\* finds the sender.
SenderKnown ==
  \A m \in msgs :
    /\ m.type \in {"comfac", "reqGhost", "comGhost", "cominit", "comsol", "comlim"} => m.itr = itr[m.to]
    /\ m.type = "comGhost" => m.from \in bndFace[m.to]
    /\ m.type \in {"cominit", "comsol", "comlim"} => m.from \in DOMAIN ghost[m.to]

\* A ghost cell has a local id not expected yet: "Failed to store local tetid as exptected
\* ghost id" (DG::adj).
ExpectedGhosts ==
  \A i \in Chare : \A k, l \in DOMAIN exptGhost[i] : k # l => exptGhost[i][k] \cap exptGhost[i][l] = {}
=============================================================================
