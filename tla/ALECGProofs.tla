----------------------------- MODULE ALECGProofs -----------------------------
(***************************************************************************)
(* What every run of ALECG satisfies: the handlers of the scheme are those *)
(* of module StepsHandlers, and the contributions added to the left-hand   *)
(* side follow the configuration.                                          *)
(***************************************************************************)
EXTENDS ALECGInvariant, StepsHandlers

-----------------------------------------------------------------------------
\* The fields and waits of the scheme.
LEMMA ALECGFacts ==
  /\ Kind = {"vol", "lhs", "rhs"} /\ StepKind = {"rhs"} /\ StageOf["rhs"] = 8
  /\ Wait = {"lhs", "rhs", "out", "resize"} /\ Needs["rhs"] = {own("rhs"), com("rhs")}
  <1>1. Kind = {"vol", "lhs", "rhs"}
    BY ALECGAssumption DEF ALECGKind
  <1>2. StepKind = {"rhs"}
    BY <1>1 DEF StepKind, MeshKind
  <1>3. Wait = {"lhs", "rhs", "out", "resize"}
    BY ALECGAssumption DEF ALECGNeeds, Wait
  <1>4. Needs["rhs"] = {own("rhs"), com("rhs")}
    BY ALECGAssumption DEF ALECGNeeds
  <1> QED BY <1>1, <1>2, <1>3, <1>4 DEF StageOf

\* The step ends, or the next one starts, in the same way.
LEMMA SameEnds ==
  /\ Dt = NextDt /\ \A i : Step(i) = StepOf(i)
  /\ \A n : Refine(n) = Refinement(n)
  BY DEF Dt, NextDt, Step, StepOf, Refine, Refinement

\* What was added last stays when no left-hand side is completed.
LEMMA AddedKept ==
  ASSUME NEW c, ALECGInv(c), NEW d, StepsInv(d)', d.round = c.round, AddedShape',
         \A i \in Chare : added'[i]["lhs"] = added[i]["lhs"],
         \A i \in Chare : IF c.round = 0 THEN d.stage[i] = 17 => c.stage[i] = 17
                                         ELSE d.lhs[i] = 3 <=> c.lhs[i] = 3
  PROVE  ALECGInv(d)'
  <1>1. Added(c)
    BY DEF ALECGInv
  <1>2. Base(d) = Base(c) /\ Now(d) = Now(c)
    BY DEF Base, Now
  <1>3. c.round \in Nat
    BY ConfigIs DEF ALECGInv, StepsInv, Levels
  <1>4. Added(d)'
    BY <1>1, <1>2, <1>3 DEF Added, AddedFor
  <1> QED BY <1>4 DEF ALECGInv

\* The handlers of an exchange of the left-hand side, or of what follows a step.
LEMMA AlongsideAdded ==
  ASSUME NEW c, ALECGInv(c), added' = added, \E d : StepsInv(d)' /\ Alongside(c, d)
  PROVE  \E d : ALECGInv(d)'
  <1>1. PICK d : StepsInv(d)' /\ Alongside(c, d)
    OBVIOUS
  <1>2. AddedShape'
    BY DEF ALECGInv, AddedShape
  <1>3. ASSUME NEW i \in Chare
        PROVE  IF c.round = 0 THEN d.stage[i] = 17 => c.stage[i] = 17 ELSE d.lhs[i] = 3 <=> c.lhs[i] = 3
    BY <1>1 DEF Alongside
  <1> QED BY <1>1, <1>2, <1>3, AddedKept DEF Alongside

\* A contribution that arrives.
LEMMA ReceivedAdded ==
  ASSUME NEW c, ALECGInv(c), added' = added, StepsInv(c)'
  PROVE  \E d : ALECGInv(d)'
  <1>1. ALECGInv(c)'
    BY AddedKept DEF ALECGInv, AddedShape
  <1> QED BY <1>1

-----------------------------------------------------------------------------
\* ALECG::lhs: the left-hand side of chare i is sent.
LEMMA LhsAdded ==
  ASSUME NEW c, ALECGInv(c), NEW m \in msgs, NEW i, i = m.to, Lhs(i, m)
  PROVE  \E d : ALECGInv(d)'
  <1>1. StepsInv(c) /\ NodeShape
    BY PartsOfInv DEF ALECGInv, Shape
  <1>2. field' = [j \in Chare |-> [x \in Kind |-> field'[j][x]]] /\ field' = field
    BY <1>1 DEF Lhs, nodeVars, NodeShape
  <1>3. PICK d : StepsInv(d)' /\ LhsSent(c, d, i)
    <2>1. Is(m, "init", i) \/ Is(m, "lhs", i)
      BY DEF Lhs
    <2>2. Take(i, m, Sends(i, "lhs")) /\ UNCHANGED <<stepVars, fileVars, refined, buf, count>>
      BY DEF Lhs, nodeVars
    <2>3. /\ \A j \in Chare, x \in Kind : j # i \/ x # "lhs" => field'[j][x] = field[j][x]
          /\ field'[i]["lhs"] \subseteq field[i]["lhs"] \cup {Part(i, "lhs")}
      BY <1>2
    <2> QED BY <1>1, <1>2, <2>1, <2>2, <2>3, LhsKeeps
  <1>4. added' = added
    BY DEF Lhs
  <1>5. AddedShape'
    BY <1>4 DEF ALECGInv, AddedShape
  <1>6. ASSUME NEW j \in Chare
        PROVE  IF c.round = 0 THEN d.stage[j] = 17 => c.stage[j] = 17 ELSE d.lhs[j] = 3 <=> c.lhs[j] = 3
    <2>1. CASE j = i
      BY <1>3, <2>1 DEF LhsSent
    <2>2. CASE j # i
      BY <1>3, <2>2 DEF LhsSent
    <2> QED BY <2>1, <2>2
  <1>7. d.round = c.round
    BY <1>3 DEF LhsSent
  <1>8. ALECGInv(d)'
    BY <1>3, <1>4, <1>5, <1>6, <1>7, AddedKept
  <1> QED BY <1>8

\* What Merge does to the field and what was added last.
LEMMA MergeFacts ==
  ASSUME NEW i \in Chare, NEW x \in Kind, Merge(i, x), NodeShape, AddedShape
  PROVE  /\ field' = [field EXCEPT ![i] = Combine(i, {x})]
         /\ AddedShape'
         /\ added'[i][x] = buf[i][x]
         /\ \A j \in Chare, y \in Kind : j # i \/ y # x => added'[j][y] = added[j][y]
  <1>1. added' = [j \in Chare |-> IF j = i THEN [y \in Kind |-> IF y = x THEN buf[i][x] ELSE added[j][y]] ELSE added[j]]
    <2>1. added' = [added EXCEPT ![i][x] = buf[i][x]]
      BY DEF Merge
    <2>2. added = [j \in Chare |-> [y \in Kind |-> added[j][y]]]
      BY DEF AddedShape
    <2> QED BY <2>1, <2>2
  <1>2. AddedShape'
    <2>1. added = [j \in Chare |-> [y \in Kind |-> added[j][y]]]
      BY DEF AddedShape
    <2>2. \A j \in Chare : added'[j] = [y \in Kind |-> added'[j][y]]
      BY <1>1, <2>1
    <2> QED BY <1>1, <2>2 DEF AddedShape
  <1> QED BY <1>1, <1>2 DEF Merge

\* ALECG::lhsmerge: chare i has the left-hand side of its mesh.
LEMMA LhsMergeAdded ==
  ASSUME NEW c, ALECGInv(c), NEW i \in Chare, LhsMerge(i)
  PROVE  \E d : ALECGInv(d)'
  <1>1. StepsInv(c) /\ NodeShape /\ AddedShape /\ Added(c)
    BY PartsOfInv DEF ALECGInv, Shape
  <1>2. "lhs" \in Kind
    BY ALECGFacts
  <1>3. /\ field' = [field EXCEPT ![i] = Combine(i, {"lhs"})] /\ AddedShape' /\ added'[i]["lhs"] = buf[i]["lhs"]
        /\ \A j \in Chare, y \in Kind : j # i \/ y # "lhs" => added'[j][y] = added[j][y]
    BY <1>1, <1>2, MergeFacts DEF LhsMerge
  <1>4. LhsMerges(i, {"rhs"})
    <2>1. field = [j \in Chare |-> [x \in Kind |-> field[j][x]]]
      BY <1>1 DEF NodeShape
    <2>2. field' = [j \in Chare |-> [x \in Kind |-> field'[j][x]]]
      BY <1>3, <2>1 DEF Combine
    <2>3. \A j \in Chare, x \in Kind : j # i \/ x # "lhs" => field'[j][x] = field[j][x]
      BY <1>3, <2>1 DEF Combine
    <2>4. field'[i]["lhs"] \subseteq field[i]["lhs"] \cup buf[i]["lhs"]
      BY <1>2, <1>3, <2>1 DEF Combine
    <2>5. /\ Run(i, "lhs", IF itr[i] = 0 THEN NextDt ELSE Triggers({done("lhs")}))
          /\ buf' = [buf EXCEPT ![i] = Zero(buf[i], {"rhs"})] /\ UNCHANGED <<stepVars, fileVars, refined, count>>
      BY SameEnds DEF LhsMerge
    <2> QED BY <2>2, <2>3, <2>4, <2>5 DEF LhsMerges
  <1>5. PICK d : StepsInv(d)' /\ LhsMerged(c, d, i)
    BY <1>1, <1>4, LhsMergeKeeps
  <1>6. buf[i]["lhs"] = PartsOf(Nbr[i], OfMesh(Now(c)))
    BY <1>1, <1>4, LhsMergeKeeps
  <1>7. d.round = c.round /\ c.round \in Nat
    BY <1>1, <1>5, ConfigIs DEF LhsMerged, StepsInv, Levels
  <1>8. Added(d)'
    <2> SUFFICES ASSUME NEW j \in Chare
                 PROVE  /\ d.round = 0 /\ d.stage[j] = 17 => AddedFor(j, 0)'
                        /\ d.round > 0 => AddedFor(j, IF d.lhs[j] = 3 THEN Now(d) ELSE Base(d))'
      BY DEF Added
    <2>1. Base(d) = Base(c) /\ Now(d) = Now(c) /\ (c.round = 0 => Now(c) = 0)
      BY <1>7 DEF Base, Now
    <2>2. CASE j = i
      <3>1. AddedFor(i, Now(c))'
        BY <1>3, <1>6 DEF AddedFor
      <3>2. c.round > 0 => d.lhs[i] = 3
        BY <1>5 DEF LhsMerged
      <3> QED BY <1>7, <2>1, <2>2, <3>1, <3>2
    <2>3. CASE j # i
      <3>1. d.stage[j] = c.stage[j] /\ d.lhs[j] = c.lhs[j] /\ added'[j]["lhs"] = added[j]["lhs"]
        BY <1>2, <1>3, <1>5, <2>3 DEF LhsMerged
      <3> QED BY <1>1, <1>7, <2>1, <3>1 DEF Added, AddedFor
    <2> QED BY <2>2, <2>3
  <1> QED BY <1>3, <1>5, <1>8 DEF ALECGInv

\* The effect of Sends of the fields of the first stage of a step.
LEMMA SendsRhs ==
  ASSUME NEW i \in Chare
  PROVE  SendsAll(i, 8, Wait \cap {"fct", "app"}, Sends(i, "rhs"))
  <1>1. SentAt(8) = {"rhs"}
    BY ALECGFacts DEF SentAt
  <1>2. Wait \cap {"fct", "app"} = {}
    BY ALECGFacts
  <1>3. /\ Sends(i, "rhs").calls = ComCalls(i, "rhs") /\ Sends(i, "rhs").posts = {}
        /\ Sends(i, "rhs").triggers = {own("rhs")} \cup (IF Nbr[i] = {} THEN {com("rhs")} ELSE {})
        /\ \A a : TargetsOn(a, Sends(i, "rhs")) = <<>>
    BY SendsFacts, SendsPosts
  <1> QED BY <1>1, <1>2, <1>3 DEF SendsAll

\* ALECG::advance, rhs: chare i starts its step.
LEMMA AdvanceAdded ==
  ASSUME NEW c, ALECGInv(c), NEW m \in msgs, NEW i, i = m.to, Advance(i, m)
  PROVE  \E d : ALECGInv(d)'
  <1>1. StepsInv(c) /\ NodeShape
    BY PartsOfInv DEF ALECGInv, Shape
  <1>2. added' = added /\ UNCHANGED <<it, itr, itf, lastDump, refined, finished, field, buf, count>>
    BY DEF Advance, stepVars, fileVars, nodeVars
  <1>3. \A x \in Kind : x \notin ZeroedAt(7)
    BY ALECGFacts DEF ZeroedAt
  <1>4. StepsOn(i, 7)
    <2>1. /\ buf' = [j \in Chare |-> [x \in Kind |-> buf'[j][x]]]
          /\ field' = [j \in Chare |-> [x \in Kind |-> field'[j][x]]]
      BY <1>1, <1>2 DEF NodeShape
    <2> QED BY <1>2, <1>3, <2>1 DEF StepsOn
  <1>5. Is(m, "advance", i) /\ Take(i, m, Sends(i, "rhs"))
    BY DEF Advance
  <1>6. i \in Chare
    BY <1>1, <1>5, PartsOfInv DEF Expects, Is
  <1>7. PICK d : StepsInv(d)' /\ Further(c, d, i)
    BY <1>1, <1>4, <1>5, <1>6, SendsRhs, AdvanceKeeps
  <1>8. AddedShape'
    BY <1>2 DEF ALECGInv, AddedShape
  <1>9. d.round = c.round /\ c.round > 0 /\ d.lhs = c.lhs
    BY <1>7 DEF Further, SameRest
  <1>10. ALECGInv(d)'
    BY <1>2, <1>7, <1>8, <1>9, AddedKept
  <1> QED BY <1>10

\* The step of chare i ends with its right-hand side.
LEMMA SolveMakesStep ==
  ASSUME NEW c, StepsInv(c), NEW i \in Chare, Solve(i)
  PROVE  LastOf(8, "rhs", "rhs") /\ MakesStep(i, "rhs", "rhs")
  <1>1. LastOf(8, "rhs", "rhs")
    BY ALECGFacts DEF LastOf
  <1>2. Shape /\ NodeShape /\ Outputs(c)
    BY PartsOfInv DEF Shape
  <1>3. buf' = [buf EXCEPT ![i] = Zero(buf[i], {"rhs"})]
    BY DEF Solve
  <1>4. buf = [j \in Chare |-> [x \in Kind |-> buf[j][x]]]
    BY <1>2 DEF NodeShape
  <1>5. buf' = [j \in Chare |-> [y \in Kind |-> buf'[j][y]]]
    BY <1>3, <1>4 DEF Zero
  <1>6. \A j \in Chare, y \in Kind : buf'[j][y] = IF j = i /\ y = "rhs" THEN {} ELSE buf[j][y]
    BY <1>3, <1>4 DEF Zero
  <1>7. Run(i, "rhs", Diagnostics(i, "refiner") ++ Refinement(it[i] + 1))
    BY SameEnds DEF Solve
  <1>8. /\ field' = [field EXCEPT ![i] = Combine(i, {"rhs"})] /\ it' = [it EXCEPT ![i] = it[i] + 1]
        /\ UNCHANGED <<itr, finished, itf, lastDump, count, refined>>
    BY DEF Solve, Merge, fileVars
  <1>9. refined' \in [Chare -> BOOLEAN]
    BY <1>2, <1>8 DEF Outputs
  <1>10. MakesStep(i, "rhs", "rhs")
    BY <1>5, <1>6, <1>7, <1>8, <1>9 DEF MakesStep
  <1> QED BY <1>1, <1>10

\* ALECG::solve: chare i makes its step.
LEMMA SolveAdded ==
  ASSUME NEW c, ALECGInv(c), NEW i \in Chare, Solve(i)
  PROVE  \E d : ALECGInv(d)'
  <1>1. StepsInv(c) /\ NodeShape /\ AddedShape
    BY PartsOfInv DEF ALECGInv, Shape
  <1>2. LastOf(8, "rhs", "rhs") /\ MakesStep(i, "rhs", "rhs")
    BY <1>1, SolveMakesStep
  <1>3. PICK d : StepsInv(d)' /\ StepMade(c, d, i)
    BY <1>1, <1>2, MakesStepKeeps
  <1>4. c.round > 0
    BY <1>1, <1>2, MakesStepKeeps
  <1>5. "lhs" \in Kind /\ "rhs" \in Kind /\ "lhs" # "rhs"
    BY ALECGFacts
  <1>6. AddedShape' /\ \A j \in Chare : added'[j]["lhs"] = added[j]["lhs"]
    BY <1>1, <1>5, MergeFacts DEF Solve
  <1>7. d.round = c.round /\ d.lhs = c.lhs
    BY <1>3 DEF StepMade
  <1>8. ALECGInv(d)'
    BY <1>3, <1>4, <1>6, <1>7, AddedKept
  <1> QED BY <1>8

\* Transporter::advance: all chares start the next step, on the mesh they are all on.
LEMMA NextRoundAdded ==
  ASSUME NEW c, ALECGInv(c), TransporterAdvance
  PROVE  \E d : ALECGInv(d)'
  <1>1. StepsInv(c) /\ AddedShape /\ Added(c)
    BY DEF ALECGInv
  <1>2. PICK d : StepsInv(d)' /\ Restarts(c, d)
    BY <1>1, NextRoundKeeps DEF TransporterAdvance
  <1>3. added' = added
    BY DEF TransporterAdvance
  <1>4. RoundOver(c) /\ d.round = c.round + 1 /\ Fresh(d) /\ c.round \in Nat
    BY <1>1, <1>2, ConfigIs DEF Restarts, StepsInv, Levels
  <1>5. Base(d) = MeshOf(c.round)
    BY <1>4 DEF Base
  <1>6. ASSUME NEW j \in Chare PROVE AddedFor(j, Base(d))
    <2>1. c.stage[j] = 17 /\ it[j] = c.round /\ itr[j] = MeshOf(c.round)
      BY <1>4 DEF RoundOver
    <2>2. CASE c.ref[j] = 3
      <3>1. c.round > 0 /\ c.lhs[j] = 3 /\ Now(c) = MeshOf(c.round)
        BY <1>4, <2>2 DEF RoundOver
      <3> QED BY <1>1, <1>5, <3>1 DEF Added
    <2>3. CASE c.ref[j] # 3
      <3>1. c.lhs[j] = 0 /\ Base(c) = MeshOf(c.round)
        BY <1>4, <2>3 DEF RoundOver
      <3>2. CASE c.round = 0
        <4>1. Base(c) = 0
          BY <3>2 DEF Base
        <4> QED BY <1>1, <1>5, <2>1, <3>1, <3>2, <4>1 DEF Added
      <3>3. CASE c.round # 0
        BY <1>1, <1>4, <1>5, <3>1, <3>3 DEF Added
      <3> QED BY <3>2, <3>3
    <2> QED BY <2>2, <2>3
  <1>7. Added(d)'
    <2>1. \A j \in Chare : d.lhs[j] = 0
      BY <1>4 DEF Fresh
    <2> QED BY <1>3, <1>4, <1>6, <2>1 DEF Added, AddedFor
  <1>8. AddedShape'
    BY <1>1, <1>3 DEF AddedShape
  <1> QED BY <1>2, <1>7, <1>8 DEF ALECGInv

-----------------------------------------------------------------------------
\* The calls of ALECG.
LEMMA CallAdded ==
  ASSUME NEW c, ALECGInv(c), NEW m \in msgs, ALECGCall(m.to, m)
  PROVE  \E d : ALECGInv(d)'
  <1> DEFINE i == m.to
  <1>1. i = m.to /\ ALECGCall(i, m) /\ StepsInv(c)
    BY DEF ALECGInv
  <1> HIDE DEF i
  <1>2. CASE Create(i, m)
    <2>1. /\ Is(m, "create", i) /\ Take(i, m, Posts({"lhs"}) ++ Contributes("worker", "comfinal"))
          /\ buf' = [buf EXCEPT ![i] = Zero(buf[i], {"lhs"})]
          /\ UNCHANGED <<stepVars, fileVars, refined, field, count>> /\ added' = added
      BY <1>2 DEF Create
    <2> QED BY <1>1, <2>1, CreateKeeps, AlongsideAdded
  <1>3. CASE Setup(i, m)
    <2>1. /\ Is(m, "setup", i) /\ Dumped(i) /\ Take(i, m, Calls({Dump(i, "init")}))
          /\ UNCHANGED <<stepVars, refined, nodeVars>> /\ added' = added
      BY <1>3 DEF Setup
    <2> QED BY <1>1, <2>1, SetupKeeps, AlongsideAdded
  <1>4. CASE Lhs(i, m)
    BY <1>1, <1>4, LhsAdded
  <1>5. CASE Comlhs(i, m) \/ Comrhs(i, m)
    <2>1. "lhs" \in Kind /\ "rhs" \in Kind
      BY ALECGFacts
    <2>2. PICK x \in {"lhs", "rhs"} : Receive(i, x, m, Triggers({com(x)})) /\ added' = added
      BY <1>5 DEF Comlhs, Comrhs
    <2>3. StepsInv(c)'
      BY <1>1, <2>1, <2>2, ReceiveKeeps
    <2> QED BY <2>2, <2>3, ReceivedAdded
  <1>6. CASE Advance(i, m)
    BY <1>1, <1>6, AdvanceAdded
  <1>7. CASE Diag(i, m)
    BY <1>1, <1>7, DiagKeeps, AlongsideAdded DEF Diag
  <1>8. CASE Resized(i, m)
    BY <1>1, <1>8, ResizedKeeps, AlongsideAdded DEF Resized
  <1>9. CASE Eval(i, m)
    <2>1. Evals(i, m) /\ added' = added
      BY <1>9 DEF Eval, Evals
    <2> QED BY <1>1, <2>1, EvalKeeps, AlongsideAdded
  <1>10. CASE Written(i, m)
    <2>1. /\ Is(m, "step", i) /\ Take(i, m, StepOf(i)) /\ UNCHANGED <<stepVars, fileVars, refined, nodeVars>>
          /\ added' = added
      BY <1>10, SameEnds DEF Written
    <2> QED BY <1>1, <2>1, WrittenKeeps, AlongsideAdded
  <1>11. CASE ResumeFromSync(i, m)
    <2>1. Resume(i, m, NextDt) /\ added' = added
      BY <1>11, SameEnds DEF ResumeFromSync
    <2> QED BY <1>1, <2>1, ResumeKeeps, AlongsideAdded
  <1> QED BY <1>1, <1>2, <1>3, <1>4, <1>5, <1>6, <1>7, <1>8, <1>9, <1>10, <1>11 DEF ALECGCall

\* The reductions of ALECG.
LEMMA TargetAdded ==
  ASSUME NEW c, ALECGInv(c), Comfinal \/ TransporterAdvance \/ MeshResized \/ Diagnosed \/ End
  PROVE  \E d : ALECGInv(d)'
  <1>1. StepsInv(c)
    BY DEF ALECGInv
  <1>2. CASE Comfinal
    BY <1>1, <1>2, ComfinalKeeps, AlongsideAdded DEF Comfinal
  <1>3. CASE TransporterAdvance
    BY <1>3, NextRoundAdded
  <1>4. CASE MeshResized
    BY <1>1, <1>4, MeshResizedKeeps, AlongsideAdded DEF MeshResized
  <1>5. CASE Diagnosed
    BY <1>1, <1>5, DiagnosedKeeps, AlongsideAdded DEF Diagnosed
  <1>6. CASE End
    BY <1>1, <1>6, EndKeeps, AlongsideAdded DEF End
  <1> QED BY <1>2, <1>3, <1>4, <1>5, <1>6

\* ALECG::out
LEMMA OutAdded ==
  ASSUME NEW c, ALECGInv(c), NEW i \in Chare, Out(i)
  PROVE  \E d : ALECGInv(d)'
  <1>1. /\ UNCHANGED <<stepVars, refined, nodeVars>> /\ added' = added
        /\ IF it[i] % FieldFreq = 0 \/ it[i] = NStep
           THEN Dumped(i) /\ Run(i, "out", Calls({Dump(i, "step")}))
           ELSE Run(i, "out", StepOf(i)) /\ UNCHANGED fileVars
    BY SameEnds DEF Out
  <1> QED BY <1>1, OutKeeps, AlongsideAdded DEF ALECGInv

\* Every step keeps what is true.
LEMMA NextAdded ==
  ASSUME NEW c, ALECGInv(c), [Next]_vars
  PROVE  \E d : ALECGInv(d)'
  <1>1. CASE DiscretizationNext /\ added' = added
    BY <1>1, DiscretizationKeeps, AlongsideAdded DEF ALECGInv
  <1>2. ASSUME NEW m \in msgs, ALECGCall(m.to, m) PROVE \E d : ALECGInv(d)'
    BY <1>2, CallAdded
  <1>3. ASSUME NEW i \in Chare, LhsMerge(i) \/ Solve(i) \/ Out(i) PROVE \E d : ALECGInv(d)'
    BY <1>3, LhsMergeAdded, SolveAdded, OutAdded
  <1>4. CASE Comfinal \/ TransporterAdvance \/ MeshResized \/ Diagnosed \/ End
    BY <1>4, TargetAdded
  <1>5. CASE (Exit /\ added' = added) \/ UNCHANGED vars
    <2>1. UNCHANGED vars
      BY <1>5 DEF Exit, vars
    <2>2. ALECGInv(c)'
      <3>1. StepsInv(c)'
        BY <2>1, StutterKeeps DEF vars, ALECGInv
      <3> QED BY <2>1, <3>1, AddedKept DEF vars, ALECGInv, AddedShape
    <2> QED BY <2>2
  <1> QED BY <1>1, <1>2, <1>3, <1>4, <1>5 DEF Next

\* Some configuration describes the state.
Configured == \E c : ALECGInv(c)

\* How far the chares are in their time steps, what they have heard from their neighbours, signalled and
\* contributed, and the left-hand side they have, fit together in every state.
THEOREM ALECGInvHolds == Spec => []Configured
  <1>1. Init => Configured
    <2> SUFFICES ASSUME Init PROVE Configured
      OBVIOUS
    <2>1. PICK c : StepsInv(c) /\ Unstarted(c)
      BY InitHolds DEF Init
    <2>2. AddedShape
      BY DEF Init, AddedShape
    <2>3. Added(c)
      BY <2>1 DEF Unstarted, Added
    <2> QED BY <2>1, <2>2, <2>3 DEF Configured, ALECGInv
  <1>2. Configured /\ [Next]_vars => Configured'
    BY NextAdded DEF Configured
  <1> QED BY <1>1, <1>2, PTL DEF Spec

-----------------------------------------------------------------------------
\* Parts of chares other than i.
LEMMA ReceivedIs ==
  ASSUME NEW c, StepsInv(c), NEW i \in Chare, it[i] + 1 = c.round, c.round > 0
  PROVE  /\ Received(i, it[i], "rhs") = PartsOf(Nbr[i], About(c, "rhs"))
         /\ Received(i, it[i], "lhs") = PartsOf(Nbr[i], OfMesh(Base(c)))
         /\ Needed(i, it[i], "vol") = Full(i, OfMesh(Base(c)))
  <1>1. it[i] = c.round - 1 /\ Base(c) = MeshOf(it[i])
    <2>1. it[i] \in Nat /\ c.round \in Nat
      BY PartsOfInv, ConfigIs DEF Shape
    <2> QED BY <2>1 DEF Base
  <1>2. About(c, "rhs") = [it |-> it[i], itr |-> MeshOf(it[i])]
    BY <1>1, AboutIs, ALECGFacts
  <1>3. OfMesh(Base(c)) = [it |-> MeshOf(it[i]) * DtFreq, itr |-> MeshOf(it[i])]
    BY <1>1 DEF OfMesh
  <1>4. Nbr[i] \subseteq Chare /\ i \notin Nbr[i]
    BY DiscretizationAssumption
  <1>5. ASSUME NEW n, NEW k
        PROVE  {p \in {[from |-> j, it |-> n, itr |-> k] : j \in Nbr[i] \cup {i}} : p.from # i}
               = {[from |-> j, it |-> n, itr |-> k] : j \in Nbr[i]}
    BY <1>4
  <1>6. Received(i, it[i], "rhs") = PartsOf(Nbr[i], About(c, "rhs"))
    <2>1. Needed(i, it[i], "rhs") = {[from |-> j, it |-> it[i], itr |-> MeshOf(it[i])] : j \in Nbr[i] \cup {i}}
      BY DEF Needed, MeshKind
    <2> QED BY <1>2, <1>5, <2>1 DEF Received, PartsOf, PartOf
  <1>7. \A x \in MeshKind : Needed(i, it[i], x) =
          {[from |-> j, it |-> MeshOf(it[i]) * DtFreq, itr |-> MeshOf(it[i])] : j \in Nbr[i] \cup {i}}
    BY DEF Needed
  <1>8. Received(i, it[i], "lhs") = PartsOf(Nbr[i], OfMesh(Base(c)))
    BY <1>3, <1>5, <1>7 DEF Received, PartsOf, PartOf, MeshKind
  <1>9. Needed(i, it[i], "vol") = Full(i, OfMesh(Base(c)))
    BY <1>3, <1>7 DEF Full, PartsOf, PartOf, MeshKind
  <1> QED BY <1>6, <1>8, <1>9

\* A step that changes the number of steps of a chare is its solve().
LEMMA StepsAreSolve ==
  ASSUME NEW c, ALECGInv(c), [Next]_vars, NEW i \in Chare, it'[i] # it[i]
  PROVE  Solve(i)
  <1>1. it' # it
    OBVIOUS
  <1>2. ASSUME NEW m \in msgs, ALECGCall(m.to, m) PROVE FALSE
    BY <1>1, <1>2 DEF ALECGCall, Create, Setup, Lhs, Comlhs, Advance, Comrhs, Receive, Diag, Resized, Signal, Eval,
         Written, ResumeFromSync, Resume, stepVars
  <1>3. ASSUME DiscretizationNext PROVE FALSE
    BY <1>1, <1>3, DiscretizationStays
  <1>4. ASSUME Comfinal \/ TransporterAdvance \/ MeshResized \/ Diagnosed \/ End PROVE FALSE
    BY <1>1, <1>4 DEF Comfinal, TransporterAdvance, MeshResized, Diagnosed, End, Finish, TransporterResized,
         TransporterDiagnostics, Target, stepVars
  <1>5. ASSUME Exit \/ UNCHANGED vars PROVE FALSE
    BY <1>1, <1>5 DEF Exit, vars, discVars, stepVars
  <1>6. ASSUME NEW j \in Chare, LhsMerge(j) \/ Out(j) PROVE FALSE
    BY <1>1, <1>6 DEF LhsMerge, Out, stepVars
  <1>7. ASSUME NEW j \in Chare, Solve(j) PROVE j = i
    <2>1. it' = [it EXCEPT ![j] = it[j] + 1] /\ it \in [Chare -> Nat]
      BY <1>7, PartsOfInv DEF Solve, ALECGInv, Shape
    <2> QED BY <2>1
  <1> QED BY <1>2, <1>3, <1>4, <1>5, <1>6, <1>7 DEF Next

\* In every step a chare makes, what solve() adds of other chares to its right-hand side, and what lhsmerge() added to
\* its left-hand side, is what each neighbour sent in this step and on this mesh, and nothing else, and its volumes
\* are those of this mesh.
THEOREM AdditionsComplete == Spec => AddedComplete
  <1> DEFINE A == \A i \in Chare : it'[i] # it[i] =>
                    /\ added'[i]["rhs"] = Received(i, it[i], "rhs")
                    /\ added[i]["lhs"] = Received(i, it[i], "lhs")
                    /\ field[i]["vol"] = Needed(i, it[i], "vol")
  <1>1. Configured /\ [Next]_vars => [A]_vars
    <2> SUFFICES ASSUME NEW c, ALECGInv(c), [Next]_vars, NEW i \in Chare, it'[i] # it[i]
                 PROVE  /\ added'[i]["rhs"] = Received(i, it[i], "rhs")
                        /\ added[i]["lhs"] = Received(i, it[i], "lhs")
                        /\ field[i]["vol"] = Needed(i, it[i], "vol")
      BY DEF Configured
    <2>1. Solve(i) /\ StepsInv(c) /\ AddedShape /\ Added(c) /\ NodeShape /\ Volumes(c)
      BY StepsAreSolve, PartsOfInv DEF ALECGInv, Shape
    <2>2. LastOf(8, "rhs", "rhs") /\ MakesStep(i, "rhs", "rhs")
      BY <2>1, SolveMakesStep
    <2>3. c.round > 0 /\ c.lhs[i] = 0 /\ c.ref[i] = 0 /\ it[i] + 1 = c.round /\ buf[i]["rhs"] = PartsOf(Nbr[i], About(c, "rhs"))
      BY <2>1, <2>2, MakesStepKeeps
    <2>4. added'[i]["rhs"] = buf[i]["rhs"]
      <3>1. "rhs" \in Kind
        BY ALECGFacts
      <3> QED BY <2>1, <3>1, MergeFacts DEF Solve
    <2>5. added[i]["lhs"] = PartsOf(Nbr[i], OfMesh(Base(c)))
      BY <2>1, <2>3 DEF Added, AddedFor
    <2>6. field[i]["vol"] = Full(i, OfMesh(Base(c)))
      <3>1. VolumesOf(c, i)
        BY <2>1 DEF Volumes
      <3> QED BY <2>3, <3>1 DEF VolumesOf
    <2> QED BY <2>1, <2>3, <2>4, <2>5, <2>6, ReceivedIs
  <1> QED BY <1>1, ALECGInvHolds, PTL DEF Spec, AddedComplete

-----------------------------------------------------------------------------
\* The calls of ALECG, for triggers and files.
LEMMA CallOrderly ==
  ASSUME NEW c, StepsInv(c), Orderly, NEW m \in msgs, ALECGCall(m.to, m)
  PROVE  Orderly'
  <1> DEFINE i == m.to
  <1>1. i = m.to /\ ALECGCall(i, m) /\ i \in Chare
    BY CallsTo
  <1> HIDE DEF i
  <1>2. CASE Create(i, m)
    <2>1. Tame(Posts({"lhs"}) ++ Contributes("worker", "comfinal"))
      BY TameEffects
    <2> QED BY <1>1, <1>2, <2>1, TakeOrderly DEF Create, Is, stepVars, fileVars
  <1>3. CASE Setup(i, m)
    BY <1>1, <1>3, SetupOrderly DEF Setup, stepVars
  <1>4. CASE Lhs(i, m)
    BY <1>1, <1>4, TameEffects, TakeOrderly DEF Lhs, Is, stepVars, fileVars
  <1>5. CASE Comlhs(i, m)
    BY <1>1, <1>5, TameEnds, ReceiveOrderly DEF Comlhs
  <1>6. CASE Advance(i, m)
    BY <1>1, <1>6, TameEffects, TakeOrderly DEF Advance, Is, stepVars, fileVars
  <1>7. CASE Comrhs(i, m)
    BY <1>1, <1>7, TameEnds, ReceiveOrderly DEF Comrhs
  <1>8. CASE Diag(i, m)
    BY <1>1, <1>8, TameEnds, TakeOrderly DEF Diag, Signal, Is, stepVars, fileVars
  <1>9. CASE Resized(i, m)
    BY <1>1, <1>9, TameEnds, TakeOrderly DEF Resized, Signal, Is, stepVars, fileVars
  <1>10. CASE Eval(i, m)
    <2>1. Evals(i, m)
      BY <1>10 DEF Eval, Evals
    <2> QED BY <1>1, <2>1, EvalOrderly
  <1>11. CASE Written(i, m)
    BY <1>1, <1>11, SameEnds, TameEnds, TakeOrderly DEF Written, Is, stepVars, fileVars
  <1>12. CASE ResumeFromSync(i, m)
    <2>1. Tame(IF Nonblocking THEN Nothing ELSE Dt)
      BY SameEnds, TameEnds, TameEffects
    <2> QED BY <1>1, <1>12, <2>1, TakeOrderly DEF ResumeFromSync, Resume, Is, stepVars, fileVars
  <1> QED BY <1>1, <1>2, <1>3, <1>4, <1>5, <1>6, <1>7, <1>8, <1>9, <1>10, <1>11, <1>12 DEF ALECGCall

\* Every step keeps the triggers and files in order.
LEMMA NextOrderly ==
  ASSUME NEW c, StepsInv(c), Orderly, [Next]_vars
  PROVE  Orderly'
  <1>1. CASE DiscretizationNext
    BY <1>1, DiscretizationOrderly
  <1>2. ASSUME NEW m \in msgs, ALECGCall(m.to, m) PROVE Orderly'
    BY <1>2, CallOrderly
  <1>3. ASSUME NEW i \in Chare, LhsMerge(i) PROVE Orderly'
    <2>1. Tame(IF itr[i] = 0 THEN Dt ELSE Triggers({done("lhs")}))
      BY SameEnds, TameEnds
    <2>2. "lhs" \in Wait \ {"resize"}
      BY WaitFacts
    <2> QED BY <1>3, <2>1, <2>2, RunOrderly DEF LhsMerge, stepVars, fileVars
  <1>4. ASSUME NEW i \in Chare, Solve(i) PROVE Orderly'
    <2>1. Tame(Diagnostics(i, "refiner") ++ Refine(it[i] + 1))
      BY SameEnds, TameEnds, TameEffects
    <2>2. "rhs" \in Wait \ {"resize"}
      BY WaitFacts
    <2> QED BY <1>4, <2>1, <2>2, RunOrderly DEF Solve, fileVars
  <1>5. ASSUME NEW i \in Chare, Out(i) PROVE Orderly'
    BY <1>5, SameEnds, OutOrderly DEF Out, stepVars
  <1>6. CASE Comfinal
    BY <1>6, TargetOrderly, EffectFacts, BroadcastOrderly DEF Comfinal
  <1>7. CASE TransporterAdvance
    <2> DEFINE e == Posts({"resize"}) ++ Calls(Broadcast("advance"))
    <2>1. e.triggers = {} /\ e.calls = Broadcast("advance")
      <3>1. /\ e.triggers = Posts({"resize"}).triggers \cup Calls(Broadcast("advance")).triggers
            /\ e.calls = Posts({"resize"}).calls \cup Calls(Broadcast("advance")).calls
        BY ThenFacts
      <3> QED BY <3>1, EffectFacts
    <2>2. Target("worker", "advance", e)
      BY <1>7 DEF TransporterAdvance
    <2> HIDE DEF e
    <2> QED BY <2>1, <2>2, TargetOrderly, BroadcastOrderly
  <1>8. CASE MeshResized
    <2> DEFINE s == Broadcast("vol") \cup Broadcast("lhs")
    <2>1. Calls(s).triggers = {} /\ \A n \in Calls(s).calls : n.type # "write"
      BY EffectFacts, BroadcastOrderly
    <2>2. Run(Host, "resize", Calls(s)) /\ UNCHANGED <<file, itf, itr>>
      BY <1>8 DEF MeshResized, TransporterResized, stepVars, fileVars
    <2> HIDE DEF s
    <2> QED BY <2>1, <2>2, HostOrderly
  <1>9. CASE Diagnosed
    BY <1>9, TargetOrderly, EffectFacts, BroadcastOrderly DEF Diagnosed, TransporterDiagnostics
  <1>10. CASE End
    BY <1>10, HostOrderly, EffectFacts DEF End, Finish, fileVars
  <1>11. CASE Exit \/ UNCHANGED vars
    <2>1. UNCHANGED <<msgs, trigger, file, itf, itr>>
      BY <1>11 DEF Exit, vars, discVars, charmVars, stepVars, fileVars
    <2> QED BY <2>1, FilesKept DEF Orderly, Uncalled
  <1> QED BY <1>1, <1>2, <1>3, <1>4, <1>5, <1>6, <1>7, <1>8, <1>9, <1>10, <1>11 DEF Next

\* Triggers and files stay in order.
LEMMA AlwaysOrderly == Spec => []Orderly
  <1>1. Init => Orderly
    BY InitOrderly DEF Init
  <1>2. Configured /\ Orderly /\ [Next]_vars => Orderly'
    BY NextOrderly DEF Configured, ALECGInv
  <1> QED BY <1>1, <1>2, ALECGInvHolds, PTL DEF Spec

\* No trigger of a chare or the Transporter is called again before the wait it is for has taken it, and no wait is
\* posted twice: nothing is left over for the next step (ALECG::refine, diag, resized, lhsmerge, resizeAfterRefined,
\* Discretization::comvol; Transporter::discresized, workresized).
THEOREM SignalsMatch == Spec => []SignalsOnce
  <1>1. Configured /\ Orderly => SignalsOnce
    BY SignalsBounded DEF Configured, ALECGInv, Orderly
  <1> QED BY <1>1, ALECGInvHolds, AlwaysOrderly, PTL

\* What the file writer is sent can be read: the mesh first, once for each, and on it the outputs 1, 2, ..., each with
\* its fields (Discretization::write, resize; ALECG::setup, out).
THEOREM OutputsReadable == Spec => []FilesReadable
  <1>1. Orderly => FilesReadable
    BY DEF Orderly, Files
  <1> QED BY <1>1, AlwaysOrderly, PTL

\* A contribution that is on its way is about nodes of the mesh its receiver has, and still has when it arrives
\* (ALECG::comlhs, comrhs, Discretization::comvol).
THEOREM ContributionsFit == Spec => []MeshesAgree
  <1>1. Configured => MeshesAgree
    BY MeshesFit DEF Configured, ALECGInv
  <1> QED BY <1>1, ALECGInvHolds, PTL

\* The elements of an array contribute to the same reductions in the same order (contribute() in ALECG,
\* Discretization, Refiner, Diagnostics).
THEOREM ReductionsMatch == Spec => []SameReductions
  <1>1. Configured => SameReductions
    BY ReductionsFit DEF Configured, ALECGInv
  <1> QED BY <1>1, ALECGInvHolds, PTL

-----------------------------------------------------------------------------
\* What all chares do together is a bulk step, or none is visible.
LEMMA NextSteps ==
  ASSUME Configured, [Next]_vars
  PROVE  [Bulk!Next]_(Bulk!vars)
  <1>1. PICK c : StepsInv(c)
    BY DEF Configured, ALECGInv
  <1>2. UNCHANGED <<it, itr, finished>> => UNCHANGED Bulk!vars
    BY DEF Bulk!vars
  <1>3. ASSUME NEW m \in msgs, ALECGCall(m.to, m) PROVE [Bulk!Next]_(Bulk!vars)
    <2> DEFINE i == m.to
    <2>1. i = m.to /\ ALECGCall(i, m)
      BY <1>3
    <2> HIDE DEF i
    <2>2. CASE Eval(i, m)
      <3>1. Evals(i, m)
        BY <2>2 DEF Eval, Evals
      <3>2. /\ i \in Chare /\ itr[i] < MeshOf(it[i]) /\ \A j \in Chare : it[j] = it[i]
            /\ itr' = [itr EXCEPT ![i] = itr[i] + 1] /\ it' = it /\ finished' = finished
        BY <1>1, <2>1, <3>1, EvalKeeps
      <3>3. Bulk!Remesh(i)
        BY <3>2 DEF Bulk!Remesh
      <3> QED BY <3>2, <3>3 DEF Bulk!Next
    <2>3. CASE ~ Eval(i, m)
      <3>1. UNCHANGED <<it, itr, finished>>
        BY <2>1, <2>3 DEF ALECGCall, Create, Setup, Lhs, Comlhs, Advance, Comrhs, Receive, Diag, Resized, Signal,
             Written, ResumeFromSync, Resume, stepVars
      <3> QED BY <1>2, <3>1
    <2> QED BY <2>2, <2>3
  <1>4. ASSUME NEW i \in Chare, LhsMerge(i) \/ Solve(i) \/ Out(i) PROVE [Bulk!Next]_(Bulk!vars)
    <2>1. CASE Solve(i)
      <3>1. LastOf(8, "rhs", "rhs") /\ MakesStep(i, "rhs", "rhs")
        BY <1>1, <2>1, SolveMakesStep
      <3>2. /\ it[i] < NStep /\ \A j \in Chare : it[j] >= it[i] /\ (it[j] = it[i] => itr[j] = MeshOf(it[i]))
            /\ it' = [it EXCEPT ![i] = it[i] + 1] /\ itr' = itr /\ finished' = finished
        BY <1>1, <3>1, MakesStepKeeps
      <3>3. Bulk!Step(i)
        BY <3>2 DEF Bulk!Step
      <3> QED BY <3>3 DEF Bulk!Next
    <2>2. CASE ~ Solve(i)
      <3>1. UNCHANGED <<it, itr, finished>>
        BY <1>4, <2>2 DEF LhsMerge, Out, stepVars
      <3> QED BY <1>2, <3>1
    <2> QED BY <2>1, <2>2
  <1>5. CASE End
    BY <1>1, <1>5, EndSteps DEF Bulk!Next, End
  <1>6. ASSUME Comfinal \/ TransporterAdvance \/ MeshResized \/ Diagnosed PROVE [Bulk!Next]_(Bulk!vars)
    <2>1. UNCHANGED <<it, itr, finished>>
      BY <1>6 DEF Comfinal, TransporterAdvance, MeshResized, Diagnosed, TransporterResized, TransporterDiagnostics,
           Target, stepVars
    <2> QED BY <1>2, <2>1
  <1>7. ASSUME DiscretizationNext PROVE [Bulk!Next]_(Bulk!vars)
    <2>1. UNCHANGED <<it, itr, finished>>
      BY <1>7, DiscretizationStays
    <2> QED BY <1>2, <2>1
  <1>8. Exit \/ UNCHANGED vars => UNCHANGED <<it, itr, finished>>
    BY DEF Exit, vars, discVars, stepVars
  <1> QED BY <1>2, <1>3, <1>4, <1>5, <1>6, <1>7, <1>8 DEF Next

\* Chares make time steps and refine their meshes together: none is more than a step ahead of another, none
\* makes a step while another lacks the mesh of that step, the mesh changes only between two steps, and the run
\* ends after the last (ALECG::advance, solve, resizeAfterRefined; Transporter::advance, matched, finish).
THEOREM StepsTogether == Spec => ImplementsBulkSteps
  <1>1. Init => Bulk!Init
    BY DEF Init, DiscretizationInit, Bulk!Init
  <1>2. Configured /\ [Next]_vars => [Bulk!Next]_(Bulk!vars)
    BY NextSteps
  <1> QED BY <1>1, <1>2, ALECGInvHolds, PTL DEF Spec, ImplementsBulkSteps, Bulk!Spec
=============================================================================
