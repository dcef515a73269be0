---------------------------- MODULE DiagCGProofs ----------------------------
(***************************************************************************)
(* What every run of DiagCG satisfies: the handlers of the scheme are those*)
(* of module StepsHandlers, the fields of a chare follow the configuration,*)
(* and the solution follows the fields.                                    *)
(***************************************************************************)
EXTENDS DiagCGInvariant, StepsHandlers

-----------------------------------------------------------------------------
\* The fields and waits of the scheme.
LEMMA DiagCGFacts ==
  /\ Kind = {"vol", "lhs", "rhs", "dif", "aec", "alw", "lim"} /\ StepKind = {"rhs", "dif", "aec", "alw", "lim"}
  /\ Wait = {"lhs", "rhs", "out", "fct", "app", "resize"}
  /\ Needs["rhs"] = {own("rhs"), com("rhs"), own("dif"), com("dif")}
  /\ Needs["fct"] = {own("aec"), com("aec"), own("alw"), com("alw")} /\ Needs["app"] = {own("lim"), com("lim")}
  /\ StageOf["rhs"] = 8 /\ StageOf["dif"] = 8 /\ StageOf["aec"] = 9 /\ StageOf["alw"] = 9 /\ StageOf["lim"] = 10
  /\ SentAt(8) = {"rhs", "dif"} /\ SentAt(9) = {"aec", "alw"} /\ SentAt(10) = {"lim"}
  <1>1. Kind = {"vol", "lhs", "rhs", "dif", "aec", "alw", "lim"}
    BY DiagCGAssumption DEF DiagCGKind
  <1>2. StepKind = {"rhs", "dif", "aec", "alw", "lim"}
    BY <1>1 DEF StepKind, MeshKind
  <1>3. Wait = {"lhs", "rhs", "out", "fct", "app", "resize"}
    BY DiagCGAssumption DEF DiagCGNeeds, Wait
  <1>4. /\ Needs["rhs"] = {own("rhs"), com("rhs"), own("dif"), com("dif")}
        /\ Needs["fct"] = {own("aec"), com("aec"), own("alw"), com("alw")} /\ Needs["app"] = {own("lim"), com("lim")}
    BY DiagCGAssumption DEF DiagCGNeeds
  <1>5. StageOf["rhs"] = 8 /\ StageOf["dif"] = 8 /\ StageOf["aec"] = 9 /\ StageOf["alw"] = 9 /\ StageOf["lim"] = 10
    BY DEF StageOf
  <1>6. SentAt(8) = {"rhs", "dif"} /\ SentAt(9) = {"aec", "alw"} /\ SentAt(10) = {"lim"}
    BY <1>2, <1>5 DEF SentAt
  <1> QED BY <1>1, <1>2, <1>3, <1>4, <1>5, <1>6

\* The step ends, or the next one starts, in the same way.
LEMMA SameEnds ==
  /\ Dt = NextDt /\ \A i : Step(i) = StepOf(i)
  /\ \A n : Refine(n) = Refinement(n)
  BY DEF Dt, NextDt, Step, StepOf, Refine, Refinement

\* The invariant in its parts.
LEMMA PartsOfDiagCG ==
  ASSUME NEW c, DiagCGInv(c)
  PROVE  /\ StepsInv(c) /\ c \in Config /\ c.round \in Nat /\ SolShape /\ SolutionComplete /\ NodeShape
         /\ \A j \in Chare : FieldsOf(c, j)
  BY PartsOfInv, ConfigIs DEF DiagCGInv, Fields, Shape

\* The fields of a chare stay when it goes on with what does not concern them.
LEMMA FieldsOfKept ==
  ASSUME NEW c, NEW d, c.round \in Nat, d.round = c.round, NEW j \in Chare, FieldsOf(c, j),
         \A x \in Kind \ {"vol"} : field'[j][x] = field[j][x],
         \/ d.stage[j] = c.stage[j] \/ {c.stage[j], d.stage[j]} \subseteq 0 .. 4
         \/ c.round > 0 /\ {c.stage[j], d.stage[j]} \subseteq 0 .. 7
         \/ c.round > 0 /\ {c.stage[j], d.stage[j]} \subseteq 11 .. 17,
         d.lhs[j] = c.lhs[j] \/ {c.lhs[j], d.lhs[j]} \subseteq 0 .. 1
  PROVE  FieldsOf(d, j)'
  <1>1. Base(d) = Base(c) /\ Now(d) = Now(c) /\ \A x : About(d, x) = About(c, x)
    BY DEF Base, Now, About
  <1>2. "lhs" \in Kind \ {"vol"} /\ StepKind \subseteq Kind \ {"vol"}
    BY DiagCGFacts
  <1>3. ASSUME c.round > 0, d.stage[j] \in 8 .. 10, NEW x \in StepKind
        PROVE  field'[j][x] = IF d.stage[j] < StageOf[x] THEN {}
                              ELSE IF d.stage[j] = StageOf[x] THEN {PartOf(j, About(d, x))}
                              ELSE Full(j, About(d, x))
    <2>1. d.stage[j] = c.stage[j]
      BY <1>3
    <2>2. field'[j][x] = field[j][x]
      BY <1>2
    <2> QED BY <1>1, <1>3, <2>1, <2>2 DEF FieldsOf
  <1>4. field'[j]["lhs"] = field[j]["lhs"]
    BY <1>2
  <1>5. c.round = 0 => /\ d.stage[j] = 5 => field'[j]["lhs"] = {PartOf(j, OfMesh(0))}
                       /\ d.stage[j] = 17 => field'[j]["lhs"] = Full(j, OfMesh(0))
    BY <1>4 DEF FieldsOf
  <1>6. c.round > 0 => field'[j]["lhs"] = IF d.lhs[j] <= 1 THEN Full(j, OfMesh(Base(d)))
                                          ELSE IF d.lhs[j] = 2 THEN {PartOf(j, OfMesh(Now(d)))}
                                          ELSE Full(j, OfMesh(Now(d)))
    BY <1>1, <1>4 DEF FieldsOf
  <1> QED BY <1>3, <1>5, <1>6 DEF FieldsOf

\* The solution stays what it is.
LEMMA SolKept ==
  ASSUME SolShape, SolutionComplete, sol' = sol, it' = it
  PROVE  SolShape' /\ SolutionComplete'
  BY DEF SolShape, SolutionComplete, Needed

\* A handler that changes no fields but volumes, and goes on with other things than fields.
LEMMA AlongsideFields ==
  ASSUME NEW c, DiagCGInv(c), sol' = sol, it' = it, \A j \in Chare, x \in Kind \ {"vol"} : field'[j][x] = field[j][x],
         \E d : StepsInv(d)' /\ Alongside(c, d)
  PROVE  \E d : DiagCGInv(d)'
  <1>1. PICK d : StepsInv(d)' /\ Alongside(c, d)
    OBVIOUS
  <1>2. c.round \in Nat /\ SolShape /\ SolutionComplete /\ \A j \in Chare : FieldsOf(c, j)
    BY PartsOfDiagCG
  <1>3. SolShape' /\ SolutionComplete'
    BY <1>2, SolKept
  <1>4. ASSUME NEW j \in Chare PROVE FieldsOf(d, j)'
    <2>1. d.round = c.round
      BY <1>1 DEF Alongside
    <2>2. \/ d.stage[j] = c.stage[j] \/ {c.stage[j], d.stage[j]} \subseteq 0 .. 4
          \/ c.round > 0 /\ {c.stage[j], d.stage[j]} \subseteq 11 .. 17
      BY <1>1 DEF Alongside
    <2>3. d.lhs[j] = c.lhs[j] \/ {c.lhs[j], d.lhs[j]} \subseteq 0 .. 1
      BY <1>1 DEF Alongside
    <2> QED BY <1>2, <2>1, <2>2, <2>3, FieldsOfKept
  <1> QED BY <1>1, <1>3, <1>4 DEF DiagCGInv, Fields

\* The same if it changes none.
LEMMA AlongsideUnchanged ==
  ASSUME NEW c, DiagCGInv(c), sol' = sol, it' = it, field' = field, \E d : StepsInv(d)' /\ Alongside(c, d)
  PROVE  \E d : DiagCGInv(d)'
  <1>1. \A j \in Chare, x \in Kind \ {"vol"} : field'[j][x] = field[j][x]
    OBVIOUS
  <1> QED BY <1>1, AlongsideFields

\* A contribution that arrives.
LEMMA ReceivedFields ==
  ASSUME NEW c, DiagCGInv(c), sol' = sol, it' = it, field' = field, StepsInv(c)'
  PROVE  \E d : DiagCGInv(d)'
  <1>1. c.round \in Nat /\ SolShape /\ SolutionComplete /\ \A j \in Chare : FieldsOf(c, j)
    BY PartsOfDiagCG
  <1>2. SolShape' /\ SolutionComplete'
    BY <1>1, SolKept
  <1>3. \A j \in Chare : FieldsOf(c, j)'
    BY <1>1, FieldsOfKept
  <1>4. DiagCGInv(c)'
    BY <1>2, <1>3 DEF DiagCGInv, Fields
  <1> QED BY <1>4

-----------------------------------------------------------------------------
\* DiagCG::lhs: chare i sends its lumped mass.
LEMMA LhsFields ==
  ASSUME NEW c, DiagCGInv(c), NEW m \in msgs, NEW i, i = m.to, Lhs(i, m)
  PROVE  \E d : DiagCGInv(d)'
  <1>1. StepsInv(c) /\ c.round \in Nat /\ SolShape /\ SolutionComplete /\ NodeShape /\ \A j \in Chare : FieldsOf(c, j)
    BY PartsOfDiagCG
  <1>2. i \in Chare /\ (Is(m, "init", i) \/ Is(m, "lhs", i)) /\ "lhs" \in Kind
    <2>1. Is(m, "init", i) \/ Is(m, "lhs", i)
      BY DEF Lhs
    <2> QED BY <1>1, <2>1, PartsOfInv, DiagCGFacts DEF Expects, Is
  <1>3. /\ field' = [j \in Chare |-> [x \in Kind |-> field'[j][x]]]
        /\ \A x \in Kind : field'[i][x] = IF x \in {"lhs"} THEN {Part(i, x)} ELSE field[i][x]
        /\ \A j \in Chare \ {i} : field'[j] = field[j]
    <2> DEFINE g == Compute(field[i], i, {"lhs"})
    <2>1. g = [x \in Kind |-> g[x]] /\ \A x \in Kind : g[x] = IF x \in {"lhs"} THEN {Part(i, x)} ELSE field[i][x]
      BY ComputeFacts
    <2>2. field' = [field EXCEPT ![i] = g]
      BY DEF Lhs
    <2> HIDE DEF g
    <2> QED BY <1>1, <1>2, <2>1, <2>2, FieldSet
  <1>4. /\ \A j \in Chare, x \in Kind : j # i \/ x # "lhs" => field'[j][x] = field[j][x]
        /\ field'[i]["lhs"] = {Part(i, "lhs")}
    BY <1>2, <1>3
  <1>5. Take(i, m, Sends(i, "lhs")) /\ UNCHANGED <<stepVars, fileVars, refined, buf, count>> /\ sol' = sol /\ it' = it
    BY DEF Lhs, stepVars
  <1>6. (\E d : StepsInv(d)' /\ LhsSent(c, d, i)) /\ Part(i, "lhs") = PartOf(i, OfMesh(Now(c)))
    BY <1>1, <1>2, <1>3, <1>4, <1>5, LhsKeeps
  <1>7. PICK d : StepsInv(d)' /\ LhsSent(c, d, i)
    BY <1>6
  <1>8. ASSUME NEW j \in Chare PROVE FieldsOf(d, j)'
    <2>1. CASE j # i
      <3>1. d.round = c.round /\ d.stage[j] = c.stage[j] /\ d.lhs[j] = c.lhs[j]
        BY <1>7, <2>1 DEF LhsSent
      <3>2. \A x \in Kind \ {"vol"} : field'[j][x] = field[j][x]
        BY <1>4, <2>1
      <3> QED BY <1>1, <3>1, <3>2, FieldsOfKept
    <2>2. CASE j = i
      <3>1. d.round = c.round /\ Now(d) = Now(c) /\ field'[i]["lhs"] = {PartOf(i, OfMesh(Now(d)))}
        BY <1>4, <1>6, <1>7 DEF LhsSent, Now, Base
      <3>2. IF c.round = 0 THEN d.stage[i] = 5 ELSE d.lhs[i] = 2 /\ d.stage[i] = 11
        BY <1>7 DEF LhsSent
      <3>3. c.round = 0 => Now(d) = 0
        BY <3>1 DEF Now
      <3> QED BY <1>1, <2>2, <3>1, <3>2, <3>3 DEF FieldsOf
    <2> QED BY <2>1, <2>2
  <1>9. SolShape' /\ SolutionComplete'
    BY <1>1, <1>5, SolKept
  <1> QED BY <1>7, <1>8, <1>9 DEF DiagCGInv, Fields

\* DiagCG::lhsmerge: chare i has the lumped mass of its mesh.
LEMMA LhsMergeFields ==
  ASSUME NEW c, DiagCGInv(c), NEW i \in Chare, LhsMerge(i)
  PROVE  \E d : DiagCGInv(d)'
  <1>1. StepsInv(c) /\ c.round \in Nat /\ SolShape /\ SolutionComplete /\ NodeShape /\ \A j \in Chare : FieldsOf(c, j)
    BY PartsOfDiagCG
  <1>2. "lhs" \in Kind
    BY DiagCGFacts
  <1>3. /\ field' = [j \in Chare |-> [x \in Kind |-> field'[j][x]]]
        /\ \A x \in Kind : field'[i][x] = IF x \in {"lhs"} THEN field[i][x] \cup buf[i][x] ELSE field[i][x]
        /\ \A j \in Chare \ {i} : field'[j] = field[j]
    <2> DEFINE g == Combine(i, {"lhs"})
    <2>1. g = [x \in Kind |-> g[x]] /\ \A x \in Kind : g[x] = IF x \in {"lhs"} THEN field[i][x] \cup buf[i][x] ELSE field[i][x]
      BY CombineFacts
    <2>2. field' = [field EXCEPT ![i] = g]
      BY DEF LhsMerge
    <2> HIDE DEF g
    <2> QED BY <1>1, <2>1, <2>2, FieldSet
  <1>4. /\ \A j \in Chare, x \in Kind : j # i \/ x # "lhs" => field'[j][x] = field[j][x]
        /\ field'[i]["lhs"] = field[i]["lhs"] \cup buf[i]["lhs"]
    BY <1>2, <1>3
  <1>5. LhsMerges(i, {"rhs", "dif"})
    <2>1. /\ Run(i, "lhs", IF itr[i] = 0 THEN NextDt ELSE Triggers({done("lhs")}))
          /\ buf' = [buf EXCEPT ![i] = Zero(buf[i], {"rhs", "dif"})] /\ UNCHANGED <<stepVars, fileVars, refined, count>>
      BY SameEnds DEF LhsMerge
    <2> QED BY <1>3, <1>4, <2>1 DEF LhsMerges
  <1>6. (\E d : StepsInv(d)' /\ LhsMerged(c, d, i)) /\ buf[i]["lhs"] = PartsOf(Nbr[i], OfMesh(Now(c)))
    BY <1>1, <1>5, LhsMergeKeeps
  <1>7. PICK d : StepsInv(d)' /\ LhsMerged(c, d, i)
    BY <1>6
  <1>8. ASSUME NEW j \in Chare PROVE FieldsOf(d, j)'
    <2>1. CASE j # i
      <3>1. d.round = c.round /\ d.stage[j] = c.stage[j] /\ d.lhs[j] = c.lhs[j]
        BY <1>7, <2>1 DEF LhsMerged
      <3>2. \A x \in Kind \ {"vol"} : field'[j][x] = field[j][x]
        BY <1>4, <2>1
      <3> QED BY <1>1, <3>1, <3>2, FieldsOfKept
    <2>2. CASE j = i
      <3>1. d.round = c.round /\ Now(d) = Now(c) /\ (c.round = 0 => Now(d) = 0)
        BY <1>7 DEF LhsMerged, Now, Base
      <3>2. IF c.round = 0 THEN c.stage[i] = 5 /\ d.stage[i] = 17
                           ELSE c.lhs[i] = 2 /\ d.lhs[i] = 3 /\ d.stage[i] = 11
        BY <1>7 DEF LhsMerged
      <3>3. field[i]["lhs"] = {PartOf(i, OfMesh(Now(c)))}
        <4>1. FieldsOf(c, i)
          BY <1>1
        <4>2. CASE c.round = 0
          BY <3>1, <3>2, <4>1, <4>2 DEF FieldsOf
        <4>3. CASE c.round # 0
          <5>1. c.lhs[i] = 2 /\ c.round > 0
            BY <1>1, <3>2, <4>3
          <5> QED BY <4>1, <5>1 DEF FieldsOf
        <4> QED BY <4>2, <4>3
      <3>4. field'[i]["lhs"] = Full(i, OfMesh(Now(d)))
        BY <1>4, <1>6, <3>1, <3>3, FullIs
      <3> QED BY <1>1, <2>2, <3>1, <3>2, <3>4 DEF FieldsOf
    <2> QED BY <2>1, <2>2
  <1>9. SolShape' /\ SolutionComplete'
    BY <1>1, SolKept DEF LhsMerge, stepVars
  <1> QED BY <1>7, <1>8, <1>9 DEF DiagCGInv, Fields

-----------------------------------------------------------------------------
\* What the fields of a step are to be in stage k.
FieldAt(c, i, k, x) ==
  IF k < StageOf[x] THEN {} ELSE IF k = StageOf[x] THEN {PartOf(i, About(c, x))} ELSE Full(i, About(c, x))

\* Chare i goes on to the next stage of its step with the fields of that stage.
LEMMA FurtherFields ==
  ASSUME NEW c, DiagCGInv(c), NEW i \in Chare, NEW d, StepsInv(d)', Further(c, d, i), sol' = sol, it' = it, StepsOn(i, c.stage[i]),
         \A x \in StepKind : field'[i][x] = FieldAt(c, i, c.stage[i] + 1, x)
  PROVE  DiagCGInv(d)'
  <1>1. c.round \in Nat /\ SolShape /\ SolutionComplete /\ \A j \in Chare : FieldsOf(c, j)
    BY PartsOfDiagCG
  <1>2. /\ c.round > 0 /\ d.stage = [c.stage EXCEPT ![i] = @ + 1] /\ c.stage \in [Chare -> 0 .. 17]
        /\ d.round = c.round /\ d.lhs = c.lhs /\ c.stage[i] \in 7 .. 9
    BY ConfigIs DEF Further, SameRest
  <1>3. \A x \in Kind, j \in Chare : j # i \/ x \in MeshKind => field'[j][x] = field[j][x]
    BY DEF StepsOn
  <1>4. ASSUME NEW j \in Chare PROVE FieldsOf(d, j)'
    <2>1. CASE j # i
      <3>1. d.stage[j] = c.stage[j] /\ d.lhs[j] = c.lhs[j]
        BY <1>2, <2>1
      <3>2. \A x \in Kind \ {"vol"} : field'[j][x] = field[j][x]
        BY <1>3, <2>1
      <3> QED BY <1>1, <1>2, <3>1, <3>2, FieldsOfKept
    <2>2. CASE j = i
      <3>1. d.stage[i] = c.stage[i] + 1 /\ \A x : About(d, x) = About(c, x)
        BY <1>2 DEF About, Base, Now
      <3>2. field'[i]["lhs"] = field[i]["lhs"]
        BY <1>3, DiagCGFacts DEF MeshKind
      <3>3. field'[i]["lhs"] = IF d.lhs[i] <= 1 THEN Full(i, OfMesh(Base(d)))
                               ELSE IF d.lhs[i] = 2 THEN {PartOf(i, OfMesh(Now(d)))} ELSE Full(i, OfMesh(Now(d)))
        <4>1. FieldsOf(c, i) /\ Base(d) = Base(c) /\ Now(d) = Now(c)
          BY <1>1, <1>2 DEF Base, Now
        <4> QED BY <1>2, <3>2, <4>1 DEF FieldsOf
      <3>4. \A x \in StepKind : field'[i][x] = FieldAt(d, i, d.stage[i], x)
        BY <3>1 DEF FieldAt
      <3>5. ~ (d.round = 0)
        BY <1>1, <1>2
      <3> QED BY <2>2, <3>3, <3>4, <3>5 DEF FieldsOf, FieldAt
    <2> QED BY <2>1, <2>2
  <1>5. SolShape' /\ SolutionComplete'
    BY <1>1, SolKept
  <1> QED BY <1>4, <1>5 DEF DiagCGInv, Fields

\* The fields of a chare in the middle of its step.
LEMMA FieldsAre ==
  ASSUME NEW c, DiagCGInv(c), NEW i \in Chare, c.round > 0, NEW k \in 8 .. 10, c.stage[i] = k, NEW x \in StepKind
  PROVE  field[i][x] = FieldAt(c, i, k, x)
  <1>1. FieldsOf(c, i)
    BY PartsOfDiagCG
  <1>2. c.stage[i] \in 8 .. 10
    OBVIOUS
  <1>3. field[i][x] = IF c.stage[i] < StageOf[x] THEN {}
                      ELSE IF c.stage[i] = StageOf[x] THEN {PartOf(i, About(c, x))}
                      ELSE Full(i, About(c, x))
    BY <1>1, <1>2 DEF FieldsOf
  <1> QED BY <1>3 DEF FieldAt

\* The lumped mass of a chare that has no new mesh.
LEMMA MassIs ==
  ASSUME NEW c, DiagCGInv(c), NEW i \in Chare, c.round > 0, c.lhs[i] = 0
  PROVE  field[i]["lhs"] = Full(i, OfMesh(Base(c)))
  <1>1. FieldsOf(c, i)
    BY PartsOfDiagCG
  <1> QED BY <1>1 DEF FieldsOf

\* The effect of two sendings.
LEMMA SendsTwo ==
  ASSUME NEW i \in Chare, NEW k \in 8 .. 9, NEW x, NEW y, SentAt(k) = {x, y}, NEW e,
         e = Sends(i, x) ++ Sends(i, y)
  PROVE  SendsAll(i, k, {}, e)
  <1>1. /\ e.calls = ComCalls(i, x) \cup ComCalls(i, y)
        /\ e.triggers = Sends(i, x).triggers \cup Sends(i, y).triggers
        /\ \A a : TargetsOn(a, e) = <<>> \o <<>>
    BY SendsFacts, ThenFacts
  <1>2. <<>> \o <<>> = <<>>
    OBVIOUS
  <1>3. e.posts = {}
    BY SendsPosts DEF ++
  <1>4. e.calls = UNION {ComCalls(i, z) : z \in SentAt(k)}
    BY <1>1
  <1>5. e.triggers = {own(z) : z \in SentAt(k)} \cup (IF Nbr[i] = {} THEN {com(z) : z \in SentAt(k)} ELSE {})
    <2>1. /\ Sends(i, x).triggers = {own(x)} \cup (IF Nbr[i] = {} THEN {com(x)} ELSE {})
          /\ Sends(i, y).triggers = {own(y)} \cup (IF Nbr[i] = {} THEN {com(y)} ELSE {})
      BY SendsFacts
    <2>2. CASE Nbr[i] = {}
      BY <1>1, <2>1, <2>2
    <2>3. CASE Nbr[i] # {}
      BY <1>1, <2>1, <2>3
    <2> QED BY <2>2, <2>3
  <1> QED BY <1>1, <1>2, <1>3, <1>4, <1>5 DEF SendsAll

\* One sending.
LEMMA SendsOne ==
  ASSUME NEW i \in Chare, NEW k \in 8 .. 10, NEW x, SentAt(k) = {x}
  PROVE  SendsAll(i, k, {}, Sends(i, x))
  <1>1. /\ Sends(i, x).calls = ComCalls(i, x) /\ Sends(i, x).posts = {}
        /\ Sends(i, x).triggers = {own(x)} \cup (IF Nbr[i] = {} THEN {com(x)} ELSE {})
        /\ \A a : TargetsOn(a, Sends(i, x)) = <<>>
    BY SendsFacts, SendsPosts
  <1> QED BY <1>1 DEF SendsAll

\* DiagCG::advance, rhs: the effect.
LEMMA AdvanceSends ==
  ASSUME NEW i \in Chare, NEW e, e = Posts({"fct", "app"}) ++ Sends(i, "rhs") ++ Sends(i, "dif")
  PROVE  SendsAll(i, 8, Wait \cap {"fct", "app"}, e)
  <1> DEFINE p == Posts({"fct", "app"})
             s == Sends(i, "rhs")
             t == Sends(i, "dif")
             u == s ++ t
  <1>1. SendsAll(i, 8, {}, u)
    <2>1. 8 \in 8 .. 9 /\ SentAt(8) = {"rhs", "dif"}
      BY DiagCGFacts
    <2> QED BY <2>1, SendsTwo
  <1>2. p.calls = {} /\ p.triggers = {} /\ p.posts = {"fct", "app"} /\ \A a : TargetsOn(a, p) = <<>>
    BY EffectFacts, PostsFacts
  <1>3. s.posts = {} /\ t.posts = {} /\ (\A a : TargetsOn(a, s) = <<>>) /\ \A a : TargetsOn(a, t) = <<>>
    BY SendsPosts, SendsFacts
  <1>4. e = (p ++ s) ++ t
    OBVIOUS
  <1> HIDE DEF p, s, t
  <1>5. /\ e.calls = (p.calls \cup s.calls) \cup t.calls /\ e.triggers = (p.triggers \cup s.triggers) \cup t.triggers
        /\ \A a : TargetsOn(a, e) = (TargetsOn(a, p) \o TargetsOn(a, s)) \o TargetsOn(a, t)
        /\ u.calls = s.calls \cup t.calls /\ u.triggers = s.triggers \cup t.triggers
    <2> DEFINE q == p ++ s
    <2>1. e = q ++ t
      BY <1>4
    <2>2. /\ q.calls = p.calls \cup s.calls /\ q.triggers = p.triggers \cup s.triggers
          /\ \A a : TargetsOn(a, q) = TargetsOn(a, p) \o TargetsOn(a, s)
      BY ThenFacts
    <2>3. u.calls = s.calls \cup t.calls /\ u.triggers = s.triggers \cup t.triggers
      BY ThenFacts
    <2> HIDE DEF q, u
    <2>4. /\ e.calls = q.calls \cup t.calls /\ e.triggers = q.triggers \cup t.triggers
          /\ \A a : TargetsOn(a, e) = TargetsOn(a, q) \o TargetsOn(a, t)
      BY <2>1, ThenFacts
    <2> QED BY <2>2, <2>3, <2>4
  <1>6. e.posts = {"fct", "app"}
    BY <1>2, <1>3, <1>4 DEF ++
  <1>7. e.calls = u.calls /\ e.triggers = u.triggers
    BY <1>2, <1>5
  <1>8. \A a : TargetsOn(a, e) = <<>>
    <2>1. (<<>> \o <<>>) \o <<>> = <<>>
      OBVIOUS
    <2> QED BY <1>2, <1>3, <1>5, <2>1
  <1>9. Wait \cap {"fct", "app"} = {"fct", "app"}
    BY DiagCGFacts
  <1> HIDE DEF u
  <1> QED BY <1>1, <1>6, <1>7, <1>8, <1>9 DEF SendsAll

\* DiagCG::advance, rhs: chare i starts its step.
LEMMA AdvanceFields ==
  ASSUME NEW c, DiagCGInv(c), NEW m \in msgs, NEW i, i = m.to, Advance(i, m)
  PROVE  \E d : DiagCGInv(d)'
  <1>1. StepsInv(c) /\ NodeShape
    BY PartsOfDiagCG
  <1>2. Is(m, "advance", i) /\ i \in Chare
    <2>1. Is(m, "advance", i)
      BY DEF Advance, Start
    <2> QED BY <1>1, <2>1, PartsOfInv DEF Expects, Is
  <1>3. /\ buf' = [j \in Chare |-> [x \in Kind |-> buf'[j][x]]]
        /\ \A x \in Kind : buf'[i][x] = IF x \in Corrected THEN {} ELSE buf[i][x]
        /\ \A j \in Chare \ {i} : buf'[j] = buf[j]
    <2> DEFINE g == Zero(buf[i], Corrected)
    <2>1. g = [x \in Kind |-> g[x]] /\ \A x \in Kind : g[x] = IF x \in Corrected THEN {} ELSE buf[i][x]
      BY ZeroFacts
    <2>2. buf' = [buf EXCEPT ![i] = g]
      BY DEF Advance, Start
    <2> HIDE DEF g
    <2> QED BY <1>1, <1>2, <2>1, <2>2, BufSet
  <1>4. /\ field' = [j \in Chare |-> [x \in Kind |-> field'[j][x]]]
        /\ \A x \in Kind : field'[i][x] = IF x \in {"rhs", "dif"} THEN {Part(i, x)} ELSE IF x \in Corrected THEN {} ELSE field[i][x]
        /\ \A j \in Chare \ {i} : field'[j] = field[j]
    <2> DEFINE f == Zero(field[i], Corrected)
               g == Compute(f, i, {"rhs", "dif"})
    <2>1. \A x \in Kind : f[x] = IF x \in Corrected THEN {} ELSE field[i][x]
      BY ZeroFacts
    <2> HIDE DEF f
    <2>2. g = [x \in Kind |-> g[x]] /\ \A x \in Kind : g[x] = IF x \in {"rhs", "dif"} THEN {Part(i, x)} ELSE f[x]
      BY ComputeFacts
    <2>3. field' = [field EXCEPT ![i] = g]
      BY DEF Advance, Start, f
    <2> HIDE DEF g
    <2>4. /\ field' = [j \in Chare |-> [x \in Kind |-> field'[j][x]]] /\ \A j \in Chare \ {i} : field'[j] = field[j]
          /\ \A x \in Kind : field'[i][x] = g[x]
      BY <1>1, <1>2, <2>2, <2>3, FieldSet
    <2> QED BY <2>1, <2>2, <2>4
  <1>5. UNCHANGED <<it, itr, itf, lastDump, refined, finished, count, sol>>
    BY DEF Advance, Start, stepVars, fileVars
  <1>6. StepsOn(i, 7)
    <2>1. \A x \in Kind, j \in Chare : buf'[j][x] = IF j = i /\ x \in ZeroedAt(7) THEN {} ELSE buf[j][x]
      BY <1>3 DEF ZeroedAt, Corrected
    <2>2. \A x \in Kind, j \in Chare : j # i \/ x \in MeshKind => field'[j][x] = field[j][x]
      BY <1>4 DEF MeshKind, Corrected
    <2>3. \A x \in StepKind : field'[i][x] \subseteq field[i][x] \cup buf[i][x] \cup {Part(i, x)}
      BY <1>4, DiagCGFacts
    <2> QED BY <1>3, <1>4, <1>5, <2>1, <2>2, <2>3 DEF StepsOn
  <1>7. (\E d : StepsInv(d)' /\ Further(c, d, i)) /\ c.stage[i] = 7
    <2> DEFINE e == Posts({"fct", "app"}) ++ Sends(i, "rhs") ++ Sends(i, "dif")
    <2>1. SendsAll(i, 8, Wait \cap {"fct", "app"}, e)
      BY <1>2, AdvanceSends
    <2>2. Take(i, m, e)
      BY DEF Advance, Start
    <2> HIDE DEF e
    <2> QED BY <1>1, <1>2, <1>6, <2>1, <2>2, AdvanceKeeps
  <1>8. PICK d : StepsInv(d)' /\ Further(c, d, i)
    BY <1>7
  <1>9. \A x \in StepKind : field'[i][x] = FieldAt(c, i, 8, x)
    <2>1. \A x \in StepKind : Part(i, x) = PartOf(i, About(c, x))
      BY <1>8 DEF Further
    <2>2. \A x \in {"rhs", "dif"} : field'[i][x] = {PartOf(i, About(c, x))} /\ StageOf[x] = 8
      BY <1>4, <2>1, DiagCGFacts
    <2>3. \A x \in Corrected : field'[i][x] = {} /\ 8 < StageOf[x]
      BY <1>4, DiagCGFacts DEF Corrected
    <2>4. StepKind = {"rhs", "dif"} \cup Corrected
      BY DiagCGFacts DEF Corrected
    <2>5. \A x \in {"rhs", "dif"} : field'[i][x] = FieldAt(c, i, 8, x)
      <3>1. ~ (8 < 8)
        OBVIOUS
      <3> QED BY <2>2, <3>1 DEF FieldAt
    <2>6. \A x \in Corrected : field'[i][x] = FieldAt(c, i, 8, x)
      BY <2>3 DEF FieldAt
    <2> QED BY <2>4, <2>5, <2>6
  <1>10. 7 + 1 = 8
    OBVIOUS
  <1>11. DiagCGInv(d)'
    BY <1>2, <1>5, <1>6, <1>7, <1>8, <1>9, <1>10, FurtherFields
  <1> QED BY <1>11

\* What the neighbours sent completes the fields of the stage.
LEMMA StageComplete ==
  ASSUME NEW c, DiagCGInv(c), NEW i \in Chare, c.round > 0, NEW k \in 8 .. 10, c.stage[i] = k, NEW x \in StepKind, StageOf[x] = k,
         buf[i][x] = PartsOf(Nbr[i], About(c, x))
  PROVE  field[i][x] \cup buf[i][x] = Full(i, About(c, x))
  <1>1. field[i][x] = FieldAt(c, i, k, x)
    BY FieldsAre
  <1>2. StageOf[x] \in Int
    BY StageIs
  <1>3. field[i][x] = {PartOf(i, About(c, x))}
    BY <1>1, <1>2 DEF FieldAt
  <1> QED BY <1>3, FullIs

\* DiagCG::solve: chare i is done with rhs and dif, and sends aec and alw.
LEMMA SolveFields ==
  ASSUME NEW c, DiagCGInv(c), NEW i \in Chare, Solve(i)
  PROVE  \E d : DiagCGInv(d)'
  <1>1. StepsInv(c) /\ NodeShape
    BY PartsOfDiagCG
  <1>2. /\ buf' = [j \in Chare |-> [x \in Kind |-> buf'[j][x]]]
        /\ \A x \in Kind : buf'[i][x] = IF x \in {"rhs", "dif"} THEN {} ELSE buf[i][x]
        /\ \A j \in Chare \ {i} : buf'[j] = buf[j]
    <2> DEFINE g == Zero(buf[i], {"rhs", "dif"})
    <2>1. g = [x \in Kind |-> g[x]] /\ \A x \in Kind : g[x] = IF x \in {"rhs", "dif"} THEN {} ELSE buf[i][x]
      BY ZeroFacts
    <2>2. buf' = [buf EXCEPT ![i] = g]
      BY DEF Solve
    <2> HIDE DEF g
    <2> QED BY <1>1, <2>1, <2>2, BufSet
  <1>3. /\ field' = [j \in Chare |-> [x \in Kind |-> field'[j][x]]]
        /\ \A x \in Kind : field'[i][x] = IF x \in {"rhs", "dif"} THEN field[i][x] \cup buf[i][x]
                                        ELSE IF x \in {"aec", "alw"} THEN field[i][x] \cup {Part(i, x)} ELSE field[i][x]
        /\ \A j \in Chare \ {i} : field'[j] = field[j]
    <2> DEFINE g1 == Combine(i, {"rhs", "dif"})
               g2 == Accumulate(g1, i, {"aec"})
               g3 == Accumulate(g2, i, {"alw"})
    <2> HIDE DEF g1, g2, g3
    <2>1. \A x \in Kind : g1[x] = IF x \in {"rhs", "dif"} THEN field[i][x] \cup buf[i][x] ELSE field[i][x]
      BY DEF g1, Combine
    <2>2. \A x \in Kind : g2[x] = IF x \in {"aec"} THEN g1[x] \cup {Part(i, x)} ELSE g1[x]
      BY DEF g2, Accumulate
    <2>3. g3 = [x \in Kind |-> g3[x]] /\ \A x \in Kind : g3[x] = IF x \in {"alw"} THEN g2[x] \cup {Part(i, x)} ELSE g2[x]
      BY DEF g3, Accumulate
    <2>4. field' = [field EXCEPT ![i] = g3]
      BY DEF Solve, Aec, Alw, g1, g2, g3
    <2>5. /\ field' = [j \in Chare |-> [x \in Kind |-> field'[j][x]]]
          /\ \A x \in Kind : field'[i][x] = g3[x]
          /\ \A j \in Chare \ {i} : field'[j] = field[j]
      BY <1>1, <2>3, <2>4, FieldSet
    <2> QED BY <2>1, <2>2, <2>3, <2>5
  <1>4. UNCHANGED <<it, itr, itf, lastDump, refined, finished, count, sol>>
    BY DEF Solve, stepVars, fileVars
  <1>5. StepsOn(i, 8)
    <2>1. \A x \in Kind, j \in Chare : buf'[j][x] = IF j = i /\ x \in ZeroedAt(8) THEN {} ELSE buf[j][x]
      BY <1>2 DEF ZeroedAt
    <2>2. \A x \in Kind, j \in Chare : j # i \/ x \in MeshKind => field'[j][x] = field[j][x]
      BY <1>3 DEF MeshKind
    <2>3. \A x \in StepKind : field'[i][x] \subseteq field[i][x] \cup buf[i][x] \cup {Part(i, x)}
      BY <1>3, DiagCGFacts
    <2> QED BY <1>2, <1>3, <1>4, <2>1, <2>2, <2>3 DEF StepsOn
  <1>6. (\E d : StepsInv(d)' /\ Further(c, d, i)) /\ c.stage[i] = 8 /\ HeardAll(c, i, 8)
    <2> DEFINE e == Sends(i, "aec") ++ Sends(i, "alw")
    <2>1. 8 \in 8 .. 9 /\ 9 \in 8 .. 9 /\ WaitAt[8] = "rhs" /\ "rhs" \in Wait
      BY DiagCGFacts DEF WaitAt
    <2>2. NeedsAt(8) = Needs[WaitAt[8]] /\ SentAt(8) # {} /\ SentAt(9) = {"aec", "alw"}
      BY <2>1, DiagCGFacts DEF NeedsAt
    <2>3. SendsAll(i, 9, {}, e)
      BY <2>1, <2>2, SendsTwo
    <2>4. Run(i, WaitAt[8], e)
      BY <2>1 DEF Solve
    <2> HIDE DEF e
    <2>5. 8 + 1 = 9
      OBVIOUS
    <2> QED BY <1>1, <1>5, <2>1, <2>2, <2>3, <2>4, <2>5, OnwardKeeps
  <1>7. PICK d : StepsInv(d)' /\ Further(c, d, i)
    BY <1>6
  <1>8. c.round > 0 /\ \A x \in StepKind : Part(i, x) = PartOf(i, About(c, x))
    BY <1>7 DEF Further
  <1>9. ASSUME NEW x \in StepKind PROVE field'[i][x] = FieldAt(c, i, 9, x)
    <2>1. field[i][x] = FieldAt(c, i, 8, x) /\ x \in Kind
      <3>1. 8 \in 8 .. 10 /\ x \in Kind
        BY DiagCGFacts
      <3> QED BY <1>6, <1>8, <3>1, FieldsAre
    <2>2. CASE x \in {"rhs", "dif"}
      <3>1. StageOf[x] = 8 /\ x \in SentAt(8)
        BY <2>2, DiagCGFacts
      <3>2. field[i][x] \cup buf[i][x] = Full(i, About(c, x))
        BY <1>6, <1>8, <3>1, StageComplete DEF HeardAll
      <3>3. ~ (9 < StageOf[x]) /\ ~ (9 = StageOf[x])
        BY <3>1
      <3>4. field'[i][x] = Full(i, About(c, x))
        BY <1>3, <2>1, <2>2, <3>2
      <3> QED BY <3>3, <3>4 DEF FieldAt
    <2>3. CASE x \in {"aec", "alw"}
      <3>1. StageOf[x] = 9
        BY <2>3, DiagCGFacts
      <3>2. field[i][x] = {}
        BY <2>1, <3>1 DEF FieldAt
      <3>3. field'[i][x] = {PartOf(i, About(c, x))}
        BY <1>3, <1>8, <2>1, <2>3, <3>2
      <3> QED BY <3>1, <3>3 DEF FieldAt
    <2>4. CASE x = "lim"
      BY <1>3, <2>1, <2>4, DiagCGFacts DEF FieldAt
    <2> QED BY <2>2, <2>3, <2>4, DiagCGFacts
  <1>10. 8 + 1 = 9
    OBVIOUS
  <1>11. DiagCGInv(d)'
    BY <1>4, <1>5, <1>6, <1>7, <1>9, <1>10, FurtherFields
  <1> QED BY <1>11

\* DistFCT::lim: chare i is done with aec and alw, and sends lim.
LEMMA LimFields ==
  ASSUME NEW c, DiagCGInv(c), NEW i \in Chare, Lim(i)
  PROVE  \E d : DiagCGInv(d)'
  <1>1. StepsInv(c) /\ NodeShape
    BY PartsOfDiagCG
  <1>2. /\ field' = [j \in Chare |-> [x \in Kind |-> field'[j][x]]]
        /\ \A x \in Kind : field'[i][x] = IF x \in {"aec", "alw"} THEN field[i][x] \cup buf[i][x]
                                        ELSE IF x \in {"lim"} THEN field[i][x] \cup {Part(i, x)} ELSE field[i][x]
        /\ \A j \in Chare \ {i} : field'[j] = field[j]
    <2> DEFINE g1 == Combine(i, {"aec", "alw"})
               g2 == Accumulate(g1, i, {"lim"})
    <2> HIDE DEF g1, g2
    <2>1. \A x \in Kind : g1[x] = IF x \in {"aec", "alw"} THEN field[i][x] \cup buf[i][x] ELSE field[i][x]
      BY DEF g1, Combine
    <2>2. g2 = [x \in Kind |-> g2[x]] /\ \A x \in Kind : g2[x] = IF x \in {"lim"} THEN g1[x] \cup {Part(i, x)} ELSE g1[x]
      BY DEF g2, Accumulate
    <2>3. field' = [field EXCEPT ![i] = g2]
      BY DEF Lim, g1, g2
    <2>4. /\ field' = [j \in Chare |-> [x \in Kind |-> field'[j][x]]]
          /\ \A x \in Kind : field'[i][x] = g2[x]
          /\ \A j \in Chare \ {i} : field'[j] = field[j]
      BY <1>1, <2>2, <2>3, FieldSet
    <2> QED BY <2>1, <2>2, <2>4
  <1>3. UNCHANGED <<it, itr, itf, lastDump, refined, finished, buf, count, sol>>
    BY DEF Lim, stepVars, fileVars
  <1>4. StepsOn(i, 9)
    <2>1. \A x \in Kind, j \in Chare : buf'[j][x] = IF j = i /\ x \in ZeroedAt(9) THEN {} ELSE buf[j][x]
      BY <1>3 DEF ZeroedAt
    <2>2. \A x \in Kind, j \in Chare : j # i \/ x \in MeshKind => field'[j][x] = field[j][x]
      BY <1>2 DEF MeshKind
    <2>3. \A x \in StepKind : field'[i][x] \subseteq field[i][x] \cup buf[i][x] \cup {Part(i, x)}
      BY <1>2, DiagCGFacts
    <2>4. buf' = [j \in Chare |-> [x \in Kind |-> buf'[j][x]]]
      BY <1>1, <1>3 DEF NodeShape
    <2> QED BY <1>2, <1>3, <2>1, <2>2, <2>3, <2>4 DEF StepsOn
  <1>5. (\E d : StepsInv(d)' /\ Further(c, d, i)) /\ c.stage[i] = 9 /\ HeardAll(c, i, 9)
    <2> DEFINE e == Sends(i, "lim")
    <2>1. 9 \in 8 .. 9 /\ 10 \in 8 .. 10 /\ WaitAt[9] = "fct" /\ "fct" \in Wait
      BY DiagCGFacts DEF WaitAt
    <2>2. NeedsAt(9) = Needs[WaitAt[9]] /\ SentAt(9) # {} /\ SentAt(10) = {"lim"}
      BY <2>1, DiagCGFacts DEF NeedsAt
    <2>3. SendsAll(i, 10, {}, e)
      BY <2>1, <2>2, SendsOne
    <2>4. Run(i, WaitAt[9], e)
      BY <2>1 DEF Lim
    <2> HIDE DEF e
    <2>5. 9 + 1 = 10
      OBVIOUS
    <2> QED BY <1>1, <1>4, <2>1, <2>2, <2>3, <2>4, <2>5, OnwardKeeps
  <1>6. PICK d : StepsInv(d)' /\ Further(c, d, i)
    BY <1>5
  <1>7. c.round > 0 /\ \A x \in StepKind : Part(i, x) = PartOf(i, About(c, x))
    BY <1>6 DEF Further
  <1>8. ASSUME NEW x \in StepKind PROVE field'[i][x] = FieldAt(c, i, 10, x)
    <2>1. field[i][x] = FieldAt(c, i, 9, x) /\ x \in Kind
      <3>1. 9 \in 8 .. 10 /\ x \in Kind
        BY DiagCGFacts
      <3> QED BY <1>5, <1>7, <3>1, FieldsAre
    <2>2. CASE x \in {"aec", "alw"}
      <3>1. StageOf[x] = 9 /\ x \in SentAt(9)
        BY <2>2, DiagCGFacts
      <3>2. field[i][x] \cup buf[i][x] = Full(i, About(c, x))
        BY <1>5, <1>7, <3>1, StageComplete DEF HeardAll
      <3>3. ~ (10 < StageOf[x]) /\ ~ (10 = StageOf[x])
        BY <3>1
      <3>4. field'[i][x] = Full(i, About(c, x))
        BY <1>2, <2>1, <2>2, <3>2
      <3> QED BY <3>3, <3>4 DEF FieldAt
    <2>3. CASE x = "lim"
      BY <1>2, <1>7, <2>1, <2>3, DiagCGFacts DEF FieldAt
    <2>4. CASE x \in {"rhs", "dif"}
      BY <1>2, <2>1, <2>4, DiagCGFacts DEF FieldAt
    <2> QED BY <2>2, <2>3, <2>4, DiagCGFacts
  <1>9. 9 + 1 = 10
    OBVIOUS
  <1>10. DiagCGInv(d)'
    BY <1>3, <1>4, <1>5, <1>6, <1>8, <1>9, FurtherFields
  <1> QED BY <1>10

\* The last fields of a step are the limited contributions.
LEMMA ApplyMakesStep ==
  ASSUME NEW c, StepsInv(c), NEW i \in Chare, Apply(i)
  PROVE  LastOf(10, "app", "lim") /\ MakesStep(i, "app", "lim")
  <1>1. LastOf(10, "app", "lim")
    BY DiagCGFacts DEF LastOf
  <1>2. NodeShape /\ Outputs(c)
    BY PartsOfInv DEF Shape
  <1>3. /\ field' = [field EXCEPT ![i] = Combine(i, {"lim"})] /\ it' = [it EXCEPT ![i] = it[i] + 1]
        /\ UNCHANGED <<itr, finished, itf, lastDump, buf, count>>
    BY DEF Apply, fileVars
  <1>4. Run(i, "app", Diagnostics(i, "refiner") ++ Refinement(it[i] + 1))
    BY SameEnds DEF Apply
  <1>5. refined' \in [Chare -> BOOLEAN]
    <2>1. refined' = [refined EXCEPT ![i] = Refines(it[i] + 1)] /\ refined \in [Chare -> BOOLEAN]
      BY <1>2 DEF Apply, Outputs
    <2>2. Refines(it[i] + 1) \in BOOLEAN
      BY DEF Refines
    <2> QED BY <2>1, <2>2
  <1>6. /\ buf' = [j \in Chare |-> [y \in Kind |-> buf'[j][y]]]
        /\ \A j \in Chare, y \in Kind : buf'[j][y] = IF j = i /\ y = "lim" /\ "lim" \in {"rhs", "dif"} THEN {} ELSE buf[j][y]
    BY <1>2, <1>3 DEF NodeShape
  <1> QED BY <1>1, <1>3, <1>4, <1>5, <1>6 DEF MakesStep

\* What a chare with the limited contributions of all its neighbours has is what the step needs.
LEMMA UpdateComplete ==
  ASSUME NEW c, DiagCGInv(c), c.round > 0, NEW i \in Chare, c.stage[i] = 10, c.lhs[i] = 0, c.ref[i] = 0,
         buf[i]["lim"] = PartsOf(Nbr[i], About(c, "lim")), NEW x \in Kind
  PROVE  Combine(i, {"lim"})[x] = Needed(i, c.round - 1, x)
  <1> DEFINE g == Combine(i, {"lim"})[x]
  <1>0. g = IF x = "lim" THEN field[i][x] \cup buf[i][x] ELSE field[i][x]
    BY DEF Combine
  <1> HIDE DEF g
  <1>1. c.round \in Nat /\ MeshOf(c.round - 1) = Base(c)
    BY PartsOfDiagCG DEF Base
  <1>2. 10 \in 8 .. 10 /\ "lim" \in StepKind /\ StageOf["lim"] = 10
    BY DiagCGFacts
  <1>3. field[i]["lhs"] = Full(i, OfMesh(Base(c))) /\ field[i]["vol"] = Full(i, OfMesh(Base(c)))
    <2>1. field[i]["lhs"] = Full(i, OfMesh(Base(c)))
      BY MassIs
    <2>2. VolumesOf(c, i)
      BY PartsOfDiagCG, PartsOfInv DEF Volumes
    <2> QED BY <2>1, <2>2 DEF VolumesOf
  <1>4. ASSUME x \in StepKind PROVE g = Needed(i, c.round - 1, x)
    <2>1. x \in Kind /\ x \notin MeshKind /\ About(c, x) = [it |-> c.round - 1, itr |-> Base(c)]
      BY <1>4, StageIs DEF MeshKind, About
    <2>2. Needed(i, c.round - 1, x) = Full(i, About(c, x))
      BY <1>1, <2>1 DEF Needed, Full, PartsOf, PartOf
    <2>3. CASE x = "lim"
      <3>1. field[i][x] \cup buf[i][x] = Full(i, About(c, x))
        BY <1>2, <2>3, StageComplete
      <3> QED BY <1>0, <2>2, <2>3, <3>1
    <2>4. CASE x # "lim"
      <3>1. field[i][x] = FieldAt(c, i, 10, x)
        BY <1>2, <1>4, FieldsAre
      <3>2. ~ (10 < StageOf[x]) /\ ~ (10 = StageOf[x])
        BY <1>4, <2>4, StageIs
      <3>3. field[i][x] = Full(i, About(c, x))
        BY <3>1, <3>2 DEF FieldAt
      <3> QED BY <1>0, <2>2, <2>4, <3>3
    <2> QED BY <2>3, <2>4
  <1>5. ASSUME x \in {"lhs", "vol"} PROVE g = Needed(i, c.round - 1, x)
    <2>1. x \in Kind /\ x \in MeshKind /\ x # "lim"
      BY <1>5, KindIs DEF MeshKind
    <2>2. Needed(i, c.round - 1, x) = Full(i, OfMesh(Base(c)))
      BY <1>1, <2>1 DEF Needed, Full, PartsOf, PartOf, OfMesh
    <2>3. g = Full(i, OfMesh(Base(c)))
      BY <1>0, <1>3, <1>5, <2>1
    <2> QED BY <2>2, <2>3
  <1> QED BY <1>4, <1>5, KindIs DEF g

\* DistFCT::apply, DiagCG::update: chare i makes its step.
LEMMA ApplyFields ==
  ASSUME NEW c, DiagCGInv(c), NEW i \in Chare, Apply(i)
  PROVE  \E d : DiagCGInv(d)'
  <1>1. StepsInv(c) /\ c.round \in Nat /\ SolShape /\ SolutionComplete /\ NodeShape /\ \A j \in Chare : FieldsOf(c, j)
    BY PartsOfDiagCG
  <1>2. LastOf(10, "app", "lim") /\ MakesStep(i, "app", "lim")
    BY <1>1, ApplyMakesStep
  <1>3. PICK d : StepsInv(d)' /\ StepMade(c, d, i)
    BY <1>1, <1>2, MakesStepKeeps
  <1>4. /\ c.round > 0 /\ c.stage[i] = 10 /\ c.lhs[i] = 0 /\ c.ref[i] = 0 /\ it[i] + 1 = c.round
        /\ buf[i]["lim"] = PartsOf(Nbr[i], About(c, "lim")) /\ it' = [it EXCEPT ![i] = it[i] + 1]
    BY <1>1, <1>2, MakesStepKeeps
  <1> DEFINE g == Combine(i, {"lim"})
  <1>5. g = [x \in Kind |-> g[x]] /\ \A x \in Kind : g[x] = IF x \in {"lim"} THEN field[i][x] \cup buf[i][x] ELSE field[i][x]
    BY CombineFacts
  <1>6. field' = [field EXCEPT ![i] = g] /\ sol' = [sol EXCEPT ![i] = g]
    BY DEF Apply
  <1> HIDE DEF g
  <1>7. /\ \A x \in Kind : field'[i][x] = g[x]
        /\ \A j \in Chare \ {i} : field'[j] = field[j]
    BY <1>1, <1>5, <1>6, FieldSet
  <1>8. ASSUME NEW j \in Chare PROVE FieldsOf(d, j)'
    <2>1. d.round = c.round /\ d.lhs = c.lhs /\ Base(d) = Base(c) /\ Now(d) = Now(c)
      BY <1>3 DEF StepMade, Base, Now
    <2>2. CASE j # i
      <3>1. d.stage[j] = c.stage[j] /\ \A x \in Kind \ {"vol"} : field'[j][x] = field[j][x]
        BY <1>3, <1>7, <2>2 DEF StepMade
      <3> QED BY <1>1, <2>1, <3>1, FieldsOfKept
    <2>3. CASE j = i
      <3>1. d.stage[i] = 11
        BY <1>3 DEF StepMade
      <3>2. field'[i]["lhs"] = field[i]["lhs"]
        BY <1>5, <1>7, DiagCGFacts
      <3>3. field[i]["lhs"] = Full(i, OfMesh(Base(d)))
        BY <1>4, <2>1, MassIs
      <3>4. ~ (d.round = 0) /\ d.lhs[i] = 0
        BY <1>1, <1>4, <2>1
      <3> QED BY <2>3, <3>1, <3>2, <3>3, <3>4 DEF FieldsOf
    <2> QED BY <2>2, <2>3
  <1>9. sol' = [j \in Chare |-> sol'[j]] /\ sol'[i] = g /\ \A j \in Chare \ {i} : sol'[j] = sol[j]
    <2>1. sol = [j \in Chare |-> sol[j]]
      BY <1>1 DEF SolShape
    <2> QED BY <1>6, <2>1
  <1>10. SolShape'
    <2>1. \A x \in Kind : field'[i][x] \subseteq Parts
      BY <1>3, PartsOfInv DEF StepsInv, Shape
    <2>2. \A j \in Chare, x \in Kind : sol'[j][x] \subseteq Parts
      BY <1>1, <1>7, <1>9, <2>1 DEF SolShape
    <2> QED BY <1>9, <2>2 DEF SolShape
  <1>11. SolutionComplete'
    <2>1. \A x \in Kind : g[x] = Needed(i, c.round - 1, x)
      BY <1>4, UpdateComplete DEF g
    <2>2. it \in [Chare -> Nat]
      BY <1>1, PartsOfInv DEF Shape
    <2>3. it'[i] - 1 = c.round - 1 /\ \A j \in Chare \ {i} : it'[j] = it[j]
      BY <1>1, <1>4, <2>2
    <2>4. ASSUME NEW j \in Chare, it'[j] > 0, NEW x \in Kind PROVE sol'[j][x] = Needed(j, it'[j] - 1, x)
      <3>1. CASE j = i
        BY <1>9, <2>1, <2>3, <3>1
      <3>2. CASE j # i
        BY <1>1, <1>9, <2>3, <2>4, <3>2 DEF SolutionComplete
      <3> QED BY <3>1, <3>2
    <2> QED BY <2>4 DEF SolutionComplete, Needed
  <1> QED BY <1>3, <1>8, <1>10, <1>11 DEF DiagCGInv, Fields

\* Transporter::advance: all chares start the next step, on the mesh they are all on.
LEMMA NextRoundFields ==
  ASSUME NEW c, DiagCGInv(c), TransporterAdvance
  PROVE  \E d : DiagCGInv(d)'
  <1>1. StepsInv(c) /\ c.round \in Nat /\ SolShape /\ SolutionComplete /\ \A j \in Chare : FieldsOf(c, j)
    BY PartsOfDiagCG
  <1>2. PICK d : StepsInv(d)' /\ Restarts(c, d)
    BY <1>1, NextRoundKeeps DEF TransporterAdvance
  <1>3. sol' = sol /\ it' = it /\ field' = field
    BY DEF TransporterAdvance, Target, stepVars, nodeVars
  <1>4. RoundOver(c) /\ d.round = c.round + 1 /\ Fresh(d)
    BY <1>2 DEF Restarts
  <1>5. Base(d) = MeshOf(c.round) /\ d.round > 0 /\ ~ (d.round = 0)
    BY <1>1, <1>4 DEF Base
  <1>6. ASSUME NEW j \in Chare PROVE field[j]["lhs"] = Full(j, OfMesh(Base(d)))
    <2>1. FieldsOf(c, j) /\ c.stage[j] = 17
      BY <1>1, <1>4 DEF RoundOver
    <2>2. CASE c.ref[j] = 3
      <3>1. c.round > 0 /\ c.lhs[j] = 3 /\ Now(c) = MeshOf(c.round)
        BY <1>4, <2>2 DEF RoundOver
      <3> QED BY <1>5, <2>1, <3>1 DEF FieldsOf
    <2>3. CASE c.ref[j] # 3
      <3>1. c.lhs[j] = 0 /\ Base(c) = MeshOf(c.round)
        BY <1>4, <2>3 DEF RoundOver
      <3>2. CASE c.round = 0
        <4>1. Base(c) = 0
          BY <3>2 DEF Base
        <4> QED BY <1>5, <2>1, <3>1, <3>2, <4>1 DEF FieldsOf
      <3>3. CASE c.round # 0
        BY <1>1, <1>5, <2>1, <3>1, <3>3 DEF FieldsOf
      <3> QED BY <3>2, <3>3
    <2> QED BY <2>2, <2>3
  <1>7. ASSUME NEW j \in Chare PROVE FieldsOf(d, j)'
    <2>1. d.lhs[j] = 0 /\ d.stage[j] = 7
      BY <1>4 DEF Fresh
    <2> QED BY <1>3, <1>5, <1>6, <2>1 DEF FieldsOf
  <1>8. SolShape' /\ SolutionComplete'
    BY <1>1, <1>3, SolKept
  <1> QED BY <1>2, <1>7, <1>8 DEF DiagCGInv, Fields

-----------------------------------------------------------------------------
\* DiagCG::resizeAfterRefined, resizeComm, in the form both schemes have.
LEMMA EvalIs ==
  ASSUME CharmShape, NEW i, NEW m, Eval(i, m)
  PROVE  Evals(i, m) /\ sol' = sol
  <1> DEFINE e == Contributes("disc", "discresized") ++ Posts({"lhs"}) ++ Triggers({done("ref")})
                  ++ Contributes("worker", "workresized")
             f == e ++ Nothing
  <1>1. Take(i, m, f) /\ Is(m, "eval", i) /\ Resize(i, {"lhs"}) /\ UNCHANGED <<it, finished, lastDump, file, refined, sol>>
    BY DEF Eval, NewMesh
  <1>2. /\ f.calls = e.calls /\ f.triggers = e.triggers /\ f.posts = e.posts
        /\ \A a \in DOMAIN contrib : TargetsOn(a, f) = TargetsOn(a, e) \o <<>>
    <2> HIDE DEF e
    <2>1. /\ f.calls = e.calls \cup Nothing.calls /\ f.triggers = e.triggers \cup Nothing.triggers
          /\ \A a : TargetsOn(a, f) = TargetsOn(a, e) \o TargetsOn(a, Nothing)
      BY ThenFacts
    <2>2. f.posts = e.posts \cup Nothing.posts
      BY DEF ++
    <2>3. Nothing.posts = {}
      BY DEF Nothing
    <2> QED BY <2>1, <2>2, <2>3, EffectFacts
  <1>3. \A a \in Array : TargetsOn(a, e) \o <<>> = TargetsOn(a, e)
    <2> HIDE DEF e
    <2>1. /\ TargetsOn("disc", e) = <<"discresized">> /\ TargetsOn("worker", e) = <<"workresized">>
          /\ \A a \in Array \ {"disc", "worker"} : TargetsOn(a, e) = <<>>
      BY NewMeshIs DEF e
    <2> QED BY <2>1, TargetFacts
  <1> HIDE DEF e, f
  <1>4. DOMAIN contrib = Array
    BY DEF CharmShape
  <1>5. Take(i, m, e)
    BY <1>1, <1>2, <1>3, <1>4 DEF Take, Posted, Contributed
  <1> QED BY <1>1, <1>5 DEF Evals, e

\* The base class changes no fields but volumes.
LEMMA OnlyVolumes ==
  ASSUME NodeShape, DiscretizationNext
  PROVE  \A j \in Chare, x \in Kind \ {"vol"} : field'[j][x] = field[j][x]
  <1>1. field = [j \in Chare |-> [x \in Kind |-> field[j][x]]]
    BY DEF NodeShape
  <1>2. ASSUME NEW m \in msgs, Vol(m.to, m) PROVE \A j \in Chare, x \in Kind \ {"vol"} : field'[j][x] = field[j][x]
    <2>1. field' = [field EXCEPT ![m.to] = Accumulate(field[m.to], m.to, {"vol"})]
      BY <1>2 DEF Vol
    <2>2. \A x \in Kind \ {"vol"} : Accumulate(field[m.to], m.to, {"vol"})[x] = field[m.to][x]
      BY DEF Accumulate
    <2> QED BY <1>1, <2>1, <2>2
  <1>3. ASSUME NEW m \in msgs, TotalVol(m.to, m) PROVE \A j \in Chare, x \in Kind \ {"vol"} : field'[j][x] = field[j][x]
    <2>1. field' = [field EXCEPT ![m.to] = Combine(m.to, {"vol"})]
      BY <1>3 DEF TotalVol
    <2>2. \A x \in Kind \ {"vol"} : Combine(m.to, {"vol"})[x] = field[m.to][x]
      BY CombineFacts
    <2> QED BY <1>1, <2>1, <2>2
  <1>4. ASSUME NEW m \in msgs, Comvol(m.to, m) \/ Write(m.to, m) PROVE field' = field
    BY <1>4 DEF Comvol, Write, Receive, nodeVars
  <1>5. ASSUME Matched \/ Discresized \/ Workresized \/ TransporterVol \/ TransporterTotalvol \/ Sync \/ Posting
        PROVE  field' = field
    BY <1>5 DEF Matched, Discresized, Workresized, TransporterVol, TransporterTotalvol, Sync, Posting, Target, nodeVars
  <1> QED BY <1>2, <1>3, <1>4, <1>5 DEF DiscretizationNext, DiscretizationCall

\* Nor does a new mesh.
LEMMA ResizeFields ==
  ASSUME NodeShape, NEW i, NEW m, Evals(i, m)
  PROVE  it' = it /\ \A j \in Chare, x \in Kind \ {"vol"} : field'[j][x] = field[j][x]
  <1>1. field' = [field EXCEPT ![i] = Zero(field[i], {"vol"})] /\ it' = it
    BY DEF Evals, Resize
  <1>2. \A x \in Kind \ {"vol"} : Zero(field[i], {"vol"})[x] = field[i][x]
    BY ZeroFacts
  <1>3. field = [j \in Chare |-> [x \in Kind |-> field[j][x]]]
    BY DEF NodeShape
  <1> QED BY <1>1, <1>2, <1>3

-----------------------------------------------------------------------------
\* The calls of DiagCG.
LEMMA CallFields ==
  ASSUME NEW c, DiagCGInv(c), NEW m \in msgs, DiagCGCall(m.to, m)
  PROVE  \E d : DiagCGInv(d)'
  <1> DEFINE i == m.to
  <1>1. i = m.to /\ DiagCGCall(i, m) /\ StepsInv(c) /\ NodeShape
    BY PartsOfDiagCG
  <1> HIDE DEF i
  <1>2. CASE Create(i, m)
    <2>1. /\ Is(m, "create", i) /\ Take(i, m, Posts({"lhs"}) ++ Contributes("worker", "comfinal"))
          /\ buf' = [buf EXCEPT ![i] = Zero(buf[i], {"lhs"})]
          /\ UNCHANGED <<stepVars, fileVars, refined, field, count>> /\ sol' = sol /\ it' = it
      BY <1>2 DEF Create, stepVars
    <2> QED BY <1>1, <2>1, CreateKeeps, AlongsideUnchanged
  <1>3. CASE Setup(i, m)
    <2>1. /\ Is(m, "setup", i) /\ Dumped(i) /\ Take(i, m, Calls({Dump(i, "init")}))
          /\ UNCHANGED <<stepVars, refined, nodeVars>> /\ sol' = sol /\ it' = it /\ field' = field
      BY <1>3 DEF Setup, stepVars, nodeVars
    <2> QED BY <1>1, <2>1, SetupKeeps, AlongsideUnchanged
  <1>4. CASE Lhs(i, m)
    BY <1>1, <1>4, LhsFields
  <1>5. CASE Comlhs(i, m) \/ Comrhs(i, m) \/ Comdif(i, m) \/ Comaec(i, m) \/ Comalw(i, m) \/ Comlim(i, m)
    <2>1. PICK x \in Kind \ {"vol"} : Receive(i, x, m, Triggers({com(x)})) /\ sol' = sol
      BY <1>5, DiagCGFacts DEF Comlhs, Comrhs, Comdif, Comaec, Comalw, Comlim
    <2>2. it' = it /\ field' = field
      BY <2>1 DEF Receive, stepVars
    <2>3. StepsInv(c)'
      BY <1>1, <2>1, ReceiveKeeps
    <2> QED BY <2>1, <2>2, <2>3, ReceivedFields
  <1>6. CASE Advance(i, m)
    BY <1>1, <1>6, AdvanceFields
  <1>7. CASE Diag(i, m)
    <2>1. it' = it /\ field' = field /\ sol' = sol /\ Signal(i, m, "diag", "diag")
      BY <1>7 DEF Diag, Signal, stepVars, nodeVars
    <2> QED BY <1>1, <2>1, DiagKeeps, AlongsideUnchanged
  <1>8. CASE Resized(i, m)
    <2>1. it' = it /\ field' = field /\ sol' = sol /\ Signal(i, m, "resized", "resize")
      BY <1>8 DEF Resized, Signal, stepVars, nodeVars
    <2> QED BY <1>1, <2>1, ResizedKeeps, AlongsideUnchanged
  <1>9. CASE Eval(i, m)
    <2>1. Evals(i, m) /\ sol' = sol
      BY <1>1, <1>9, PartsOfInv, EvalIs DEF Shape
    <2>2. it' = it /\ \A j \in Chare, x \in Kind \ {"vol"} : field'[j][x] = field[j][x]
      BY <1>1, <2>1, ResizeFields
    <2> QED BY <1>1, <2>1, <2>2, EvalKeeps, AlongsideFields
  <1>10. CASE Written(i, m)
    <2>1. /\ Is(m, "step", i) /\ Take(i, m, StepOf(i)) /\ UNCHANGED <<stepVars, fileVars, refined, nodeVars>>
          /\ sol' = sol /\ it' = it /\ field' = field
      BY <1>10, SameEnds DEF Written, stepVars, nodeVars
    <2> QED BY <1>1, <2>1, WrittenKeeps, AlongsideUnchanged
  <1>11. CASE ResumeFromSync(i, m)
    <2>1. Resume(i, m, NextDt) /\ sol' = sol /\ it' = it /\ field' = field
      BY <1>11, SameEnds DEF ResumeFromSync, Resume, stepVars, nodeVars
    <2> QED BY <1>1, <2>1, ResumeKeeps, AlongsideUnchanged
  <1> QED BY <1>1, <1>2, <1>3, <1>4, <1>5, <1>6, <1>7, <1>8, <1>9, <1>10, <1>11 DEF DiagCGCall

\* The reductions of DiagCG.
LEMMA TargetFields ==
  ASSUME NEW c, DiagCGInv(c), Comfinal \/ TransporterAdvance \/ MeshResized \/ Diagnosed \/ End
  PROVE  \E d : DiagCGInv(d)'
  <1>1. StepsInv(c)
    BY DEF DiagCGInv
  <1>2. it' = it /\ field' = field /\ sol' = sol
    BY DEF Comfinal, TransporterAdvance, MeshResized, Diagnosed, End, Finish, TransporterResized,
         TransporterDiagnostics, Target, stepVars, nodeVars
  <1>3. CASE Comfinal
    BY <1>1, <1>2, <1>3, ComfinalKeeps, AlongsideUnchanged DEF Comfinal
  <1>4. CASE TransporterAdvance
    BY <1>4, NextRoundFields
  <1>5. CASE MeshResized
    BY <1>1, <1>2, <1>5, MeshResizedKeeps, AlongsideUnchanged DEF MeshResized
  <1>6. CASE Diagnosed
    BY <1>1, <1>2, <1>6, DiagnosedKeeps, AlongsideUnchanged DEF Diagnosed
  <1>7. CASE End
    BY <1>1, <1>2, <1>7, EndKeeps, AlongsideUnchanged DEF End
  <1> QED BY <1>3, <1>4, <1>5, <1>6, <1>7

\* DiagCG::out
LEMMA OutFields ==
  ASSUME NEW c, DiagCGInv(c), NEW i \in Chare, Out(i)
  PROVE  \E d : DiagCGInv(d)'
  <1>1. /\ UNCHANGED <<stepVars, refined, nodeVars>> /\ sol' = sol /\ it' = it /\ field' = field
        /\ IF it[i] % FieldFreq = 0 \/ it[i] = NStep
           THEN Dumped(i) /\ Run(i, "out", Calls({Dump(i, "step")}))
           ELSE Run(i, "out", StepOf(i)) /\ UNCHANGED fileVars
    BY SameEnds DEF Out, stepVars, nodeVars
  <1> QED BY <1>1, OutKeeps, AlongsideUnchanged DEF DiagCGInv

\* Every step keeps what is true.
LEMMA NextFields ==
  ASSUME NEW c, DiagCGInv(c), [Next]_vars
  PROVE  \E d : DiagCGInv(d)'
  <1>1. CASE DiscretizationNext /\ sol' = sol
    <2>1. StepsInv(c) /\ NodeShape
      BY PartsOfDiagCG
    <2>2. it' = it /\ \A j \in Chare, x \in Kind \ {"vol"} : field'[j][x] = field[j][x]
      BY <1>1, <2>1, OnlyVolumes, DiscretizationStays
    <2> QED BY <1>1, <2>1, <2>2, DiscretizationKeeps, AlongsideFields
  <1>2. ASSUME NEW m \in msgs, DiagCGCall(m.to, m) PROVE \E d : DiagCGInv(d)'
    BY <1>2, CallFields
  <1>3. ASSUME NEW i \in Chare, LhsMerge(i) \/ Solve(i) \/ Lim(i) \/ Apply(i) \/ Out(i) PROVE \E d : DiagCGInv(d)'
    BY <1>3, LhsMergeFields, SolveFields, LimFields, ApplyFields, OutFields
  <1>4. CASE Comfinal \/ TransporterAdvance \/ MeshResized \/ Diagnosed \/ End
    BY <1>4, TargetFields
  <1>5. CASE (Exit /\ sol' = sol) \/ UNCHANGED vars
    <2>1. UNCHANGED vars
      BY <1>5 DEF Exit, vars
    <2>2. StepsInv(c)' /\ it' = it /\ field' = field /\ sol' = sol
      BY <2>1, StutterKeeps DEF vars, DiagCGInv, discVars, stepVars, nodeVars
    <2> QED BY <2>2, ReceivedFields
  <1> QED BY <1>1, <1>2, <1>3, <1>4, <1>5 DEF Next

\* What is true of every state, in one formula.
Configured == \E c : DiagCGInv(c)

\* The invariant of DiagCG: the calls on their way, the counters, triggers and contributions to
\* reductions, the fields and buffers are those of some configuration of time steps, diagnostics
\* and remeshing (DiagCG, DistFCT, Discretization, Transporter).
THEOREM DiagCGInvHolds == Spec => []Configured
  <1>1. Init => Configured
    <2> SUFFICES ASSUME Init PROVE Configured
      OBVIOUS
    <2>1. PICK c : StepsInv(c) /\ Unstarted(c)
      BY InitHolds DEF Init
    <2>2. sol = field /\ Shape /\ c.round = 0 /\ \A j \in Chare : c.stage[j] = 0
      BY <2>1, PartsOfInv DEF Init, Unstarted
    <2>3. SolShape
      <3>1. sol = [j \in Chare |-> sol[j]]
        BY <2>2 DEF Shape, NodeShape
      <3> QED BY <2>2, <3>1 DEF Shape, SolShape
    <2>4. SolutionComplete
      BY DEF Init, DiscretizationInit, SolutionComplete
    <2>5. Fields(c)
      BY <2>2 DEF Fields, FieldsOf
    <2> QED BY <2>1, <2>3, <2>4, <2>5 DEF Configured, DiagCGInv
  <1>2. Configured /\ [Next]_vars => Configured'
    BY NextFields DEF Configured
  <1> QED BY <1>1, <1>2, PTL DEF Spec

-----------------------------------------------------------------------------
\* Every update of the solution uses, for each field, the contributions of all chares that share
\* the mesh nodes, of this time step and on this mesh, and no others (DiagCG::update, solve,
\* lhsmerge; DistFCT::next, lim, apply; Discretization::resize).
THEOREM UpdatesComplete == Spec => []SolutionComplete
  <1>1. Configured => SolutionComplete
    BY DEF Configured, DiagCGInv
  <1> QED BY <1>1, DiagCGInvHolds, PTL

\* Values and counters stay in their range: no chare makes more steps than asked for or counts
\* more neighbours than it has.
THEOREM TypesOK == Spec => []TypeOK
  <1>1. Configured => TypeOK
    <2> SUFFICES ASSUME NEW c, DiagCGInv(c) PROVE TypeOK
      BY DEF Configured
    <2>1. StepsInv(c) /\ Shape /\ Outputs(c) /\ SolShape
      BY PartsOfInv DEF DiagCGInv
    <2>2. it \in [Chare -> 0 .. NStep] /\ itr \in [Chare -> 0 .. NStep]
      <3>1. it \in [Chare -> Nat] /\ itr \in [Chare -> Nat]
        BY <2>1 DEF Shape
      <3> QED BY <2>1, <3>1, CounterBounds
    <2>3. itf \in [Chare -> 0 .. (NStep + 1)] /\ lastDump \in [Chare -> -1 .. NStep]
      <3>1. itf \in [Chare -> Nat] /\ lastDump \in [Chare -> Int]
        BY <2>1 DEF Outputs
      <3> QED BY <2>1, <3>1, CounterBounds
    <2>4. \A i \in Chare, x \in Kind :
            /\ field[i][x] \cup buf[i][x] \subseteq Parts /\ sol[i][x] \subseteq Parts
            /\ count[i][x] \in Nat /\ (count[i][x] # 0 => count[i][x] < Cardinality(Nbr[i]))
      BY <2>1, CounterBounds DEF Shape, SolShape
    <2>5. refined \in [Chare -> BOOLEAN] /\ finished \in BOOLEAN
      BY <2>1 DEF Shape, Outputs
    <2> QED BY <2>2, <2>3, <2>4, <2>5 DEF TypeOK, DiscretizationTypeOK, Parts
  <1> QED BY <1>1, DiagCGInvHolds, PTL

\* The calls of DiagCG, for triggers and files.
LEMMA CallOrderly ==
  ASSUME NEW c, StepsInv(c), Orderly, NEW m \in msgs, DiagCGCall(m.to, m)
  PROVE  Orderly'
  <1> DEFINE i == m.to
  <1>1. i = m.to /\ DiagCGCall(i, m) /\ i \in Chare
    BY CallsTo
  <1> HIDE DEF i
  <1>2. CASE Create(i, m)
    <2>1. Tame(Posts({"lhs"}) ++ Contributes("worker", "comfinal"))
      BY TameEffects
    <2> QED BY <1>1, <1>2, <2>1, TakeOrderly DEF Create, Is, stepVars, fileVars
  <1>3. CASE Setup(i, m)
    BY <1>1, <1>3, SetupOrderly DEF Setup, stepVars
  <1>4. CASE Lhs(i, m)
    BY <1>1, <1>4, TameEffects, TakeOrderly DEF Lhs, Is, stepVars, fileVars
  <1>5. CASE Comlhs(i, m) \/ Comdif(i, m)
    BY <1>1, <1>5, TameEnds, ReceiveOrderly DEF Comlhs, Comdif
  <1>6. CASE Advance(i, m)
    <2> DEFINE p == Posts({"fct", "app"})
               s == Sends(i, "rhs")
               t == Sends(i, "dif")
    <2>1. Tame(p) /\ Tame(s) /\ Tame(t)
      BY <1>1, TameEffects
    <2>2. Is(m, "advance", i) /\ Take(i, m, p ++ s ++ t) /\ UNCHANGED <<file, itf, itr>>
      BY <1>6 DEF Advance, Start, stepVars, fileVars
    <2> HIDE DEF p, s, t
    <2>3. Tame(p ++ s ++ t)
      BY <2>1, TameEffects
    <2> QED BY <1>1, <2>2, <2>3, TakeOrderly DEF Is
  <1>7. CASE Comrhs(i, m) \/ Comaec(i, m) \/ Comalw(i, m) \/ Comlim(i, m)
    BY <1>1, <1>7, TameEnds, ReceiveOrderly DEF Comrhs, Comaec, Comalw, Comlim
  <1>8. CASE Diag(i, m)
    BY <1>1, <1>8, TameEnds, TakeOrderly DEF Diag, Signal, Is, stepVars, fileVars
  <1>9. CASE Resized(i, m)
    BY <1>1, <1>9, TameEnds, TakeOrderly DEF Resized, Signal, Is, stepVars, fileVars
  <1>10. CASE Eval(i, m)
    <2>1. Evals(i, m)
      BY <1>10, PartsOfInv, EvalIs DEF Shape
    <2> QED BY <1>1, <2>1, EvalOrderly
  <1>11. CASE Written(i, m)
    BY <1>1, <1>11, SameEnds, TameEnds, TakeOrderly DEF Written, Is, stepVars, fileVars
  <1>12. CASE ResumeFromSync(i, m)
    <2>1. Tame(IF Nonblocking THEN Nothing ELSE Dt)
      BY SameEnds, TameEnds, TameEffects
    <2> QED BY <1>1, <1>12, <2>1, TakeOrderly DEF ResumeFromSync, Resume, Is, stepVars, fileVars
  <1> QED BY <1>1, <1>2, <1>3, <1>4, <1>5, <1>6, <1>7, <1>8, <1>9, <1>10, <1>11, <1>12 DEF DiagCGCall

\* Every step keeps the triggers and files in order.
LEMMA NextOrderly ==
  ASSUME NEW c, StepsInv(c), Orderly, [Next]_vars
  PROVE  Orderly'
  <1>1. CASE DiscretizationNext
    BY <1>1, DiscretizationOrderly
  <1>2. ASSUME NEW m \in msgs, DiagCGCall(m.to, m) PROVE Orderly'
    BY <1>2, CallOrderly
  <1>3. ASSUME NEW i \in Chare, LhsMerge(i) PROVE Orderly'
    <2>1. Tame(IF itr[i] = 0 THEN Dt ELSE Triggers({done("lhs")}))
      BY SameEnds, TameEnds
    <2>2. "lhs" \in Wait \ {"resize"}
      BY WaitFacts
    <2> QED BY <1>3, <2>1, <2>2, RunOrderly DEF LhsMerge, stepVars, fileVars
  <1>4. ASSUME NEW i \in Chare, Solve(i) \/ Lim(i) \/ Apply(i) PROVE Orderly'
    <2>1. Tame(Diagnostics(i, "refiner") ++ Refine(it[i] + 1))
      BY SameEnds, TameEnds, TameEffects
    <2>2. {"rhs", "fct", "app"} \subseteq Wait \ {"resize"}
      BY DiagCGFacts
    <2>3. Tame(Sends(i, "aec") ++ Sends(i, "alw")) /\ Tame(Sends(i, "lim"))
      BY TameEffects
    <2>4. CASE Solve(i)
      BY <2>2, <2>3, <2>4, RunOrderly DEF Solve, stepVars, fileVars
    <2>5. CASE Lim(i)
      BY <2>2, <2>3, <2>5, RunOrderly DEF Lim, stepVars, fileVars
    <2>6. CASE Apply(i)
      BY <2>1, <2>2, <2>6, RunOrderly DEF Apply, fileVars
    <2> QED BY <1>4, <2>4, <2>5, <2>6
  <1>5. ASSUME NEW i \in Chare, Out(i) PROVE Orderly'
    BY <1>5, SameEnds, OutOrderly DEF Out, stepVars
  <1>6. CASE Comfinal
    BY <1>6, TargetOrderly, EffectFacts, BroadcastOrderly DEF Comfinal
  <1>7. CASE TransporterAdvance
    <2> DEFINE e == Posts({"resize"}) ++ Calls(Broadcast("advance"))
    <2>1. e.triggers = {} /\ e.calls = Broadcast("advance")
      <3>1. /\ e.triggers = Posts({"resize"}).triggers \cup Calls(Broadcast("advance")).triggers
            /\ e.calls = Posts({"resize"}).calls \cup Calls(Broadcast("advance")).calls
        BY ThenFacts
      <3> QED BY <3>1, EffectFacts
    <2>2. Target("worker", "advance", e)
      BY <1>7 DEF TransporterAdvance
    <2> HIDE DEF e
    <2> QED BY <2>1, <2>2, TargetOrderly, BroadcastOrderly
  <1>8. CASE MeshResized
    <2> DEFINE s == Broadcast("vol") \cup Broadcast("lhs")
    <2>1. Calls(s).triggers = {} /\ \A n \in Calls(s).calls : n.type # "write"
      BY EffectFacts, BroadcastOrderly
    <2>2. Run(Host, "resize", Calls(s)) /\ UNCHANGED <<file, itf, itr>>
      BY <1>8 DEF MeshResized, TransporterResized, stepVars, fileVars
    <2> HIDE DEF s
    <2> QED BY <2>1, <2>2, HostOrderly
  <1>9. CASE Diagnosed
    BY <1>9, TargetOrderly, EffectFacts, BroadcastOrderly DEF Diagnosed, TransporterDiagnostics
  <1>10. CASE End
    BY <1>10, HostOrderly, EffectFacts DEF End, Finish, fileVars
  <1>11. CASE Exit \/ UNCHANGED vars
    <2>1. UNCHANGED <<msgs, trigger, file, itf, itr>>
      BY <1>11 DEF Exit, vars, discVars, charmVars, stepVars, fileVars
    <2> QED BY <2>1, FilesKept DEF Orderly, Uncalled
  <1> QED BY <1>1, <1>2, <1>3, <1>4, <1>5, <1>6, <1>7, <1>8, <1>9, <1>10, <1>11 DEF Next

\* Triggers and files stay in order.
LEMMA AlwaysOrderly == Spec => []Orderly
  <1>1. Init => Orderly
    BY InitOrderly DEF Init
  <1>2. Configured /\ Orderly /\ [Next]_vars => Orderly'
    BY NextOrderly DEF Configured, DiagCGInv
  <1> QED BY <1>1, <1>2, DiagCGInvHolds, PTL DEF Spec

\* No trigger of a chare or the Transporter is called again before the wait it is for has taken it, and no wait is
\* posted twice: nothing is left over for the next step (DiagCG::refine, diag, resized, lhsmerge, resizeAfterRefined,
\* Discretization::comvol; Transporter::discresized, workresized).
THEOREM SignalsMatch == Spec => []SignalsOnce
  <1>1. Configured /\ Orderly => SignalsOnce
    BY SignalsBounded DEF Configured, DiagCGInv, Orderly
  <1> QED BY <1>1, DiagCGInvHolds, AlwaysOrderly, PTL

\* What the file writer is sent can be read: the mesh first, once for each, and on it the outputs 1, 2, ..., each with
\* its fields (Discretization::write, resize; DiagCG::setup, out).
THEOREM OutputsReadable == Spec => []FilesReadable
  <1>1. Orderly => FilesReadable
    BY DEF Orderly, Files
  <1> QED BY <1>1, AlwaysOrderly, PTL

\* A contribution that is on its way is about nodes of the mesh its receiver has, and still has when it arrives
\* (DiagCG::comlhs, comrhs, comdif, DistFCT::comaec, comalw, comlim, Discretization::comvol).
THEOREM ContributionsFit == Spec => []MeshesAgree
  <1>1. Configured => MeshesAgree
    BY MeshesFit DEF Configured, DiagCGInv
  <1> QED BY <1>1, DiagCGInvHolds, PTL

\* The elements of an array contribute to the same reductions in the same order (contribute() in DiagCG,
\* Discretization, Refiner, Diagnostics).
THEOREM ReductionsMatch == Spec => []SameReductions
  <1>1. Configured => SameReductions
    BY ReductionsFit DEF Configured, DiagCGInv
  <1> QED BY <1>1, DiagCGInvHolds, PTL

-----------------------------------------------------------------------------
\* What all chares do together is a bulk step, or none is visible.
LEMMA NextSteps ==
  ASSUME Configured, [Next]_vars
  PROVE  [Bulk!Next]_(Bulk!vars)
  <1>1. PICK c : StepsInv(c)
    BY DEF Configured, DiagCGInv
  <1>2. UNCHANGED <<it, itr, finished>> => UNCHANGED Bulk!vars
    BY DEF Bulk!vars
  <1>3. ASSUME NEW m \in msgs, DiagCGCall(m.to, m) PROVE [Bulk!Next]_(Bulk!vars)
    <2> DEFINE i == m.to
    <2>1. i = m.to /\ DiagCGCall(i, m)
      BY <1>3
    <2> HIDE DEF i
    <2>2. CASE Eval(i, m)
      <3>1. Evals(i, m)
        BY <1>1, <2>2, PartsOfInv, EvalIs DEF Shape
      <3>2. /\ i \in Chare /\ itr[i] < MeshOf(it[i]) /\ \A j \in Chare : it[j] = it[i]
            /\ itr' = [itr EXCEPT ![i] = itr[i] + 1] /\ it' = it /\ finished' = finished
        BY <1>1, <2>1, <3>1, EvalKeeps
      <3>3. Bulk!Remesh(i)
        BY <3>2 DEF Bulk!Remesh
      <3> QED BY <3>2, <3>3 DEF Bulk!Next
    <2>3. CASE ~ Eval(i, m)
      <3>1. UNCHANGED <<it, itr, finished>>
        BY <2>1, <2>3 DEF DiagCGCall, Create, Setup, Lhs, Comlhs, Advance, Start, Comrhs, Comdif, Comaec, Comalw,
             Comlim, Receive, Diag, Resized, Signal, Written, ResumeFromSync, Resume, stepVars
      <3> QED BY <1>2, <3>1
    <2> QED BY <2>2, <2>3
  <1>4. ASSUME NEW i \in Chare, LhsMerge(i) \/ Solve(i) \/ Lim(i) \/ Apply(i) \/ Out(i) PROVE [Bulk!Next]_(Bulk!vars)
    <2>1. CASE Apply(i)
      <3>1. LastOf(10, "app", "lim") /\ MakesStep(i, "app", "lim")
        BY <1>1, <2>1, ApplyMakesStep
      <3>2. /\ it[i] < NStep /\ \A j \in Chare : it[j] >= it[i] /\ (it[j] = it[i] => itr[j] = MeshOf(it[i]))
            /\ it' = [it EXCEPT ![i] = it[i] + 1] /\ itr' = itr /\ finished' = finished
        BY <1>1, <3>1, MakesStepKeeps
      <3>3. Bulk!Step(i)
        BY <3>2 DEF Bulk!Step
      <3> QED BY <3>3 DEF Bulk!Next
    <2>2. CASE ~ Apply(i)
      <3>1. UNCHANGED <<it, itr, finished>>
        BY <1>4, <2>2 DEF LhsMerge, Solve, Lim, Out, stepVars
      <3> QED BY <1>2, <3>1
    <2> QED BY <2>1, <2>2
  <1>5. CASE End
    BY <1>1, <1>5, EndSteps DEF Bulk!Next, End
  <1>6. ASSUME Comfinal \/ TransporterAdvance \/ MeshResized \/ Diagnosed PROVE [Bulk!Next]_(Bulk!vars)
    <2>1. UNCHANGED <<it, itr, finished>>
      BY <1>6 DEF Comfinal, TransporterAdvance, MeshResized, Diagnosed, TransporterResized, TransporterDiagnostics,
           Target, stepVars
    <2> QED BY <1>2, <2>1
  <1>7. ASSUME DiscretizationNext PROVE [Bulk!Next]_(Bulk!vars)
    <2>1. UNCHANGED <<it, itr, finished>>
      BY <1>7, DiscretizationStays
    <2> QED BY <1>2, <2>1
  <1>8. Exit \/ UNCHANGED vars => UNCHANGED <<it, itr, finished>>
    BY DEF Exit, vars, discVars, stepVars
  <1> QED BY <1>2, <1>3, <1>4, <1>5, <1>6, <1>7, <1>8 DEF Next

\* Chares make time steps and refine their meshes together: none is more than a step ahead of another, none
\* makes a step while another lacks the mesh of that step, the mesh changes only between two steps, and the run
\* ends after the last (DiagCG::advance, update, resizeAfterRefined; Transporter::advance, matched, finish).
THEOREM StepsTogether == Spec => ImplementsBulkSteps
  <1>1. Init => Bulk!Init
    BY DEF Init, DiscretizationInit, Bulk!Init
  <1>2. Configured /\ [Next]_vars => [Bulk!Next]_(Bulk!vars)
    BY NextSteps
  <1> QED BY <1>1, <1>2, DiagCGInvHolds, PTL DEF Spec, ImplementsBulkSteps, Bulk!Spec
=============================================================================
