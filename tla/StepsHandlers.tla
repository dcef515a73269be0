--------------------------- MODULE StepsHandlers ----------------------------
(***************************************************************************)
(* What keeps StepsInvariant, second part: how a step ends and the next one*)
(* starts, the handlers that send and add the left-hand side and the       *)
(* volumes, the new mesh of a chare, the stages in the middle of a step and*)
(* its last one, which makes the step, and the initial states.             *)
(***************************************************************************)
EXTENDS StepsProofs

-----------------------------------------------------------------------------
\* What starts the next step.
NextDt == Posts({"rhs", "out"}) ++ Contributes("worker", "advance")

\* What ends it.
StepOf(i) == NextStep(i, "disc", NextDt)

\* What they do.
LEMMA DtIs ==
  /\ NextDt.posts = {"rhs", "out"}
  /\ NextDt.calls = {} /\ NextDt.triggers = {}
  /\ \A a : TargetsOn(a, NextDt) = IF a = "worker" THEN <<"advance">> ELSE <<>>
  <1> DEFINE a1 == Posts({"rhs", "out"})
             a2 == Contributes("worker", "advance")
  <1>1. /\ a1.calls = {} /\ a1.triggers = {} /\ \A a : TargetsOn(a, a1) = <<>>
        /\ a2.calls = {} /\ a2.triggers = {} /\ \A a : TargetsOn(a, a2) = IF a = "worker" THEN <<"advance">> ELSE <<>>
    BY EffectFacts
  <1> HIDE DEF a1, a2
  <1>2. NextDt = a1 ++ a2
    BY DEF NextDt, a1, a2
  <1>3. NextDt.calls = {} /\ NextDt.triggers = {} /\ \A a : TargetsOn(a, NextDt) = <<>> \o TargetsOn(a, a2)
    BY <1>1, <1>2, ThenFacts
  <1>4. NextDt.posts = {"rhs", "out"}
    BY PostsFacts DEF NextDt
  <1> QED BY <1>1, <1>3, <1>4, TargetFacts

\* What StepOf does.
LEMMA StepIs ==
  ASSUME NEW i
  PROVE  /\ StepOf(i).calls = {} /\ StepOf(i).triggers = {}
         /\ StepOf(i).posts = IF it[i] # NStep /\ (it[i] % LbFreq # 0 \/ Nonblocking) THEN {"rhs", "out"} ELSE {}
         /\ \A a : TargetsOn(a, StepOf(i)) =
              IF a = "disc" /\ it[i] = NStep THEN <<"finish">>
              ELSE IF a = "worker" /\ it[i] # NStep /\ (it[i] % LbFreq # 0 \/ Nonblocking) THEN <<"advance">>
              ELSE IF a = "sync" /\ it[i] # NStep /\ it[i] % LbFreq = 0 THEN <<"sync">> ELSE <<>>
  <1> DEFINE f == Contributes("disc", "finish")
             s == Contributes("sync", "sync")
             n == IF Nonblocking THEN NextDt ELSE Nothing
  <1>1. /\ f.calls = {} /\ f.triggers = {} /\ \A a : TargetsOn(a, f) = IF a = "disc" THEN <<"finish">> ELSE <<>>
        /\ s.calls = {} /\ s.triggers = {} /\ \A a : TargetsOn(a, s) = IF a = "sync" THEN <<"sync">> ELSE <<>>
        /\ f.posts = {} /\ s.posts = {}
    BY EffectFacts, PostsFacts
  <1>2. /\ n.calls = {} /\ n.triggers = {}
        /\ n.posts = IF Nonblocking THEN {"rhs", "out"} ELSE {}
        /\ \A a : TargetsOn(a, n) = IF Nonblocking /\ a = "worker" THEN <<"advance">> ELSE <<>>
    BY EffectFacts, PostsFacts, DtIs
  <1> HIDE DEF f, s, n
  <1>3. /\ (s ++ n).calls = {} /\ (s ++ n).triggers = {}
        /\ \A a : TargetsOn(a, s ++ n) = TargetsOn(a, s) \o TargetsOn(a, n)
    BY <1>1, <1>2, ThenFacts
  <1>9. (s ++ n).posts = n.posts
    <2>1. (s ++ n).posts = s.posts \cup n.posts
      BY PostsFacts
    <2> QED BY <1>1, <2>1
  <1>4. \A a : TargetsOn(a, s ++ n) = IF a = "sync" THEN <<"sync">>
                                      ELSE IF Nonblocking /\ a = "worker" THEN <<"advance">> ELSE <<>>
    BY <1>1, <1>2, <1>3, TargetFacts
  <1>5. StepOf(i) = IF it[i] = NStep THEN f ELSE IF it[i] % LbFreq # 0 THEN NextDt ELSE s ++ n
    BY DEF StepOf, NextStep, f, s, n
  <1>6. CASE it[i] = NStep
    BY <1>1, <1>5, <1>6
  <1>7. CASE it[i] # NStep /\ it[i] % LbFreq # 0
    BY <1>5, <1>7, DtIs
  <1>8. CASE it[i] # NStep /\ it[i] % LbFreq = 0
    BY <1>2, <1>3, <1>4, <1>5, <1>8, <1>9
  <1> QED BY <1>6, <1>7, <1>8

\* Chare i is done with all that belongs to its step.
StepOver(c, i) ==
  /\ Made(c, i) /\ c.stage[i] \in {11, 12, 13, 15} /\ c.diag[i] = 3 /\ c.vol[i] \in {0, 6} /\ c.ref[i] \in {0, 3}
  /\ c.lhs[i] \in {0, 3}
  /\ Refines(c.round) => c.ref[i] = 3 /\ c.lhs[i] = 3 /\ c.vol[i] = 6
  /\ c.ref[i] = 3 => c.disc /\ c.work /\ c.lhs[i] = 3

\* It is when the diagnostics are done and, after a refinement, all of the new mesh.
LEMMA StepOverIf ==
  ASSUME NEW c \in Config, Remeshing(c), NEW i \in Chare, Made(c, i), c.stage[i] \in {11, 12, 13, 15}, c.diag[i] = 3,
         Refines(c.round) => c.ref[i] = 3 /\ c.lhs[i] = 3 /\ c.vol[i] = 6
  PROVE  StepOver(c, i)
  <1>1. CASE Refines(c.round)
    <2>1. c.vol[i] = 6 /\ c.mesh \in 0 .. 4
      BY <1>1, ConfigIs
    <2>2. c.vol[i] \in CASE c.mesh < 2 -> {0} [] c.mesh = 2 -> {1, 2} [] c.mesh = 3 -> {3, 4} [] OTHER -> {5, 6}
      BY DEF Remeshing
    <2>3. c.mesh >= 2
      BY <2>1, <2>2
    <2>4. c.disc /\ c.work
      BY <2>3 DEF Remeshing
    <2> QED BY <1>1, <2>1, <2>4 DEF StepOver
  <1>2. CASE ~ Refines(c.round)
    <2>1. c.mesh = 0 /\ c.ref[i] = 0
      BY <1>2, ConfigIs DEF Remeshing
    <2>2. c.vol[i] = 0 /\ c.lhs[i] = 0
      BY <2>1 DEF Remeshing
    <2> QED BY <1>2, <2>1, <2>2 DEF StepOver
  <1> QED BY <1>1, <1>2

\* A signal of the end of the step is there only while the step is not over.
LEMMA NoSignals ==
  ASSUME NEW c, Ends(c), NEW i \in Chare, c.stage[i] # 11
  PROVE  \A y \in {"diag", "ref", "lhs", "resize"} : trigger[i][done(y)] = 0
  BY DEF Ends, Ended

\* Chare i goes on after its step with effect e: output, load balancing, the next step or the end.
Onward(k, e) ==
  /\ TargetsOn("worker", e) = IF k = 17 THEN <<"advance">> ELSE <<>>
  /\ TargetsOn("disc", e) = IF k = 16 THEN <<"finish">> ELSE <<>>
  /\ TargetsOn("refiner", e) = <<>>
  /\ TargetsOn("sync", e) \in IF Nonblocking THEN {<<>>, <<"sync">>} ELSE IF k = 14 THEN {<<"sync">>} ELSE {<<>>}
  /\ e.posts = IF k = 17 THEN {"rhs", "out"} ELSE {}

\* The step that takes messages q and sends s leads chare i to stage k.
Leaves(c, i, k, e, q, s) ==
  /\ k \in {12, 14, 16, 17} /\ k >= c.stage[i]
  /\ k = 16 => c.round = NStep
  /\ k \in {14, 17} => c.round < NStep
  /\ k = 14 => ~ Nonblocking
  /\ Onward(k, e) /\ Adds(i, e) /\ Frame /\ CharmShape'
  /\ msgs' = (msgs \ q) \cup s
  /\ \A n \in s : k = 12 /\ c.stage[i] = 11 /\ n.type = "write" /\ s = {n} /\ n.to = i /\ n.then = "step"
  /\ \A t : Expected(c, t, i) /\ [type |-> t, to |-> i] \notin q => t = "resume" /\ Nonblocking
  /\ c.stage[i] # 12
  /\ \A y \in {"diag", "ref", "lhs", "resize"} :
       trigger'[i][done(y)] = 0 /\ \A j \in Chare \ {i} : trigger'[j][done(y)] = trigger[j][done(y)]
  /\ \A y \in {"disc", "work"} : trigger'[Host][done(y)] = trigger[Host][done(y)]
  /\ \A w \in Wait : Due(i, w)' = (IF w = "out" /\ c.stage[i] = 11 THEN Due(i, w) - 1 ELSE Due(i, w))
                                 + (IF w \in e.posts THEN 1 ELSE 0)
  /\ \A j \in Chare \ {i}, w \in Wait : Due(j, w)' = Due(j, w)
  /\ finished' = finished

\* A dump is numbered.
LEMMA DumpedOutputs ==
  ASSUME NEW c \in Config, NEW d \in Config, Outputs(c), d.round = c.round, NEW i \in Chare,
         UNCHANGED <<it, refined>>, it \in [Chare -> Nat], Dumped(i),
         \A j \in Chare \ {i} : d.stage[j] = c.stage[j],
         IF c.round = 0 THEN d.stage[i] >= 3 ELSE d.stage[i] # 11
  PROVE  Outputs(d)'
  <1>1. /\ itf \in [Chare -> Nat] /\ lastDump \in [Chare -> Int] /\ it[i] \in Nat
        /\ \A j \in Chare : lastDump[j] \in -1 .. it[j] /\ itf[j] <= lastDump[j] + 1
    BY DEF Outputs
  <1>2. /\ itf' = [itf EXCEPT ![i] = IF lastDump[i] # it[i] THEN itf[i] + 1 ELSE itf[i]]
        /\ lastDump' = [lastDump EXCEPT ![i] = it[i]]
    BY DEF Dumped
  <1>3. itf' \in [Chare -> Nat] /\ lastDump' \in [Chare -> Int]
    BY <1>1, <1>2
  <1>4. \A j \in Chare \ {i} : itf'[j] = itf[j] /\ lastDump'[j] = lastDump[j]
    BY <1>1, <1>2
  <1>5. lastDump'[i] = it[i] /\ itf'[i] = IF lastDump[i] # it[i] THEN itf[i] + 1 ELSE itf[i]
    BY <1>1, <1>2
  <1>6. itf'[i] <= lastDump'[i] + 1 /\ lastDump'[i] \in -1 .. it[i]
    <2>1. lastDump[i] \in -1 .. it[i] /\ itf[i] <= lastDump[i] + 1 /\ itf[i] \in Nat /\ lastDump[i] \in Int
      BY <1>1
    <2> QED BY <1>1, <1>5, <2>1
  <1>7. refined' \in [Chare -> BOOLEAN]
    BY DEF Outputs
  <1>8. ASSUME NEW j \in Chare, lastDump'[j] = it'[j]
        PROVE  IF d.round = 0 THEN d.stage[j] >= 3 ELSE d.stage[j] # 11
    <2>1. CASE j = i
      BY <2>1
    <2>2. CASE j # i
      BY <1>4, <1>8, <2>2 DEF Outputs
    <2> QED BY <2>1, <2>2
  <1> QED BY <1>1, <1>3, <1>4, <1>6, <1>7, <1>8 DEF Outputs

\* Contributions to the reductions of load balancing.
LEMMA SyncSeq ==
  ASSUME NEW u \in Seq({"sync"}), NEW v \in {<<>>, <<"sync">>}
  PROVE  u \o v \in Seq({"sync"})
  <1>1. \A q \in Seq({"sync"}) : q \o <<"sync">> \in Seq({"sync"}) /\ q \o <<>> \in Seq({"sync"})
    OBVIOUS
  <1>2. CASE v = <<>>
    BY <1>1, <1>2
  <1>3. CASE v = <<"sync">>
    BY <1>1, <1>3
  <1> QED BY <1>2, <1>3

\* Leaving the step keeps the invariant.
LEMMA StepEnds ==
  ASSUME NEW c, StepsInv(c), NEW i \in Chare, StepOver(c, i), NEW k, NEW e, NEW q, NEW s,
         Leaves(c, i, k, e, q, s),
         UNCHANGED <<it, refined>>, UNCHANGED <<itf, lastDump>> \/ Dumped(i)
  PROVE  \E d : StepsInv(d)' /\ Alongside(c, d)
  <1> USE DEF Leaves
  <1>1. /\ c \in Config /\ Shape /\ Stages(c) /\ Diagnosing(c) /\ Remeshing(c) /\ Ahead(c) /\ Counters(c)
        /\ Expects(c) /\ Contributions(c) /\ Ends(c) /\ Exchanges(c) /\ Waits(c) /\ Volumes(c) /\ Outputs(c)
    BY PartsOfInv
  <1>2. PICK d \in Config : d.stage = [c.stage EXCEPT ![i] = k] /\ SameRest(c, d)
    <2>1. [c.stage EXCEPT ![i] = k] \in [Chare -> 0 .. 17]
      BY <1>1, ConfigIs
    <2> QED BY <1>1, <2>1, StageSet
  <1>3. /\ d.round = c.round /\ d.diag = c.diag /\ d.ref = c.ref /\ d.lhs = c.lhs /\ d.vol = c.vol
        /\ d.mesh = c.mesh /\ d.started = c.started /\ d.diagnosed = c.diagnosed
        /\ d.disc = c.disc /\ d.work = c.work
        /\ d.stage[i] = k /\ \A j \in Chare \ {i} : d.stage[j] = c.stage[j]
    BY <1>1, <1>2, ConfigIs DEF SameRest
  <1>4. c.round > 0 /\ c.stage[i] \in {11, 13, 15} /\ Made(c, i)
    BY DEF StepOver, Made
  <1>5. Alike(c, d)
    <2>1. c.mesh >= 3 => OfKind("vol") = {}
      BY <1>1 DEF Exchanges
    <2>2. {c.stage[i], d.stage[i]} \subseteq 11 .. 17 /\ d.stage[i] >= c.stage[i]
      BY <1>3, <1>4
    <2> QED BY <1>3, <1>4, <2>1, <2>2 DEF Alike, Alongside
  <1>6. Stages(d)'
    BY <1>1, <1>3, <1>4 DEF Stages
  <1>7. \A j \in Chare : Made(d, j) <=> Made(c, j)
    BY <1>3, <1>4 DEF Made
  <1>8. Diagnosing(d)
    BY <1>1, <1>3, <1>7 DEF Diagnosing, StepOver
  <1>9. Remeshing(d)
    BY <1>1, <1>3, <1>7 DEF Remeshing, StepOver
  <1>10. Ahead(d)
    BY <1>1, <1>3, <1>5, AlikeAhead
  <1>11. Expects(d)'
    <2>1. ASSUME NEW t, NEW j \in Chare, Expected(c, t, j), [type |-> t, to |-> j] \notin q PROVE Expected(d, t, j)
      <3>1. CASE j = i
        BY <2>1, <3>1 DEF Expected
      <3>2. CASE j # i
        BY <1>3, <2>1, <3>2 DEF Expected
      <3> QED BY <3>1, <3>2
    <2>2. \A j \in Chare : c.stage[j] \in {3, 12} => d.stage[j] = c.stage[j]
      BY <1>3, <1>4
    <2>3. ASSUME NEW n \in s
          PROVE  /\ n.type = "write" /\ s = {n} /\ n.to \in Chare /\ c.stage[n.to] \notin {3, 12}
                 /\ d.stage[n.to] = 12 /\ n.then = "step"
      BY <1>3, <1>4, <2>3
    <2>4. Handled(c, d, q, s)
      BY <2>1, <2>2, <2>3 DEF Handled
    <2> QED BY <1>1, <2>4, HandledExpects
  <1>12. Contributions(d)'
    <2> SUFFICES ASSUME NEW j \in Chare PROVE ContributedBy(d, j)'
      BY DEF Contributions
    <2>1. CASE j # i
      <3>1. SameContribs(c, d, j)
        BY <1>3, <2>1 DEF SameContribs
      <3>2. \A a \in Array : contrib'[a][j] = contrib[a][j]
        BY <2>1 DEF Adds
      <3> QED BY <1>1, <1>5, <3>1, <3>2, ContribsKept
    <2>2. CASE j = i
      <3>1. ContributedBy(c, i)
        BY <1>1 DEF Contributions
      <3>2. contrib["worker"][i] = <<>> /\ contrib["refiner"][i] = <<>> /\ contrib["disc"][i] = <<>>
        BY <1>4, <3>1 DEF ContributedBy, StepOver
      <3>3. /\ contrib["sync"][i] \in Seq({"sync"})
            /\ ~ Nonblocking => contrib["sync"][i] = <<>>
        BY <1>4, <3>1 DEF ContributedBy
      <3>4. \A a \in {"disc", "worker", "refiner", "sync"} : contrib'[a][i] = contrib[a][i] \o TargetsOn(a, e)
        BY DEF Adds, Array
      <3>5. /\ contrib'["worker"][i] = IF k = 17 THEN <<"advance">> ELSE <<>>
            /\ contrib'["disc"][i] = IF k = 16 THEN <<"finish">> ELSE <<>>
            /\ contrib'["refiner"][i] = <<>>
        <4>1. /\ contrib'["worker"][i] = <<>> \o TargetsOn("worker", e)
              /\ contrib'["disc"][i] = <<>> \o TargetsOn("disc", e)
              /\ contrib'["refiner"][i] = <<>> \o TargetsOn("refiner", e)
          BY <3>2, <3>4
        <4>2. /\ TargetsOn("worker", e) = IF k = 17 THEN <<"advance">> ELSE <<>>
              /\ TargetsOn("disc", e) = IF k = 16 THEN <<"finish">> ELSE <<>>
              /\ TargetsOn("refiner", e) = <<>>
          BY DEF Onward
        <4> QED BY <4>1, <4>2, TargetFacts
      <3>6. /\ contrib'["sync"][i] \in Seq({"sync"})
            /\ ~ Nonblocking => contrib'["sync"][i] = IF k = 14 THEN <<"sync">> ELSE <<>>
        <4>1. TargetsOn("sync", e) \in {<<>>, <<"sync">>}
          BY DEF Onward
        <4>2. contrib'["sync"][i] = contrib["sync"][i] \o TargetsOn("sync", e)
          BY <3>4
        <4>3. contrib'["sync"][i] \in Seq({"sync"})
          BY <3>3, <4>1, <4>2, SyncSeq
        <4>4. ~ Nonblocking => contrib'["sync"][i] = IF k = 14 THEN <<"sync">> ELSE <<>>
          BY <3>3, <3>4, TargetFacts DEF Onward
        <4> QED BY <4>3, <4>4
      <3>7. c.round = NStep => ~ finished \/ c.stage[i] = 16
        BY <1>1 DEF Stages
      <3>8. ~ finished'
        BY <1>1, <1>4 DEF Stages
      <3>9. contrib'["disc"][i] # <<"vol">>
        BY <3>5
      <3>10. d.diag[i] = 3 /\ d.ref[i] \in {0, 3} /\ d.vol[i] \in {0, 6} /\ (d.ref[i] = 3 => d.disc /\ d.work)
        BY <1>3 DEF StepOver
      <3> QED BY <1>3, <2>2, <3>5, <3>6, <3>8, <3>9, <3>10 DEF ContributedBy
    <2> QED BY <2>1, <2>2
  <1>13. Ends(d)'
    <2>1. ASSUME NEW j \in Chare, NEW y \in {"diag", "ref", "lhs", "resize"}
          PROVE  \/ trigger'[j][done(y)] = trigger[j][done(y)] /\ (Ended(c, j, y) => Ended(d, j, y))
                 \/ trigger'[j][done(y)] = 0
      <3>1. CASE j = i
        BY <3>1
      <3>2. CASE j # i
        BY <1>3, <3>2 DEF Ended, Made
      <3> QED BY <3>1, <3>2
    <2>2. Ending(c, d)
      BY <1>3, <2>1 DEF Ending
    <2> QED BY <1>1, <2>2, EndingEnds
  <1>14. Alongside(c, d)
    BY <1>5 DEF Alike
  <1>15. Outputs(d)'
    <2>1. CASE UNCHANGED <<itf, lastDump>>
      BY <1>1, <1>14, <2>1, OutputsKept
    <2>2. CASE Dumped(i)
      BY <1>1, <1>3, <1>4, <2>2, DumpedOutputs DEF Shape
    <2> QED BY <2>1, <2>2
  <1>16. Waits(d)'
    <2> SUFFICES ASSUME NEW j \in Chare, NEW w \in Wait PROVE Due(j, w)' = IF j \in Open(d, w) THEN 1 ELSE 0
      BY DEF Waits, Open
    <2>1. Due(j, w) = IF j \in Open(c, w) THEN 1 ELSE 0
      BY <1>1 DEF Waits
    <2>2. CASE j # i
      <3>1. SameWaits(c, d, j)
        BY <1>3, <2>2 DEF SameWaits
      <3>2. j \in Open(d, w) <=> j \in Open(c, w)
        BY <1>1, <1>14, <3>1, OpenKept
      <3> QED BY <2>1, <2>2, <3>2
    <2>3. CASE j = i
      <3>1. i \in Open(c, w) <=> w = "out" /\ c.stage[i] = 11
        BY <1>4 DEF Open, StepOver
      <3>2. i \in Open(d, w) <=> w \in {"rhs", "out"} /\ k = 17
        BY <1>3, <1>4 DEF Open, StepOver
      <3>3. e.posts = IF k = 17 THEN {"rhs", "out"} ELSE {}
        BY DEF Onward
      <3>4. Due(i, w)' = (IF w = "out" /\ c.stage[i] = 11 THEN Due(i, w) - 1 ELSE Due(i, w))
                         + (IF w \in e.posts THEN 1 ELSE 0)
        OBVIOUS
      <3> QED BY <2>1, <2>3, <3>1, <3>2, <3>3, <3>4
    <2> QED BY <2>2, <2>3
  <1> QED BY <1>1, <1>2, <1>5, <1>6, <1>8, <1>9, <1>10, <1>11, <1>12, <1>13, <1>15, <1>16, AlikeInv DEF Shape

\* Where the end of a step leads.
LEMMA StepOnwards ==
  ASSUME NEW c, StepsInv(c), NEW i \in Chare, Made(c, i)
  PROVE  \E k \in {14, 16, 17} :
           /\ k = 16 => c.round = NStep
           /\ k \in {14, 17} => c.round < NStep
           /\ k = 14 => ~ Nonblocking
           /\ Onward(k, StepOf(i))
  <1>1. it[i] = c.round /\ c.round \in Nat /\ c.round <= NStep /\ NStep \in Nat /\ Nonblocking \in BOOLEAN
    BY PartsOfInv, ConfigIs, ConstantFacts DEF Counters, Stages
  <1> DEFINE k == IF it[i] = NStep THEN 16 ELSE IF it[i] % LbFreq # 0 \/ Nonblocking THEN 17 ELSE 14
             e == StepOf(i)
  <1>2. \A a : TargetsOn(a, e) =
              IF a = "disc" /\ it[i] = NStep THEN <<"finish">>
              ELSE IF a = "worker" /\ it[i] # NStep /\ (it[i] % LbFreq # 0 \/ Nonblocking) THEN <<"advance">>
              ELSE IF a = "sync" /\ it[i] # NStep /\ it[i] % LbFreq = 0 THEN <<"sync">> ELSE <<>>
    BY StepIs
  <1>5. e.posts = IF it[i] # NStep /\ (it[i] % LbFreq # 0 \/ Nonblocking) THEN {"rhs", "out"} ELSE {}
    BY StepIs
  <1> HIDE DEF e
  <1>3. /\ k = 16 <=> it[i] = NStep
        /\ k = 17 <=> it[i] # NStep /\ (it[i] % LbFreq # 0 \/ Nonblocking)
        /\ k = 14 <=> it[i] # NStep /\ it[i] % LbFreq = 0 /\ ~ Nonblocking
        /\ k \in {14, 16, 17}
    OBVIOUS
  <1> HIDE DEF k
  <1>4. Onward(k, e)
    <2>1. TargetsOn("worker", e) = IF k = 17 THEN <<"advance">> ELSE <<>>
      BY <1>2, <1>3
    <2>2. TargetsOn("disc", e) = IF k = 16 THEN <<"finish">> ELSE <<>>
      BY <1>2, <1>3
    <2>3. TargetsOn("sync", e) = IF it[i] # NStep /\ it[i] % LbFreq = 0 THEN <<"sync">> ELSE <<>>
      BY <1>2
    <2>4. TargetsOn("refiner", e) = <<>>
      BY <1>2
    <2>5. e.posts = IF k = 17 THEN {"rhs", "out"} ELSE {}
      BY <1>3, <1>5
    <2> QED BY <1>1, <1>3, <2>1, <2>2, <2>3, <2>4, <2>5 DEF Onward
  <1> QED BY <1>1, <1>3, <1>4 DEF e

\* DiagCG::step: the output of the step is written.
LEMMA WrittenKeeps ==
  ASSUME NEW c, StepsInv(c), NEW m \in msgs, NEW i, i = m.to, Is(m, "step", i), Take(i, m, StepOf(i)),
         UNCHANGED <<stepVars, fileVars, refined, nodeVars>>
  PROVE  \E d : StepsInv(d)' /\ Alongside(c, d)
  <1> DEFINE e == StepOf(i)
  <1>1. /\ c \in Config /\ Shape /\ Stages(c) /\ Diagnosing(c) /\ Remeshing(c) /\ Ahead(c) /\ Counters(c)
        /\ Expects(c) /\ Contributions(c) /\ Ends(c) /\ Exchanges(c) /\ Waits(c) /\ Volumes(c) /\ Outputs(c)
    BY PartsOfInv
  <1>2. /\ Take(i, m, e) /\ m.type = "step"
        /\ UNCHANGED <<stepVars, fileVars, refined, nodeVars>>
    BY DEF Is
  <1>3. e.calls = {} /\ e.triggers = {}
    BY StepIs
  <1>17. \A k : Onward(k, StepOf(i)) => Onward(k, e)
    OBVIOUS
  <1> HIDE DEF e
  <1>4. /\ i \in Chare /\ m = [type |-> "step", to |-> i] /\ Expected(c, "step", i)
        /\ Frame /\ CharmShape'
        /\ msgs' = (msgs \ {m}) \cup e.calls
        /\ \A o \in Object, y \in {"diag", "ref", "lhs", "resize", "disc", "work"} :
             trigger'[o][done(y)] = IF o = i /\ done(y) \in e.triggers THEN trigger[o][done(y)] + 1
                                                                       ELSE trigger[o][done(y)]
        /\ Adds(i, e)
        /\ \A j \in Chare, w \in Wait : Due(j, w)' = IF j = i /\ w \in e.posts THEN Due(j, w) + 1 ELSE Due(j, w)
    <2>1. UNCHANGED <<it, itr, field, buf, count>> /\ Plain(m)
      BY <1>2 DEF stepVars, nodeVars, Plain
    <2>2. \A n \in e.calls : n.type # "com"
      BY <1>3
    <2> QED BY <1>2, <1>3, <2>1, <2>2, PlainTake
  <1>5. c.stage[i] = 13
    BY <1>4 DEF Expected
  <1>6. Made(c, i) /\ StepOver(c, i)
    <2>1. c.round > 0 /\ Made(c, i)
      BY <1>1, <1>4, <1>5, ConfigIs DEF Stages, Made
    <2>2. c.diag[i] = 3 /\ (Refines(c.round) => c.ref[i] = 3 /\ c.lhs[i] = 3 /\ c.vol[i] = 6)
      BY <1>1, <1>4, <1>5, <2>1 DEF Diagnosing, Remeshing
    <2> QED BY <1>1, <1>4, <1>5, <2>1, <2>2, StepOverIf
  <1>7. PICK k \in {14, 16, 17} :
          /\ k = 16 => c.round = NStep
          /\ k \in {14, 17} => c.round < NStep
          /\ k = 14 => ~ Nonblocking
          /\ Onward(k, e)
    BY <1>4, <1>6, <1>17, StepOnwards
  <1>8. finished' = finished /\ UNCHANGED <<it, itf, lastDump, refined>>
    BY <1>2 DEF stepVars, fileVars
  <1>10. ASSUME NEW t, Expected(c, t, i), [type |-> t, to |-> i] \notin {m} PROVE t = "resume" /\ Nonblocking
    BY <1>4, <1>5, <1>6, <1>10 DEF Expected, StepOver
  <1>11. \A y \in {"diag", "ref", "lhs", "resize"} :
           trigger'[i][done(y)] = 0 /\ \A j \in Chare \ {i} : trigger'[j][done(y)] = trigger[j][done(y)]
    BY <1>1, <1>3, <1>4, <1>5, NoSignals, ObjectFacts
  <1>12. \A y \in {"disc", "work"} : trigger'[Host][done(y)] = trigger[Host][done(y)]
    BY <1>3, <1>4, ObjectFacts
  <1>13. msgs' = (msgs \ {m}) \cup {} /\ c.stage[i] # 12 /\ c.stage[i] # 11 /\ k \in {12, 14, 16, 17} /\ k >= c.stage[i]
    BY <1>3, <1>4, <1>5, <1>7
  <1>9. /\ \A w \in Wait : Due(i, w)' = (IF w = "out" /\ c.stage[i] = 11 THEN Due(i, w) - 1 ELSE Due(i, w))
                                      + (IF w \in e.posts THEN 1 ELSE 0)
        /\ \A j \in Chare \ {i}, w \in Wait : Due(j, w)' = Due(j, w)
    BY <1>1, <1>4, <1>13 DEF Waits
  <1>14. Leaves(c, i, k, e, {m}, {})
    BY <1>4, <1>7, <1>8, <1>9, <1>10, <1>11, <1>12, <1>13 DEF Leaves
  <1> QED BY <1>4, <1>6, <1>8, <1>14, StepEnds

\* DiagCG::ResumeFromSync: load balancing is done.
LEMMA ResumeKeeps ==
  ASSUME NEW c, StepsInv(c), NEW m \in msgs, NEW i, i = m.to, Resume(i, m, NextDt)
  PROVE  \E d : StepsInv(d)' /\ Alongside(c, d)
  <1> DEFINE e == IF Nonblocking THEN Nothing ELSE NextDt
  <1>1. /\ c \in Config /\ Shape /\ Stages(c) /\ Diagnosing(c) /\ Remeshing(c) /\ Ahead(c) /\ Counters(c)
        /\ Expects(c) /\ Contributions(c) /\ Ends(c) /\ Exchanges(c) /\ Waits(c) /\ Volumes(c) /\ Outputs(c)
    BY PartsOfInv
  <1>2. /\ Take(i, m, e) /\ m.type = "resume"
        /\ UNCHANGED <<stepVars, fileVars, refined, nodeVars>>
    BY DEF Resume, Is
  <1>3. /\ e.calls = {} /\ e.triggers = {}
        /\ \A a : TargetsOn(a, e) = IF ~ Nonblocking /\ a = "worker" THEN <<"advance">> ELSE <<>>
        /\ e.posts = IF Nonblocking THEN {} ELSE {"rhs", "out"}
    BY EffectFacts, PostsFacts, DtIs
  <1> HIDE DEF e
  <1>4. /\ i \in Chare /\ m = [type |-> "resume", to |-> i] /\ Expected(c, "resume", i)
        /\ Frame /\ CharmShape'
        /\ msgs' = (msgs \ {m}) \cup e.calls
        /\ \A o \in Object, y \in {"diag", "ref", "lhs", "resize", "disc", "work"} :
             trigger'[o][done(y)] = IF o = i /\ done(y) \in e.triggers THEN trigger[o][done(y)] + 1
                                                                       ELSE trigger[o][done(y)]
        /\ Adds(i, e)
        /\ \A j \in Chare, w \in Wait : Due(j, w)' = IF j = i /\ w \in e.posts THEN Due(j, w) + 1 ELSE Due(j, w)
    <2>1. UNCHANGED <<it, itr, field, buf, count>> /\ Plain(m)
      BY <1>2 DEF stepVars, nodeVars, Plain
    <2>2. \A n \in e.calls : n.type # "com"
      BY <1>3
    <2> QED BY <1>2, <1>3, <2>1, <2>2, PlainTake
  <1>8. finished' = finished /\ UNCHANGED <<it, itf, lastDump, refined>>
    BY <1>2 DEF stepVars, fileVars
  <1>5. CASE Nonblocking
    <2>1. Alike(c, c)
      BY <1>1 DEF Exchanges, Alike, Alongside
    <2>2. Stages(c)'
      BY <1>1, <1>8 DEF Stages
    <2>3. Expects(c)'
      <3>1. Handled(c, c, {m}, {})
        BY <1>3, <1>4 DEF Handled
      <3> QED BY <1>1, <3>1, HandledExpects
    <2>4. Contributions(c)'
      <3> SUFFICES ASSUME NEW j \in Chare PROVE ContributedBy(c, j)'
        BY DEF Contributions
      <3>1. \A a : TargetsOn(a, e) = <<>>
        BY <1>3, <1>5
      <3>2. \A a \in Array : contrib'[a][j] = contrib[a][j]
        BY <1>1, <1>4, <3>1, NoTargets
      <3>3. SameContribs(c, c, j)
        BY DEF SameContribs
      <3> QED BY <1>1, <1>4, <1>8, <2>1, <3>2, <3>3, ContribsKept
    <2>5. Ends(c)'
      <3>1. Ending(c, c)
        BY <1>3, <1>4, ObjectFacts DEF Ending
      <3> QED BY <1>1, <3>1, EndingEnds
    <2>6. Outputs(c)'
      BY <1>1, <1>8, <2>1, OutputsKept DEF Alike
    <2>7. Waits(c)'
      <3>1. \A j \in Chare : SameWaits(c, c, j)
        BY DEF SameWaits
      <3>2. \A j \in Chare, w \in Wait : Due(j, w)' = Due(j, w)
        BY <1>3, <1>4, <1>5
      <3> QED BY <1>1, <2>1, <3>1, <3>2, WaitsKept DEF Alike
    <2> QED BY <1>1, <1>4, <1>8, <2>1, <2>2, <2>3, <2>4, <2>5, <2>6, <2>7, AlikeInv DEF Shape
  <1>6. CASE ~ Nonblocking
    <2>1. c.stage[i] = 15
      BY <1>4, <1>6 DEF Expected
    <2>2. Made(c, i) /\ StepOver(c, i) /\ c.round < NStep
      <3>1. c.round > 0 /\ Made(c, i) /\ c.round < NStep
        BY <1>1, <1>4, <2>1, ConfigIs DEF Stages, Made
      <3>2. c.diag[i] = 3 /\ (Refines(c.round) => c.ref[i] = 3 /\ c.lhs[i] = 3 /\ c.vol[i] = 6)
        BY <1>1, <1>4, <2>1, <3>1 DEF Diagnosing, Remeshing
      <3> QED BY <1>1, <1>4, <2>1, <3>1, <3>2, StepOverIf
    <2>3. Onward(17, e)
      BY <1>3, <1>6 DEF Onward
    <2>4. ASSUME NEW t, Expected(c, t, i), [type |-> t, to |-> i] \notin {m} PROVE t = "resume" /\ Nonblocking
      BY <1>4, <2>1, <2>2, <2>4 DEF Expected, StepOver
    <2>5. \A y \in {"diag", "ref", "lhs", "resize"} :
            trigger'[i][done(y)] = 0 /\ \A j \in Chare \ {i} : trigger'[j][done(y)] = trigger[j][done(y)]
      BY <1>1, <1>3, <1>4, <2>1, NoSignals, ObjectFacts
    <2>6. \A y \in {"disc", "work"} : trigger'[Host][done(y)] = trigger[Host][done(y)]
      BY <1>3, <1>4, ObjectFacts
    <2>7. msgs' = (msgs \ {m}) \cup {} /\ c.stage[i] # 12 /\ c.stage[i] # 11 /\ 17 \in {12, 14, 16, 17} /\ 17 >= c.stage[i]
      BY <1>3, <1>4, <2>1
    <2>9. /\ \A w \in Wait : Due(i, w)' = (IF w = "out" /\ c.stage[i] = 11 THEN Due(i, w) - 1 ELSE Due(i, w))
                                        + (IF w \in e.posts THEN 1 ELSE 0)
          /\ \A j \in Chare \ {i}, w \in Wait : Due(j, w)' = Due(j, w)
      BY <1>1, <1>4, <2>7 DEF Waits
    <2>8. Leaves(c, i, 17, e, {m}, {})
      BY <1>4, <1>8, <2>2, <2>3, <2>4, <2>5, <2>6, <2>7, <2>9 DEF Leaves
    <2> QED BY <1>4, <1>8, <2>2, <2>8, StepEnds
  <1> QED BY <1>5, <1>6

\* DiagCG::out: chare i is done with its step, and writes its output or goes on.
LEMMA OutKeeps ==
  ASSUME NEW c, StepsInv(c), NEW i \in Chare, UNCHANGED <<stepVars, refined, nodeVars>>,
         IF it[i] % FieldFreq = 0 \/ it[i] = NStep
         THEN Dumped(i) /\ Run(i, "out", Calls({Dump(i, "step")}))
         ELSE Run(i, "out", StepOf(i)) /\ UNCHANGED fileVars
  PROVE  \E d : StepsInv(d)' /\ Alongside(c, d)
  <1> DEFINE D == it[i] % FieldFreq = 0 \/ it[i] = NStep
             w == Dump(i, "step")
             e == IF D THEN Calls({w}) ELSE StepOf(i)
  <1>1. /\ c \in Config /\ Shape /\ Stages(c) /\ Diagnosing(c) /\ Remeshing(c) /\ Ahead(c) /\ Counters(c)
        /\ Expects(c) /\ Contributions(c) /\ Ends(c) /\ Exchanges(c) /\ Waits(c) /\ Volumes(c) /\ Outputs(c)
    BY PartsOfInv
  <1>2. /\ Run(i, "out", e) /\ UNCHANGED <<stepVars, refined, nodeVars>>
        /\ IF D THEN Dumped(i) ELSE UNCHANGED fileVars
    OBVIOUS
  <1>3. /\ w.type = "write" /\ w.to = i /\ w.then = "step"
        /\ e.calls = IF D THEN {w} ELSE {}
        /\ e.triggers = {}
        /\ D => e.posts = {} /\ \A a : TargetsOn(a, e) = <<>>
        /\ ~ D => \A k : Onward(k, StepOf(i)) => Onward(k, e)
    <2>1. w.type = "write" /\ w.to = i /\ w.then = "step"
      BY DEF Dump
    <2> HIDE DEF w, D
    <2>2. CASE D
      BY <2>1, <2>2, EffectFacts, PostsFacts
    <2>3. CASE ~ D
      BY <2>1, <2>3, StepIs
    <2> QED BY <2>2, <2>3
  <1> HIDE DEF e, w, D
  <1>4. /\ Frame /\ CharmShape'
        /\ msgs' = msgs \cup e.calls
        /\ \A y \in {"diag", "ref", "lhs", "resize", "disc", "work"} :
             /\ done(y) \in Needs["out"] => trigger[i][done(y)] > 0
             /\ \A k \in Object : trigger'[k][done(y)] = IF k = i /\ done(y) \in Needs["out"] THEN trigger[k][done(y)] - 1
                                                                                              ELSE trigger[k][done(y)]
        /\ Adds(i, e)
        /\ \A j \in Chare, v \in Wait :
             Due(j, v)' = IF j # i THEN Due(j, v)
                          ELSE (IF v = "out" THEN Due(j, v) - 1 ELSE Due(j, v)) + (IF v \in e.posts THEN 1 ELSE 0)
    <2>1. UNCHANGED <<it, itr, field, buf, count>> /\ i \in Object
      BY <1>2, ObjectFacts DEF stepVars, nodeVars
    <2>2. \A n \in e.calls : n.type # "com"
      BY <1>3
    <2> QED BY <1>2, <1>3, <2>1, <2>2, PlainRun
  <1>5. \A y \in {"diag", "ref", "lhs", "resize"} : trigger[i][done(y)] = 1 /\ Ended(c, i, y)
    <2>1. \A y \in {"diag", "ref", "lhs", "resize"} : trigger[i][done(y)] > 0
      BY <1>4, WaitFacts
    <2> QED BY <1>1, <2>1 DEF Ends
  <1>6. Made(c, i) /\ c.stage[i] = 11 /\ StepOver(c, i)
    BY <1>1, <1>5, StepOverIf DEF Ended
  <1>7. \A y \in {"diag", "ref", "lhs", "resize"} :
          trigger'[i][done(y)] = 0 /\ \A j \in Chare \ {i} : trigger'[j][done(y)] = trigger[j][done(y)]
    BY <1>4, <1>5, WaitFacts, ObjectFacts
  <1>8. \A y \in {"disc", "work"} : trigger'[Host][done(y)] = trigger[Host][done(y)]
    BY <1>4, ObjectFacts
  <1>9. finished' = finished /\ UNCHANGED <<it, refined>>
    BY <1>2 DEF stepVars
  <1>10. UNCHANGED <<itf, lastDump>> \/ Dumped(i)
    BY <1>2 DEF fileVars
  <1>11. ASSUME NEW t, Expected(c, t, i), [type |-> t, to |-> i] \notin {} PROVE t = "resume" /\ Nonblocking
    BY <1>6, <1>11 DEF Expected, StepOver
  <1>12. msgs' = (msgs \ {}) \cup e.calls /\ c.stage[i] # 12
    BY <1>4, <1>6
  <1>15. /\ \A v \in Wait : Due(i, v)' = (IF v = "out" /\ c.stage[i] = 11 THEN Due(i, v) - 1 ELSE Due(i, v))
                                       + (IF v \in e.posts THEN 1 ELSE 0)
         /\ \A j \in Chare \ {i}, v \in Wait : Due(j, v)' = Due(j, v)
    BY <1>4, <1>6
  <1>13. CASE D
    <2>1. Onward(12, e)
      BY <1>3, <1>13 DEF Onward
    <2>2. \A n \in e.calls : 12 = 12 /\ c.stage[i] = 11 /\ n.type = "write" /\ e.calls = {n} /\ n.to = i /\ n.then = "step"
      BY <1>3, <1>6, <1>13
    <2>3. 12 \in {12, 14, 16, 17} /\ ~ (12 = 16) /\ ~ (12 \in {14, 17}) /\ ~ (12 = 14) /\ 12 >= c.stage[i]
      BY <1>6
    <2>4. Leaves(c, i, 12, e, {}, e.calls)
      BY <1>4, <1>7, <1>8, <1>9, <1>11, <1>12, <1>15, <2>1, <2>2, <2>3 DEF Leaves
    <2> QED BY <1>6, <1>9, <1>10, <2>4, StepEnds
  <1>14. CASE ~ D
    <2>1. PICK k \in {14, 16, 17} :
            /\ k = 16 => c.round = NStep
            /\ k \in {14, 17} => c.round < NStep
            /\ k = 14 => ~ Nonblocking
            /\ Onward(k, e)
      BY <1>3, <1>6, <1>14, StepOnwards
    <2>2. e.calls = {} /\ k \in {12, 14, 16, 17} /\ k >= c.stage[i]
      BY <1>3, <1>6, <1>14
    <2>3. msgs' = (msgs \ {}) \cup {}
      BY <1>12, <2>2
    <2>4. Leaves(c, i, k, e, {}, {})
      BY <1>4, <1>7, <1>8, <1>9, <1>11, <1>12, <1>15, <2>1, <2>2, <2>3 DEF Leaves
    <2> QED BY <1>6, <1>9, <1>10, <2>4, StepEnds
  <1> QED BY <1>13, <1>14

\* DiagCG::setup: chare i writes the initial conditions.
LEMMA SetupKeeps ==
  ASSUME NEW c, StepsInv(c), NEW m \in msgs, NEW i, i = m.to, Is(m, "setup", i), Dumped(i),
         Take(i, m, Calls({Dump(i, "init")})), UNCHANGED <<stepVars, refined, nodeVars>>
  PROVE  \E d : StepsInv(d)' /\ Alongside(c, d)
  <1> DEFINE w == Dump(i, "init")
             e == Calls({w})
  <1>1. /\ c \in Config /\ Shape /\ Stages(c) /\ Diagnosing(c) /\ Remeshing(c) /\ Ahead(c) /\ Counters(c)
        /\ Expects(c) /\ Contributions(c) /\ Ends(c) /\ Exchanges(c) /\ Waits(c) /\ Volumes(c) /\ Outputs(c)
    BY PartsOfInv
  <1>2. /\ Take(i, m, e) /\ m.type = "setup" /\ Dumped(i)
        /\ UNCHANGED <<stepVars, refined, nodeVars>>
    BY DEF Is
  <1>3. /\ w.type = "write" /\ w.to = i /\ w.then = "init"
        /\ e.calls = {w} /\ e.triggers = {} /\ \A a : TargetsOn(a, e) = <<>>
        /\ e.posts = {}
    BY EffectFacts, PostsFacts DEF Dump
  <1> HIDE DEF e, w
  <1>4. /\ i \in Chare /\ m = [type |-> "setup", to |-> i] /\ Expected(c, "setup", i)
        /\ Frame /\ CharmShape'
        /\ msgs' = (msgs \ {m}) \cup e.calls
        /\ \A o \in Object, y \in {"diag", "ref", "lhs", "resize", "disc", "work"} :
             trigger'[o][done(y)] = IF o = i /\ done(y) \in e.triggers THEN trigger[o][done(y)] + 1
                                                                       ELSE trigger[o][done(y)]
        /\ Adds(i, e)
        /\ \A j \in Chare, v \in Wait : Due(j, v)' = Due(j, v)
    <2>1. UNCHANGED <<it, itr, field, buf, count>> /\ Plain(m)
      BY <1>2 DEF stepVars, nodeVars, Plain
    <2>2. \A n \in e.calls : n.type # "com"
      BY <1>3
    <2> QED BY <1>2, <1>3, <2>1, <2>2, PlainTake
  <1>5. c.stage[i] = 2 /\ c.round = 0 /\ c.started
    <2>1. c.stage[i] = 2
      BY <1>4 DEF Expected
    <2> QED BY <1>1, <1>4, <2>1, ConfigIs DEF Stages
  <1>6. PICK d \in Config : d.stage = [c.stage EXCEPT ![i] = 3] /\ SameRest(c, d)
    <2>1. [c.stage EXCEPT ![i] = 3] \in [Chare -> 0 .. 17]
      BY <1>1, <1>4, ConfigIs
    <2> QED BY <1>1, <2>1, StageSet
  <1>7. /\ d.round = c.round /\ d.diag = c.diag /\ d.ref = c.ref /\ d.lhs = c.lhs /\ d.vol = c.vol
        /\ d.mesh = c.mesh /\ d.started = c.started /\ d.diagnosed = c.diagnosed
        /\ d.disc = c.disc /\ d.work = c.work
        /\ d.stage[i] = 3 /\ \A j \in Chare \ {i} : d.stage[j] = c.stage[j]
    BY <1>1, <1>4, <1>6, ConfigIs DEF SameRest
  <1>8. finished' = finished /\ UNCHANGED <<it, refined>>
    BY <1>2 DEF stepVars
  <1>9. Alike(c, d)
    <2>1. c.mesh >= 3 => OfKind("vol") = {}
      BY <1>1 DEF Exchanges
    <2>2. {c.stage[i], d.stage[i]} \subseteq 0 .. 4 /\ d.stage[i] >= c.stage[i]
      BY <1>5, <1>7
    <2> QED BY <1>7, <2>1, <2>2 DEF Alike, Alongside
  <1>10. Stages(d)'
    BY <1>1, <1>4, <1>5, <1>7, <1>8 DEF Stages
  <1>11. Diagnosing(d) /\ Remeshing(d)
    BY <1>1, <1>5, <1>7 DEF Diagnosing, Remeshing, Made
  <1>12. Ahead(d)
    BY <1>1, <1>7, <1>9, AlikeAhead
  <1>13. Expects(d)'
    <2>1. ASSUME NEW t, NEW j \in Chare, Expected(c, t, j), [type |-> t, to |-> j] \notin {m} PROVE Expected(d, t, j)
      BY <1>4, <1>5, <1>7, <2>1 DEF Expected
    <2>2. Handled(c, d, {m}, e.calls)
      BY <1>3, <1>4, <1>5, <1>7, <2>1 DEF Handled
    <2> QED BY <1>1, <2>2, HandledExpects
  <1>14. Contributions(d)'
    <2> SUFFICES ASSUME NEW j \in Chare PROVE ContributedBy(d, j)'
      BY DEF Contributions
    <2>1. \A a \in Array : contrib'[a][j] = contrib[a][j]
      BY <1>1, <1>3, <1>4, NoTargets
    <2>2. SameContribs(c, d, j)
      BY <1>5, <1>7 DEF SameContribs
    <2> QED BY <1>1, <1>4, <1>8, <1>9, <2>1, <2>2, ContribsKept
  <1>15. Ends(d)'
    <2>1. \A j \in Chare, y \in {"diag", "ref", "lhs", "resize"} : ~ Ended(c, j, y)
      BY <1>5 DEF Ended, Made
    <2>2. Ending(c, d)
      BY <1>3, <1>4, <1>7, <2>1, ObjectFacts DEF Ending
    <2> QED BY <1>1, <2>2, EndingEnds
  <1>16. Outputs(d)'
    BY <1>1, <1>2, <1>4, <1>5, <1>7, <1>8, DumpedOutputs DEF Shape
  <1>17. Waits(d)'
    <2>1. \A j \in Chare : SameWaits(c, d, j)
      BY <1>5, <1>7 DEF SameWaits
    <2> QED BY <1>1, <1>4, <1>9, <2>1, WaitsKept DEF Alike
  <1> QED BY <1>1, <1>4, <1>6, <1>8, <1>9, <1>10, <1>11, <1>12, <1>13, <1>14, <1>15, <1>16, <1>17, AlikeInv DEF Shape

-----------------------------------------------------------------------------
\* A buffer that is empty stays so when it is zeroed.
LEMMA ZeroedAlready ==
  ASSUME NodeShape, NEW i \in Chare, NEW s, \A x \in Kind \cap s : buf[i][x] = {},
         buf' = [buf EXCEPT ![i] = Zero(buf[i], s)]
  PROVE  buf' = buf
  <1> DEFINE g == Zero(buf[i], s)
  <1>1. g = [x \in Kind |-> g[x]] /\ \A x \in Kind : g[x] = IF x \in s THEN {} ELSE buf[i][x]
    BY ZeroFacts
  <1>2. buf' = [buf EXCEPT ![i] = g]
    OBVIOUS
  <1> HIDE DEF g
  <1>3. /\ buf' = [j \in Chare |-> [x \in Kind |-> buf'[j][x]]]
        /\ \A x \in Kind : buf'[i][x] = g[x]
        /\ \A j \in Chare \ {i} : buf'[j] = buf[j]
    BY <1>1, <1>2, BufSet
  <1>4. \A j \in Chare : \A x \in Kind : buf'[j][x] = buf[j][x]
    BY <1>1, <1>3
  <1>5. buf = [j \in Chare |-> [x \in Kind |-> buf[j][x]]]
    BY DEF NodeShape
  <1>6. [j \in Chare |-> [x \in Kind |-> buf'[j][x]]] = [j \in Chare |-> [x \in Kind |-> buf[j][x]]]
    BY <1>4
  <1> QED BY <1>3, <1>5, <1>6

\* Sorter::createWorkers, DiagCG::DiagCG: chare i is created.
LEMMA CreateKeeps ==
  ASSUME NEW c, StepsInv(c), NEW m \in msgs, NEW i, i = m.to, Is(m, "create", i),
         Take(i, m, Posts({"lhs"}) ++ Contributes("worker", "comfinal")),
         buf' = [buf EXCEPT ![i] = Zero(buf[i], {"lhs"})],
         UNCHANGED <<stepVars, fileVars, refined, field, count>>
  PROVE  \E d : StepsInv(d)' /\ Alongside(c, d)
  <1> DEFINE e == Posts({"lhs"}) ++ Contributes("worker", "comfinal")
  <1>1. /\ c \in Config /\ Shape /\ Stages(c) /\ Diagnosing(c) /\ Remeshing(c) /\ Ahead(c) /\ Counters(c)
        /\ Expects(c) /\ Contributions(c) /\ Ends(c) /\ Exchanges(c) /\ Waits(c) /\ Volumes(c) /\ Outputs(c)
    BY PartsOfInv
  <1>2. /\ Take(i, m, e) /\ m.type = "create"
        /\ buf' = [buf EXCEPT ![i] = Zero(buf[i], {"lhs"})]
        /\ UNCHANGED <<stepVars, fileVars, refined, field, count>>
    BY DEF Is
  <1>3. e.posts = {"lhs"} /\ e.calls = {} /\ e.triggers = {} /\ \A a : TargetsOn(a, e) = IF a = "worker" THEN <<"comfinal">> ELSE <<>>
    <2> DEFINE p == Posts({"lhs"})
               q == Contributes("worker", "comfinal")
    <2>1. /\ p.calls = {} /\ p.triggers = {} /\ \A a : TargetsOn(a, p) = <<>>
          /\ q.calls = {} /\ q.triggers = {} /\ \A a : TargetsOn(a, q) = IF a = "worker" THEN <<"comfinal">> ELSE <<>>
      BY EffectFacts
    <2>2. e = p ++ q
      OBVIOUS
    <2>4. e.posts = {"lhs"}
      BY PostsFacts
    <2> HIDE DEF e, p, q
    <2>3. e.calls = {} /\ e.triggers = {} /\ \A a : TargetsOn(a, e) = <<>> \o TargetsOn(a, q)
      BY <2>1, <2>2, ThenFacts
    <2> QED BY <2>1, <2>3, <2>4, TargetFacts
  <1> HIDE DEF e
  <1>17. i \in Chare /\ c.stage[i] = 0
    BY <1>1, <1>2 DEF Expects, Expected
  <1>5. c.stage[i] = 0 /\ c.round = 0 /\ ~ c.started /\ \A j \in Chare : c.stage[j] \in {0, 1}
    BY <1>1, <1>17, ConfigIs DEF Stages
  <1>18. buf' = buf
    <2>1. Senders(c, "lhs") = {} /\ i \in Zeroed(c, "lhs")
      BY <1>5, <1>17 DEF Senders, Zeroed, Takers, Emptied, StepKind, MeshKind
    <2>2. Traded(c, "lhs") /\ "lhs" \in Kind
      BY <1>1, KindIs DEF Exchanges
    <2>3. buf[i]["lhs"] = PartsOf(Arrived("lhs", About(c, "lhs"), Senders(c, "lhs"), i), About(c, "lhs"))
      BY <2>1, <2>2 DEF Traded, Exchange
    <2>4. buf[i]["lhs"] = {}
      BY <2>1, <2>3 DEF Arrived, PartsOf
    <2>5. NodeShape
      BY <1>1 DEF Shape
    <2>6. \A x \in Kind \cap {"lhs"} : buf[i][x] = {}
      BY <2>4
    <2> QED BY <1>2, <1>17, <2>5, <2>6, ZeroedAlready
  <1>4. /\ i \in Chare /\ m = [type |-> "create", to |-> i] /\ Expected(c, "create", i)
        /\ Frame /\ CharmShape'
        /\ msgs' = (msgs \ {m}) \cup e.calls
        /\ \A o \in Object, y \in {"diag", "ref", "lhs", "resize", "disc", "work"} :
             trigger'[o][done(y)] = IF o = i /\ done(y) \in e.triggers THEN trigger[o][done(y)] + 1
                                                                       ELSE trigger[o][done(y)]
        /\ Adds(i, e)
        /\ \A j \in Chare, w \in Wait : Due(j, w)' = IF j = i /\ w \in e.posts THEN Due(j, w) + 1 ELSE Due(j, w)
    <2>1. UNCHANGED <<it, itr, field, buf, count>> /\ Plain(m)
      BY <1>2, <1>18 DEF stepVars, Plain
    <2>2. \A n \in e.calls : n.type # "com"
      BY <1>3
    <2> QED BY <1>2, <1>3, <2>1, <2>2, PlainTake
  <1>6. PICK d \in Config : d.stage = [c.stage EXCEPT ![i] = 1] /\ SameRest(c, d)
    <2>1. [c.stage EXCEPT ![i] = 1] \in [Chare -> 0 .. 17]
      BY <1>1, <1>4, ConfigIs
    <2> QED BY <1>1, <2>1, StageSet
  <1>7. /\ d.round = c.round /\ d.diag = c.diag /\ d.ref = c.ref /\ d.lhs = c.lhs /\ d.vol = c.vol
        /\ d.mesh = c.mesh /\ d.started = c.started /\ d.diagnosed = c.diagnosed
        /\ d.disc = c.disc /\ d.work = c.work
        /\ d.stage[i] = 1 /\ \A j \in Chare \ {i} : d.stage[j] = c.stage[j]
    BY <1>1, <1>4, <1>6, ConfigIs DEF SameRest
  <1>8. finished' = finished /\ UNCHANGED <<it, itf, lastDump, refined>>
    BY <1>2 DEF stepVars, fileVars
  <1>9. Alike(c, d)
    <2>1. c.mesh >= 3 => OfKind("vol") = {}
      BY <1>1 DEF Exchanges
    <2>2. {c.stage[i], d.stage[i]} \subseteq 0 .. 4 /\ d.stage[i] >= c.stage[i]
      BY <1>5, <1>7
    <2> QED BY <1>7, <2>1, <2>2 DEF Alike, Alongside
  <1>10. Stages(d)'
    BY <1>1, <1>4, <1>5, <1>7, <1>8 DEF Stages
  <1>11. Diagnosing(d) /\ Remeshing(d)
    BY <1>1, <1>5, <1>7 DEF Diagnosing, Remeshing, Made
  <1>12. Ahead(d)
    BY <1>1, <1>7, <1>9, AlikeAhead
  <1>13. Expects(d)'
    <2>1. ASSUME NEW t, NEW j \in Chare, Expected(c, t, j), [type |-> t, to |-> j] \notin {m} PROVE Expected(d, t, j)
      BY <1>4, <1>5, <1>7, <2>1 DEF Expected
    <2>2. Handled(c, d, {m}, {})
      BY <1>3, <1>4, <1>5, <1>7, <2>1 DEF Handled
    <2> QED BY <1>1, <2>2, HandledExpects
  <1>14. Contributions(d)'
    <2> SUFFICES ASSUME NEW j \in Chare PROVE ContributedBy(d, j)'
      BY DEF Contributions
    <2>1. CASE j # i
      <3>1. SameContribs(c, d, j)
        BY <1>7, <2>1 DEF SameContribs
      <3>2. \A a \in Array : contrib'[a][j] = contrib[a][j]
        BY <1>4, <2>1 DEF Adds
      <3> QED BY <1>1, <1>4, <1>8, <1>9, <3>1, <3>2, ContribsKept
    <2>2. CASE j = i
      <3>1. ContributedBy(c, i)
        BY <1>1, <1>4 DEF Contributions
      <3>2. contrib["worker"][i] = <<>>
        <4>1. c.ref[i] # 3
          BY <1>1, <1>4, <1>5 DEF Remeshing, Made
        <4> QED BY <1>5, <3>1, <4>1 DEF ContributedBy
      <3>3. /\ contrib'["worker"][i] = <<>> \o TargetsOn("worker", e)
            /\ \A a \in {"disc", "refiner", "sync"} : contrib'[a][i] = contrib[a][i] \o <<>>
        <4>1. \A a \in {"worker", "disc", "refiner", "sync"} : contrib'[a][i] = contrib[a][i] \o TargetsOn(a, e)
          BY <1>4 DEF Adds, Array
        <4>2. \A a \in {"disc", "refiner", "sync"} : TargetsOn(a, e) = <<>>
          BY <1>3
        <4> QED BY <3>2, <4>1, <4>2
      <3>4. \A a \in {"disc", "refiner", "sync"} : contrib'[a][i] = contrib[a][i]
        BY <1>1, <1>4, <3>3, ContribSeq DEF Array
      <3>5. contrib'["worker"][i] = <<"comfinal">>
        BY <1>3, <3>3, TargetFacts
      <3>6. Complete("vol", About(d, "vol"), Senders(d, "vol"), i)' = Complete("vol", About(c, "vol"), Senders(c, "vol"), i)
        BY <1>1, <1>4, <1>9, AlikeVol
      <3>7. c.stage[i] # 16 /\ d.stage[i] = 1 /\ c.stage[i] # 14
        BY <1>5, <1>7
      <3> QED BY <1>7, <1>8, <2>2, <3>1, <3>4, <3>5, <3>6, <3>7 DEF ContributedBy
    <2> QED BY <2>1, <2>2
  <1>15. Ends(d)'
    <2>1. \A j \in Chare, y \in {"diag", "ref", "lhs", "resize"} : ~ Ended(c, j, y)
      BY <1>5 DEF Ended, Made
    <2>2. Ending(c, d)
      BY <1>3, <1>4, <1>7, <2>1, ObjectFacts DEF Ending
    <2> QED BY <1>1, <2>2, EndingEnds
  <1>16. Outputs(d)'
    BY <1>1, <1>8, <1>9, OutputsKept DEF Alike
  <1>19. Waits(d)'
    <2> SUFFICES ASSUME NEW j \in Chare, NEW w \in Wait PROVE Due(j, w)' = IF j \in Open(d, w) THEN 1 ELSE 0
      BY DEF Waits, Open
    <2>1. Due(j, w) = IF j \in Open(c, w) THEN 1 ELSE 0
      BY <1>1 DEF Waits
    <2>2. CASE j # i
      <3>1. SameWaits(c, d, j)
        BY <1>7, <2>2 DEF SameWaits
      <3>2. j \in Open(d, w) <=> j \in Open(c, w)
        BY <1>1, <1>9, <3>1, OpenKept DEF Alike
      <3> QED BY <1>4, <2>1, <2>2, <3>2
    <2>3. CASE j = i
      <3>1. j \notin Open(c, w)
        BY <1>5, <2>3 DEF Open
      <3>2. j \in Open(d, w) <=> w = "lhs"
        BY <1>5, <1>7, <2>3 DEF Open
      <3> QED BY <1>3, <1>4, <2>1, <2>3, <3>1, <3>2
    <2> QED BY <2>2, <2>3
  <1> QED BY <1>1, <1>4, <1>6, <1>8, <1>9, <1>10, <1>11, <1>12, <1>13, <1>14, <1>15, <1>16, <1>19, AlikeInv DEF Shape, Alike

-----------------------------------------------------------------------------
\* Chare i computes its contributions to the field of kind x on its mesh, or takes the others.
MeshStep(c, d, x, i) ==
  /\ x \in {"lhs", "vol"}
  /\ d.round = c.round /\ d.ref = c.ref /\ d.mesh = c.mesh
  /\ d.stage = c.stage \/ (c.round = 0 /\ x = "lhs" /\ c.stage[i] >= 3 /\ d.stage[i] >= 3)
  /\ \A j \in Chare \ {i} : d.stage[j] = c.stage[j] /\ d.lhs[j] = c.lhs[j] /\ d.vol[j] = c.vol[j]
  /\ x # "lhs" => d.lhs[i] = c.lhs[i]
  /\ x # "vol" => d.vol[i] = c.vol[i]
  /\ \A y \in Kind \ {x} : OfKind(y)' = OfKind(y)
  /\ c.mesh >= 3 => OfKind("vol")' = OfKind("vol")
  /\ \A y \in Kind \ {x, "vol"}, j \in Chare :
       trigger'[j][own(y)] = trigger[j][own(y)] /\ trigger'[j][com(y)] = trigger[j][com(y)]
  /\ UNCHANGED <<it, itr, itf, lastDump, refined, finished, count, buf>>
  /\ \A j \in Chare, y \in Kind : j # i \/ y # x => field'[j][y] = field[j][y]
  /\ field' = [j \in Chare |-> [y \in Kind |-> field'[j][y]]]
  /\ field'[i][x] \subseteq Parts

\* The other exchanges go on as they were.
LEMMA MeshStepFor ==
  ASSUME NEW c \in Config, NEW d \in Config, NEW i \in Chare, NEW x, MeshStep(c, d, x, i)
  PROVE  /\ Base(d) = Base(c) /\ Now(d) = Now(c) /\ \A y : About(d, y) = About(c, y)
         /\ \A y \in Kind \ {x} : SameFor(c, d, y)
  <1>1. Base(d) = Base(c) /\ Now(d) = Now(c) /\ \A y : About(d, y) = About(c, y)
    BY DEF MeshStep, Base, Now, About
  <1>2. ASSUME NEW y \in Kind \ {x} PROVE SameFor(c, d, y)
    <2>1. ASSUME NEW j \in Chare
          PROVE  /\ j \in Senders(d, y) <=> j \in Senders(c, y)
                 /\ j \in Takers(d, y) <=> j \in Takers(c, y)
                 /\ j \in Zeroed(d, y) <=> j \in Zeroed(c, y)
      <3>1. CASE y \in StepKind
        <4>1. y \notin {"lhs", "vol"}
          BY <3>1 DEF StepKind, MeshKind
        <4>2. CASE c.round = 0
          <5>1. c.round = 0 /\ d.round = 0
            BY <4>2 DEF MeshStep
          <5> QED BY <4>1, <5>1 DEF Senders, Takers, Zeroed
        <4>3. CASE c.round # 0
          <5>1. d.round = c.round /\ d.stage = c.stage
            BY <4>3 DEF MeshStep
          <5> QED BY <4>1, <5>1 DEF Senders, Takers, Zeroed
        <4> QED BY <4>2, <4>3
      <3>2. CASE y = "lhs"
        <4>1. x = "vol" /\ d.stage = c.stage /\ d.round = c.round /\ d.ref = c.ref /\ d.lhs[j] = c.lhs[j]
          BY <3>2 DEF MeshStep
        <4>2. "lhs" \notin StepKind /\ "lhs" \notin Emptied
          BY DEF StepKind, MeshKind, Emptied
        <4> QED BY <3>2, <4>1, <4>2 DEF Senders, Takers, Zeroed
      <3>3. CASE y = "vol"
        <4>1. x = "lhs" /\ d.ref = c.ref /\ d.vol[j] = c.vol[j]
          BY <3>3 DEF MeshStep
        <4>2. "vol" \notin StepKind /\ "vol" \notin Emptied
          BY DEF StepKind, MeshKind, Emptied
        <4> QED BY <3>3, <4>1, <4>2 DEF Senders, Takers, Zeroed
      <3> QED BY <3>1, <3>2, <3>3, KindIs, AboutIs
    <2> QED BY <1>1, <2>1, SameForIf
  <1> QED BY <1>1, <1>2

\* The rest of the invariant is what is left to show.
LEMMA MeshStepInv ==
  ASSUME NEW c, StepsInv(c), NEW d \in Config, NEW i \in Chare, NEW x, MeshStep(c, d, x, i), CharmShape',
         Waits(d)', Traded(d, x)', \A k \in Past(d, x) : Nbr[k] \subseteq Senders(d, x),
         Stages(d)', Diagnosing(d), Remeshing(d), Expects(d)', Contributions(d)', Ends(d)', VolumesOf(d, i)'
  PROVE  StepsInv(d)'
  <1>1. /\ c \in Config /\ Shape /\ Stages(c) /\ Diagnosing(c) /\ Remeshing(c) /\ Ahead(c) /\ Counters(c)
        /\ Expects(c) /\ Contributions(c) /\ Ends(c) /\ Exchanges(c) /\ Waits(c) /\ Volumes(c) /\ Outputs(c)
    BY PartsOfInv
  <1>2. /\ Base(d) = Base(c) /\ Now(d) = Now(c) /\ \A y : About(d, y) = About(c, y)
        /\ \A y \in Kind \ {x} : SameFor(c, d, y)
    BY <1>1, MeshStepFor
  <1>3. /\ UNCHANGED <<it, itr, itf, lastDump, refined, finished, count, buf>> /\ x \in {"lhs", "vol"}
        /\ d.round = c.round /\ d.ref = c.ref /\ d.mesh = c.mesh
    BY DEF MeshStep
  <1>4. Shape'
    <2>1. ASSUME NEW j \in Chare, NEW y \in Kind PROVE field'[j][y] \subseteq Parts /\ buf'[j][y] \subseteq Parts
      <3>1. field[j][y] \subseteq Parts /\ buf[j][y] \subseteq Parts
        BY <1>1 DEF Shape
      <3> QED BY <1>3, <3>1 DEF MeshStep
    <2>2. count' \in [Chare -> [Kind -> Nat]] /\ buf' = [j \in Chare |-> [y \in Kind |-> buf'[j][y]]]
      BY <1>1, <1>3 DEF Shape, NodeShape
    <2>3. field' = [j \in Chare |-> [y \in Kind |-> field'[j][y]]]
      BY DEF MeshStep
    <2> QED BY <1>1, <1>3, <2>1, <2>2, <2>3, ShapeOn
  <1>5. Exchanges(d)'
    <2>1. ASSUME NEW y \in Kind PROVE Traded(d, y)'
      <3>1. CASE y = x
        BY <3>1
      <3>2. CASE y # x
        <4>1. Untouched(y)
          BY <1>3, <3>2 DEF MeshStep, Untouched
        <4> QED BY <1>1, <1>2, <3>2, <4>1, TradedKept DEF Exchanges
      <3> QED BY <3>1, <3>2
    <2>2. \A y \in Kind \cap {"rhs", "dif"} : \A j \in Chare \ Takers(d, y) : buf'[j][y] = {}
      <3>1. \A y \in Kind \cap {"rhs", "dif"} : Takers(d, y) = Takers(c, y)
        BY <1>2, <1>3, KindIs DEF SameFor
      <3> QED BY <1>1, <1>3, <3>1 DEF Exchanges
    <2>3. d.mesh >= 3 => OfKind("vol")' = {}
      BY <1>1, <1>3 DEF Exchanges, MeshStep
    <2> QED BY <2>1, <2>2, <2>3 DEF Exchanges
  <1>6. Ahead(d)
    <2> SUFFICES ASSUME NEW y \in Kind, NEW k \in Past(d, y) PROVE Nbr[k] \subseteq Senders(d, y)
      BY DEF Ahead
    <2>1. CASE y = x
      BY <2>1
    <2>2. CASE y # x
      <3>1. Senders(d, y) = Senders(c, y)
        BY <1>2, <2>2 DEF SameFor
      <3>2. k \in Chare
        BY PastAre
      <3>3. k \in Past(c, y)
        <4>1. CASE y \in StepKind
          <5>1. y \notin {"lhs", "vol"}
            BY <4>1 DEF StepKind, MeshKind
          <5> QED BY <1>3, <3>2, <4>1, <5>1 DEF Past, MeshStep
        <4>2. CASE y = "lhs"
          <5>1. x = "vol" /\ d.stage = c.stage /\ d.lhs[k] = c.lhs[k] /\ "lhs" \notin StepKind
            BY <1>3, <2>2, <3>2, <4>2 DEF MeshStep, StepKind, MeshKind
          <5> QED BY <1>3, <3>2, <4>2, <5>1 DEF Past
        <4>3. CASE y = "vol"
          <5>1. x = "lhs" /\ d.vol[k] = c.vol[k] /\ "vol" \notin StepKind
            BY <1>3, <2>2, <3>2, <4>3 DEF MeshStep, StepKind, MeshKind
          <5> QED BY <1>3, <3>2, <4>3, <5>1 DEF Past
        <4> QED BY <4>1, <4>2, <4>3, KindIs, AboutIs
      <3> QED BY <1>1, <3>1, <3>3 DEF Ahead
    <2> QED BY <2>1, <2>2
  <1>7. Counters(d)'
    <2>1. \A j \in Chare : Made(d, j) <=> Made(c, j)
      BY <1>3 DEF Made, MeshStep
    <2> QED BY <1>1, <1>2, <1>3, <2>1 DEF Counters
  <1>8. Volumes(d)'
    <2> SUFFICES ASSUME NEW j \in Chare \ {i} PROVE VolumesOf(d, j)'
      BY DEF Volumes
    <2>1. VolumesOf(c, j)
      BY <1>1 DEF Volumes
    <2>2. d.stage[j] = c.stage[j] /\ d.lhs[j] = c.lhs[j] /\ d.vol[j] = c.vol[j] /\ \A y \in Kind : field'[j][y] = field[j][y]
      BY DEF MeshStep
    <2>3. StepKind \subseteq Kind /\ "lhs" \in Kind /\ "vol" \in Kind
      BY StageIs, KindIs
    <2> QED BY <1>2, <1>3, <2>1, <2>2, <2>3 DEF VolumesOf
  <1>9. Outputs(d)'
    <2>1. c.stage[i] \in 0 .. 17 /\ d.stage[i] \in 0 .. 17
      BY <1>1, ConfigIs
    <2>2. d.stage = c.stage \/ (c.round = 0 /\ c.stage[i] >= 3 /\ d.stage[i] >= 3)
      BY DEF MeshStep
    <2>3. \A j \in Chare \ {i} : d.stage[j] = c.stage[j]
      BY DEF MeshStep
    <2>4. CASE d.stage = c.stage
      BY <1>1, <1>3, <2>4 DEF Outputs
    <2>5. CASE c.round = 0 /\ c.stage[i] >= 3 /\ d.stage[i] >= 3
      BY <1>1, <1>3, <2>3, <2>5 DEF Outputs
    <2> QED BY <2>2, <2>4, <2>5
  <1> QED BY <1>4, <1>5, <1>6, <1>7, <1>8, <1>9 DEF StepsInv, Levels

\* Chare i sends its left-hand side.
LhsSent(c, d, i) ==
  /\ d.round = c.round /\ \A j \in Chare \ {i} : d.stage[j] = c.stage[j] /\ d.lhs[j] = c.lhs[j]
  /\ IF c.round = 0 THEN c.stage[i] = 4 /\ d.stage[i] = 5 /\ d.lhs = c.lhs
                     ELSE c.lhs[i] = 1 /\ c.stage[i] = 11 /\ d.lhs[i] = 2 /\ d.stage = c.stage

\* Contributions to fields post nothing.
LEMMA SendsPosts == ASSUME NEW i, NEW x PROVE Sends(i, x).posts = {}
  BY PostsFacts DEF Sends

\* ALECG::init, lhs, DiagCG::init, lhs: chare i sends its left-hand side.
LEMMA LhsKeeps ==
  ASSUME NEW c, StepsInv(c), NEW m \in msgs, NEW i, i = m.to, Is(m, "init", i) \/ Is(m, "lhs", i),
         Take(i, m, Sends(i, "lhs")), UNCHANGED <<stepVars, fileVars, refined, buf, count>>,
         field' = [j \in Chare |-> [x \in Kind |-> field'[j][x]]],
         \A j \in Chare, x \in Kind : j # i \/ x # "lhs" => field'[j][x] = field[j][x],
         field'[i]["lhs"] \subseteq field[i]["lhs"] \cup {Part(i, "lhs")}
  PROVE  /\ \E d : StepsInv(d)' /\ LhsSent(c, d, i)
         /\ i \in Chare /\ Part(i, "lhs") = PartOf(i, OfMesh(Now(c))) /\ Part(i, "lhs") \in Parts
  <1> DEFINE e == Sends(i, "lhs")
  <1>1. /\ c \in Config /\ Shape /\ Stages(c) /\ Diagnosing(c) /\ Remeshing(c) /\ Ahead(c) /\ Counters(c)
        /\ Expects(c) /\ Contributions(c) /\ Ends(c) /\ Exchanges(c) /\ Waits(c) /\ Volumes(c) /\ Outputs(c)
    BY PartsOfInv
  <1>2. /\ Take(i, m, e) /\ m.type \in {"init", "lhs"}
        /\ UNCHANGED <<it, itr, itf, lastDump, refined, finished, count, buf>>
    BY DEF Is, stepVars, fileVars
  <1>3. i \in Chare /\ m = [type |-> m.type, to |-> i] /\ Expected(c, m.type, i)
    BY <1>1, <1>2 DEF Expects
  <1>4. /\ e.calls = ComCalls(i, "lhs")
        /\ e.triggers = {own("lhs")} \cup (IF Nbr[i] = {} THEN {com("lhs")} ELSE {})
        /\ \A a : TargetsOn(a, e) = <<>>
        /\ \A n \in e.calls : n.type = "com" /\ n.kind = "lhs"
        /\ e.posts = {}
    BY <1>3, SendsFacts, SendsPosts
  <1> HIDE DEF e
  <1>5. /\ CharmShape' /\ msgs' = (msgs \ {m}) \cup e.calls
        /\ \A k \in Object, t \in Trigger :
             trigger'[k][t] = IF k = i /\ t \in e.triggers THEN trigger[k][t] + 1 ELSE trigger[k][t]
        /\ \A a \in Array, j \in Chare :
             contrib'[a][j] = IF j = i THEN contrib[a][j] \o TargetsOn(a, e) ELSE contrib[a][j]
        /\ \A k \in Object, w \in Wait : Due(k, w)' = IF k = i /\ w \in e.posts THEN Due(k, w) + 1 ELSE Due(k, w)
    <2>1. CharmShape /\ i \in Object
      BY <1>1, <1>3, ObjectFacts DEF Shape
    <2> QED BY <1>2, <2>1, TakeFacts
  <1>6. \A x : OfKind(x)' = IF x \in {"lhs"} THEN OfKind(x) \cup ComCalls(i, x) ELSE OfKind(x)
    <2>1. \A n : n.type = "com" => (n \in msgs' <=> n \in msgs \/ \E y \in {"lhs"} : n \in ComCalls(i, y))
      BY <1>2, <1>4, <1>5
    <2> QED BY <1>3, <2>1, OfKindSends
  <1>7. \/ m.type = "init" /\ c.round = 0 /\ c.stage[i] = 4 /\ c.started
        \/ m.type = "lhs" /\ c.round > 0 /\ c.lhs[i] = 1 /\ c.stage[i] = 11 /\ c.ref[i] = 3 /\ c.mesh >= 2 /\ Refines(c.round)
    <2>1. CASE m.type = "init"
      <3>1. c.stage[i] = 4
        BY <1>3, <2>1 DEF Expected
      <3>2. c.round \in Nat /\ (c.round = 0 \/ c.round > 0)
        BY <1>1, ConfigIs
      <3>3. c.round = 0
        BY <1>1, <1>3, <3>1, <3>2 DEF Stages
      <3>4. c.started
        BY <1>1, <1>3, <3>1, <3>3 DEF Stages
      <3> QED BY <2>1, <3>1, <3>3, <3>4
    <2>2. CASE m.type = "lhs"
      <3>1. c.lhs[i] = 1
        BY <1>3, <2>2 DEF Expected
      <3>2. c.mesh >= 2
        BY <1>1, <1>3, <3>1, ConfigIs DEF Remeshing
      <3>3. c.ref[i] = 3 /\ Made(c, i) /\ Refines(c.round)
        BY <1>1, <1>3, <3>2, ConfigIs DEF Remeshing
      <3>4. ~ (c.stage[i] >= 12)
        BY <1>1, <1>3, <3>1, <3>3 DEF Remeshing
      <3>5. c.round > 0 /\ c.stage[i] >= 11
        BY <3>3 DEF Made
      <3>6. c.stage[i] \in 0 .. 17
        BY <1>1, <1>3, ConfigIs
      <3>7. c.stage[i] = 11
        BY <3>4, <3>5, <3>6
      <3> QED BY <2>2, <3>1, <3>2, <3>3, <3>5, <3>7
    <2> QED BY <1>2, <2>1, <2>2
  <1>8. /\ Part(i, "lhs") = PartOf(i, About(c, "lhs")) /\ Part(i, "lhs") \in Parts
        /\ ComCalls(i, "lhs") = {ComCall("lhs", About(c, "lhs"), i, j) : j \in Nbr[i]}
    <2>1. Part(i, "lhs") = PartOf(i, About(c, "lhs")) /\ Part(i, "lhs") \in Parts
      BY <1>1, <1>3, <1>7, OwnPart
    <2> QED BY <1>3, <2>1, OwnCalls
  <1>9. field'[i]["lhs"] \subseteq Parts
    <2>1. field[i]["lhs"] \subseteq Parts
      BY <1>1, <1>3, KindIs DEF Shape
    <2> QED BY <1>8, <2>1
  <1>10. /\ \A j \in Chare : /\ trigger'[j][own("lhs")] = IF j = i THEN trigger[j][own("lhs")] + 1 ELSE trigger[j][own("lhs")]
                             /\ trigger'[j][com("lhs")] = IF j = i /\ Nbr[i] = {} THEN trigger[j][com("lhs")] + 1
                                                                                 ELSE trigger[j][com("lhs")]
         /\ \A y \in Kind \ {"lhs", "vol"}, j \in Chare :
              trigger'[j][own(y)] = trigger[j][own(y)] /\ trigger'[j][com(y)] = trigger[j][com(y)]
         /\ \A y \in {"diag", "ref", "lhs", "resize", "disc", "work"}, o \in Object : trigger'[o][done(y)] = trigger[o][done(y)]
    <2>1. "lhs" \in Kind
      BY KindIs
    <2>2. own("lhs") \in e.triggers /\ (com("lhs") \in e.triggers <=> Nbr[i] = {})
      BY <1>4, TriggersDiffer
    <2>3. \A y \in Kind \ {"lhs", "vol"} : own(y) \notin e.triggers /\ com(y) \notin e.triggers
      BY <1>4, TriggersDiffer
    <2>4. \A y \in {"diag", "ref", "lhs", "resize", "disc", "work"} : done(y) \notin e.triggers
      BY <1>4, TriggersDiffer
    <2>5. \A y \in Kind \ {"lhs", "vol"}, j \in Chare :
            trigger'[j][own(y)] = trigger[j][own(y)] /\ trigger'[j][com(y)] = trigger[j][com(y)]
      BY <1>5, <2>3, TriggerFacts, ObjectFacts
    <2>6. \A y \in {"diag", "ref", "lhs", "resize", "disc", "work"}, o \in Object : trigger'[o][done(y)] = trigger[o][done(y)]
      BY <1>5, <2>4, TriggerFacts
    <2>7. own("lhs") \in Trigger /\ com("lhs") \in Trigger
      BY <2>1, TriggerFacts
    <2> QED BY <1>5, <2>2, <2>5, <2>6, <2>7, ObjectFacts
  <1>11. \A a \in Array, j \in Chare : contrib'[a][j] = contrib[a][j]
    <2>1. Adds(i, e)
      BY <1>5 DEF Adds
    <2> QED BY <1>1, <1>4, <2>1, NoTargets
  <1>12. PICK d \in Config :
           /\ d.round = c.round /\ d.diag = c.diag /\ d.ref = c.ref /\ d.vol = c.vol
           /\ d.mesh = c.mesh /\ d.started = c.started /\ d.diagnosed = c.diagnosed
           /\ d.disc = c.disc /\ d.work = c.work
           /\ \A j \in Chare \ {i} : d.stage[j] = c.stage[j] /\ d.lhs[j] = c.lhs[j]
           /\ IF m.type = "init" THEN d.stage[i] = 5 /\ d.lhs = c.lhs ELSE d.lhs[i] = 2 /\ d.stage = c.stage
    <2> DEFINE s == IF m.type = "init" THEN [c.stage EXCEPT ![i] = 5] ELSE c.stage
               l == IF m.type = "init" THEN c.lhs ELSE [c.lhs EXCEPT ![i] = 2]
    <2>1. c.stage \in [Chare -> 0 .. 17] /\ c.lhs \in [Chare -> 0 .. 3] /\ c.diag \in [Chare -> 0 .. 3]
          /\ c.ref \in [Chare -> 0 .. 3] /\ c.vol \in [Chare -> 0 .. 6]
      BY <1>1, ConfigIs
    <2>2. s \in [Chare -> 0 .. 17] /\ l \in [Chare -> 0 .. 3]
      BY <1>3, <2>1
    <2>3. /\ \A j \in Chare \ {i} : s[j] = c.stage[j] /\ l[j] = c.lhs[j]
          /\ IF m.type = "init" THEN s[i] = 5 /\ l = c.lhs ELSE l[i] = 2 /\ s = c.stage
      BY <1>3, <2>1
    <2> HIDE DEF s, l
    <2>4. \E d \in Config : Becomes(c, d, s, c.diag, c.ref, l, c.vol)
      BY <1>1, <2>1, <2>2, ConfigSet
    <2> QED BY <2>3, <2>4 DEF Becomes
  <1>13. MeshStep(c, d, "lhs", i)
    <2>1. d.stage = c.stage \/ (c.round = 0 /\ c.stage[i] >= 3 /\ d.stage[i] >= 3)
      BY <1>7, <1>12
    <2>2. \A y \in Kind \ {"lhs"} : OfKind(y)' = OfKind(y)
      BY <1>6
    <2>3. OfKind("vol")' = OfKind("vol")
      BY <1>6
    <2> QED BY <1>2, <1>9, <1>10, <1>12, <2>1, <2>2, <2>3 DEF MeshStep
  <1>14. /\ Base(d) = Base(c) /\ Now(d) = Now(c) /\ \A y : About(d, y) = About(c, y)
         /\ \A y \in Kind \ {"lhs"} : SameFor(c, d, y)
    BY <1>1, <1>3, <1>13, MeshStepFor
  <1>15. /\ \A j \in Chare : /\ j \in Senders(d, "lhs") <=> j \in Senders(c, "lhs") \/ j = i
                             /\ j \in Takers(d, "lhs") <=> j \in Takers(c, "lhs")
                             /\ j \in Past(d, "lhs") <=> j \in Past(c, "lhs")
         /\ i \notin Senders(c, "lhs") /\ i \notin Past(c, "lhs") /\ i \in Takers(c, "lhs")
    <2>1. CASE m.type = "init"
      <3>1. /\ d.round = 0 /\ c.round = 0 /\ d.stage[i] = 5 /\ c.stage[i] = 4
            /\ \A j \in Chare \ {i} : d.stage[j] = c.stage[j]
        BY <1>7, <1>12, <2>1
      <3>2. \A j \in Chare : /\ j \in Senders(d, "lhs") <=> d.stage[j] >= 5
                             /\ j \in Senders(c, "lhs") <=> c.stage[j] >= 5
                             /\ j \in Takers(d, "lhs") <=> d.stage[j] <= 5
                             /\ j \in Takers(c, "lhs") <=> c.stage[j] <= 5
                             /\ j \in Past(d, "lhs") <=> d.stage[j] > 5
                             /\ j \in Past(c, "lhs") <=> c.stage[j] > 5
        BY <3>1, SendersAre, TakersAre, PastAre
      <3> QED BY <1>3, <3>1, <3>2
    <2>2. CASE m.type = "lhs"
      <3>1. /\ d.round = c.round /\ c.round > 0 /\ d.lhs[i] = 2 /\ c.lhs[i] = 1 /\ c.ref[i] = 3 /\ d.ref = c.ref
            /\ \A j \in Chare \ {i} : d.lhs[j] = c.lhs[j]
        BY <1>7, <1>12, <2>2
      <3>2. \A j \in Chare : /\ j \in Senders(d, "lhs") <=> d.lhs[j] >= 2
                             /\ j \in Senders(c, "lhs") <=> c.lhs[j] >= 2
                             /\ j \in Takers(d, "lhs") <=> d.ref[j] = 3 /\ d.lhs[j] <= 2
                             /\ j \in Takers(c, "lhs") <=> c.ref[j] = 3 /\ c.lhs[j] <= 2
                             /\ j \in Past(d, "lhs") <=> d.lhs[j] = 3
                             /\ j \in Past(c, "lhs") <=> c.lhs[j] = 3
        BY <3>1, SendersAre, TakersAre, PastAre
      <3> QED BY <1>3, <3>1, <3>2
    <2> QED BY <1>2, <2>1, <2>2
  <1>16. Traded(d, "lhs")'
    <2>1. Nbr[i] \subseteq Takers(c, "lhs")
      <3>1. \A j \in Nbr[i] : j \in Chare /\ j \notin Past(c, "lhs")
        BY <1>1, <1>3, <1>15, NbrsWait, KindIs
      <3>2. CASE c.round = 0
        <4>1. \A j \in Chare : c.stage[j] \in 0 .. 17
          BY <1>1, ConfigIs
        <4>2. \A j \in Chare : (j \in Past(c, "lhs") <=> c.stage[j] > 5) /\ (j \in Takers(c, "lhs") <=> c.stage[j] <= 5)
          BY <3>2, PastAre, TakersAre
        <4> QED BY <3>1, <4>1, <4>2
      <3>3. CASE c.round > 0
        <4>1. \A j \in Chare : c.ref[j] = 3 /\ c.lhs[j] \in 0 .. 3
          BY <1>1, <1>7, <3>3, ConfigIs DEF Remeshing
        <4> QED BY <3>1, <3>3, <4>1, PastAre, TakersAre
      <3> QED BY <1>1, <3>2, <3>3, ConfigIs
    <2>2. Senders(d, "lhs") = Senders(c, "lhs") \cup {i} /\ Takers(d, "lhs") = Takers(c, "lhs")
      BY <1>3, <1>15, ZeroedAre
    <2>3. Zeroed(d, "lhs") = Zeroed(c, "lhs")
      BY <2>2, ZeroedAre
    <2>4. SendsFor(c, d, "lhs", i)
      BY <1>2, <1>6, <1>8, <1>10, <1>14, <1>15, <2>1, <2>2, <2>3 DEF SendsFor
    <2>5. Traded(c, "lhs")
      BY <1>1, KindIs DEF Exchanges
    <2> QED BY <1>3, <2>4, <2>5, TradedSends
  <1>17. \A k \in Past(d, "lhs") : Nbr[k] \subseteq Senders(d, "lhs")
    <2>1. \A k \in Past(c, "lhs") : Nbr[k] \subseteq Senders(c, "lhs")
      BY <1>1, KindIs DEF Ahead
    <2> QED BY <1>15, <2>1, PastAre, ZeroedAre
  <1>18. Stages(d)'
    BY <1>1, <1>2, <1>3, <1>7, <1>12 DEF Stages
  <1>19. Diagnosing(d) /\ Remeshing(d)
    <2>1. CASE m.type = "init"
      BY <1>1, <1>7, <1>12, <2>1 DEF Diagnosing, Remeshing, Made
    <2>2. CASE m.type = "lhs"
      BY <1>1, <1>7, <1>12, <2>2 DEF Diagnosing, Remeshing, Made
    <2> QED BY <1>2, <2>1, <2>2
  <1>20. Expects(d)'
    <2>1. \A n \in msgs' \ msgs : n.type = "com" /\ n.kind \in Kind
      BY <1>4, <1>5, KindIs
    <2>2. ASSUME NEW n \in msgs' \cap msgs
          PROVE  /\ Plain(n) /\ Expected(c, n.type, n.to) => Expected(d, n.type, n.to)
                 /\ n.type = "write" => d.stage[n.to] = c.stage[n.to]
      <3>1. n # m
        BY <1>2, <1>4, <1>5, <2>2
      <3>2. ASSUME Plain(n), Expected(c, n.type, n.to) PROVE Expected(d, n.type, n.to)
        <4>1. n.to \in Chare /\ n = [type |-> n.type, to |-> n.to]
          BY <1>1, <3>2 DEF Expects, Plain
        <4>2. n.to = i => n.type # m.type
          BY <1>3, <3>1, <4>1
        <4>3. CASE n.to # i
          BY <1>12, <3>2, <4>1, <4>3 DEF Expected
        <4>4. CASE n.to = i
          BY <1>2, <1>7, <1>12, <3>2, <4>2, <4>4 DEF Expected
        <4> QED BY <4>3, <4>4
      <3>3. ASSUME n.type = "write" PROVE d.stage[n.to] = c.stage[n.to]
        <4>1. n.to \in Chare /\ c.stage[n.to] \in {3, 12}
          BY <1>1, <3>3 DEF Expects
        <4> QED BY <1>7, <1>12, <4>1
      <3> QED BY <3>2, <3>3
    <2>3. ExpectsOn(c, d)
      BY <2>1, <2>2 DEF ExpectsOn, Plain
    <2> QED BY <1>1, <2>3, ExpectsGoOn
  <1>21. Contributions(d)'
    <2> SUFFICES ASSUME NEW j \in Chare PROVE ContributedBy(d, j)'
      BY DEF Contributions
    <2>1. \A a \in {"worker", "refiner", "disc", "sync"} : contrib'[a][j] = contrib[a][j]
      BY <1>11 DEF Array
    <2>2. Complete("vol", About(d, "vol"), Senders(d, "vol"), j)' = Complete("vol", About(c, "vol"), Senders(c, "vol"), j)
      <3>1. OfKind("vol")' = OfKind("vol") /\ About(d, "vol") = About(c, "vol") /\ Senders(d, "vol") = Senders(c, "vol")
        BY <1>6, <1>14, KindIs DEF SameFor
      <3> QED BY <3>1, VolKept
    <2>3. ContributedBy(c, j)
      BY <1>1 DEF Contributions
    <2>4. \A k \in {1, 14, 16, 17} : d.stage[j] = k <=> c.stage[j] = k
      BY <1>7, <1>12
    <2> QED BY <1>2, <1>12, <2>1, <2>2, <2>3, <2>4 DEF ContributedBy
  <1>22. Ends(d)'
    <2>1. \A j \in Chare, y \in {"diag", "ref", "lhs", "resize"} : Ended(c, j, y) => Ended(d, j, y)
      BY <1>7, <1>12 DEF Ended, Made
    <2>2. Ending(c, d)
      BY <1>10, <1>12, <2>1, ObjectFacts DEF Ending
    <2> QED BY <1>1, <2>2, EndingEnds
  <1>23. VolumesOf(d, i)'
    <2>1. VolumesOf(c, i) /\ field'[i]["vol"] = field[i]["vol"]
      BY <1>1, <1>3, KindIs DEF Volumes
    <2> QED BY <1>12, <1>14, <2>1 DEF VolumesOf
  <1>25. Waits(d)'
    <2> SUFFICES ASSUME NEW j \in Chare, NEW w \in Wait PROVE Due(j, w)' = IF j \in Open(d, w) THEN 1 ELSE 0
      BY DEF Waits, Open
    <2>1. Due(j, w)' = IF j \in Open(c, w) THEN 1 ELSE 0
      BY <1>1, <1>4, <1>5, ObjectFacts DEF Waits
    <2>2. CASE j # i
      BY <1>12, <2>1, <2>2 DEF Open
    <2>3. CASE j = i /\ m.type = "init"
      BY <1>7, <1>12, <2>1, <2>3 DEF Open
    <2>4. CASE j = i /\ m.type = "lhs"
      BY <1>7, <1>12, <2>1, <2>4 DEF Open
    <2> QED BY <1>2, <2>2, <2>3, <2>4
  <1>24. StepsInv(d)'
    BY <1>3, <1>5, <1>12, <1>13, <1>16, <1>17, <1>18, <1>19, <1>20, <1>21, <1>22, <1>23, <1>25, MeshStepInv
  <1>26. LhsSent(c, d, i)
    BY <1>2, <1>7, <1>12 DEF LhsSent
  <1> QED BY <1>3, <1>8, <1>24, <1>26, AboutIs

-----------------------------------------------------------------------------
\* Discretization::vol: chare i computes the volumes on its mesh and sends them.
LEMMA VolKeeps ==
  ASSUME NEW c, StepsInv(c), NEW m \in msgs, NEW i, i = m.to, Vol(i, m)
  PROVE  \E d : StepsInv(d)' /\ Alongside(c, d)
  <1> DEFINE e == IF Nbr[i] = {} THEN Contributes("disc", "vol") ELSE Calls(ComCalls(i, "vol"))
  <1>1. /\ c \in Config /\ Shape /\ Stages(c) /\ Diagnosing(c) /\ Remeshing(c) /\ Ahead(c) /\ Counters(c)
        /\ Expects(c) /\ Contributions(c) /\ Ends(c) /\ Exchanges(c) /\ Waits(c) /\ Volumes(c) /\ Outputs(c)
    BY PartsOfInv
  <1>2. /\ Take(i, m, e) /\ m.type = "vol"
        /\ field' = [field EXCEPT ![i] = Accumulate(field[i], i, {"vol"})]
        /\ UNCHANGED <<it, itr, itf, lastDump, refined, finished, count, buf>>
    BY DEF Vol, Is, stepVars, fileVars
  <1>3. i \in Chare /\ m = [type |-> "vol", to |-> i] /\ c.vol[i] = 1
    BY <1>1, <1>2 DEF Expects, Expected
  <1>4. /\ e.calls = ComCalls(i, "vol") /\ e.triggers = {}
        /\ \A a : TargetsOn(a, e) = IF Nbr[i] = {} /\ a = "disc" THEN <<"vol">> ELSE <<>>
        /\ \A n \in e.calls : n.type = "com" /\ n.kind = "vol"
        /\ e.posts = {}
    <2>1. Nbr[i] = {} => ComCalls(i, "vol") = {}
      BY DEF ComCalls
    <2>2. \A n \in ComCalls(i, "vol") : n.type = "com" /\ n.kind = "vol"
      BY <1>3, SendsFacts
    <2>3. CASE Nbr[i] = {}
      BY <2>1, <2>3, EffectFacts, PostsFacts
    <2>4. CASE Nbr[i] # {}
      <3>1. e = Calls(ComCalls(i, "vol"))
        BY <2>4
      <3> HIDE DEF e
      <3> QED BY <2>2, <2>4, <3>1, EffectFacts, PostsFacts
    <2> QED BY <2>3, <2>4
  <1> HIDE DEF e
  <1>5. /\ CharmShape' /\ msgs' = (msgs \ {m}) \cup e.calls
        /\ \A k \in Object, t \in Trigger : trigger'[k][t] = trigger[k][t]
        /\ \A a \in Array, j \in Chare :
             contrib'[a][j] = IF j = i THEN contrib[a][j] \o TargetsOn(a, e) ELSE contrib[a][j]
        /\ \A k \in Object, w \in Wait : Due(k, w)' = IF k = i /\ w \in e.posts THEN Due(k, w) + 1 ELSE Due(k, w)
    <2>1. CharmShape /\ i \in Object
      BY <1>1, <1>3, ObjectFacts DEF Shape
    <2> QED BY <1>2, <1>4, <2>1, TakeFacts
  <1>6. \A x : OfKind(x)' = IF x \in {"vol"} THEN OfKind(x) \cup ComCalls(i, x) ELSE OfKind(x)
    <2>1. \A n : n.type = "com" => (n \in msgs' <=> n \in msgs \/ \E y \in {"vol"} : n \in ComCalls(i, y))
      BY <1>2, <1>4, <1>5
    <2> QED BY <1>3, <2>1, OfKindSends
  <1>7. /\ c.mesh = 2 /\ c.round > 0 /\ c.stage[i] = 11 /\ c.disc /\ c.work /\ Refines(c.round) /\ Made(c, i)
        /\ \A j \in Chare : c.ref[j] = 3 /\ c.vol[j] \in {1, 2}
    <2>1. c.mesh = 2
      <3>1. c.mesh \in 0 .. 4
        BY <1>1, ConfigIs
      <3>2. c.vol[i] \in CASE c.mesh < 2 -> {0} [] c.mesh = 2 -> {1, 2} [] c.mesh = 3 -> {3, 4} [] OTHER -> {5, 6}
        BY <1>1, <1>3 DEF Remeshing
      <3> QED BY <1>3, <3>1, <3>2
    <2>2. Made(c, i) /\ Refines(c.round) /\ c.disc /\ c.work
      BY <1>1, <1>3, <2>1 DEF Remeshing
    <2>3. \A j \in Chare : c.ref[j] = 3 /\ c.vol[j] \in {1, 2}
      BY <1>1, <2>1 DEF Remeshing
    <2>4. ~ (c.stage[i] >= 12)
      BY <1>1, <1>3, <2>2 DEF Remeshing
    <2> QED BY <1>1, <1>3, <2>1, <2>2, <2>3, <2>4, ConfigIs DEF Made
  <1>8. /\ Part(i, "vol") = PartOf(i, About(c, "vol")) /\ Part(i, "vol") \in Parts
        /\ ComCalls(i, "vol") = {ComCall("vol", About(c, "vol"), i, j) : j \in Nbr[i]}
    <2>1. Part(i, "vol") = PartOf(i, About(c, "vol")) /\ Part(i, "vol") \in Parts
      BY <1>1, <1>3, <1>7, OwnPart
    <2> QED BY <1>3, <2>1, OwnCalls
  <1>9. /\ field' = [j \in Chare |-> [x \in Kind |-> field'[j][x]]]
        /\ field'[i]["vol"] = {Part(i, "vol")}
        /\ \A j \in Chare, x \in Kind : j # i \/ x # "vol" => field'[j][x] = field[j][x]
    <2> DEFINE g == Accumulate(field[i], i, {"vol"})
    <2> HIDE DEF g
    <2>1. g = [x \in Kind |-> g[x]] /\ \A x \in Kind : g[x] = IF x \in {"vol"} THEN field[i][x] \cup {Part(i, x)} ELSE field[i][x]
      BY DEF g, Accumulate
    <2>2. field' = [field EXCEPT ![i] = g] /\ NodeShape
      BY <1>1, <1>2 DEF Shape, g
    <2>3. /\ field' = [j \in Chare |-> [x \in Kind |-> field'[j][x]]]
          /\ \A x \in Kind : field'[i][x] = g[x]
          /\ \A j \in Chare \ {i} : field'[j] = field[j]
      BY <1>3, <2>1, <2>2, FieldSet
    <2>4. field[i]["vol"] = {}
      <3>1. VolumesOf(c, i)
        BY <1>1, <1>3 DEF Volumes
      <3> QED BY <1>3, <1>7, <3>1 DEF VolumesOf
    <2>5. field'[i]["vol"] = {Part(i, "vol")}
      BY <2>1, <2>3, <2>4, KindIs
    <2>6. \A j \in Chare, x \in Kind : j # i \/ x # "vol" => field'[j][x] = field[j][x]
      BY <2>1, <2>3
    <2> QED BY <2>3, <2>5, <2>6
  <1>10. /\ \A y \in Kind \ {"vol"}, j \in Chare :
              trigger'[j][own(y)] = trigger[j][own(y)] /\ trigger'[j][com(y)] = trigger[j][com(y)]
         /\ \A y \in {"diag", "ref", "lhs", "resize", "disc", "work"}, o \in Object : trigger'[o][done(y)] = trigger[o][done(y)]
    BY <1>5, TriggerFacts, ObjectFacts
  <1>12. PICK d \in Config :
           /\ d.round = c.round /\ d.stage = c.stage /\ d.diag = c.diag /\ d.ref = c.ref /\ d.lhs = c.lhs
           /\ d.mesh = c.mesh /\ d.started = c.started /\ d.diagnosed = c.diagnosed
           /\ d.disc = c.disc /\ d.work = c.work
           /\ \A j \in Chare \ {i} : d.vol[j] = c.vol[j]
           /\ d.vol[i] = 2
    <2> DEFINE v == [c.vol EXCEPT ![i] = 2]
    <2>1. c.stage \in [Chare -> 0 .. 17] /\ c.lhs \in [Chare -> 0 .. 3] /\ c.diag \in [Chare -> 0 .. 3]
          /\ c.ref \in [Chare -> 0 .. 3] /\ c.vol \in [Chare -> 0 .. 6]
      BY <1>1, ConfigIs
    <2>2. v \in [Chare -> 0 .. 6] /\ v[i] = 2 /\ \A j \in Chare \ {i} : v[j] = c.vol[j]
      BY <1>3, <2>1
    <2> HIDE DEF v
    <2>3. \E d \in Config : Becomes(c, d, c.stage, c.diag, c.ref, c.lhs, v)
      BY <1>1, <2>1, <2>2, ConfigSet
    <2> QED BY <2>2, <2>3 DEF Becomes
  <1>13. MeshStep(c, d, "vol", i)
    <2>1. \A y \in Kind \ {"vol"} : OfKind(y)' = OfKind(y)
      BY <1>6
    <2>2. field'[i]["vol"] \subseteq Parts
      BY <1>8, <1>9
    <2> QED BY <1>2, <1>7, <1>9, <1>10, <1>12, <2>1, <2>2 DEF MeshStep
  <1>14. /\ Base(d) = Base(c) /\ Now(d) = Now(c) /\ \A y : About(d, y) = About(c, y)
         /\ \A y \in Kind \ {"vol"} : SameFor(c, d, y)
    BY <1>1, <1>3, <1>13, MeshStepFor
  <1>15. /\ Senders(d, "vol") = Senders(c, "vol") \cup {i} /\ i \notin Senders(c, "vol")
         /\ Takers(d, "vol") = Takers(c, "vol") /\ Nbr[i] \subseteq Takers(c, "vol")
         /\ Past(d, "vol") = {}
    <2>1. \A j \in Chare : /\ j \in Senders(d, "vol") <=> j \in Senders(c, "vol") \/ j = i
                           /\ j \in Takers(d, "vol") <=> j \in Takers(c, "vol")
                           /\ j \in Takers(c, "vol") /\ j \notin Past(d, "vol")
      <3>1. \A j \in Chare : /\ j \in Senders(d, "vol") <=> d.vol[j] >= 2
                             /\ j \in Senders(c, "vol") <=> c.vol[j] >= 2
                             /\ j \in Takers(d, "vol") <=> d.ref[j] = 3 /\ d.vol[j] <= 3
                             /\ j \in Takers(c, "vol") <=> c.ref[j] = 3 /\ c.vol[j] <= 3
                             /\ j \in Past(d, "vol") <=> d.vol[j] >= 3
        BY SendersAre, TakersAre, PastAre
      <3> QED BY <1>3, <1>7, <1>12, <3>1
    <2>2. i \notin Senders(c, "vol")
      BY <1>3, SendersAre
    <2>3. Nbr[i] \subseteq Chare
      BY <1>3, NbrFacts
    <2>4. Senders(d, "vol") \subseteq Chare /\ Senders(c, "vol") \subseteq Chare /\ Past(d, "vol") \subseteq Chare
          /\ Takers(d, "vol") \subseteq Chare /\ Takers(c, "vol") \subseteq Chare
      BY ZeroedAre, PastAre, <1>3
    <2> QED BY <1>3, <2>1, <2>2, <2>3, <2>4
  <1>16. /\ Traded(d, "vol")'
         /\ \A k \in Chare : Arrived("vol", About(d, "vol"), Senders(d, "vol"), k)' = Arrived("vol", About(c, "vol"), Senders(c, "vol"), k)
    <2>1. Zeroed(d, "vol") = Zeroed(c, "vol")
      BY <1>15, ZeroedAre
    <2>2. SendsFor(c, d, "vol", i)
      BY <1>2, <1>6, <1>8, <1>14, <1>15, <2>1 DEF SendsFor
    <2>3. Traded(c, "vol")
      BY <1>1, KindIs DEF Exchanges
    <2> QED BY <1>3, <2>2, <2>3, TradedSends
  <1>17. \A k \in Past(d, "vol") : Nbr[k] \subseteq Senders(d, "vol")
    BY <1>15
  <1>18. Stages(d)' /\ Diagnosing(d) /\ Remeshing(d)
    <2>1. Stages(d)' /\ Diagnosing(d)
      BY <1>1, <1>2, <1>12 DEF Stages, Diagnosing, Made
    <2>2. Remeshing(d)
      BY <1>1, <1>7, <1>12 DEF Remeshing, Made
    <2> QED BY <2>1, <2>2
  <1>20. Expects(d)'
    <2>1. \A n \in msgs' \ msgs : n.type = "com" /\ n.kind \in Kind
      BY <1>4, <1>5, KindIs
    <2>2. ASSUME NEW n \in msgs' \cap msgs
          PROVE  /\ Plain(n) /\ Expected(c, n.type, n.to) => Expected(d, n.type, n.to)
                 /\ n.type = "write" => d.stage[n.to] = c.stage[n.to]
      <3>1. n # m
        BY <1>2, <1>4, <1>5, <2>2
      <3>2. ASSUME Plain(n), Expected(c, n.type, n.to) PROVE Expected(d, n.type, n.to)
        <4>1. n.to \in Chare /\ n = [type |-> n.type, to |-> n.to]
          BY <1>1, <3>2 DEF Expects, Plain
        <4>2. n.to = i => n.type # "vol"
          BY <1>3, <3>1, <4>1
        <4>3. CASE n.to # i
          BY <1>12, <3>2, <4>1, <4>3 DEF Expected
        <4>4. CASE n.to = i
          BY <1>3, <1>12, <3>2, <4>2, <4>4 DEF Expected
        <4> QED BY <4>3, <4>4
      <3> QED BY <1>12, <3>2
    <2>3. ExpectsOn(c, d)
      BY <2>1, <2>2 DEF ExpectsOn, Plain
    <2> QED BY <1>1, <2>3, ExpectsGoOn
  <1>21. Contributions(d)'
    <2> SUFFICES ASSUME NEW j \in Chare PROVE ContributedBy(d, j)'
      BY DEF Contributions
    <2>1. ContributedBy(c, j)
      BY <1>1 DEF Contributions
    <2>2. \A a \in {"worker", "refiner", "sync"} : contrib'[a][j] = contrib[a][j]
      <3>1. \A a \in {"worker", "refiner", "sync"} : a \in Array /\ TargetsOn(a, e) = <<>>
        BY <1>4 DEF Array
      <3>2. ASSUME NEW a \in {"worker", "refiner", "sync"} PROVE contrib'[a][j] = contrib[a][j]
        <4>1. contrib[a][j] \o <<>> = contrib[a][j]
          BY <1>1, <3>1, ContribSeq
        <4> QED BY <1>5, <3>1, <4>1
      <3> QED BY <3>2
    <2>3. Complete("vol", About(c, "vol"), Senders(c, "vol"), j) => Complete("vol", About(d, "vol"), Senders(d, "vol"), j)'
      BY <1>15, <1>16 DEF Complete
    <2>4. /\ contrib["disc"][j] \in {<<>>, <<"vol">>}
          /\ contrib["disc"][j] = <<"vol">> => Complete("vol", About(c, "vol"), Senders(c, "vol"), j)
      <3>1. c.stage[j] # 16
        <4>1. c.vol[j] # 6
          BY <1>7
        <4>2. Made(c, j)
          BY <1>1, <1>7 DEF Remeshing
        <4> QED BY <1>1, <1>7, <4>1, <4>2 DEF Remeshing
      <3> QED BY <1>7, <2>1, <3>1 DEF ContributedBy
    <2>5. /\ contrib'["disc"][j] \in {<<>>, <<"vol">>}
          /\ contrib'["disc"][j] = <<"vol">> => Complete("vol", About(d, "vol"), Senders(d, "vol"), j)'
      <3>1. CASE j = i /\ Nbr[i] = {}
        <4>1. ~ Complete("vol", About(c, "vol"), Senders(c, "vol"), i)
          BY <1>15, <3>1 DEF Complete
        <4>2. contrib'["disc"][i] = <<>> \o <<"vol">>
          <5>1. contrib["disc"][i] = <<>> /\ TargetsOn("disc", e) = <<"vol">> /\ "disc" \in Array
            BY <1>4, <2>4, <3>1, <4>1 DEF Array
          <5> QED BY <1>3, <1>5, <5>1
        <4>3. Complete("vol", About(d, "vol"), Senders(d, "vol"), i)'
          <5>1. Arrived("vol", About(d, "vol"), Senders(d, "vol"), i)' = {}
            BY <3>1 DEF Arrived
          <5> QED BY <1>15, <3>1, <5>1 DEF Complete
        <4> QED BY <3>1, <4>2, <4>3, TargetFacts
      <3>2. CASE j # i \/ Nbr[i] # {}
        <4>1. contrib'["disc"][j] = contrib["disc"][j]
          <5>1. "disc" \in Array /\ (j = i => TargetsOn("disc", e) = <<>>)
            BY <1>4, <3>2 DEF Array
          <5>2. contrib["disc"][j] \o <<>> = contrib["disc"][j]
            BY <1>1, <5>1, ContribSeq
          <5> QED BY <1>5, <5>1, <5>2
        <4> QED BY <2>3, <2>4, <4>1
      <3> QED BY <3>1, <3>2
    <2>6. c.stage[j] # 16 /\ d.vol[j] \in {1, 2} /\ c.disc
      <3>1. Made(c, j) /\ c.vol[j] # 6
        BY <1>1, <1>7 DEF Remeshing
      <3>2. c.stage[j] # 16
        BY <1>1, <1>7, <3>1 DEF Remeshing
      <3> QED BY <1>7, <1>12, <3>2
    <2> QED BY <1>2, <1>12, <2>1, <2>2, <2>5, <2>6 DEF ContributedBy
  <1>22. Ends(d)'
    <2>1. \A j \in Chare, y \in {"diag", "ref", "lhs", "resize"} : Ended(c, j, y) => Ended(d, j, y)
      BY <1>7, <1>12 DEF Ended, Made
    <2>2. Ending(c, d)
      BY <1>10, <1>12, <2>1, ObjectFacts DEF Ending
    <2> QED BY <1>1, <2>2, EndingEnds
  <1>23. VolumesOf(d, i)'
    <2>1. VolumesOf(c, i)
      BY <1>1, <1>3 DEF Volumes
    <2>2. /\ field'[i]["vol"] = {PartOf(i, OfMesh(Now(c)))} 
      BY <1>3, <1>8, <1>9, AboutIs, KindIs
    <2>3. d.vol[i] = 2 /\ c.ref[i] = 3
      BY <1>3, <1>7, <1>12
    <2> QED BY <1>12, <1>14, <2>1, <2>2, <2>3 DEF VolumesOf
  <1>26. Alongside(c, d)
    BY <1>12 DEF Alongside
  <1>25. Waits(d)'
    <2>1. ASSUME NEW j \in Chare, NEW w \in Wait PROVE Due(j, w)' = Due(j, w)
      BY <1>4, <1>5, <2>1, ObjectFacts
    <2>2. ASSUME NEW j \in Chare PROVE SameWaits(c, d, j)
      BY <1>12 DEF SameWaits
    <2> QED BY <1>1, <1>26, <2>1, <2>2, WaitsKept
  <1>24. StepsInv(d)'
    BY <1>3, <1>5, <1>12, <1>13, <1>16, <1>17, <1>18, <1>20, <1>21, <1>22, <1>23, <1>25, MeshStepInv
  <1> QED BY <1>24, <1>26
\* Discretization::totalvol: chare i adds the volumes it got.
LEMMA TotalsKeeps ==
  ASSUME NEW c, StepsInv(c), NEW m \in msgs, NEW i, i = m.to, TotalVol(i, m)
  PROVE  \E d : StepsInv(d)' /\ Alongside(c, d)
  <1> DEFINE e == Contributes("disc", "totalvol")
  <1>1. /\ c \in Config /\ Shape /\ Stages(c) /\ Diagnosing(c) /\ Remeshing(c) /\ Ahead(c) /\ Counters(c)
        /\ Expects(c) /\ Contributions(c) /\ Ends(c) /\ Exchanges(c) /\ Waits(c) /\ Volumes(c) /\ Outputs(c)
    BY PartsOfInv
  <1>2. /\ Take(i, m, e) /\ m.type = "totalvol"
        /\ field' = [field EXCEPT ![i] = Combine(i, {"vol"})]
        /\ UNCHANGED <<it, itr, itf, lastDump, refined, finished, count, buf>>
    BY DEF TotalVol, Is, stepVars, fileVars
  <1>3. i \in Chare /\ m = [type |-> "totalvol", to |-> i] /\ c.vol[i] = 3
    BY <1>1, <1>2 DEF Expects, Expected
  <1>4. /\ e.calls = {} /\ e.triggers = {} /\ \A a : TargetsOn(a, e) = IF a = "disc" THEN <<"totalvol">> ELSE <<>>
        /\ e.posts = {}
    BY EffectFacts, PostsFacts
  <1> HIDE DEF e
  <1>5. /\ CharmShape' /\ msgs' = msgs \ {m}
        /\ \A k \in Object, t \in Trigger : trigger'[k][t] = trigger[k][t]
        /\ \A a \in Array, j \in Chare :
             contrib'[a][j] = IF j = i THEN contrib[a][j] \o TargetsOn(a, e) ELSE contrib[a][j]
        /\ \A k \in Object, w \in Wait : Due(k, w)' = IF k = i /\ w \in e.posts THEN Due(k, w) + 1 ELSE Due(k, w)
    <2>1. CharmShape /\ i \in Object
      BY <1>1, <1>3, ObjectFacts DEF Shape
    <2>2. msgs' = (msgs \ {m}) \cup e.calls
      BY <1>2, <2>1, TakeFacts
    <2> QED BY <1>2, <1>4, <2>1, <2>2, TakeFacts
  <1>6. \A x : OfKind(x)' = OfKind(x)
    BY <1>2, <1>5 DEF OfKind
  <1>7. /\ c.mesh = 3 /\ c.round > 0 /\ c.stage[i] = 11 /\ c.disc /\ c.work /\ Refines(c.round) /\ Made(c, i)
        /\ \A j \in Chare : c.ref[j] = 3 /\ c.vol[j] \in {3, 4}
    <2>1. c.mesh = 3
      <3>1. c.mesh \in 0 .. 4
        BY <1>1, ConfigIs
      <3>2. c.vol[i] \in CASE c.mesh < 2 -> {0} [] c.mesh = 2 -> {1, 2} [] c.mesh = 3 -> {3, 4} [] OTHER -> {5, 6}
        BY <1>1, <1>3 DEF Remeshing
      <3> QED BY <1>3, <3>1, <3>2
    <2>2. Made(c, i) /\ Refines(c.round) /\ c.disc /\ c.work
      BY <1>1, <1>3, <2>1 DEF Remeshing
    <2>3. \A j \in Chare : c.ref[j] = 3 /\ c.vol[j] \in {3, 4}
      BY <1>1, <2>1 DEF Remeshing
    <2>4. ~ (c.stage[i] >= 12)
      BY <1>1, <1>3, <2>2 DEF Remeshing
    <2> QED BY <1>1, <1>3, <2>1, <2>2, <2>3, <2>4, ConfigIs DEF Made
  <1>8. /\ Arrived("vol", About(c, "vol"), Senders(c, "vol"), i) = Nbr[i]
        /\ buf[i]["vol"] = PartsOf(Nbr[i], About(c, "vol"))
    <2>1. OfKind("vol") = {} /\ Traded(c, "vol")
      BY <1>1, <1>7, KindIs DEF Exchanges
    <2>2. Nbr[i] \subseteq Senders(c, "vol")
      <3>1. \A j \in Chare : j \in Senders(c, "vol")
        BY <1>7, SendersAre
      <3> QED BY <1>3, <3>1, NbrFacts
    <2>3. \A j : ComCall("vol", About(c, "vol"), j, i) \notin msgs
      BY <2>1, CallsDiffer DEF OfKind
    <2>4. Arrived("vol", About(c, "vol"), Senders(c, "vol"), i) = Nbr[i]
      BY <2>2, <2>3 DEF Arrived
    <2>5. i \in Zeroed(c, "vol")
      BY <1>3, <1>7, ZeroedAre, TakersAre
    <2> QED BY <2>1, <2>4, <2>5 DEF Traded, Exchange
  <1>9. /\ field' = [j \in Chare |-> [x \in Kind |-> field'[j][x]]]
        /\ field'[i]["vol"] = Full(i, OfMesh(Now(c))) /\ field'[i]["vol"] \subseteq Parts
        /\ \A j \in Chare, x \in Kind : j # i \/ x # "vol" => field'[j][x] = field[j][x]
    <2> DEFINE g == Combine(i, {"vol"})
    <2> HIDE DEF g
    <2>1. g = [x \in Kind |-> g[x]] /\ \A x \in Kind : g[x] = IF x \in {"vol"} THEN field[i][x] \cup buf[i][x] ELSE field[i][x]
      BY DEF g, Combine
    <2>2. field' = [field EXCEPT ![i] = g] /\ NodeShape
      BY <1>1, <1>2 DEF Shape, g
    <2>3. /\ field' = [j \in Chare |-> [x \in Kind |-> field'[j][x]]]
          /\ \A x \in Kind : field'[i][x] = g[x]
          /\ \A j \in Chare \ {i} : field'[j] = field[j]
      BY <1>3, <2>1, <2>2, FieldSet
    <2>4. field[i]["vol"] = {PartOf(i, About(c, "vol"))}
      <3>1. VolumesOf(c, i)
        BY <1>1, <1>3 DEF Volumes
      <3> QED BY <1>3, <1>7, <3>1, AboutIs DEF VolumesOf
    <2>5. field'[i]["vol"] = field[i]["vol"] \cup buf[i]["vol"]
      BY <2>1, <2>3, KindIs
    <2>6. field'[i]["vol"] = Full(i, About(c, "vol")) /\ About(c, "vol") = OfMesh(Now(c))
      BY <1>8, <2>4, <2>5, FullIs, AboutIs
    <2>7. field[i]["vol"] \subseteq Parts /\ buf[i]["vol"] \subseteq Parts
      BY <1>1, <1>3, KindIs DEF Shape
    <2> QED BY <2>1, <2>3, <2>5, <2>6, <2>7
  <1>10. /\ \A y \in Kind \ {"vol"}, j \in Chare :
              trigger'[j][own(y)] = trigger[j][own(y)] /\ trigger'[j][com(y)] = trigger[j][com(y)]
         /\ \A y \in {"diag", "ref", "lhs", "resize", "disc", "work"}, o \in Object : trigger'[o][done(y)] = trigger[o][done(y)]
    BY <1>5, TriggerFacts, ObjectFacts
  <1>12. PICK d \in Config :
           /\ d.round = c.round /\ d.stage = c.stage /\ d.diag = c.diag /\ d.ref = c.ref /\ d.lhs = c.lhs
           /\ d.mesh = c.mesh /\ d.started = c.started /\ d.diagnosed = c.diagnosed
           /\ d.disc = c.disc /\ d.work = c.work
           /\ \A j \in Chare \ {i} : d.vol[j] = c.vol[j]
           /\ d.vol[i] = 4
    <2> DEFINE v == [c.vol EXCEPT ![i] = 4]
    <2>1. c.stage \in [Chare -> 0 .. 17] /\ c.lhs \in [Chare -> 0 .. 3] /\ c.diag \in [Chare -> 0 .. 3]
          /\ c.ref \in [Chare -> 0 .. 3] /\ c.vol \in [Chare -> 0 .. 6]
      BY <1>1, ConfigIs
    <2>2. v \in [Chare -> 0 .. 6] /\ v[i] = 4 /\ \A j \in Chare \ {i} : v[j] = c.vol[j]
      BY <1>3, <2>1
    <2> HIDE DEF v
    <2>3. \E d \in Config : Becomes(c, d, c.stage, c.diag, c.ref, c.lhs, v)
      BY <1>1, <2>1, <2>2, ConfigSet
    <2> QED BY <2>2, <2>3 DEF Becomes
  <1>13. MeshStep(c, d, "vol", i)
    BY <1>2, <1>6, <1>7, <1>9, <1>10, <1>12 DEF MeshStep
  <1>14. /\ Base(d) = Base(c) /\ Now(d) = Now(c) /\ \A y : About(d, y) = About(c, y)
         /\ \A y \in Kind \ {"vol"} : SameFor(c, d, y)
    BY <1>1, <1>3, <1>13, MeshStepFor
  <1>15. /\ Senders(d, "vol") = Senders(c, "vol") /\ Senders(c, "vol") = Chare
         /\ Takers(d, "vol") \subseteq Takers(c, "vol") /\ Takers(c, "vol") \ Takers(d, "vol") \subseteq {i}
    <2>1. \A j \in Chare : /\ j \in Senders(d, "vol") /\ j \in Senders(c, "vol")
                           /\ j \in Takers(d, "vol") <=> j \in Takers(c, "vol") /\ j # i
      <3>1. \A j \in Chare : /\ j \in Senders(d, "vol") <=> d.vol[j] >= 2
                             /\ j \in Senders(c, "vol") <=> c.vol[j] >= 2
                             /\ j \in Takers(d, "vol") <=> d.ref[j] = 3 /\ d.vol[j] <= 3
                             /\ j \in Takers(c, "vol") <=> c.ref[j] = 3 /\ c.vol[j] <= 3
        BY SendersAre, TakersAre
      <3> QED BY <1>3, <1>7, <1>12, <3>1
    <2> QED BY <1>3, <2>1, ZeroedAre
  <1>16. Traded(d, "vol")'
    <2>1. Zeroed(d, "vol") \subseteq Zeroed(c, "vol") /\ Zeroed(c, "vol") \subseteq Chare
      BY <1>15, ZeroedAre
    <2>2. GoesOn(c, d, "vol")
      BY <1>2, <1>6, <1>8, <1>14, <1>15, <2>1 DEF GoesOn
    <2>3. Traded(c, "vol")
      BY <1>1, KindIs DEF Exchanges
    <2> QED BY <2>2, <2>3, TradedGoesOn
  <1>17. \A k \in Past(d, "vol") : Nbr[k] \subseteq Senders(d, "vol")
    <2>1. \A k \in Past(d, "vol") : k \in Chare
      BY <1>3, PastAre
    <2> QED BY <1>15, <2>1, NbrFacts
  <1>18. Stages(d)' /\ Diagnosing(d) /\ Remeshing(d)
    <2>1. Stages(d)' /\ Diagnosing(d)
      BY <1>1, <1>2, <1>12 DEF Stages, Diagnosing, Made
    <2>2. Remeshing(d)
      BY <1>1, <1>7, <1>12 DEF Remeshing, Made
    <2> QED BY <2>1, <2>2
  <1>20. Expects(d)'
    <2>1. ASSUME NEW t, NEW j \in Chare, Expected(c, t, j), [type |-> t, to |-> j] \notin {m} PROVE Expected(d, t, j)
      <3>1. j = i => t # "totalvol"
        BY <1>3, <2>1
      <3>2. CASE j = i
        BY <1>3, <1>12, <2>1, <3>1, <3>2 DEF Expected
      <3>3. CASE j # i
        BY <1>12, <2>1, <3>3 DEF Expected
      <3> QED BY <3>2, <3>3
    <2>2. Handled(c, d, {m}, {})
      BY <1>5, <1>12, <2>1 DEF Handled
    <2> QED BY <1>1, <2>2, HandledExpects
  <1>21. Contributions(d)'
    <2> SUFFICES ASSUME NEW j \in Chare PROVE ContributedBy(d, j)'
      BY DEF Contributions
    <2>1. ContributedBy(c, j)
      BY <1>1 DEF Contributions
    <2>2. \A a \in {"worker", "refiner", "sync"} : contrib'[a][j] = contrib[a][j]
      <3>1. \A a \in {"worker", "refiner", "sync"} : a \in Array /\ TargetsOn(a, e) = <<>>
        BY <1>4 DEF Array
      <3>2. ASSUME NEW a \in {"worker", "refiner", "sync"} PROVE contrib'[a][j] = contrib[a][j]
        <4>1. contrib[a][j] \o <<>> = contrib[a][j]
          BY <1>1, <3>1, ContribSeq
        <4> QED BY <1>5, <3>1, <4>1
      <3> QED BY <3>2
    <2>3. c.stage[j] # 16
      <3>1. Made(c, j) /\ c.vol[j] # 6
        BY <1>1, <1>7 DEF Remeshing
      <3> QED BY <1>1, <1>7, <3>1 DEF Remeshing
    <2>4. contrib'["disc"][j] = IF d.vol[j] = 4 THEN <<"totalvol">> ELSE <<>>
      <3>1. contrib["disc"][j] = IF c.vol[j] = 4 THEN <<"totalvol">> ELSE <<>>
        BY <1>7, <2>1, <2>3 DEF ContributedBy
      <3>2. CASE j = i
        <4>1. contrib'["disc"][i] = <<>> \o <<"totalvol">>
          <5>1. contrib["disc"][i] = <<>> /\ TargetsOn("disc", e) = <<"totalvol">> /\ "disc" \in Array
            BY <1>3, <1>4, <3>1, <3>2 DEF Array
          <5> QED BY <1>3, <1>5, <5>1
        <4> QED BY <1>12, <3>2, <4>1, TargetFacts
      <3>3. CASE j # i
        <4>1. "disc" \in Array
          BY DEF Array
        <4> QED BY <1>5, <1>12, <3>1, <3>3, <4>1
      <3> QED BY <3>2, <3>3
    <2>5. d.vol[j] \in {3, 4} /\ contrib'["disc"][j] # <<"vol">>
      BY <1>7, <1>12, <2>4
    <2>6. contrib'["disc"][j] \in
            IF d.stage[j] = 16 /\ ~ finished' THEN {<<"finish">>}
            ELSE IF d.ref[j] = 3 /\ ~ d.disc THEN {<<"discresized">>}
            ELSE IF d.vol[j] \in {1, 2} THEN {<<>>, <<"vol">>}
            ELSE IF d.vol[j] = 4 THEN {<<"totalvol">>} ELSE {<<>>}
      BY <1>7, <1>12, <2>3, <2>4, <2>5
    <2> QED BY <1>12, <2>1, <2>2, <2>5, <2>6 DEF ContributedBy
  <1>22. Ends(d)'
    <2>1. \A j \in Chare, y \in {"diag", "ref", "lhs", "resize"} : Ended(c, j, y) => Ended(d, j, y)
      BY <1>3, <1>7, <1>12 DEF Ended, Made
    <2>2. Ending(c, d)
      BY <1>10, <1>12, <2>1, ObjectFacts DEF Ending
    <2> QED BY <1>1, <2>2, EndingEnds
  <1>23. VolumesOf(d, i)'
    <2>1. VolumesOf(c, i)
      BY <1>1, <1>3 DEF Volumes
    <2>2. /\ field'[i]["vol"] = Full(i, OfMesh(Now(c))) 
      BY <1>3, <1>9, KindIs
    <2>3. d.vol[i] = 4 /\ c.ref[i] = 3
      BY <1>3, <1>7, <1>12
    <2> QED BY <1>12, <1>14, <2>1, <2>2, <2>3 DEF VolumesOf
  <1>26. Alongside(c, d)
    BY <1>12 DEF Alongside
  <1>25. Waits(d)'
    <2>1. ASSUME NEW j \in Chare, NEW w \in Wait PROVE Due(j, w)' = Due(j, w)
      BY <1>4, <1>5, <2>1, ObjectFacts
    <2>2. ASSUME NEW j \in Chare PROVE SameWaits(c, d, j)
      BY <1>12 DEF SameWaits
    <2> QED BY <1>1, <1>26, <2>1, <2>2, WaitsKept
  <1>24. StepsInv(d)'
    BY <1>3, <1>5, <1>12, <1>13, <1>16, <1>17, <1>18, <1>20, <1>21, <1>22, <1>23, <1>25, MeshStepInv
  <1> QED BY <1>24, <1>26

-----------------------------------------------------------------------------
\* Chare i has its left-hand side.
LhsMerged(c, d, i) ==
  /\ d.round = c.round /\ \A j \in Chare \ {i} : d.stage[j] = c.stage[j] /\ d.lhs[j] = c.lhs[j]
  /\ IF c.round = 0 THEN c.stage[i] = 5 /\ d.stage[i] = 17 /\ d.lhs = c.lhs
                     ELSE c.lhs[i] = 2 /\ c.stage[i] = 11 /\ d.lhs[i] = 3 /\ d.stage = c.stage

\* What both schemes do when chare i adds the left-hand sides it got: ALECG::lhsmerge, start,
\* DiagCG::lhsmerge, start.
LhsMerges(i, zs) ==
  /\ Run(i, "lhs", IF itr[i] = 0 THEN NextDt ELSE Triggers({done("lhs")}))
  /\ buf' = [buf EXCEPT ![i] = Zero(buf[i], zs)] /\ UNCHANGED <<stepVars, fileVars, refined, count>>
  /\ field' = [j \in Chare |-> [x \in Kind |-> field'[j][x]]]
  /\ \A j \in Chare, x \in Kind : j # i \/ x # "lhs" => field'[j][x] = field[j][x]
  /\ field'[i]["lhs"] \subseteq field[i]["lhs"] \cup buf[i]["lhs"]

LEMMA LhsMergeKeeps ==
  ASSUME NEW c, StepsInv(c), NEW i \in Chare, NEW zs \in SUBSET {"rhs", "dif"}, LhsMerges(i, zs)
  PROVE  /\ \E d : StepsInv(d)' /\ LhsMerged(c, d, i)
         /\ buf[i]["lhs"] = PartsOf(Nbr[i], OfMesh(Now(c)))
  <1> DEFINE e == IF itr[i] = 0 THEN NextDt ELSE Triggers({done("lhs")})
  <1>1. /\ c \in Config /\ Shape /\ Stages(c) /\ Diagnosing(c) /\ Remeshing(c) /\ Ahead(c) /\ Counters(c)
        /\ Expects(c) /\ Contributions(c) /\ Ends(c) /\ Exchanges(c) /\ Waits(c) /\ Volumes(c) /\ Outputs(c)
    BY PartsOfInv
  <1>2. /\ Run(i, "lhs", e)
        /\ buf' = [buf EXCEPT ![i] = Zero(buf[i], zs)]
        /\ UNCHANGED <<it, itr, itf, lastDump, refined, finished, count>>
        /\ field' = [j \in Chare |-> [x \in Kind |-> field'[j][x]]]
        /\ \A j \in Chare, x \in Kind : j # i \/ x # "lhs" => field'[j][x] = field[j][x]
        /\ field'[i]["lhs"] \subseteq field[i]["lhs"] \cup buf[i]["lhs"]
    BY DEF LhsMerges, stepVars, fileVars
  <1>3. /\ e.calls = {} /\ e.triggers = IF itr[i] = 0 THEN {} ELSE {done("lhs")}
        /\ \A a : TargetsOn(a, e) = IF itr[i] = 0 /\ a = "worker" THEN <<"advance">> ELSE <<>>
        /\ e.posts = IF itr[i] = 0 THEN {"rhs", "out"} ELSE {}
    BY EffectFacts, PostsFacts, DtIs
  <1> HIDE DEF e
  <1>4. /\ CharmShape' /\ msgs' = msgs \cup e.calls
        /\ \A t \in Needs["lhs"] : t \in Trigger /\ trigger[i][t] > 0
        /\ \A k \in Object, t \in Trigger :
             trigger'[k][t] = IF k # i THEN trigger[k][t]
                              ELSE (IF t \in Needs["lhs"] THEN trigger[k][t] - 1 ELSE trigger[k][t])
                                   + (IF t \in e.triggers THEN 1 ELSE 0)
        /\ \A a \in Array, j \in Chare :
             contrib'[a][j] = IF j = i THEN contrib[a][j] \o TargetsOn(a, e) ELSE contrib[a][j]
        /\ \A k \in Object, v \in Wait :
             Due(k, v)' = IF k # i THEN Due(k, v)
                          ELSE (IF v = "lhs" THEN Due(k, v) - 1 ELSE Due(k, v)) + (IF v \in e.posts THEN 1 ELSE 0)
    <2>1. CharmShape /\ i \in Object /\ "lhs" \in Wait
      BY <1>1, ObjectFacts, WaitFacts DEF Shape
    <2> QED BY <1>2, <2>1, RunFacts
  <1>5. /\ trigger[i][own("lhs")] = 1 /\ trigger[i][com("lhs")] = 1
        /\ i \in Takers(c, "lhs") /\ i \in Senders(c, "lhs")
        /\ Arrived("lhs", About(c, "lhs"), Senders(c, "lhs"), i) = Nbr[i]
        /\ buf[i]["lhs"] = PartsOf(Nbr[i], About(c, "lhs"))
    <2>1. "lhs" \in Kind \ {"vol"} /\ trigger[i][own("lhs")] > 0 /\ trigger[i][com("lhs")] > 0
      BY <1>4, WaitFacts, KindIs
    <2>2. /\ trigger[i][own("lhs")] = 1 /\ trigger[i][com("lhs")] = 1
          /\ i \in Takers(c, "lhs") /\ i \in Senders(c, "lhs")
          /\ Arrived("lhs", About(c, "lhs"), Senders(c, "lhs"), i) = Nbr[i]
          /\ i \in Zeroed(c, "lhs") => buf[i]["lhs"] = PartsOf(Nbr[i], About(c, "lhs"))
      BY <1>1, <2>1, WaitedFor
    <2> QED BY <2>2, ZeroedAre
  <1>6. \A x : OfKind(x)' = OfKind(x)
    BY <1>3, <1>4 DEF OfKind
  <1>7. \/ c.round = 0 /\ c.stage[i] = 5 /\ itr[i] = 0 /\ c.ref[i] # 3 /\ ~ Made(c, i) /\ c.started
        \/ /\ c.round > 0 /\ c.lhs[i] = 2 /\ c.stage[i] = 11 /\ c.ref[i] = 3 /\ c.mesh >= 2 /\ Refines(c.round)
           /\ Made(c, i) /\ itr[i] # 0
    <2>1. CASE c.round = 0
      <3>1. c.stage[i] = 5
        BY <1>1, <1>5, <2>1, SendersAre, TakersAre, ConfigIs
      <3>2. ~ Made(c, i) /\ c.ref[i] = 0 /\ c.started
        BY <1>1, <2>1, <3>1 DEF Made, Remeshing, Stages
      <3>3. Base(c) = 0
        BY <2>1 DEF Base
      <3>4. itr[i] = 0
        BY <1>1, <3>2, <3>3 DEF Counters
      <3> QED BY <2>1, <3>1, <3>2, <3>4
    <2>2. CASE c.round > 0
      <3>1. c.lhs[i] = 2 /\ c.ref[i] = 3
        BY <1>1, <1>5, <2>2, SendersAre, TakersAre, ConfigIs
      <3>2. c.mesh >= 2
        BY <1>1, <3>1, ConfigIs DEF Remeshing
      <3>3. Made(c, i) /\ Refines(c.round)
        BY <1>1, <3>2, ConfigIs DEF Remeshing
      <3>4. ~ (c.stage[i] >= 12)
        BY <1>1, <3>1, <3>3 DEF Remeshing
      <3>5. itr[i] = Base(c) + 1 /\ Base(c) \in 0 .. NStep
        BY <1>1, <3>1, RoundFacts DEF Counters
      <3> QED BY <1>1, <2>2, <3>1, <3>2, <3>3, <3>4, <3>5, ConstantFacts, ConfigIs DEF Made
    <2> QED BY <1>1, <2>1, <2>2, ConfigIs
  <1>8. buf' = buf
    <2>1. \A x \in Kind \cap {"rhs", "dif"} : i \notin Takers(c, x)
      <3> SUFFICES ASSUME NEW x \in Kind \cap {"rhs", "dif"} PROVE i \notin Takers(c, x)
        OBVIOUS
      <3>1. x \in StepKind /\ StageOf[x] = 8
        BY StageIs, KindIs
      <3> QED BY <1>7, <3>1, TakersAre
    <2>2. \A x \in Kind \cap zs : buf[i][x] = {}
      BY <1>1, <2>1 DEF Exchanges
    <2>3. NodeShape
      BY <1>1 DEF Shape
    <2> QED BY <1>2, <2>2, <2>3, ZeroedAlready
  <1>9. field'[i]["lhs"] \subseteq Parts
    <2>1. field[i]["lhs"] \subseteq Parts /\ buf[i]["lhs"] \subseteq Parts
      BY <1>1, KindIs DEF Shape
    <2> QED BY <1>2, <2>1
  <1>10. /\ trigger'[i][own("lhs")] = 0 /\ trigger'[i][com("lhs")] = 0
         /\ \A j \in Chare \ {i} : trigger'[j][own("lhs")] = trigger[j][own("lhs")] /\ trigger'[j][com("lhs")] = trigger[j][com("lhs")]
         /\ \A y \in Kind \ {"lhs", "vol"}, j \in Chare :
              trigger'[j][own(y)] = trigger[j][own(y)] /\ trigger'[j][com(y)] = trigger[j][com(y)]
         /\ \A y \in {"diag", "ref", "lhs", "resize", "disc", "work"}, o \in Object :
              trigger'[o][done(y)] = IF o = i /\ y = "lhs" /\ itr[i] # 0 THEN trigger[o][done(y)] + 1 ELSE trigger[o][done(y)]
    <2>0. CharmShape /\ i \in Object
      BY <1>1, ObjectFacts DEF Shape
    <2>1. own("lhs") \in Trigger /\ com("lhs") \in Trigger /\ own("lhs") \notin e.triggers /\ com("lhs") \notin e.triggers
          /\ own("lhs") \in Needs["lhs"] /\ com("lhs") \in Needs["lhs"]
      BY <1>3, KindIs, TriggerFacts, TriggersDiffer, WaitFacts
    <2>2. \A y \in Kind \ {"lhs", "vol"} : /\ own(y) \in Trigger /\ com(y) \in Trigger
                                          /\ own(y) \notin e.triggers /\ com(y) \notin e.triggers
                                          /\ own(y) \notin Needs["lhs"] /\ com(y) \notin Needs["lhs"]
      BY <1>3, TriggerFacts, TriggersDiffer, WaitFacts
    <2>3. \A y \in {"diag", "ref", "lhs", "resize", "disc", "work"} :
            /\ done(y) \in Trigger /\ done(y) \notin Needs["lhs"]
            /\ done(y) \in e.triggers <=> y = "lhs" /\ itr[i] # 0
      BY <1>3, TriggerFacts, TriggersDiffer, WaitFacts
    <2>4. \A o \in Object, t \in Trigger : trigger[o][t] \in Int
      BY <2>0 DEF CharmShape
    <2>5. trigger'[i][own("lhs")] = 0 /\ trigger'[i][com("lhs")] = 0
      BY <1>4, <1>5, <2>0, <2>1
    <2>6. \A j \in Chare \ {i} : trigger'[j][own("lhs")] = trigger[j][own("lhs")] /\ trigger'[j][com("lhs")] = trigger[j][com("lhs")]
      BY <1>4, <2>1, ObjectFacts
    <2>7. \A y \in Kind \ {"lhs", "vol"}, j \in Chare :
            trigger'[j][own(y)] = trigger[j][own(y)] /\ trigger'[j][com(y)] = trigger[j][com(y)]
      BY <1>4, <2>2, <2>4, ObjectFacts
    <2>8. \A y \in {"diag", "ref", "lhs", "resize", "disc", "work"}, o \in Object :
            trigger'[o][done(y)] = IF o = i /\ y = "lhs" /\ itr[i] # 0 THEN trigger[o][done(y)] + 1 ELSE trigger[o][done(y)]
      BY <1>4, <2>3, <2>4
    <2> QED BY <2>5, <2>6, <2>7, <2>8
  <1>11. c.round = 0 <=> itr[i] = 0
    BY <1>7
  <1>12. PICK d \in Config :
           /\ d.round = c.round /\ d.diag = c.diag /\ d.ref = c.ref /\ d.vol = c.vol
           /\ d.mesh = c.mesh /\ d.started = c.started /\ d.diagnosed = c.diagnosed
           /\ d.disc = c.disc /\ d.work = c.work
           /\ \A j \in Chare \ {i} : d.stage[j] = c.stage[j] /\ d.lhs[j] = c.lhs[j]
           /\ IF itr[i] = 0 THEN d.stage[i] = 17 /\ d.lhs = c.lhs ELSE d.lhs[i] = 3 /\ d.stage = c.stage
    <2> DEFINE s == IF itr[i] = 0 THEN [c.stage EXCEPT ![i] = 17] ELSE c.stage
               l == IF itr[i] = 0 THEN c.lhs ELSE [c.lhs EXCEPT ![i] = 3]
    <2>1. c.stage \in [Chare -> 0 .. 17] /\ c.lhs \in [Chare -> 0 .. 3] /\ c.diag \in [Chare -> 0 .. 3]
          /\ c.ref \in [Chare -> 0 .. 3] /\ c.vol \in [Chare -> 0 .. 6]
      BY <1>1, ConfigIs
    <2>2. s \in [Chare -> 0 .. 17] /\ l \in [Chare -> 0 .. 3]
      BY <2>1
    <2>3. /\ \A j \in Chare \ {i} : s[j] = c.stage[j] /\ l[j] = c.lhs[j]
          /\ IF itr[i] = 0 THEN s[i] = 17 /\ l = c.lhs ELSE l[i] = 3 /\ s = c.stage
      BY <2>1
    <2> HIDE DEF s, l
    <2>4. \E d \in Config : Becomes(c, d, s, c.diag, c.ref, l, c.vol)
      BY <1>1, <2>1, <2>2, ConfigSet
    <2> QED BY <2>3, <2>4 DEF Becomes
  <1>13. MeshStep(c, d, "lhs", i)
    <2>1. d.stage = c.stage \/ (c.round = 0 /\ c.stage[i] >= 3 /\ d.stage[i] >= 3)
      BY <1>7, <1>11, <1>12
    <2> QED BY <1>2, <1>6, <1>8, <1>9, <1>10, <1>12, <2>1 DEF MeshStep
  <1>14. /\ Base(d) = Base(c) /\ Now(d) = Now(c) /\ \A y : About(d, y) = About(c, y)
         /\ \A y \in Kind \ {"lhs"} : SameFor(c, d, y)
    BY <1>1, <1>13, MeshStepFor
  <1>15. \A j \in Chare : /\ j \in Senders(d, "lhs") <=> j \in Senders(c, "lhs")
                          /\ j \in Takers(d, "lhs") <=> j \in Takers(c, "lhs") /\ j # i
                          /\ j \in Past(d, "lhs") <=> j \in Past(c, "lhs") \/ j = i
    <2>1. CASE c.round = 0
      <3>1. /\ d.round = 0 /\ c.round = 0 /\ d.stage[i] = 17 /\ c.stage[i] = 5
            /\ \A j \in Chare \ {i} : d.stage[j] = c.stage[j]
        BY <1>7, <1>11, <1>12, <2>1
      <3>2. \A j \in Chare : /\ j \in Senders(d, "lhs") <=> d.stage[j] >= 5
                             /\ j \in Senders(c, "lhs") <=> c.stage[j] >= 5
                             /\ j \in Takers(d, "lhs") <=> d.stage[j] <= 5
                             /\ j \in Takers(c, "lhs") <=> c.stage[j] <= 5
                             /\ j \in Past(d, "lhs") <=> d.stage[j] > 5
                             /\ j \in Past(c, "lhs") <=> c.stage[j] > 5
        BY <3>1, SendersAre, TakersAre, PastAre
      <3> QED BY <3>1, <3>2
    <2>2. CASE c.round # 0
      <3>1. /\ d.round = c.round /\ c.round # 0 /\ d.lhs[i] = 3 /\ c.lhs[i] = 2 /\ c.ref[i] = 3 /\ d.ref = c.ref
            /\ \A j \in Chare \ {i} : d.lhs[j] = c.lhs[j]
        BY <1>7, <1>11, <1>12, <2>2
      <3>2. \A j \in Chare : /\ j \in Senders(d, "lhs") <=> d.lhs[j] >= 2
                             /\ j \in Senders(c, "lhs") <=> c.lhs[j] >= 2
                             /\ j \in Takers(d, "lhs") <=> d.ref[j] = 3 /\ d.lhs[j] <= 2
                             /\ j \in Takers(c, "lhs") <=> c.ref[j] = 3 /\ c.lhs[j] <= 2
                             /\ j \in Past(d, "lhs") <=> d.lhs[j] = 3
                             /\ j \in Past(c, "lhs") <=> c.lhs[j] = 3
        BY <3>1, SendersAre, TakersAre, PastAre
      <3> QED BY <3>1, <3>2
    <2> QED BY <2>1, <2>2
  <1>16. Traded(d, "lhs")'
    <2>1. /\ Senders(d, "lhs") = Senders(c, "lhs") /\ Takers(d, "lhs") \subseteq Takers(c, "lhs")
          /\ Takers(c, "lhs") \ Takers(d, "lhs") \subseteq {i} /\ i \notin Takers(d, "lhs")
      BY <1>15, ZeroedAre
    <2>2. Zeroed(d, "lhs") \subseteq Zeroed(c, "lhs") /\ Zeroed(c, "lhs") \subseteq Chare
      BY <2>1, ZeroedAre
    <2>3. ASSUME NEW j \in Chare
          PROVE  \/ /\ j \in Takers(d, "lhs") \/ j \notin Takers(c, "lhs")
                    /\ trigger'[j][own("lhs")] = trigger[j][own("lhs")]
                    /\ trigger'[j][com("lhs")] = trigger[j][com("lhs")]
                 \/ trigger'[j][own("lhs")] = 0 /\ trigger'[j][com("lhs")] = 0
      BY <1>10, <1>15
    <2>4. GoesOn(c, d, "lhs")
      BY <1>2, <1>5, <1>6, <1>8, <1>14, <2>1, <2>2, <2>3 DEF GoesOn
    <2>5. Traded(c, "lhs")
      BY <1>1, KindIs DEF Exchanges
    <2> QED BY <2>4, <2>5, TradedGoesOn
  <1>17. \A k \in Past(d, "lhs") : Nbr[k] \subseteq Senders(d, "lhs")
    <2>1. \A k \in Past(c, "lhs") : Nbr[k] \subseteq Senders(c, "lhs")
      BY <1>1, KindIs DEF Ahead
    <2>2. Nbr[i] \subseteq Senders(c, "lhs")
      BY <1>5 DEF Arrived
    <2>3. Senders(c, "lhs") \subseteq Senders(d, "lhs") /\ \A k \in Past(d, "lhs") : k \in Chare
      BY <1>15, PastAre, ZeroedAre
    <2> QED BY <1>15, <2>1, <2>2, <2>3
  <1>18. Stages(d)'
    <2>1. 0 < NStep
      BY ConstantFacts
    <2> QED BY <1>1, <1>2, <1>7, <1>11, <1>12, <2>1 DEF Stages
  <1>19. Diagnosing(d) /\ Remeshing(d)
    <2>1. \A j \in Chare : (Made(d, j) <=> Made(c, j)) /\ (c.round > 0 => d.stage[j] = c.stage[j])
      BY <1>7, <1>11, <1>12 DEF Made
    <2>2. Diagnosing(d)
      BY <1>1, <1>12, <2>1 DEF Diagnosing
    <2>3. CASE itr[i] = 0
      <3>1. \A j \in Chare : ~ Made(c, j) /\ ~ Made(d, j)
        BY <1>11, <2>1, <2>3 DEF Made
      <3> QED BY <1>1, <1>12, <2>2, <2>3, <3>1 DEF Remeshing
    <2>4. CASE itr[i] # 0
      BY <1>1, <1>7, <1>12, <2>1, <2>2, <2>4 DEF Remeshing
    <2> QED BY <2>2, <2>3, <2>4
  <1>20. Expects(d)'
    <2>1. ASSUME NEW t, NEW j \in Chare, Expected(c, t, j) PROVE Expected(d, t, j)
      BY <1>7, <1>11, <1>12, <2>1 DEF Expected
    <2>2. \A j \in Chare : c.stage[j] \in {3, 12} => d.stage[j] = c.stage[j]
      BY <1>7, <1>12
    <2>3. Handled(c, d, {}, {})
      BY <1>3, <1>4, <2>1, <2>2 DEF Handled
    <2> QED BY <1>1, <2>3, HandledExpects
  <1>21. Contributions(d)'
    <2> SUFFICES ASSUME NEW j \in Chare PROVE ContributedBy(d, j)'
      BY DEF Contributions
    <2>1. ContributedBy(c, j)
      BY <1>1 DEF Contributions
    <2>2. ASSUME NEW a \in {"worker", "refiner", "disc", "sync"}, a # "worker" \/ itr[i] # 0 \/ j # i
          PROVE  contrib'[a][j] = contrib[a][j]
      <3>1. a \in Array /\ (j = i => TargetsOn(a, e) = <<>>)
        BY <1>3, <2>2 DEF Array
      <3>2. contrib[a][j] \o <<>> = contrib[a][j]
        BY <1>1, <3>1, ContribSeq
      <3> QED BY <1>4, <3>1, <3>2
    <2>3. Complete("vol", About(d, "vol"), Senders(d, "vol"), j)' = Complete("vol", About(c, "vol"), Senders(c, "vol"), j)
      <3>1. OfKind("vol")' = OfKind("vol") /\ About(d, "vol") = About(c, "vol") /\ Senders(d, "vol") = Senders(c, "vol")
        BY <1>6, <1>14, KindIs DEF SameFor
      <3> QED BY <3>1, VolKept
    <2>4. CASE j # i \/ itr[i] # 0
      <3>1. \A a \in {"worker", "refiner", "disc", "sync"} : contrib'[a][j] = contrib[a][j]
        BY <2>2, <2>4
      <3>2. d.stage[j] = c.stage[j]
        BY <1>12, <2>4
      <3> QED BY <1>2, <1>12, <2>1, <2>3, <3>1, <3>2 DEF ContributedBy
    <2>5. CASE j = i /\ itr[i] = 0
      <3>1. contrib["worker"][i] = <<>> /\ c.stage[i] = 5 /\ c.ref[i] # 3
        BY <1>7, <2>1, <2>5 DEF ContributedBy
      <3>2. contrib'["worker"][i] = <<>> \o <<"advance">>
        <4>1. "worker" \in Array /\ TargetsOn("worker", e) = <<"advance">>
          BY <1>3, <2>5 DEF Array
        <4> QED BY <1>4, <3>1, <4>1
      <3>3. contrib'["worker"][i] = <<"advance">>
        BY <3>2, TargetFacts
      <3>4. \A a \in {"refiner", "disc", "sync"} : contrib'[a][i] = contrib[a][i]
        BY <2>2, <2>5
      <3>5. d.stage[i] = 17
        BY <1>12, <2>5
      <3> QED BY <1>2, <1>12, <2>1, <2>3, <2>5, <3>1, <3>3, <3>4, <3>5 DEF ContributedBy
    <2> QED BY <2>4, <2>5
  <1>22. Ends(d)'
    <2>1. ASSUME NEW j \in Chare, NEW y \in {"diag", "ref", "lhs", "resize"}
          PROVE  \/ trigger'[j][done(y)] = trigger[j][done(y)] /\ (Ended(c, j, y) => Ended(d, j, y))
                 \/ trigger'[j][done(y)] = trigger[j][done(y)] + 1 /\ ~ Ended(c, j, y) /\ Ended(d, j, y)
      <3>1. CASE j = i /\ y = "lhs" /\ itr[i] # 0
        <4>1. trigger'[j][done(y)] = trigger[j][done(y)] + 1
          BY <1>10, <3>1, ObjectFacts
        <4>2. ~ Ended(c, j, y)
          BY <1>7, <1>11, <3>1 DEF Ended
        <4>3. Ended(d, j, y)
          BY <1>7, <1>11, <1>12, <3>1 DEF Ended, Made
        <4> QED BY <4>1, <4>2, <4>3
      <3>2. CASE ~ (j = i /\ y = "lhs" /\ itr[i] # 0)
        <4>1. trigger'[j][done(y)] = trigger[j][done(y)]
          BY <1>10, <3>2, ObjectFacts
        <4>2. Ended(c, j, y) => Ended(d, j, y)
          BY <1>7, <1>11, <1>12, <3>2 DEF Ended, Made
        <4> QED BY <4>1, <4>2
      <3> QED BY <3>1, <3>2
    <2>2. \A y \in {"disc", "work"} : trigger'[Host][done(y)] = trigger[Host][done(y)]
      BY <1>10, ObjectFacts
    <2>3. Ending(c, d)
      BY <1>12, <2>1, <2>2 DEF Ending
    <2> QED BY <1>1, <2>3, EndingEnds
  <1>23. VolumesOf(d, i)'
    <2>1. VolumesOf(c, i) /\ field'[i]["vol"] = field[i]["vol"]
      BY <1>1, <1>2, KindIs DEF Volumes
    <2> QED BY <1>12, <1>14, <2>1 DEF VolumesOf
  <1>25. Waits(d)'
    <2> SUFFICES ASSUME NEW j \in Chare, NEW w \in Wait PROVE Due(j, w)' = IF j \in Open(d, w) THEN 1 ELSE 0
      BY DEF Waits, Open
    <2>1. Due(j, w) = IF j \in Open(c, w) THEN 1 ELSE 0
      BY <1>1 DEF Waits
    <2>2. CASE j # i
      <3>1. Due(j, w)' = Due(j, w)
        BY <1>4, <2>2, ObjectFacts
      <3>2. j \in Open(d, w) <=> j \in Open(c, w)
        BY <1>12, <2>2 DEF Open
      <3> QED BY <2>1, <3>1, <3>2
    <2>3. CASE j = i /\ itr[i] = 0
      <3>1. Due(i, w)' = (IF w = "lhs" THEN Due(i, w) - 1 ELSE Due(i, w)) + (IF w \in {"rhs", "out"} THEN 1 ELSE 0)
        BY <1>3, <1>4, <2>3, ObjectFacts
      <3>2. i \in Open(c, w) <=> w = "lhs"
        BY <1>7, <2>3 DEF Open
      <3>3. i \in Open(d, w) <=> w \in {"rhs", "out"}
        BY <1>7, <1>12, <2>3 DEF Open
      <3> QED BY <2>1, <2>3, <3>1, <3>2, <3>3
    <2>4. CASE j = i /\ itr[i] # 0
      <3>1. Due(i, w)' = IF w = "lhs" THEN Due(i, w) - 1 ELSE Due(i, w)
        <4>1. e.posts = {}
          BY <1>3, <2>4
        <4>2. Due(i, w) \in Int
          BY <2>1, <2>4
        <4> QED BY <1>4, <4>1, <4>2, ObjectFacts
      <3>2. i \in Open(c, "lhs") /\ i \notin Open(d, "lhs")
        BY <1>7, <1>12, <2>4 DEF Open
      <3>3. w # "lhs" => (i \in Open(d, w) <=> i \in Open(c, w))
        BY <1>7, <1>12, <2>4 DEF Open
      <3> QED BY <2>1, <2>4, <3>1, <3>2, <3>3
    <2> QED BY <2>2, <2>3, <2>4
  <1>26. LhsMerged(c, d, i)
    BY <1>7, <1>11, <1>12 DEF LhsMerged
  <1>24. StepsInv(d)'
    BY <1>4, <1>12, <1>13, <1>16, <1>17, <1>18, <1>19, <1>20, <1>21, <1>22, <1>23, <1>25, MeshStepInv
  <1> QED BY <1>5, <1>24, <1>26, AboutIs

-----------------------------------------------------------------------------
\* What resizeAfterRefined() of the workers contributes and signals.
LEMMA NewMeshIs ==
  ASSUME NEW e, e = Contributes("disc", "discresized") ++ Posts({"lhs"})
                    ++ Triggers({done("ref")}) ++ Contributes("worker", "workresized")
  PROVE  /\ e.calls = {} /\ e.triggers = {done("ref")} /\ e.posts = {"lhs"}
         /\ TargetsOn("disc", e) = <<"discresized">> /\ TargetsOn("worker", e) = <<"workresized">>
         /\ \A a \in Array \ {"disc", "worker"} : TargetsOn(a, e) = <<>>
  <1> DEFINE b1 == Contributes("disc", "discresized")
             b2 == Posts({"lhs"})
             b3 == Triggers({done("ref")})
             b4 == Contributes("worker", "workresized")
             e2 == b1 ++ b2
             e3 == e2 ++ b3
  <1>1. /\ b1.calls = {} /\ b1.triggers = {} /\ \A a : TargetsOn(a, b1) = IF a = "disc" THEN <<"discresized">> ELSE <<>>
        /\ b2.calls = {} /\ b2.triggers = {} /\ \A a : TargetsOn(a, b2) = <<>>
        /\ b3.calls = {} /\ b3.triggers = {done("ref")} /\ \A a : TargetsOn(a, b3) = <<>>
        /\ b4.calls = {} /\ b4.triggers = {} /\ \A a : TargetsOn(a, b4) = IF a = "worker" THEN <<"workresized">> ELSE <<>>
    BY EffectFacts
  <1>2. e = e3 ++ b4
    OBVIOUS
  <1>11. e.posts = {"lhs"}
    BY PostsFacts
  <1> HIDE DEF b1, b2, b3, b4
  <1>3. /\ e2.calls = b1.calls \cup b2.calls /\ e2.triggers = b1.triggers \cup b2.triggers
        /\ \A a : TargetsOn(a, e2) = TargetsOn(a, b1) \o TargetsOn(a, b2)
    BY ThenFacts
  <1> HIDE DEF e2
  <1>4. /\ e3.calls = e2.calls \cup b3.calls /\ e3.triggers = e2.triggers \cup b3.triggers
        /\ \A a : TargetsOn(a, e3) = TargetsOn(a, e2) \o TargetsOn(a, b3)
    BY ThenFacts
  <1> HIDE DEF e3
  <1>5. /\ e.calls = e3.calls \cup b4.calls /\ e.triggers = e3.triggers \cup b4.triggers
        /\ \A a : TargetsOn(a, e) = TargetsOn(a, e3) \o TargetsOn(a, b4)
    BY <1>2, ThenFacts
  <1>7. e.calls = {} /\ e.triggers = {done("ref")}
    BY <1>1, <1>3, <1>4, <1>5
  <1>8. TargetsOn("disc", e) = <<"discresized">>
    <2>1. TargetsOn("disc", e2) = <<"discresized">>
      BY <1>1, <1>3, TargetFacts
    <2>2. TargetsOn("disc", e3) = <<"discresized">>
      BY <1>1, <1>4, <2>1, TargetFacts
    <2> QED BY <1>1, <1>5, <2>2, TargetFacts
  <1>9. TargetsOn("worker", e) = <<"workresized">>
    <2>1. TargetsOn("worker", e2) = <<>>
      BY <1>1, <1>3, TargetFacts
    <2>2. TargetsOn("worker", e3) = <<>>
      BY <1>1, <1>4, <2>1, TargetFacts
    <2> QED BY <1>1, <1>5, <2>2, TargetFacts
  <1>10. ASSUME NEW a \in Array \ {"disc", "worker"} PROVE TargetsOn(a, e) = <<>>
    <2>1. TargetsOn(a, e2) = <<>>
      BY <1>1, <1>3, TargetFacts
    <2>2. TargetsOn(a, e3) = <<>>
      BY <1>1, <1>4, <2>1, TargetFacts
    <2> QED BY <1>1, <1>5, <2>2, TargetFacts
  <1> QED BY <1>7, <1>8, <1>9, <1>10, <1>11

\* Resizing changes the counter, buffers and fields of the mesh of a chare.
LEMMA ResizeFacts ==
  ASSUME NodeShape, NEW i \in Chare, Resize(i, {"lhs"})
  PROVE  /\ buf' = [j \in Chare |-> [x \in Kind |-> buf'[j][x]]]
         /\ field' = [j \in Chare |-> [x \in Kind |-> field'[j][x]]]
         /\ count' \in [Chare -> [Kind -> Nat]]
         /\ \A j \in Chare, x \in Kind :
              /\ buf'[j][x] = IF j = i /\ x \in {"lhs", "vol"} THEN {} ELSE buf[j][x]
              /\ field'[j][x] = IF j = i /\ x = "vol" THEN {} ELSE field[j][x]
              /\ count'[j][x] = IF j = i /\ x = "vol" THEN 0 ELSE count[j][x]
  <1> DEFINE b == Zero(buf[i], {"lhs"} \cup {"vol"})
             f == Zero(field[i], {"vol"})
             n == [count[i] EXCEPT !["vol"] = 0]
  <1>1. buf' = [buf EXCEPT ![i] = b] /\ field' = [field EXCEPT ![i] = f] /\ count' = [count EXCEPT ![i] = n]
    BY DEF Resize
  <1>2. b = [x \in Kind |-> b[x]] /\ \A x \in Kind : b[x] = IF x \in {"lhs"} \cup {"vol"} THEN {} ELSE buf[i][x]
    BY ZeroFacts
  <1>3. f = [x \in Kind |-> f[x]] /\ \A x \in Kind : f[x] = IF x \in {"vol"} THEN {} ELSE field[i][x]
    BY ZeroFacts
  <1>4. n \in [Kind -> Nat] /\ \A x \in Kind : n[x] = IF x = "vol" THEN 0 ELSE count[i][x]
    BY DEF NodeShape
  <1> HIDE DEF b, f, n
  <1>5. /\ buf' = [j \in Chare |-> [x \in Kind |-> buf'[j][x]]]
        /\ \A x \in Kind : buf'[i][x] = b[x]
        /\ \A j \in Chare \ {i} : buf'[j] = buf[j]
    BY <1>1, <1>2, BufSet
  <1>6. /\ field' = [j \in Chare |-> [x \in Kind |-> field'[j][x]]]
        /\ \A x \in Kind : field'[i][x] = f[x]
        /\ \A j \in Chare \ {i} : field'[j] = field[j]
    BY <1>1, <1>3, FieldSet
  <1>7. count \in [Chare -> [Kind -> Nat]]
    BY DEF NodeShape
  <1>8. count' \in [Chare -> [Kind -> Nat]] /\ count'[i] = n /\ \A j \in Chare \ {i} : count'[j] = count[j]
    BY <1>1, <1>4, <1>7
  <1>9. \A j \in Chare, x \in Kind :
          /\ buf'[j][x] = IF j = i /\ x \in {"lhs", "vol"} THEN {} ELSE buf[j][x]
          /\ field'[j][x] = IF j = i /\ x = "vol" THEN {} ELSE field[j][x]
          /\ count'[j][x] = IF j = i /\ x = "vol" THEN 0 ELSE count[j][x]
    <2> SUFFICES ASSUME NEW j \in Chare, NEW x \in Kind
                 PROVE  /\ buf'[j][x] = IF j = i /\ x \in {"lhs", "vol"} THEN {} ELSE buf[j][x]
                        /\ field'[j][x] = IF j = i /\ x = "vol" THEN {} ELSE field[j][x]
                        /\ count'[j][x] = IF j = i /\ x = "vol" THEN 0 ELSE count[j][x]
      OBVIOUS
    <2>1. CASE j = i
      BY <1>2, <1>3, <1>4, <1>5, <1>6, <1>8, <2>1
    <2>2. CASE j # i
      BY <1>5, <1>6, <1>8, <2>2
    <2> QED BY <2>1, <2>2
  <1> QED BY <1>5, <1>6, <1>8, <1>9

\* What both schemes do when chare i gets its new mesh: resizeAfterRefined, resizeComm of ALECG and DiagCG.
Evals(i, m) ==
  /\ Is(m, "eval", i) /\ Resize(i, {"lhs"})
  /\ Take(i, m, Contributes("disc", "discresized") ++ Posts({"lhs"})
                ++ Triggers({done("ref")}) ++ Contributes("worker", "workresized"))
  /\ UNCHANGED <<it, finished, lastDump, file, refined>>

LEMMA EvalKeeps ==
  ASSUME NEW c, StepsInv(c), NEW m \in msgs, NEW i, i = m.to, Evals(i, m)
  PROVE  /\ \E d : StepsInv(d)' /\ Alongside(c, d)
         /\ i \in Chare /\ itr[i] < MeshOf(it[i]) /\ \A j \in Chare : it[j] = it[i]
         /\ itr' = [itr EXCEPT ![i] = itr[i] + 1] /\ it' = it /\ finished' = finished
  <1> DEFINE e == Contributes("disc", "discresized") ++ Posts({"lhs"})
                  ++ Triggers({done("ref")}) ++ Contributes("worker", "workresized")
  <1>1. /\ c \in Config /\ Shape /\ Stages(c) /\ Diagnosing(c) /\ Remeshing(c) /\ Ahead(c) /\ Counters(c)
        /\ Expects(c) /\ Contributions(c) /\ Ends(c) /\ Exchanges(c) /\ Waits(c) /\ Volumes(c) /\ Outputs(c)
    BY PartsOfInv
  <1>2. /\ Take(i, m, e) /\ m.type = "eval" /\ Resize(i, {"lhs"})
        /\ itr' = [itr EXCEPT ![i] = itr[i] + 1] /\ itf' = [itf EXCEPT ![i] = 0]
        /\ UNCHANGED <<it, finished, lastDump, refined>>
    BY DEF Evals, Resize, Is
  <1>3. /\ e.calls = {} /\ e.triggers = {done("ref")} /\ e.posts = {"lhs"}
        /\ TargetsOn("disc", e) = <<"discresized">> /\ TargetsOn("worker", e) = <<"workresized">>
        /\ \A a \in Array \ {"disc", "worker"} : TargetsOn(a, e) = <<>>
    BY NewMeshIs
  <1> HIDE DEF e
  <1>4. i \in Chare /\ m = [type |-> "eval", to |-> i] /\ c.ref[i] = 2
    BY <1>1, <1>2 DEF Expects, Expected
  <1>5. /\ CharmShape' /\ msgs' = msgs \ {m}
        /\ \A k \in Object, t \in Trigger :
             trigger'[k][t] = IF k = i /\ t \in e.triggers THEN trigger[k][t] + 1 ELSE trigger[k][t]
        /\ \A a \in Array, j \in Chare :
             contrib'[a][j] = IF j = i THEN contrib[a][j] \o TargetsOn(a, e) ELSE contrib[a][j]
        /\ \A k \in Object, w \in Wait : Due(k, w)' = IF k = i /\ w \in e.posts THEN Due(k, w) + 1 ELSE Due(k, w)
    <2>1. CharmShape /\ i \in Object
      BY <1>1, <1>4, ObjectFacts DEF Shape
    <2>2. msgs' = (msgs \ {m}) \cup e.calls
      BY <1>2, <2>1, TakeFacts
    <2> QED BY <1>2, <1>3, <2>1, <2>2, TakeFacts
  <1>6. \A x : OfKind(x)' = OfKind(x)
    BY <1>2, <1>5 DEF OfKind
  <1>7. /\ c.mesh = 1 /\ c.round > 0 /\ Refines(c.round) /\ ~ c.disc /\ ~ c.work
        /\ \A j \in Chare : c.ref[j] \in {2, 3} /\ c.lhs[j] = 0 /\ c.vol[j] = 0 /\ c.stage[j] = 11 /\ Made(c, j)
    <2>1. Made(c, i) /\ Refines(c.round) /\ c.mesh # 0
      BY <1>1, <1>4 DEF Remeshing
    <2>2. c.mesh = 1
      BY <1>1, <1>4, <2>1, ConfigIs DEF Remeshing
    <2>3. ~ c.disc /\ ~ c.work
      BY <1>1, <1>4, ConfigIs DEF Remeshing
    <2>4. ASSUME NEW j \in Chare
          PROVE  c.ref[j] \in {2, 3} /\ c.lhs[j] = 0 /\ c.vol[j] = 0 /\ c.stage[j] = 11 /\ Made(c, j)
      <3>1. Made(c, j) /\ c.ref[j] \in {2, 3} /\ c.lhs[j] = 0 /\ c.vol[j] = 0
        BY <1>1, <2>1, <2>2 DEF Remeshing
      <3>2. ~ (c.stage[j] >= 12)
        BY <1>1, <2>1, <3>1 DEF Remeshing
      <3> QED BY <1>1, <3>1, <3>2, ConfigIs DEF Made
    <2> QED BY <2>1, <2>2, <2>3, <2>4 DEF Made
  <1>8. /\ buf' = [j \in Chare |-> [x \in Kind |-> buf'[j][x]]]
        /\ field' = [j \in Chare |-> [x \in Kind |-> field'[j][x]]]
        /\ count' \in [Chare -> [Kind -> Nat]]
        /\ \A j \in Chare, x \in Kind :
             /\ buf'[j][x] = IF j = i /\ x \in {"lhs", "vol"} THEN {} ELSE buf[j][x]
             /\ field'[j][x] = IF j = i /\ x = "vol" THEN {} ELSE field[j][x]
             /\ count'[j][x] = IF j = i /\ x = "vol" THEN 0 ELSE count[j][x]
    <2>1. NodeShape
      BY <1>1 DEF Shape
    <2> QED BY <1>2, <1>4, <2>1, ResizeFacts
  <1>9. /\ \A y \in Kind \ {"vol"}, j \in Chare :
             trigger'[j][own(y)] = trigger[j][own(y)] /\ trigger'[j][com(y)] = trigger[j][com(y)]
        /\ \A y \in {"diag", "ref", "lhs", "resize", "disc", "work"}, o \in Object :
             trigger'[o][done(y)] = IF o = i /\ y = "ref" THEN trigger[o][done(y)] + 1 ELSE trigger[o][done(y)]
    <2>1. \A y \in Kind \ {"vol"} : /\ own(y) \in Trigger /\ com(y) \in Trigger
                                    /\ own(y) \notin e.triggers /\ com(y) \notin e.triggers
      BY <1>3, TriggerFacts, TriggersDiffer
    <2>2. \A y \in {"diag", "ref", "lhs", "resize", "disc", "work"} :
            done(y) \in Trigger /\ (done(y) \in e.triggers <=> y = "ref")
      BY <1>3, TriggerFacts, TriggersDiffer
    <2> QED BY <1>5, <2>1, <2>2, ObjectFacts
  <1>10. /\ it[i] = c.round /\ itr[i] = Base(c) /\ MeshOf(c.round) = Base(c) + 1 /\ Base(c) \in Nat
         /\ \A j \in Chare : it[j] = c.round
    BY <1>1, <1>4, <1>7, RoundFacts DEF Counters
  <1>11. PICK d \in Config :
           /\ d.round = c.round /\ d.stage = c.stage /\ d.diag = c.diag /\ d.lhs = c.lhs /\ d.vol = c.vol
           /\ d.mesh = c.mesh /\ d.started = c.started /\ d.diagnosed = c.diagnosed
           /\ d.disc = c.disc /\ d.work = c.work
           /\ \A j \in Chare \ {i} : d.ref[j] = c.ref[j]
           /\ d.ref[i] = 3
    <2> DEFINE r == [c.ref EXCEPT ![i] = 3]
    <2>1. c.stage \in [Chare -> 0 .. 17] /\ c.lhs \in [Chare -> 0 .. 3] /\ c.diag \in [Chare -> 0 .. 3]
          /\ c.ref \in [Chare -> 0 .. 3] /\ c.vol \in [Chare -> 0 .. 6]
      BY <1>1, ConfigIs
    <2>2. r \in [Chare -> 0 .. 3] /\ r[i] = 3 /\ \A j \in Chare \ {i} : r[j] = c.ref[j]
      BY <1>4, <2>1
    <2> HIDE DEF r
    <2>3. \E d \in Config : Becomes(c, d, c.stage, c.diag, r, c.lhs, c.vol)
      BY <1>1, <2>1, <2>2, ConfigSet
    <2> QED BY <2>2, <2>3 DEF Becomes
  <1>12. Base(d) = Base(c) /\ Now(d) = Now(c) /\ \A y : About(d, y) = About(c, y)
    BY <1>11 DEF Base, Now, About
  <1>13. /\ Senders(c, "lhs") = {} /\ Senders(c, "vol") = {} /\ Senders(d, "lhs") = {} /\ Senders(d, "vol") = {}
         /\ Past(d, "lhs") = {} /\ Past(d, "vol") = {}
    <2>1. \A j \in Chare : /\ j \notin Senders(c, "lhs") /\ j \notin Senders(c, "vol")
                           /\ j \notin Senders(d, "lhs") /\ j \notin Senders(d, "vol")
                           /\ j \notin Past(d, "lhs") /\ j \notin Past(d, "vol")
      BY <1>7, <1>11, SendersAre, PastAre
    <2> QED BY <1>4, <2>1, ZeroedAre, PastAre
  <1>14. ASSUME NEW x \in {"lhs", "vol"} PROVE Traded(d, x)'
    <2>1. Traded(c, x) /\ x \in Kind
      BY <1>1, KindIs DEF Exchanges
    <2>2. /\ OfKind(x) = {} /\ \A j \in Chare : count[j][x] = 0
          /\ x # "vol" => \A j \in Chare : trigger[j][own(x)] = 0 /\ trigger[j][com(x)] = 0
      BY <1>13, <2>1, TradedIdle
    <2>3. \A j \in Zeroed(d, x) : buf'[j][x] = {}
      <3> SUFFICES ASSUME NEW j \in Zeroed(d, x) PROVE buf'[j][x] = {}
        OBVIOUS
      <3>1. j \in Chare
        BY ZeroedAre
      <3>2. CASE j = i
        BY <1>4, <1>8, <2>1, <3>2
      <3>3. CASE j # i
        <4>1. j \in Zeroed(c, x)
          <5>1. d.ref[j] = 3 /\ d.ref[j] = c.ref[j]
            BY <1>7, <1>11, <3>1, <3>3, ZeroedAre, TakersAre
          <5> QED BY <1>7, <3>1, <5>1, ZeroedAre, TakersAre
        <4>2. buf[j][x] = PartsOf(Arrived(x, About(c, x), Senders(c, x), j), About(c, x))
          BY <2>1, <4>1 DEF Traded, Exchange
        <4>3. buf[j][x] = {}
          BY <1>13, <4>2 DEF Arrived, PartsOf
        <4> QED BY <1>8, <2>1, <3>1, <3>3, <4>3
      <3> QED BY <3>2, <3>3
    <2>4. \A j \in Chare : count'[j][x] = 0
      BY <1>8, <2>1, <2>2
    <2>5. x # "vol" => \A j \in Chare : trigger'[j][own(x)] = 0 /\ trigger'[j][com(x)] = 0
      BY <1>9, <2>1, <2>2
    <2> QED BY <1>6, <1>13, <2>2, <2>3, <2>4, <2>5, TradedStarts
  <1>15. ASSUME NEW x \in StepKind PROVE SameFor(c, d, x) /\ x \in Kind /\ x \notin {"lhs", "vol"}
    <2>1. x \in Kind /\ x \notin {"lhs", "vol"}
      BY StageIs
    <2>2. \A j \in Chare : /\ j \in Senders(d, x) <=> j \in Senders(c, x)
                           /\ j \in Takers(d, x) <=> j \in Takers(c, x)
                           /\ j \in Zeroed(d, x) <=> j \in Zeroed(c, x)
      BY <1>11, <2>1 DEF Senders, Takers, Zeroed
    <2> QED BY <1>12, <2>1, <2>2, SameForIf
  <1>16. Exchanges(d)'
    <2>1. ASSUME NEW x \in StepKind PROVE Traded(d, x)'
      <3>1. SameFor(c, d, x) /\ x \in Kind /\ x \notin {"lhs", "vol"}
        BY <1>15
      <3>2. Untouched(x)
        BY <1>6, <1>8, <1>9, <3>1 DEF Untouched
      <3>3. Traded(c, x)
        BY <1>1, <3>1 DEF Exchanges
      <3> QED BY <3>1, <3>2, <3>3, TradedKept
    <2>2. \A x \in Kind : Traded(d, x)'
      BY <1>14, <2>1, KindIs, AboutIs
    <2>3. ASSUME NEW x \in Kind \cap {"rhs", "dif"}, NEW j \in Chare \ Takers(d, x) PROVE buf'[j][x] = {}
      <3>1. Takers(d, x) = Takers(c, x) /\ x \in Kind /\ x \notin {"lhs", "vol"}
        BY <1>15, KindIs DEF SameFor
      <3>2. buf[j][x] = {}
        BY <1>1, <3>1 DEF Exchanges
      <3> QED BY <1>8, <3>1, <3>2
    <2> QED BY <1>7, <1>11, <2>2, <2>3 DEF Exchanges
  <1>17. Ahead(d)
    <2> SUFFICES ASSUME NEW x \in Kind, NEW k \in Past(d, x) PROVE Nbr[k] \subseteq Senders(d, x)
      BY DEF Ahead
    <2>1. x \in StepKind
      BY <1>13, KindIs, AboutIs
    <2>2. SameFor(c, d, x) /\ x \notin {"lhs", "vol"}
      BY <1>15, <2>1
    <2>3. k \in Past(c, x)
      BY <1>11, <2>2 DEF Past
    <2> QED BY <1>1, <2>2, <2>3 DEF Ahead, SameFor
  <1>18. Stages(d)' /\ Diagnosing(d)
    BY <1>1, <1>2, <1>11 DEF Stages, Diagnosing, Made
  <1>19. Remeshing(d)
    BY <1>1, <1>7, <1>11 DEF Remeshing, Made
  <1>20. Counters(d)'
    <2> SUFFICES ASSUME NEW j \in Chare
                 PROVE  /\ it'[j] = IF d.round > 0 /\ ~ Made(d, j) THEN d.round - 1 ELSE d.round
                        /\ itr'[j] = IF d.ref[j] = 3 THEN Base(d) + 1 ELSE Base(d)
      BY DEF Counters
    <2>1. itr \in [Chare -> Nat]
      BY <1>1 DEF Shape
    <2>2. itr'[j] = IF j = i THEN itr[i] + 1 ELSE itr[j]
      BY <1>2, <2>1
    <2>3. itr[j] = IF c.ref[j] = 3 THEN Base(c) + 1 ELSE Base(c)
      BY <1>1 DEF Counters
    <2>4. Made(d, j) = Made(c, j)
      BY <1>11 DEF Made
    <2> QED BY <1>2, <1>4, <1>7, <1>10, <1>11, <1>12, <2>2, <2>3, <2>4
  <1>21. Expects(d)'
    <2>1. ASSUME NEW t, NEW j \in Chare, Expected(c, t, j), [type |-> t, to |-> j] \notin {m} PROVE Expected(d, t, j)
      <3>1. j = i => t # "eval"
        BY <1>4, <2>1
      <3>2. CASE j = i
        BY <1>4, <1>11, <2>1, <3>1, <3>2 DEF Expected
      <3>3. CASE j # i
        BY <1>11, <2>1, <3>3 DEF Expected
      <3> QED BY <3>2, <3>3
    <2>2. Handled(c, d, {m}, {})
      BY <1>5, <1>11, <2>1 DEF Handled
    <2> QED BY <1>1, <2>2, HandledExpects
  <1>22. Contributions(d)'
    <2> SUFFICES ASSUME NEW j \in Chare PROVE ContributedBy(d, j)'
      BY DEF Contributions
    <2>1. ContributedBy(c, j)
      BY <1>1 DEF Contributions
    <2>2. /\ contrib["worker"][j] = IF c.ref[j] = 3 THEN <<"workresized">> ELSE <<>>
          /\ contrib["disc"][j] = IF c.ref[j] = 3 THEN <<"discresized">> ELSE <<>>
      BY <1>7, <2>1 DEF ContributedBy
    <2>3. ASSUME NEW a \in {"worker", "refiner", "disc", "sync"}, a \in {"refiner", "sync"} \/ j # i
          PROVE  contrib'[a][j] = contrib[a][j]
      <3>1. a \in Array /\ (j = i => TargetsOn(a, e) = <<>>)
        BY <1>3, <2>3 DEF Array
      <3>2. contrib[a][j] \o <<>> = contrib[a][j]
        BY <1>1, <3>1, ContribSeq
      <3> QED BY <1>5, <3>1, <3>2
    <2>4. j = i => contrib'["worker"][j] = <<"workresized">> /\ contrib'["disc"][j] = <<"discresized">>
      <3> SUFFICES ASSUME j = i PROVE contrib'["worker"][i] = <<"workresized">> /\ contrib'["disc"][i] = <<"discresized">>
        OBVIOUS
      <3>1. "worker" \in Array /\ "disc" \in Array /\ contrib["worker"][i] = <<>> /\ contrib["disc"][i] = <<>>
        BY <1>4, <2>2 DEF Array
      <3>2. contrib'["worker"][i] = contrib["worker"][i] \o TargetsOn("worker", e)
        BY <1>4, <1>5, <3>1
      <3>3. contrib'["disc"][i] = contrib["disc"][i] \o TargetsOn("disc", e)
        BY <1>4, <1>5, <3>1
      <3> QED BY <1>3, <3>1, <3>2, <3>3, TargetFacts
    <2>5. /\ contrib'["worker"][j] = IF d.ref[j] = 3 THEN <<"workresized">> ELSE <<>>
          /\ contrib'["disc"][j] = IF d.ref[j] = 3 THEN <<"discresized">> ELSE <<>>
      <3>1. CASE j = i
        BY <1>11, <2>4, <3>1
      <3>2. CASE j # i
        BY <1>11, <2>2, <2>3, <3>2
      <3> QED BY <3>1, <3>2
    <2>6. contrib'["refiner"][j] = contrib["refiner"][j] /\ contrib'["sync"][j] = contrib["sync"][j]
      BY <2>3
    <2>7. /\ d.stage[j] = 11 /\ d.vol[j] = 0 /\ ~ d.disc /\ ~ d.work /\ d.diag[j] = c.diag[j]
          /\ d.ref[j] = 1 <=> c.ref[j] = 1
      BY <1>4, <1>7, <1>11
    <2>8. contrib'["disc"][j] # <<"vol">>
      <3>1. contrib'["disc"][j] \in {<<>>, <<"discresized">>}
        BY <2>5
      <3>2. <<"vol">> # <<>> /\ <<"vol">> # <<"discresized">>
        BY TargetFacts
      <3> QED BY <3>1, <3>2
    <2> QED BY <1>7, <2>1, <2>5, <2>6, <2>7, <2>8 DEF ContributedBy
  <1>23. Ends(d)'
    <2>1. ASSUME NEW j \in Chare, NEW y \in {"diag", "ref", "lhs", "resize"}
          PROVE  \/ trigger'[j][done(y)] = trigger[j][done(y)] /\ (Ended(c, j, y) => Ended(d, j, y))
                 \/ trigger'[j][done(y)] = trigger[j][done(y)] + 1 /\ ~ Ended(c, j, y) /\ Ended(d, j, y)
      <3>1. CASE j = i /\ y = "ref"
        <4>1. trigger'[j][done(y)] = trigger[j][done(y)] + 1
          BY <1>9, <3>1, ObjectFacts
        <4>2. ~ Ended(c, j, y)
          BY <1>4, <1>7, <3>1 DEF Ended
        <4>3. Ended(d, j, y)
          BY <1>7, <1>11, <3>1 DEF Ended, Made
        <4> QED BY <4>1, <4>2, <4>3
      <3>2. CASE ~ (j = i /\ y = "ref")
        <4>1. trigger'[j][done(y)] = trigger[j][done(y)]
          BY <1>9, <3>2, ObjectFacts
        <4>2. Ended(c, j, y) => Ended(d, j, y)
          BY <1>11, <3>2 DEF Ended, Made
        <4> QED BY <4>1, <4>2
      <3> QED BY <3>1, <3>2
    <2>2. \A y \in {"disc", "work"} : trigger'[Host][done(y)] = trigger[Host][done(y)]
      BY <1>4, <1>9, ObjectFacts
    <2>3. Ending(c, d)
      BY <1>11, <2>1, <2>2 DEF Ending
    <2> QED BY <1>1, <2>3, EndingEnds
  <1>24. Volumes(d)'
    <2> SUFFICES ASSUME NEW j \in Chare PROVE VolumesOf(d, j)'
      BY DEF Volumes
    <2>1. VolumesOf(c, j)
      BY <1>1 DEF Volumes
    <2>2. field'[j]["vol"] = IF j = i THEN {} ELSE field[j]["vol"]
      BY <1>8, KindIs
    <2>3. d.vol[j] = 0 /\ c.vol[j] = 0 /\ (IF j = i THEN d.ref[j] = 3 ELSE d.ref[j] = c.ref[j])
      BY <1>7, <1>11
    <2> QED BY <1>12, <2>1, <2>2, <2>3 DEF VolumesOf
  <1>25. Shape'
    <2>1. itr' \in [Chare -> Nat]
      BY <1>1, <1>2, <1>4, <1>10 DEF Shape
    <2>2. \A j \in Chare, x \in Kind : field[j][x] \subseteq Parts /\ buf[j][x] \subseteq Parts
      BY <1>1 DEF Shape
    <2>3. \A j \in Chare, x \in Kind : field'[j][x] \cup buf'[j][x] \subseteq Parts
      <3>1. \A j \in Chare, x \in Kind : field'[j][x] \subseteq Parts
        BY <1>8, <2>2
      <3>2. ASSUME NEW j \in Chare, NEW x \in Kind PROVE buf'[j][x] \subseteq Parts
        <4>1. buf'[j][x] = {} \/ buf'[j][x] = buf[j][x]
          BY <1>8
        <4> QED BY <2>2, <4>1
      <3> QED BY <3>1, <3>2
    <2>4. NodeShape'
      BY <1>8 DEF NodeShape
    <2> QED BY <1>1, <1>2, <1>5, <2>1, <2>3, <2>4 DEF Shape
  <1>26. Outputs(d)'
    <2>1. d.round = c.round /\ d.stage = c.stage /\ it' = it /\ lastDump' = lastDump /\ refined' = refined
      BY <1>2, <1>11
    <2>2. itf' \in [Chare -> Nat] /\ \A j \in Chare : itf'[j] = IF j = i THEN 0 ELSE itf[j]
      BY <1>1, <1>2, <1>4 DEF Outputs
    <2>3. \A j \in Chare : lastDump[j] \in Int /\ lastDump[j] >= -1 /\ itf[j] <= lastDump[j] + 1
      BY <1>1 DEF Outputs, Shape
    <2>4. \A j \in Chare : itf'[j] <= lastDump'[j] + 1
      BY <2>1, <2>2, <2>3
    <2> QED BY <1>1, <2>1, <2>2, <2>4 DEF Outputs
  <1>27. Waits(d)'
    <2> SUFFICES ASSUME NEW j \in Chare, NEW w \in Wait PROVE Due(j, w)' = IF j \in Open(d, w) THEN 1 ELSE 0
      BY DEF Waits, Open
    <2>1. Due(j, w) = IF j \in Open(c, w) THEN 1 ELSE 0
      BY <1>1 DEF Waits
    <2>2. CASE j # i
      <3>1. Due(j, w)' = Due(j, w)
        BY <1>4, <1>5, <2>2, ObjectFacts
      <3>2. j \in Open(d, w) <=> j \in Open(c, w)
        BY <1>11, <2>2 DEF Open
      <3> QED BY <2>1, <3>1, <3>2
    <2>3. CASE j = i
      <3>1. Due(i, w)' = IF w = "lhs" THEN Due(i, w) + 1 ELSE Due(i, w)
        BY <1>3, <1>4, <1>5, ObjectFacts
      <3>2. i \notin Open(c, "lhs") /\ i \in Open(d, "lhs")
        BY <1>4, <1>7, <1>11 DEF Open
      <3>3. w # "lhs" => (i \in Open(d, w) <=> i \in Open(c, w))
        BY <1>11 DEF Open
      <3> QED BY <2>1, <2>3, <3>1, <3>2, <3>3
    <2> QED BY <2>2, <2>3
  <1>28. Levels(d)'
    BY <1>17, <1>18, <1>19, <1>11 DEF Levels, Diagnosing, Remeshing, Ahead, Made, Senders, Past
  <1>29. StepsInv(d)'
    BY <1>16, <1>20, <1>21, <1>22, <1>23, <1>24, <1>25, <1>26, <1>27, <1>28 DEF StepsInv
  <1>30. i \in Chare /\ itr[i] < MeshOf(it[i]) /\ \A j \in Chare : it[j] = it[i]
    BY <1>4, <1>10
  <1>31. Alongside(c, d)
    BY <1>11 DEF Alongside
  <1> QED BY <1>2, <1>29, <1>30, <1>31

-----------------------------------------------------------------------------
\* The mesh is refined after step n, or the step ends: refine() of the workers, Refiner::dtref.
Refinement(n) ==
  IF Refines(n) THEN Contributes("refiner", "matched")
                ELSE Triggers({done("ref"), done("lhs"), done("resize")})

\* What a worker contributes and signals at the end of time step n.
UpdateEffect(n, e) ==
  /\ e.calls = {} /\ e.posts = {}
  /\ e.triggers = (IF n % DiagFreq = 0 THEN {} ELSE {done("diag")})
                  \cup (IF Refines(n) THEN {} ELSE {done("ref"), done("lhs"), done("resize")})
  /\ \A a \in Array \ {"refiner"} : TargetsOn(a, e) = <<>>
  /\ TargetsOn("refiner", e) =
       IF n % DiagFreq = 0 THEN IF Refines(n) THEN <<"diagnostics", "matched">> ELSE <<"diagnostics">>
                           ELSE IF Refines(n) THEN <<"matched">> ELSE <<>>

\* It does.
LEMMA UpdateIs ==
  ASSUME NEW i \in Chare
  PROVE  UpdateEffect(it[i] + 1, Diagnostics(i, "refiner") ++ Refinement(it[i] + 1))
  <1> DEFINE n == it[i] + 1
             e == Diagnostics(i, "refiner") ++ Refinement(n)
             D == n % DiagFreq = 0
             R == Refines(n)
             p == Diagnostics(i, "refiner")
             q == Refinement(n)
  <1>1. /\ p.calls = {} /\ p.posts = {} /\ p.triggers = IF D THEN {} ELSE {done("diag")}
        /\ \A a : TargetsOn(a, p) = IF D /\ a = "refiner" THEN <<"diagnostics">> ELSE <<>>
    BY EffectFacts, PostsFacts DEF Diagnostics
  <1>2. /\ q.calls = {} /\ q.posts = {} /\ q.triggers = IF R THEN {} ELSE {done("ref"), done("lhs"), done("resize")}
        /\ \A a : TargetsOn(a, q) = IF R /\ a = "refiner" THEN <<"matched">> ELSE <<>>
    BY EffectFacts, PostsFacts DEF Refinement
  <1>3. e = p ++ q
    OBVIOUS
  <1>0. D = (n % DiagFreq = 0) /\ R = Refines(n)
    OBVIOUS
  <1> HIDE DEF e, p, q, D, R, n
  <1>4. /\ e.calls = p.calls \cup q.calls /\ e.posts = p.posts \cup q.posts /\ e.triggers = p.triggers \cup q.triggers
        /\ \A a : TargetsOn(a, e) = TargetsOn(a, p) \o TargetsOn(a, q)
    BY <1>3, ThenFacts, PostsFacts
  <1>5. ASSUME NEW a \in Array \ {"refiner"} PROVE TargetsOn(a, e) = <<>>
    BY <1>1, <1>2, <1>4, TargetFacts
  <1>6. TargetsOn("refiner", e) = IF D THEN IF R THEN <<"diagnostics", "matched">> ELSE <<"diagnostics">>
                                       ELSE IF R THEN <<"matched">> ELSE <<>>
    <2>1. CASE D /\ R
      <3>1. TargetsOn("refiner", e) = <<"diagnostics">> \o <<"matched">>
        BY <1>1, <1>2, <1>4, <2>1
      <3>2. <<"diagnostics">> \o <<"matched">> = <<"diagnostics", "matched">>
        BY TargetFacts
      <3> QED BY <2>1, <3>1, <3>2
    <2>2. CASE D /\ ~ R
      <3>1. TargetsOn("refiner", e) = <<"diagnostics">> \o <<>>
        BY <1>1, <1>2, <1>4, <2>2
      <3>2. <<"diagnostics">> \o <<>> = <<"diagnostics">>
        BY TargetFacts
      <3> QED BY <2>2, <3>1, <3>2
    <2>3. CASE ~ D /\ R
      <3>1. TargetsOn("refiner", e) = <<>> \o <<"matched">>
        BY <1>1, <1>2, <1>4, <2>3
      <3>2. <<>> \o <<"matched">> = <<"matched">>
        BY TargetFacts
      <3> QED BY <2>3, <3>1, <3>2
    <2>4. CASE ~ D /\ ~ R
      <3>1. TargetsOn("refiner", e) = <<>> \o <<>>
        BY <1>1, <1>2, <1>4, <2>4
      <3>2. <<>> \o <<>> = <<>>
        BY TargetFacts
      <3> QED BY <2>4, <3>1, <3>2
    <2> QED BY <2>1, <2>2, <2>3, <2>4
  <1>7. e.calls = {} /\ e.posts = {} /\ e.triggers = (IF D THEN {} ELSE {done("diag")})
                                     \cup (IF R THEN {} ELSE {done("ref"), done("lhs"), done("resize")})
    BY <1>1, <1>2, <1>4
  <1>8. UpdateEffect(n, e)
    BY <1>0, <1>5, <1>6, <1>7 DEF UpdateEffect
  <1> QED BY <1>8 DEF n, e

\* A chare makes the last change to the solution in a step: none is behind, all are on its mesh.
LEMMA UpdateReady ==
  ASSUME NEW c, StepsInv(c), NEW i \in Chare, c.round > 0, c.stage[i] \in {8, 10}
  PROVE  /\ c.mesh = 0 /\ ~ c.diagnosed /\ ~ c.disc /\ ~ c.work /\ ~ finished /\ ~ Made(c, i)
         /\ c.diag[i] = 0 /\ c.ref[i] = 0
         /\ \A j \in Chare : c.ref[j] \in {0, 1} /\ c.lhs[j] = 0 /\ c.vol[j] = 0
         /\ it[i] = c.round - 1 /\ it[i] < NStep /\ c.round <= NStep
         /\ \A j \in Chare : /\ it[j] >= it[i] /\ itr[j] = Base(c)
                             /\ it[j] = it[i] => itr[j] = MeshOf(it[i])
  <1>1. /\ c \in Config /\ Stages(c) /\ Diagnosing(c) /\ Remeshing(c) /\ Counters(c)
    BY PartsOfInv
  <1>2. ~ Made(c, i) /\ c.round \in Nat /\ c.mesh \in 0 .. 4 /\ c.round <= NStep
    BY <1>1, ConfigIs DEF Made, Stages
  <1>3. c.mesh = 0 /\ ~ c.diagnosed /\ c.diag[i] = 0
    BY <1>1, <1>2 DEF Remeshing, Diagnosing
  <1>4. \A j \in Chare : c.ref[j] \in {0, 1} /\ c.lhs[j] = 0 /\ c.vol[j] = 0
    BY <1>1, <1>3 DEF Remeshing
  <1>5. c.ref[i] = 0 /\ ~ c.disc /\ ~ c.work
    BY <1>1, <1>2, <1>3, <1>4, ConfigIs DEF Remeshing
  <1>6. ~ finished
    BY <1>1, <1>2 DEF Stages
  <1>7. MeshOf(c.round - 1) = Base(c)
    BY <1>2 DEF Base
  <1>8. \A j \in Chare : it[j] \in {c.round - 1, c.round} /\ itr[j] = Base(c)
    BY <1>1, <1>4 DEF Counters
  <1>9. it[i] = c.round - 1
    BY <1>1, <1>2 DEF Counters
  <1> QED BY <1>2, <1>3, <1>4, <1>5, <1>6, <1>7, <1>8, <1>9, ConstantFacts

\* Field x is the last of a step, sent from stage k, and wait w is for it.
LastOf(k, w, x) ==
  /\ x \in StepKind /\ StageOf[x] = k /\ \A y \in StepKind \ {x} : StageOf[y] < k
  /\ w \in Wait /\ Needs[w] = {own(x), com(x)}
  /\ \/ k = 8 /\ w = "rhs" /\ Wait \subseteq {"lhs", "rhs", "out", "resize"}
     \/ k = 10 /\ w = "app"

\* What both schemes do when chare i makes the step once it has field x: ALECG::solve, DistFCT::apply,
\* DiagCG::update.
MakesStep(i, w, x) ==
  /\ Run(i, w, Diagnostics(i, "refiner") ++ Refinement(it[i] + 1))
  /\ field' = [field EXCEPT ![i] = Combine(i, {x})]
  /\ buf' = [j \in Chare |-> [y \in Kind |-> buf'[j][y]]]
  /\ \A j \in Chare, y \in Kind : buf'[j][y] = IF j = i /\ y = x /\ x \in {"rhs", "dif"} THEN {} ELSE buf[j][y]
  /\ it' = [it EXCEPT ![i] = it[i] + 1]
  /\ refined' \in [Chare -> BOOLEAN]
  /\ UNCHANGED <<itr, finished, itf, lastDump, count>>

\* Chare i has made the step.
StepMade(c, d, i) ==
  /\ d.round = c.round /\ d.lhs = c.lhs /\ d.stage[i] = 11
  /\ \A j \in Chare \ {i} : d.stage[j] = c.stage[j]

LEMMA MakesStepKeeps ==
  ASSUME NEW c, StepsInv(c), NEW i \in Chare, NEW k, NEW w, NEW x, LastOf(k, w, x), MakesStep(i, w, x)
  PROVE  /\ \E d : StepsInv(d)' /\ StepMade(c, d, i)
         /\ c.round > 0 /\ c.stage[i] = k /\ c.lhs[i] = 0 /\ c.ref[i] = 0 /\ it[i] + 1 = c.round
         /\ buf[i][x] = PartsOf(Nbr[i], About(c, x))
         /\ it[i] < NStep /\ \A j \in Chare : it[j] >= it[i] /\ (it[j] = it[i] => itr[j] = MeshOf(it[i]))
         /\ it' = [it EXCEPT ![i] = it[i] + 1] /\ itr' = itr /\ finished' = finished
  <1> DEFINE e == Diagnostics(i, "refiner") ++ Refinement(it[i] + 1)
             D == c.round % DiagFreq = 0
             R == Refines(c.round)
  <1>1. /\ c \in Config /\ Shape /\ Stages(c) /\ Diagnosing(c) /\ Remeshing(c) /\ Ahead(c) /\ Counters(c)
        /\ Expects(c) /\ Contributions(c) /\ Ends(c) /\ Exchanges(c) /\ Waits(c) /\ Volumes(c) /\ Outputs(c)
    BY PartsOfInv
  <1>2. /\ Run(i, w, e)
        /\ field' = [field EXCEPT ![i] = Combine(i, {x})]
        /\ buf' = [j \in Chare |-> [y \in Kind |-> buf'[j][y]]]
        /\ \A j \in Chare, y \in Kind : buf'[j][y] = IF j = i /\ y = x /\ x \in {"rhs", "dif"} THEN {} ELSE buf[j][y]
        /\ it' = [it EXCEPT ![i] = it[i] + 1]
        /\ refined' \in [Chare -> BOOLEAN]
        /\ UNCHANGED <<itr, finished, itf, lastDump, count>>
    BY DEF MakesStep
  <1>0. /\ x \in StepKind /\ x \in Kind \ {"lhs", "vol"} /\ StageOf[x] = k /\ \A y \in StepKind \ {x} : StageOf[y] < k
        /\ w \in Wait /\ Needs[w] = {own(x), com(x)} /\ k \in {8, 10}
        /\ \/ k = 8 /\ w = "rhs" /\ Wait \subseteq {"lhs", "rhs", "out", "resize"}
           \/ k = 10 /\ w = "app"
        /\ \A y \in StepKind : StageOf[y] <= k /\ StageOf[y] \in {8, 9, 10}
    BY StageIs DEF LastOf
  <1> HIDE DEF e
  <1>3. /\ CharmShape' /\ msgs' = msgs \cup e.calls
        /\ \A t \in Needs[w] : t \in Trigger /\ trigger[i][t] > 0
        /\ \A o \in Object, t \in Trigger :
             trigger'[o][t] = IF o # i THEN trigger[o][t]
                              ELSE (IF t \in Needs[w] THEN trigger[o][t] - 1 ELSE trigger[o][t])
                                   + (IF t \in e.triggers THEN 1 ELSE 0)
        /\ \A a \in Array, j \in Chare :
             contrib'[a][j] = IF j = i THEN contrib[a][j] \o TargetsOn(a, e) ELSE contrib[a][j]
        /\ \A o \in Object, v \in Wait :
             Due(o, v)' = IF o # i THEN Due(o, v)
                          ELSE (IF v = w THEN Due(o, v) - 1 ELSE Due(o, v)) + (IF v \in e.posts THEN 1 ELSE 0)
    <2>1. CharmShape /\ i \in Object
      BY <1>1, ObjectFacts DEF Shape
    <2> QED BY <1>0, <1>2, <2>1, RunFacts
  <1>4. /\ trigger[i][own(x)] = 1 /\ trigger[i][com(x)] = 1
        /\ i \in Takers(c, x) /\ i \in Senders(c, x)
        /\ Arrived(x, About(c, x), Senders(c, x), i) = Nbr[i]
        /\ c.round > 0 /\ c.stage[i] = k
        /\ buf[i][x] = PartsOf(Nbr[i], About(c, x))
    <2>1. x \in Kind \ {"vol"} /\ trigger[i][own(x)] > 0 /\ trigger[i][com(x)] > 0
      BY <1>0, <1>3
    <2>2. /\ trigger[i][own(x)] = 1 /\ trigger[i][com(x)] = 1
          /\ i \in Takers(c, x) /\ i \in Senders(c, x)
          /\ Arrived(x, About(c, x), Senders(c, x), i) = Nbr[i]
          /\ i \in Zeroed(c, x) => buf[i][x] = PartsOf(Nbr[i], About(c, x))
      BY <1>1, <2>1, WaitedFor
    <2>3. c.round > 0 /\ c.stage[i] = k
      BY <1>0, <1>1, <2>2, SendersAre, TakersAre, ConfigIs
    <2>4. i \in Zeroed(c, x)
      BY <1>0, <2>2, <2>3 DEF Zeroed
    <2> QED BY <2>2, <2>3, <2>4
  <1>5. /\ c.mesh = 0 /\ ~ c.diagnosed /\ ~ c.disc /\ ~ c.work /\ ~ finished /\ ~ Made(c, i)
        /\ c.diag[i] = 0 /\ c.ref[i] = 0
        /\ \A j \in Chare : c.ref[j] \in {0, 1} /\ c.lhs[j] = 0 /\ c.vol[j] = 0
        /\ it[i] = c.round - 1 /\ it[i] < NStep /\ c.round <= NStep
        /\ \A j \in Chare : /\ it[j] >= it[i] /\ itr[j] = Base(c)
                            /\ it[j] = it[i] => itr[j] = MeshOf(it[i])
    BY <1>0, <1>4, UpdateReady
  <1>6. c.round \in Nat /\ it[i] + 1 = c.round
    BY <1>1, <1>5, ConfigIs
  <1>7. /\ e.calls = {} /\ e.posts = {}
        /\ e.triggers = (IF D THEN {} ELSE {done("diag")}) \cup (IF R THEN {} ELSE {done("ref"), done("lhs"), done("resize")})
        /\ \A a \in Array \ {"refiner"} : TargetsOn(a, e) = <<>>
        /\ TargetsOn("refiner", e) = IF D THEN IF R THEN <<"diagnostics", "matched">> ELSE <<"diagnostics">>
                                          ELSE IF R THEN <<"matched">> ELSE <<>>
    <2>1. UpdateEffect(it[i] + 1, e)
      BY UpdateIs DEF e
    <2>2. UpdateEffect(c.round, e)
      BY <1>6, <2>1
    <2> QED BY <2>2 DEF UpdateEffect
  <1> HIDE DEF D, R
  <1>8. \A y : OfKind(y)' = OfKind(y)
    BY <1>3, <1>7 DEF OfKind
  <1>9. /\ field' = [j \in Chare |-> [y \in Kind |-> field'[j][y]]]
        /\ \A y \in Kind \ {x} : field'[i][y] = field[i][y]
        /\ \A y \in Kind : field'[i][y] \subseteq Parts
        /\ \A j \in Chare \ {i} : field'[j] = field[j]
    <2> DEFINE g == Combine(i, {x})
    <2> HIDE DEF g
    <2>1. g = [y \in Kind |-> g[y]] /\ \A y \in Kind : g[y] = IF y \in {x} THEN field[i][y] \cup buf[i][y] ELSE field[i][y]
      BY DEF g, Combine
    <2>2. field' = [field EXCEPT ![i] = g] /\ NodeShape
      BY <1>1, <1>2 DEF Shape, g
    <2>3. /\ field' = [j \in Chare |-> [y \in Kind |-> field'[j][y]]]
          /\ \A y \in Kind : field'[i][y] = g[y]
          /\ \A j \in Chare \ {i} : field'[j] = field[j]
      BY <2>1, <2>2, FieldSet
    <2>4. \A y \in Kind : field[i][y] \subseteq Parts /\ buf[i][y] \subseteq Parts
      BY <1>1 DEF Shape
    <2> QED BY <2>1, <2>3, <2>4
  <1>10. /\ trigger'[i][own(x)] = 0 /\ trigger'[i][com(x)] = 0
         /\ \A j \in Chare \ {i} : trigger'[j][own(x)] = trigger[j][own(x)] /\ trigger'[j][com(x)] = trigger[j][com(x)]
         /\ \A y \in Kind \ {x, "vol"}, j \in Chare :
              trigger'[j][own(y)] = trigger[j][own(y)] /\ trigger'[j][com(y)] = trigger[j][com(y)]
         /\ \A y \in {"diag", "ref", "lhs", "resize", "disc", "work"}, o \in Object :
              trigger'[o][done(y)] = IF o = i /\ done(y) \in e.triggers THEN trigger[o][done(y)] + 1 ELSE trigger[o][done(y)]
    <2>0. CharmShape /\ i \in Object
      BY <1>1, ObjectFacts DEF Shape
    <2>1. own(x) \in Trigger /\ com(x) \in Trigger /\ own(x) \notin e.triggers /\ com(x) \notin e.triggers
          /\ own(x) \in Needs[w] /\ com(x) \in Needs[w]
      BY <1>0, <1>7, TriggerFacts, TriggersDiffer
    <2>2. \A y \in Kind \ {x, "vol"} : /\ own(y) \in Trigger /\ com(y) \in Trigger
                                          /\ own(y) \notin e.triggers /\ com(y) \notin e.triggers
                                          /\ own(y) \notin Needs[w] /\ com(y) \notin Needs[w]
      BY <1>0, <1>7, TriggerFacts, TriggersDiffer
    <2>3. \A y \in {"diag", "ref", "lhs", "resize", "disc", "work"} : done(y) \in Trigger /\ done(y) \notin Needs[w]
      BY <1>0, TriggerFacts, TriggersDiffer
    <2>4. \A o \in Object, t \in Trigger : trigger[o][t] \in Int
      BY <2>0 DEF CharmShape
    <2>5. trigger'[i][own(x)] = 0 /\ trigger'[i][com(x)] = 0
      BY <1>3, <1>4, <2>0, <2>1
    <2>6. \A j \in Chare \ {i} : trigger'[j][own(x)] = trigger[j][own(x)] /\ trigger'[j][com(x)] = trigger[j][com(x)]
      BY <1>3, <2>1, ObjectFacts
    <2>7. \A y \in Kind \ {x, "vol"}, j \in Chare :
            trigger'[j][own(y)] = trigger[j][own(y)] /\ trigger'[j][com(y)] = trigger[j][com(y)]
      BY <1>3, <2>2, <2>4, ObjectFacts
    <2>8. \A y \in {"diag", "ref", "lhs", "resize", "disc", "work"}, o \in Object :
            trigger'[o][done(y)] = IF o = i /\ done(y) \in e.triggers THEN trigger[o][done(y)] + 1 ELSE trigger[o][done(y)]
      BY <1>3, <2>3, <2>4
    <2> QED BY <2>5, <2>6, <2>7, <2>8
  <1>11. PICK d \in Config :
           /\ d.round = c.round /\ d.lhs = c.lhs /\ d.vol = c.vol
           /\ d.mesh = c.mesh /\ d.started = c.started /\ d.diagnosed = c.diagnosed
           /\ d.disc = c.disc /\ d.work = c.work
           /\ \A j \in Chare \ {i} : d.stage[j] = c.stage[j] /\ d.diag[j] = c.diag[j] /\ d.ref[j] = c.ref[j]
           /\ d.stage[i] = 11 /\ d.diag[i] = (IF D THEN 1 ELSE 3) /\ d.ref[i] = (IF R THEN 1 ELSE 0)
    <2> DEFINE s == [c.stage EXCEPT ![i] = 11]
               g == [c.diag EXCEPT ![i] = IF D THEN 1 ELSE 3]
               r == [c.ref EXCEPT ![i] = IF R THEN 1 ELSE 0]
    <2>1. c.stage \in [Chare -> 0 .. 17] /\ c.lhs \in [Chare -> 0 .. 3] /\ c.diag \in [Chare -> 0 .. 3]
          /\ c.ref \in [Chare -> 0 .. 3] /\ c.vol \in [Chare -> 0 .. 6]
      BY <1>1, ConfigIs
    <2>2. s \in [Chare -> 0 .. 17] /\ g \in [Chare -> 0 .. 3] /\ r \in [Chare -> 0 .. 3]
      BY <2>1
    <2>3. /\ \A j \in Chare \ {i} : s[j] = c.stage[j] /\ g[j] = c.diag[j] /\ r[j] = c.ref[j]
          /\ s[i] = 11 /\ g[i] = (IF D THEN 1 ELSE 3) /\ r[i] = (IF R THEN 1 ELSE 0)
      BY <2>1
    <2> HIDE DEF s, g, r
    <2>4. \E d \in Config : Becomes(c, d, s, g, r, c.lhs, c.vol)
      BY <1>1, <2>1, <2>2, ConfigSet
    <2> QED BY <2>3, <2>4 DEF Becomes
  <1>12. Base(d) = Base(c) /\ Now(d) = Now(c) /\ \A y : About(d, y) = About(c, y)
    BY <1>11 DEF Base, Now, About
  <1>13. Made(d, i) /\ \A j \in Chare \ {i} : Made(d, j) = Made(c, j)
    BY <1>4, <1>11 DEF Made
  <1>14. ASSUME NEW y \in Kind, y # x PROVE SameFor(c, d, y) /\ \A j \in Chare : j \in Past(d, y) <=> j \in Past(c, y)
    <2>1. ASSUME NEW j \in Chare
          PROVE  /\ j \in Senders(d, y) <=> j \in Senders(c, y)
                 /\ j \in Takers(d, y) <=> j \in Takers(c, y)
                 /\ j \in Zeroed(d, y) <=> j \in Zeroed(c, y)
                 /\ j \in Past(d, y) <=> j \in Past(c, y)
      <3>1. CASE j # i
        BY <1>11, <3>1 DEF Senders, Takers, Zeroed, Past
      <3>2. CASE j = i /\ y \in StepKind
        <4>1. StageOf[y] < k /\ StageOf[y] \in {8, 9, 10}
          BY <1>0, <1>14, <3>2
        <4>2. /\ i \in Senders(d, y) /\ i \in Senders(c, y) /\ i \notin Takers(d, y) /\ i \notin Takers(c, y)
              /\ i \in Past(d, y) /\ i \in Past(c, y)
          BY <1>0, <1>4, <1>11, <3>2, <4>1, SendersAre, TakersAre, PastAre
        <4> QED BY <3>2, <4>2, ZeroedAre
      <3>3. CASE j = i /\ y \in {"lhs", "vol"}
        BY <1>4, <1>5, <1>11, <3>3, SendersAre, TakersAre, ZeroedAre, PastAre
      <3> QED BY <1>14, <3>1, <3>2, <3>3, KindIs
    <2> QED BY <1>12, <2>1, SameForIf
  <1>15. /\ Senders(d, x) = Senders(c, x) /\ Takers(d, x) \subseteq Takers(c, x)
         /\ Takers(c, x) \ Takers(d, x) \subseteq {i} /\ i \notin Takers(d, x)
         /\ Zeroed(d, x) \subseteq Zeroed(c, x) /\ i \notin Zeroed(d, x)
         /\ \A j \in Chare : j \in Past(d, x) => j = i \/ j \in Past(c, x)
    <2>1. ASSUME NEW j \in Chare
          PROVE  /\ j \in Senders(d, x) <=> j \in Senders(c, x)
                 /\ j \in Takers(d, x) <=> j \in Takers(c, x) /\ j # i
                 /\ j \in Zeroed(d, x) => j \in Zeroed(c, x)
                 /\ j \in Past(d, x) => j = i \/ j \in Past(c, x)
      <3>1. CASE j # i
        BY <1>11, <3>1 DEF Senders, Takers, Zeroed, Past
      <3>2. CASE j = i
        <4>1. i \in Senders(d, x) /\ i \in Senders(c, x) /\ i \notin Takers(d, x)
          BY <1>0, <1>4, <1>11, SendersAre, TakersAre
        <4> QED BY <3>2, <4>1, ZeroedAre
      <3> QED BY <3>1, <3>2
    <2>2. /\ Senders(c, x) \subseteq Chare /\ Senders(d, x) \subseteq Chare /\ Takers(c, x) \subseteq Chare
          /\ Takers(d, x) \subseteq Chare /\ Zeroed(d, x) \subseteq Chare /\ Zeroed(d, x) \subseteq Takers(d, x)
      BY ZeroedAre
    <2>3. Senders(d, x) = Senders(c, x)
      BY <2>1, <2>2
    <2>4. /\ Takers(d, x) \subseteq Takers(c, x) /\ Takers(c, x) \ Takers(d, x) \subseteq {i} /\ i \notin Takers(d, x)
      BY <2>1, <2>2
    <2> QED BY <2>1, <2>2, <2>3, <2>4
  <1>16. Traded(d, x)'
    <2>1. Zeroed(c, x) \subseteq Chare
      BY ZeroedAre
    <2>2. ASSUME NEW j \in Chare
          PROVE  \/ /\ j \in Takers(d, x) \/ j \notin Takers(c, x)
                    /\ trigger'[j][own(x)] = trigger[j][own(x)]
                    /\ trigger'[j][com(x)] = trigger[j][com(x)]
                 \/ trigger'[j][own(x)] = 0 /\ trigger'[j][com(x)] = 0
      BY <1>10, <1>15
    <2>3. \A j \in Zeroed(d, x) : j \in Zeroed(c, x) /\ j \in Chare /\ buf'[j][x] = buf[j][x]
      BY <1>0, <1>2, <1>15, <2>1
    <2>4. GoesOn(c, d, x)
      BY <1>2, <1>4, <1>8, <1>12, <1>15, <2>2, <2>3 DEF GoesOn
    <2>5. Traded(c, x)
      BY <1>0, <1>1 DEF Exchanges
    <2> QED BY <2>4, <2>5, TradedGoesOn
  <1>17. Exchanges(d)'
    <2>1. ASSUME NEW y \in Kind, y # x PROVE Traded(d, y)'
      <3>1. \A j \in Chare : buf'[j][y] = buf[j][y]
        BY <1>2, <2>1
      <3>2. Untouched(y)
        BY <1>2, <1>8, <1>10, <2>1, <3>1 DEF Untouched
      <3>3. Traded(c, y)
        BY <1>1 DEF Exchanges
      <3> QED BY <1>14, <2>1, <3>2, <3>3, TradedKept
    <2>2. ASSUME NEW y \in Kind \cap {"rhs", "dif"}, NEW j \in Chare \ Takers(d, y) PROVE buf'[j][y] = {}
      <3>1. CASE y = x /\ j = i
        BY <1>2, <2>2, <3>1
      <3>2. CASE y # x \/ j # i
        <4>1. j \notin Takers(c, y)
          BY <1>14, <1>15, <2>2, <3>2 DEF SameFor
        <4>2. buf[j][y] = {}
          BY <1>1, <2>2, <4>1 DEF Exchanges
        <4> QED BY <1>2, <2>2, <3>2, <4>2
      <3> QED BY <3>1, <3>2
    <2>3. d.mesh = 0
      BY <1>5, <1>11
    <2>4. \A y \in Kind : Traded(d, y)'
      BY <1>0, <1>16, <2>1
    <2> QED BY <2>2, <2>3, <2>4 DEF Exchanges
  <1>18. Ahead(d)
    <2> SUFFICES ASSUME NEW y \in Kind, NEW j \in Past(d, y) PROVE Nbr[j] \subseteq Senders(d, y)
      BY DEF Ahead
    <2>1. j \in Chare
      BY PastAre
    <2>2. CASE y # x
      BY <1>1, <1>14, <2>1, <2>2 DEF Ahead, SameFor
    <2>3. CASE y = x
      <3>1. Nbr[i] \subseteq Senders(c, x)
        BY <1>4 DEF Arrived
      <3> QED BY <1>1, <1>15, <2>1, <2>3, <3>1 DEF Ahead
    <2> QED BY <2>2, <2>3
  <1>19. Stages(d)'
    <2>1. c.started /\ finished' = FALSE /\ d.round > 0 /\ d.round <= NStep
      BY <1>1, <1>2, <1>4, <1>5, <1>11 DEF Stages, Shape
    <2>2. ASSUME NEW j \in Chare
          PROVE  /\ d.stage[j] \in 7 .. 17 /\ (d.stage[j] = 16 => d.round = NStep)
                 /\ (d.stage[j] \in {14, 15, 17} => d.round < NStep) /\ (d.stage[j] \in {14, 15} => ~ Nonblocking)
      <3>1. CASE j = i
        BY <1>11, <3>1
      <3>2. CASE j # i
        BY <1>1, <1>4, <1>11, <3>2 DEF Stages
      <3> QED BY <3>1, <3>2
    <2> QED BY <1>11, <2>1, <2>2 DEF Stages
  <1>20. Diagnosing(d)
    <2> SUFFICES ASSUME NEW j \in Chare
                 PROVE  /\ d.diag[j] \in IF ~ Made(d, j) THEN {0}
                                         ELSE IF d.round % DiagFreq # 0 THEN {3}
                                         ELSE IF d.diagnosed THEN {2, 3} ELSE {1}
                        /\ d.round > 0 /\ d.stage[j] >= 12 => d.diag[j] = 3
      BY <1>5, <1>11 DEF Diagnosing
    <2>1. CASE j = i
      BY <1>5, <1>11, <1>13, <2>1 DEF D
    <2>2. CASE j # i
      BY <1>1, <1>11, <1>13, <2>2 DEF Diagnosing
    <2> QED BY <2>1, <2>2
  <1>21. Remeshing(d)
    <2> SUFFICES ASSUME NEW j \in Chare
                 PROVE  /\ d.ref[j] \in IF ~ Made(d, j) \/ ~ Refines(d.round) THEN {0} ELSE {1}
                        /\ Made(d, j) /\ d.stage[j] >= 12 /\ Refines(d.round) => d.ref[j] = 3 /\ d.lhs[j] = 3 /\ d.vol[j] = 6
      BY <1>5, <1>11 DEF Remeshing
    <2>1. CASE j = i
      BY <1>11, <1>13, <2>1 DEF R
    <2>2. CASE j # i
      BY <1>1, <1>5, <1>11, <1>13, <2>2 DEF Remeshing
    <2> QED BY <2>1, <2>2
  <1>22. Counters(d)'
    <2> SUFFICES ASSUME NEW j \in Chare
                 PROVE  /\ it'[j] = IF d.round > 0 /\ ~ Made(d, j) THEN d.round - 1 ELSE d.round
                        /\ itr'[j] = IF d.ref[j] = 3 THEN Base(d) + 1 ELSE Base(d)
      BY DEF Counters
    <2>1. it \in [Chare -> Nat]
      BY <1>1 DEF Shape
    <2>2. it'[j] = IF j = i THEN c.round ELSE it[j]
      BY <1>2, <1>6, <2>1
    <2>3. it[j] = IF c.round > 0 /\ ~ Made(c, j) THEN c.round - 1 ELSE c.round
      BY <1>1 DEF Counters
    <2>4. d.ref[j] # 3
      BY <1>5, <1>11
    <2> QED BY <1>2, <1>5, <1>11, <1>12, <1>13, <2>2, <2>3, <2>4
  <1>23. Expects(d)'
    <2>1. ASSUME NEW t, NEW j \in Chare, Expected(c, t, j) PROVE Expected(d, t, j)
      <3>1. CASE j = i
        BY <1>0, <1>4, <1>5, <1>11, <2>1, <3>1 DEF Expected
      <3>2. CASE j # i
        BY <1>11, <2>1, <3>2 DEF Expected
      <3> QED BY <3>1, <3>2
    <2>2. \A j \in Chare : c.stage[j] \in {3, 12} => d.stage[j] = c.stage[j]
      BY <1>0, <1>4, <1>11
    <2>3. Handled(c, d, {}, {})
      BY <1>3, <1>7, <2>1, <2>2 DEF Handled
    <2> QED BY <1>1, <2>3, HandledExpects
  <1>24. Contributions(d)'
    <2> SUFFICES ASSUME NEW j \in Chare PROVE ContributedBy(d, j)'
      BY DEF Contributions
    <2>1. ContributedBy(c, j)
      BY <1>1 DEF Contributions
    <2>2. ASSUME NEW a \in {"worker", "refiner", "disc", "sync"}, a # "refiner" \/ j # i
          PROVE  contrib'[a][j] = contrib[a][j]
      <3>1. a \in Array /\ (j = i => TargetsOn(a, e) = <<>>)
        BY <1>7, <2>2 DEF Array
      <3>2. contrib[a][j] \o <<>> = contrib[a][j]
        BY <1>1, <3>1, ContribSeq
      <3> QED BY <1>3, <3>1, <3>2
    <2>3. Complete("vol", About(d, "vol"), Senders(d, "vol"), j)' = Complete("vol", About(c, "vol"), Senders(c, "vol"), j)
      <3>1. OfKind("vol")' = OfKind("vol") /\ About(d, "vol") = About(c, "vol") /\ Senders(d, "vol") = Senders(c, "vol")
        BY <1>0, <1>8, <1>14, KindIs DEF SameFor
      <3> QED BY <3>1, VolKept
    <2>4. CASE j # i
      <3>1. \A a \in {"worker", "refiner", "disc", "sync"} : contrib'[a][j] = contrib[a][j]
        BY <2>2, <2>4
      <3>2. d.stage[j] = c.stage[j] /\ d.diag[j] = c.diag[j] /\ d.ref[j] = c.ref[j]
        BY <1>11, <2>4
      <3> QED BY <1>2, <1>11, <2>1, <2>3, <3>1, <3>2 DEF ContributedBy
    <2>5. CASE j = i
      <3>1. contrib["refiner"][i] = <<>>
        BY <1>5, <2>1, <2>5 DEF ContributedBy
      <3>2. contrib'["refiner"][i] = <<>> \o TargetsOn("refiner", e)
        <4>1. "refiner" \in Array
          BY DEF Array
        <4> QED BY <1>3, <3>1, <4>1
      <3>3. contrib'["refiner"][i] = IF D THEN IF R THEN <<"diagnostics", "matched">> ELSE <<"diagnostics">>
                                          ELSE IF R THEN <<"matched">> ELSE <<>>
        BY <1>7, <3>2, TargetFacts
      <3>4. contrib'["refiner"][i] =
              IF d.diag[i] = 1 THEN IF d.ref[i] = 1 THEN <<"diagnostics", "matched">> ELSE <<"diagnostics">>
                               ELSE IF d.ref[i] = 1 THEN <<"matched">> ELSE <<>>
        BY <1>11, <3>3
      <3>5. \A a \in {"worker", "disc", "sync"} : contrib'[a][i] = contrib[a][i]
        BY <2>2, <2>5
      <3>6. d.stage[i] = 11 /\ d.ref[i] # 3 /\ c.stage[i] \in {8, 10} /\ c.ref[i] # 3
        BY <1>0, <1>4, <1>5, <1>11
      <3> QED BY <1>2, <1>11, <2>1, <2>3, <2>5, <3>4, <3>5, <3>6 DEF ContributedBy
    <2> QED BY <2>4, <2>5
  <1>25. Ends(d)'
    <2>1. ASSUME NEW j \in Chare, NEW y \in {"diag", "ref", "lhs", "resize"}
          PROVE  \/ trigger'[j][done(y)] = trigger[j][done(y)] /\ (Ended(c, j, y) => Ended(d, j, y))
                 \/ trigger'[j][done(y)] = trigger[j][done(y)] + 1 /\ ~ Ended(c, j, y) /\ Ended(d, j, y)
      <3>1. CASE j = i /\ done(y) \in e.triggers
        <4>1. trigger'[j][done(y)] = trigger[j][done(y)] + 1
          BY <1>10, <3>1, ObjectFacts
        <4>2. ~ Ended(c, j, y)
          BY <1>5, <3>1 DEF Ended
        <4>3. IF y = "diag" THEN ~ D ELSE ~ R
          BY <1>7, <3>1, TriggersDiffer
        <4>4. Ended(d, j, y)
          BY <1>11, <1>13, <3>1, <4>3 DEF Ended, D, R
        <4> QED BY <4>1, <4>2, <4>4
      <3>2. CASE ~ (j = i /\ done(y) \in e.triggers)
        <4>1. trigger'[j][done(y)] = trigger[j][done(y)]
          BY <1>10, <3>2, ObjectFacts
        <4>2. CASE j = i
          BY <1>5, <4>1, <4>2 DEF Ended
        <4>3. CASE j # i
          BY <1>11, <1>13, <4>1, <4>3 DEF Ended
        <4> QED BY <4>2, <4>3
      <3> QED BY <3>1, <3>2
    <2>2. \A y \in {"disc", "work"} : trigger'[Host][done(y)] = trigger[Host][done(y)]
      BY <1>10, ObjectFacts
    <2>3. Ending(c, d)
      BY <1>11, <2>1, <2>2 DEF Ending
    <2> QED BY <1>1, <2>3, EndingEnds
  <1>26. Volumes(d)'
    <2> SUFFICES ASSUME NEW j \in Chare PROVE VolumesOf(d, j)'
      BY DEF Volumes
    <2>1. VolumesOf(c, j) /\ field'[j]["vol"] = field[j]["vol"]
      BY <1>0, <1>1, <1>9, KindIs DEF Volumes
    <2>2. c.ref[j] # 3 /\ d.ref[j] # 3
      BY <1>5, <1>11
    <2> QED BY <1>12, <2>1, <2>2 DEF VolumesOf
  <1>27. Shape'
    <2>1. it' \in [Chare -> Nat]
      BY <1>1, <1>2, <1>6 DEF Shape
    <2>2. \A j \in Chare, y \in Kind : field[j][y] \subseteq Parts /\ buf[j][y] \subseteq Parts
      BY <1>1 DEF Shape
    <2>3. ASSUME NEW j \in Chare, NEW y \in Kind PROVE field'[j][y] \cup buf'[j][y] \subseteq Parts
      <3>1. field'[j][y] \subseteq Parts
        BY <1>9, <2>2
      <3>2. buf'[j][y] \subseteq Parts
        BY <1>2, <2>2
      <3> QED BY <3>1, <3>2
    <2>4. NodeShape'
      <3>1. NodeShape
        BY <1>1 DEF Shape
      <3> QED BY <1>2, <1>9, <3>1 DEF NodeShape
    <2> QED BY <1>1, <1>2, <1>3, <1>9, <2>1, <2>3, <2>4 DEF Shape
  <1>28. Outputs(d)'
    <2>1. it \in [Chare -> Nat] /\ \A j \in Chare : it'[j] = IF j = i THEN it[i] + 1 ELSE it[j]
      BY <1>1, <1>2 DEF Shape
    <2>2. \A j \in Chare : /\ lastDump[j] \in -1 .. it[j] /\ itf[j] <= lastDump[j] + 1
                           /\ lastDump[j] = it[j] => IF c.round = 0 THEN c.stage[j] >= 3 ELSE c.stage[j] # 11
      BY <1>1 DEF Outputs
    <2>3. \A j \in Chare : /\ lastDump[j] \in -1 .. it'[j] /\ itf[j] <= lastDump[j] + 1
                           /\ lastDump[j] = it'[j] => d.stage[j] # 11
      <3> TAKE j \in Chare
      <3>1. CASE j = i
        BY <2>1, <2>2, <3>1
      <3>2. CASE j # i
        BY <1>4, <1>11, <2>1, <2>2, <3>2
      <3> QED BY <3>1, <3>2
    <2> QED BY <1>1, <1>2, <1>4, <1>11, <2>3 DEF Outputs
  <1>29. Waits(d)'
    <2> SUFFICES ASSUME NEW j \in Chare, NEW v \in Wait PROVE Due(j, v)' = IF j \in Open(d, v) THEN 1 ELSE 0
      BY DEF Waits, Open
    <2>1. Due(j, v) = IF j \in Open(c, v) THEN 1 ELSE 0
      BY <1>1 DEF Waits
    <2>2. CASE j # i
      <3>1. Due(j, v)' = Due(j, v)
        BY <1>3, <2>2, ObjectFacts
      <3>2. j \in Open(d, v) <=> j \in Open(c, v)
        BY <1>5, <1>11, <2>2 DEF Open
      <3> QED BY <2>1, <3>1, <3>2
    <2>3. CASE j = i
      <3>1. Due(i, v)' = IF v = w THEN Due(i, v) - 1 ELSE Due(i, v)
        BY <1>3, <1>7, <2>1, <2>3, ObjectFacts
      <3>2. i \in Open(c, w) /\ i \notin Open(d, w)
        BY <1>0, <1>4, <1>11 DEF Open
      <3>3. v # w => (i \in Open(d, v) <=> i \in Open(c, v))
        BY <1>0, <1>4, <1>5, <1>11, WaitFacts DEF Open
      <3> QED BY <2>1, <2>3, <3>1, <3>2, <3>3
    <2> QED BY <2>2, <2>3
  <1>30. Levels(d)'
    BY <1>11, <1>18, <1>19, <1>20, <1>21 DEF Levels, Diagnosing, Remeshing, Ahead, Made, Senders, Past
  <1>31. StepsInv(d)'
    BY <1>17, <1>22, <1>23, <1>24, <1>25, <1>26, <1>27, <1>28, <1>29, <1>30 DEF StepsInv
  <1>32. StepMade(c, d, i)
    BY <1>11 DEF StepMade
  <1> QED BY <1>2, <1>4, <1>5, <1>6, <1>31, <1>32

-----------------------------------------------------------------------------
\* All chares are done with a time step, or with what comes before the first: the mesh they
\* have is that of the next step, and nothing of the step is left.
RoundOver(c) ==
  /\ c.round < NStep /\ c.started /\ c.mesh \in {0, 4} /\ ~ finished
  /\ \A j \in Chare :
       /\ c.stage[j] = 17 /\ c.diag[j] \in {0, 3} /\ it[j] = c.round /\ itr[j] = MeshOf(c.round)
       /\ IF c.ref[j] = 3
          THEN /\ c.round > 0 /\ c.lhs[j] = 3 /\ c.vol[j] = 6 /\ c.disc /\ c.work /\ c.mesh = 4
               /\ Now(c) = MeshOf(c.round)
          ELSE /\ c.ref[j] = 0 /\ c.lhs[j] = 0 /\ c.vol[j] = 0 /\ c.mesh = 0
               /\ Base(c) = MeshOf(c.round)

\* They are when the last one is.
LEMMA RoundEnds ==
  ASSUME NEW c, StepsInv(c), \A j \in Chare : c.stage[j] = 17
  PROVE  RoundOver(c)
  <1>1. /\ c \in Config /\ Stages(c) /\ Diagnosing(c) /\ Remeshing(c) /\ Counters(c)
    BY PartsOfInv
  <1>2. PICK k \in Chare : TRUE
    BY ConstantFacts
  <1>3. c.round \in Nat /\ c.round < NStep /\ c.mesh \in 0 .. 4
    BY <1>1, <1>2, ConfigIs DEF Stages
  <1>4. ~ finished /\ c.started
    <2>1. ~ finished
      BY <1>1, <1>2 DEF Stages
    <2>2. CASE c.round = 0
      <3>1. c.stage[k] \in IF c.started THEN {2, 3, 4, 5, 17} ELSE {0, 1}
        BY <1>1, <2>2 DEF Stages
      <3> QED BY <1>1, <2>1, <3>1, ConfigIs
    <2>3. CASE c.round > 0
      BY <1>1, <2>1, <2>3 DEF Stages
    <2> QED BY <1>3, <2>2, <2>3
  <1>5. CASE c.round = 0
    <2>1. \A j \in Chare : ~ Made(c, j)
      BY <1>5 DEF Made
    <2>2. \A j \in Chare : c.diag[j] = 0 /\ c.ref[j] = 0
      BY <1>1, <2>1 DEF Diagnosing, Remeshing
    <2>3. c.mesh = 0
      BY <1>1, <1>2, <1>3, <2>1 DEF Remeshing
    <2>4. \A j \in Chare : c.lhs[j] = 0 /\ c.vol[j] = 0
      BY <1>1, <2>3 DEF Remeshing
    <2>5. Base(c) = 0 /\ MeshOf(c.round) = 0
      BY <1>5, MeshFacts DEF Base
    <2>6. \A j \in Chare : it[j] = c.round /\ itr[j] = MeshOf(c.round)
      BY <1>1, <1>5, <2>2, <2>5 DEF Counters
    <2> QED BY <1>3, <1>4, <2>2, <2>3, <2>4, <2>5, <2>6 DEF RoundOver
  <1>6. CASE c.round > 0 /\ Refines(c.round)
    <2>1. \A j \in Chare : Made(c, j)
      BY <1>6 DEF Made
    <2>2. \A j \in Chare : c.diag[j] = 3
      BY <1>1, <1>6 DEF Diagnosing
    <2>3. \A j \in Chare : c.ref[j] = 3 /\ c.lhs[j] = 3 /\ c.vol[j] = 6
      BY <1>1, <1>6, <2>1 DEF Remeshing
    <2>4. c.mesh = 4
      <3>1. c.vol[k] \in CASE c.mesh < 2 -> {0} [] c.mesh = 2 -> {1, 2} [] c.mesh = 3 -> {3, 4} [] OTHER -> {5, 6}
        BY <1>1 DEF Remeshing
      <3> QED BY <1>3, <2>3, <3>1
    <2>5. c.disc /\ c.work
      BY <1>1, <2>4 DEF Remeshing
    <2>6. Now(c) = MeshOf(c.round) /\ Now(c) = Base(c) + 1
      BY <1>1, <1>6, RoundFacts
    <2>7. \A j \in Chare : it[j] = c.round /\ itr[j] = MeshOf(c.round)
      BY <1>1, <2>1, <2>3, <2>6 DEF Counters
    <2> QED BY <1>3, <1>4, <1>6, <2>2, <2>3, <2>4, <2>5, <2>6, <2>7 DEF RoundOver
  <1>7. CASE c.round > 0 /\ ~ Refines(c.round)
    <2>1. \A j \in Chare : Made(c, j)
      BY <1>7 DEF Made
    <2>2. \A j \in Chare : c.diag[j] = 3
      BY <1>1, <1>7 DEF Diagnosing
    <2>3. \A j \in Chare : c.ref[j] = 0
      BY <1>1, <1>7 DEF Remeshing
    <2>4. c.mesh = 0
      BY <1>1, <1>3, <1>7 DEF Remeshing
    <2>5. \A j \in Chare : c.lhs[j] = 0 /\ c.vol[j] = 0
      BY <1>1, <2>4 DEF Remeshing
    <2>6. Base(c) = MeshOf(c.round)
      BY <1>1, <1>7, RoundFacts
    <2>7. \A j \in Chare : it[j] = c.round /\ itr[j] = MeshOf(c.round)
      BY <1>1, <2>1, <2>3, <2>6 DEF Counters
    <2> QED BY <1>3, <1>4, <2>2, <2>3, <2>4, <2>5, <2>6, <2>7 DEF RoundOver
  <1> QED BY <1>3, <1>5, <1>6, <1>7

\* The round has just started.
Fresh(d) ==
  /\ d.started /\ d.mesh = 0 /\ ~ d.diagnosed /\ ~ d.disc /\ ~ d.work
  /\ \A j \in Chare : d.stage[j] = 7 /\ d.diag[j] = 0 /\ d.ref[j] = 0 /\ d.lhs[j] = 0 /\ d.vol[j] = 0

\* There is such a configuration.
LEMMA FreshSet ==
  ASSUME NEW n \in Nat
  PROVE  \E d \in Config : d.round = n /\ Fresh(d)
  <1> DEFINE z == [j \in Chare |-> 0]
             s == [j \in Chare |-> 7]
             d == [round |-> n, stage |-> s, diag |-> z, ref |-> z, lhs |-> z, vol |-> z, mesh |-> 0, started |-> TRUE,
                   diagnosed |-> FALSE, disc |-> FALSE, work |-> FALSE]
  <1>1. /\ z \in [Chare -> 0 .. 3] /\ z \in [Chare -> 0 .. 6] /\ s \in [Chare -> 0 .. 17]
        /\ \A j \in Chare : z[j] = 0 /\ s[j] = 7
    OBVIOUS
  <1> HIDE DEF z, s
  <1>2. d \in Config /\ d.round = n /\ Fresh(d)
    BY <1>1 DEF Config, Fresh
  <1> QED BY <1>2

\* It is the next one after that of c.
Restarts(c, d) == RoundOver(c) /\ d.round = c.round + 1 /\ Fresh(d)

\* Transporter::advance: all chares start the next time step.
LEMMA NextRoundKeeps ==
  ASSUME NEW c, StepsInv(c), Target("worker", "advance", Posts({"resize"}) ++ Calls(Broadcast("advance")))
  PROVE  \E d : StepsInv(d)' /\ Restarts(c, d)
  <1> DEFINE e == Posts({"resize"}) ++ Calls(Broadcast("advance"))
  <1>1. /\ c \in Config /\ Shape /\ Stages(c) /\ Diagnosing(c) /\ Remeshing(c) /\ Ahead(c) /\ Counters(c)
        /\ Expects(c) /\ Contributions(c) /\ Ends(c) /\ Exchanges(c) /\ Waits(c) /\ Volumes(c) /\ Outputs(c)
    BY PartsOfInv
  <1>2. Reduce("worker", "advance", e) /\ UNCHANGED <<stepVars, fileVars, refined, nodeVars>>
    BY DEF Target
  <1>3. e.calls = Broadcast("advance") /\ e.triggers = {}
    <2> DEFINE p == Posts({"resize"})
               q == Calls(Broadcast("advance"))
    <2>1. p.calls = {} /\ p.triggers = {} /\ q.calls = Broadcast("advance") /\ q.triggers = {}
      BY EffectFacts
    <2>2. e = p ++ q
      OBVIOUS
    <2> HIDE DEF e, p, q
    <2>3. /\ e.calls = p.calls \cup q.calls /\ e.triggers = p.triggers \cup q.triggers
          /\ \A a : TargetsOn(a, e) = TargetsOn(a, p) \o TargetsOn(a, q)
      BY <2>2, ThenFacts
    <2> QED BY <2>1, <2>3
  <1> HIDE DEF e
  <1>4. /\ Frame /\ CharmShape'
        /\ msgs' = msgs \cup e.calls
        /\ \A o \in Object, y \in {"diag", "ref", "lhs", "resize", "disc", "work"} :
             trigger'[o][done(y)] = IF o = Host /\ done(y) \in e.triggers THEN trigger[o][done(y)] + 1
                                                                          ELSE trigger[o][done(y)]
        /\ \A i \in Chare : contrib["worker"][i] # <<>> /\ Head(contrib["worker"][i]) = "advance"
        /\ \A b \in Array, i \in Chare : contrib'[b][i] = IF b = "worker" THEN Tail(contrib[b][i]) ELSE contrib[b][i]
        /\ \A j \in Chare, w \in Wait : Due(j, w)' = Due(j, w)
    <2>1. UNCHANGED <<it, itr, field, buf, count>> /\ "worker" \in Array
      BY <1>2 DEF stepVars, nodeVars, Array
    <2>2. \A n \in e.calls : n.type # "com"
      BY <1>3, BroadcastIs
    <2> QED BY <1>2, <2>1, <2>2, PlainReduce
  <1>5. \A i \in Chare : c.stage[i] = 17 /\ Tail(contrib["worker"][i]) = <<>>
    BY <1>1, <1>4, Heads DEF Contributions
  <1>6. RoundOver(c) /\ c.round \in Nat
    BY <1>1, <1>5, RoundEnds, ConfigIs
  <1>7. PICK d \in Config : d.round = c.round + 1 /\ Fresh(d)
    BY <1>6, FreshSet
  <1>8. Base(d) = MeshOf(c.round)
    BY <1>6, <1>7 DEF Base
  <1>9. \A j \in Chare : ~ Made(d, j)
    BY <1>7 DEF Made, Fresh
  <1>10. UNCHANGED <<it, itr, field, buf, count, itf, lastDump, refined, finished>>
    BY <1>2 DEF stepVars, nodeVars, fileVars
  <1>11. \A x \in Kind : Senders(d, x) = {} /\ Past(d, x) = {}
    <2> SUFFICES ASSUME NEW x \in Kind, NEW j \in Chare PROVE j \notin Senders(d, x) /\ j \notin Past(d, x)
      BY ZeroedAre, PastAre
    <2>1. d.round > 0 /\ d.stage[j] = 7 /\ d.lhs[j] = 0 /\ d.vol[j] = 0
      BY <1>6, <1>7 DEF Fresh
    <2>2. CASE x \in StepKind
      BY <2>1, <2>2, SendersAre, PastAre, StageIs
    <2>3. CASE x \in {"lhs", "vol"}
      BY <2>1, <2>3, SendersAre, PastAre
    <2> QED BY <2>2, <2>3, KindIs
  <1>12. \A x \in Kind : Takers(c, x) = {}
    <2> SUFFICES ASSUME NEW x \in Kind, NEW j \in Chare PROVE j \notin Takers(c, x)
      BY ZeroedAre
    <2>1. c.stage[j] = 17 /\ (c.ref[j] = 3 => c.lhs[j] = 3 /\ c.vol[j] = 6)
      BY <1>6 DEF RoundOver
    <2>2. CASE x \in StepKind
      BY <2>1, <2>2, TakersAre, StageIs
    <2>3. CASE x \in {"lhs", "vol"}
      BY <2>1, <2>3, TakersAre
    <2> QED BY <2>2, <2>3, KindIs
  <1>13. Exchanges(d)'
    <2>1. ASSUME NEW x \in Kind PROVE Traded(d, x)'
      <3>1. Traded(c, x)
        BY <1>1 DEF Exchanges
      <3>2. /\ OfKind(x) = {} /\ \A j \in Chare : count[j][x] = 0
            /\ x # "vol" => \A j \in Chare : trigger[j][own(x)] = 0 /\ trigger[j][com(x)] = 0
        BY <1>12, <3>1, TradedIdle
      <3>3. \A j \in Zeroed(d, x) : buf'[j][x] = {}
        <4> SUFFICES ASSUME NEW j \in Zeroed(d, x) PROVE buf[j][x] = {}
          BY <1>10
        <4>1. j \in Chare
          BY ZeroedAre
        <4>2. x \in Kind \cap {"rhs", "dif"}
          BY <1>7, <4>1, ZeroedAre, TakersAre, KindIs DEF Fresh
        <4> QED BY <1>1, <1>12, <4>1, <4>2 DEF Exchanges
      <3>4. OfKind(x)' = {} /\ (\A j \in Chare : count'[j][x] = 0)
            /\ (x # "vol" => \A j \in Chare : trigger'[j][own(x)] = 0 /\ trigger'[j][com(x)] = 0)
        BY <1>4, <3>2 DEF Frame
      <3> QED BY <1>11, <3>3, <3>4, TradedStarts
    <2>2. \A x \in Kind \cap {"rhs", "dif"} : \A j \in Chare : buf'[j][x] = {}
      BY <1>1, <1>10, <1>12, KindIs DEF Exchanges
    <2>3. d.mesh = 0
      BY <1>7 DEF Fresh
    <2> QED BY <2>1, <2>2, <2>3 DEF Exchanges
  <1>14. Ahead(d)
    BY <1>11 DEF Ahead
  <1>15. Stages(d)'
    <2>1. \A j \in Chare : d.stage[j] = 7
      BY <1>7 DEF Fresh
    <2>2. d.started /\ d.round > 0 /\ d.round <= NStep /\ ~ finished'
      BY <1>6, <1>7, <1>10, ConstantFacts DEF RoundOver, Fresh
    <2> QED BY <2>1, <2>2 DEF Stages
  <1>16. Diagnosing(d) /\ Remeshing(d)
    BY <1>7, <1>9 DEF Diagnosing, Remeshing, Fresh
  <1>17. Counters(d)'
    <2>1. \A j \in Chare : it[j] = c.round /\ itr[j] = Base(d)
      BY <1>6, <1>8 DEF RoundOver
    <2>2. d.round > 0 /\ d.round - 1 = c.round /\ \A j \in Chare : d.ref[j] # 3
      BY <1>6, <1>7 DEF Fresh
    <2> QED BY <1>9, <1>10, <2>1, <2>2 DEF Counters
  <1>18. Expects(d)'
    <2>1. ASSUME NEW t, NEW j \in Chare, Expected(c, t, j) PROVE Expected(d, t, j)
      BY <1>6, <2>1 DEF RoundOver, Expected
    <2>2. ASSUME NEW n \in e.calls
          PROVE  Plain(n) /\ n.to \in Chare /\ n = [type |-> n.type, to |-> n.to] /\ Expected(d, n.type, n.to)
      BY <1>3, <1>7, BroadcastIs DEF Plain, Expected, Fresh
    <2>3. Handled(c, d, {}, e.calls)
      BY <1>4, <1>5, <2>1, <2>2 DEF Handled
    <2> QED BY <1>1, <2>3, HandledExpects
  <1>19. Contributions(d)'
    <2> SUFFICES ASSUME NEW j \in Chare PROVE ContributedBy(d, j)'
      BY DEF Contributions
    <2>1. /\ contrib'["disc"][j] = contrib["disc"][j] /\ contrib'["refiner"][j] = contrib["refiner"][j]
          /\ contrib'["sync"][j] = contrib["sync"][j]
          /\ contrib'["worker"][j] = <<>>
      BY <1>4, <1>5 DEF Array
    <2>2. ContributedBy(c, j)
      BY <1>1 DEF Contributions
    <2>3. /\ c.stage[j] = 17 /\ c.diag[j] # 1 /\ c.ref[j] # 1 /\ (c.ref[j] = 3 => c.disc /\ c.work)
          /\ c.vol[j] \notin {1, 2, 4}
      BY <1>6 DEF RoundOver
    <2>4. contrib["disc"][j] = <<>> /\ contrib["refiner"][j] = <<>>
      BY <2>2, <2>3 DEF ContributedBy
    <2>5. contrib["sync"][j] \in Seq({"sync"}) /\ (~ Nonblocking => contrib["sync"][j] = <<>>)
      BY <2>2, <2>3 DEF ContributedBy
    <2>6. <<>> # <<"vol">>
      OBVIOUS
    <2>7. d.stage[j] = 7 /\ d.diag[j] = 0 /\ d.ref[j] = 0 /\ d.vol[j] = 0
      BY <1>7 DEF Fresh
    <2> QED BY <2>1, <2>4, <2>5, <2>6, <2>7 DEF ContributedBy
  <1>20. Ends(d)'
    <2>1. \A j \in Chare, y \in {"diag", "ref", "lhs", "resize"} : trigger[j][done(y)] = 0
      BY <1>1, <1>5, NoSignals
    <2>2. trigger[Host][done("disc")] = 0 /\ trigger[Host][done("work")] = 0
      BY <1>1, <1>6 DEF Ends, RoundOver
    <2>3. /\ \A j \in Chare, y \in {"diag", "ref", "lhs", "resize"} : trigger'[j][done(y)] = 0
          /\ trigger'[Host][done("disc")] = 0 /\ trigger'[Host][done("work")] = 0
      BY <1>3, <1>4, <2>1, <2>2, ObjectFacts
    <2> QED BY <1>7, <2>3 DEF Ends, Fresh
  <1>21. Volumes(d)'
    <2> SUFFICES ASSUME NEW j \in Chare PROVE VolumesOf(d, j)'
      BY DEF Volumes
    <2>1. VolumesOf(c, j)
      BY <1>1 DEF Volumes
    <2>2. IF c.ref[j] = 3 THEN c.vol[j] = 6 /\ Now(c) = MeshOf(c.round) ELSE Base(c) = MeshOf(c.round)
      BY <1>6 DEF RoundOver
    <2>3. field[j]["vol"] = Full(j, OfMesh(MeshOf(c.round)))
      BY <2>1, <2>2 DEF VolumesOf
    <2>4. d.ref[j] = 0
      BY <1>7 DEF Fresh
    <2> QED BY <1>8, <1>10, <2>3, <2>4 DEF VolumesOf
  <1>26. Waits(d)'
    <2> SUFFICES ASSUME NEW j \in Chare, NEW w \in Wait PROVE Due(j, w)' = IF j \in Open(d, w) THEN 1 ELSE 0
      BY DEF Waits, Open
    <2>1. Due(j, w)' = IF j \in Open(c, w) THEN 1 ELSE 0
      BY <1>1, <1>4 DEF Waits
    <2>2. /\ c.stage[j] = 17 /\ (c.ref[j] = 3 => c.lhs[j] = 3) /\ d.stage[j] = 7 /\ d.ref[j] = 0 /\ d.round > 0
      BY <1>6, <1>7 DEF RoundOver, Fresh
    <2>3. j \in Open(c, w) <=> w \in {"rhs", "out"}
      BY <2>2 DEF Open
    <2>4. j \in Open(d, w) <=> w \in {"rhs", "out"}
      BY <2>2 DEF Open
    <2> QED BY <2>1, <2>3, <2>4
  <1>22. Shape'
    BY <1>1, <1>4, <1>10 DEF Shape, NodeShape
  <1>23. Outputs(d)'
    <2>1. d.round > 0 /\ \A j \in Chare : d.stage[j] = 7
      BY <1>6, <1>7 DEF Fresh
    <2> QED BY <1>1, <1>10, <2>1 DEF Outputs
  <1>24. Levels(d)'
    BY <1>7, <1>14, <1>15, <1>16 DEF Levels, Diagnosing, Remeshing, Ahead, Made, Senders, Past
  <1>25. StepsInv(d)'
    BY <1>13, <1>17, <1>18, <1>19, <1>20, <1>21, <1>22, <1>23, <1>24, <1>26 DEF StepsInv
  <1> QED BY <1>6, <1>7, <1>25 DEF Restarts

-----------------------------------------------------------------------------
\* Before anything has happened.
Unstarted(c) ==
  /\ c.round = 0 /\ c.mesh = 0 /\ ~ c.started /\ ~ c.diagnosed /\ ~ c.disc /\ ~ c.work
  /\ \A j \in Chare : c.stage[j] = 0 /\ c.diag[j] = 0 /\ c.ref[j] = 0 /\ c.lhs[j] = 0 /\ c.vol[j] = 0

\* There is a configuration for it.
LEMMA UnstartedSet == \E c \in Config : Unstarted(c)
  <1> DEFINE z == [j \in Chare |-> 0]
             c == [round |-> 0, stage |-> z, diag |-> z, ref |-> z, lhs |-> z, vol |-> z, mesh |-> 0, started |-> FALSE,
                   diagnosed |-> FALSE, disc |-> FALSE, work |-> FALSE]
  <1>1. /\ z \in [Chare -> 0 .. 3] /\ z \in [Chare -> 0 .. 6] /\ z \in [Chare -> 0 .. 17]
        /\ \A j \in Chare : z[j] = 0
    OBVIOUS
  <1> HIDE DEF z
  <1>2. c \in Config /\ Unstarted(c)
    BY <1>1 DEF Config, Unstarted
  <1> QED BY <1>2

\* The volumes the first step starts with are those of the initial mesh.
LEMMA InitialVolumes ==
  ASSUME DiscretizationInit
  PROVE  \A i \in Chare : /\ field[i]["vol"] = Full(i, OfMesh(0)) /\ field[i]["vol"] \subseteq Parts
                          /\ buf[i]["vol"] \subseteq Parts
                          /\ \A x \in Kind \ {"vol"} : field[i][x] = {} /\ buf[i][x] = {}
  <1> SUFFICES ASSUME NEW i \in Chare
               PROVE  /\ field[i]["vol"] = Full(i, OfMesh(0)) /\ field[i]["vol"] \subseteq Parts
                      /\ buf[i]["vol"] \subseteq Parts
                      /\ \A x \in Kind \ {"vol"} : field[i][x] = {} /\ buf[i][x] = {}
    OBVIOUS
  <1>1. "vol" \in Kind /\ NStep \in Nat /\ DtFreq \in Nat /\ Nbr[i] \subseteq Chare
    BY KindIs, ConstantFacts, NbrFacts
  <1>2. \A j \in Chare : Part(j, "vol") = PartOf(j, OfMesh(0)) /\ Part(j, "vol") \in Parts
    <2> SUFFICES ASSUME NEW j \in Chare PROVE Part(j, "vol") = PartOf(j, OfMesh(0)) /\ Part(j, "vol") \in Parts
      OBVIOUS
    <2>1. itr[j] = 0 /\ "vol" \in MeshKind
      BY DEF DiscretizationInit, MeshKind
    <2>2. Part(j, "vol") = [from |-> j, it |-> 0 * DtFreq, itr |-> 0] /\ 0 * DtFreq = 0
      BY <1>1, <2>1 DEF Part
    <2> QED BY <1>1, <2>2 DEF PartOf, OfMesh, Parts
  <1>3. field[i]["vol"] = {Part(j, "vol") : j \in Nbr[i] \cup {i}} /\ buf[i]["vol"] = {Part(j, "vol") : j \in Nbr[i]}
    BY <1>1 DEF DiscretizationInit
  <1>4. \A x \in Kind \ {"vol"} : field[i][x] = {} /\ buf[i][x] = {}
    BY DEF DiscretizationInit
  <1> QED BY <1>1, <1>2, <1>3, <1>4 DEF Full, PartsOf

\* The initial state.
LEMMA InitHolds ==
  ASSUME DiscretizationInit
  PROVE  \E c : StepsInv(c) /\ Unstarted(c)
  <1>1. PICK c \in Config : Unstarted(c)
    BY UnstartedSet
  <1>2. /\ msgs = Broadcast("create")
        /\ trigger = [o \in Object |-> [t \in Trigger |-> 0]]
        /\ contrib = [a \in Array |-> [i \in Chare |-> <<>>]]
        /\ \A i \in Chare : it[i] = 0 /\ itr[i] = 0 /\ itf[i] = 0 /\ lastDump[i] = -1
        /\ it \in [Chare -> Nat] /\ itr \in [Chare -> Nat] /\ itf \in [Chare -> Nat]
        /\ lastDump \in [Chare -> Int] /\ refined \in [Chare -> BOOLEAN]
        /\ count = [i \in Chare |-> [x \in Kind |-> 0]]
        /\ finished = FALSE
    BY DEF DiscretizationInit, CharmInit
  <1>3. NStep \in Nat \ {0} /\ Base(c) = 0 /\ Now(c) = 0 /\ \A j \in Chare : ~ Made(c, j)
    BY <1>1, ConstantFacts DEF Base, Now, Made, Unstarted
  <1>4. Shape
    <2>1. CharmShape
      <3>1. /\ posting = [o \in Object |-> [v \in Wait |-> IF o \in Chare /\ v \in {} THEN 1 ELSE 0]]
            /\ waiting = [o \in Object |-> [v \in Wait |-> 0]]
        BY DEF DiscretizationInit, CharmInit
      <3> QED BY <1>2, <3>1 DEF CharmShape
    <2>2. /\ buf = [i \in Chare |-> [x \in Kind |-> buf[i][x]]]
          /\ field = [i \in Chare |-> [x \in Kind |-> field[i][x]]]
      BY DEF DiscretizationInit
    <2>3. count \in [Chare -> [Kind -> Nat]]
      BY <1>2
    <2>4. NodeShape
      BY <2>2, <2>3 DEF NodeShape
    <2>6. \A i \in Chare, x \in Kind : field[i][x] \subseteq Parts /\ buf[i][x] \subseteq Parts
      <3> SUFFICES ASSUME NEW i \in Chare, NEW x \in Kind PROVE field[i][x] \subseteq Parts /\ buf[i][x] \subseteq Parts
        OBVIOUS
      <3>1. CASE x = "vol"
        BY <3>1, InitialVolumes
      <3>2. CASE x # "vol"
        BY <3>2, InitialVolumes
      <3> QED BY <3>1, <3>2
    <2>7. \A i \in Chare, x \in Kind : field[i][x] \cup buf[i][x] \subseteq Parts
      BY <2>6
    <2> QED BY <1>2, <2>1, <2>4, <2>7 DEF Shape
  <1>5. \A x \in Kind : Senders(c, x) = {} /\ Past(c, x) = {}
    <2> SUFFICES ASSUME NEW x \in Kind, NEW j \in Chare PROVE j \notin Senders(c, x) /\ j \notin Past(c, x)
      BY ZeroedAre, PastAre
    <2>1. c.round = 0 /\ c.stage[j] = 0 /\ c.vol[j] = 0
      BY <1>1 DEF Unstarted
    <2>2. CASE x \in StepKind
      BY <2>1, <2>2, SendersAre, PastAre
    <2>3. CASE x \in {"lhs", "vol"}
      BY <2>1, <2>3, SendersAre, PastAre
    <2> QED BY <2>2, <2>3, KindIs
  <1>6. Levels(c)
    BY <1>1, <1>2, <1>3, <1>5 DEF Levels, Stages, Diagnosing, Remeshing, Ahead, Unstarted
  <1>7. Counters(c)
    BY <1>1, <1>2, <1>3 DEF Counters, Unstarted
  <1>8. Expects(c)
    <2>1. \A m \in msgs : \E j \in Chare : m = [type |-> "create", to |-> j]
      BY <1>2, BroadcastIs
    <2>2. \A m \in msgs : m.type = "create" /\ m.to \in Chare /\ m = [type |-> m.type, to |-> m.to]
      BY <2>1
    <2> QED BY <1>1, <2>2 DEF Expects, Expected, Unstarted
  <1>9. Contributions(c)
    <2>1. \A a \in Array, j \in Chare : contrib[a][j] = <<>>
      BY <1>2
    <2>2. {"disc", "worker", "refiner", "sync"} \subseteq Array /\ <<>> # <<"vol">> /\ <<>> \in Seq({"sync"})
      BY DEF Array
    <2> SUFFICES ASSUME NEW j \in Chare PROVE ContributedBy(c, j)
      BY DEF Contributions
    <2>3. /\ contrib["worker"][j] = <<>> /\ contrib["refiner"][j] = <<>>
          /\ contrib["disc"][j] = <<>> /\ contrib["sync"][j] = <<>>
      BY <2>1, <2>2
    <2>4. c.stage[j] = 0 /\ c.diag[j] = 0 /\ c.ref[j] = 0 /\ c.vol[j] = 0
      BY <1>1 DEF Unstarted
    <2> QED BY <2>2, <2>3, <2>4 DEF ContributedBy
  <1>10. Ends(c)
    <2>1. \A j \in Chare, y \in {"diag", "ref", "lhs", "resize"} : trigger[j][done(y)] = 0
      BY <1>2, ObjectFacts, TriggerFacts
    <2>2. trigger[Host][done("disc")] = 0 /\ trigger[Host][done("work")] = 0
      BY <1>2, ObjectFacts, TriggerFacts
    <2> QED BY <1>1, <2>1, <2>2 DEF Ends, Unstarted
  <1>11. \A x \in Kind : OfKind(x) = {}
    <2>1. \A m \in msgs : m.type = "create"
      BY <1>2, BroadcastIs
    <2> QED BY <2>1 DEF OfKind
  <1>12. Exchanges(c)
    <2>1. ASSUME NEW x \in Kind PROVE Traded(c, x)
      <3>1. \A j \in Chare : Arrived(x, About(c, x), {}, j) = {} /\ count[j][x] = 0
        BY <1>2 DEF Arrived
      <3>2. \A j \in Zeroed(c, x) : j \in Chare /\ buf[j][x] = {}
        <4> SUFFICES ASSUME NEW j \in Zeroed(c, x) PROVE j \in Chare /\ buf[j][x] = {}
          OBVIOUS
        <4>1. j \in Chare /\ j \in Takers(c, x)
          BY ZeroedAre
        <4>2. x # "vol"
          BY <1>1, <4>1, TakersAre DEF Unstarted
        <4> QED BY <4>1, <4>2, InitialVolumes
      <3>3. Cardinality({}) = 0
        BY FS_EmptySet
      <3>4. Exchange(x, {}, Takers(c, x), Zeroed(c, x), About(c, x))
        BY <1>11, <3>1, <3>2, <3>3 DEF Exchange, PartsOf
      <3>5. x # "vol" => \A j \in Chare : trigger[j][own(x)] = 0 /\ trigger[j][com(x)] = 0
        BY <1>2, ObjectFacts, TriggerFacts
      <3>6. x # "vol" => Signalled(x, {}, Takers(c, x), About(c, x))
        BY <3>5 DEF Signalled
      <3> QED BY <1>5, <3>4, <3>6 DEF Traded
    <2>2. \A x \in Kind \cap {"rhs", "dif"} : \A j \in Chare : buf[j][x] = {}
      BY KindIs, InitialVolumes
    <2> QED BY <1>1, <2>1, <2>2 DEF Exchanges, Unstarted
  <1>13. Volumes(c)
    <2> SUFFICES ASSUME NEW j \in Chare PROVE VolumesOf(c, j)
      BY DEF Volumes
    <2>1. field[j]["vol"] = Full(j, OfMesh(0))
      BY InitialVolumes
    <2> QED BY <1>1, <1>3, <2>1 DEF VolumesOf, Unstarted
  <1>14. Outputs(c)
    BY <1>1, <1>2 DEF Outputs, Unstarted
  <1>15. Waits(c)
    <2> SUFFICES ASSUME NEW j \in Chare, NEW w \in Wait PROVE Due(j, w) = IF j \in Open(c, w) THEN 1 ELSE 0
      BY DEF Waits
    <2>1. /\ posting = [o \in Object |-> [v \in Wait |-> IF o \in Chare /\ v \in {} THEN 1 ELSE 0]]
          /\ waiting = [o \in Object |-> [v \in Wait |-> 0]]
      BY DEF DiscretizationInit, CharmInit
    <2>2. posting[j][w] = 0 /\ waiting[j][w] = 0
      BY <2>1, ObjectFacts
    <2>3. j \notin Open(c, w)
      BY <1>1 DEF Open, Unstarted
    <2> QED BY <2>2, <2>3 DEF Due
  <1> QED BY <1>1, <1>4, <1>6, <1>7, <1>8, <1>9, <1>10, <1>12, <1>13, <1>14, <1>15 DEF StepsInv

-----------------------------------------------------------------------------
\* The fields sent from stage k.
SentAt(k) == {x \in StepKind : StageOf[x] = k}

\* Effect e is to send them to the neighbours of chare i, and to post the waits ws.
SendsAll(i, k, ws, e) ==
  /\ e.calls = UNION {ComCalls(i, x) : x \in SentAt(k)}
  /\ e.triggers = {own(x) : x \in SentAt(k)} \cup (IF Nbr[i] = {} THEN {com(x) : x \in SentAt(k)} ELSE {})
  /\ e.posts = ws /\ \A a : TargetsOn(a, e) = <<>>

\* The buffers zeroed in stage k.
ZeroedAt(k) == IF k = 7 THEN {"aec", "alw", "lim"} ELSE IF k = 8 THEN {"rhs", "dif"} ELSE {}

\* What a handler of the middle of a step does to fields and buffers of chare i.
StepsOn(i, k) ==
  /\ UNCHANGED <<it, itr, itf, lastDump, refined, finished, count>>
  /\ buf' = [j \in Chare |-> [x \in Kind |-> buf'[j][x]]]
  /\ field' = [j \in Chare |-> [x \in Kind |-> field'[j][x]]]
  /\ \A x \in Kind, j \in Chare : buf'[j][x] = IF j = i /\ x \in ZeroedAt(k) THEN {} ELSE buf[j][x]
  /\ \A x \in Kind, j \in Chare : j # i \/ x \in MeshKind => field'[j][x] = field[j][x]
  /\ \A x \in StepKind : field'[i][x] \subseteq field[i][x] \cup buf[i][x] \cup {Part(i, x)}

\* The wait whose body it is, in stages 8 and 9; its triggers.
WaitAt == [k \in 8 .. 9 |-> IF k = 8 THEN "rhs" ELSE "fct"]
NeedsAt(k) == {own(x) : x \in SentAt(k)} \cup {com(x) : x \in SentAt(k)}

\* What it does to calls, triggers and waits: it sends the fields of the next stage.
GoesOnward(i, k, e) ==
  /\ msgs' = {n \in msgs : n.type # "advance" \/ n.to # i} \cup e.calls
  /\ CharmShape' /\ Adds(i, e)
  /\ \A o \in Object, t \in Trigger :
       trigger'[o][t] = IF o # i THEN trigger[o][t]
                        ELSE (IF t \in NeedsAt(k) THEN trigger[o][t] - 1 ELSE trigger[o][t]) + (IF t \in e.triggers THEN 1 ELSE 0)
  /\ \A o \in Object, v \in Wait :
       Due(o, v)' = IF o # i THEN Due(o, v)
                    ELSE (IF k > 7 /\ v = WaitAt[k] THEN Due(o, v) - 1 ELSE Due(o, v)) + (IF v \in e.posts THEN 1 ELSE 0)

\* It has heard from all neighbours about the fields of this stage.
HeardAll(c, i, k) ==
  \A x \in SentAt(k) :
    /\ trigger[i][own(x)] = 1 /\ trigger[i][com(x)] = 1
    /\ Arrived(x, About(c, x), Senders(c, x), i) = Nbr[i]
    /\ buf[i][x] = PartsOf(Nbr[i], About(c, x))

\* Chare i is one stage further in its step.
Further(c, d, i) ==
  /\ c \in Config /\ c.round \in Nat \ {0} /\ c.stage[i] \in 7 .. 9
  /\ d.stage = [c.stage EXCEPT ![i] = @ + 1] /\ SameRest(c, d)
  /\ \A x \in StepKind : Part(i, x) = PartOf(i, About(c, x))

\* The waits of a chare that goes on in its step.
LEMMA FurtherWaits ==
  ASSUME NEW c, StepsInv(c), NEW i \in Chare, NEW k \in 7 .. 9, c.round > 0, c.stage[i] = k, NEW e,
         e.posts = IF k = 7 THEN Wait \cap {"fct", "app"} ELSE {}, GoesOnward(i, k, e),
         NEW d \in Config, d.stage = [c.stage EXCEPT ![i] = @ + 1], SameRest(c, d)
  PROVE  Waits(d)'
  <1> SUFFICES ASSUME NEW j \in Chare, NEW w \in Wait PROVE Due(j, w)' = IF j \in Open(d, w) THEN 1 ELSE 0
    BY DEF Waits, Open
  <1>1. Due(j, w) = IF j \in Open(c, w) THEN 1 ELSE 0
    BY PartsOfInv DEF Waits
  <1>2. /\ Due(j, w)' = IF j # i THEN Due(j, w)
                        ELSE (IF k > 7 /\ w = WaitAt[k] THEN Due(j, w) - 1 ELSE Due(j, w)) + (IF w \in e.posts THEN 1 ELSE 0)
        /\ w \in {"lhs", "rhs", "out", "fct", "app", "resize"}
    BY ObjectFacts, WaitFacts DEF GoesOnward
  <1>3. /\ c.stage \in [Chare -> 0 .. 17] /\ d.stage[i] = k + 1 /\ \A l \in Chare \ {i} : d.stage[l] = c.stage[l]
        /\ d.round = c.round /\ d.ref = c.ref /\ d.lhs = c.lhs /\ c.round > 0
    BY PartsOfInv, ConfigIs DEF SameRest
  <1>4. CASE j # i
    <2>1. j \in Open(d, w) <=> j \in Open(c, w)
      BY <1>3, <1>4 DEF Open
    <2> QED BY <1>1, <1>2, <1>4, <2>1
  <1>5. CASE j = i /\ k = 7
    <2>1. i \in Open(c, w) <=> w \in {"rhs", "out"} \/ (w = "lhs" /\ c.ref[i] = 3 /\ c.lhs[i] <= 2)
      BY <1>3, <1>5 DEF Open
    <2>2. i \in Open(d, w) <=> w \in {"rhs", "out", "fct", "app"} \/ (w = "lhs" /\ c.ref[i] = 3 /\ c.lhs[i] <= 2)
      BY <1>3, <1>5 DEF Open
    <2>3. Due(i, w)' = Due(i, w) + (IF w \in {"fct", "app"} THEN 1 ELSE 0)
      BY <1>2, <1>5
    <2> QED BY <1>1, <1>5, <2>1, <2>2, <2>3
  <1>6. CASE j = i /\ k = 8
    <2>1. i \in Open(c, w) <=> w \in {"rhs", "out", "fct", "app"} \/ (w = "lhs" /\ c.ref[i] = 3 /\ c.lhs[i] <= 2)
      BY <1>3, <1>6 DEF Open
    <2>2. i \in Open(d, w) <=> w \in {"out", "fct", "app"} \/ (w = "lhs" /\ c.ref[i] = 3 /\ c.lhs[i] <= 2)
      BY <1>3, <1>6 DEF Open
    <2>3. Due(i, w)' = IF w = "rhs" THEN Due(i, w) - 1 ELSE Due(i, w)
      BY <1>1, <1>2, <1>6 DEF WaitAt
    <2> QED BY <1>1, <1>6, <2>1, <2>2, <2>3
  <1>7. CASE j = i /\ k = 9
    <2>1. i \in Open(c, w) <=> w \in {"out", "fct", "app"} \/ (w = "lhs" /\ c.ref[i] = 3 /\ c.lhs[i] <= 2)
      BY <1>3, <1>7 DEF Open
    <2>2. i \in Open(d, w) <=> w \in {"out", "app"} \/ (w = "lhs" /\ c.ref[i] = 3 /\ c.lhs[i] <= 2)
      BY <1>3, <1>7 DEF Open
    <2>3. Due(i, w)' = IF w = "fct" THEN Due(i, w) - 1 ELSE Due(i, w)
      BY <1>1, <1>2, <1>7 DEF WaitAt
    <2> QED BY <1>1, <1>7, <2>1, <2>2, <2>3
  <1> QED BY <1>4, <1>5, <1>6, <1>7

\* A chare that goes on in its step keeps what is true.
LEMMA FurtherKeeps ==
  ASSUME NEW c, StepsInv(c), NEW i \in Chare, NEW k \in 7 .. 9, c.round > 0, c.stage[i] = k, HeardAll(c, i, k),
         StepsOn(i, k), NEW e, SendsAll(i, k + 1, IF k = 7 THEN Wait \cap {"fct", "app"} ELSE {}, e), GoesOnward(i, k, e)
  PROVE  \E d : StepsInv(d)' /\ Further(c, d, i)
  <1>1. /\ c \in Config /\ Shape /\ Stages(c) /\ Diagnosing(c) /\ Remeshing(c) /\ Ahead(c) /\ Counters(c)
        /\ Expects(c) /\ Contributions(c) /\ Ends(c) /\ Exchanges(c) /\ Waits(c) /\ Volumes(c) /\ Outputs(c)
    BY PartsOfInv
  <1>2. c.stage \in [Chare -> 0 .. 17] /\ c.round \in Nat \ {0} /\ ~ Made(c, i)
    BY <1>1, ConfigIs DEF Made
  <1>3. PICK d \in Config : d.stage = [c.stage EXCEPT ![i] = @ + 1] /\ SameRest(c, d)
    <2>1. [c.stage EXCEPT ![i] = @ + 1] \in [Chare -> 0 .. 17]
      BY <1>2
    <2> QED BY <1>1, <2>1, StageSet
  <1>4. \A x \in StepKind : Part(i, x) = PartOf(i, About(c, x)) /\ Part(i, x) \in Parts
    BY <1>1, <1>2, OwnPart
  <1>5. /\ e.calls = UNION {ComCalls(i, x) : x \in SentAt(k + 1)}
        /\ e.triggers = {own(x) : x \in SentAt(k + 1)} \cup (IF Nbr[i] = {} THEN {com(x) : x \in SentAt(k + 1)} ELSE {})
        /\ e.posts = (IF k = 7 THEN Wait \cap {"fct", "app"} ELSE {}) /\ \A a : TargetsOn(a, e) = <<>>
    BY DEF SendsAll
  <1>6. /\ UNCHANGED <<it, itr, itf, lastDump, refined, finished, count>>
        /\ buf' = [j \in Chare |-> [x \in Kind |-> buf'[j][x]]]
        /\ field' = [j \in Chare |-> [x \in Kind |-> field'[j][x]]]
        /\ \A x \in Kind, j \in Chare : buf'[j][x] = IF j = i /\ x \in ZeroedAt(k) THEN {} ELSE buf[j][x]
        /\ \A x \in Kind, j \in Chare : j # i \/ x \in MeshKind => field'[j][x] = field[j][x]
        /\ \A x \in StepKind : field'[i][x] \subseteq field[i][x] \cup buf[i][x] \cup {Part(i, x)}
    BY DEF StepsOn
  <1>7. /\ msgs' = {n \in msgs : n.type # "advance" \/ n.to # i} \cup e.calls
        /\ CharmShape' /\ Adds(i, e)
        /\ \A o \in Object, t \in Trigger :
             trigger'[o][t] = IF o # i THEN trigger[o][t]
                              ELSE (IF t \in NeedsAt(k) THEN trigger[o][t] - 1 ELSE trigger[o][t]) + (IF t \in e.triggers THEN 1 ELSE 0)
    BY DEF GoesOnward
  <1>8. Waits(d)'
    BY <1>3, <1>5, FurtherWaits
  <1>9. Shape'
    <2>1. ASSUME NEW j \in Chare, NEW x \in Kind PROVE field'[j][x] \subseteq Parts /\ buf'[j][x] \subseteq Parts
      <3>1. field[j][x] \subseteq Parts /\ buf[j][x] \subseteq Parts
        BY <1>1 DEF Shape
      <3>2. buf'[j][x] \subseteq Parts
        BY <1>6, <3>1
      <3>3. CASE j # i \/ x \in MeshKind
        BY <1>6, <3>1, <3>2, <3>3
      <3>4. CASE j = i /\ x \in StepKind
        BY <1>4, <1>6, <3>1, <3>2, <3>4
      <3> QED BY <3>3, <3>4 DEF StepKind
    <2>2. count' \in [Chare -> [Kind -> Nat]]
      BY <1>1, <1>6 DEF Shape, NodeShape
    <2> QED BY <1>1, <1>6, <1>7, <2>1, <2>2, ShapeOn
  <1>10. \A x \in Kind :
           OfKind(x)' = IF x \in StepKind /\ StageOf[x] = c.stage[i] + 1 THEN OfKind(x) \cup ComCalls(i, x) ELSE OfKind(x)
    <2>1. \A n : n.type = "com" => (n \in msgs' <=> n \in msgs \/ \E y \in SentAt(k + 1) : n \in ComCalls(i, y))
      BY <1>5, <1>7
    <2>2. \A x : OfKind(x)' = IF x \in SentAt(k + 1) THEN OfKind(x) \cup ComCalls(i, x) ELSE OfKind(x)
      BY <2>1, OfKindSends
    <2> QED BY <2>2 DEF SentAt
  <1>11. \A n \in msgs' : /\ n \in msgs \/ (n.type = "com" /\ n.kind \in Kind)
                          /\ n.type = "advance" => n.to # i
    <2>1. \A n \in e.calls : n.type = "com" /\ n.kind \in Kind
      <3> SUFFICES ASSUME NEW x \in StepKind, NEW n \in ComCalls(i, x) PROVE n.type = "com" /\ n.kind \in Kind
        BY <1>5 DEF SentAt
      <3> QED BY StageIs DEF ComCalls
    <2> QED BY <1>7, <2>1
  <1>12. SignalsOnward(i, k)
    <2>1. \A x : x \in SentAt(k) <=> x \in StepKind /\ StageOf[x] = k
      BY DEF SentAt
    <2>2. \A x : x \in SentAt(k + 1) <=> x \in StepKind /\ StageOf[x] = k + 1
      BY DEF SentAt
    <2>3. \A x \in Kind \ {"vol"} :
            /\ own(x) \in NeedsAt(k) <=> x \in StepKind /\ StageOf[x] = k
            /\ com(x) \in NeedsAt(k) <=> x \in StepKind /\ StageOf[x] = k
            /\ own(x) \in e.triggers <=> x \in StepKind /\ StageOf[x] = k + 1
            /\ com(x) \in e.triggers <=> x \in StepKind /\ StageOf[x] = k + 1 /\ Nbr[i] = {}
      BY <1>5, <2>1, <2>2, TriggersDiffer DEF NeedsAt
    <2>4. \A y \in {"diag", "ref", "lhs", "resize", "disc", "work"} : done(y) \notin NeedsAt(k) /\ done(y) \notin e.triggers
      BY <1>5, TriggersDiffer DEF NeedsAt
    <2>5. \A x \in StepKind : StageOf[x] = k => trigger[i][own(x)] = 1 /\ trigger[i][com(x)] = 1
      BY <2>1 DEF HeardAll
    <2>6. CharmShape
      BY <1>1 DEF Shape
    <2> QED BY <1>7, <2>3, <2>4, <2>5, <2>6, OnwardSignals
  <1>13. StepOnward(c, i)
    <2>1. \A x \in StepKind : StageOf[x] = c.stage[i] => Arrived(x, About(c, x), Senders(c, x), i) = Nbr[i]
      BY DEF HeardAll, SentAt
    <2>2. \A x \in Kind, j \in Chare : buf'[j][x] = IF j = i /\ x \in ZeroesFor(c, i) THEN {} ELSE buf[j][x]
      BY <1>6 DEF ZeroesFor, ZeroedAt
    <2>3. \A a \in Array, j \in Chare : contrib'[a][j] = contrib[a][j]
      BY <1>1, <1>5, <1>7, NoTargets
    <2> QED BY <1>6, <1>10, <1>11, <1>12, <2>1, <2>2, <2>3 DEF StepOnward, StepFrame
  <1>14. \A j \in Chare : field'[j]["vol"] = field[j]["vol"]
    BY <1>6, KindIs DEF MeshKind
  <1>15. StepsInv(d)'
    BY <1>3, <1>8, <1>9, <1>13, <1>14, StepKeeps
  <1>16. Further(c, d, i)
    BY <1>1, <1>2, <1>3, <1>4 DEF Further
  <1> QED BY <1>15, <1>16

\* ALECG::advance, DiagCG::advance: chare i starts the step.
LEMMA AdvanceKeeps ==
  ASSUME NEW c, StepsInv(c), NEW m \in msgs, NEW i, i = m.to, NEW e, Is(m, "advance", i), Take(i, m, e),
         SendsAll(i, 8, Wait \cap {"fct", "app"}, e), StepsOn(i, 7)
  PROVE  (\E d : StepsInv(d)' /\ Further(c, d, i)) /\ c.stage[i] = 7 /\ i \in Chare
  <1>1. /\ c \in Config /\ Shape /\ Stages(c) /\ Expects(c)
    BY PartsOfInv
  <1>2. m.type = "advance"
    BY DEF Is
  <1>3. i \in Chare /\ c.stage[i] = 7 /\ m = [type |-> "advance", to |-> i]
    BY <1>1, <1>2 DEF Expects, Expected
  <1>4. c.round > 0
    BY <1>1, <1>3, ConfigIs DEF Stages
  <1>5. SentAt(7) = {}
    BY StageIs DEF SentAt
  <1>6. HeardAll(c, i, 7)
    BY <1>5 DEF HeardAll
  <1>7. GoesOnward(i, 7, e)
    <2>1. /\ CharmShape' /\ msgs' = (msgs \ {m}) \cup e.calls
          /\ \A k \in Object, t \in Trigger :
               trigger'[k][t] = IF k = i /\ t \in e.triggers THEN trigger[k][t] + 1 ELSE trigger[k][t]
          /\ \A a \in Array, j \in Chare :
               contrib'[a][j] = IF j = i THEN contrib[a][j] \o TargetsOn(a, e) ELSE contrib[a][j]
          /\ \A k \in Object, w \in Wait : Due(k, w)' = IF k = i /\ w \in e.posts THEN Due(k, w) + 1 ELSE Due(k, w)
      <3>1. CharmShape /\ i \in Object
        BY <1>1, <1>3, ObjectFacts DEF Shape
      <3> QED BY <3>1, TakeFacts
    <2>2. {n \in msgs : n.type # "advance" \/ n.to # i} = msgs \ {m}
      <3>1. \A n \in msgs : n.type = "advance" /\ n.to = i => n = m
        BY <1>1, <1>3 DEF Expects
      <3> QED BY <1>3, <3>1
    <2>3. NeedsAt(7) = {}
      BY <1>5 DEF NeedsAt
    <2>4. \A k \in Object, t \in Trigger : trigger[k][t] \in Int
      BY <1>1 DEF Shape, CharmShape
    <2>5. \A k \in Object, w \in Wait : Due(k, w) \in Int
      BY <1>1 DEF Shape, CharmShape, Due
    <2>6. Adds(i, e)
      BY <2>1 DEF Adds
    <2>7. \A o \in Object, t \in Trigger :
            trigger'[o][t] = IF o # i THEN trigger[o][t]
                             ELSE (IF t \in NeedsAt(7) THEN trigger[o][t] - 1 ELSE trigger[o][t]) + (IF t \in e.triggers THEN 1 ELSE 0)
      BY <2>1, <2>3, <2>4
    <2>8. \A o \in Object, v \in Wait :
            Due(o, v)' = IF o # i THEN Due(o, v)
                         ELSE (IF 7 > 7 /\ v = WaitAt[7] THEN Due(o, v) - 1 ELSE Due(o, v)) + (IF v \in e.posts THEN 1 ELSE 0)
      BY <2>1, <2>5
    <2> QED BY <2>1, <2>2, <2>6, <2>7, <2>8 DEF GoesOnward
  <1>8. 7 + 1 = 8 /\ 7 \in 7 .. 9
    OBVIOUS
  <1>9. SendsAll(i, 7 + 1, IF 7 = 7 THEN Wait \cap {"fct", "app"} ELSE {}, e)
    BY <1>8
  <1>10. \E d : StepsInv(d)' /\ Further(c, d, i)
    BY <1>3, <1>4, <1>6, <1>7, <1>8, <1>9, FurtherKeeps
  <1> QED BY <1>3, <1>10

\* DiagCG::solve, DistFCT::lim: chare i is done with one exchange of the step and goes on to the next.
LEMMA OnwardKeeps ==
  ASSUME NEW c, StepsInv(c), NEW i \in Chare, NEW k \in 8 .. 9, NEW e, WaitAt[k] \in Wait, Run(i, WaitAt[k], e),
         NeedsAt(k) = Needs[WaitAt[k]], SentAt(k) # {}, SendsAll(i, k + 1, {}, e), StepsOn(i, k)
  PROVE  (\E d : StepsInv(d)' /\ Further(c, d, i)) /\ c.stage[i] = k /\ HeardAll(c, i, k)
  <1>1. /\ c \in Config /\ Shape /\ Stages(c) /\ Expects(c) /\ Exchanges(c)
    BY PartsOfInv
  <1> DEFINE w == WaitAt[k]
  <1>0. w \in Wait /\ Run(i, w, e) /\ Needs[w] = NeedsAt(k)
    OBVIOUS
  <1> HIDE DEF w
  <1>2. /\ CharmShape' /\ msgs' = msgs \cup e.calls
        /\ \A t \in Needs[w] : t \in Trigger /\ trigger[i][t] > 0
        /\ \A o \in Object, t \in Trigger :
             trigger'[o][t] = IF o # i THEN trigger[o][t]
                              ELSE (IF t \in Needs[w] THEN trigger[o][t] - 1 ELSE trigger[o][t])
                                   + (IF t \in e.triggers THEN 1 ELSE 0)
        /\ \A a \in Array, j \in Chare :
             contrib'[a][j] = IF j = i THEN contrib[a][j] \o TargetsOn(a, e) ELSE contrib[a][j]
        /\ \A o \in Object, v \in Wait :
             Due(o, v)' = IF o # i THEN Due(o, v)
                          ELSE (IF v = w THEN Due(o, v) - 1 ELSE Due(o, v)) + (IF v \in e.posts THEN 1 ELSE 0)
    <2>1. CharmShape /\ i \in Object
      BY <1>1, ObjectFacts DEF Shape
    <2> QED BY <1>0, <2>1, RunFacts
  <1>3. ASSUME NEW x \in SentAt(k)
        PROVE  /\ x \in StepKind /\ StageOf[x] = k
               /\ trigger[i][own(x)] = 1 /\ trigger[i][com(x)] = 1
               /\ i \in Takers(c, x) /\ i \in Senders(c, x)
               /\ Arrived(x, About(c, x), Senders(c, x), i) = Nbr[i]
               /\ i \in Zeroed(c, x) => buf[i][x] = PartsOf(Nbr[i], About(c, x))
    <2>1. x \in StepKind /\ StageOf[x] = k /\ x \in Kind \ {"vol"}
      BY StageIs DEF SentAt
    <2>2. trigger[i][own(x)] > 0 /\ trigger[i][com(x)] > 0
      BY <1>0, <1>2, <1>3 DEF NeedsAt
    <2> QED BY <1>1, <2>1, <2>2, WaitedFor
  <1>4. c.round > 0 /\ c.stage[i] = k
    <2>1. PICK x \in SentAt(k) : TRUE
      OBVIOUS
    <2> QED BY <1>1, <1>3, <2>1, SendersAre, TakersAre, ConfigIs
  <1>5. HeardAll(c, i, k)
    <2>1. \A x \in SentAt(k) : i \in Zeroed(c, x)
      BY <1>3, <1>4 DEF Zeroed
    <2> QED BY <1>3, <2>1 DEF HeardAll
  <1>6. GoesOnward(i, k, e)
    <2>1. {n \in msgs : n.type # "advance" \/ n.to # i} = msgs
      BY <1>1, <1>4 DEF Expects, Expected
    <2>2. Adds(i, e)
      BY <1>2 DEF Adds
    <2>3. k > 7 /\ w = WaitAt[k]
      BY DEF w
    <2> QED BY <1>0, <1>2, <2>1, <2>2, <2>3 DEF GoesOnward
  <1>7. k \in 7 .. 9 /\ SendsAll(i, k + 1, IF k = 7 THEN Wait \cap {"fct", "app"} ELSE {}, e)
    OBVIOUS
  <1>8. \E d : StepsInv(d)' /\ Further(c, d, i)
    BY <1>4, <1>5, <1>6, <1>7, FurtherKeeps
  <1> QED BY <1>4, <1>5, <1>8

-----------------------------------------------------------------------------
\* The message that posts a wait, and what changes nothing, keep what is true.
LEMMA PostingKeeps ==
  ASSUME NEW c, StepsInv(c), Posting
  PROVE  StepsInv(c)'
  <1>1. CharmShape
    BY PartsOfInv DEF Shape
  <1>2. PICK o \in Object, w \in Wait : Post(o, w)
    BY DEF Posting
  <1>3. posting \in [Object -> [Wait -> Int]] /\ waiting \in [Object -> [Wait -> Int]]
    BY <1>1 DEF CharmShape
  <1>4. /\ posting' = [posting EXCEPT ![o][w] = posting[o][w] - 1]
        /\ waiting' = [waiting EXCEPT ![o][w] = waiting[o][w] + 1]
    BY <1>2 DEF Post
  <1>5. posting' \in [Object -> [Wait -> Int]] /\ waiting' \in [Object -> [Wait -> Int]]
    BY <1>3, <1>4
  <1>6. \A k \in Object, v \in Wait : Due(k, v)' = Due(k, v)
    BY <1>3, <1>4 DEF Due
  <1>7. UNCHANGED <<msgs, trigger, contrib, it, itr, itf, lastDump, refined, field, buf, count, finished>>
    BY <1>2 DEF Posting, Post, stepVars, fileVars, nodeVars
  <1> QED BY <1>5, <1>6, <1>7, NothingKeeps

LEMMA StutterKeeps ==
  ASSUME NEW c, StepsInv(c), UNCHANGED discVars
  PROVE  StepsInv(c)'
  <1>1. CharmShape
    BY PartsOfInv DEF Shape
  <1>2. UNCHANGED <<msgs, posting, waiting, trigger, contrib, it, itr, itf, lastDump, refined, field, buf, count, finished>>
    BY DEF discVars, charmVars, stepVars, fileVars, nodeVars
  <1>3. posting' \in [Object -> [Wait -> Int]] /\ waiting' \in [Object -> [Wait -> Int]]
    BY <1>1, <1>2 DEF CharmShape
  <1>4. \A k \in Object, v \in Wait : Due(k, v)' = Due(k, v)
    BY <1>2 DEF Due
  <1> QED BY <1>2, <1>3, <1>4, NothingKeeps

\* The actions both schemes have leave a chare where it is among its stages, or take it through the end of a step.
LEMMA DiscretizationKeeps ==
  ASSUME NEW c, StepsInv(c), DiscretizationNext
  PROVE  \E d : StepsInv(d)' /\ Alongside(c, d)
  <1>1. StepsInv(c)' => \E d : StepsInv(d)' /\ Alongside(c, d)
    <2>1. \A i \in Chare : c.stage[i] >= c.stage[i] /\ c.lhs[i] = c.lhs[i]
      BY ConfigIs DEF StepsInv, Levels
    <2> QED BY <2>1 DEF Alongside
  <1>2. ASSUME NEW m \in msgs, DiscretizationCall(m.to, m) PROVE \E d : StepsInv(d)' /\ Alongside(c, d)
    <2> DEFINE i == m.to
    <2>1. i = m.to /\ DiscretizationCall(i, m)
      BY <1>2
    <2> HIDE DEF i
    <2>2. CASE Vol(i, m)
      BY <2>1, <2>2, VolKeeps
    <2>3. CASE Comvol(i, m)
      <3>1. "vol" \in Kind /\ Receive(i, "vol", m, Contributes("disc", "vol"))
        BY <2>3, KindIs, StepsAssumption DEF Comvol, MeshKind
      <3>2. StepsInv(c)'
        BY <3>1, ReceiveKeeps
      <3> QED BY <1>1, <3>2
    <2>4. CASE TotalVol(i, m)
      BY <2>1, <2>4, TotalsKeeps
    <2>5. CASE Write(i, m)
      BY <2>1, <2>5, WriteKeeps
    <2> QED BY <2>1, <2>2, <2>3, <2>4, <2>5 DEF DiscretizationCall
  <1>3. CASE Matched \/ Discresized \/ Workresized \/ TransporterVol \/ TransporterTotalvol \/ Sync
    BY <1>3, MatchedKeeps, DiscresizedKeeps, WorkresizedKeeps, TransporterVolKeeps, TotalvolKeeps, SyncKeeps
  <1>4. CASE Posting
    BY <1>1, <1>4, PostingKeeps
  <1> QED BY <1>2, <1>3, <1>4 DEF DiscretizationNext

\* Counters stay in their range.
LEMMA CounterBounds ==
  ASSUME NEW c, StepsInv(c), NEW i \in Chare
  PROVE  /\ it[i] \in 0 .. NStep /\ itr[i] \in 0 .. NStep
         /\ lastDump[i] \in -1 .. NStep /\ itf[i] \in 0 .. (NStep + 1)
         /\ \A x \in Kind : count[i][x] \in Nat /\ (count[i][x] # 0 => count[i][x] < Cardinality(Nbr[i]))
  <1>1. /\ c \in Config /\ Shape /\ Stages(c) /\ Remeshing(c) /\ Counters(c) /\ Exchanges(c) /\ Outputs(c)
    BY PartsOfInv
  <1>2. /\ c.round \in 0 .. NStep /\ Base(c) \in 0 .. NStep /\ NStep \in Nat
        /\ c.round > 0 => c.round - 1 \in 0 .. NStep
        /\ c.round > 0 /\ Refines(c.round) => Now(c) = Base(c) + 1 /\ Now(c) \in 0 .. NStep
    BY <1>1, RoundFacts, ConstantFacts
  <1>3. it[i] \in 0 .. NStep
    BY <1>1, <1>2 DEF Counters
  <1>4. c.ref[i] = 3 => c.round > 0 /\ Refines(c.round)
    BY <1>1 DEF Remeshing, Made
  <1>5. itr[i] \in 0 .. NStep
    BY <1>1, <1>2, <1>4 DEF Counters
  <1>6. lastDump[i] \in -1 .. it[i] /\ itf[i] \in Nat /\ itf[i] <= lastDump[i] + 1
    BY <1>1 DEF Outputs
  <1>7. lastDump[i] \in -1 .. NStep /\ itf[i] \in 0 .. (NStep + 1)
    BY <1>2, <1>3, <1>6
  <1>8. ASSUME NEW x \in Kind
        PROVE  count[i][x] \in Nat /\ (count[i][x] # 0 => count[i][x] < Cardinality(Nbr[i]))
    <2> DEFINE a == Arrived(x, About(c, x), Senders(c, x), i)
    <2>1. a \in SUBSET Nbr[i]
      BY DEF Arrived
    <2>2. Exchange(x, Senders(c, x), Takers(c, x), Zeroed(c, x), About(c, x))
      BY <1>1 DEF Exchanges, Traded
    <2>3. count[i][x] = IF i \in Takers(c, x) /\ a # Nbr[i] THEN Cardinality(a) ELSE 0
      BY <2>2 DEF Exchange
    <2> HIDE DEF a
    <2> QED BY <2>1, <2>3, CountNbr
  <1> QED BY <1>3, <1>5, <1>7, <1>8

\* Chares that take contributions of a kind have the mesh those are about.
LEMMA TakersMesh ==
  ASSUME NEW c, StepsInv(c), NEW x \in Kind, NEW i \in Takers(c, x)
  PROVE  i \in Chare /\ itr[i] = About(c, x).itr
  <1>1. /\ c \in Config /\ Stages(c) /\ Remeshing(c) /\ Counters(c)
    BY PartsOfInv
  <1>2. i \in Chare
    BY ZeroedAre
  <1>3. itr[i] = IF c.ref[i] = 3 THEN Base(c) + 1 ELSE Base(c)
    BY <1>1, <1>2 DEF Counters
  <1>4. ~ Made(c, i) => c.ref[i] = 0
    BY <1>1, <1>2 DEF Remeshing
  <1>5. CASE x \in StepKind
    <2>1. c.round > 0 /\ c.stage[i] \in 7 .. 10
      <3>1. c.round > 0 /\ c.stage[i] \in 7 .. StageOf[x]
        BY <1>2, <1>5, TakersAre
      <3>2. StageOf[x] \in {8, 9, 10}
        BY <1>5, StageIs
      <3>3. c.stage[i] \in Nat
        BY <1>1, <1>2, ConfigIs
      <3> QED BY <3>1, <3>2, <3>3
    <2>2. itr[i] = Base(c)
      BY <1>3, <1>4, <2>1 DEF Made
    <2> QED BY <1>2, <1>5, <2>2, AboutIs
  <1>6. CASE x \in {"lhs", "vol"}
    <2>1. About(c, x).itr = Now(c)
      <3>1. About(c, x) = OfMesh(Now(c))
        BY <1>6, AboutIs
      <3>2. \A k : OfMesh(k).itr = k
        BY DEF OfMesh
      <3> QED BY <3>1, <3>2
    <2>2. CASE c.round = 0
      BY <1>2, <1>3, <1>4, <2>1, <2>2 DEF Made, Base, Now
    <2>3. CASE c.round # 0
      <3>1. c.ref[i] = 3
        BY <1>2, <1>6, <2>3, TakersAre
      <3> QED BY <1>2, <1>3, <2>1, <2>3, <3>1 DEF Now
    <2> QED BY <2>2, <2>3
  <1> QED BY <1>5, <1>6, KindIs, AboutIs

\* A contribution that is on its way is about nodes of the mesh its receiver has.
LEMMA MeshesFit ==
  ASSUME NEW c, StepsInv(c)
  PROVE  MeshesAgree
  <1> SUFFICES ASSUME NEW m \in msgs, m.type = "com" PROVE m.part.itr = itr[m.to]
    BY DEF MeshesAgree
  <1> DEFINE x == m.kind
  <1>1. x \in Kind /\ m \in OfKind(x)
    BY PartsOfInv DEF Expects, OfKind
  <1> HIDE DEF x
  <1>2. Exchange(x, Senders(c, x), Takers(c, x), Zeroed(c, x), About(c, x))
    BY <1>1, PartsOfInv DEF Exchanges, Traded
  <1>3. PICK i \in Takers(c, x) : \E j \in Nbr[i] \cap Senders(c, x) : m = ComCall(x, About(c, x), j, i)
    BY <1>1, <1>2 DEF Exchange
  <1>4. m.to = i /\ m.part.itr = About(c, x).itr
    BY <1>3, CallsDiffer
  <1> QED BY <1>1, <1>4, TakersMesh

\* Two sequences of targets do not contradict each other.
Agree(s, t) == \A k \in DOMAIN s \cap DOMAIN t : s[k] = t[k]

\* The sequences that occur.
LEMMA AgreeFacts ==
  /\ \A s : Agree(<<>>, s) /\ Agree(s, <<>>) /\ Agree(s, s)
  /\ \A q, r : Agree(<<q>>, <<q, r>>) /\ Agree(<<q, r>>, <<q>>)
  /\ \A q : \A s, t \in Seq({q}) : Agree(s, t)
  <1>1. \A s : Agree(<<>>, s) /\ Agree(s, <<>>) /\ Agree(s, s)
    <2>1. DOMAIN <<>> = {}
      OBVIOUS
    <2> QED BY <2>1 DEF Agree
  <1>2. \A q, r : Agree(<<q>>, <<q, r>>) /\ Agree(<<q, r>>, <<q>>)
    <2> SUFFICES ASSUME NEW q, NEW r PROVE Agree(<<q>>, <<q, r>>) /\ Agree(<<q, r>>, <<q>>)
      OBVIOUS
    <2>1. \A k \in DOMAIN <<q>> : k = 1
      OBVIOUS
    <2>2. <<q>>[1] = q /\ <<q, r>>[1] = q
      OBVIOUS
    <2> QED BY <2>1, <2>2 DEF Agree
  <1>3. ASSUME NEW q, NEW s \in Seq({q}), NEW t \in Seq({q}) PROVE Agree(s, t)
    <2>1. (\A k \in DOMAIN s : s[k] = q) /\ (\A k \in DOMAIN t : t[k] = q)
      OBVIOUS
    <2> QED BY <2>1 DEF Agree
  <1> QED BY <1>1, <1>2, <1>3

\* Two chares are at the same place of each array's reductions, or one is ahead.
LEMMA TargetsAgree ==
  ASSUME NEW c, StepsInv(c), NEW i \in Chare, NEW j \in Chare
  PROVE  \A a \in Array : Agree(contrib[a][i], contrib[a][j])
  <1>1. c \in Config /\ Stages(c) /\ Diagnosing(c) /\ Remeshing(c) /\ ContributedBy(c, i) /\ ContributedBy(c, j)
    BY PartsOfInv DEF Contributions
  <1>2. /\ c.round \in Nat /\ c.mesh \in 0 .. 4
        /\ c.started \in BOOLEAN /\ c.disc \in BOOLEAN /\ c.work \in BOOLEAN /\ c.diagnosed \in BOOLEAN
    BY <1>1, ConfigIs
  <1>3. \A k \in Chare : c.stage[k] = 1 => c.round = 0 /\ ~ c.started
    BY <1>1, <1>2, ConfigIs DEF Stages
  <1>4. \A k \in Chare : c.stage[k] = 17 => c.round > 0 \/ c.started
    BY <1>1, <1>2, ConfigIs DEF Stages
  <1>5. \A k \in Chare : c.ref[k] = 3 => c.round > 0 /\ Refines(c.round) /\ Made(c, k)
    BY <1>1 DEF Remeshing, Made
  <1>6. \A k, l \in Chare : c.stage[k] \in {16, 17} /\ c.ref[l] = 3 =>
          c.mesh = 4 /\ c.disc /\ c.work /\ c.vol[l] \in {5, 6}
    <2> SUFFICES ASSUME NEW k \in Chare, NEW l \in Chare, c.stage[k] \in {16, 17}, c.ref[l] = 3
                 PROVE  c.mesh = 4 /\ c.disc /\ c.work /\ c.vol[l] \in {5, 6}
      OBVIOUS
    <2>1. c.vol[k] = 6
      BY <1>1, <1>5 DEF Remeshing, Made
    <2>2. \A n \in Chare : c.vol[n] \in CASE c.mesh < 2 -> {0} [] c.mesh = 2 -> {1, 2} [] c.mesh = 3 -> {3, 4} [] OTHER -> {5, 6}
      BY <1>1 DEF Remeshing
    <2>3. c.mesh = 4
      BY <1>2, <2>1, <2>2
    <2> QED BY <1>1, <2>2, <2>3 DEF Remeshing
  <1>7. Agree(contrib["worker"][i], contrib["worker"][j])
    <2>1. \A k \in {i, j} : contrib["worker"][k] =
            IF c.stage[k] = 1 THEN <<"comfinal">>
            ELSE IF c.stage[k] = 17 THEN <<"advance">>
            ELSE IF c.ref[k] = 3 /\ ~ c.work THEN <<"workresized">> ELSE <<>>
      BY <1>1 DEF ContributedBy
    <2>2. \/ contrib["worker"][i] = <<>> \/ contrib["worker"][j] = <<>>
          \/ contrib["worker"][i] = contrib["worker"][j]
      BY <1>2, <1>3, <1>4, <1>5, <1>6, <2>1
    <2> QED BY <2>2, AgreeFacts
  <1>8. Agree(contrib["refiner"][i], contrib["refiner"][j])
    <2>1. \A k \in {i, j} : contrib["refiner"][k] =
            IF c.diag[k] = 1 THEN IF c.ref[k] = 1 THEN <<"diagnostics", "matched">> ELSE <<"diagnostics">>
                             ELSE IF c.ref[k] = 1 THEN <<"matched">> ELSE <<>>
      BY <1>1 DEF ContributedBy
    <2>2. \A k, l \in Chare : c.diag[k] = 1 /\ c.ref[l] = 1 => c.diag[l] = 1
      <3> SUFFICES ASSUME NEW k \in Chare, NEW l \in Chare, c.diag[k] = 1, c.ref[l] = 1 PROVE c.diag[l] = 1
        OBVIOUS
      <3>1. Made(c, l)
        BY <1>1 DEF Remeshing
      <3>2. c.round % DiagFreq = 0 /\ ~ c.diagnosed
        BY <1>1 DEF Diagnosing
      <3> QED BY <1>1, <3>1, <3>2 DEF Diagnosing
    <2>3. CASE c.diag[i] = 1
      <3>1. contrib["refiner"][i] \in {<<"diagnostics", "matched">>, <<"diagnostics">>}
        BY <2>1, <2>3
      <3>2. contrib["refiner"][j] \in {<<"diagnostics", "matched">>, <<"diagnostics">>, <<>>}
        BY <2>1, <2>2, <2>3
      <3> QED BY <3>1, <3>2, AgreeFacts
    <2>4. CASE c.diag[i] # 1 /\ c.ref[i] = 1
      <3>1. contrib["refiner"][i] = <<"matched">>
        BY <2>1, <2>4
      <3>2. c.diag[j] # 1
        BY <2>2, <2>4
      <3>3. contrib["refiner"][j] \in {<<"matched">>, <<>>}
        BY <2>1, <3>2
      <3> QED BY <3>1, <3>3, AgreeFacts
    <2>5. CASE c.diag[i] # 1 /\ c.ref[i] # 1
      BY <2>1, <2>5, AgreeFacts
    <2> QED BY <2>3, <2>4, <2>5
  <1>9. Agree(contrib["disc"][i], contrib["disc"][j])
    <2>1. \A k \in {i, j} : contrib["disc"][k] \in
            IF c.stage[k] = 16 /\ ~ finished THEN {<<"finish">>}
            ELSE IF c.ref[k] = 3 /\ ~ c.disc THEN {<<"discresized">>}
            ELSE IF c.vol[k] \in {1, 2} THEN {<<>>, <<"vol">>}
            ELSE IF c.vol[k] = 4 THEN {<<"totalvol">>} ELSE {<<>>}
      BY <1>1 DEF ContributedBy
    <2>2. \A k \in Chare : /\ c.vol[k] \in {1, 2, 4} => c.ref[k] = 3 /\ c.mesh \in {2, 3} /\ c.disc
                           /\ c.vol[k] \in {1, 2} <=> c.mesh = 2
      <3> SUFFICES ASSUME NEW k \in Chare
                   PROVE  /\ c.vol[k] \in {1, 2, 4} => c.ref[k] = 3 /\ c.mesh \in {2, 3} /\ c.disc
                          /\ c.vol[k] \in {1, 2} <=> c.mesh = 2
        OBVIOUS
      <3>1. c.vol[k] \in CASE c.mesh < 2 -> {0} [] c.mesh = 2 -> {1, 2} [] c.mesh = 3 -> {3, 4} [] OTHER -> {5, 6}
        BY <1>1 DEF Remeshing
      <3>2. (c.mesh >= 2 => c.ref[k] = 3) /\ (c.mesh >= 2 => c.disc)
        BY <1>1 DEF Remeshing
      <3> QED BY <1>2, <3>1, <3>2
    <2>3. \/ contrib["disc"][i] = <<>> \/ contrib["disc"][j] = <<>>
          \/ contrib["disc"][i] = contrib["disc"][j]
      <3>1. CASE c.stage[i] = 16 \/ c.stage[j] = 16
        BY <1>6, <2>1, <2>2, <3>1
      <3>2. CASE c.stage[i] # 16 /\ c.stage[j] # 16
        BY <2>1, <2>2, <3>2
      <3> QED BY <3>1, <3>2
    <2> QED BY <2>3, AgreeFacts
  <1>10. Agree(contrib["sync"][i], contrib["sync"][j])
    <2>1. contrib["sync"][i] \in Seq({"sync"}) /\ contrib["sync"][j] \in Seq({"sync"})
      BY <1>1 DEF ContributedBy
    <2> QED BY <2>1, AgreeFacts
  <1> QED BY <1>7, <1>8, <1>9, <1>10 DEF Array

\* The elements of an array contribute to the same reductions in the same order.
LEMMA ReductionsFit ==
  ASSUME NEW c, StepsInv(c)
  PROVE  SameReductions
  <1>1. CharmShape
    BY PartsOfInv DEF Shape
  <1>2. DOMAIN contrib = Array
    BY <1>1 DEF CharmShape
  <1> QED BY <1>2, TargetsAgree DEF SameReductions, Agree

\* The run ends on the last mesh, after the last step.
LEMMA EndSteps ==
  ASSUME NEW c, StepsInv(c), Finish("disc")
  PROVE  Bulk!Finish
  <1>1. c \in Config /\ Stages(c) /\ Remeshing(c) /\ Counters(c) /\ NStep \in Nat \ {0}
    BY PartsOfInv, ConstantFacts
  <1>2. c.round = NStep /\ ~ finished /\ UNCHANGED <<it, itr>> /\ \A i \in Chare : c.stage[i] = 16
    BY EndKeeps
  <1>3. finished' = TRUE
    BY DEF Finish
  <1>4. ASSUME NEW i \in Chare PROVE it[i] = NStep /\ itr[i] = MeshOf(NStep)
    <2>1. Made(c, i) /\ it[i] = NStep
      BY <1>1, <1>2 DEF Made, Counters
    <2>2. CASE Refines(c.round)
      <3>1. c.ref[i] = 3
        BY <1>1, <1>2, <2>1, <2>2 DEF Remeshing
      <3>2. Base(c) + 1 = MeshOf(c.round)
        BY <1>1, <1>2, <2>2, RoundFacts
      <3> QED BY <1>1, <1>2, <2>1, <3>1, <3>2 DEF Counters
    <2>3. CASE ~ Refines(c.round)
      <3>1. c.ref[i] = 0
        BY <1>1, <2>3 DEF Remeshing
      <3>2. Base(c) = MeshOf(c.round)
        BY <1>1, <1>2, <2>3, RoundFacts
      <3> QED BY <1>1, <1>2, <2>1, <3>1, <3>2 DEF Counters
    <2> QED BY <2>2, <2>3
  <1> QED BY <1>2, <1>3, <1>4 DEF Bulk!Finish

-----------------------------------------------------------------------------
\* An effect of a chare that calls no trigger of the Transporter and writes no output.
Tame(e) == e.triggers \cap ResizeNeeds = {} /\ \A n \in e.calls : n.type # "write"

\* The effects of the handlers.
LEMMA TameEffects ==
  /\ Tame(Nothing) /\ \A ws : Tame(Posts(ws))
  /\ \A a, r : Tame(Contributes(a, r))
  /\ \A ts : ts \cap ResizeNeeds = {} => Tame(Triggers(ts))
  /\ \A i \in Chare : \A x : Tame(Sends(i, x)) /\ Tame(Calls(ComCalls(i, x)))
  /\ \A d, e : Tame(d) /\ Tame(e) => Tame(d ++ e)
  <1>1. Tame(Nothing) /\ (\A ws : Tame(Posts(ws))) /\ (\A a, r : Tame(Contributes(a, r)))
    BY EffectFacts DEF Tame
  <1>2. \A ts : ts \cap ResizeNeeds = {} => Tame(Triggers(ts))
    BY EffectFacts DEF Tame
  <1>3. ASSUME NEW i \in Chare, NEW x PROVE Tame(Sends(i, x)) /\ Tame(Calls(ComCalls(i, x)))
    <2>1. \A n \in ComCalls(i, x) : n.type = "com"
      BY SendsFacts
    <2>2. Sends(i, x).calls = ComCalls(i, x) /\ Sends(i, x).triggers \subseteq {own(x), com(x)}
      BY SendsFacts
    <2>3. own(x) \notin ResizeNeeds /\ com(x) \notin ResizeNeeds
      BY TriggersDiffer DEF ResizeNeeds
    <2> QED BY <2>1, <2>2, <2>3, EffectFacts DEF Tame
  <1>4. ASSUME NEW d, NEW e, Tame(d), Tame(e) PROVE Tame(d ++ e)
    BY <1>4, ThenFacts DEF Tame
  <1> QED BY <1>1, <1>2, <1>3, <1>4

\* The next step, and what ends one.
LEMMA TameEnds ==
  /\ Tame(NextDt) /\ \A i : Tame(StepOf(i))
  /\ \A n : Tame(Refinement(n))
  /\ \A i, a : Tame(Diagnostics(i, a))
  /\ \A y \in {"diag", "ref", "lhs", "resize"} : Tame(Triggers({done(y)}))
  /\ \A x : Tame(Triggers({com(x)}))
  <1>1. \A y \in {"diag", "ref", "lhs", "resize"} : Tame(Triggers({done(y)}))
    BY TameEffects, TriggersDiffer DEF ResizeNeeds
  <1>2. \A x : Tame(Triggers({com(x)}))
    BY TameEffects, TriggersDiffer DEF ResizeNeeds
  <1>3. Tame(NextDt)
    BY TameEffects DEF NextDt
  <1>4. \A i : Tame(StepOf(i))
    BY <1>3, TameEffects DEF StepOf, NextStep
  <1>5. \A n : Tame(Refinement(n))
    <2>1. {done("ref"), done("lhs"), done("resize")} \cap ResizeNeeds = {}
      BY TriggersDiffer DEF ResizeNeeds
    <2> QED BY <2>1, TameEffects DEF Refinement
  <1>6. \A i, a : Tame(Diagnostics(i, a))
    BY <1>1, TameEffects DEF Diagnostics
  <1> QED BY <1>1, <1>2, <1>3, <1>4, <1>5, <1>6

-----------------------------------------------------------------------------
\* Triggers counted on an object of which none is said to stay uncalled.
LEMMA UncalledTake ==
  ASSUME CharmShape, Uncalled, NEW o \in Object, NEW ts, trigger' = [trigger EXCEPT ![o] = Counted(@, ts, 1)],
         IF o = Host THEN ts \subseteq ResizeNeeds ELSE ts \cap ResizeNeeds = {}
  PROVE  Uncalled'
  <1>1. trigger[o] \in [Trigger -> Int]
    BY DEF CharmShape
  <1>2. \A t \in Trigger : Counted(trigger[o], ts, 1)[t] = IF t \in ts THEN trigger[o][t] + 1 ELSE trigger[o][t]
    BY <1>1, CountedFacts
  <1>3. \A k \in Object : trigger'[k] = IF k = o THEN Counted(trigger[o], ts, 1) ELSE trigger[k]
    BY DEF CharmShape
  <1>4. \A y \in {"disc", "work"} : done(y) \in Trigger /\ done(y) \in ResizeNeeds
    BY TriggerFacts DEF ResizeNeeds
  <1>5. ASSUME NEW i \in Chare, NEW y \in {"disc", "work"} PROVE trigger'[i][done(y)] = 0
    BY <1>2, <1>3, <1>4, <1>5, ObjectFacts DEF Uncalled
  <1>6. ASSUME NEW t \in Trigger \ ResizeNeeds PROVE trigger'[Host][t] = 0
    BY <1>2, <1>3, <1>6, ObjectFacts DEF Uncalled
  <1> QED BY <1>5, <1>6 DEF Uncalled

\* A body runs.
LEMMA UncalledRun ==
  ASSUME CharmShape, Uncalled, NEW o \in Object, NEW w \in Wait, NEW ts,
         trigger' = [trigger EXCEPT ![o] = Counted(Counted(@, Needs[w], -1), ts, 1)],
         IF o = Host THEN w = "resize" /\ ts \subseteq ResizeNeeds ELSE w # "resize" /\ ts \cap ResizeNeeds = {}
  PROVE  Uncalled'
  <1> DEFINE f == Counted(trigger[o], Needs[w], -1)
  <1>1. trigger[o] \in [Trigger -> Int]
    BY DEF CharmShape
  <1>2. f \in [Trigger -> Int] /\ \A t \in Trigger : f[t] = IF t \in Needs[w] THEN trigger[o][t] + (-1) ELSE trigger[o][t]
    BY <1>1, CountedFacts
  <1>3. trigger' = [trigger EXCEPT ![o] = Counted(f, ts, 1)]
    OBVIOUS
  <1> HIDE DEF f
  <1>4. \A t \in Trigger : Counted(f, ts, 1)[t] = IF t \in ts THEN f[t] + 1 ELSE f[t]
    BY <1>2, CountedFacts
  <1>5. \A k \in Object : trigger'[k] = IF k = o THEN Counted(f, ts, 1) ELSE trigger[k]
    BY <1>3 DEF CharmShape
  <1>6. \A y \in {"disc", "work"} : done(y) \in Trigger /\ done(y) \in ResizeNeeds
    BY TriggerFacts DEF ResizeNeeds
  <1>7. IF w = "resize" THEN Needs[w] = ResizeNeeds ELSE Needs[w] \cap ResizeNeeds = {}
    <2>1. CASE w = "resize"
      BY <2>1, WaitFacts DEF ResizeNeeds
    <2>2. CASE w \in {"lhs", "out"}
      BY <2>2, WaitFacts, TriggersDiffer DEF ResizeNeeds
    <2>3. CASE w \in StepWait
      <3>1. Needs[w] \subseteq {own(x) : x \in StepKind} \cup {com(x) : x \in StepKind}
        BY <2>3, WaitFacts
      <3>2. w # "resize"
        BY <2>3 DEF StepWait
      <3> QED BY <3>1, <3>2, TriggersDiffer DEF ResizeNeeds
    <2> QED BY <2>1, <2>2, <2>3, WaitFacts DEF StepWait
  <1>8. ASSUME NEW i \in Chare, NEW y \in {"disc", "work"} PROVE trigger'[i][done(y)] = 0
    BY <1>2, <1>4, <1>5, <1>6, <1>7, <1>8, ObjectFacts DEF Uncalled
  <1>9. ASSUME NEW t \in Trigger \ ResizeNeeds PROVE trigger'[Host][t] = 0
    BY <1>2, <1>4, <1>5, <1>7, <1>9, ObjectFacts DEF Uncalled
  <1> QED BY <1>8, <1>9 DEF Uncalled

\* No trigger is called more than once for its wait, and no wait posted more than once.
LEMMA SignalsBounded ==
  ASSUME NEW c, StepsInv(c), Uncalled
  PROVE  SignalsOnce
  <1>1. Shape /\ Exchanges(c) /\ Ends(c) /\ Waits(c) /\ CharmShape
    BY PartsOfInv DEF Shape
  <1>2. ASSUME NEW i \in Chare, NEW w \in Wait PROVE posting[i][w] + waiting[i][w] <= 1
    BY <1>1 DEF Waits, Due
  <1>3. ASSUME NEW t \in Trigger
        PROVE  \/ \E x \in Kind \ {"vol"} : t = own(x) \/ t = com(x)
               \/ \E y \in {"diag", "ref", "lhs", "resize", "disc", "work"} : t = done(y)
    <2>1. PICK w \in Wait : t \in Needs[w]
      BY DEF Trigger
    <2>2. CASE w \in StepWait
      <3>1. Needs[w] \subseteq {own(x) : x \in StepKind} \cup {com(x) : x \in StepKind}
        BY <2>2, WaitFacts
      <3> QED BY <2>1, <3>1, StageIs
    <2>3. CASE w \in {"lhs", "out", "resize"}
      BY <2>1, <2>3, WaitFacts, StepsAssumption DEF MeshKind
    <2> QED BY <2>2, <2>3, WaitFacts DEF StepWait
  <1>4. ASSUME NEW i \in Chare, NEW t \in Trigger PROVE trigger[i][t] <= 1
    <2>1. ASSUME NEW x \in Kind \ {"vol"} PROVE trigger[i][own(x)] <= 1 /\ trigger[i][com(x)] <= 1
      BY <1>1 DEF Exchanges, Traded, Signalled
    <2>2. ASSUME NEW y \in {"diag", "ref", "lhs", "resize"} PROVE trigger[i][done(y)] <= 1
      BY <1>1 DEF Ends
    <2>3. ASSUME NEW y \in {"disc", "work"} PROVE trigger[i][done(y)] <= 1
      BY DEF Uncalled
    <2> QED BY <1>3, <2>1, <2>2, <2>3
  <1>5. ASSUME NEW t \in Trigger PROVE trigger[Host][t] <= 1
    <2>1. CASE t \in ResizeNeeds
      BY <1>1, <2>1 DEF ResizeNeeds, Ends
    <2>2. CASE t \notin ResizeNeeds
      BY <2>2 DEF Uncalled
    <2> QED BY <2>1, <2>2
  <1>6. \A o \in Object : o \in Chare \/ o = Host
    BY DEF Object
  <1> QED BY <1>2, <1>4, <1>5, <1>6 DEF SignalsOnce

-----------------------------------------------------------------------------
\* A chare's output files as they were, with the same outputs on their way.
LEMMA FilesOfKept ==
  ASSUME NEW i, FilesOf(i), file'[i] = file[i], itf'[i] = itf[i], itr'[i] = itr[i],
         \A n : n.type = "write" /\ n.to = i => (n \in msgs' <=> n \in msgs)
  PROVE  FilesOf(i)'
  BY DEF FilesOf, EndsWith

\* Nothing is written.
LEMMA FilesKept ==
  ASSUME Files, UNCHANGED <<file, itf, itr>>, \A n : n.type = "write" => (n \in msgs' <=> n \in msgs)
  PROVE  Files'
  <1>1. \A i \in Chare : FilesOf(i)'
    BY FilesOfKept DEF Files
  <1>2. FilesReadable'
    BY DEF Files, FilesReadable
  <1> QED BY <1>1, <1>2 DEF Files

\* What the state says of outputs: one at a time of a chare is on its way, and none while it
\* is between the start of a step and the end of it, or before it is set up.
LEMMA NoWrites ==
  ASSUME NEW c, StepsInv(c), NEW i \in Chare, c.stage[i] \notin {3, 12}
  PROVE  \A n \in msgs : n.type = "write" => n.to # i
  BY PartsOfInv DEF Expects

\* A new output of chare i is on its way.
LEMMA FilesDumped ==
  ASSUME Files, NEW i \in Chare, NEW t, Dumped(i), itr' = itr, itf \in [Chare -> Nat], lastDump[i] # it[i],
         \A n \in msgs : n.type = "write" => n.to # i,
         \A n : n.type = "write" => (n \in msgs' <=> n \in msgs \/ n = Dump(i, t))
  PROVE  Files'
  <1>1. file' = file /\ itf' = [itf EXCEPT ![i] = itf[i] + 1]
    BY DEF Dumped
  <1>2. itf'[i] = itf[i] + 1 /\ itf[i] \in Nat /\ \A j \in Chare \ {i} : itf'[j] = itf[j]
    BY <1>1
  <1>3. /\ Dump(i, t).type = "write" /\ Dump(i, t).to = i /\ Dump(i, t).itr = itr[i]
        /\ Dump(i, t).mesh = (itf[i] = 0) /\ Dump(i, t).itf = itf[i] + 1 /\ Dump(i, t).field = TRUE
    BY DEF Dump
  <1>4. FilesReadable'
    BY <1>1 DEF Files, FilesReadable
  <1>5. ASSUME NEW j \in Chare \ {i} PROVE FilesOf(j)'
    <2>1. \A n : n.type = "write" /\ n.to = j => (n \in msgs' <=> n \in msgs)
      BY <1>3, <1>5
    <2> QED BY <1>1, <1>2, <2>1, FilesOfKept DEF Files
  <1>6. FilesOf(i)'
    <2>1. EndsWith(i, itr[i], itf[i])
      BY DEF Files, FilesOf
    <2>2. EndsWith(i, itr[i], itf[i] - 1)'
      <3>1. itf'[i] - 1 = itf[i] /\ file' = file /\ itr' = itr
        BY <1>1, <1>2
      <3> QED BY <2>1, <3>1 DEF EndsWith
    <2>3. \A n \in msgs' : n.type = "write" /\ n.to = i => n = Dump(i, t)
      BY <1>3
    <2>4. Dump(i, t) \in msgs' /\ ~ \A n \in msgs' : n.type = "write" => n.to # i
      BY <1>3
    <2>5. \A n \in msgs' : n.type = "write" /\ n.to = i =>
            /\ n.itr = itr'[i] /\ n.itf = itf'[i] /\ n.field = TRUE /\ n.mesh = (itf'[i] = 1) /\ itf'[i] > 0
      <3>1. (itf[i] = 0) = (itf'[i] = 1)
        BY <1>2
      <3> QED BY <1>2, <1>3, <2>3, <3>1
    <2> QED BY <2>2, <2>4, <2>5 DEF FilesOf
  <1> QED BY <1>1, <1>4, <1>5, <1>6 DEF Files

\* An output is written.
LEMMA FilesWritten ==
  ASSUME NEW c, StepsInv(c), Files, NEW m \in msgs, NEW i, i = m.to, Write(i, m)
  PROVE  Files'
  <1> DEFINE r == [itr |-> m.itr, itf |-> m.itf, mesh |-> m.mesh, field |-> m.field]
             s == file[i]
  <1>1. /\ m.type = "write" /\ i \in Chare /\ m.then \in {"init", "step"}
        /\ \A n \in msgs : n.type = "write" /\ n.to = i => n = m
    BY PartsOfInv DEF Expects, Write, Is
  <1>2. /\ m.itr = itr[i] /\ m.itf = itf[i] /\ m.field = TRUE /\ m.mesh = (itf[i] = 1)
        /\ itf[i] > 0 /\ EndsWith(i, itr[i], itf[i] - 1)
    BY <1>1 DEF Files, FilesOf
  <1>3. itf[i] \in Nat /\ itr[i] \in Nat
    BY <1>1, PartsOfInv DEF Shape, Outputs
  <1>4. file' = [file EXCEPT ![i] = Append(s, r)]
    BY DEF Write
  <1>5. msgs' = (msgs \ {m}) \cup {[type |-> m.then, to |-> i]} /\ UNCHANGED <<itf, itr>>
    BY DEF Write, Serve, stepVars
  <1>6. \A n : n.type = "write" => (n \in msgs' <=> n \in msgs /\ n # m)
    <2>1. [type |-> m.then, to |-> i].type # "write"
      BY <1>1
    <2> QED BY <1>5, <2>1
  <1> DEFINE O == [itr : Nat, itf : Nat, mesh : BOOLEAN, field : BOOLEAN]
  <1>7. r \in O /\ s \in Seq(O) /\ file \in [Chare -> Seq(O)]
    BY <1>1, <1>2, <1>3 DEF Files
  <1>8. /\ r.itr = itr[i] /\ r.itf = itf[i] /\ r.field = TRUE /\ r.mesh = (itf[i] = 1)
    BY <1>2
  <1> HIDE DEF r, O
  <1>9. /\ file' \in [Chare -> Seq(O)] /\ file'[i] = Append(s, r) /\ \A j \in Chare \ {i} : file'[j] = file[j]
    <2>1. Append(s, r) \in Seq(O)
      BY <1>7
    <2> QED BY <1>1, <1>4, <1>7, <2>1
  <1>10. /\ Len(Append(s, r)) = Len(s) + 1 /\ Append(s, r)[Len(s) + 1] = r /\ Append(s, r) # <<>>
         /\ Len(s) \in Nat /\ DOMAIN s = 1 .. Len(s) /\ DOMAIN Append(s, r) = 1 .. (Len(s) + 1)
         /\ \A k \in 1 .. Len(s) : Append(s, r)[k] = s[k]
    BY <1>7
  <1>11. IF itf[i] = 1 THEN Len(s) = 0 \/ s[Len(s)].itr < itr[i]
                       ELSE Len(s) > 0 /\ s[Len(s)].itr = itr[i] /\ s[Len(s)].itf = itf[i] - 1
    <2>1. s = <<>> <=> Len(s) = 0
      BY <1>7
    <2> QED BY <1>2, <1>3, <1>10, <2>1 DEF EndsWith
  <1>12. FilesReadable'
    <2>1. Readable(s)
      BY <1>1 DEF Files, FilesReadable
    <2>2. \A k \in 1 .. Len(s) : s[k] \in O
      BY <1>7
    <2>3. Len(s) > 0 => s[Len(s)].itr \in Nat
      BY <1>10, <2>2 DEF O
    <2>4. IF itf[i] = 1 THEN Len(s) = 0 \/ s[Len(s)].itr # r.itr
                        ELSE Len(s) > 0 /\ s[Len(s)].itr = r.itr /\ r.itf = s[Len(s)].itf + 1
      BY <1>3, <1>8, <1>11, <2>3
    <2>5. Readable(Append(s, r))
      <3> SUFFICES ASSUME NEW k \in 1 .. (Len(s) + 1)
                   PROVE  LET q == Append(s, r)
                              first == k = 1 \/ q[k - 1].itr # q[k].itr
                          IN  q[k].mesh = first /\ q[k].field /\ q[k].itf = IF first THEN 1 ELSE q[k - 1].itf + 1
        BY <1>10 DEF Readable
      <3>1. CASE k # Len(s) + 1
        <4>1. k \in 1 .. Len(s) /\ (k # 1 => k - 1 \in 1 .. Len(s))
          BY <1>10, <3>1
        <4>2. Append(s, r)[k] = s[k] /\ (k # 1 => Append(s, r)[k - 1] = s[k - 1])
          BY <1>10, <4>1
        <4>3. LET first == k = 1 \/ s[k - 1].itr # s[k].itr
              IN  s[k].mesh = first /\ s[k].field /\ s[k].itf = IF first THEN 1 ELSE s[k - 1].itf + 1
          BY <1>10, <2>1, <4>1 DEF Readable
        <4> QED BY <4>2, <4>3
      <3>2. CASE k = Len(s) + 1
        <4>1. Append(s, r)[k] = r /\ (k = 1 <=> Len(s) = 0) /\ (Len(s) > 0 => Append(s, r)[k - 1] = s[Len(s)])
          BY <1>10, <3>2
        <4>2. CASE itf[i] = 1
          BY <1>8, <1>10, <2>4, <4>1, <4>2
        <4>3. CASE itf[i] # 1
          BY <1>8, <1>10, <2>4, <4>1, <4>3
        <4> QED BY <4>2, <4>3
      <3> QED BY <3>1, <3>2
    <2> QED BY <1>9, <2>5 DEF Files, FilesReadable
  <1>13. ASSUME NEW j \in Chare \ {i} PROVE FilesOf(j)'
    <2>1. file'[j] = file[j] /\ \A n : n.type = "write" /\ n.to = j => (n \in msgs' <=> n \in msgs)
      BY <1>6, <1>9
    <2> QED BY <1>5, <2>1, FilesOfKept DEF Files
  <1>14. FilesOf(i)'
    <2>1. \A n \in msgs' : n.type = "write" => n.to # i
      BY <1>1, <1>6
    <2>2. EndsWith(i, itr[i], itf[i])'
      BY <1>2, <1>3, <1>5, <1>8, <1>9, <1>10 DEF EndsWith
    <2> QED BY <2>1, <2>2 DEF FilesOf
  <1> QED BY <1>9, <1>12, <1>13, <1>14 DEF Files, O

\* Chare i is on a new mesh.
LEMMA FilesRemeshed ==
  ASSUME NEW c, StepsInv(c), Files, NEW i \in Chare, c.stage[i] \notin {3, 12},
         itr' = [itr EXCEPT ![i] = itr[i] + 1], itf' = [itf EXCEPT ![i] = 0], file' = file,
         \A n : n.type = "write" => (n \in msgs' <=> n \in msgs)
  PROVE  Files'
  <1>1. itf \in [Chare -> Nat] /\ itr \in [Chare -> Nat] /\ \A n \in msgs : n.type = "write" => n.to # i
    BY PartsOfInv, NoWrites DEF Shape, Outputs
  <1>2. EndsWith(i, itr[i], itf[i]) /\ file[i] \in Seq([itr : Nat, itf : Nat, mesh : BOOLEAN, field : BOOLEAN])
    BY <1>1 DEF Files, FilesOf
  <1>3. itr'[i] = itr[i] + 1 /\ itf'[i] = 0 /\ itr[i] \in Nat /\ itf[i] \in Nat
    BY <1>1
  <1>4. EndsWith(i, itr[i], itf[i])'
    <2>1. CASE file[i] = <<>>
      BY <1>3, <2>1 DEF EndsWith
    <2>2. CASE file[i] # <<>>
      <3>1. file[i][Len(file[i])] \in [itr : Nat, itf : Nat, mesh : BOOLEAN, field : BOOLEAN]
        <4>1. \A O, s : s \in Seq(O) /\ s # <<>> => s[Len(s)] \in O
          OBVIOUS
        <4> QED BY <1>2, <2>2, <4>1
      <3>2. file[i][Len(file[i])].itr <= itr[i]
        BY <1>2, <1>3, <2>2, <3>1 DEF EndsWith
      <3>3. file[i][Len(file[i])].itr < itr[i] + 1
        BY <1>3, <3>1, <3>2
      <3> QED BY <1>3, <3>3 DEF EndsWith
    <2> QED BY <2>1, <2>2
  <1>5. FilesOf(i)'
    BY <1>1, <1>4 DEF FilesOf
  <1>6. ASSUME NEW j \in Chare \ {i} PROVE FilesOf(j)'
    BY <1>1, FilesOfKept DEF Files
  <1>7. FilesReadable'
    BY DEF Files, FilesReadable
  <1> QED BY <1>5, <1>6, <1>7 DEF Files

-----------------------------------------------------------------------------
\* Triggers and files, together.
Orderly == Uncalled /\ Files

\* Calls are to chares.
LEMMA CallsTo ==
  ASSUME NEW c, StepsInv(c), NEW m \in msgs
  PROVE  m.to \in Chare
  <1>1. Expects(c) /\ Exchanges(c)
    BY PartsOfInv
  <1>2. CASE m.type # "com"
    BY <1>1, <1>2 DEF Expects
  <1>3. CASE m.type = "com"
    <2> DEFINE x == m.kind
    <2>1. x \in Kind /\ m \in OfKind(x)
      BY <1>1, <1>3 DEF Expects, OfKind
    <2> HIDE DEF x
    <2>2. PICK i \in Takers(c, x) : \E j \in Nbr[i] \cap Senders(c, x) : m = ComCall(x, About(c, x), j, i)
      BY <1>1, <2>1 DEF Exchanges, Traded, Exchange
    <2>3. m.to = i /\ i \in Chare
      BY <2>2, CallsDiffer DEF Takers
    <2> QED BY <2>3
  <1> QED BY <1>2, <1>3

\* A chare takes a call,
LEMMA TakeOrderly ==
  ASSUME NEW c, StepsInv(c), Orderly, NEW m \in msgs, NEW i, i = m.to, NEW e, Take(i, m, e), Tame(e),
         m.type # "write", UNCHANGED <<file, itf, itr>>
  PROVE  Orderly'
  <1>1. i \in Chare /\ i \in Object /\ i # Host /\ CharmShape
    BY CallsTo, ObjectFacts, PartsOfInv DEF Shape
  <1>2. Uncalled'
    BY <1>1, UncalledTake DEF Orderly, Take, Tame
  <1>3. \A n : n.type = "write" => (n \in msgs' <=> n \in msgs)
    BY DEF Take, Tame
  <1> QED BY <1>2, <1>3, FilesKept DEF Orderly

\* the body of a wait runs,
LEMMA RunOrderly ==
  ASSUME NEW c, StepsInv(c), Orderly, NEW i \in Chare, NEW w \in Wait \ {"resize"}, NEW e, Run(i, w, e), Tame(e),
         UNCHANGED <<file, itf, itr>>
  PROVE  Orderly'
  <1>1. i \in Object /\ i # Host /\ CharmShape
    BY ObjectFacts, PartsOfInv DEF Shape
  <1>2. Uncalled'
    BY <1>1, UncalledRun DEF Orderly, Run, Tame
  <1>3. \A n : n.type = "write" => (n \in msgs' <=> n \in msgs)
    BY DEF Run, Tame
  <1> QED BY <1>2, <1>3, FilesKept DEF Orderly

\* and a reduction or a new mesh of all chares is complete.
LEMMA HostOrderly ==
  ASSUME NEW c, StepsInv(c), Orderly, NEW a, NEW r, NEW e, Reduce(a, r, e) \/ Run(Host, "resize", e),
         e.triggers \subseteq ResizeNeeds, \A n \in e.calls : n.type # "write", UNCHANGED <<file, itf, itr>>
  PROVE  Orderly'
  <1>1. Host \in Object /\ CharmShape /\ "resize" \in Wait
    BY ObjectFacts, WaitFacts, PartsOfInv DEF Shape
  <1>2. CASE Reduce(a, r, e)
    <2>1. Uncalled'
      BY <1>1, <1>2, UncalledTake DEF Orderly, Reduce
    <2>2. \A n : n.type = "write" => (n \in msgs' <=> n \in msgs)
      BY <1>2 DEF Reduce
    <2> QED BY <2>1, <2>2, FilesKept DEF Orderly
  <1>3. CASE Run(Host, "resize", e)
    <2>1. Uncalled'
      BY <1>1, <1>3, UncalledRun DEF Orderly, Run
    <2>2. \A n : n.type = "write" => (n \in msgs' <=> n \in msgs)
      BY <1>3 DEF Run
    <2> QED BY <2>1, <2>2, FilesKept DEF Orderly
  <1> QED BY <1>2, <1>3

\* Targets that call all chares, or a trigger of the Transporter.
LEMMA TargetOrderly ==
  ASSUME NEW c, StepsInv(c), Orderly, NEW a, NEW r, NEW e, Target(a, r, e),
         e.triggers \subseteq ResizeNeeds, \A n \in e.calls : n.type # "write"
  PROVE  Orderly'
  BY HostOrderly DEF Target, stepVars, fileVars

\* Calls of all chares.
LEMMA BroadcastOrderly ==
  ASSUME NEW t, t # "write"
  PROVE  \A n \in Broadcast(t) : n.type # "write"
  BY DEF Broadcast

\* A contribution that arrives.
LEMMA ReceiveOrderly ==
  ASSUME NEW c, StepsInv(c), Orderly, NEW x, NEW m \in msgs, NEW i, i = m.to, NEW e, Receive(i, x, m, e), Tame(e)
  PROVE  Orderly'
  <1>1. m.type = "com" /\ UNCHANGED <<file, itf, itr>>
    BY DEF Receive, Is, stepVars, fileVars
  <1>2. Take(i, m, IF count[i][x] + 1 = Cardinality(Nbr[i]) THEN e ELSE Nothing)
    BY DEF Receive, Heard
  <1>3. Tame(IF count[i][x] + 1 = Cardinality(Nbr[i]) THEN e ELSE Nothing)
    BY TameEffects
  <1> QED BY <1>1, <1>2, <1>3, TakeOrderly

\* The actions of Discretization.
LEMMA DiscretizationOrderly ==
  ASSUME NEW c, StepsInv(c), Orderly, DiscretizationNext
  PROVE  Orderly'
  <1>1. ASSUME NEW m \in msgs, DiscretizationCall(m.to, m) PROVE Orderly'
    <2> DEFINE i == m.to
    <2>1. i = m.to /\ DiscretizationCall(i, m) /\ i \in Chare
      BY <1>1, CallsTo
    <2> HIDE DEF i
    <2>2. CASE Vol(i, m)
      <3>1. Tame(IF Nbr[i] = {} THEN Contributes("disc", "vol") ELSE Calls(ComCalls(i, "vol")))
        BY <2>1, TameEffects
      <3> QED BY <2>1, <2>2, <3>1, TakeOrderly DEF Vol, Is, stepVars, fileVars
    <2>3. CASE Comvol(i, m)
      BY <2>1, <2>3, TameEffects, ReceiveOrderly DEF Comvol
    <2>4. CASE TotalVol(i, m)
      BY <2>1, <2>4, TameEffects, TakeOrderly DEF TotalVol, Is, stepVars, fileVars
    <2>5. CASE Write(i, m)
      <3>1. Files'
        BY <2>1, <2>5, FilesWritten DEF Orderly
      <3>2. Uncalled'
        BY <2>5 DEF Orderly, Uncalled, Write, Serve
      <3> QED BY <3>1, <3>2 DEF Orderly
    <2> QED BY <2>1, <2>2, <2>3, <2>4, <2>5 DEF DiscretizationCall
  <1>2. CASE Matched
    BY <1>2, TargetOrderly, EffectFacts, BroadcastOrderly DEF Matched
  <1>3. CASE Discresized
    BY <1>3, TargetOrderly, EffectFacts DEF Discresized, ResizeNeeds
  <1>4. CASE Workresized
    BY <1>4, TargetOrderly, EffectFacts DEF Workresized, ResizeNeeds
  <1>5. CASE TransporterVol
    BY <1>5, TargetOrderly, EffectFacts, BroadcastOrderly DEF TransporterVol
  <1>6. CASE TransporterTotalvol
    BY <1>6, TargetOrderly, EffectFacts, BroadcastOrderly DEF TransporterTotalvol
  <1>7. CASE Sync
    BY <1>7, TargetOrderly, EffectFacts, BroadcastOrderly DEF Sync
  <1>8. CASE Posting
    <2>1. UNCHANGED <<msgs, trigger, file, itf, itr>>
      BY <1>8 DEF Posting, Post, stepVars, fileVars
    <2>2. Uncalled'
      BY <2>1 DEF Orderly, Uncalled
    <2>3. Files'
      BY <2>1, FilesKept DEF Orderly
    <2> QED BY <2>2, <2>3 DEF Orderly
  <1> QED BY <1>1, <1>2, <1>3, <1>4, <1>5, <1>6, <1>7, <1>8 DEF DiscretizationNext

-----------------------------------------------------------------------------
\* Output of the initial conditions,
LEMMA SetupOrderly ==
  ASSUME NEW c, StepsInv(c), Orderly, NEW m \in msgs, NEW i, i = m.to, Is(m, "setup", i), Dumped(i),
         Take(i, m, Calls({Dump(i, "init")})), itr' = itr
  PROVE  Orderly'
  <1>1. /\ i \in Chare /\ i \in Object /\ i # Host /\ CharmShape /\ Outputs(c) /\ Expects(c) /\ c \in Config
        /\ Stages(c)
    BY CallsTo, ObjectFacts, PartsOfInv DEF Shape
  <1>2. m.type = "setup" /\ Calls({Dump(i, "init")}).calls = {Dump(i, "init")} /\ Calls({Dump(i, "init")}).triggers = {}
    BY EffectFacts DEF Is
  <1>3. c.stage[i] = 2
    BY <1>1, <1>2 DEF Expects, Expected
  <1>4. Uncalled'
    BY <1>1, <1>2, UncalledTake DEF Orderly, Take
  <1>5. c.round = 0
    BY <1>1, <1>3, ConfigIs DEF Stages
  <1>6. lastDump[i] # it[i] /\ itf \in [Chare -> Nat]
    BY <1>1, <1>3, <1>5 DEF Outputs
  <1>7. \A n : n.type = "write" => (n \in msgs' <=> n \in msgs \/ n = Dump(i, "init"))
    BY <1>2 DEF Take
  <1>8. \A n \in msgs : n.type = "write" => n.to # i
    BY <1>1, <1>3, NoWrites
  <1>9. Files'
    BY <1>1, <1>6, <1>7, <1>8, FilesDumped DEF Orderly
  <1> QED BY <1>4, <1>9 DEF Orderly

\* and after a step.
LEMMA OutOrderly ==
  ASSUME NEW c, StepsInv(c), Orderly, NEW i \in Chare, itr' = itr,
         IF it[i] % FieldFreq = 0 \/ it[i] = NStep
         THEN Dumped(i) /\ Run(i, "out", Calls({Dump(i, "step")}))
         ELSE Run(i, "out", StepOf(i)) /\ UNCHANGED fileVars
  PROVE  Orderly'
  <1>1. i \in Object /\ i # Host /\ CharmShape /\ Outputs(c) /\ Ends(c) /\ "out" \in Wait \ {"resize"}
    BY ObjectFacts, WaitFacts, PartsOfInv DEF Shape
  <1>2. CASE Run(i, "out", StepOf(i)) /\ UNCHANGED fileVars
    BY <1>1, <1>2, RunOrderly, TameEnds DEF fileVars
  <1>3. CASE Dumped(i) /\ Run(i, "out", Calls({Dump(i, "step")}))
    <2>1. Calls({Dump(i, "step")}).calls = {Dump(i, "step")} /\ Calls({Dump(i, "step")}).triggers = {}
      BY EffectFacts
    <2>2. Uncalled'
      BY <1>1, <1>3, <2>1, UncalledRun DEF Orderly, Run
    <2>3. trigger[i][done("diag")] > 0
      BY <1>3, WaitFacts DEF Run, Runnable
    <2>4. c.stage[i] = 11 /\ c.round > 0
      BY <1>1, <2>3 DEF Ends, Ended, Made
    <2>5. lastDump[i] # it[i] /\ itf \in [Chare -> Nat]
      BY <1>1, <2>4 DEF Outputs
    <2>6. \A n : n.type = "write" => (n \in msgs' <=> n \in msgs \/ n = Dump(i, "step"))
      BY <1>3, <2>1 DEF Run
    <2>7. \A n \in msgs : n.type = "write" => n.to # i
      BY <2>4, NoWrites
    <2>8. Files'
      BY <1>3, <2>5, <2>6, <2>7, FilesDumped DEF Orderly
    <2> QED BY <2>2, <2>8 DEF Orderly
  <1> QED BY <1>2, <1>3

\* The new mesh of a chare.
LEMMA EvalOrderly ==
  ASSUME NEW c, StepsInv(c), Orderly, NEW m \in msgs, NEW i, i = m.to, Evals(i, m)
  PROVE  Orderly'
  <1>1. /\ i \in Chare /\ i \in Object /\ i # Host /\ CharmShape /\ Expects(c) /\ Remeshing(c) /\ c \in Config
        /\ Stages(c) /\ m.type = "eval"
    BY CallsTo, ObjectFacts, PartsOfInv DEF Shape, Evals, Is
  <1>2. c.ref[i] = 2
    BY <1>1 DEF Expects, Expected
  <1>3. Made(c, i) /\ Refines(c.round)
    BY <1>1, <1>2 DEF Remeshing
  <1>4. c.stage[i] \notin {3, 12}
    BY <1>1, <1>2, <1>3, ConfigIs DEF Remeshing, Made
  <1> DEFINE e == Contributes("disc", "discresized") ++ Posts({"lhs"})
                  ++ Triggers({done("ref")}) ++ Contributes("worker", "workresized")
  <1>5. Tame(e) /\ Take(i, m, e)
    BY TameEffects, TameEnds DEF Evals
  <1> HIDE DEF e
  <1>6. Uncalled'
    BY <1>1, <1>5, UncalledTake DEF Orderly, Take, Tame
  <1>7. \A n : n.type = "write" => (n \in msgs' <=> n \in msgs)
    BY <1>1, <1>5 DEF Take, Tame
  <1>8. /\ itr' = [itr EXCEPT ![i] = itr[i] + 1] /\ itf' = [itf EXCEPT ![i] = 0] /\ file' = file
    BY DEF Evals, Resize
  <1>9. Files'
    BY <1>1, <1>4, <1>7, <1>8, FilesRemeshed DEF Orderly
  <1> QED BY <1>6, <1>9 DEF Orderly

\* The initial states.
LEMMA InitOrderly ==
  ASSUME DiscretizationInit
  PROVE  Orderly
  <1>1. /\ msgs = Broadcast("create") /\ trigger = [o \in Object |-> [t \in Trigger |-> 0]]
        /\ itf = [i \in Chare |-> 0] /\ file = [i \in Chare |-> <<>>]
    BY DEF DiscretizationInit, CharmInit
  <1>2. Uncalled
    <2>1. \A y \in {"disc", "work"} : done(y) \in Trigger
      BY TriggerFacts
    <2> QED BY <1>1, <2>1, ObjectFacts DEF Uncalled
  <1>3. ASSUME NEW i \in Chare PROVE FilesOf(i) /\ Readable(file[i])
    <2>1. \A m \in msgs : m.type # "write"
      BY <1>1, BroadcastOrderly
    <2>2. file[i] = <<>> /\ itf[i] = 0
      BY <1>1
    <2> QED BY <2>1, <2>2 DEF FilesOf, EndsWith, Readable
  <1>4. file \in [Chare -> Seq([itr : Nat, itf : Nat, mesh : BOOLEAN, field : BOOLEAN])]
    <2>1. \A O : <<>> \in Seq(O)
      OBVIOUS
    <2> QED BY <1>1, <2>1
  <1> QED BY <1>2, <1>3, <1>4 DEF Orderly, Files, FilesReadable

\* The actions of Discretization make no step, and no mesh.
LEMMA DiscretizationStays ==
  ASSUME DiscretizationNext
  PROVE  UNCHANGED <<it, itr, finished>>
  <1>1. ASSUME NEW m \in msgs, DiscretizationCall(m.to, m) PROVE UNCHANGED <<it, itr, finished>>
    BY <1>1 DEF DiscretizationCall, Vol, Comvol, TotalVol, Write, Receive, stepVars
  <1>2. ASSUME Matched \/ Discresized \/ Workresized \/ TransporterVol \/ TransporterTotalvol \/ Sync \/ Posting
        PROVE  UNCHANGED <<it, itr, finished>>
    BY <1>2 DEF Matched, Discresized, Workresized, TransporterVol, TransporterTotalvol, Sync, Posting, Target, stepVars
  <1> QED BY <1>1, <1>2 DEF DiscretizationNext
=============================================================================
