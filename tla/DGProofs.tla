------------------------------ MODULE DGProofs ------------------------------
(***************************************************************************)
(* DGInv is an invariant of DG, and what follows from it.                  *)
(***************************************************************************)
EXTENDS DGMoves, FiniteSetTheorems, TLAPS

USE DEF Plain, SameMail, SameTargets, ContribIs, TriggerIs, Faces, SameFace, Keeps,
        Held, Kept, SameJobs, Vols, NewDue, NewOf

\* The Transporter is no element of an array.
LEMMA ObjectFacts == Chare \subseteq Object /\ Host \in Object /\ Host \notin Chare
  BY CharmAssumption DEF Object, Chare, Host

\* What the effects do.
LEMMA EffectFacts ==
  /\ Nothing.calls = {} /\ Nothing.triggers = {} /\ \A a : TargetsOn(a, Nothing) = <<>>
  /\ \A s : Posts(s).calls = {} /\ Posts(s).triggers = {} /\ \A a : TargetsOn(a, Posts(s)) = <<>>
  /\ \A s : Triggers(s).calls = {} /\ Triggers(s).triggers = s /\ \A a : TargetsOn(a, Triggers(s)) = <<>>
  /\ \A s : Calls(s).calls = s /\ Calls(s).triggers = {} /\ \A a : TargetsOn(a, Calls(s)) = <<>>
  /\ \A b, r : /\ Contributes(b, r).calls = {} /\ Contributes(b, r).triggers = {}
               /\ \A a : TargetsOn(a, Contributes(b, r)) = IF a = b THEN <<r>> ELSE <<>>
  BY DEF Nothing, Posts, Triggers, Calls, Contributes, TargetsOn

\* One after the other.
LEMMA ThenFacts ==
  ASSUME NEW d, NEW e
  PROVE  /\ (d ++ e).calls = d.calls \cup e.calls
         /\ (d ++ e).triggers = d.triggers \cup e.triggers
         /\ \A a : TargetsOn(a, d ++ e) = TargetsOn(a, d) \o TargetsOn(a, e)
<1>1. (d ++ e).calls = d.calls \cup e.calls /\ (d ++ e).triggers = d.triggers \cup e.triggers BY DEF ++
<1>2. ASSUME NEW a PROVE TargetsOn(a, d ++ e) = TargetsOn(a, d) \o TargetsOn(a, e)
  <2>1. (d ++ e).parts = [x \in DOMAIN d.parts \cup DOMAIN e.parts |-> TargetsOn(x, d) \o TargetsOn(x, e)] BY DEF ++
  <2>2. CASE a \in DOMAIN d.parts \cup DOMAIN e.parts BY <2>1, <2>2 DEF TargetsOn
  <2>3. CASE a \notin DOMAIN d.parts \cup DOMAIN e.parts
    <3>1. TargetsOn(a, d ++ e) = <<>> /\ TargetsOn(a, d) = <<>> /\ TargetsOn(a, e) = <<>> BY <2>1, <2>3 DEF TargetsOn
    <3> QED BY <3>1
  <2> QED BY <2>2, <2>3
<1> QED BY <1>1, <1>2

\* Targets contributed to one after the other,
LEMMA TwoTargets == ASSUME NEW q, NEW r PROVE <<q>> \o <<r>> = <<q, r>>
<1> DEFINE u == <<q>> \o <<r>>
<1>1. u \in Seq({q, r}) /\ Len(u) = 2 /\ u[1] = q /\ u[2] = r OBVIOUS
<1> HIDE DEF u
<1>2. u \in [1 .. 2 -> {q, r}] BY <1>1
<1>3. u = [k \in 1 .. 2 |-> IF k = 1 THEN q ELSE r] BY <1>1, <1>2
<1>4. <<q, r>> = [k \in 1 .. 2 |-> IF k = 1 THEN q ELSE r] OBVIOUS
<1>5. u = <<q, r>> BY <1>3, <1>4
<1> QED BY <1>5 DEF u

\* Targets contributed and taken.
LEMMA TargetFacts ==
  /\ <<>> \o <<>> = <<>>
  /\ \A r : <<>> \o <<r>> = <<r>> /\ <<r>> \o <<>> = <<r>> /\ Head(<<r>>) = r /\ Tail(<<r>>) = <<>>
  /\ \A q, r : /\ <<q>> \o <<r>> = <<q, r>> /\ <<q, r>> \o <<>> = <<q, r>> /\ <<>> \o <<q, r>> = <<q, r>>
               /\ Head(<<q, r>>) = q /\ Tail(<<q, r>>) = <<r>>
<1>1. <<>> \o <<>> = <<>> OBVIOUS
<1>2. \A r : <<>> \o <<r>> = <<r>> /\ <<r>> \o <<>> = <<r>> /\ Head(<<r>>) = r /\ Tail(<<r>>) = <<>> OBVIOUS
<1>3. \A q, r : <<q, r>> \o <<>> = <<q, r>> /\ <<>> \o <<q, r>> = <<q, r>> OBVIOUS
<1>4. \A q, r : Head(<<q, r>>) = q /\ Tail(<<q, r>>) = <<r>> OBVIOUS
<1> QED BY <1>1, <1>2, <1>3, <1>4, TwoTargets

\* The counts of an object with the members of a set counted.
LEMMA CountedFacts ==
  ASSUME NEW S, NEW f \in [S -> Int], NEW s, NEW d \in Int
  PROVE  /\ Counted(f, s, d) \in [S -> Int]
         /\ \A t \in S : Counted(f, s, d)[t] = IF t \in s THEN f[t] + d ELSE f[t]
  BY DEF Counted

\* The parameters.
LEMMA ConstantFacts ==
  /\ NStep \in Nat \ {0} /\ DtFreq \in Nat \ {0} /\ DiagFreq \in Nat \ {0}
  /\ FieldFreq \in Nat \ {0} /\ LbFreq \in Nat \ {0}
  /\ Dtref \in BOOLEAN /\ Nonblocking \in BOOLEAN
  /\ Chare # {}
<1>1. Chare # {} BY CharmAssumption DEF Chare
<1> QED BY <1>1, DiscretizationAssumption

\* Division rounds down.
LEMMA DivisionFacts ==
  ASSUME NEW a \in Nat, NEW b \in Nat \ {0}
  PROVE  /\ a \div b \in Int /\ a % b \in 0 .. (b - 1)
         /\ a = b * (a \div b) + (a % b)
  BY SMT

\* A product is at most its factors' where one grows.
LEMMA Times ==
  ASSUME NEW a \in Int, NEW b \in Int, NEW n \in Nat, a <= b
  PROVE  n * a <= n * b
  OBVIOUS

\* A product distributes over a difference.
LEMMA Distributes ==
  ASSUME NEW a \in Int, NEW b \in Int, NEW n \in Nat
  PROVE  n * (a - b) = n * a - n * b
  OBVIOUS

\* The number of meshes grows by one after a step that refines, and by no other.
LEMMA MeshFacts ==
  /\ MeshOf(0) = 0
  /\ \A n \in Nat : MeshOf(n) \in Nat /\ MeshOf(n) <= n /\ MeshOf(n) * DtFreq <= n
  /\ \A n \in Nat \ {0} : /\ Refines(n) => MeshOf(n) = MeshOf(n - 1) + 1
                          /\ ~ Refines(n) => MeshOf(n) = MeshOf(n - 1)
<1> DEFINE f == DtFreq
           q(n) == n \div f
           r(n) == n % f
<1>1. f \in Nat \ {0} /\ Dtref \in BOOLEAN BY ConstantFacts
<1> HIDE DEF f
<1>2. \A n \in Nat : q(n) \in Int /\ r(n) \in 0 .. (f - 1) /\ n = f * q(n) + r(n) BY <1>1, DivisionFacts
<1> HIDE DEF q, r
<1>3. ASSUME NEW n \in Nat PROVE q(n) \in Nat /\ q(n) <= n /\ q(n) * f <= n
  <2>1. q(n) \in Int /\ r(n) \in 0 .. (f - 1) /\ n = f * q(n) + r(n) BY <1>2
  <2>2. q(n) >= 0
    <3> SUFFICES ASSUME q(n) <= -1 PROVE FALSE
      BY <2>1
    <3>1. f * q(n) <= f * (-1) BY <1>1, <2>1, Times
    <3> QED BY <1>1, <2>1, <3>1
  <2>3. f * q(n) >= q(n) BY <1>1, <2>1, <2>2
  <2>4. q(n) * f = f * q(n) BY <1>1, <2>1
  <2> QED BY <1>1, <2>1, <2>2, <2>3, <2>4
<1>4. ASSUME NEW n \in Nat \ {0}
      PROVE  /\ r(n) = 0 => q(n) = q(n - 1) + 1
             /\ r(n) # 0 => q(n) = q(n - 1)
  <2> DEFINE d == q(n) - q(n - 1)
             e == r(n) - r(n - 1)
  <2>1. /\ q(n) \in Int /\ r(n) \in 0 .. (f - 1) /\ n = f * q(n) + r(n)
        /\ q(n - 1) \in Int /\ r(n - 1) \in 0 .. (f - 1) /\ n - 1 = f * q(n - 1) + r(n - 1)
    <3>1. n - 1 \in Nat OBVIOUS
    <3> QED BY <1>2, <3>1
  <2>2. d \in Int /\ e \in Int /\ e > - f /\ e < f /\ f * d + e = 1
    <3>1. f * d = f * q(n) - f * q(n - 1) BY <1>1, <2>1, Distributes
    <3>2. f * q(n) \in Int /\ f * q(n - 1) \in Int BY <1>1, <2>1
    <3>3. f * d + e = 1 BY <2>1, <3>1, <3>2
    <3>4. d \in Int /\ e \in Int /\ e > - f /\ e < f BY <1>1, <2>1
    <3> QED BY <3>3, <3>4
  <2>3. d <= 1
    <3> SUFFICES ASSUME d >= 2 PROVE FALSE
      BY <2>2
    <3>1. f * 2 <= f * d BY <1>1, <2>2, Times
    <3> HIDE DEF d, e
    <3> QED BY <1>1, <2>2, <3>1
  <2>4. d >= 0
    <3> SUFFICES ASSUME d <= -1 PROVE FALSE
      BY <2>2
    <3>1. f * d <= f * (-1) BY <1>1, <2>2, Times
    <3> HIDE DEF d, e
    <3> QED BY <1>1, <2>2, <3>1
  <2>5. d = 0 => e = 1
    <3> HIDE DEF d, e
    <3> QED BY <1>1, <2>2
  <2>6. d = 1 => e = 1 - f
    <3> HIDE DEF d, e
    <3> QED BY <1>1, <2>2
  <2>7. d = 0 \/ d = 1
    <3> HIDE DEF d, e
    <3> QED BY <2>2, <2>3, <2>4
  <2>8. d = 0 => q(n) = q(n - 1) /\ r(n) # 0 BY <2>1, <2>5
  <2>9. d = 1 => q(n) = q(n - 1) + 1 /\ r(n) = 0 BY <1>1, <2>1, <2>6
  <2> QED BY <2>7, <2>8, <2>9
<1>5. \A n \in Nat : Refines(n) <=> Dtref /\ r(n) = 0 BY DEF Refines, r, f
<1>6. \A n \in Nat : MeshOf(n) = IF Dtref THEN q(n) ELSE 0 BY DEF MeshOf, q, f
<1>7. MeshOf(0) = 0 BY <1>3, <1>6
<1>8. ASSUME NEW n \in Nat PROVE MeshOf(n) \in Nat /\ MeshOf(n) <= n /\ MeshOf(n) * DtFreq <= n
  BY <1>1, <1>3, <1>6 DEF f
<1>9. ASSUME NEW n \in Nat \ {0}
      PROVE  /\ Refines(n) => MeshOf(n) = MeshOf(n - 1) + 1
             /\ ~ Refines(n) => MeshOf(n) = MeshOf(n - 1)
  <2>1. n - 1 \in Nat OBVIOUS
  <2> QED BY <1>1, <1>4, <1>5, <1>6, <2>1
<1> QED BY <1>7, <1>8, <1>9

\* Triggers are told apart by their names.
LEMMA TriggersDiffer ==
  /\ \A x, y : own(x) = own(y) => x = y
  /\ \A x, y : com(x) = com(y) => x = y
  /\ \A x, y : done(x) = done(y) => x = y
  /\ \A x, y : own(x) # com(y) /\ own(x) # done(y) /\ com(x) # done(y)
  BY DEF own, com, done

-----------------------------------------------------------------------------
\* The waits, and what they need.
LEMMA WaitsAre ==
  /\ Wait = {"ghost", "initlim", "sol", "lim", "recompghost", "resize"}
  /\ Needs["ghost"] = {own("ghost"), com("ghost")} /\ Needs["initlim"] = {own("init"), com("init")}
  /\ Needs["sol"] = {own("sol"), com("sol")} /\ Needs["lim"] = {own("lim"), com("lim")}
  /\ Needs["recompghost"] = {done("diag"), done("ref"), done("resize")}
  /\ Needs["resize"] = {done("disc"), done("work")}
  BY DGDefines DEF Wait, DGNeeds, ResizeNeeds

LEMMA TriggersAre ==
  /\ \A x \in {"ghost", "init", "sol", "lim"} : own(x) \in Trigger /\ com(x) \in Trigger
  /\ \A y \in {"diag", "ref", "resize", "disc", "work"} : done(y) \in Trigger
  BY WaitsAre DEF Trigger

LEMMA ContributedFacts ==
  ASSUME Shape, NEW i \in Chare, NEW e, Contributed(i, e)
  PROVE  /\ ContribIs
         /\ \A a \in Array : /\ contrib'[a][i] = contrib[a][i] \o TargetsOn(a, e)
                             /\ \A j \in Chare \ {i} : contrib'[a][j] = contrib[a][j]
<1>1. contrib' = [a \in DOMAIN contrib |-> [contrib[a] EXCEPT ![i] = @ \o TargetsOn(a, e)]] BY DEF Contributed
<1>2. DOMAIN contrib = Array /\ \A a \in Array : contrib[a] = [j \in Chare |-> contrib[a][j]] BY DEF Shape
<1> QED BY <1>1, <1>2

\* A chare takes a call.
LEMMA Taking ==
  ASSUME Shape, NEW i \in Chare, NEW m, NEW e, Take(i, m, e)
  PROVE  m \in msgs /\ msgs' = (msgs \ {m}) \cup e.calls /\ Acts(i, {}, e)
<1> DEFINE now == Counted(trigger[i], e.triggers, 1)
<1>1. now \in [Trigger -> Int] /\ \A t \in Trigger : now[t] = IF t \in e.triggers THEN trigger[i][t] + 1 ELSE trigger[i][t]
  <2>1. trigger[i] \in [Trigger -> Int] BY ObjectFacts DEF Shape
  <2> QED BY <2>1, CountedFacts
<1>2. trigger' = [trigger EXCEPT ![i] = now] /\ m \in msgs /\ msgs' = (msgs \ {m}) \cup e.calls /\ Contributed(i, e)
  BY DEF Take
<1> HIDE DEF now
<1>3. TriggerIs /\ \A o \in Object \ {i} : trigger'[o] = trigger[o]
  BY <1>1, <1>2, ObjectFacts DEF Shape
<1>4. ASSUME NEW t \in Trigger
      PROVE  trigger'[i][t] = (IF t \in {} THEN trigger[i][t] - 1 ELSE trigger[i][t]) + (IF t \in e.triggers THEN 1 ELSE 0)
  <2>1. trigger'[i] = now /\ trigger[i][t] \in Int BY <1>2, ObjectFacts DEF Shape
  <2> QED BY <1>1, <2>1
<1> QED BY <1>2, <1>3, <1>4, ContributedFacts DEF Acts

\* The body of a wait of a chare runs.
LEMMA Running ==
  ASSUME Shape, NEW i \in Chare, NEW w \in Wait, NEW e, Run(i, w, e)
  PROVE  msgs' = msgs \cup e.calls /\ Acts(i, Needs[w], e) /\ \A t \in Needs[w] : t \in Trigger /\ trigger[i][t] > 0
<1> DEFINE less == Counted(trigger[i], Needs[w], -1)
           now == Counted(less, e.triggers, 1)
<1>1. less \in [Trigger -> Int] /\ \A t \in Trigger : less[t] = IF t \in Needs[w] THEN trigger[i][t] - 1 ELSE trigger[i][t]
  <2>1. trigger[i] \in [Trigger -> Int] /\ -1 \in Int BY ObjectFacts DEF Shape
  <2>2. /\ less \in [Trigger -> Int]
        /\ \A t \in Trigger : less[t] = IF t \in Needs[w] THEN trigger[i][t] + (-1) ELSE trigger[i][t]
    BY <2>1, CountedFacts
  <2> HIDE DEF less
  <2> QED BY <2>1, <2>2
<1>2. trigger' = [trigger EXCEPT ![i] = now] /\ msgs' = msgs \cup e.calls /\ Contributed(i, e) BY DEF Run
<1> HIDE DEF less
<1>3. now \in [Trigger -> Int] /\ \A t \in Trigger : now[t] = IF t \in e.triggers THEN less[t] + 1 ELSE less[t]
  BY <1>1, CountedFacts
<1> HIDE DEF now
<1>4. TriggerIs /\ \A o \in Object \ {i} : trigger'[o] = trigger[o]
  BY <1>2, <1>3, ObjectFacts DEF Shape
<1>5. ASSUME NEW t \in Trigger
      PROVE  trigger'[i][t] = (IF t \in Needs[w] THEN trigger[i][t] - 1 ELSE trigger[i][t]) + (IF t \in e.triggers THEN 1 ELSE 0)
  <2>1. trigger'[i] = now /\ trigger[i][t] \in Int BY <1>2, ObjectFacts DEF Shape
  <2> QED BY <1>1, <1>3, <2>1
<1>6. \A t \in Needs[w] : t \in Trigger /\ trigger[i][t] > 0 BY DEF Run, Runnable, Trigger, Wait
<1> QED BY <1>2, <1>4, <1>5, <1>6, ContributedFacts DEF Acts

LEMMA Reducing ==
  ASSUME Shape, NEW a \in Array, NEW r, NEW e, Reduce(a, r, e)
  PROVE  /\ msgs' = msgs \cup e.calls /\ Reduces(a, {}, e)
         /\ \A i \in Chare : contrib[a][i] # <<>> /\ Head(contrib[a][i]) = r
<1> DEFINE now == Counted(trigger[Host], e.triggers, 1)
<1>1. now \in [Trigger -> Int] /\ \A t \in Trigger : now[t] = IF t \in e.triggers THEN trigger[Host][t] + 1 ELSE trigger[Host][t]
  <2>1. trigger[Host] \in [Trigger -> Int] BY ObjectFacts DEF Shape
  <2> QED BY <2>1, CountedFacts
<1>2. /\ trigger' = [trigger EXCEPT ![Host] = now] /\ msgs' = msgs \cup e.calls
      /\ contrib' = [contrib EXCEPT ![a] = [i \in Chare |-> Tail(contrib[a][i])]]
      /\ \A i \in Chare : contrib[a][i] # <<>> /\ Head(contrib[a][i]) = r
  BY DEF Reduce
<1> HIDE DEF now
<1>3. TriggerIs /\ \A o \in Chare : trigger'[o] = trigger[o]
  BY <1>1, <1>2, ObjectFacts DEF Shape
<1>4. ASSUME NEW t \in Trigger
      PROVE  trigger'[Host][t] = (IF t \in {} THEN trigger[Host][t] - 1 ELSE trigger[Host][t]) + (IF t \in e.triggers THEN 1 ELSE 0)
  <2>1. trigger'[Host] = now /\ trigger[Host][t] \in Int BY <1>2, ObjectFacts DEF Shape
  <2> QED BY <1>1, <2>1
<1>5. /\ ContribIs
      /\ \A b \in Array, j \in Chare : contrib'[b][j] = IF b = a THEN Tail(contrib[b][j]) ELSE contrib[b][j]
  BY <1>2 DEF Shape
<1> QED BY <1>2, <1>3, <1>4, <1>5 DEF Reduces

LEMMA HostRunning ==
  ASSUME Shape, NEW e, Run(Host, "resize", e)
  PROVE  /\ msgs' = msgs \cup e.calls /\ Reduces("none", {done("disc"), done("work")}, e)
         /\ trigger[Host][done("disc")] > 0 /\ trigger[Host][done("work")] > 0
<1> DEFINE less == Counted(trigger[Host], Needs["resize"], -1)
           now == Counted(less, e.triggers, 1)
<1>1. less \in [Trigger -> Int] /\ \A t \in Trigger : less[t] = IF t \in Needs["resize"] THEN trigger[Host][t] - 1 ELSE trigger[Host][t]
  <2>1. trigger[Host] \in [Trigger -> Int] /\ -1 \in Int BY ObjectFacts DEF Shape
  <2>2. /\ less \in [Trigger -> Int]
        /\ \A t \in Trigger : less[t] = IF t \in Needs["resize"] THEN trigger[Host][t] + (-1) ELSE trigger[Host][t]
    BY <2>1, CountedFacts
  <2> HIDE DEF less
  <2> QED BY <2>1, <2>2
<1>2. trigger' = [trigger EXCEPT ![Host] = now] /\ msgs' = msgs \cup e.calls /\ Contributed(Host, e) BY DEF Run
<1> HIDE DEF less
<1>3. now \in [Trigger -> Int] /\ \A t \in Trigger : now[t] = IF t \in e.triggers THEN less[t] + 1 ELSE less[t]
  BY <1>1, CountedFacts
<1> HIDE DEF now
<1>4. TriggerIs /\ \A o \in Chare : trigger'[o] = trigger[o]
  BY <1>2, <1>3, ObjectFacts DEF Shape
<1>5. ASSUME NEW t \in Trigger
      PROVE  trigger'[Host][t] = (IF t \in Needs["resize"] THEN trigger[Host][t] - 1 ELSE trigger[Host][t])
                                 + (IF t \in e.triggers THEN 1 ELSE 0)
  <2>1. trigger'[Host] = now /\ trigger[Host][t] \in Int BY <1>2, ObjectFacts DEF Shape
  <2> QED BY <1>1, <1>3, <2>1
<1>6. trigger[Host][done("disc")] > 0 /\ trigger[Host][done("work")] > 0 BY WaitsAre DEF Run, Runnable
<1>7. contrib' = contrib BY <1>2, ObjectFacts DEF Contributed
<1>8. /\ ContribIs
      /\ \A b \in Array, j \in Chare : contrib'[b][j] = IF b = "none" THEN Tail(contrib[b][j]) ELSE contrib[b][j]
  BY <1>7 DEF Shape, Array
<1> QED BY <1>2, <1>4, <1>5, <1>6, <1>8, WaitsAre DEF Reduces

-----------------------------------------------------------------------------
\* Chares others are waited for are chares, finitely many, and wait for each other.
LEMMA FromFacts ==
  ASSUME NEW x \in DGKind, NEW i \in Chare
  PROVE  /\ From(x, i) \subseteq Chare /\ IsFiniteSet(From(x, i)) /\ Cardinality(From(x, i)) \in Nat
         /\ \A j \in Chare : j \in From(x, i) <=> i \in From(x, j)
         /\ i \notin From(x, i)
<1>1. Nbr[i] \subseteq Chare /\ \A j \in Chare : /\ j \in Nbr[i] <=> i \in Nbr[j]
                                                 /\ j \in Fac[i] <=> i \in Fac[j]
  BY DiscretizationAssumption, DGAssumption
<1>2. Fac[i] \subseteq Nbr[i] /\ i \notin Nbr[i] BY DiscretizationAssumption, DGAssumption
<1>3. From(x, i) \subseteq Chare /\ i \notin From(x, i) /\ \A j \in Chare : j \in From(x, i) <=> i \in From(x, j)
  BY <1>1, <1>2 DEF From
<1>4. IsFiniteSet(Chare)
  <2>1. 0 \in Int /\ NChare - 1 \in Int BY CharmAssumption
  <2> QED BY <2>1, FS_Interval DEF Chare
<1>5. IsFiniteSet(From(x, i)) BY <1>3, <1>4, FS_Subset
<1> QED BY <1>3, <1>5, FS_CardinalityType

\* Chares share faces with neighbours only.
LEMMA NbrFacts ==
  \A i \in Chare : /\ Fac[i] \subseteq Nbr[i] /\ Nbr[i] \subseteq Chare
                   /\ \A j \in Chare : /\ j \in Nbr[i] <=> i \in Nbr[j]
                                       /\ j \in Fac[i] <=> i \in Fac[j]
  BY DiscretizationAssumption, DGAssumption

\* Hearing from one more counts one more, and the count tells whether all have been heard from.
LEMMA CountFrom ==
  ASSUME NEW x \in DGKind, NEW i \in Chare, NEW a \in SUBSET From(x, i)
  PROVE  /\ Cardinality(a) \in Nat
         /\ \A j \in From(x, i) \ a : /\ Cardinality(a \cup {j}) = Cardinality(a) + 1
                                      /\ Cardinality(a) + 1 = Cardinality(From(x, i)) <=> a \cup {j} = From(x, i)
<1>1. IsFiniteSet(From(x, i)) /\ Cardinality(From(x, i)) \in Nat BY FromFacts
<1>2. \A b \in SUBSET From(x, i) :
        /\ IsFiniteSet(b) /\ Cardinality(b) \in Nat /\ Cardinality(b) <= Cardinality(From(x, i))
        /\ Cardinality(b) = Cardinality(From(x, i)) => b = From(x, i)
  BY <1>1, FS_Subset, FS_CardinalityType
<1>3. ASSUME NEW j \in From(x, i) \ a
      PROVE  /\ Cardinality(a \cup {j}) = Cardinality(a) + 1
             /\ Cardinality(a) + 1 = Cardinality(From(x, i)) <=> a \cup {j} = From(x, i)
  <2>1. Cardinality(a \cup {j}) = Cardinality(a) + 1 BY <1>2, FS_AddElement
  <2>2. a \cup {j} \in SUBSET From(x, i) OBVIOUS
  <2> QED BY <1>2, <2>1, <2>2
<1> QED BY <1>2, <1>3

\* A call says whom it is from and whom to.
LEMMA LetterFacts ==
  ASSUME NEW c, NEW x \in DGKind, NEW j, NEW i
  PROVE  /\ Letter(c, x, j, i).type = CallOf[x] /\ Letter(c, x, j, i).to = i
         /\ \A k, l : Letter(c, x, j, i) = Letter(c, x, k, l) => j = k /\ i = l
<1>1. CASE x = "vol"
  <2>1. /\ Letter(c, x, j, i).type = "com" /\ Letter(c, x, j, i).to = i
        /\ \A k, l : Letter(c, x, k, l).to = l /\ Letter(c, x, k, l).part.from = k
    BY <1>1 DEF Letter
  <2>2. CallOf[x] = "com" BY <1>1 DEF CallOf
  <2> QED BY <2>1, <2>2
<1>2. CASE x # "vol"
  <2>1. /\ Letter(c, x, j, i).type = CallOf[x] /\ Letter(c, x, j, i).to = i
        /\ \A k, l : Letter(c, x, k, l).to = l /\ Letter(c, x, k, l).from = k
    BY <1>2 DEF Letter
  <2> QED BY <2>1
<1> QED BY <1>1, <1>2

\* Calls of other types are of no kind.
LEMMA CallTypes ==
  /\ CallOf["vol"] = "com" /\ CallOf["fac"] = "comfac" /\ CallOf["req"] = "reqGhost"
  /\ CallOf["ghost"] = "comGhost" /\ CallOf["init"] = "cominit" /\ CallOf["sol"] = "comsol"
  /\ CallOf["lim"] = "comlim"
  /\ DGKind = {"vol", "fac", "req", "ghost", "init", "sol", "lim"}
  BY DEF CallOf, DGKind

\* Who has been heard from, once a kind of calls is given.
LEMMA ArrivedIs ==
  ASSUME NEW c, NEW x \in DGKind, NEW i \in Chare
  PROVE  /\ \A j : j \in Arrived(c, x, i) <=> /\ j \in From(x, i) /\ SentAt(c, c.of[j], x)
                                              /\ Letter(c, x, j, i) \notin Letters(x)
         /\ \A j : j \in Arrived(c, x, i)' <=> /\ j \in From(x, i) /\ SentAt(c, c.of[j], x)
                                               /\ Letter(c, x, j, i) \notin Letters(x)'
<1>1. \A j : /\ Letter(c, x, j, i) \in Letters(x) <=> Letter(c, x, j, i) \in msgs
             /\ Letter(c, x, j, i) \in Letters(x)' <=> Letter(c, x, j, i) \in msgs'
  BY LetterFacts DEF Letters
<1>2. \A j \in From(x, i) : j \in Chare BY FromFacts
<1> QED BY <1>1, <1>2 DEF Arrived, Senders

\* Nothing of the kind happens: chares that have heard from all may no longer wait.
LEMMA Quiets ==
  ASSUME NEW c, NEW d, NEW x \in DGKind, Traded(c, x), SameTags(c, d, x),
         Letters(x)' = Letters(x), \A j \in Chare : count'[j][x] = count[j][x],
         \A j \in Chare : SentAt(d, d.of[j], x) <=> SentAt(c, c.of[j], x),
         \A j \in Chare : OverAt(d, d.of[j], x) => OverAt(c, c.of[j], x) \/ Arrived(c, x, j) = From(x, j)
  PROVE  Keeps(c, d, x)
<1>1. ASSUME NEW j \in Chare PROVE Arrived(d, x, j)' = Arrived(c, x, j)
  <2>1. \A k : k \in Arrived(c, x, j) <=> /\ k \in From(x, j) /\ SentAt(c, c.of[k], x)
                                          /\ Letter(c, x, k, j) \notin Letters(x)
    BY ArrivedIs
  <2>2. \A k : k \in Arrived(d, x, j)' <=> /\ k \in From(x, j) /\ SentAt(d, d.of[k], x)
                                           /\ Letter(d, x, k, j) \notin Letters(x)'
    BY ArrivedIs
  <2>3. \A k \in From(x, j) : k \in Chare BY FromFacts
  <2>4. \A k : k \in Arrived(d, x, j)' <=> k \in Arrived(c, x, j) BY <2>1, <2>2, <2>3 DEF SameTags
  <2> QED BY <2>4
<1>2. Senders(d, x) = Senders(c, x) BY DEF Senders
<1>3. \A m \in Letters(x)' : \E i \in Chare : \E j \in From(x, i) \cap Senders(d, x) : m = Letter(d, x, j, i)
  BY <1>2 DEF Traded, SameTags
<1>4. \A i \in Chare : LET a == Arrived(d, x, i)'
                       IN  count'[i][x] = IF a = From(x, i) THEN 0 ELSE Cardinality(a)
  BY <1>1 DEF Traded
<1>5. \A i \in Chare : OverAt(d, d.of[i], x) => Arrived(d, x, i)' = From(x, i) BY <1>1 DEF Traded
<1> QED BY <1>1, <1>3, <1>4, <1>5 DEF Traded

\* Chare i sends its calls.
LEMMA SendsOff ==
  ASSUME NEW c, NEW d, NEW x \in DGKind, Traded(c, x), SameTags(c, d, x), NEW i \in Chare,
         Letters(x)' = Letters(x) \cup {Letter(c, x, i, j) : j \in From(x, i)},
         \A j \in Chare : count'[j][x] = count[j][x],
         \A j \in Chare : SentAt(d, d.of[j], x) <=> j = i \/ SentAt(c, c.of[j], x),
         ~ SentAt(c, c.of[i], x),
         \A j \in Chare : OverAt(d, d.of[j], x) => OverAt(c, c.of[j], x) \/ Arrived(c, x, j) = From(x, j)
  PROVE  Keeps(c, d, x)
<1>1. ASSUME NEW j \in Chare PROVE Arrived(d, x, j)' = Arrived(c, x, j)
  <2>1. ASSUME NEW k \in Chare, k # i PROVE Letter(c, x, k, j) \in Letters(x)' <=> Letter(c, x, k, j) \in Letters(x)
    BY <2>1, LetterFacts
  <2>2. i \in From(x, j) => Letter(c, x, i, j) \in Letters(x)' BY FromFacts
  <2>3. \A k : k \in Arrived(c, x, j) <=> /\ k \in From(x, j) /\ SentAt(c, c.of[k], x)
                                          /\ Letter(c, x, k, j) \notin Letters(x)
    BY ArrivedIs
  <2>4. \A k : k \in Arrived(d, x, j)' <=> /\ k \in From(x, j) /\ SentAt(d, d.of[k], x)
                                           /\ Letter(d, x, k, j) \notin Letters(x)'
    BY ArrivedIs
  <2>5. \A k \in From(x, j) : k \in Chare BY FromFacts
  <2>6. \A k : k \in Arrived(d, x, j)' <=> k \in Arrived(c, x, j) BY <2>1, <2>2, <2>3, <2>4, <2>5 DEF SameTags
  <2> QED BY <2>6
<1>2. Senders(d, x) = Senders(c, x) \cup {i} BY DEF Senders
<1>3. \A m \in Letters(x)' : \E l \in Chare : \E j \in From(x, l) \cap Senders(d, x) : m = Letter(d, x, j, l)
  <2>1. \A m \in Letters(x) : \E l \in Chare : \E j \in From(x, l) \cap Senders(d, x) : m = Letter(d, x, j, l)
    BY <1>2 DEF Traded, SameTags
  <2>2. \A j \in From(x, i) : j \in Chare /\ i \in From(x, j) \cap Senders(d, x) BY <1>2, FromFacts
  <2> QED BY <2>1, <2>2 DEF SameTags
<1>4. \A l \in Chare : LET a == Arrived(d, x, l)'
                       IN  count'[l][x] = IF a = From(x, l) THEN 0 ELSE Cardinality(a)
  BY <1>1 DEF Traded
<1>5. \A l \in Chare : OverAt(d, d.of[l], x) => Arrived(d, x, l)' = From(x, l) BY <1>1 DEF Traded
<1> QED BY <1>1, <1>3, <1>4, <1>5 DEF Traded

\* Whom a call is from.
LEMMA Sender ==
  ASSUME NEW c, NEW x \in DGKind, Traded(c, x), NEW m \in Letters(x)
  PROVE  /\ m.to \in Chare /\ ~ OverAt(c, c.of[m.to], x)
         /\ \E j \in From(x, m.to) : /\ SentAt(c, c.of[j], x) /\ m = Letter(c, x, j, m.to)
                                     /\ j \notin Arrived(c, x, m.to)
<1>1. PICK i \in Chare : \E j \in From(x, i) \cap Senders(c, x) : m = Letter(c, x, j, i) BY DEF Traded
<1>2. PICK j \in From(x, i) \cap Senders(c, x) : m = Letter(c, x, j, i) BY <1>1
<1>3. m.to = i BY <1>2, LetterFacts
<1>4. j \notin Arrived(c, x, i) /\ SentAt(c, c.of[j], x) BY <1>2, ArrivedIs DEF Senders
<1>5. ~ OverAt(c, c.of[i], x) BY <1>2, <1>4 DEF Traded
<1> QED BY <1>2, <1>3, <1>4, <1>5

\* The call of chare j has been taken.
LEMMA Arriving ==
  ASSUME NEW c, NEW d, NEW x \in DGKind, SameTags(c, d, x), NEW i \in Chare, NEW j \in From(x, i),
         Letter(c, x, j, i) \in Letters(x), Traded(c, x), Letters(x)' = Letters(x) \ {Letter(c, x, j, i)},
         \A k \in Chare : SentAt(d, d.of[k], x) <=> SentAt(c, c.of[k], x)
  PROVE  Arrived(d, x, i)' = Arrived(c, x, i) \cup {j}
<1>1. \A k : Letter(c, x, k, i) \in Letters(x)' <=> Letter(c, x, k, i) \in Letters(x) /\ k # j BY LetterFacts
<1>2. \A k : k \in Arrived(c, x, i) <=> /\ k \in From(x, i) /\ SentAt(c, c.of[k], x)
                                        /\ Letter(c, x, k, i) \notin Letters(x)
  BY ArrivedIs
<1>3. \A k : k \in Arrived(d, x, i)' <=> /\ k \in From(x, i) /\ SentAt(d, d.of[k], x)
                                         /\ Letter(d, x, k, i) \notin Letters(x)'
  BY ArrivedIs
<1>4. \A k \in From(x, i) : k \in Chare BY FromFacts
<1>5. SentAt(c, c.of[j], x)
  <2>1. PICK l \in Chare : \E k \in From(x, l) \cap Senders(c, x) : Letter(c, x, j, i) = Letter(c, x, k, l)
    BY DEF Traded
  <2>2. PICK k \in From(x, l) \cap Senders(c, x) : Letter(c, x, j, i) = Letter(c, x, k, l) BY <2>1
  <2>3. j = k BY <2>2, LetterFacts
  <2> QED BY <2>2, <2>3 DEF Senders
<1>6. \A k : k \in Arrived(d, x, i)' <=> k \in Arrived(c, x, i) \cup {j} BY <1>1, <1>2, <1>3, <1>4, <1>5 DEF SameTags
<1> QED BY <1>6

\* Chare i takes one of the calls.
LEMMA TakesOne ==
  ASSUME NEW c, NEW d, NEW x \in DGKind, Traded(c, x), SameTags(c, d, x), NEW m \in Letters(x), NEW i, i = m.to,
         Letters(x)' = Letters(x) \ {m},
         count'[i][x] = IF count[i][x] + 1 = Cardinality(From(x, i)) THEN 0 ELSE count[i][x] + 1,
         \A j \in Chare \ {i} : count'[j][x] = count[j][x],
         \A j \in Chare : SentAt(d, d.of[j], x) <=> SentAt(c, c.of[j], x),
         \A j \in Chare : OverAt(d, d.of[j], x) => OverAt(c, c.of[j], x)
  PROVE  /\ Traded(d, x)' /\ \A j \in Chare \ {i} : Arrived(d, x, j)' = Arrived(c, x, j)
         /\ count[i][x] + 1 = Cardinality(From(x, i)) <=> Arrived(d, x, i)' = From(x, i)
         /\ count'[i][x] = 0 <=> Arrived(d, x, i)' = From(x, i)
<1>1. PICK j \in From(x, i) : SentAt(c, c.of[j], x) /\ m = Letter(c, x, j, i) /\ j \notin Arrived(c, x, i) BY Sender
<1>2. i \in Chare /\ ~ OverAt(c, c.of[i], x) /\ j \in Chare BY Sender, FromFacts
<1>3. ASSUME NEW l \in Chare
      PROVE  \A k : k \in Arrived(d, x, l)' <=> k \in Arrived(c, x, l) \/ (l = i /\ k = j)
  <2>1. \A k : Letter(c, x, k, l) \in Letters(x)' <=> Letter(c, x, k, l) \in Letters(x) /\ ~ (l = i /\ k = j)
    BY <1>1, LetterFacts
  <2>2. \A k : k \in Arrived(c, x, l) <=> /\ k \in From(x, l) /\ SentAt(c, c.of[k], x)
                                          /\ Letter(c, x, k, l) \notin Letters(x)
    BY ArrivedIs
  <2>3. \A k : k \in Arrived(d, x, l)' <=> /\ k \in From(x, l) /\ SentAt(d, d.of[k], x)
                                           /\ Letter(d, x, k, l) \notin Letters(x)'
    BY ArrivedIs
  <2>4. \A k \in From(x, l) : k \in Chare BY FromFacts
  <2> QED BY <1>1, <2>1, <2>2, <2>3, <2>4 DEF SameTags
<1>4. Arrived(d, x, i)' = Arrived(c, x, i) \cup {j} /\ \A l \in Chare \ {i} : Arrived(d, x, l)' = Arrived(c, x, l)
  <2>1. \A k : k \in Arrived(d, x, i)' <=> k \in Arrived(c, x, i) \cup {j} BY <1>2, <1>3
  <2>2. ASSUME NEW l \in Chare \ {i} PROVE \A k : k \in Arrived(d, x, l)' <=> k \in Arrived(c, x, l) BY <1>3
  <2> QED BY <2>1, <2>2
<1>5. Arrived(c, x, i) \in SUBSET From(x, i) /\ j \in From(x, i) \ Arrived(c, x, i) BY <1>1 DEF Arrived
<1>6. count[i][x] = Cardinality(Arrived(c, x, i)) BY <1>1, <1>2, <1>5 DEF Traded
<1>7. /\ Cardinality(Arrived(c, x, i)) \in Nat
      /\ Cardinality(Arrived(d, x, i)') = Cardinality(Arrived(c, x, i)) + 1
      /\ Cardinality(Arrived(c, x, i)) + 1 = Cardinality(From(x, i)) <=> Arrived(d, x, i)' = From(x, i)
  BY <1>2, <1>4, <1>5, CountFrom
<1>8. \A l \in Chare : LET a == Arrived(d, x, l)'
                       IN  count'[l][x] = IF a = From(x, l) THEN 0 ELSE Cardinality(a)
  <2>1. ASSUME NEW l \in Chare, l # i
        PROVE  LET a == Arrived(d, x, l)' IN count'[l][x] = IF a = From(x, l) THEN 0 ELSE Cardinality(a)
    <3>1. Arrived(d, x, l)' = Arrived(c, x, l) /\ count'[l][x] = count[l][x] BY <1>4, <2>1
    <3> QED BY <3>1 DEF Traded
  <2>2. LET a == Arrived(d, x, i)' IN count'[i][x] = IF a = From(x, i) THEN 0 ELSE Cardinality(a) BY <1>6, <1>7
  <2> QED BY <2>1, <2>2
<1>9. \A n \in Letters(x)' : \E l \in Chare : \E k \in From(x, l) \cap Senders(d, x) : n = Letter(d, x, k, l)
  BY DEF Traded, SameTags, Senders
<1>10. \A l \in Chare : OverAt(d, d.of[l], x) => Arrived(d, x, l)' = From(x, l) BY <1>2, <1>4 DEF Traded
<1> QED BY <1>1, <1>4, <1>6, <1>7, <1>8, <1>9, <1>10 DEF Traded

\* All have heard from all: nothing is on its way, nothing is counted,
LEMMA AllHeard ==
  ASSUME NEW c, NEW x \in DGKind, Traded(c, x), \A i \in Chare : Arrived(c, x, i) = From(x, i)
  PROVE  Letters(x) = {} /\ \A i \in Chare : count[i][x] = 0
<1>1. ASSUME NEW m \in Letters(x) PROVE FALSE BY Sender
<1> QED BY <1>1 DEF Traded

\* as before any has sent,
LEMMA NoneSent ==
  ASSUME NEW c, NEW x \in DGKind, Traded(c, x), \A i \in Chare : ~ SentAt(c, c.of[i], x)
  PROVE  /\ Letters(x) = {} /\ \A i \in Chare : count[i][x] = 0
         /\ \A i \in Chare : Arrived(c, x, i) = {}
<1>1. ASSUME NEW m \in Letters(x) PROVE FALSE BY Sender, FromFacts
<1>2. ASSUME NEW i \in Chare PROVE Arrived(c, x, i) = {} BY ArrivedIs, FromFacts
<1>3. Cardinality({}) = 0 BY FS_EmptySet
<1> QED BY <1>1, <1>2, <1>3 DEF Traded

\* and any calls may be waited for then, none sent
LEMMA Afresh ==
  ASSUME NEW d, NEW x \in DGKind, Letters(x)' = {}, \A i \in Chare : count'[i][x] = 0,
         \A i \in Chare : ~ SentAt(d, d.of[i], x) /\ ~ OverAt(d, d.of[i], x)
  PROVE  Traded(d, x)' /\ \A i \in Chare : Arrived(d, x, i)' = {}
<1>1. ASSUME NEW i \in Chare PROVE Arrived(d, x, i)' = {} BY ArrivedIs, FromFacts
<1>2. Cardinality({}) = 0 BY FS_EmptySet
<1> QED BY <1>1, <1>2 DEF Traded

\* or all sent.
LEMMA AllDone ==
  ASSUME NEW d, NEW x \in DGKind, Letters(x)' = {}, \A i \in Chare : count'[i][x] = 0,
         \A i \in Chare : \A j \in From(x, i) : SentAt(d, d.of[j], x)
  PROVE  Traded(d, x)' /\ \A i \in Chare : Arrived(d, x, i)' = From(x, i)
<1>1. ASSUME NEW i \in Chare PROVE Arrived(d, x, i)' = From(x, i) BY ArrivedIs
<1> QED BY <1>1 DEF Traded

LEMMA SameFacts ==
  ASSUME NEW c, NEW d, SameRun(c, d)
  PROVE  /\ Base(d) = Base(c) /\ Now(d) = Now(c) /\ Renews(d) = Renews(c) /\ (Writes(d) <=> Writes(c))
         /\ Together(d) <=> Together(c)
         /\ \A p : (Made(d, p) <=> Made(c, p)) /\ (Asking(d, p) <=> Asking(c, p))
         /\ \A p : Fits(d, p) <=> Fits(c, p)
         /\ \A p : \A x \in DGKind : (SentAt(d, p, x) <=> SentAt(c, p, x)) /\ (OverAt(d, p, x) <=> OverAt(c, p, x))
         /\ \A x \in DGKind : SameTags(c, d, x)
         /\ \A js : CellsOf(d, js) = CellsOf(c, js)
         /\ \A p : WorkerPart(d, p) = WorkerPart(c, p) /\ DiscParts(d, p) = DiscParts(c, p)
<1>1. Base(d) = Base(c) /\ Now(d) = Now(c) /\ Renews(d) = Renews(c) /\ (Writes(d) <=> Writes(c))
  BY DEF SameRun, Base, Now, Renews, Writes
<1>2. Together(d) <=> Together(c) BY <1>1 DEF SameRun, Together
<1>3. \A p : (Made(d, p) <=> Made(c, p)) /\ (Asking(d, p) <=> Asking(c, p)) BY DEF SameRun, Made, Asking
<1>4. ASSUME NEW p PROVE Fits(d, p) <=> Fits(c, p) BY <1>1, <1>3 DEF SameRun, Fits
<1>5. ASSUME NEW p, NEW x \in DGKind
      PROVE  (SentAt(d, p, x) <=> SentAt(c, p, x)) /\ (OverAt(d, p, x) <=> OverAt(c, p, x))
  BY CallTypes DEF SameRun, SentAt, OverAt
<1>6. ASSUME NEW x \in DGKind PROVE SameTags(c, d, x)
  <2>1. TagOf(d, x) = TagOf(c, x) BY <1>1 DEF SameRun, TagOf
  <2> QED BY <1>1, <2>1 DEF SameTags, Letter
<1>7. \A js : CellsOf(d, js) = CellsOf(c, js) BY <1>1 DEF SameRun, CellsOf
<1>8. \A p : WorkerPart(d, p) = WorkerPart(c, p) /\ DiscParts(d, p) = DiscParts(c, p)
  BY DEF SameRun, WorkerPart, DiscParts
<1> QED BY <1>1, <1>2, <1>3, <1>4, <1>5, <1>6, <1>7, <1>8

LEMMA PutIs ==
  ASSUME NEW c \in Config, NEW i \in Chare, NEW q \in Point
  PROVE  Put(c, i, q) \in Config /\ Moves(c, Put(c, i, q), i) /\ Put(c, i, q).of[i] = q
  BY DEF Put, Config, Moves, SameRun

\* What a configuration is.
LEMMA ConfigIs ==
  ASSUME NEW c \in Config
  PROVE  /\ c.it \in Nat /\ c.st \in 0 .. 2 /\ c.phase \in 0 .. 4 /\ c.mesh \in 0 .. 5
         /\ c.disc \in BOOLEAN /\ c.work \in BOOLEAN /\ c.diagnosed \in BOOLEAN
         /\ \A i \in Chare : /\ c.of[i].at \in 0 .. 24 /\ c.of[i].diag \in 0 .. 3 /\ c.of[i].ref \in 0 .. 3
                             /\ c.of[i].vol \in 0 .. 6 /\ c.of[i].req \in BOOLEAN /\ c.of[i].sent \in BOOLEAN
<1>1. c.of \in [Chare -> Point] BY DEF Config
<1>2. \A i \in Chare : c.of[i] \in Point BY <1>1
<1> QED BY <1>2 DEF Config, Point

LEMMA Arrays == ArrayIs /\ \A a \in Array : a \in {"worker", "disc", "refiner", "sync"}
  BY DEF Array, ArrayIs

\* What is true of the other chares remains true.
LEMMA Stays ==
  ASSUME NEW c, NEW d, SameRun(c, d), NEW i \in Chare, Alone(i), NEW j \in Chare \ {i},
         d.of[j] = c.of[j], \A x \in DGKind : Arrived(d, x, j)' = Arrived(c, x, j), Local(c, j)
  PROVE  Local(d, j)'
<1> DEFINE p == c.of[j]
<1>0. /\ d.of[j] = p /\ Base(d) = Base(c) /\ Now(d) = Now(c) /\ Renews(d) = Renews(c)
      /\ (Made(d, p) <=> Made(c, p)) /\ (Asking(d, p) <=> Asking(c, p))
      /\ OverAt(d, p, "fac") <=> OverAt(c, p, "fac")
      /\ \A js : CellsOf(d, js) = CellsOf(c, js)
  BY SameFacts, CallTypes
<1>1. Counters(d, j)'
  <2>1. it'[j] = it[j] /\ itr'[j] = itr[j] /\ stage'[j] = stage[j] /\ refined'[j] = refined[j] BY DEF Alone
  <2> QED BY <1>0, <2>1 DEF Local, Counters, SameRun
<1>2. Contribution(d, j)'
  <2>1. \A a \in {"worker", "disc", "refiner", "sync"} : contrib'[a][j] = contrib[a][j] BY Arrays DEF Alone, ArrayIs
  <2>2. finished' = finished /\ WorkerPart(d, p) = WorkerPart(c, p) /\ DiscParts(d, p) = DiscParts(c, p)
    BY SameFacts DEF Alone
  <2> QED BY <1>0, <2>1, <2>2, CallTypes DEF Local, Contribution
<1>3. Signalled(d, j)'
  <2>1. trigger'[j] = trigger[j] BY ObjectFacts DEF Alone
  <2> QED BY <2>1, SameFacts, CallTypes DEF Local, Signalled, SameRun
<1>4. Maps(d, j)'
  <2>1. bndFace'[j] = bndFace[j] /\ ghostData'[j] = ghostData[j] /\ ghost'[j] = ghost[j] BY DEF Alone
  <2>2. Maps(c, j) BY DEF Local
  <2> QED BY <1>0, <2>1, <2>2, CallTypes DEF Maps
<1>5. Ghosts(d, j)'
  <2>1. usol'[j] = usol[j] /\ ulim'[j] = ulim[j] BY DEF Alone
  <2>2. Ghosts(c, j) BY DEF Local
  <2> QED BY <1>0, <2>1, <2>2, CallTypes DEF Ghosts
<1>6. Updated(d, j)'
  <2>1. used'[j] = used[j] /\ Updated(c, j) BY DEF Local, Alone
  <2> QED BY <1>0, <2>1 DEF Updated, SameRun, Current
<1> QED BY <1>1, <1>2, <1>3, <1>4, <1>5, <1>6 DEF Local

\* An action of chare i: what remains to be shown.
LEMMA Acted ==
  ASSUME NEW c, DGInv(c), NEW d \in Config, NEW i \in Chare, Moves(c, d, i), Alone(i), Shape',
         Fits(c, d.of[i]), finished => d.of[i].at = 24, Expects(d)',
         \A x \in DGKind : Traded(d, x)' /\ \A j \in Chare \ {i} : Arrived(d, x, j)' = Arrived(c, x, j),
         Local(d, i)'
  PROVE  DGInv(d)'
<1>1. SameRun(c, d) BY DEF Moves
<1>2. Levels(d) BY <1>1, SameFacts DEF DGInv, Levels, Moves
<1>3. HostSignals(d)' BY <1>1, ObjectFacts DEF DGInv, HostSignals, Alone, SameRun
<1>4. finished' => \A j \in Chare : d.of[j].at = 24 BY DEF DGInv, Alone, Moves
<1>5. ASSUME NEW j \in Chare PROVE Local(d, j)' BY <1>1, <1>5, Stays DEF DGInv, Moves
<1> QED BY <1>2, <1>3, <1>4, <1>5 DEF DGInv

-----------------------------------------------------------------------------
\* What DGInv says of the calls of other kinds,
LEMMA PlainCall ==
  ASSUME NEW c, DGInv(c), NEW m \in msgs, m.type # "write", \A x \in DGKind : m.type # CallOf[x]
  PROVE  m.to \in Chare /\ Plain(m) /\ Due(c.of[m.to], m)
  BY DEF DGInv, Expects

\* and of those to the file writer.
LEMMA WriteCall ==
  ASSUME NEW c, DGInv(c), NEW m \in msgs, m.type = "write"
  PROVE  /\ m.to \in Chare
         /\ \/ c.of[m.to].at = 7 /\ m.then = "start"
            \/ c.of[m.to].at = 19 /\ m.then = "step"
         /\ \A n \in msgs : n.type = "write" /\ n.to = m.to => n = m
<1>1. \A x \in DGKind : CallOf[x] # "write" BY CallTypes
<1>2. \A p : ~ Due(p, m) BY DEF Due
<1> QED BY <1>1, <1>2 DEF DGInv, Expects

\* The calls after chare i has moved: those of old are still expected, new ones now are.
LEMMA ExpectsMoves ==
  ASSUME NEW c, NEW d, Expects(c), NEW i \in Chare, Moves(c, d, i),
         \A n \in msgs \cap msgs' : /\ n.to = i /\ n = [type |-> n.type, to |-> i] /\ Due(c.of[i], n)
                                    => Due(d.of[i], n),
         \A n \in msgs \cap msgs' : n.type = "write" /\ n.to = i => d.of[i].at = c.of[i].at,
         \A n \in msgs' \ msgs : \/ \E x \in DGKind : n.type = CallOf[x]
                                 \/ n.type # "write" /\ n = [type |-> n.type, to |-> i] /\ Due(d.of[i], n)
  PROVE  Expects(d)'
<1> DEFINE Fine(e, n) ==
      \/ \E x \in DGKind : n.type = CallOf[x]
      \/ n.to \in Chare /\ Plain(n) /\ Due(e.of[n.to], n)
<1>1. \A n \in msgs' \ msgs : n.type # "write" BY CallTypes
<1>2. ASSUME NEW n \in msgs', n \notin msgs PROVE Fine(d, n) BY <1>2
<1>3. ASSUME NEW n \in msgs', n \in msgs, Fine(c, n) PROVE Fine(d, n) BY <1>3 DEF Moves
<1>4. ASSUME NEW n \in msgs', n \in msgs, ~ Fine(c, n)
      PROVE  /\ n.type = "write" /\ n.to \in Chare
             /\ \/ d.of[n.to].at = 7 /\ n.then = "start"
                \/ d.of[n.to].at = 19 /\ n.then = "step"
             /\ \A k \in msgs' : k.type = "write" /\ k.to = n.to => k = n
  <2>1. /\ n.type = "write" /\ n.to \in Chare
        /\ \/ c.of[n.to].at = 7 /\ n.then = "start"
           \/ c.of[n.to].at = 19 /\ n.then = "step"
        /\ \A k \in msgs : k.type = "write" /\ k.to = n.to => k = n
    BY <1>4 DEF Expects
  <2>2. d.of[n.to].at = c.of[n.to].at BY <1>4, <2>1 DEF Moves
  <2> QED BY <1>1, <2>1, <2>2
<1> HIDE DEF Fine
<1>5. \A n \in msgs' :
        \/ Fine(d, n)
        \/ /\ n.type = "write" /\ n.to \in Chare
           /\ \/ d.of[n.to].at = 7 /\ n.then = "start"
              \/ d.of[n.to].at = 19 /\ n.then = "step"
           /\ \A k \in msgs' : k.type = "write" /\ k.to = n.to => k = n
  BY <1>2, <1>3, <1>4
<1> QED BY <1>5 DEF Expects, Fine

\* The calls after chare i has called the file writer.
LEMMA ExpectsWrite ==
  ASSUME NEW c, NEW d, Expects(c), NEW i \in Chare, Moves(c, d, i), NEW w,
         w.type = "write", w.to = i, c.of[i].at \notin {7, 19},
         \/ d.of[i].at = 7 /\ w.then = "start"
         \/ d.of[i].at = 19 /\ w.then = "step",
         \A n \in msgs' : n \in msgs \/ n = w,
         \A n \in msgs \cap msgs' : /\ n.to = i /\ n = [type |-> n.type, to |-> i] /\ Due(c.of[i], n)
                                    => Due(d.of[i], n)
  PROVE  Expects(d)'
<1> DEFINE Fine(e, n) ==
      \/ \E x \in DGKind : n.type = CallOf[x]
      \/ n.to \in Chare /\ Plain(n) /\ Due(e.of[n.to], n)
<1>1. \A n \in msgs : n.type = "write" => n.to # i /\ ~ Fine(c, n)
  <2>1. \A x \in DGKind : CallOf[x] # "write" BY CallTypes
  <2>2. \A p, n : n.type = "write" => ~ Due(p, n) BY DEF Due
  <2> QED BY <2>1, <2>2 DEF Expects
<1>2. ASSUME NEW n \in msgs', n \in msgs, Fine(c, n) PROVE Fine(d, n) BY <1>2 DEF Moves
<1>3. ASSUME NEW n \in msgs', n \in msgs, ~ Fine(c, n)
      PROVE  /\ n.type = "write" /\ n.to \in Chare
             /\ \/ d.of[n.to].at = 7 /\ n.then = "start"
                \/ d.of[n.to].at = 19 /\ n.then = "step"
             /\ \A k \in msgs' : k.type = "write" /\ k.to = n.to => k = n
  <2>1. /\ n.type = "write" /\ n.to \in Chare
        /\ \/ c.of[n.to].at = 7 /\ n.then = "start"
           \/ c.of[n.to].at = 19 /\ n.then = "step"
        /\ \A k \in msgs : k.type = "write" /\ k.to = n.to => k = n
    BY <1>3 DEF Expects
  <2>2. n.to # i /\ d.of[n.to].at = c.of[n.to].at BY <1>1, <2>1 DEF Moves
  <2> QED BY <2>1, <2>2
<1>4. /\ w.to \in Chare
      /\ \A k \in msgs' : k.type = "write" /\ k.to = i => k = w
  BY <1>1
<1> HIDE DEF Fine
<1>5. \A n \in msgs' :
        \/ Fine(d, n)
        \/ /\ n.type = "write" /\ n.to \in Chare
           /\ \/ d.of[n.to].at = 7 /\ n.then = "start"
              \/ d.of[n.to].at = 19 /\ n.then = "step"
           /\ \A k \in msgs' : k.type = "write" /\ k.to = n.to => k = n
  BY <1>2, <1>3, <1>4
<1> QED BY <1>5 DEF Expects, Fine

LEMMA DueMoves ==
  ASSUME NEW p, NEW q, q.diag = p.diag, q.ref = p.ref, q.vol = p.vol, NEW n, Due(p, n)
  PROVE  Due(q, n) \/ n.type = AtCall(p.at)
  BY DEF Due, AtCall

\* Chare i acts and leaves all members alone.
LEMMA PlainActs ==
  ASSUME Shape, NEW i \in Chare, NEW ns, NEW e, Acts(i, ns, e), UNCHANGED members
  PROVE  Shape' /\ Alone(i)
<1>1. Shape' BY DEF Shape, Acts, members
<1>2. Alone(i) BY DEF Alone, Acts, members
<1> QED BY <1>1, <1>2

\* No calls of the kinds come and go.
LEMMA NoLetters ==
  ASSUME NEW s, NEW m, \A x \in DGKind : m.type # CallOf[x] /\ \A n \in s : n.type # CallOf[x],
         msgs' = (msgs \ {m}) \cup s \/ msgs' = msgs \cup s
  PROVE  SameMail
<1>1. ASSUME NEW x \in DGKind PROVE Letters(x)' = Letters(x) BY DEF Letters
<1> QED BY <1>1

\* Chare i moves, and nothing of any kind happens.
LEMMA AllQuiet ==
  ASSUME NEW c, DGInv(c), NEW d, NEW i \in Chare, Moves(c, d, i),
         NEW K \in SUBSET DGKind,
         \A x \in K : Letters(x)' = Letters(x) /\ \A j \in Chare : count'[j][x] = count[j][x],
         \A x \in K : SentAt(c, d.of[i], x) <=> SentAt(c, c.of[i], x),
         \A x \in K : OverAt(c, d.of[i], x) => OverAt(c, c.of[i], x) \/ Arrived(c, x, i) = From(x, i)
  PROVE  \A x \in K : Keeps(c, d, x)
<1> SUFFICES ASSUME NEW x \in K
             PROVE  Keeps(c, d, x)
  OBVIOUS
<1>1. x \in DGKind /\ Traded(c, x) /\ SameTags(c, d, x) BY SameFacts DEF DGInv, Moves
<1>2. \A j \in Chare : SentAt(d, d.of[j], x) <=> SentAt(c, c.of[j], x) BY <1>1, SameFacts DEF Moves
<1>3. \A j \in Chare : OverAt(d, d.of[j], x) => OverAt(c, c.of[j], x) \/ Arrived(c, x, j) = From(x, j)
  BY <1>1, SameFacts DEF Moves
<1> QED BY <1>1, <1>2, <1>3, Quiets

LEMMA AtIs ==
  ASSUME NEW p \in Point, NEW a \in 0 .. 24
  PROVE  At(p, a) \in Point /\ At(p, a).at = a /\ SamePoint(p, At(p, a))
  BY DEF Point, At, SamePoint

\* The parts of DGInv.
LEMMA PartsOf ==
  ASSUME NEW c, DGInv(c)
  PROVE  /\ Shape /\ c \in Config /\ Together(c) /\ Expects(c) /\ HostSignals(c)
         /\ \A x \in DGKind : Traded(c, x)
         /\ \A i \in Chare : /\ Fits(c, c.of[i]) /\ Counters(c, i) /\ Contribution(c, i) /\ Signalled(c, i)
                             /\ Kept(c, i)
                             /\ finished => c.of[i].at = 24
  BY DEF DGInv, Levels, Local

\* What chare i has contributed when it acts.
LEMMA ActsAdds ==
  ASSUME NEW c, NEW i \in Chare, Contribution(c, i), NEW ns, NEW e, Acts(i, ns, e)
  PROVE  \A a \in Array : /\ TargetsOn(a, e) = <<>> => contrib'[a][i] = contrib[a][i]
                          /\ \A r : contrib[a][i] = <<>> /\ TargetsOn(a, e) = <<r>> => contrib'[a][i] = <<r>>
<1>1. \A a \in Array : contrib[a][i] \o <<>> = contrib[a][i]
  <2>1. contrib["worker"][i] \o <<>> = contrib["worker"][i] BY TargetFacts DEF Contribution, WorkerPart
  <2>2. contrib["disc"][i] \o <<>> = contrib["disc"][i] BY TargetFacts DEF Contribution, DiscParts
  <2>3. contrib["refiner"][i] \o <<>> = contrib["refiner"][i] BY TargetFacts DEF Contribution
  <2>4. contrib["sync"][i] \o <<>> = contrib["sync"][i] BY DEF Contribution
  <2> QED BY <2>1, <2>2, <2>3, <2>4, Arrays
<1>2. \A a \in Array : contrib'[a][i] = contrib[a][i] \o TargetsOn(a, e) BY DEF Acts
<1> QED BY <1>1, <1>2, TargetFacts

\* Chare i acts without triggers.
LEMMA ActsSilent ==
  ASSUME Shape, NEW i \in Chare, NEW e, Acts(i, {}, e), e.triggers = {}
  PROVE  trigger'[i] = trigger[i]
<1>1. trigger'[i] \in [Trigger -> Int] /\ trigger[i] \in [Trigger -> Int] BY ObjectFacts DEF Acts, Shape
<1>2. \A t \in Trigger : trigger'[i][t] = trigger[i][t] BY <1>1 DEF Acts
<1> QED BY <1>1, <1>2

-----------------------------------------------------------------------------
\* What is true of chare i when it moves from p to q.
LEMMA CountersKept ==
  ASSUME NEW c, NEW d, SameRun(c, d), NEW i \in Chare, NEW p, p = c.of[i], NEW q, q = d.of[i], Counters(c, i),
         it'[i] = it[i], itr'[i] = itr[i], stage'[i] = stage[i], refined'[i] = refined[i],
         q.ref = 3 <=> p.ref = 3, Made(c, q) <=> Made(c, p),
         q.at < 15 <=> p.at < 15, q.at < 19 <=> p.at < 19, q.at < 21 <=> p.at < 21
  PROVE  Counters(d, i)'
<1>1. Base(d) = Base(c) /\ Now(d) = Now(c) /\ Renews(d) = Renews(c) /\ (Made(d, q) <=> Made(c, p)) BY SameFacts
<1> QED BY <1>1 DEF Counters, SameRun

\* Its triggers, if it does nothing about them.
LEMMA SignalsKept ==
  ASSUME NEW c, NEW d, SameRun(c, d), NEW i \in Chare, NEW p, p = c.of[i], NEW q, q = d.of[i], Signalled(c, i),
         trigger'[i] = trigger[i],
         \A x \in {"init", "sol", "lim", "req"} : Arrived(d, x, i)' = Arrived(c, x, i),
         q.req = p.req, q.sent = p.sent,
         \/ p.at \notin {5, 6, 10, 11, 12, 15}
         \/ /\ q.at = p.at /\ (p.diag = 3 => q.diag = 3) /\ (p.ref = 3 => q.ref = 3)
            /\ p.vol = 6 => q.vol = 6
  PROVE  Signalled(d, i)'
<1>1. Renews(d) = Renews(c) BY SameFacts
<1> QED BY <1>1 DEF Signalled

\* Its maps,
LEMMA MapsKept ==
  ASSUME NEW c, NEW d, SameRun(c, d), NEW i \in Chare, NEW p, p = c.of[i], NEW q, q = d.of[i], Maps(c, i),
         bndFace'[i] = bndFace[i], ghostData'[i] = ghostData[i], ghost'[i] = ghost[i],
         SameFace(c, d, i),
         q.req = p.req, q.sent = p.sent, Asking(c, q) <=> Asking(c, p),
         q.at \in {1, 16} => p.at = q.at \/ Nbr[i] # {},
         q.at \in {2, 17} => p.at = q.at
  PROVE  Maps(d, i)'
<1>1. (OverAt(d, q, "fac") <=> OverAt(c, p, "fac")) /\ (Asking(d, q) <=> Asking(c, p))
  <2>1. OverAt(c, q, "fac") <=> OverAt(c, p, "fac") BY DEF OverAt
  <2> QED BY <2>1, SameFacts, CallTypes
<1> QED BY <1>1 DEF Maps

\* its ghost cells,
LEMMA GhostsKept ==
  ASSUME NEW c, NEW d, SameRun(c, d), NEW i \in Chare, NEW p, p = c.of[i], NEW q, q = d.of[i], Ghosts(c, i),
         usol'[i] = usol[i], ulim'[i] = ulim[i],
         \A x \in {"sol", "lim"} : Arrived(d, x, i)' = Arrived(c, x, i),
         \/ q.at \notin 10 .. 14
         \/ p.at \in 10 .. 14 /\ (q.at <= 11 <=> p.at <= 11) /\ (q.at <= 12 <=> p.at <= 12)
  PROVE  Ghosts(d, i)'
<1>1. \A js : CellsOf(d, js) = CellsOf(c, js) BY SameFacts
<1> QED BY <1>1 DEF Ghosts

\* and its last update.
LEMMA UpdatedKept ==
  ASSUME NEW c, NEW d, SameRun(c, d), NEW i \in Chare, NEW p, p = c.of[i], NEW q, q = d.of[i], Updated(c, i),
         used'[i] = used[i], q.at >= 15 <=> p.at >= 15
  PROVE  Updated(d, i)'
  BY DEF Updated, SameRun, Current

\* What it has contributed.
LEMMA ContributionKept ==
  ASSUME NEW c, NEW d, SameRun(c, d), NEW i \in Chare, NEW p, p = c.of[i], NEW q, q = d.of[i], Contribution(c, i),
         finished' = finished, Arrived(d, "vol", i)' = Arrived(c, "vol", i),
         contrib'["worker"][i] = IF finished THEN <<>> ELSE WorkerPart(c, q),
         SameTargets("disc", i), SameTargets("refiner", i),
         SameTargets("sync", i),
         q.diag = p.diag, q.ref = p.ref, q.vol = p.vol, q.at \notin {21, 22}, p.at \notin {21, 22}
  PROVE  Contribution(d, i)'
<1>1. WorkerPart(d, q) = WorkerPart(c, q) /\ DiscParts(d, q) = DiscParts(c, p)
  <2>1. DiscParts(c, q) = DiscParts(c, p) BY DEF DiscParts
  <2> QED BY <2>1, SameFacts
<1> QED BY <1>1 DEF Contribution

\* Chare i is to move to point a.
LEMMA Placed ==
  ASSUME NEW c, DGInv(c), NEW i \in Chare, NEW a \in 0 .. 24
  PROVE  /\ c.of[i] \in Point /\ At(c.of[i], a) \in Point /\ At(c.of[i], a).at = a /\ SamePoint(c.of[i], At(c.of[i], a))
         /\ Put(c, i, At(c.of[i], a)) \in Config /\ Moves(c, Put(c, i, At(c.of[i], a)), i)
         /\ Put(c, i, At(c.of[i], a)).of[i] = At(c.of[i], a) /\ SameRun(c, Put(c, i, At(c.of[i], a)))
<1>1. c \in Config /\ c.of[i] \in Point BY PartsOf DEF Config
<1>2. At(c.of[i], a) \in Point /\ At(c.of[i], a).at = a /\ SamePoint(c.of[i], At(c.of[i], a)) BY <1>1, AtIs
<1> QED BY <1>1, <1>2, PutIs DEF Moves

LEMMA Onset ==
  ASSUME NEW c, DGInv(c), NEW i \in Chare, NEW a \in 0 .. 24,
         NEW q, q = At(c.of[i], a), NEW d, d = Put(c, i, q)
  PROVE  /\ c.of[i] \in Point /\ q \in Point /\ q.at = a /\ SamePoint(c.of[i], q)
         /\ d \in Config /\ Moves(c, d, i) /\ d.of[i] = q /\ SameRun(c, d)
  BY Placed

\* What it has contributed to the reductions of the workers.
LEMMA WorkerParts ==
  ASSUME NEW c, NEW p, p.ref # 3 \/ c.work
  PROVE  /\ p.at \in {2, 17} => WorkerPart(c, p) = <<"comfinal">>
         /\ p.at = 4 => WorkerPart(c, p) = <<"sendinit">>
         /\ p.at = 9 => WorkerPart(c, p) = <<"advance">>
         /\ p.at = 13 => WorkerPart(c, p) = <<"solve">>
         /\ p.at = 24 => WorkerPart(c, p) = <<"finish">>
         /\ p.at \notin {2, 4, 9, 13, 17, 24} => WorkerPart(c, p) = <<>>
  BY DEF WorkerPart

\* A chare takes a call and contributes.
LEMMA TakesPart ==
  ASSUME NEW c, DGInv(c), NEW m \in msgs, NEW i, i = m.to, NEW b, NEW r,
         \/ m.type = "setup" /\ b = 4 /\ r = "sendinit"
         \/ m.type = "start" /\ b = 9 /\ r = "advance",
         Take(i, m, Contributes("worker", r)), UNCHANGED members
  PROVE  \E d \in Config : DGInv(d)'
<1> DEFINE p == c.of[i]
           q == At(p, b)
           d == Put(c, i, q)
           e == Contributes("worker", r)
<1>1. /\ i \in Chare /\ m = [type |-> m.type, to |-> i]
      /\ \/ m.type = "setup" /\ p.at = 3 /\ b = 4 /\ r = "sendinit"
         \/ m.type = "start" /\ p.at = 8 /\ b = 9 /\ r = "advance"
  BY PlainCall, CallTypes DEF Due
<1>2. /\ Held(c, i, p)
      /\ Kept(c, i) /\ Expects(c) /\ ~ finished
  BY <1>1, PartsOf
<1>3. /\ p \in Point /\ q.at = b /\ SamePoint(p, q)
      /\ d \in Config /\ Moves(c, d, i) /\ d.of[i] = q /\ SameRun(c, d)
  BY <1>1, Onset
<1> HIDE DEF q, d
<1>4. msgs' = (msgs \ {m}) \cup {} /\ Acts(i, {}, e) /\ UNCHANGED members BY <1>1, <1>2, Taking, EffectFacts
<1>5. Shape' /\ Alone(i) BY <1>1, <1>2, <1>4, PlainActs
<1>6. c.phase \in 1 .. 2 /\ c.mesh = 0 /\ p.ref = 0 /\ ~ Made(c, p) /\ ~ Made(c, q)
  BY <1>1, <1>2, <1>3, ConfigIs DEF Fits, Made
<1>7. Fits(c, q) BY <1>1, <1>2, <1>3, <1>6 DEF Fits, SamePoint
<1>8. \A x \in DGKind : Keeps(c, d, x)
  <2>1. \A x \in DGKind : Letters(x)' = Letters(x) /\ \A j \in Chare : count'[j][x] = count[j][x]
    BY <1>1, <1>4, NoLetters, CallTypes DEF members
  <2>2. \A x \in DGKind : (SentAt(c, q, x) <=> SentAt(c, p, x)) /\ (OverAt(c, q, x) <=> OverAt(c, p, x))
    BY <1>1, <1>3, <1>6, CallTypes DEF SentAt, OverAt, SamePoint
  <2>3. DGKind \in SUBSET DGKind OBVIOUS
  <2> QED BY <1>1, <1>3, <2>1, <2>2, <2>3, AllQuiet
<1>9. Expects(d)'
  <2>1. ASSUME NEW n \in msgs', n.to = i, n = [type |-> n.type, to |-> i], Due(p, n) PROVE Due(q, n)
    BY <1>1, <1>3, <1>4, <2>1, DueMoves DEF AtCall, SamePoint
  <2>2. \A n \in msgs' : n.type # "write" \/ n.to # i BY <1>1, <1>4, WriteCall
  <2> QED BY <1>1, <1>2, <1>3, <1>4, <2>1, <2>2, ExpectsMoves
<1>10. Contribution(d, i)'
  <2>0. /\ q.ref # 3 /\ p.ref # 3 /\ p.at \notin {2, 4, 9, 13, 17, 24}
        /\ (q.at = 4 /\ r = "sendinit") \/ (q.at = 9 /\ r = "advance")
    BY <1>1, <1>3, <1>6 DEF SamePoint
  <2>1. contrib["worker"][i] = <<>> /\ WorkerPart(c, q) = <<r>>
    <3>1. WorkerPart(c, p) = <<>> /\ WorkerPart(c, q) = <<r>> BY <2>0, WorkerParts
    <3> QED BY <1>2, <3>1 DEF Contribution
  <2>2. /\ contrib'["worker"][i] = <<r>>
        /\ \A a \in {"disc", "refiner", "sync"} : contrib'[a][i] = contrib[a][i]
    BY <1>1, <1>2, <1>4, <2>1, ActsAdds, EffectFacts, Arrays DEF ArrayIs
  <2> QED BY <1>1, <1>2, <1>3, <1>4, <1>8, <2>1, <2>2, CallTypes, ContributionKept DEF members, SamePoint
<1>11. Local(d, i)'
  <2>1. trigger'[i] = trigger[i] BY <1>1, <1>2, <1>4, ActsSilent, EffectFacts
  <2>2. Counters(d, i)' /\ Updated(d, i)'
    BY <1>1, <1>2, <1>3, <1>4, <1>6, CountersKept, UpdatedKept DEF members, SamePoint
  <2>3. Signalled(d, i)' /\ Maps(d, i)'
    BY <1>1, <1>2, <1>3, <1>4, <1>6, <1>8, <2>1, SignalsKept, MapsKept, CallTypes DEF members, SamePoint, Asking
  <2>4. Ghosts(d, i)' BY <1>1, <1>2, <1>3, <1>4, <1>8, GhostsKept, CallTypes DEF members
  <2> QED BY <1>10, <2>2, <2>3, <2>4 DEF Local
<1> QED BY <1>1, <1>2, <1>3, <1>5, <1>7, <1>8, <1>9, <1>11, Acted

\* DG::setup, start
LEMMA SetupKeeps ==
  ASSUME NEW c, DGInv(c), NEW m \in msgs, NEW i, i = m.to, Setup(i, m) \/ Start(i, m)
  PROVE  \E d \in Config : DGInv(d)'
<1>1. UNCHANGED members BY DEF Setup, Start, stepVars, nodeVars, dgVars, stageVars, meshVars, cellVars, members
<1>2. CASE Setup(i, m) BY <1>1, <1>2, TakesPart DEF Setup, Is
<1>3. CASE Start(i, m) BY <1>1, <1>3, TakesPart DEF Start, Is
<1> QED BY <1>2, <1>3

\* Chare i moves, and nothing of the kind happens.
LEMMA KindQuiet ==
  ASSUME NEW c, DGInv(c), NEW d, NEW i \in Chare, Moves(c, d, i), NEW x \in DGKind,
         Letters(x)' = Letters(x), \A j \in Chare : count'[j][x] = count[j][x],
         SentAt(c, d.of[i], x) <=> SentAt(c, c.of[i], x),
         OverAt(c, d.of[i], x) => OverAt(c, c.of[i], x) \/ Arrived(c, x, i) = From(x, i)
  PROVE  Keeps(c, d, x)
<1>1. Traded(c, x) /\ SameTags(c, d, x) BY SameFacts DEF DGInv, Moves
<1>2. \A j \in Chare : SentAt(d, d.of[j], x) <=> SentAt(c, c.of[j], x) BY <1>1, SameFacts DEF Moves
<1>3. \A j \in Chare : OverAt(d, d.of[j], x) => OverAt(c, c.of[j], x) \/ Arrived(c, x, j) = From(x, j)
  BY <1>1, SameFacts DEF Moves
<1> QED BY <1>1, <1>2, <1>3, Quiets

\* Who has sent, and who does not wait any longer.
LEMMA SentFacts ==
  ASSUME NEW c, NEW p
  PROVE  /\ SentAt(c, p, "vol") <=> p.vol >= 2
         /\ SentAt(c, p, "fac") <=> IF c.mesh = 0 THEN p.at >= 1 ELSE p.at >= 16
         /\ SentAt(c, p, "req") = p.req /\ SentAt(c, p, "ghost") = p.sent
         /\ SentAt(c, p, "init") <=> c.phase = 2 /\ p.at >= 6
         /\ SentAt(c, p, "sol") <=> c.phase = 3 /\ p.at >= 11
         /\ SentAt(c, p, "lim") <=> c.phase = 3 /\ p.at >= 12 /\ Ndof > 1
         /\ OverAt(c, p, "vol") <=> p.vol >= 3
         /\ \A x \in Faces : OverAt(c, p, x) <=> IF c.mesh = 0 THEN c.phase >= 1 ELSE c.mesh = 5
         /\ OverAt(c, p, "init") <=> c.phase = 2 /\ p.at >= 7
         /\ OverAt(c, p, "sol") <=> c.phase = 3 /\ p.at >= 12
         /\ OverAt(c, p, "lim") <=> c.phase = 3 /\ p.at >= 13 /\ Ndof > 1
  BY DEF SentAt, OverAt

LEMMA SendsCells ==
  ASSUME NEW c, DGInv(c), NEW i \in Chare, NEW x, NEW M \in SUBSET msgs, Sending(c, i, x, M)
  PROVE  \E d \in Config : DGInv(d)'
<1> DEFINE p == c.of[i]
           ns == SendNeeds(x)
           b == IF p.at = 5 THEN 6 ELSE p.at + 1
           e == SendCells(i, CallOf[x], x)
           q == At(p, b)
           d == Put(c, i, q)
<1>a. /\ \/ x = "init" /\ p.at = 5 /\ b = 6 /\ ns = {}
         \/ x = "sol" /\ p.at = 10 /\ b = 11 /\ ns = {}
         \/ x = "lim" /\ p.at = 11 /\ b = 12 /\ ns = {own("sol"), com("sol")} /\ Ndof > 1
      /\ \A t \in ns : trigger[i][t] > 0
      /\ \A m \in M : m.type = AtCall(p.at) /\ m.to = i
      /\ p.at # 11 => \A m \in msgs : m.type = AtCall(p.at) /\ m.to = i => m \in M
      /\ msgs' = (msgs \ M) \cup e.calls
      /\ Acts(i, ns, e) /\ UNCHANGED members
  BY DEF Sending, SendNeeds
<1> HIDE DEF ns, b, p
<1> USE <1>a
<1>b. p = c.of[i] /\ b \in 0 .. 24 BY DEF p
<1> USE <1>b
<1>1. /\ Held(c, i, p)
      /\ Kept(c, i) /\ Expects(c) /\ ~ finished
  BY PartsOf
<1>2. /\ p \in Point /\ q.at = b /\ SamePoint(p, q)
      /\ d \in Config /\ Moves(c, d, i) /\ d.of[i] = q /\ SameRun(c, d)
  BY Onset
<1> HIDE DEF q, d
<1>3. Shape' /\ Alone(i) BY <1>1, PlainActs
<1>4. c.phase \in 2 .. 3 /\ c.mesh = 0 /\ p.ref = 0 /\ ~ Made(c, p) /\ ~ Made(c, q) /\ (c.phase = 2 <=> x = "init")
  BY <1>1, <1>2, ConfigIs DEF Fits, Made
<1>5. Fits(c, q) BY <1>1, <1>2, <1>4 DEF Fits, SamePoint
<1>6. x \in DGKind /\ x \in {"init", "sol", "lim"} /\ x # "vol" /\ From(x, i) = Fac[i] BY CallTypes DEF From
<1>7. ghostData[i] = Fac[i] BY <1>1, <1>4 DEF Maps, Asking
<1>8. e.calls = {Letter(c, x, i, j) : j \in Fac[i]}
  <2>1. e.calls = ToAll(i, CallOf[x], ghostData[i])
    <3> DEFINE t == {own(x)} \cup (IF ghostData[i] = {} THEN {com(x)} ELSE {})
               s == ToAll(i, CallOf[x], ghostData[i])
    <3>1. e = Calls(s) ++ Triggers(t) BY DEF SendCells
    <3> HIDE DEF s, t, e
    <3>2. e.calls = Calls(s).calls \cup Triggers(t).calls BY <3>1, ThenFacts
    <3>3. Calls(s).calls = s /\ Triggers(t).calls = {} BY EffectFacts
    <3> QED BY <3>2, <3>3 DEF s
  <2>2. it[i] = c.it /\ itr[i] = Base(c) /\ stage[i] = c.st BY <1>1, <1>4 DEF Counters
  <2>3. TagOf(c, x) = [it |-> c.it, stage |-> c.st, itr |-> Base(c)] BY <1>4 DEF TagOf
  <2>4. \A j : Letter(c, x, i, j) = [type |-> CallOf[x], from |-> i, to |-> j, it |-> it[i], stage |-> stage[i], itr |-> itr[i]]
    BY <1>6, <2>2, <2>3 DEF Letter
  <2> QED BY <1>7, <2>1, <2>4 DEF ToAll
<1>9. e.triggers = {own(x)} \cup (IF Fac[i] = {} THEN {com(x)} ELSE {}) /\ \A a : TargetsOn(a, e) = <<>>
  BY <1>7, EffectFacts, ThenFacts, TargetFacts DEF SendCells
<1> HIDE DEF e
<1>10. \A m \in M, y \in DGKind : m.type # CallOf[y] BY CallTypes DEF AtCall
<1>11. /\ Letters(x)' = Letters(x) \cup {Letter(c, x, i, j) : j \in From(x, i)}
       /\ \A y \in DGKind \ {x} : Letters(y)' = Letters(y)
  <2>1. \A j : Letter(c, x, i, j).type = CallOf[x] BY <1>6, LetterFacts
  <2>2. \A y \in DGKind \ {x} : CallOf[y] # CallOf[x] BY <1>6, CallTypes
  <2>3. Letters(x)' = Letters(x) \cup {Letter(c, x, i, j) : j \in From(x, i)}
    BY <1>6, <1>8, <1>10, <2>1 DEF Letters, e
  <2>4. ASSUME NEW y \in DGKind \ {x} PROVE Letters(y)' = Letters(y) BY <1>8, <1>10, <2>1, <2>2 DEF Letters, e
  <2> QED BY <2>3, <2>4
<1>12. x = "lim" => trigger[i][com("sol")] = 1 /\ Arrived(c, "sol", i) = Fac[i] BY <1>1 DEF Signalled
<1>13. \A y \in DGKind : Keeps(c, d, y)
  <2>1. \A y \in DGKind : \A j \in Chare : count'[j][y] = count[j][y] BY DEF members
  <2>2. \A y \in DGKind \ {x} : SentAt(c, q, y) <=> SentAt(c, p, y) BY <1>2, <1>4, CallTypes DEF SentAt, SamePoint
  <2>3. \A y \in DGKind \ {x} : OverAt(c, q, y) => OverAt(c, p, y) \/ Arrived(c, y, i) = From(y, i)
    <3>1. From("sol", i) = Fac[i] BY DEF From
    <3>2. CASE x = "init" BY <1>2, <1>4, <3>2, CallTypes, SentFacts DEF SamePoint
    <3>3. CASE x = "sol" BY <1>2, <1>4, <3>3, CallTypes, SentFacts DEF SamePoint
    <3>4. CASE x = "lim" BY <1>2, <1>4, <1>12, <3>1, <3>4, CallTypes, SentFacts DEF SamePoint
    <3> QED BY <3>2, <3>3, <3>4
  <2>4. \A y \in DGKind \ {x} : Keeps(c, d, y)
    <3>1. ASSUME NEW y \in DGKind, y # x PROVE Keeps(c, d, y)
      <4>1. Letters(y)' = Letters(y) /\ \A j \in Chare : count'[j][y] = count[j][y] BY <1>11, <2>1, <3>1
      <4>2. /\ SentAt(c, d.of[i], y) <=> SentAt(c, c.of[i], y)
            /\ OverAt(c, d.of[i], y) => OverAt(c, c.of[i], y) \/ Arrived(c, y, i) = From(y, i)
        BY <1>2, <2>2, <2>3, <3>1
      <4> QED BY <1>2, <4>1, <4>2, KindQuiet
    <3> QED BY <3>1
  <2>5. ~ SentAt(c, p, x) /\ SentAt(c, q, x) /\ ~ OverAt(c, q, x)
    <3>1. CASE x = "init" BY <1>2, <1>4, <3>1 DEF SentAt, OverAt
    <3>2. CASE x = "sol" BY <1>2, <1>4, <3>2 DEF SentAt, OverAt
    <3>3. CASE x = "lim" BY <1>2, <1>4, <3>3 DEF SentAt, OverAt
    <3> QED BY <3>1, <3>2, <3>3
  <2>6. \A j \in Chare : /\ SentAt(d, d.of[j], x) <=> j = i \/ SentAt(c, c.of[j], x)
                         /\ OverAt(d, d.of[j], x) => OverAt(c, c.of[j], x)
    BY <1>2, <1>6, <2>5, SameFacts DEF Moves
  <2>7. Traded(c, x) /\ SameTags(c, d, x) BY <1>2, <1>6, PartsOf, SameFacts
  <2>8. Keeps(c, d, x)
    BY <1>6, <1>11, <2>1, <2>5, <2>6, <2>7, SendsOff
  <2> QED BY <2>4, <2>8
<1>14. Expects(d)'
  <2>1. ASSUME NEW n \in msgs \cap msgs', n.to = i, n = [type |-> n.type, to |-> i], Due(p, n) PROVE Due(q, n)
    <3>1. Due(q, n) \/ n.type = AtCall(p.at) BY <1>2, <2>1, DueMoves DEF SamePoint
    <3>2. ASSUME n.type = AtCall(p.at), p.at # 11 PROVE FALSE
      <4>1. n \in M BY <2>1, <3>2
      <4>2. n \notin e.calls BY <1>6, <1>8, <1>10, <4>1, LetterFacts
      <4> QED BY <4>1, <4>2 DEF e
    <3>3. p.at = 11 => n.type # AtCall(p.at) BY <2>1 DEF Due, AtCall
    <3> QED BY <3>1, <3>2, <3>3
  <2>2. \A n \in msgs \cap msgs' : n.type # "write" \/ n.to # i BY WriteCall
  <2>3. \A n \in msgs' \ msgs : \E y \in DGKind : n.type = CallOf[y] BY <1>6, <1>8, LetterFacts DEF e
  <2> QED BY <1>1, <1>2, <2>1, <2>2, <2>3, ExpectsMoves
<1>15. Contribution(d, i)'
  <2>1. WorkerPart(c, p) = <<>> /\ WorkerPart(c, q) = <<>>
    <3>1. p.at \notin {2, 4, 9, 13, 17, 24} /\ q.at \notin {2, 4, 9, 13, 17, 24} /\ p.ref = 0 /\ q.ref = 0
      BY <1>2, <1>4 DEF SamePoint
    <3> QED BY <3>1, WorkerParts
  <2>2. \A a \in {"worker", "disc", "refiner", "sync"} : contrib'[a][i] = contrib[a][i]
    BY <1>1, <1>9, ActsAdds, Arrays DEF ArrayIs, e
  <2>3. contrib["worker"][i] = <<>> BY <1>1, <2>1 DEF Contribution
  <2> QED BY <1>1, <1>2, <1>13, <2>1, <2>2, <2>3, CallTypes, ContributionKept DEF members, SamePoint
<1>16. Counters(d, i)' /\ Updated(d, i)' BY <1>1, <1>2, <1>4, CountersKept, UpdatedKept DEF members, SamePoint
<1>17. Maps(d, i)' BY <1>1, <1>2, <1>4, <1>13, MapsKept, CallTypes DEF members, SamePoint, Asking
<1>18. Ghosts(d, i)'
  <2>1. usol'[i] = usol[i] /\ ulim'[i] = ulim[i] /\ \A js : CellsOf(d, js) = CellsOf(c, js)
    BY <1>2, SameFacts DEF members
  <2> QED BY <1>1, <1>2, <1>4, <1>12, <1>13, <2>1, CallTypes DEF Ghosts
<1>19. Signalled(d, i)'
  <2>1. \A t \in Trigger : trigger'[i][t] = (IF t \in ns THEN trigger[i][t] - 1 ELSE trigger[i][t])
                                            + (IF t = own(x) \/ (t = com(x) /\ Fac[i] = {}) THEN 1 ELSE 0)
    BY <1>9 DEF Acts, e
  <2>2. \A y : (own(y) \in ns <=> x = "lim" /\ y = "sol") /\ (com(y) \in ns <=> x = "lim" /\ y = "sol") /\ done(y) \notin ns
    BY TriggersDiffer
  <2>3. \A y \in {"ghost", "init", "sol", "lim"} :
          /\ trigger'[i][own(y)] = (IF x = "lim" /\ y = "sol" THEN trigger[i][own(y)] - 1 ELSE trigger[i][own(y)])
                                   + (IF y = x THEN 1 ELSE 0)
          /\ trigger'[i][com(y)] = (IF x = "lim" /\ y = "sol" THEN trigger[i][com(y)] - 1 ELSE trigger[i][com(y)])
                                   + (IF y = x /\ Fac[i] = {} THEN 1 ELSE 0)
    BY <2>1, <2>2, TriggersAre, TriggersDiffer
  <2>4. \A y \in {"diag", "ref", "resize"} : trigger'[i][done(y)] = trigger[i][done(y)] + 0 /\ trigger[i][done(y)] \in {0, 1}
    BY <1>1, <2>1, <2>2, TriggersAre, TriggersDiffer DEF Signalled
  <2>5. Fac[i] = {} => Arrived(c, x, i) = Fac[i] BY <1>6 DEF Arrived
  <2>6. Renews(d) = Renews(c) BY <1>2, SameFacts
  <2> QED BY <1>1, <1>2, <1>12, <1>13, <2>3, <2>4, <2>5, <2>6, CallTypes DEF Signalled, SamePoint
<1>20. Local(d, i)' BY <1>15, <1>16, <1>17, <1>18, <1>19 DEF Local
<1> QED BY <1>1, <1>2, <1>3, <1>5, <1>13, <1>14, <1>20, Acted

\* DG::sendinit, advance
LEMMA SendInitKeeps ==
  ASSUME NEW c, DGInv(c), NEW m \in msgs, NEW i, i = m.to, SendInit(i, m) \/ Advance(i, m)
  PROVE  \E d \in Config : DGInv(d)'
<1> DEFINE p == c.of[i]
           M == {m}
<1>1. UNCHANGED members BY DEF SendInit, Advance, stepVars, nodeVars, dgVars, stageVars, meshVars, cellVars, members
<1>2. ASSUME NEW t, NEW x, (t = "sendinit" /\ x = "init") \/ (t = "advance" /\ x = "sol"),
             Is(m, t, i), Take(i, m, SendCells(i, CallOf[x], x))
      PROVE  \E d \in Config : DGInv(d)'
  <2>1. /\ i \in Chare /\ m = [type |-> t, to |-> i] /\ AtCall(p.at) = t
        /\ (x = "init" /\ p.at = 5) \/ (x = "sol" /\ p.at = 10)
    BY <1>2, PlainCall, CallTypes DEF Is, Due, AtCall
  <2>2. \A n \in msgs : n.type = t /\ n.to = i => n \in M
    <3>1. ASSUME NEW n \in msgs, n.type = t, n.to = i PROVE n = [type |-> t, to |-> i]
      BY <1>2, <3>1, PlainCall, CallTypes
    <3> QED BY <2>1, <3>1
  <2>3. Shape BY PartsOf
  <2>4. msgs' = (msgs \ M) \cup SendCells(i, CallOf[x], x).calls /\ Acts(i, {}, SendCells(i, CallOf[x], x))
    BY <1>2, <2>1, <2>3, Taking
  <2>5. M \in SUBSET msgs /\ \A n \in M : n.type = AtCall(p.at) /\ n.to = i BY <1>2, <2>1
  <2> HIDE DEF M
  <2>6. Sending(c, i, x, M) BY <1>1, <2>1, <2>2, <2>4, <2>5 DEF Sending, SendNeeds
  <2> QED BY <2>1, <2>5, <2>6, SendsCells
<1>3. CASE SendInit(i, m)
  <2>1. Is(m, "sendinit", i) /\ Take(i, m, SendCells(i, CallOf["init"], "init")) BY <1>3, CallTypes DEF SendInit
  <2> QED BY <1>2, <2>1
<1>4. CASE Advance(i, m)
  <2>1. Is(m, "advance", i) /\ Take(i, m, SendCells(i, CallOf["sol"], "sol")) BY <1>4, CallTypes DEF Advance
  <2> QED BY <1>2, <2>1
<1> QED BY <1>3, <1>4

LEMMA Limits ==
  ASSUME NEW c, DGInv(c), NEW i \in Chare, NEW ns, NEW e, NEW b, Limiting(c, i, ns, e, b),
         \A t \in ns : trigger[i][t] > 0, msgs' = msgs, Acts(i, ns, e), UNCHANGED members
  PROVE  \E d \in Config : DGInv(d)'
<1> DEFINE p == c.of[i]
           q == At(p, b)
           d == Put(c, i, q)
<1>1. /\ Held(c, i, p)
      /\ Kept(c, i) /\ Expects(c) /\ ~ finished
  BY PartsOf DEF Limiting
<1>2. /\ p \in Point /\ q.at = b /\ SamePoint(p, q)
      /\ d \in Config /\ Moves(c, d, i) /\ d.of[i] = q /\ SameRun(c, d)
  <2>1. b \in 0 .. 24 BY DEF Limiting
  <2> QED BY <2>1, Onset
<1> HIDE DEF q, d
<1>3. Shape' /\ Alone(i) BY <1>1, PlainActs
<1>4. /\ c.phase = 3 /\ c.mesh = 0 /\ p.ref = 0 /\ ~ Made(c, p) /\ ~ Made(c, q)
      /\ (p.at = 11 /\ q.at = 12) \/ (p.at = 12 /\ q.at = 13)
  BY <1>1, <1>2, ConfigIs DEF Fits, Made, Limiting
<1>5. Fits(c, q) BY <1>1, <1>2, <1>4 DEF Fits, SamePoint
<1>6. /\ p.at = 11 => Ndof = 1 /\ Arrived(c, "sol", i) = Fac[i]
      /\ p.at = 12 /\ Ndof > 1 => Arrived(c, "lim", i) = Fac[i]
      /\ From("sol", i) = Fac[i] /\ From("lim", i) = Fac[i]
  BY <1>1 DEF Signalled, Limiting, From
<1>7. \A x \in DGKind : Keeps(c, d, x)
  <2>1. ASSUME NEW x \in DGKind PROVE Letters(x)' = Letters(x) /\ \A j \in Chare : count'[j][x] = count[j][x]
    BY DEF members, Letters
  <2>2. ASSUME NEW x \in DGKind
        PROVE  /\ SentAt(c, q, x) <=> SentAt(c, p, x)
               /\ OverAt(c, q, x) => OverAt(c, p, x) \/ Arrived(c, x, i) = From(x, i)
    BY <1>2, <1>4, <1>6, CallTypes, SentFacts DEF SamePoint
  <2>3. DGKind \in SUBSET DGKind OBVIOUS
  <2> QED BY <1>2, <2>1, <2>2, <2>3, AllQuiet
<1>8. Expects(d)'
  <2>1. ASSUME NEW n \in msgs', n.to = i, n = [type |-> n.type, to |-> i], Due(p, n) PROVE Due(q, n)
    <3>1. n.type # AtCall(p.at) BY <1>4, <2>1 DEF Due, AtCall
    <3> QED BY <1>2, <2>1, <3>1, DueMoves DEF SamePoint
  <2>2. \A n \in msgs' : n.type # "write" \/ n.to # i BY <1>4, WriteCall
  <2> QED BY <1>1, <1>2, <2>1, <2>2, ExpectsMoves
<1>9. Contribution(d, i)'
  <2>1. contrib["worker"][i] = <<>> /\ WorkerPart(c, p) = <<>> BY <1>1, <1>4, WorkerParts DEF Contribution
  <2>2. WorkerPart(c, q) = IF q.at = 12 THEN <<>> ELSE <<"solve">> BY <1>2, <1>4, WorkerParts DEF SamePoint
  <2>3. TargetsOn("worker", e) = WorkerPart(c, q) /\ \A a \in {"disc", "refiner", "sync"} : TargetsOn(a, e) = <<>>
    BY <1>2, <2>2, EffectFacts DEF Limiting
  <2>4. /\ contrib'["worker"][i] = WorkerPart(c, q)
        /\ \A a \in {"disc", "refiner", "sync"} : contrib'[a][i] = contrib[a][i]
    BY <1>1, <2>1, <2>2, <2>3, ActsAdds, Arrays DEF ArrayIs
  <2> QED BY <1>1, <1>2, <1>4, <1>7, <2>4, CallTypes, ContributionKept DEF members, SamePoint
<1>10. Counters(d, i)' /\ Updated(d, i)' BY <1>1, <1>2, <1>4, CountersKept, UpdatedKept DEF members, SamePoint
<1>11. Maps(d, i)' BY <1>1, <1>2, <1>4, <1>7, MapsKept, CallTypes DEF members, SamePoint, Asking
<1>12. Ghosts(d, i)'
  <2>1. usol'[i] = usol[i] /\ ulim'[i] = ulim[i] /\ \A js : CellsOf(d, js) = CellsOf(c, js)
    BY <1>2, SameFacts DEF members
  <2> QED BY <1>1, <1>2, <1>4, <1>6, <1>7, <2>1, CallTypes DEF Ghosts
<1>13. Signalled(d, i)'
  <2>1. /\ \A x \in {"ghost", "init"} : own(x) \notin ns /\ com(x) \notin ns /\ own(x) \notin e.triggers /\ com(x) \notin e.triggers
        /\ \A x : done(x) \notin ns /\ done(x) \notin e.triggers
    BY TriggersDiffer, EffectFacts DEF Limiting
  <2>2. /\ \A x \in {"ghost", "init"} : trigger'[i][own(x)] = trigger[i][own(x)] + 0 /\ trigger'[i][com(x)] = trigger[i][com(x)] + 0
        /\ \A x \in {"diag", "ref", "resize"} : trigger'[i][done(x)] = trigger[i][done(x)] + 0
    BY <2>1, TriggersAre DEF Acts
  <2>3. CASE p.at = 11
    <3>1. /\ \A t : t \in ns <=> t = own("sol") \/ t = com("sol")
          /\ \A t : t \in e.triggers <=> t = own("lim") \/ t = com("lim")
      BY <2>3, EffectFacts DEF Limiting
    <3>2. /\ trigger'[i][own("sol")] = trigger[i][own("sol")] - 1 + 0 /\ trigger'[i][com("sol")] = trigger[i][com("sol")] - 1 + 0
          /\ trigger'[i][own("lim")] = trigger[i][own("lim")] + 1 /\ trigger'[i][com("lim")] = trigger[i][com("lim")] + 1
      <4>1. own("sol") # own("lim") /\ com("sol") # com("lim") /\ \A x, y : own(x) # com(y) BY TriggersDiffer
      <4>2. \A t \in {own("sol"), com("sol")} : t \in Trigger /\ t \in ns /\ t \notin e.triggers
        BY <3>1, <4>1, TriggersAre
      <4>3. \A t \in {own("lim"), com("lim")} : t \in Trigger /\ t \notin ns /\ t \in e.triggers
        BY <3>1, <4>1, TriggersAre
      <4> QED BY <4>2, <4>3 DEF Acts
    <3>3. trigger[i][own("sol")] > 0 /\ trigger[i][com("sol")] > 0 BY <3>1
    <3>4. q.at = 12 /\ Renews(d) = Renews(c) /\ Ndof = 1 BY <1>2, <1>4, <1>6, <2>3, SameFacts
    <3> QED BY <1>1, <1>2, <1>7, <2>2, <2>3, <3>2, <3>3, <3>4, CallTypes DEF Signalled, SamePoint
  <2>4. CASE p.at = 12
    <3>1. /\ \A t : t \in ns <=> t = own("lim") \/ t = com("lim")
          /\ \A t : t \notin e.triggers
      BY <2>4, EffectFacts DEF Limiting
    <3>2. /\ trigger'[i][own("sol")] = trigger[i][own("sol")] + 0 /\ trigger'[i][com("sol")] = trigger[i][com("sol")] + 0
          /\ trigger'[i][own("lim")] = trigger[i][own("lim")] - 1 + 0 /\ trigger'[i][com("lim")] = trigger[i][com("lim")] - 1 + 0
      <4>1. own("sol") # own("lim") /\ com("sol") # com("lim") /\ \A x, y : own(x) # com(y) BY TriggersDiffer
      <4>2. \A t \in {own("sol"), com("sol")} : t \in Trigger /\ t \notin ns /\ t \notin e.triggers
        BY <3>1, <4>1, TriggersAre
      <4>3. \A t \in {own("lim"), com("lim")} : t \in Trigger /\ t \in ns /\ t \notin e.triggers
        BY <3>1, <4>1, TriggersAre
      <4> QED BY <4>2, <4>3 DEF Acts
    <3>3. trigger[i][own("lim")] > 0 /\ trigger[i][com("lim")] > 0 BY <3>1
    <3>4. q.at = 13 /\ Renews(d) = Renews(c) BY <1>2, <1>4, <2>4, SameFacts
    <3> QED BY <1>1, <1>2, <1>7, <2>2, <2>4, <3>2, <3>3, <3>4, CallTypes DEF Signalled, SamePoint
  <2> QED BY <1>4, <2>3, <2>4
<1>14. Local(d, i)' BY <1>9, <1>10, <1>11, <1>12, <1>13 DEF Local
<1> QED BY <1>1, <1>2, <1>3, <1>5, <1>7, <1>8, <1>14, Acted

LEMMA LimKeeps ==
  ASSUME NEW c, DGInv(c), NEW i \in Chare, Lim(i) \/ Dt(i)
  PROVE  \E d \in Config : DGInv(d)'
<1>1. UNCHANGED members /\ Shape /\ Signalled(c, i)
  BY PartsOf DEF Lim, Dt, stepVars, nodeVars, dgVars, stageVars, meshVars, cellVars, members
<1>2. CASE Lim(i)
  <2> DEFINE e == IF Ndof > 1 THEN SendCells(i, "comlim", "lim") ELSE Triggers({own("lim"), com("lim")})
             ns == {own("sol"), com("sol")}
             M == {}
  <2>1. msgs' = msgs \cup e.calls /\ Acts(i, ns, e) /\ \A t \in ns : trigger[i][t] > 0
    <3>1. Run(i, "sol", e) /\ "sol" \in Wait /\ Needs["sol"] = ns BY <1>2, WaitsAre DEF Lim
    <3> HIDE DEF e, ns
    <3> QED BY <1>1, <3>1, Running
  <2>2. c.of[i].at = 11 BY <1>1, <2>1 DEF Signalled
  <2>3. CASE Ndof > 1
    <3>1. e = SendCells(i, CallOf["lim"], "lim") /\ M \in SUBSET msgs BY <2>3, CallTypes
    <3>2. SendNeeds("lim") = ns BY DEF SendNeeds
    <3>3. msgs' = (msgs \ M) \cup e.calls BY <2>1
    <3>4. /\ \A t \in SendNeeds("lim") : trigger[i][t] > 0
          /\ \A m \in M : m.type = AtCall(c.of[i].at) /\ m.to = i
          /\ Acts(i, SendNeeds("lim"), e)
      BY <2>1, <3>2
    <3> HIDE DEF M, e, ns
    <3>5. Sending(c, i, "lim", M) BY <1>1, <2>2, <2>3, <3>1, <3>3, <3>4 DEF Sending
    <3> QED BY <3>1, <3>5, SendsCells
  <2>4. CASE ~ (Ndof > 1)
    <3>1. e = Triggers({own("lim"), com("lim")}) /\ e.calls = {} /\ Ndof = 1 BY <2>4, EffectFacts, DGAssumption
    <3>2. Limiting(c, i, ns, e, 12) /\ msgs' = msgs BY <2>1, <2>2, <3>1 DEF Limiting
    <3> HIDE DEF e, ns
    <3> QED BY <1>1, <2>1, <3>2, Limits
  <2> QED BY <2>3, <2>4
<1>3. CASE Dt(i)
  <2> DEFINE e == Contributes("worker", "solve")
             ns == {own("lim"), com("lim")}
  <2>1. msgs' = msgs \cup e.calls /\ Acts(i, ns, e) /\ \A t \in ns : trigger[i][t] > 0
    <3>1. Run(i, "lim", e) /\ "lim" \in Wait /\ Needs["lim"] = ns BY <1>3, WaitsAre DEF Dt
    <3> HIDE DEF e, ns
    <3> QED BY <1>1, <3>1, Running
  <2>2. c.of[i].at = 12 /\ e.calls = {} BY <1>1, <2>1, EffectFacts DEF Signalled
  <2>3. Limiting(c, i, ns, e, 13) /\ msgs' = msgs BY <2>1, <2>2 DEF Limiting
  <2> HIDE DEF e, ns
  <2> QED BY <1>1, <2>1, <2>3, Limits
<1> QED BY <1>2, <1>3

\* DG::limitIC
LEMMA LimitICKeeps ==
  ASSUME NEW c, DGInv(c), NEW i \in Chare, LimitIC(i)
  PROVE  \E d \in Config : DGInv(d)'
<1> DEFINE p == c.of[i]
           q == At(p, 7)
           d == Put(c, i, q)
           w == Dump(i, "start")
           e == Calls({w})
           ns == {own("init"), com("init")}
<1>1. /\ Held(c, i, p)
      /\ Kept(c, i) /\ Expects(c) /\ (finished => p.at = 24)
  BY PartsOf
<1>2. /\ p \in Point /\ q.at = 7 /\ SamePoint(p, q)
      /\ d \in Config /\ Moves(c, d, i) /\ d.of[i] = q /\ SameRun(c, d)
  BY Onset
<1> HIDE DEF q, d
<1>3. UNCHANGED members BY DEF LimitIC, stepVars, nodeVars, dgVars, stageVars, meshVars, cellVars, members
<1>4. /\ msgs' = msgs \cup e.calls /\ Acts(i, ns, e) /\ \A t \in ns : trigger[i][t] > 0
  <2>1. Run(i, "initlim", e) /\ "initlim" \in Wait /\ Needs["initlim"] = ns BY WaitsAre DEF LimitIC
  <2> HIDE DEF e, ns
  <2> QED BY <1>1, <2>1, Running
<1>5. e.calls = {w} /\ e.triggers = {} /\ \A a : TargetsOn(a, e) = <<>> BY EffectFacts
<1>6. w.type = "write" /\ w.to = i /\ w.then = "start" BY DEF Dump
<1> HIDE DEF w, e
<1>7. Shape' /\ Alone(i) BY <1>1, <1>3, <1>4, PlainActs
<1>8. p.at = 6 /\ Arrived(c, "init", i) = Fac[i] /\ From("init", i) = Fac[i] BY <1>1, <1>4 DEF Signalled, From
<1>9. c.phase = 2 /\ c.mesh = 0 /\ p.ref = 0 /\ ~ Made(c, p) /\ ~ Made(c, q) /\ ~ finished
  BY <1>1, <1>2, <1>8, ConfigIs DEF Fits, Made
<1>10. Fits(c, q) BY <1>1, <1>2, <1>8, <1>9 DEF Fits, SamePoint
<1>11. \A x \in DGKind : Keeps(c, d, x)
  <2>1. ASSUME NEW x \in DGKind PROVE Letters(x)' = Letters(x) /\ \A j \in Chare : count'[j][x] = count[j][x]
    BY <1>3, <1>4, <1>5, <1>6, CallTypes DEF members, Letters
  <2>2. ASSUME NEW x \in DGKind
        PROVE  /\ SentAt(c, q, x) <=> SentAt(c, p, x)
               /\ OverAt(c, q, x) => OverAt(c, p, x) \/ Arrived(c, x, i) = From(x, i)
    BY <1>2, <1>8, <1>9, CallTypes, SentFacts DEF SamePoint
  <2>3. DGKind \in SUBSET DGKind OBVIOUS
  <2> QED BY <1>2, <2>1, <2>2, <2>3, AllQuiet
<1>12. Expects(d)'
  <2>1. ASSUME NEW n \in msgs \cap msgs', n.to = i, n = [type |-> n.type, to |-> i], Due(p, n) PROVE Due(q, n)
    <3>1. n.type # AtCall(p.at) BY <1>8, <2>1 DEF Due, AtCall
    <3> QED BY <1>2, <2>1, <3>1, DueMoves DEF SamePoint
  <2>2. \A n \in msgs' : n \in msgs \/ n = w BY <1>4, <1>5
  <2> QED BY <1>1, <1>2, <1>6, <1>8, <2>1, <2>2, ExpectsWrite
<1>13. Contribution(d, i)'
  <2>1. WorkerPart(c, p) = <<>> /\ WorkerPart(c, q) = <<>> BY <1>2, <1>8, <1>9, WorkerParts DEF SamePoint
  <2>2. \A a \in {"worker", "disc", "refiner", "sync"} : contrib'[a][i] = contrib[a][i]
    BY <1>1, <1>4, <1>5, ActsAdds, Arrays DEF ArrayIs
  <2>3. contrib["worker"][i] = <<>> BY <1>1, <2>1 DEF Contribution
  <2> QED BY <1>1, <1>2, <1>3, <1>8, <1>11, <2>1, <2>2, <2>3, CallTypes, ContributionKept DEF members, SamePoint
<1>14. Counters(d, i)' /\ Updated(d, i)'
  BY <1>1, <1>2, <1>3, <1>8, <1>9, CountersKept, UpdatedKept DEF members, SamePoint
<1>15. Maps(d, i)' BY <1>1, <1>2, <1>3, <1>8, <1>9, <1>11, MapsKept, CallTypes DEF members, SamePoint, Asking
<1>16. Ghosts(d, i)' BY <1>1, <1>2, <1>3, <1>8, <1>11, CallTypes, GhostsKept DEF members
<1>17. Signalled(d, i)'
  <2>1. \A t \in Trigger : trigger'[i][t] = (IF t \in ns THEN trigger[i][t] - 1 ELSE trigger[i][t]) + 0
    BY <1>4, <1>5 DEF Acts
  <2>2. \A x \in {"ghost", "sol", "lim"} : trigger'[i][own(x)] = trigger[i][own(x)] + 0 /\ trigger'[i][com(x)] = trigger[i][com(x)] + 0
    BY <2>1, TriggersAre, TriggersDiffer
  <2>3. \A x \in {"diag", "ref", "resize"} : trigger'[i][done(x)] = trigger[i][done(x)] + 0
    BY <2>1, TriggersAre, TriggersDiffer
  <2>4. trigger'[i][own("init")] = trigger[i][own("init")] - 1 + 0 /\ trigger'[i][com("init")] = trigger[i][com("init")] - 1 + 0
    BY <2>1, TriggersAre
  <2>5. trigger[i][own("init")] > 0 /\ trigger[i][com("init")] > 0 /\ Renews(d) = Renews(c) BY <1>2, <1>4, SameFacts
  <2> QED BY <1>1, <1>2, <1>8, <1>9, <1>11, <2>2, <2>3, <2>4, <2>5, CallTypes DEF Signalled, SamePoint
<1>18. Local(d, i)' BY <1>13, <1>14, <1>15, <1>16, <1>17 DEF Local
<1> QED BY <1>1, <1>2, <1>7, <1>9, <1>10, <1>11, <1>12, <1>18, Acted

\* MeshWriter::write
LEMMA WriteKeeps ==
  ASSUME NEW c, DGInv(c), NEW m \in msgs, NEW i, i = m.to, Write(i, m), UNCHANGED dgVars
  PROVE  \E d \in Config : DGInv(d)'
<1> DEFINE p == c.of[i]
           next == IF p.at = 7 THEN 8 ELSE 20
           q == At(p, next)
           d == Put(c, i, q)
           w == [type |-> m.then, to |-> i]
<1>1. /\ i \in Chare /\ m.type = "write"
      /\ (p.at = 7 /\ m.then = "start") \/ (p.at = 19 /\ m.then = "step")
      /\ \A n \in msgs : n.type = "write" /\ n.to = i => n = m
  BY WriteCall DEF Write, Is
<1>2. /\ Held(c, i, p)
      /\ Kept(c, i) /\ Expects(c) /\ ~ finished /\ Together(c)
  BY <1>1, PartsOf
<1>3. /\ p \in Point /\ q.at = next /\ SamePoint(p, q)
      /\ d \in Config /\ Moves(c, d, i) /\ d.of[i] = q /\ SameRun(c, d)
  <2>1. next \in 0 .. 24 OBVIOUS
  <2>2. i \in Chare BY <1>1
  <2>3. \A b \in 0 .. 24 : /\ c.of[i] \in Point /\ At(c.of[i], b).at = b /\ SamePoint(c.of[i], At(c.of[i], b))
    BY <2>2, Placed
  <2>4. \A b \in 0 .. 24 : Put(c, i, At(c.of[i], b)) \in Config /\ Moves(c, Put(c, i, At(c.of[i], b)), i)
    BY <2>2, Placed
  <2>5. \A b \in 0 .. 24 : Put(c, i, At(c.of[i], b)).of[i] = At(c.of[i], b) /\ SameRun(c, Put(c, i, At(c.of[i], b)))
    BY <2>2, Placed
  <2> HIDE DEF next
  <2> QED BY <2>1, <2>3, <2>4, <2>5
<1>a. next = p.at + 1 BY <1>1
<1> HIDE DEF q, d, next
<1> USE <1>a
<1>4. UNCHANGED members BY DEF Write, Serve, stepVars, nodeVars, dgVars, stageVars, meshVars, cellVars, members
<1>5. msgs' = (msgs \ {m}) \cup {w} /\ trigger' = trigger /\ contrib' = contrib BY DEF Write, Serve
<1>6. Shape' /\ Alone(i)
  <2>1. Shape' BY <1>2, <1>4, <1>5 DEF Shape, members
  <2> QED BY <1>4, <1>5, <2>1 DEF Alone, members
<1>7. /\ p.at = 7 => c.phase = 2 /\ c.mesh = 0 /\ p.ref = 0 /\ ~ Made(c, p) /\ ~ Made(c, q)
      /\ p.at = 19 => c.phase = 4 /\ c.st = 2 /\ Made(c, p) /\ Made(c, q) /\ (p.ref = 3 => c.mesh = 5 /\ c.work)
  <2>1. p.at = 7 => c.phase = 2 /\ c.mesh = 0 /\ p.ref = 0 /\ ~ Made(c, p) /\ ~ Made(c, q)
    BY <1>1, <1>2, <1>3, ConfigIs DEF Fits, Made
  <2>2. p.at = 19 => c.phase = 4 /\ c.st = 2 /\ Made(c, p) /\ Made(c, q) BY <1>1, <1>2, <1>3, ConfigIs DEF Fits, Made
  <2>3. p.at = 19 /\ p.ref = 3 => c.mesh = 5 BY <1>2, <2>2 DEF Fits
  <2> QED BY <1>2, <2>1, <2>2, <2>3 DEF Together
<1>8. Fits(c, q)
  <2>1. CASE p.at = 7 BY <1>1, <1>2, <1>3, <1>7, <2>1 DEF Fits, SamePoint
  <2>2. CASE p.at = 19 BY <1>1, <1>2, <1>3, <1>7, <2>2 DEF Fits, SamePoint
  <2> QED BY <1>1, <2>1, <2>2
<1>9. \A x \in DGKind : Keeps(c, d, x)
  <2>1. ASSUME NEW x \in DGKind PROVE Letters(x)' = Letters(x) /\ \A j \in Chare : count'[j][x] = count[j][x]
    BY <1>1, <1>4, <1>5, CallTypes DEF members, Letters
  <2>2. ASSUME NEW x \in DGKind
        PROVE  (SentAt(c, q, x) <=> SentAt(c, p, x)) /\ (OverAt(c, q, x) <=> OverAt(c, p, x))
    <3>1. CASE p.at = 7 BY <1>1, <1>3, <1>7, <3>1, CallTypes, SentFacts DEF SamePoint
    <3>2. CASE p.at = 19 BY <1>1, <1>3, <1>7, <3>2, CallTypes, SentFacts DEF SamePoint
    <3> QED BY <1>1, <3>1, <3>2
  <2>3. DGKind \in SUBSET DGKind OBVIOUS
  <2>4. i \in Chare BY <1>1
  <2> QED BY <1>3, <2>1, <2>2, <2>3, <2>4, AllQuiet
<1>10. Expects(d)'
  <2>1. ASSUME NEW n \in msgs \cap msgs', n.to = i, n = [type |-> n.type, to |-> i], Due(p, n) PROVE Due(q, n)
    <3>1. n.type # AtCall(p.at) BY <1>1, <2>1 DEF Due, AtCall
    <3> QED BY <1>3, <2>1, <3>1, DueMoves DEF SamePoint
  <2>2. \A n \in msgs \cap msgs' : n.type # "write" \/ n.to # i BY <1>1, <1>5
  <2>3. \A n \in msgs' \ msgs : n.type # "write" /\ n = [type |-> n.type, to |-> i] /\ Due(q, n)
    <3>1. w.type # "write" /\ w = [type |-> w.type, to |-> i] /\ Due(q, w) BY <1>1, <1>3 DEF Due
    <3> QED BY <1>5, <3>1
  <2> QED BY <1>1, <1>2, <1>3, <2>1, <2>2, <2>3, ExpectsMoves
<1>11. Contribution(d, i)'
  <2>1. WorkerPart(c, p) = <<>> /\ WorkerPart(c, q) = <<>>
    <3>1. (p.ref # 3 \/ c.work) /\ (q.ref # 3 \/ c.work) BY <1>1, <1>3, <1>7 DEF SamePoint
    <3>2. p.at \notin {2, 4, 9, 13, 17, 24} /\ q.at \notin {2, 4, 9, 13, 17, 24} BY <1>1, <1>3
    <3> QED BY <3>1, <3>2, WorkerParts
  <2>3. contrib["worker"][i] = <<>> BY <1>2, <2>1 DEF Contribution
  <2> QED BY <1>1, <1>2, <1>3, <1>4, <1>5, <1>9, <2>1, <2>3, CallTypes, ContributionKept DEF members, SamePoint
<1>12. Counters(d, i)' /\ Updated(d, i)'
  BY <1>1, <1>2, <1>3, <1>4, <1>7, CountersKept, UpdatedKept DEF members, SamePoint
<1>13. Maps(d, i)' BY <1>1, <1>2, <1>3, <1>4, <1>7, <1>9, MapsKept, CallTypes DEF members, SamePoint, Asking
<1>14. Ghosts(d, i)' BY <1>1, <1>2, <1>3, <1>4, <1>9, CallTypes, GhostsKept DEF members
<1>15. Signalled(d, i)' BY <1>1, <1>2, <1>3, <1>5, <1>9, CallTypes, SignalsKept DEF SamePoint
<1>16. Local(d, i)' BY <1>11, <1>12, <1>13, <1>14, <1>15 DEF Local
<1> QED BY <1>1, <1>2, <1>3, <1>6, <1>8, <1>9, <1>10, <1>16, Acted

\* Nothing is to move.
LEMMA StaysThere ==
  ASSUME NEW c, NEW i \in Chare
  PROVE  Moves(c, c, i) /\ SameRun(c, c) /\ \A x \in DGKind : SameTags(c, c, x)
  BY DEF Moves, SameRun, SameTags

\* Who calls chare i with cells of kind x, and where they are.
LEMMA CellSender ==
  ASSUME NEW c, DGInv(c), NEW x \in {"init", "sol", "lim"}, NEW m \in msgs, m.type = CallOf[x], NEW i, i = m.to
  PROVE  /\ i \in Chare /\ c.mesh = 0
         /\ \E j \in Fac[i] : j \notin Arrived(c, x, i) /\ m = Letter(c, x, j, i)
         /\ m.it = c.it /\ m.stage = c.st /\ m.itr = Base(c)
         /\ x = "init" => c.phase = 2 /\ c.of[i].at \in 5 .. 6
         /\ x = "sol" => c.phase = 3 /\ c.of[i].at \in 10 .. 11
         /\ x = "lim" => c.phase = 3 /\ c.of[i].at \in 10 .. 12 /\ Ndof > 1
<1>1. x \in DGKind /\ m \in Letters(x) /\ Traded(c, x) /\ From(x, i) = Fac[i] /\ x # "vol"
  BY CallTypes, PartsOf DEF Letters, From
<1>2. /\ i \in Chare /\ ~ OverAt(c, c.of[i], x)
      /\ \E j \in From(x, i) : SentAt(c, c.of[j], x) /\ m = Letter(c, x, j, i) /\ j \notin Arrived(c, x, i)
  BY <1>1, Sender
<1>3. PICK j \in From(x, i) : SentAt(c, c.of[j], x) /\ m = Letter(c, x, j, i) /\ j \notin Arrived(c, x, i) BY <1>2
<1>4. /\ x = "init" => c.phase = 2
      /\ x \in {"sol", "lim"} => c.phase = 3
      /\ x = "lim" => Ndof > 1
  BY <1>3 DEF SentAt
<1>5. Together(c) /\ Fits(c, c.of[i]) /\ c \in Config BY <1>2, PartsOf
<1>6. c.phase \in 2 .. 3 BY <1>4
<1>7. c.mesh = 0 BY <1>5, <1>6, ConfigIs DEF Together
<1>8. m.it = c.it /\ m.stage = c.st /\ m.itr = Base(c) BY <1>1, <1>3, <1>7 DEF Letter, TagOf
<1>9. c.phase = 2 => c.of[i].at \in 5 .. 9 BY <1>5 DEF Fits
<1>10. c.phase = 3 => c.of[i].at \in 10 .. 13 BY <1>5 DEF Fits
<1>11. /\ x = "init" => c.of[i].at \in 5 .. 6
       /\ x = "sol" => c.of[i].at \in 10 .. 11
       /\ x = "lim" => c.of[i].at \in 10 .. 12
  <2>1. CASE x = "init" BY <1>2, <1>4, <1>9, <2>1 DEF OverAt
  <2>2. CASE x = "sol" BY <1>2, <1>4, <1>10, <2>2 DEF OverAt
  <2>3. CASE x = "lim" BY <1>2, <1>4, <1>10, <2>3 DEF OverAt
  <2> QED BY <2>1, <2>2, <2>3
<1> QED BY <1>1, <1>2, <1>3, <1>4, <1>7, <1>8, <1>11

LEMMA HearsCells ==
  ASSUME NEW c, DGInv(c), NEW x \in {"init", "sol", "lim"}, NEW m \in msgs, NEW i, i = m.to, Hearing(c, i, m, x)
  PROVE  DGInv(c)'
<1> DEFINE p == c.of[i]
           last == count[i][x] + 1 = Cardinality(Fac[i])
           e == IF last THEN Triggers({com(x)}) ELSE Nothing
<1>p. p = c.of[i] OBVIOUS
<1>1. /\ m.type = CallOf[x] /\ Take(i, m, e)
      /\ count' = [count EXCEPT ![i][x] = IF last THEN 0 ELSE count[i][x] + 1]
      /\ usol' = IF x = "lim" THEN usol ELSE [usol EXCEPT ![i] = Cells(usol[i], m)]
      /\ ulim' = IF x = "lim" THEN [ulim EXCEPT ![i] = Cells(ulim[i], m)] ELSE ulim
      /\ UNCHANGED <<it, itr, finished, refined, stage, used, bndFace, ghostData, ghost>>
  BY DEF Hearing
<1>2. /\ i \in Chare /\ c.mesh = 0
      /\ \E j \in Fac[i] : j \notin Arrived(c, x, i) /\ m = Letter(c, x, j, i)
      /\ m.it = c.it /\ m.stage = c.st /\ m.itr = Base(c)
      /\ x = "init" => c.phase = 2 /\ p.at \in 5 .. 6
      /\ x = "sol" => c.phase = 3 /\ p.at \in 10 .. 11
      /\ x = "lim" => c.phase = 3 /\ p.at \in 10 .. 12 /\ Ndof > 1
  BY <1>1, CellSender
<1>3. /\ Held(c, i, p)
      /\ Kept(c, i) /\ Expects(c) /\ ~ finished
      /\ \A y \in DGKind : Traded(c, y)
  BY <1>2, PartsOf
<1>4. Moves(c, c, i) /\ SameRun(c, c) /\ \A y \in DGKind : SameTags(c, c, y) BY <1>2, StaysThere
<1>5. x \in DGKind /\ From(x, i) = Fac[i] /\ x # "vol" BY CallTypes DEF From
<1>6. e.calls = {} /\ e.triggers = (IF last THEN {com(x)} ELSE {}) /\ \A a : TargetsOn(a, e) = <<>> BY EffectFacts
<1> HIDE DEF e
<1>7. msgs' = msgs \ {m} /\ Acts(i, {}, e) BY <1>1, <1>2, <1>3, <1>6, Taking
<1>8. /\ count' \in [Chare -> [DGKind -> Nat]] /\ \A j \in Chare \ {i} : count'[j] = count[j]
      /\ count'[i][x] = (IF last THEN 0 ELSE count[i][x] + 1)
      /\ \A y \in DGKind \ {x} : count'[i][y] = count[i][y]
  <2> DEFINE n == IF last THEN 0 ELSE count[i][x] + 1
  <2>1. count \in [Chare -> [DGKind -> Nat]] /\ n \in Nat BY <1>2, <1>3, <1>5 DEF Shape
  <2>2. count' = [count EXCEPT ![i][x] = n] BY <1>1
  <2> HIDE DEF n
  <2>3. /\ count' \in [Chare -> [DGKind -> Nat]] /\ \A j \in Chare \ {i} : count'[j] = count[j]
        /\ count'[i][x] = n
        /\ \A y \in DGKind \ {x} : count'[i][y] = count[i][y]
    BY <1>2, <1>5, <2>1, <2>2
  <2> QED BY <2>3 DEF n
<1>9. Shape' BY <1>1, <1>3, <1>7, <1>8 DEF Shape, Acts
<1>10. Alone(i) BY <1>1, <1>3, <1>7, <1>8 DEF Alone, Acts, Shape
<1>11. /\ Traded(c, x)' /\ \A j \in Chare \ {i} : Arrived(c, x, j)' = Arrived(c, x, j)
       /\ last <=> Arrived(c, x, i)' = From(x, i)
  <2>1. m \in Letters(x) /\ Letters(x)' = Letters(x) \ {m} BY <1>1, <1>7 DEF Letters
  <2>2. /\ count'[i][x] = IF count[i][x] + 1 = Cardinality(From(x, i)) THEN 0 ELSE count[i][x] + 1
        /\ \A j \in Chare \ {i} : count'[j][x] = count[j][x]
    BY <1>5, <1>8
  <2>3. last <=> count[i][x] + 1 = Cardinality(From(x, i)) BY <1>5
  <2>4. Traded(c, x) /\ SameTags(c, c, x) BY <1>3, <1>4, <1>5
  <2>5. \A k \in Chare : SentAt(c, c.of[k], x) <=> SentAt(c, c.of[k], x) OBVIOUS
  <2>6. \A k \in Chare : OverAt(c, c.of[k], x) => OverAt(c, c.of[k], x) OBVIOUS
  <2>7. count'[i][x] = IF count[i][x] + 1 = Cardinality(From(x, i)) THEN 0 ELSE count[i][x] + 1 BY <2>2
  <2>8. \A j \in Chare \ {i} : count'[j][x] = count[j][x] BY <2>2
  <2>9. m \in Letters(x) BY <2>1
  <2>10. Letters(x)' = Letters(x) \ {m} BY <2>1
  <2>11. Traded(c, x) BY <2>4
  <2>12. SameTags(c, c, x) BY <2>4
  <2>13. x \in DGKind BY <1>5
  <2> HIDE DEF last
  <2>14. /\ Traded(c, x)' /\ \A j \in Chare \ {i} : Arrived(c, x, j)' = Arrived(c, x, j)
         /\ count[i][x] + 1 = Cardinality(From(x, i)) <=> Arrived(c, x, i)' = From(x, i)
         /\ count'[i][x] = 0 <=> Arrived(c, x, i)' = From(x, i)
    BY <2>5, <2>6, <2>7, <2>8, <2>9, <2>10, <2>11, <2>12, <2>13, TakesOne
  <2> QED BY <2>3, <2>14
<1>12. PICK j \in Fac[i] : /\ m = Letter(c, x, j, i) /\ j \notin Arrived(c, x, i)
                           /\ Arrived(c, x, i)' = Arrived(c, x, i) \cup {j}
  <2>1. PICK j \in Fac[i] : j \notin Arrived(c, x, i) /\ m = Letter(c, x, j, i) BY <1>2
  <2>2. j \in From(x, i) /\ Letter(c, x, j, i) \in Letters(x) /\ Letters(x)' = Letters(x) \ {Letter(c, x, j, i)}
    BY <1>1, <1>5, <1>7, <2>1 DEF Letters
  <2>3. Arrived(c, x, i)' = Arrived(c, x, i) \cup {j} BY <1>2, <1>3, <1>4, <1>5, <2>2, Arriving
  <2> QED BY <2>1, <2>3
<1>13. m.from = j BY <1>5, <1>12 DEF Letter
<1>14. \A y \in DGKind \ {x} : Traded(c, y)' /\ \A k \in Chare : Arrived(c, y, k)' = Arrived(c, y, k)
  <2>1. ASSUME NEW y \in DGKind, y # x PROVE Traded(c, y)' /\ \A k \in Chare : Arrived(c, y, k)' = Arrived(c, y, k)
    <3>1. CallOf[y] # CallOf[x] BY <1>5, <2>1, CallTypes
    <3>2. Letters(y)' = Letters(y) BY <1>1, <1>7, <3>1 DEF Letters
    <3>3. \A k \in Chare : count'[k][y] = count[k][y] BY <1>8, <2>1
    <3> QED BY <1>2, <1>4, <2>1, <3>2, <3>3, KindQuiet
  <2> QED BY <2>1
<1>15. Expects(c)' BY <1>2, <1>3, <1>4, <1>7, ExpectsMoves
<1>16. Contribution(c, i)'
  <2>1. \A a \in {"worker", "disc", "refiner", "sync"} : contrib'[a][i] = contrib[a][i]
    BY <1>2, <1>3, <1>6, <1>7, ActsAdds, Arrays DEF ArrayIs
  <2>2. contrib["worker"][i] = WorkerPart(c, p) /\ p.at \notin {21, 22} BY <1>2, <1>3 DEF Contribution
  <2>3. Arrived(c, "vol", i)' = Arrived(c, "vol", i) BY <1>2, <1>5, <1>14, CallTypes
  <2> QED BY <1>1, <1>2, <1>3, <1>4, <2>1, <2>2, <2>3, ContributionKept
<1>17. Counters(c, i)' /\ Updated(c, i)' BY <1>1, <1>2, <1>3, <1>4, CountersKept, UpdatedKept
<1>18. Maps(c, i)' BY <1>1, <1>2, <1>3, <1>4, <1>5, <1>14, MapsKept, CallTypes
<1>19. Ghosts(c, i)'
  <2>1. /\ x = "lim" => usol'[i] = usol[i] /\ ulim'[i] = Cells(ulim[i], m)
        /\ x # "lim" => usol'[i] = Cells(usol[i], m) /\ ulim'[i] = ulim[i]
    BY <1>1, <1>2, <1>3 DEF Shape
  <2> DEFINE new == [from |-> j, it |-> c.it, stage |-> c.st, itr |-> Base(c)]
  <2>2. \A u : Cells(u, m) = {q \in u : q.from # j} \cup {new} BY <1>2, <1>13 DEF Cells
  <2>3. ASSUME NEW u, NEW js, {q \in u : q.from \in js} = CellsOf(c, js)
        PROVE  {q \in Cells(u, m) : q.from \in js \cup {j}} = CellsOf(c, js \cup {j})
    <3>1. new.from = j /\ \A k : k \in CellsOf(c, js \cup {j}) <=> k = new \/ k \in CellsOf(c, js) BY DEF CellsOf
    <3>2. \A k \in CellsOf(c, js) : k.from \in js BY DEF CellsOf
    <3>3. \A k \in CellsOf(c, js) : k.from = j => k = new BY DEF CellsOf
    <3> HIDE DEF new
    <3> QED BY <2>2, <2>3, <3>1, <3>2, <3>3
  <2>4. ASSUME NEW u, NEW js, j \notin js
        PROVE  {q \in Cells(u, m) : q.from \in js} = {q \in u : q.from \in js}
    <3>1. new.from = j OBVIOUS
    <3> HIDE DEF new
    <3> QED BY <2>2, <2>4, <3>1
  <2>5. \A q \in usol'[i] \cup ulim'[i] : q.from \in Fac[i]
    <3>1. new.from \in Fac[i] OBVIOUS
    <3>2. \A q \in usol[i] \cup ulim[i] : q.from \in Fac[i] BY <1>3 DEF Ghosts
    <3> HIDE DEF new
    <3> QED BY <2>1, <2>2, <3>1, <3>2
  <2>6. Ndof = 1 => ulim'[i] = {} BY <1>2, <1>3, <2>1 DEF Ghosts
  <2>7. CASE x = "init" BY <1>2, <2>5, <2>6, <2>7 DEF Ghosts
  <2>8. CASE x = "sol"
    <3>1. {q \in usol[i] : q.from \in Arrived(c, "sol", i)} = CellsOf(c, Arrived(c, "sol", i))
      BY <1>2, <1>3, <2>8 DEF Ghosts
    <3>2. {q \in usol'[i] : q.from \in Arrived(c, "sol", i)'} = CellsOf(c, Arrived(c, "sol", i)')
      BY <1>12, <2>1, <2>3, <2>8, <3>1
    <3>3. Arrived(c, "lim", i)' = Arrived(c, "lim", i) /\ ulim'[i] = ulim[i] BY <1>2, <1>14, <2>1, <2>8, CallTypes
    <3>4. \A js : CellsOf(c, js)' = CellsOf(c, js) BY DEF CellsOf
    <3>5. /\ p.at \in 10 .. 14 =>
               LET js == IF p.at <= 11 THEN Arrived(c, "sol", i)' ELSE Fac[i]
               IN  {q \in usol'[i] : q.from \in js} = CellsOf(c, js)
          /\ p.at \in 10 .. 14 /\ Ndof > 1 =>
               LET js == IF p.at <= 12 THEN Arrived(c, "lim", i)' ELSE Fac[i]
               IN  {q \in ulim'[i] : q.from \in js} = CellsOf(c, js)
      <4>1. /\ p.at \in 10 .. 14 =>
                 LET js == IF p.at <= 11 THEN Arrived(c, "sol", i) ELSE Fac[i]
                 IN  {q \in usol[i] : q.from \in js} = CellsOf(c, js)
            /\ p.at \in 10 .. 14 /\ Ndof > 1 =>
                 LET js == IF p.at <= 12 THEN Arrived(c, "lim", i) ELSE Fac[i]
                 IN  {q \in ulim[i] : q.from \in js} = CellsOf(c, js)
        BY <1>3 DEF Ghosts
      <4> HIDE DEF p
      <4> QED BY <1>2, <2>8, <3>2, <3>3, <4>1
    <3> HIDE DEF p
    <3> QED BY <1>p, <2>5, <2>6, <3>4, <3>5 DEF Ghosts
  <2>9. CASE x = "lim"
    <3>1. {q \in ulim[i] : q.from \in Arrived(c, "lim", i)} = CellsOf(c, Arrived(c, "lim", i))
      BY <1>2, <1>3, <2>9 DEF Ghosts
    <3>2. {q \in ulim'[i] : q.from \in Arrived(c, "lim", i)'} = CellsOf(c, Arrived(c, "lim", i)')
      BY <1>12, <2>1, <2>3, <2>9, <3>1
    <3>3. Arrived(c, "sol", i)' = Arrived(c, "sol", i) /\ usol'[i] = usol[i] BY <1>2, <1>14, <2>1, <2>9, CallTypes
    <3>4. \A js : CellsOf(c, js)' = CellsOf(c, js) BY DEF CellsOf
    <3>5. /\ p.at \in 10 .. 14 =>
               LET js == IF p.at <= 11 THEN Arrived(c, "sol", i)' ELSE Fac[i]
               IN  {q \in usol'[i] : q.from \in js} = CellsOf(c, js)
          /\ p.at \in 10 .. 14 /\ Ndof > 1 =>
               LET js == IF p.at <= 12 THEN Arrived(c, "lim", i)' ELSE Fac[i]
               IN  {q \in ulim'[i] : q.from \in js} = CellsOf(c, js)
      <4>1. /\ p.at \in 10 .. 14 =>
                 LET js == IF p.at <= 11 THEN Arrived(c, "sol", i) ELSE Fac[i]
                 IN  {q \in usol[i] : q.from \in js} = CellsOf(c, js)
            /\ p.at \in 10 .. 14 /\ Ndof > 1 =>
                 LET js == IF p.at <= 12 THEN Arrived(c, "lim", i) ELSE Fac[i]
                 IN  {q \in ulim[i] : q.from \in js} = CellsOf(c, js)
        BY <1>3 DEF Ghosts
      <4> HIDE DEF p
      <4> QED BY <1>2, <2>9, <3>2, <3>3, <4>1
    <3> HIDE DEF p
    <3> QED BY <1>p, <2>5, <2>6, <3>4, <3>5 DEF Ghosts
  <2> QED BY <2>7, <2>8, <2>9
<1>20. Signalled(c, i)'
  <2>1. \A t \in Trigger : trigger'[i][t] = trigger[i][t] + (IF t = com(x) /\ last THEN 1 ELSE 0)
    BY <1>6, <1>7 DEF Acts
  <2>2. \A y \in {"ghost", "init", "sol", "lim"} :
          /\ trigger'[i][own(y)] = trigger[i][own(y)] + 0
          /\ trigger'[i][com(y)] = trigger[i][com(y)] + (IF y = x /\ last THEN 1 ELSE 0)
    BY <2>1, TriggersAre, TriggersDiffer
  <2>3. \A y \in {"diag", "ref", "resize"} : trigger'[i][done(y)] = trigger[i][done(y)] + 0
    BY <2>1, TriggersAre, TriggersDiffer
  <2>4. /\ Arrived(c, x, i) # Fac[i] /\ Fac[i] # {} /\ (last => Arrived(c, x, i)' = Fac[i])
        /\ ~ last => Arrived(c, x, i)' # Fac[i]
    BY <1>5, <1>11, <1>12
  <2>5. \A y \in {"init", "sol", "lim", "req"} \ {x} : Arrived(c, y, i)' = Arrived(c, y, i) BY <1>2, <1>14, CallTypes
  <2> HIDE DEF last
  <2>6. \A y \in {"ghost", "init", "sol", "lim"} : /\ trigger[i][own(y)] \in {0, 1}
                                                   /\ trigger[i][com(y)] \in {0, 1}
    BY <1>3 DEF Signalled
  <2>7. CASE x = "init"
    <3>1. \A y \in {"ghost", "init", "sol", "lim"} : /\ trigger'[i][own(y)] = trigger[i][own(y)]
                                                     /\ y # "init" => trigger'[i][com(y)] = trigger[i][com(y)]
      BY <2>2, <2>6, <2>7
    <3>2. \A y \in {"diag", "ref", "resize"} : trigger'[i][done(y)] = trigger[i][done(y)] BY <1>3, <2>3 DEF Signalled
    <3>3. \A y \in {"init", "sol", "lim", "req"} : y # "init" => Arrived(c, y, i)' = Arrived(c, y, i) BY <2>5, <2>7
    <3>4. trigger'[i][com("init")] \in {0, 1} /\ (trigger'[i][com("init")] = 1 => Arrived(c, "init", i)' = Fac[i])
      <4>1. trigger'[i][com("init")] = trigger[i][com("init")] + (IF last THEN 1 ELSE 0) BY <2>2, <2>7
      <4>2. trigger[i][com("init")] \in {0, 1} /\ (trigger[i][com("init")] = 1 => Arrived(c, "init", i) = Fac[i])
        BY <1>2, <1>3, <2>7 DEF Signalled
      <4> QED BY <2>4, <2>7, <4>1, <4>2
    <3>5. /\ trigger'[i][own("init")] = trigger[i][own("init")] /\ trigger'[i][own("sol")] = trigger[i][own("sol")]
          /\ trigger'[i][own("lim")] = trigger[i][own("lim")] /\ trigger'[i][own("ghost")] = trigger[i][own("ghost")]
          /\ trigger'[i][com("ghost")] = trigger[i][com("ghost")]
          /\ \A y \in {"init", "sol", "lim"} : y # "init" => trigger'[i][com(y)] = trigger[i][com(y)]
      BY <3>1
    <3>6. Signalled(c, i) /\ Fac[i] # {} /\ p.at \in 5 .. 6 BY <1>2, <1>3, <2>4, <2>7
    <3>7. /\ Arrived(c, "req", i)' = Arrived(c, "req", i)
          /\ \A y \in {"init", "sol", "lim"} : y # "init" => (Arrived(c, y, i)' = Fac[i] <=> Arrived(c, y, i) = Fac[i])
      BY <3>3
    <3> HIDE DEF p
    <3> QED BY <1>p, <3>2, <3>4, <3>5, <3>6, <3>7 DEF Signalled
  <2>8. CASE x = "sol"
    <3>1. \A y \in {"ghost", "init", "sol", "lim"} : /\ trigger'[i][own(y)] = trigger[i][own(y)]
                                                     /\ y # "sol" => trigger'[i][com(y)] = trigger[i][com(y)]
      BY <2>2, <2>6, <2>8
    <3>2. \A y \in {"diag", "ref", "resize"} : trigger'[i][done(y)] = trigger[i][done(y)] BY <1>3, <2>3 DEF Signalled
    <3>3. \A y \in {"init", "sol", "lim", "req"} : y # "sol" => Arrived(c, y, i)' = Arrived(c, y, i) BY <2>5, <2>8
    <3>4. trigger'[i][com("sol")] \in {0, 1} /\ (trigger'[i][com("sol")] = 1 => Arrived(c, "sol", i)' = Fac[i])
      <4>1. trigger'[i][com("sol")] = trigger[i][com("sol")] + (IF last THEN 1 ELSE 0) BY <2>2, <2>8
      <4>2. trigger[i][com("sol")] \in {0, 1} /\ (trigger[i][com("sol")] = 1 => Arrived(c, "sol", i) = Fac[i])
        BY <1>2, <1>3, <2>8 DEF Signalled
      <4> QED BY <2>4, <2>8, <4>1, <4>2
    <3>5. /\ trigger'[i][own("init")] = trigger[i][own("init")] /\ trigger'[i][own("sol")] = trigger[i][own("sol")]
          /\ trigger'[i][own("lim")] = trigger[i][own("lim")] /\ trigger'[i][own("ghost")] = trigger[i][own("ghost")]
          /\ trigger'[i][com("ghost")] = trigger[i][com("ghost")]
          /\ \A y \in {"init", "sol", "lim"} : y # "sol" => trigger'[i][com(y)] = trigger[i][com(y)]
      BY <3>1
    <3>6. Signalled(c, i) /\ Fac[i] # {} /\ p.at \in 10 .. 11 BY <1>2, <1>3, <2>4, <2>8
    <3>7. /\ Arrived(c, "req", i)' = Arrived(c, "req", i)
          /\ \A y \in {"init", "sol", "lim"} : y # "sol" => (Arrived(c, y, i)' = Fac[i] <=> Arrived(c, y, i) = Fac[i])
      BY <3>3
    <3> HIDE DEF p
    <3> QED BY <1>p, <3>2, <3>4, <3>5, <3>6, <3>7 DEF Signalled
  <2>9. CASE x = "lim"
    <3>1. \A y \in {"ghost", "init", "sol", "lim"} : /\ trigger'[i][own(y)] = trigger[i][own(y)]
                                                     /\ y # "lim" => trigger'[i][com(y)] = trigger[i][com(y)]
      BY <2>2, <2>6, <2>9
    <3>2. \A y \in {"diag", "ref", "resize"} : trigger'[i][done(y)] = trigger[i][done(y)] BY <1>3, <2>3 DEF Signalled
    <3>3. \A y \in {"init", "sol", "lim", "req"} : y # "lim" => Arrived(c, y, i)' = Arrived(c, y, i) BY <2>5, <2>9
    <3>4. trigger'[i][com("lim")] \in {0, 1} /\ (trigger'[i][com("lim")] = 1 => Arrived(c, "lim", i)' = Fac[i])
      <4>1. trigger'[i][com("lim")] = trigger[i][com("lim")] + (IF last THEN 1 ELSE 0) BY <2>2, <2>9
      <4>2. trigger[i][com("lim")] \in {0, 1} /\ (trigger[i][com("lim")] = 1 => Arrived(c, "lim", i) = Fac[i])
        BY <1>2, <1>3, <2>9 DEF Signalled
      <4> QED BY <2>4, <2>9, <4>1, <4>2
    <3>5. /\ trigger'[i][own("init")] = trigger[i][own("init")] /\ trigger'[i][own("sol")] = trigger[i][own("sol")]
          /\ trigger'[i][own("lim")] = trigger[i][own("lim")] /\ trigger'[i][own("ghost")] = trigger[i][own("ghost")]
          /\ trigger'[i][com("ghost")] = trigger[i][com("ghost")]
          /\ \A y \in {"init", "sol", "lim"} : y # "lim" => trigger'[i][com(y)] = trigger[i][com(y)]
      BY <3>1
    <3>6. Signalled(c, i) /\ Fac[i] # {} /\ p.at \in 10 .. 12 /\ Ndof # 1 BY <1>2, <1>3, <2>4, <2>9
    <3>7. /\ Arrived(c, "req", i)' = Arrived(c, "req", i)
          /\ \A y \in {"init", "sol", "lim"} : y # "lim" => (Arrived(c, y, i)' = Fac[i] <=> Arrived(c, y, i) = Fac[i])
      BY <3>3
    <3> HIDE DEF p
    <3> QED BY <1>p, <3>2, <3>4, <3>5, <3>6, <3>7 DEF Signalled
  <2> QED BY <2>7, <2>8, <2>9
<1>21. Local(c, i)' BY <1>16, <1>17, <1>18, <1>19, <1>20 DEF Local
<1>22. \A y \in DGKind : Traded(c, y)' /\ \A k \in Chare \ {i} : Arrived(c, y, k)' = Arrived(c, y, k) BY <1>11, <1>14
<1> QED BY <1>2, <1>3, <1>4, <1>9, <1>10, <1>15, <1>21, <1>22, Acted

\* DG::cominit, comsol, comlim
LEMMA ComKeeps ==
  ASSUME NEW c, DGInv(c), NEW m \in msgs, NEW i, i = m.to, ComInit(i, m) \/ ComSol(i, m) \/ ComLim(i, m)
  PROVE  DGInv(c)'
<1>1. ASSUME NEW x \in {"init", "sol", "lim"}, m.type = CallOf[x]
      PROVE  ghostData[i] = Fac[i]
  <2>1. i \in Chare /\ c.of[i].at \in 5 .. 12 BY <1>1, CellSender
  <2> QED BY <2>1, PartsOf DEF Maps, Asking
<1>2. CASE ComInit(i, m)
  <2>1. m.type = CallOf["init"] BY <1>2, CallTypes DEF ComInit, Is
  <2>2. Hearing(c, i, m, "init") BY <1>1, <1>2, <2>1 DEF ComInit, Hearing, Heard, stepVars, fileVars, stageVars
  <2> QED BY <2>2, HearsCells
<1>3. CASE ComSol(i, m)
  <2>1. m.type = CallOf["sol"] BY <1>3, CallTypes DEF ComSol, Is
  <2>2. Hearing(c, i, m, "sol")
    BY <1>1, <1>3, <2>1 DEF ComSol, Hearing, Heard, stepVars, fileVars, stageVars, meshVars
  <2> QED BY <2>2, HearsCells
<1>4. CASE ComLim(i, m)
  <2>1. m.type = CallOf["lim"] BY <1>4, CallTypes DEF ComLim, Is
  <2>2. Hearing(c, i, m, "lim")
    BY <1>1, <1>4, <2>1 DEF ComLim, Hearing, Heard, stepVars, fileVars, stageVars, meshVars
  <2> QED BY <2>2, HearsCells
<1> QED BY <1>2, <1>3, <1>4

LEMMA AskPlace ==
  ASSUME NEW c, DGInv(c), NEW j \in Chare, SentAt(c, c.of[j], "fac"), ~ OverAt(c, c.of[j], "fac")
  PROVE  \A i \in Chare : AskAt(c, i)
<1>1. /\ c.mesh = 0 => c.phase = 0
      /\ c.mesh # 0 => c.mesh # 5
  <2>1. c \in Config BY PartsOf
  <2> QED BY <2>1, ConfigIs DEF OverAt
<1>2. c \in Config /\ Together(c) /\ \A i \in Chare : Fits(c, c.of[i]) /\ Counters(c, i) BY PartsOf
<1>3. ASSUME c.mesh # 0 PROVE c.mesh = 4 /\ c.phase = 4 /\ c.st = 2 /\ Renews(c) /\ c.work
  <2>1. c.phase = 4 /\ c.st = 2 /\ Renews(c) BY <1>2, <1>3, ConfigIs DEF Together
  <2>2. c.of[j].at >= 16 /\ Made(c, c.of[j]) BY <1>2, <1>3, ConfigIs DEF SentAt, Fits
  <2>3. c.of[j].vol = 6 BY <1>2, <2>1, <2>2 DEF Fits
  <2>4. c.mesh >= 4
    <3>1. c.of[j].vol \in Vols(c)
      BY <1>2 DEF Fits
    <3>2. c.mesh \in 0 .. 5 BY <1>2, ConfigIs
    <3> QED BY <2>3, <3>1, <3>2
  <2>5. c.mesh = 4 BY <1>1, <1>2, <1>3, <2>4, ConfigIs
  <2> QED BY <1>2, <2>1, <2>5 DEF Together
<1>4. ASSUME NEW i \in Chare, c.mesh = 0 PROVE AskAt(c, i)
  <2>1. c.phase = 0 BY <1>1, <1>4
  <2>2. c.of[i].at \in 0 .. 2 BY <1>2, <2>1 DEF Fits
  <2>3. ~ Made(c, c.of[i]) BY <2>1 DEF Made
  <2>4. c.of[i].ref = 0 BY <1>2, <2>3 DEF Fits
  <2> QED BY <1>2, <1>4, <2>1, <2>2, <2>3, <2>4 DEF AskAt, Counters
<1>5. ASSUME NEW i \in Chare, c.mesh # 0 PROVE AskAt(c, i)
  <2>1. c.mesh = 4 /\ c.phase = 4 /\ c.st = 2 /\ Renews(c) /\ c.work BY <1>3, <1>5
  <2>2. Made(c, c.of[i]) /\ c.of[i].ref = 3 BY <1>2, <2>1 DEF Fits
  <2>3. c.of[i].at \in 15 .. 24 /\ c.of[i].at < 18 BY <1>2, <2>1, <2>2, ConfigIs DEF Fits, Made
  <2>4. it[i] = Now(c) /\ itr[i] = Base(c) + 1 BY <1>2, <2>2 DEF Counters
  <2>5. stage[i] = 2
    <3>1. Counters(c, i) BY <1>2
    <3>2. c.of[i].at >= 15 /\ c.of[i].at < 19 /\ c.st = 2 BY <2>1, <2>3
    <3> QED BY <3>1, <3>2 DEF Counters
  <2> QED BY <2>1, <2>2, <2>3, <2>4, <2>5 DEF AskAt
<1> QED BY <1>4, <1>5

\* Who asks a neighbour has heard from it,
LEMMA AskedFrom ==
  ASSUME NEW c, DGInv(c), NEW i \in Chare, NEW j \in Nbr[i], c.of[j].req \/ c.of[j].sent
  PROVE  SentAt(c, c.of[i], "fac") /\ c.of[j].req
<1>1. j \in Chare /\ i \in Nbr[j] /\ Maps(c, j) BY NbrFacts, PartsOf
<1>2. i \in Arrived(c, "fac", j) /\ c.of[j].req BY <1>1 DEF Maps
<1> QED BY <1>2 DEF Arrived, Senders

\* and who sends its ghosts has been asked by it.
LEMMA SentFrom ==
  ASSUME NEW c, DGInv(c), NEW i \in Chare, NEW j \in Nbr[i], c.of[j].sent
  PROVE  c.of[i].req
<1>1. j \in Chare /\ i \in Nbr[j] /\ Maps(c, j) BY NbrFacts, PartsOf
<1>2. i \in Arrived(c, "req", j) BY <1>1 DEF Maps
<1>3. SentAt(c, c.of[i], "req") BY <1>2 DEF Arrived, Senders
<1> QED BY <1>3, SentFacts

\* Who sends chare i calls of the kind, and where it is.
LEMMA AskSender ==
  ASSUME NEW c, DGInv(c), NEW x \in Faces, NEW m \in msgs, m.type = CallOf[x], NEW i, i = m.to
  PROVE  /\ i \in Chare /\ AskAt(c, i) /\ ~ OverAt(c, c.of[i], x)
         /\ \E j \in From(x, i) : SentAt(c, c.of[j], x) /\ j \notin Arrived(c, x, i) /\ m = Letter(c, x, j, i)
         /\ m.it = it[i] /\ m.stage = stage[i] /\ m.itr = itr[i]
<1>1. x \in DGKind /\ m \in Letters(x) /\ Traded(c, x) BY CallTypes, PartsOf DEF Letters
<1>2. /\ i \in Chare /\ ~ OverAt(c, c.of[i], x)
      /\ \E j \in From(x, i) : SentAt(c, c.of[j], x) /\ m = Letter(c, x, j, i) /\ j \notin Arrived(c, x, i)
  BY <1>1, Sender
<1>3. PICK j \in From(x, i) : SentAt(c, c.of[j], x) /\ m = Letter(c, x, j, i) /\ j \notin Arrived(c, x, i) BY <1>2
<1>4. j \in Nbr[i] /\ j \in Chare BY <1>1, <1>2, <1>3, NbrFacts, FromFacts DEF From
<1>5. \E k \in Chare : SentAt(c, c.of[k], "fac")
  <2>1. CASE x = "fac" BY <1>3, <1>4, <2>1
  <2>2. CASE x # "fac"
    <3>1. c.of[j].req \/ c.of[j].sent BY <1>3, <2>2, SentFacts
    <3> QED BY <1>2, <1>4, <3>1, AskedFrom
  <2> QED BY <2>1, <2>2
<1>6. \A k : ~ OverAt(c, c.of[k], "fac") BY <1>2, SentFacts
<1>7. AskAt(c, i) BY <1>2, <1>5, <1>6, AskPlace
<1>8. m.it = it[i] /\ m.stage = stage[i] /\ m.itr = itr[i]
  <2>1. m.it = TagOf(c, x).it /\ m.stage = TagOf(c, x).stage /\ m.itr = TagOf(c, x).itr BY <1>3 DEF Letter
  <2>2. c.mesh \in 0 .. 5 BY PartsOf, ConfigIs
  <2> QED BY <1>7, <2>1, <2>2 DEF TagOf, AskAt
<1> QED BY <1>2, <1>7, <1>8

LEMMA Sitting ==
  ASSUME NEW c, DGInv(c), NEW i \in Chare, NEW d \in Config, Moves(c, d, i), SameAt(c.of[i], d.of[i]),
         Alone(i), Shape', Sits(c, d, i), GhostSays(d, i)', Maps(d, i)'
  PROVE  DGInv(d)'
<1> DEFINE p == c.of[i]
           q == d.of[i]
<1>1. /\ Held(c, i, p)
      /\ Kept(c, i) /\ Expects(c) /\ (finished => p.at = 24)
  BY PartsOf
<1>2. /\ q.at = p.at /\ q.diag = p.diag /\ q.ref = p.ref /\ q.vol = p.vol /\ SameRun(c, d)
      /\ Made(c, q) <=> Made(c, p)
  BY DEF SameAt, Made, Moves
<1>3. Fits(c, q) BY <1>1, <1>2 DEF Fits
<1>4. Expects(d)'
  <2>1. \A n : Due(p, n) => Due(q, n) BY <1>2 DEF Due
  <2>2. \A n \in msgs' \ msgs : \E x \in DGKind : n.type = CallOf[x] BY DEF Sits
  <2>3. q.at = p.at BY <1>2
  <2> QED BY <1>1, <2>1, <2>2, <2>3, ExpectsMoves
<1>5. finished' = finished BY DEF Alone
<1>6. Contribution(d, i)'
  <2>1. /\ WorkerPart(d, q) = WorkerPart(c, p) /\ DiscParts(d, q) = DiscParts(c, p)
    <3>1. WorkerPart(c, q) = WorkerPart(c, p) /\ DiscParts(c, q) = DiscParts(c, p) BY <1>2 DEF WorkerPart, DiscParts
    <3> QED BY <1>2, <3>1, SameFacts
  <2>2. Arrived(d, "vol", i)' = Arrived(c, "vol", i) /\ \A a \in {"worker", "disc", "refiner", "sync"} : contrib'[a][i] = contrib[a][i]
    BY Arrays DEF Sits, ArrayIs
  <2> QED BY <1>1, <1>2, <1>5, <2>1, <2>2 DEF Contribution
<1>7. Counters(d, i)' /\ Updated(d, i)' BY <1>1, <1>2, CountersKept, UpdatedKept DEF Sits
<1>8. Ghosts(d, i)'
  <2>1. /\ usol'[i] = usol[i] /\ ulim'[i] = ulim[i] /\ \A js : CellsOf(d, js) = CellsOf(c, js)
        /\ Arrived(d, "sol", i)' = Arrived(c, "sol", i) /\ Arrived(d, "lim", i)' = Arrived(c, "lim", i)
    BY <1>2, SameFacts DEF Sits
  <2> QED BY <1>1, <1>2, <2>1 DEF Ghosts
<1>9. Signalled(d, i)'
  <2>1. /\ \A x \in {"init", "sol", "lim"} : trigger'[i][own(x)] = trigger[i][own(x)] /\ trigger'[i][com(x)] = trigger[i][com(x)]
        /\ \A x \in {"diag", "ref", "resize"} : trigger'[i][done(x)] = trigger[i][done(x)]
    BY TriggersAre, TriggersDiffer DEF Sits
  <2>2. /\ \A x \in {"init", "sol", "lim"} : Arrived(d, x, i)' = Arrived(c, x, i)
        /\ Renews(d) = Renews(c)
    BY <1>2, SameFacts DEF Sits
  <2>3. GhostSays(d, i)' OBVIOUS
  <2> QED BY <1>1, <1>2, <2>1, <2>2, <2>3 DEF Signalled, GhostSays
<1>10. Local(d, i)' BY <1>6, <1>7, <1>8, <1>9 DEF Local
<1>11. \A x \in DGKind : Traded(d, x)' /\ \A j \in Chare \ {i} : Arrived(d, x, j)' = Arrived(c, x, j) BY DEF Sits
<1>12. finished => d.of[i].at = 24 BY <1>1, <1>2
<1> QED BY <1>3, <1>4, <1>10, <1>11, <1>12, Acted

\* The calls chare i sends while it asks for ghost data.
LEMMA AskTags ==
  ASSUME NEW c, c \in Config, NEW i \in Chare, AskAt(c, i), NEW x \in Faces, NEW s
  PROVE  ToAll(i, CallOf[x], s) = {Letter(c, x, i, j) : j \in s}
<1>1. c.mesh \in 0 .. 5 BY ConfigIs
<1>2. TagOf(c, x) = [it |-> it[i], stage |-> stage[i], itr |-> itr[i]] BY <1>1 DEF TagOf, AskAt
<1>3. ASSUME NEW j
      PROVE  Letter(c, x, i, j) = [type |-> CallOf[x], from |-> i, to |-> j, it |-> it[i], stage |-> stage[i], itr |-> itr[i]]
  BY <1>2 DEF Letter
<1> QED BY <1>3 DEF ToAll

\* Who waits for faces has not asked for ghosts, and is not complete.
LEMMA NotAsked ==
  ASSUME NEW c, DGInv(c), NEW i \in Chare, AskAt(c, i), Arrived(c, "fac", i) # Nbr[i]
  PROVE  ~ c.of[i].req /\ ~ c.of[i].sent /\ c.of[i].at \notin {2, 17} /\ Asking(c, c.of[i])
<1>1. Maps(c, i) /\ c \in Config BY PartsOf
<1>2. Arrived(c, "fac", i) \subseteq Nbr[i] BY DEF Arrived, From
<1>3. Nbr[i] # {} /\ ~ c.of[i].req /\ ~ c.of[i].sent BY <1>1, <1>2 DEF Maps
<1>4. c.of[i].at \notin {2, 17}
  <2>1. SUFFICES ASSUME c.of[i].at \in {2, 17} PROVE FALSE OBVIOUS
  <2>2. Arrived(c, "ghost", i) = Fac[i] /\ Fac[i] # {} BY <1>1, <1>3, <2>1 DEF Maps
  <2>3. PICK k : k \in Arrived(c, "ghost", i) BY <2>2
  <2>4. k \in Nbr[i] /\ c.of[k].sent BY <2>2, <2>3, NbrFacts, SentFacts DEF Arrived, Senders
  <2>5. c.of[i].req BY <2>4, SentFrom
  <2> QED BY <1>3, <2>5
<1>5. c.mesh \in 0 .. 5 BY <1>1, ConfigIs
<1>6. c.of[i].at \in 0 .. 1 \/ (c.of[i].ref = 3 /\ c.of[i].at \in 15 .. 16) BY <1>4, <1>5 DEF AskAt
<1> QED BY <1>3, <1>4, <1>6 DEF Asking

LEMMA HearsOne ==
  ASSUME NEW c, DGInv(c), NEW i \in Chare, NEW d, Moves(c, d, i), NEW x \in DGKind, NEW m, NEW s,
         Hears(c, d, i, m, x, s)
  PROVE  /\ Traded(d, x)' /\ \A j \in Chare \ {i} : Arrived(d, x, j)' = Arrived(c, x, j)
         /\ count[i][x] + 1 = Cardinality(From(x, i)) <=> Arrived(d, x, i)' = From(x, i)
         /\ count'[i][x] = 0 <=> Arrived(d, x, i)' = From(x, i)
         /\ Arrived(c, x, i) # From(x, i)
         /\ x # "vol" => /\ m.from \in From(x, i) /\ m.from \notin Arrived(c, x, i)
                         /\ Arrived(d, x, i)' = Arrived(c, x, i) \cup {m.from}
<1>1. Traded(c, x) /\ SameTags(c, d, x) BY SameFacts DEF DGInv, Moves
<1>2. m \in Letters(x) /\ Letters(x)' = Letters(x) \ {m} /\ i = m.to BY DEF Hears, Letters
<1>3. \A j \in Chare : SentAt(d, d.of[j], x) <=> SentAt(c, c.of[j], x) BY SameFacts DEF Moves, Hears
<1>4. \A j \in Chare : OverAt(d, d.of[j], x) => OverAt(c, c.of[j], x) BY SameFacts DEF Moves, Hears
<1>5. /\ count'[i][x] = IF count[i][x] + 1 = Cardinality(From(x, i)) THEN 0 ELSE count[i][x] + 1
      /\ \A j \in Chare \ {i} : count'[j][x] = count[j][x]
  BY DEF Hears
<1>6. /\ Traded(d, x)' /\ \A j \in Chare \ {i} : Arrived(d, x, j)' = Arrived(c, x, j)
      /\ count[i][x] + 1 = Cardinality(From(x, i)) <=> Arrived(d, x, i)' = From(x, i)
      /\ count'[i][x] = 0 <=> Arrived(d, x, i)' = From(x, i)
  BY <1>1, <1>2, <1>3, <1>4, <1>5, TakesOne
<1>7. PICK j \in From(x, i) : m = Letter(c, x, j, i) /\ j \notin Arrived(c, x, i) BY <1>1, <1>2, Sender
<1>8. Arrived(d, x, i)' = Arrived(c, x, i) \cup {j} BY <1>1, <1>2, <1>3, <1>7, Arriving
<1>9. x # "vol" => m.from = j BY <1>7 DEF Letter
<1> QED BY <1>6, <1>7, <1>8, <1>9

LEMMA CountsOne ==
  ASSUME NEW i \in Chare, NEW x \in DGKind, NEW n \in Nat, count \in [Chare -> [DGKind -> Nat]],
         count' = [count EXCEPT ![i][x] = n]
  PROVE  /\ count' \in [Chare -> [DGKind -> Nat]] /\ \A j \in Chare \ {i} : count'[j] = count[j]
         /\ count'[i][x] = n /\ \A y \in DGKind \ {x} : count'[i][y] = count[i][y]
  OBVIOUS

\* DG::comfac
LEMMA ComfacKeeps ==
  ASSUME NEW c, DGInv(c), NEW m \in msgs, NEW i, i = m.to, Comfac(i, m)
  PROVE  \E d \in Config : DGInv(d)'
<1> DEFINE p == c.of[i]
           last == count[i]["fac"] + 1 = Cardinality(Nbr[i])
           e == IF last THEN Triggers({own("ghost")}) ++ Calls(ToAll(i, "reqGhost", Nbr[i])) ELSE Nothing
           n == IF last THEN 0 ELSE count[i]["fac"] + 1
<1>b. PICK b \in BOOLEAN : b <=> last OBVIOUS
<1> DEFINE q == [p EXCEPT !.req = b]
           d == Put(c, i, q)
<1>1. /\ m.type = "comfac" /\ Take(i, m, e)
      /\ count' = [count EXCEPT ![i]["fac"] = n]
      /\ bndFace' = [bndFace EXCEPT ![i] = IF m.from \in Fac[i] THEN bndFace[i] \cup {m.from} ELSE bndFace[i]]
      /\ ghostData' = IF count'[i]["fac"] = 0 THEN [ghostData EXCEPT ![i] = bndFace'[i]] ELSE ghostData
      /\ UNCHANGED <<it, itr, finished, refined, ghost, stage, used, usol, ulim>>
  BY DEF Comfac, Is, Heard, stepVars, stageVars, cellVars, SetupGhost
<1>2. "fac" \in DGKind /\ m.type = CallOf["fac"] /\ From("fac", i) = Nbr[i] BY <1>1, CallTypes DEF From
<1>3. /\ i \in Chare /\ AskAt(c, i) /\ ~ OverAt(c, p, "fac") /\ Arrived(c, "fac", i) # Nbr[i]
  <2>1. \E j \in From("fac", i) : j \notin Arrived(c, "fac", i) BY <1>2, AskSender
  <2> QED BY <1>2, <2>1, AskSender
<1>4. /\ Shape /\ c \in Config /\ Maps(c, i) /\ Signalled(c, i) /\ p \in Point BY <1>3, PartsOf DEF Config
<1>5. ~ p.req /\ ~ p.sent /\ p.at \notin {2, 17} /\ Asking(c, p) BY <1>3, NotAsked
<1>p. p = c.of[i] OBVIOUS
<1>6. /\ q \in Point /\ SameAt(p, q) /\ (q.req <=> last) /\ q.sent = p.sent
      /\ d \in Config /\ Moves(c, d, i) /\ d.of[i] = q
  <2>1. q \in Point /\ SameAt(p, q) /\ (q.req <=> last) /\ q.sent = p.sent BY <1>4, <1>b DEF Point, SameAt
  <2> QED BY <1>3, <1>4, <2>1, PutIs
<1>7. /\ e.calls = (IF last THEN {Letter(c, "req", i, j) : j \in Nbr[i]} ELSE {})
      /\ e.triggers = (IF last THEN {own("ghost")} ELSE {}) /\ \A a : TargetsOn(a, e) = <<>>
  <2>1. ToAll(i, "reqGhost", Nbr[i]) = {Letter(c, "req", i, j) : j \in Nbr[i]} BY <1>3, <1>4, AskTags, CallTypes
  <2>2. CASE last
    <3> DEFINE s == ToAll(i, "reqGhost", Nbr[i])
    <3>1. e = Triggers({own("ghost")}) ++ Calls(s) BY <2>2
    <3> HIDE DEF s, e, last
    <3> QED BY <2>1, <2>2, <3>1, EffectFacts, ThenFacts, TargetFacts DEF s
  <2>3. CASE ~ last BY <2>3, EffectFacts
  <2> QED BY <2>2, <2>3
<1>8. n \in Nat BY <1>3, <1>4, <1>2 DEF Shape
<1>9. msgs' = (msgs \ {m}) \cup e.calls /\ Acts(i, {}, e) BY <1>1, <1>3, <1>4, Taking
<1>10. /\ count' \in [Chare -> [DGKind -> Nat]] /\ \A j \in Chare \ {i} : count'[j] = count[j]
       /\ count'[i]["fac"] = n /\ \A y \in DGKind \ {"fac"} : count'[i][y] = count[i][y]
  <2> HIDE DEF n
  <2> QED BY <1>1, <1>2, <1>3, <1>4, <1>8, CountsOne DEF Shape
<1>11. Shape' /\ Alone(i)
  <2>1. Shape'
    <3>1. bndFace' = [j \in Chare |-> bndFace'[j]] /\ ghostData' = [j \in Chare |-> ghostData'[j]]
      BY <1>1, <1>4 DEF Shape
    <3>2. /\ it' = it /\ itr' = itr /\ stage' = stage /\ finished' = finished /\ refined' = refined
          /\ ghost' = ghost /\ used' = used /\ usol' = usol /\ ulim' = ulim
      BY <1>1
    <3>3. Shape BY <1>4
    <3>4. /\ TriggerIs
          /\ ContribIs
          /\ count' \in [Chare -> [DGKind -> Nat]]
      BY <1>9, <1>10 DEF Acts
    <3> QED BY <3>1, <3>2, <3>3, <3>4 DEF Shape
  <2>2. Alone(i) BY <1>1, <1>4, <1>9, <1>10 DEF Alone, Acts, Shape
  <2> QED BY <2>1, <2>2
<1> HIDE DEF e, q, d, p
<1>12. \A k \in e.calls : k.type = CallOf["req"] BY <1>7, CallTypes, LetterFacts
<1>13. /\ Traded(d, "fac")' /\ \A j \in Chare \ {i} : Arrived(d, "fac", j)' = Arrived(c, "fac", j)
       /\ last <=> Arrived(d, "fac", i)' = Nbr[i]
       /\ m.from \in Nbr[i] /\ m.from \notin Arrived(c, "fac", i)
       /\ Arrived(d, "fac", i)' = Arrived(c, "fac", i) \cup {m.from}
       /\ count'[i]["fac"] = 0 <=> last
  <2>1. Hears(c, d, i, m, "fac", e.calls)
    <3>1. SentAt(c, q, "fac") <=> SentAt(c, p, "fac") BY <1>6, SentFacts DEF SameAt
    <3>2. OverAt(c, q, "fac") <=> OverAt(c, p, "fac") BY SentFacts
    <3>3. \A k \in e.calls : k.type # CallOf["fac"] BY <1>12, CallTypes
    <3>4. count'[i]["fac"] = n BY <1>10
    <3> QED BY <1>2, <1>6, <1>9, <1>10, <3>1, <3>2, <3>3 DEF Hears, p
  <2>2. i \in Chare /\ Moves(c, d, i) /\ "fac" \in DGKind BY <1>2, <1>3, <1>6
  <2>3. /\ Traded(d, "fac")' /\ \A j \in Chare \ {i} : Arrived(d, "fac", j)' = Arrived(c, "fac", j)
        /\ count[i]["fac"] + 1 = Cardinality(From("fac", i)) <=> Arrived(d, "fac", i)' = From("fac", i)
        /\ count'[i]["fac"] = 0 <=> Arrived(d, "fac", i)' = From("fac", i)
        /\ m.from \in From("fac", i) /\ m.from \notin Arrived(c, "fac", i)
        /\ Arrived(d, "fac", i)' = Arrived(c, "fac", i) \cup {m.from}
    BY <2>1, <2>2, HearsOne
  <2> QED BY <1>2, <2>3
<1> HIDE DEF n, last
<1>14. \A y \in DGKind \ {"fac"} : Keeps(c, d, y)
  <2>1. ASSUME NEW y \in DGKind \ {"fac"}, last => y # "req"
        PROVE  Keeps(c, d, y)
    <3>1. Letters(y)' = Letters(y)
      <4>1. CallOf[y] # CallOf["fac"] /\ (y # "req" => CallOf[y] # CallOf["req"]) BY <2>1, CallTypes
      <4>2. ~ last => e.calls = {} BY <1>7
      <4> QED BY <1>2, <1>9, <1>12, <2>1, <4>1, <4>2 DEF Letters
    <3>2. SentAt(c, q, y) <=> SentAt(c, p, y) BY <1>5, <1>6, <2>1, CallTypes, SentFacts DEF SameAt
    <3>3. OverAt(c, q, y) <=> OverAt(c, p, y) BY <1>6, <2>1, CallTypes, SentFacts DEF SameAt
    <3>4. \A j \in Chare : count'[j][y] = count[j][y] BY <1>10
    <3>5. /\ SentAt(c, d.of[i], y) <=> SentAt(c, c.of[i], y)
          /\ OverAt(c, d.of[i], y) => OverAt(c, c.of[i], y)
      BY <1>6, <1>p, <3>2, <3>3
    <3>6. i \in Chare /\ Moves(c, d, i) /\ y \in DGKind BY <1>3, <1>6
    <3> QED BY <3>1, <3>4, <3>5, <3>6, KindQuiet
  <2>2. ASSUME last PROVE Traded(d, "req")' /\ \A j \in Chare : Arrived(d, "req", j)' = Arrived(c, "req", j)
    <3>1. Letters("req")' = Letters("req") \cup {Letter(c, "req", i, j) : j \in From("req", i)}
      <4>1. e.calls = {Letter(c, "req", i, j) : j \in From("req", i)} BY <1>7, <2>2 DEF From
      <4>2. CallOf["req"] # CallOf["fac"] BY CallTypes
      <4> QED BY <1>2, <1>9, <1>12, <4>1, <4>2 DEF Letters
    <3>2. "req" \in DGKind /\ Traded(c, "req") /\ SameTags(c, d, "req")
      BY <1>6, CallTypes, PartsOf, SameFacts DEF Moves
    <3>3. ~ SentAt(c, p, "req") /\ SentAt(c, q, "req") BY <1>5, <1>6, <2>2, SentFacts
    <3>4. \A j \in Chare : /\ SentAt(d, d.of[j], "req") <=> j = i \/ SentAt(c, c.of[j], "req")
                           /\ OverAt(d, d.of[j], "req") => OverAt(c, c.of[j], "req")
      BY <1>6, <3>2, <3>3, SameFacts, SentFacts DEF Moves
    <3>5. \A j \in Chare : count'[j]["req"] = count[j]["req"] BY <1>10, <3>2
    <3>6. ~ SentAt(c, c.of[i], "req") /\ i \in Chare BY <1>3, <1>p, <3>3
    <3>7. \A j \in Chare : SentAt(d, d.of[j], "req") <=> j = i \/ SentAt(c, c.of[j], "req") BY <3>4
    <3>8. \A j \in Chare : OverAt(d, d.of[j], "req") => OverAt(c, c.of[j], "req") \/ Arrived(c, "req", j) = From("req", j)
      BY <3>4
    <3> QED BY <3>1, <3>2, <3>5, <3>6, <3>7, <3>8, SendsOff
  <2> QED BY <2>1, <2>2
<1>15. \A t \in Trigger : trigger'[i][t] = trigger[i][t] + (IF last /\ t = own("ghost") THEN 1 ELSE 0)
  BY <1>7, <1>9 DEF Acts
<1>16. Sits(c, d, i)
  <2>1. \A a \in Array : contrib'[a][i] = contrib[a][i]
    <3>1. Contribution(c, i) BY <1>3, PartsOf
    <3> QED BY <1>3, <1>7, <1>9, <3>1, ActsAdds
  <2>2. \A k \in msgs' \ msgs : \E y \in DGKind : k.type = CallOf[y] BY <1>9, <1>12, CallTypes
  <2>3. \A t \in Trigger : t # own("ghost") => trigger'[i][t] = trigger[i][t] BY <1>3, <1>4, <1>15 DEF Shape, Object
  <2>4. \A y \in {"vol", "init", "sol", "lim"} : Arrived(d, y, i)' = Arrived(c, y, i) BY <1>3, <1>14, CallTypes
  <2> QED BY <1>1, <1>13, <1>14, <2>1, <2>2, <2>3, <2>4 DEF Sits
<1>17. GhostSays(d, i)'
  <2>1. trigger'[i][own("ghost")] = trigger[i][own("ghost")] + (IF last THEN 1 ELSE 0) BY <1>15, TriggersAre
  <2>2. trigger'[i][com("ghost")] = trigger[i][com("ghost")] + 0 BY <1>15, TriggersAre, TriggersDiffer
  <2>3. trigger[i][own("ghost")] = 0 BY <1>4, <1>5 DEF Signalled, p
  <2>4. /\ trigger[i][com("ghost")] \in {0, 1}
        /\ trigger[i][com("ghost")] = 1 => Nbr[i] # {} /\ Arrived(c, "req", i) = Nbr[i] /\ ~ p.sent
    BY <1>4 DEF Signalled, p
  <2>5. Arrived(d, "req", i)' = Arrived(c, "req", i) BY <1>3, <1>14, CallTypes
  <2>6. d.of[i] = q /\ (q.req <=> last) /\ ~ q.sent /\ ~ p.sent BY <1>5, <1>6
  <2>7. trigger'[i][own("ghost")] \in {0, 1} /\ (trigger'[i][own("ghost")] = 1 => last) BY <2>1, <2>3
  <2>8. trigger'[i][com("ghost")] = trigger[i][com("ghost")] BY <2>2, <2>4
  <2> QED BY <2>4, <2>5, <2>6, <2>7, <2>8 DEF GhostSays
<1>18. Maps(d, i)'
  <2>1. /\ q.req <=> Nbr[i] # {} /\ Arrived(d, "fac", i)' = Nbr[i]
        /\ ~ q.sent
    BY <1>5, <1>6, <1>13
  <2>2. ~ OverAt(d, q, "fac") /\ q.at \notin {2, 17} /\ Nbr[i] # {} /\ Asking(d, q)
    <3>1. ~ OverAt(c, q, "fac") /\ Asking(c, q) BY <1>3, <1>5, <1>6, SentFacts DEF Asking, SameAt
    <3> QED BY <1>2, <1>5, <1>6, <1>13, <3>1, SameFacts DEF Moves, SameAt
  <2>3. bndFace[i] = Arrived(c, "fac", i) \cap Fac[i] /\ ghostData[i] = {} /\ DOMAIN ghost[i] = Arrived(c, "ghost", i)
    BY <1>3, <1>4, <1>5 DEF Maps, p
  <2>4. bndFace'[i] = Arrived(d, "fac", i)' \cap Fac[i] BY <1>1, <1>3, <1>4, <1>13, <2>3 DEF Shape
  <2>5. ghostData'[i] = IF Arrived(d, "fac", i)' = Nbr[i] THEN Fac[i] ELSE {}
    <3>1. CASE last
      <4>1. ghostData'[i] = bndFace'[i] BY <1>1, <1>3, <1>4, <1>13, <3>1 DEF Shape
      <4> QED BY <1>3, <1>13, <2>4, <3>1, <4>1, NbrFacts
    <3>2. CASE ~ last BY <1>1, <1>13, <2>3, <3>2
    <3> QED BY <3>1, <3>2
  <2>6. DOMAIN ghost'[i] = Arrived(d, "ghost", i)' BY <1>1, <1>3, <1>14, <2>3, CallTypes
  <2>7. d.of[i] = q BY <1>6
  <2> QED BY <2>1, <2>2, <2>4, <2>5, <2>6, <2>7 DEF Maps
<1>19. SameAt(c.of[i], d.of[i]) /\ Moves(c, d, i) /\ d \in Config /\ i \in Chare BY <1>3, <1>6, <1>p
<1> QED BY <1>11, <1>16, <1>17, <1>18, <1>19, Sitting

\* DG::reqGhost
LEMMA ReqGhostKeeps ==
  ASSUME NEW c, DGInv(c), NEW m \in msgs, NEW i, i = m.to, ReqGhost(i, m)
  PROVE  DGInv(c)'
<1> DEFINE last == count[i]["req"] + 1 = Cardinality(Nbr[i])
           e == IF last THEN Triggers({com("ghost")}) ELSE Nothing
           n == IF last THEN 0 ELSE count[i]["req"] + 1
<1>1. /\ m.type = "reqGhost" /\ Take(i, m, e)
      /\ count' = [count EXCEPT ![i]["req"] = n]
      /\ UNCHANGED <<it, itr, finished, refined, ghost, stage, used, usol, ulim, bndFace, ghostData>>
  BY DEF ReqGhost, Is, Heard, stepVars, stageVars, cellVars, meshVars, dgVars
<1>2. "req" \in DGKind /\ m.type = CallOf["req"] /\ From("req", i) = Nbr[i] BY <1>1, CallTypes DEF From
<1>3. i \in Chare BY <1>2, AskSender
<1>4. Shape /\ c \in Config /\ Maps(c, i) /\ Signalled(c, i) BY <1>3, PartsOf
<1>5. e.calls = {} /\ e.triggers = (IF last THEN {com("ghost")} ELSE {}) /\ \A a : TargetsOn(a, e) = <<>>
  BY EffectFacts
<1>6. n \in Nat BY <1>2, <1>3, <1>4 DEF Shape
<1> HIDE DEF e
<1>7. msgs' = (msgs \ {m}) \cup {} /\ Acts(i, {}, e) BY <1>1, <1>3, <1>4, <1>5, Taking
<1>8. /\ count' \in [Chare -> [DGKind -> Nat]] /\ \A j \in Chare \ {i} : count'[j] = count[j]
      /\ count'[i]["req"] = n /\ \A y \in DGKind \ {"req"} : count'[i][y] = count[i][y]
  <2> HIDE DEF n
  <2> QED BY <1>1, <1>2, <1>3, <1>4, <1>6, CountsOne DEF Shape
<1>9. Shape' /\ Alone(i)
  <2>1. Shape' BY <1>1, <1>4, <1>7, <1>8 DEF Shape, Acts
  <2>2. Alone(i) BY <1>1, <1>4, <1>7, <1>8 DEF Alone, Acts, Shape
  <2> QED BY <2>1, <2>2
<1>10. Moves(c, c, i) /\ SameAt(c.of[i], c.of[i]) BY <1>3, StaysThere DEF SameAt
<1>11. /\ Traded(c, "req")' /\ \A j \in Chare \ {i} : Arrived(c, "req", j)' = Arrived(c, "req", j)
       /\ last <=> Arrived(c, "req", i)' = Nbr[i]
       /\ Arrived(c, "req", i) # Nbr[i]
  <2>1. Hears(c, c, i, m, "req", {}) BY <1>2, <1>7, <1>8 DEF Hears
  <2>2. /\ Traded(c, "req")' /\ \A j \in Chare \ {i} : Arrived(c, "req", j)' = Arrived(c, "req", j)
        /\ count[i]["req"] + 1 = Cardinality(From("req", i)) <=> Arrived(c, "req", i)' = From("req", i)
        /\ Arrived(c, "req", i) # From("req", i)
    BY <1>2, <1>3, <1>10, <2>1, HearsOne
  <2> QED BY <1>2, <2>2
<1> HIDE DEF last, n
<1>12. \A y \in DGKind \ {"req"} : Traded(c, y)' /\ \A j \in Chare : Arrived(c, y, j)' = Arrived(c, y, j)
  <2>1. ASSUME NEW y \in DGKind \ {"req"} PROVE Traded(c, y)' /\ \A j \in Chare : Arrived(c, y, j)' = Arrived(c, y, j)
    <3>1. CallOf[y] # CallOf["req"] BY <2>1, CallTypes
    <3>2. Letters(y)' = Letters(y) BY <1>2, <1>7, <3>1 DEF Letters
    <3>3. \A j \in Chare : count'[j][y] = count[j][y] BY <1>8
    <3> QED BY <1>3, <1>10, <3>2, <3>3, KindQuiet
  <2> QED BY <2>1
<1>13. \A t \in Trigger : trigger'[i][t] = trigger[i][t] + (IF last /\ t = com("ghost") THEN 1 ELSE 0)
  BY <1>5, <1>7 DEF Acts
<1>14. Sits(c, c, i)
  <2>1. \A a \in Array : contrib'[a][i] = contrib[a][i]
    <3>1. Contribution(c, i) BY <1>3, PartsOf
    <3> QED BY <1>3, <1>5, <1>7, <3>1, ActsAdds
  <2>3. \A t \in Trigger : t # com("ghost") => trigger'[i][t] = trigger[i][t] BY <1>3, <1>4, <1>13 DEF Shape, Object
  <2>4. \A y \in {"vol", "init", "sol", "lim"} : Arrived(c, y, i)' = Arrived(c, y, i) BY <1>3, <1>12, CallTypes
  <2> QED BY <1>1, <1>7, <1>11, <1>12, <2>1, <2>3, <2>4 DEF Sits
<1>15. ~ c.of[i].sent BY <1>4, <1>11 DEF Maps
<1>16. Nbr[i] # {} BY <1>11 DEF Arrived, From
<1>17. GhostSays(c, i)'
  <2>1. trigger'[i][own("ghost")] = trigger[i][own("ghost")] + 0 BY <1>13, TriggersAre, TriggersDiffer
  <2>2. trigger'[i][com("ghost")] = trigger[i][com("ghost")] + (IF last THEN 1 ELSE 0) BY <1>13, TriggersAre
  <2>3. trigger[i][com("ghost")] = 0 BY <1>4, <1>11 DEF Signalled
  <2>4. /\ trigger[i][own("ghost")] \in {0, 1}
        /\ trigger[i][own("ghost")] = 1 => c.of[i].req
    BY <1>4 DEF Signalled
  <2> QED BY <1>11, <1>15, <1>16, <2>1, <2>2, <2>3, <2>4 DEF GhostSays
<1>18. Maps(c, i)'
  <2>1. Arrived(c, "fac", i)' = Arrived(c, "fac", i) /\ Arrived(c, "ghost", i)' = Arrived(c, "ghost", i)
    BY <1>3, <1>12, CallTypes
  <2> QED BY <1>1, <1>4, <1>15, <2>1 DEF Maps
<1> QED BY <1>3, <1>4, <1>9, <1>10, <1>14, <1>17, <1>18, Sitting

\* DG::sendGhost
LEMMA SendGhostKeeps ==
  ASSUME NEW c, DGInv(c), NEW i \in Chare, SendGhost(i)
  PROVE  \E d \in Config : DGInv(d)'
<1> DEFINE p == c.of[i]
           e == Calls(ToAll(i, "comGhost", ghostData[i]))
           ns == {own("ghost"), com("ghost")}
           q == [p EXCEPT !.sent = TRUE]
           d == Put(c, i, q)
<1>p. p = c.of[i] OBVIOUS
<1>1. Shape /\ c \in Config /\ Maps(c, i) /\ Signalled(c, i) /\ p \in Point BY PartsOf DEF Config
<1>2. UNCHANGED members BY DEF SendGhost, stepVars, nodeVars, dgVars, stageVars, meshVars, cellVars, members
<1>3. msgs' = msgs \cup e.calls /\ Acts(i, ns, e) /\ \A t \in ns : trigger[i][t] > 0
  <2>1. Run(i, "ghost", e) /\ "ghost" \in Wait /\ Needs["ghost"] = ns BY WaitsAre DEF SendGhost
  <2> HIDE DEF e, ns
  <2> QED BY <1>1, <2>1, Running
<1>4. p.req /\ ~ p.sent /\ Nbr[i] # {} /\ Arrived(c, "req", i) = Nbr[i] /\ Arrived(c, "fac", i) = Nbr[i]
  <2>1. trigger[i][own("ghost")] > 0 /\ trigger[i][com("ghost")] > 0 BY <1>3
  <2>2. p.req /\ ~ p.sent /\ Nbr[i] # {} /\ Arrived(c, "req", i) = Nbr[i] BY <1>1, <2>1 DEF Signalled
  <2> QED BY <1>1, <2>2 DEF Maps
<1>5. AskAt(c, i)
  <2>1. PICK k : k \in Nbr[i] BY <1>4
  <2>2. k \in Chare /\ SentAt(c, c.of[k], "fac") BY <1>4, <2>1, NbrFacts DEF Arrived, Senders
  <2>3. ~ OverAt(c, c.of[i], "fac") BY <1>1, <1>4 DEF Maps
  <2>4. ~ OverAt(c, c.of[k], "fac") BY <2>3, SentFacts
  <2> QED BY <2>2, <2>4, AskPlace
<1>6. e.calls = {Letter(c, "ghost", i, j) : j \in Fac[i]} /\ e.triggers = {} /\ \A a : TargetsOn(a, e) = <<>>
  <2>1. ghostData[i] = Fac[i] BY <1>1, <1>4 DEF Maps
  <2>2. ToAll(i, CallOf["ghost"], Fac[i]) = {Letter(c, "ghost", i, j) : j \in Fac[i]} BY <1>1, <1>5, AskTags
  <2> QED BY <2>1, <2>2, EffectFacts, CallTypes
<1>7. /\ q \in Point /\ SameAt(p, q) /\ q.req = p.req /\ q.sent = TRUE
      /\ d \in Config /\ Moves(c, d, i) /\ d.of[i] = q
  <2>1. q \in Point /\ SameAt(p, q) /\ q.req = p.req /\ q.sent = TRUE BY <1>1 DEF Point, SameAt
  <2> QED BY <1>1, <2>1, PutIs
<1> HIDE DEF e, q, d, p
<1>8. Shape' /\ Alone(i) BY <1>1, <1>2, <1>3, PlainActs
<1>9. \A k \in e.calls : k.type = CallOf["ghost"] BY <1>6, CallTypes, LetterFacts
<1>10. \A y \in DGKind : Keeps(c, d, y)
  <2>1. ASSUME NEW y \in DGKind \ {"ghost"}
        PROVE  Keeps(c, d, y)
    <3>1. Letters(y)' = Letters(y)
      <4>1. CallOf[y] # CallOf["ghost"] BY <2>1, CallTypes
      <4> QED BY <1>3, <1>9, <4>1 DEF Letters
    <3>2. SentAt(c, q, y) <=> SentAt(c, p, y) BY <1>7, <2>1, CallTypes, SentFacts DEF SameAt
    <3>3. OverAt(c, q, y) <=> OverAt(c, p, y) BY <1>7, <2>1, CallTypes, SentFacts DEF SameAt
    <3>4. \A j \in Chare : count'[j][y] = count[j][y] BY <1>2 DEF members
    <3>5. /\ SentAt(c, d.of[i], y) <=> SentAt(c, c.of[i], y)
          /\ OverAt(c, d.of[i], y) => OverAt(c, c.of[i], y)
      BY <1>7, <1>p, <3>2, <3>3
    <3>6. Moves(c, d, i) /\ y \in DGKind BY <1>7
    <3> QED BY <3>1, <3>4, <3>5, <3>6, KindQuiet
  <2>2. Traded(d, "ghost")' /\ \A j \in Chare : Arrived(d, "ghost", j)' = Arrived(c, "ghost", j)
    <3>1. Letters("ghost")' = Letters("ghost") \cup {Letter(c, "ghost", i, j) : j \in From("ghost", i)}
      <4>1. e.calls = {Letter(c, "ghost", i, j) : j \in From("ghost", i)} BY <1>6 DEF From
      <4> QED BY <1>3, <1>9, <4>1 DEF Letters
    <3>2. "ghost" \in DGKind /\ Traded(c, "ghost") /\ SameTags(c, d, "ghost")
      BY <1>7, CallTypes, PartsOf, SameFacts DEF Moves
    <3>3. ~ SentAt(c, p, "ghost") /\ SentAt(c, q, "ghost") BY <1>4, <1>7, SentFacts
    <3>4. \A j \in Chare : /\ SentAt(d, d.of[j], "ghost") <=> j = i \/ SentAt(c, c.of[j], "ghost")
                           /\ OverAt(d, d.of[j], "ghost") => OverAt(c, c.of[j], "ghost")
      BY <1>7, <3>2, <3>3, SameFacts, SentFacts DEF Moves
    <3>5. \A j \in Chare : count'[j]["ghost"] = count[j]["ghost"] BY <1>2 DEF members
    <3>6. ~ SentAt(c, c.of[i], "ghost") BY <1>p, <3>3
    <3>7. \A j \in Chare : SentAt(d, d.of[j], "ghost") <=> j = i \/ SentAt(c, c.of[j], "ghost") BY <3>4
    <3>8. \A j \in Chare : OverAt(d, d.of[j], "ghost") => OverAt(c, c.of[j], "ghost") \/ Arrived(c, "ghost", j) = From("ghost", j)
      BY <3>4
    <3> QED BY <3>1, <3>2, <3>5, <3>6, <3>7, <3>8, SendsOff
  <2> QED BY <2>1, <2>2
<1>11. \A t \in Trigger : trigger'[i][t] = (IF t \in ns THEN trigger[i][t] - 1 ELSE trigger[i][t]) + 0
  BY <1>3, <1>6 DEF Acts
<1>12. Sits(c, d, i)
  <2>1. \A a \in Array : contrib'[a][i] = contrib[a][i]
    <3>1. Contribution(c, i) BY PartsOf
    <3> QED BY <1>3, <1>6, <3>1, ActsAdds
  <2>2. \A k \in msgs' \ msgs : \E y \in DGKind : k.type = CallOf[y] BY <1>3, <1>9, CallTypes
  <2>3. \A t \in Trigger : t # own("ghost") /\ t # com("ghost") => trigger'[i][t] = trigger[i][t]
    BY <1>1, <1>11 DEF Shape, Object
  <2>4. \A y \in {"vol", "init", "sol", "lim"} : Arrived(d, y, i)' = Arrived(c, y, i) BY <1>10, CallTypes
  <2> QED BY <1>2, <1>10, <2>1, <2>2, <2>3, <2>4 DEF Sits, members
<1>13. GhostSays(d, i)'
  <2>1. trigger'[i][own("ghost")] = trigger[i][own("ghost")] - 1 + 0 /\ trigger'[i][com("ghost")] = trigger[i][com("ghost")] - 1 + 0
    BY <1>11, TriggersAre
  <2>2. trigger[i][own("ghost")] > 0 /\ trigger[i][com("ghost")] > 0 BY <1>3
  <2>3. trigger[i][own("ghost")] \in {0, 1} /\ trigger[i][com("ghost")] \in {0, 1} BY <1>1 DEF Signalled
  <2>4. trigger'[i][own("ghost")] = 0 /\ trigger'[i][com("ghost")] = 0 BY <2>1, <2>2, <2>3
  <2> QED BY <2>4 DEF GhostSays
<1>14. Maps(d, i)'
  <2>1. /\ Arrived(d, "fac", i)' = Arrived(c, "fac", i) /\ Arrived(d, "ghost", i)' = Arrived(c, "ghost", i)
        /\ Arrived(d, "req", i)' = Nbr[i]
    BY <1>4, <1>10, CallTypes
  <2>2. d.of[i] = q /\ q.sent /\ (Asking(d, q) <=> Asking(c, p)) BY <1>7, SameFacts DEF Moves, SameAt, Asking
  <2>3. bndFace' = bndFace /\ ghostData' = ghostData /\ ghost' = ghost BY <1>2 DEF members
  <2>4. q.at = p.at /\ q.req = p.req BY <1>7 DEF SameAt
  <2> QED BY <1>1, <1>4, <1>p, <2>1, <2>2, <2>3, <2>4 DEF Maps
<1>15. SameAt(c.of[i], d.of[i]) /\ Moves(c, d, i) /\ d \in Config BY <1>7, <1>p
<1> QED BY <1>8, <1>12, <1>13, <1>14, <1>15, Sitting

LEMMA Coming ==
  ASSUME NEW c, DGInv(c), NEW m \in msgs, NEW i, i = m.to, m.type = "comGhost"
  PROVE  GhostCame(c, i, m)
<1>1. "ghost" \in DGKind /\ m.type = CallOf["ghost"] /\ From("ghost", i) = Fac[i] BY CallTypes DEF From
<1>2. i \in Chare /\ AskAt(c, i) BY <1>1, AskSender
<1>3. PICK j \in Fac[i] : SentAt(c, c.of[j], "ghost") /\ j \notin Arrived(c, "ghost", i) /\ m = Letter(c, "ghost", j, i)
  <2>1. \E j \in From("ghost", i) : SentAt(c, c.of[j], "ghost") /\ j \notin Arrived(c, "ghost", i) /\ m = Letter(c, "ghost", j, i)
    BY <1>1, AskSender
  <2> QED BY <1>1, <2>1
<1>4. m.from = j BY <1>3 DEF Letter
<1>5. j \in Nbr[i] /\ c.of[j].sent BY <1>2, <1>3, NbrFacts, SentFacts
<1>6. c.of[i].req /\ SentAt(c, c.of[i], "fac") BY <1>2, <1>5, SentFrom, AskedFrom
<1>7. Maps(c, i) /\ c \in Config BY <1>2, PartsOf
<1>8. Arrived(c, "fac", i) = Nbr[i] /\ Fac[i] # {} BY <1>3, <1>6, <1>7 DEF Maps
<1>9. c.of[i].at \notin {2, 17} BY <1>3, <1>7 DEF Maps
<1>10. c.of[i].at \in {1, 16} /\ Asking(c, c.of[i])
  <2>1. c.mesh \in 0 .. 5 BY <1>7, ConfigIs
  <2>2. c.mesh = 0 => c.of[i].at \in 0 .. 2 /\ c.of[i].at >= 1 BY <1>2, <1>6, SentFacts DEF AskAt
  <2>3. c.mesh # 0 => c.of[i].at \in 15 .. 17 /\ c.of[i].at >= 16 /\ c.of[i].ref = 3
    BY <1>2, <1>6, SentFacts DEF AskAt
  <2> QED BY <1>9, <2>1, <2>2, <2>3 DEF Asking
<1>11. ghostData[i] = Fac[i] /\ bndFace[i] = Fac[i] /\ DOMAIN ghost[i] = Arrived(c, "ghost", i)
  <2>1. Nbr[i] \cap Fac[i] = Fac[i] BY <1>2, NbrFacts
  <2>2. Maps(c, i) /\ Asking(c, c.of[i]) /\ Arrived(c, "fac", i) = Nbr[i] BY <1>7, <1>8, <1>10
  <2> QED BY <2>1, <2>2 DEF Maps
<1> QED BY <1>2, <1>3, <1>4, <1>6, <1>8, <1>10, <1>11 DEF GhostCame

\* DG::comGhost
LEMMA ComGhostKeeps ==
  ASSUME NEW c, DGInv(c), NEW m \in msgs, NEW i, i = m.to, ComGhost(i, m)
  PROVE  \E d \in Config : DGInv(d)'
<1> DEFINE p == c.of[i]
           last == count[i]["ghost"] + 1 = Cardinality(Fac[i])
           e == IF last THEN Complete ELSE Nothing
           n == IF last THEN 0 ELSE count[i]["ghost"] + 1
<1>p. p = c.of[i] OBVIOUS
<1>1. GhostCame(c, i, m) /\ m.type = "comGhost" BY Coming DEF ComGhost, Is
<1>2. /\ i \in Chare /\ AskAt(c, i) /\ m.from \in Fac[i] /\ m.from \notin Arrived(c, "ghost", i)
      /\ p.req /\ Arrived(c, "fac", i) = Nbr[i] /\ p.at \in {1, 16} /\ Asking(c, p)
      /\ ghostData[i] = Fac[i] /\ bndFace[i] = Fac[i] /\ DOMAIN ghost[i] = Arrived(c, "ghost", i)
  BY <1>1 DEF GhostCame
<1>3. /\ Held(c, i, p)
      /\ Kept(c, i) /\ Expects(c) /\ ~ finished
  BY <1>2, PartsOf
<1>4. "ghost" \in DGKind /\ m.type = CallOf["ghost"] /\ From("ghost", i) = Fac[i] BY <1>1, CallTypes DEF From
<1>5. /\ Take(i, m, e) /\ count' = [count EXCEPT ![i]["ghost"] = n]
      /\ ghost' = [ghost EXCEPT ![i] = GhostOf(ghost[i], m.from, NCell[i][itr[i]] + Cardinality(DOMAIN ghost[i]))]
      /\ bndFace' = IF count'[i]["ghost"] = 0 THEN [bndFace EXCEPT ![i] = {}] ELSE bndFace
      /\ UNCHANGED <<it, itr, finished, refined, ghostData, stage, used, usol, ulim>>
  BY <1>2 DEF ComGhost, Heard, stepVars, stageVars, cellVars, Adj
<1>6. n \in Nat BY <1>2, <1>3, <1>4 DEF Shape
<1>7. /\ count' \in [Chare -> [DGKind -> Nat]] /\ \A j \in Chare \ {i} : count'[j] = count[j]
      /\ count'[i]["ghost"] = n /\ \A y \in DGKind \ {"ghost"} : count'[i][y] = count[i][y]
  <2> HIDE DEF n
  <2> QED BY <1>2, <1>3, <1>4, <1>5, <1>6, CountsOne DEF Shape
<1>8. /\ e.calls = {} /\ e.triggers = {} /\ \A a \in Array \ {"worker"} : TargetsOn(a, e) = <<>>
      /\ TargetsOn("worker", e) = IF last THEN <<"comfinal">> ELSE <<>>
  BY EffectFacts DEF Complete
<1> HIDE DEF e
<1>9. msgs' = (msgs \ {m}) \cup {} /\ Acts(i, {}, e) BY <1>2, <1>3, <1>5, <1>8, Taking
<1>10. DOMAIN ghost'[i] = Arrived(c, "ghost", i) \cup {m.from}
  <2>1. ghost'[i] = GhostOf(ghost[i], m.from, NCell[i][itr[i]] + Cardinality(DOMAIN ghost[i]))
    BY <1>2, <1>3, <1>5 DEF Shape
  <2> QED BY <1>2, <2>1 DEF GhostOf
<1>11. Shape' /\ Alone(i)
  <2>1. /\ bndFace' = [j \in Chare |-> bndFace'[j]] /\ ghost' = [j \in Chare |-> ghost'[j]]
        /\ \A j \in Chare \ {i} : bndFace'[j] = bndFace[j] /\ ghost'[j] = ghost[j]
    BY <1>3, <1>5 DEF Shape
  <2>2. /\ it' = it /\ itr' = itr /\ stage' = stage /\ finished' = finished /\ refined' = refined
        /\ ghostData' = ghostData /\ used' = used /\ usol' = usol /\ ulim' = ulim
    BY <1>5
  <2>3. Shape BY <1>3
  <2>4. /\ TriggerIs
        /\ ContribIs
        /\ count' \in [Chare -> [DGKind -> Nat]]
    BY <1>7, <1>9 DEF Acts
  <2>5. Shape' BY <2>1, <2>2, <2>3, <2>4 DEF Shape
  <2>6. Alone(i) BY <1>7, <1>9, <2>1, <2>2 DEF Alone, Acts
  <2> QED BY <2>5, <2>6
<1>12. /\ trigger'[i] = trigger[i] /\ \A a \in Array \ {"worker"} : contrib'[a][i] = contrib[a][i]
       /\ contrib'["worker"][i] = contrib["worker"][i] \o (IF last THEN <<"comfinal">> ELSE <<>>)
       /\ ~ last => \A a \in Array : contrib'[a][i] = contrib[a][i]
  <2>1. trigger'[i] = trigger[i] BY <1>2, <1>3, <1>8, <1>9, ActsSilent
  <2>2. \A a \in Array \ {"worker"} : contrib'[a][i] = contrib[a][i] BY <1>2, <1>3, <1>8, <1>9, ActsAdds
  <2>3. contrib'["worker"][i] = contrib["worker"][i] \o (IF last THEN <<"comfinal">> ELSE <<>>)
    BY <1>8, <1>9, Arrays DEF Acts, ArrayIs
  <2>4. ~ last => \A a \in Array : contrib'[a][i] = contrib[a][i] BY <1>2, <1>3, <1>8, <1>9, ActsAdds
  <2> QED BY <2>1, <2>2, <2>3, <2>4
<1>a. PICK b \in {1, 2, 16, 17} : b = IF last THEN p.at + 1 ELSE p.at BY <1>2
<1> DEFINE q == At(p, b)
           d == Put(c, i, q)
<1>13. /\ p \in Point /\ q.at = b /\ SamePoint(p, q)
       /\ d \in Config /\ Moves(c, d, i) /\ d.of[i] = q /\ SameRun(c, d)
  <2>1. b \in 0 .. 24 OBVIOUS
  <2> QED BY <1>2, <2>1, Onset
<1> HIDE DEF q, d, p
<1>14. \A y \in DGKind : (SentAt(c, q, y) <=> SentAt(c, p, y)) /\ (OverAt(c, q, y) <=> OverAt(c, p, y))
  <2>1. c.phase \notin 2 .. 3 /\ c.mesh \in 0 .. 5
    <3>1. c.mesh \in 0 .. 5 BY <1>3, ConfigIs
    <3> QED BY <1>2, <1>p, <3>1 DEF AskAt
  <2>2. c.mesh = 0 => p.at = 1 /\ q.at \in 1 .. 2 BY <1>2, <1>13, <1>a, <1>p DEF AskAt
  <2>3. c.mesh # 0 => p.at = 16 /\ q.at \in 16 .. 17 BY <1>2, <1>13, <1>a, <1>p, <2>1 DEF AskAt
  <2>4. q.vol = p.vol /\ q.req = p.req /\ q.sent = p.sent BY <1>13 DEF SamePoint
  <2> QED BY <2>1, <2>2, <2>3, <2>4, CallTypes, SentFacts
<1>15. /\ Traded(d, "ghost")' /\ \A j \in Chare \ {i} : Arrived(d, "ghost", j)' = Arrived(c, "ghost", j)
       /\ last <=> Arrived(d, "ghost", i)' = Fac[i]
       /\ Arrived(d, "ghost", i)' = Arrived(c, "ghost", i) \cup {m.from}
       /\ count'[i]["ghost"] = 0 <=> last
  <2>1. Hears(c, d, i, m, "ghost", {}) BY <1>4, <1>7, <1>9, <1>13, <1>14, <1>p DEF Hears
  <2>2. i \in Chare /\ Moves(c, d, i) /\ "ghost" \in DGKind BY <1>2, <1>4, <1>13
  <2>3. /\ Traded(d, "ghost")' /\ \A j \in Chare \ {i} : Arrived(d, "ghost", j)' = Arrived(c, "ghost", j)
        /\ count[i]["ghost"] + 1 = Cardinality(From("ghost", i)) <=> Arrived(d, "ghost", i)' = From("ghost", i)
        /\ count'[i]["ghost"] = 0 <=> Arrived(d, "ghost", i)' = From("ghost", i)
        /\ Arrived(d, "ghost", i)' = Arrived(c, "ghost", i) \cup {m.from}
    BY <2>1, <2>2, HearsOne
  <2> QED BY <1>4, <2>3
<1> HIDE DEF n, last
<1>16. \A y \in DGKind \ {"ghost"} : Keeps(c, d, y)
  <2>1. ASSUME NEW y \in DGKind \ {"ghost"}
        PROVE  Keeps(c, d, y)
    <3>1. Letters(y)' = Letters(y)
      <4>1. CallOf[y] # CallOf["ghost"] BY <2>1, CallTypes
      <4> QED BY <1>4, <1>9, <4>1 DEF Letters
    <3>2. \A j \in Chare : count'[j][y] = count[j][y] BY <1>7
    <3>3. /\ SentAt(c, d.of[i], y) <=> SentAt(c, c.of[i], y)
          /\ OverAt(c, d.of[i], y) => OverAt(c, c.of[i], y)
      BY <1>13, <1>14, <1>p
    <3>4. i \in Chare /\ Moves(c, d, i) /\ y \in DGKind BY <1>2, <1>13
    <3> QED BY <3>1, <3>2, <3>3, <3>4, KindQuiet
  <2> QED BY <2>1
<1>17. \A y \in {"vol", "fac", "req", "init", "sol", "lim"} : Arrived(d, y, i)' = Arrived(c, y, i)
  BY <1>2, <1>16, CallTypes
<1>18. Asking(d, q) <=> ~ last
  <2>1. q.ref = p.ref /\ (c.mesh = 0 => p.ref = 0) /\ c.mesh \in 0 .. 5
    BY <1>2, <1>3, <1>13, <1>p, ConfigIs DEF SamePoint, AskAt
  <2>2. (p.at = 1 <=> c.mesh = 0) /\ (p.at = 16 => p.ref = 3) BY <1>2, <1>p, <2>1 DEF AskAt
  <2> QED BY <1>2, <1>13, <1>a, <2>1, <2>2 DEF Asking
<1>19. Maps(d, i)'
  <2>1. /\ q.req = p.req /\ q.sent = p.sent /\ d.of[i] = q
        /\ OverAt(d, q, "fac") <=> OverAt(c, p, "fac")
    BY <1>13, <1>14, SameFacts, CallTypes DEF SamePoint
  <2>2. Arrived(d, "fac", i)' = Arrived(c, "fac", i) /\ Arrived(d, "req", i)' = Arrived(c, "req", i) BY <1>17
  <2>3. q.at \in {2, 17} => last BY <1>2, <1>13, <1>a
  <2>4. Nbr[i] # {} /\ Fac[i] # {} /\ Nbr[i] \cap Fac[i] = Fac[i] BY <1>2, NbrFacts
  <2>5. bndFace'[i] = IF last THEN {} ELSE Fac[i] BY <1>2, <1>3, <1>5, <1>15 DEF Shape
  <2>6. ghostData'[i] = Fac[i] /\ DOMAIN ghost'[i] = Arrived(d, "ghost", i)' BY <1>2, <1>5, <1>10, <1>15
  <2> QED BY <1>2, <1>3, <1>15, <1>18, <1>p, <2>1, <2>2, <2>3, <2>4, <2>5, <2>6 DEF Maps
<1>20. CASE ~ last
  <2>1. q.at = p.at BY <1>13, <1>20, <1>a
  <2>2. SameAt(c.of[i], d.of[i]) BY <1>13, <1>p, <2>1 DEF SameAt, SamePoint
  <2>3. Sits(c, d, i)
    <3>1. \A k \in msgs' \ msgs : \E y \in DGKind : k.type = CallOf[y] BY <1>9
    <3>2. \A t \in Trigger : trigger'[i][t] = trigger[i][t] BY <1>12
    <3> QED BY <1>5, <1>12, <1>15, <1>16, <1>17, <1>20, <3>1, <3>2 DEF Sits
  <2>4. GhostSays(d, i)'
    <3>1. GhostSays(c, i) BY <1>3 DEF Signalled, GhostSays
    <3>2. d.of[i] = q /\ q.req = c.of[i].req /\ q.sent = c.of[i].sent BY <1>13, <1>p DEF SamePoint
    <3> QED BY <1>12, <1>17, <3>1, <3>2 DEF GhostSays
  <2> QED BY <1>2, <1>11, <1>13, <1>19, <2>2, <2>3, <2>4, Sitting
<1>21. CASE last
  <2>1. /\ q.at = p.at + 1 /\ c.mesh \in 0 .. 5 /\ (p.at = 1 <=> c.mesh = 0) /\ (p.ref # 3 \/ c.work)
        /\ (c.mesh = 0 => c.phase = 0) /\ (c.mesh # 0 => c.mesh = 4 /\ c.phase = 4 /\ c.st = 2)
    <3>1. q.at = p.at + 1 /\ c.mesh \in 0 .. 5 BY <1>3, <1>13, <1>21, <1>a, ConfigIs
    <3> QED BY <1>2, <1>p, <3>1 DEF AskAt
  <2>2. Made(c, q) <=> Made(c, p) BY <1>2, <2>1 DEF Made
  <2>3. Fits(c, q) BY <1>2, <1>3, <1>13, <2>1, <2>2 DEF Fits, SamePoint
  <2>4. Expects(d)'
    <3>1. ASSUME NEW k \in msgs', k.to = i, k = [type |-> k.type, to |-> i], Due(p, k) PROVE Due(q, k)
      <4>1. k.type # AtCall(p.at) BY <1>2, <3>1 DEF Due, AtCall
      <4> QED BY <1>13, <3>1, <4>1, DueMoves DEF SamePoint
    <3>2. \A k \in msgs' : k.type # "write" \/ k.to # i BY <1>2, <1>9, <1>p, WriteCall
    <3>3. msgs' \subseteq msgs BY <1>9
    <3> QED BY <1>2, <1>3, <1>13, <1>p, <3>1, <3>2, <3>3, ExpectsMoves
  <2>5. Contribution(d, i)'
    <3>1. WorkerPart(c, p) = <<>> /\ WorkerPart(c, q) = <<"comfinal">> BY <1>2, <1>13, <2>1, WorkerParts DEF SamePoint
    <3>2. contrib["worker"][i] = <<>> BY <1>3, <1>p, <3>1 DEF Contribution
    <3>3. contrib'["worker"][i] = <<"comfinal">> BY <1>12, <1>21, <3>2, TargetFacts
    <3>4. \A a \in {"disc", "refiner", "sync"} : contrib'[a][i] = contrib[a][i] BY <1>12, Arrays DEF ArrayIs
    <3>5. q.at \notin {21, 22} /\ p.at \notin {21, 22} BY <1>2, <2>1
    <3> QED BY <1>2, <1>3, <1>5, <1>13, <1>17, <1>p, <3>1, <3>3, <3>4, <3>5, ContributionKept DEF SamePoint
  <2>6. Counters(d, i)' /\ Updated(d, i)'
    BY <1>2, <1>3, <1>5, <1>13, <1>p, <2>1, <2>2, CountersKept, UpdatedKept DEF SamePoint
  <2>7. Ghosts(d, i)' BY <1>2, <1>3, <1>5, <1>13, <1>17, <1>p, <2>1, GhostsKept
  <2>8. Signalled(d, i)'
    <3>1. p.at \notin {5, 6, 10, 11, 12, 15} /\ q.req = p.req /\ q.sent = p.sent BY <1>2, <1>13 DEF SamePoint
    <3>2. \A y \in {"init", "sol", "lim", "req"} : Arrived(d, y, i)' = Arrived(c, y, i) BY <1>17
    <3>3. SameRun(c, d) /\ i \in Chare /\ q = d.of[i] /\ Signalled(c, i) /\ trigger'[i] = trigger[i]
      BY <1>2, <1>3, <1>12, <1>13
    <3> QED BY <1>p, <3>1, <3>2, <3>3, SignalsKept
  <2>9. Local(d, i)' BY <1>19, <2>5, <2>6, <2>7, <2>8 DEF Local
  <2>10. \A y \in DGKind : Traded(d, y)' /\ \A j \in Chare \ {i} : Arrived(d, y, j)' = Arrived(c, y, j)
    BY <1>15, <1>16
  <2> QED BY <1>2, <1>3, <1>11, <1>13, <2>3, <2>4, <2>9, <2>10, Acted
<1> QED BY <1>13, <1>20, <1>21

LEMMA SignalsSpent ==
  ASSUME NEW c, NEW d, NEW i \in Chare, NEW p, p = c.of[i], NEW q, q = d.of[i], Signalled(c, i), p.at = 15,
         SpendsStep(i), Arrived(d, "req", i)' = Arrived(c, "req", i), q.req = p.req, q.sent = p.sent
  PROVE  Signalled(d, i)'
<1>1. \A x \in {"init", "sol", "lim"} : trigger[i][own(x)] = 0 /\ trigger[i][com(x)] = 0 BY DEF Signalled
<1>2. \A x \in {"init", "sol", "lim"} : trigger'[i][own(x)] = 0 /\ trigger'[i][com(x)] = 0
  BY <1>1, TriggersAre, TriggersDiffer DEF SpendsStep
<1>3. \A x \in {"diag", "ref", "resize"} : trigger[i][done(x)] \in {0, 1} BY DEF Signalled
<1>4. \A x \in {"diag", "ref", "resize"} : trigger[i][done(x)] > 0 /\ trigger'[i][done(x)] = trigger[i][done(x)] - 1 + 0
  BY TriggersAre DEF SpendsStep
<1>5. \A x \in {"diag", "ref", "resize"} : trigger'[i][done(x)] = 0 BY <1>3, <1>4
<1>6. trigger'[i][own("ghost")] = trigger[i][own("ghost")] + 0 /\ trigger'[i][com("ghost")] = trigger[i][com("ghost")] + 0
  BY TriggersAre, TriggersDiffer DEF SpendsStep
<1> QED BY <1>2, <1>5, <1>6 DEF Signalled

\* A chare that ends a step is at point 15, and has a new mesh if there is one.
LEMMA StepEnds ==
  ASSUME NEW c, DGInv(c), NEW i \in Chare, \A x \in {"diag", "ref", "resize"} : trigger[i][done(x)] > 0
  PROVE  /\ c.of[i].at = 15 /\ c.of[i].diag = 3 /\ c.phase = 4 /\ c.st = 2 /\ Made(c, c.of[i])
         /\ Renews(c) => c.of[i].ref = 3 /\ c.of[i].vol = 6 /\ c.mesh = 4 /\ c.work /\ c.disc
         /\ ~ Renews(c) => c.of[i].ref = 0 /\ c.of[i].vol = 0 /\ c.mesh = 0
         /\ it[i] = Now(c) /\ stage[i] = 2 /\ refined[i] = Renews(c) /\ ~ finished
<1> DEFINE p == c.of[i]
<1>p. p = c.of[i] OBVIOUS
<1>1. /\ c \in Config /\ Fits(c, p) /\ Counters(c, i) /\ Signalled(c, i) /\ Together(c) /\ (finished => p.at = 24)
  BY PartsOf
<1>2. p.at = 15 /\ p.diag = 3 /\ (Renews(c) => p.ref = 3 /\ p.vol = 6) BY <1>1 DEF Signalled
<1> HIDE DEF p
<1>3. c.phase = 4 /\ c.st = 2 /\ Made(c, p) BY <1>1, <1>2, ConfigIs DEF Fits, Made
<1>4. c.mesh \in 0 .. 5 BY <1>1, ConfigIs
<1>5. ASSUME Renews(c) PROVE c.mesh = 4 /\ c.work /\ c.disc
  <2>1. c.mesh # 5 BY <1>1, <1>2, <1>3, <1>5 DEF Fits
  <2>2. p.vol \in Vols(c)
    BY <1>1 DEF Fits
  <2>3. c.mesh >= 4 BY <1>2, <1>4, <1>5, <2>2
  <2> QED BY <1>1, <1>4, <2>1, <2>3 DEF Together
<1>6. ASSUME ~ Renews(c) PROVE p.ref = 0 /\ p.vol = 0 /\ c.mesh = 0
  <2>1. c.mesh = 0 BY <1>1, <1>4, <1>6 DEF Together
  <2> QED BY <1>1, <1>6, <2>1 DEF Fits
<1>7. it[i] = Now(c) /\ stage[i] = 2 /\ refined[i] = Renews(c) BY <1>1, <1>2, <1>3, <1>p DEF Counters
<1> QED BY <1>1, <1>2, <1>3, <1>5, <1>6, <1>7, <1>p

LEMMA AsksKeeps ==
  ASSUME NEW c, DGInv(c), NEW i \in Chare, NEW M \in SUBSET msgs, NEW ns, Asks(c, i, M, ns)
  PROVE  \E d \in Config : DGInv(d)'
<1> DEFINE p == c.of[i]
           e == AsksForFaces(i)
           b == IF Nbr[i] = {} THEN p.at + 2 ELSE p.at + 1
           q == At(p, b)
           d == Put(c, i, q)
<1>p. p = c.of[i] OBVIOUS
<1>0. /\ \/ p.at = 0 /\ ns = {} /\ (\A m \in M : m = [type |-> "create", to |-> i]) /\ [type |-> "create", to |-> i] \in M
         \/ /\ p.at = 15 /\ M = {} /\ ns = {done("diag"), done("ref"), done("resize")}
            /\ (\A t \in ns : trigger[i][t] > 0) /\ Renews(c)
      /\ msgs' = (msgs \ M) \cup e.calls /\ Acts(i, ns, e) /\ ResizeComm(i)
      /\ UNCHANGED <<it, itr, finished, refined, count, stage, used, usol, ulim>>
  BY DEF Asks
<1>1. /\ Held(c, i, p)
      /\ Kept(c, i) /\ Expects(c) /\ ~ finished /\ Together(c)
  BY <1>0, PartsOf
<1>2. /\ p \in Point /\ q.at = b /\ SamePoint(p, q)
      /\ d \in Config /\ Moves(c, d, i) /\ d.of[i] = q /\ SameRun(c, d)
  <2>1. b \in 0 .. 24 BY <1>0
  <2>2. \A a \in 0 .. 24 : /\ c.of[i] \in Point /\ At(c.of[i], a).at = a /\ SamePoint(c.of[i], At(c.of[i], a))
    BY Placed
  <2>3. \A a \in 0 .. 24 : Put(c, i, At(c.of[i], a)) \in Config /\ Moves(c, Put(c, i, At(c.of[i], a)), i) BY Placed
  <2>4. \A a \in 0 .. 24 : Put(c, i, At(c.of[i], a)).of[i] = At(c.of[i], a) /\ SameRun(c, Put(c, i, At(c.of[i], a)))
    BY Placed
  <2> HIDE DEF b
  <2> QED BY <2>1, <2>2, <2>3, <2>4
<1>b. b = IF Nbr[i] = {} THEN p.at + 2 ELSE p.at + 1 OBVIOUS
<1> HIDE DEF e, b, q, d, p
<1>3. p.at = 15 => /\ p.diag = 3 /\ c.phase = 4 /\ c.st = 2 /\ Made(c, p) /\ p.ref = 3 /\ p.vol = 6 /\ c.mesh = 4 /\ c.work /\ c.disc
                   /\ it[i] = Now(c) /\ stage[i] = 2
  BY <1>0, <1>p, StepEnds
<1>4. p.at = 0 => c.phase = 0 /\ c.mesh = 0 /\ p.ref = 0 /\ ~ Made(c, p)
  <2>1. ASSUME p.at = 0 PROVE c.phase = 0 BY <1>1, <2>1, ConfigIs DEF Fits
  <2>2. ASSUME p.at = 0 PROVE c.mesh = 0 /\ ~ Made(c, p) BY <1>1, <2>1, <2>2, ConfigIs DEF Together, Made
  <2> QED BY <1>1, <2>1, <2>2 DEF Fits
<1>5. AskAt(c, i)
  <2>1. CASE p.at = 0
    <3>1. it[i] = c.it /\ stage[i] = c.st /\ itr[i] = Base(c) BY <1>1, <1>4, <1>p, <2>1 DEF Counters
    <3> QED BY <1>4, <1>p, <2>1, <3>1 DEF AskAt
  <2>2. CASE p.at = 15
    <3>1. itr[i] = Base(c) + 1 BY <1>1, <1>3, <1>p, <2>2 DEF Counters
    <3> QED BY <1>3, <1>p, <2>2, <3>1 DEF AskAt
  <2> QED BY <1>0, <2>1, <2>2
<1>6. /\ e.calls = {Letter(c, "fac", i, j) : j \in Nbr[i]} /\ e.triggers = {}
      /\ \A a \in Array \ {"worker"} : TargetsOn(a, e) = <<>>
      /\ TargetsOn("worker", e) = IF Nbr[i] = {} THEN <<"comfinal">> ELSE <<>>
  <2> DEFINE w == {"ghost"} \cup (IF itr[i] = 0 THEN {"initlim", "sol", "lim"} ELSE {})
             s == ToAll(i, CallOf["fac"], Nbr[i])
             f == IF Nbr[i] = {} THEN Complete ELSE Calls(s)
  <2>1. e = Posts(w) ++ f BY CallTypes DEF e, AsksForFaces
  <2>2. s = {Letter(c, "fac", i, j) : j \in Nbr[i]} BY <1>1, <1>5, AskTags
  <2>3. /\ f.calls = (IF Nbr[i] = {} THEN {} ELSE s) /\ f.triggers = {}
        /\ \A a : TargetsOn(a, f) = IF Nbr[i] = {} /\ a = "worker" THEN <<"comfinal">> ELSE <<>>
    <3> HIDE DEF s
    <3> QED BY EffectFacts DEF Complete
  <2> HIDE DEF w, s, f
  <2>4. /\ Posts(w).calls = {} /\ Posts(w).triggers = {} /\ \A a : TargetsOn(a, Posts(w)) = <<>> BY EffectFacts
  <2>5. /\ e.calls = Posts(w).calls \cup f.calls /\ e.triggers = Posts(w).triggers \cup f.triggers
        /\ \A a : TargetsOn(a, e) = TargetsOn(a, Posts(w)) \o TargetsOn(a, f)
    BY <2>1, ThenFacts
  <2>6. e.calls = {Letter(c, "fac", i, j) : j \in Nbr[i]} /\ e.triggers = {} BY <2>2, <2>3, <2>4, <2>5
  <2>7. \A a : TargetsOn(a, e) = TargetsOn(a, f) BY <2>3, <2>4, <2>5, TargetFacts
  <2> QED BY <2>3, <2>6, <2>7
<1>7. /\ bndFace'[i] = (IF Nbr[i] = {} THEN {} ELSE bndFace[i]) /\ ghostData' = ghostData /\ ghost' = ghost
      /\ bndFace' = [j \in Chare |-> bndFace'[j]] /\ \A j \in Chare \ {i} : bndFace'[j] = bndFace[j]
  BY <1>0, <1>1 DEF ResizeComm, Adj, meshVars, Shape
<1>8. Shape' /\ Alone(i)
  <2>2. /\ it' = it /\ itr' = itr /\ stage' = stage /\ finished' = finished /\ refined' = refined
        /\ used' = used /\ usol' = usol /\ ulim' = ulim /\ count' = count
    BY <1>0
  <2>3. Shape BY <1>1
  <2>4. /\ TriggerIs
        /\ ContribIs
    BY <1>0 DEF Acts
  <2>5. Shape' BY <1>7, <2>2, <2>3, <2>4 DEF Shape
  <2>6. Alone(i) BY <1>0, <1>7, <2>2 DEF Alone, Acts
  <2> QED BY <2>5, <2>6
<1>9. \A k \in e.calls : k.type = CallOf["fac"] BY <1>6, CallTypes, LetterFacts
<1>10. \A k \in M, y \in DGKind : k.type # CallOf[y] BY <1>0, CallTypes
<1>11. \A y \in DGKind \ {"fac"} : SentAt(c, q, y) <=> SentAt(c, p, y)
  <2>1. c.phase \notin 2 .. 3 BY <1>0, <1>3, <1>4
  <2>2. q.vol = p.vol /\ q.req = p.req /\ q.sent = p.sent BY <1>2 DEF SamePoint
  <2> QED BY <2>1, <2>2, CallTypes, SentFacts
<1>12. \A y \in DGKind : OverAt(c, q, y) <=> OverAt(c, p, y)
  <2>1. c.phase \notin 2 .. 3 BY <1>0, <1>3, <1>4
  <2>2. q.vol = p.vol BY <1>2 DEF SamePoint
  <2> QED BY <2>1, <2>2, CallTypes, SentFacts
<1>13. ~ SentAt(c, p, "fac") /\ SentAt(c, q, "fac") BY <1>0, <1>2, <1>3, <1>4, <1>b, SentFacts
<1>14. \A y \in DGKind : Keeps(c, d, y)
  <2>1. ASSUME NEW y \in DGKind \ {"fac"}
        PROVE  Keeps(c, d, y)
    <3>1. Letters(y)' = Letters(y)
      <4>1. CallOf[y] # CallOf["fac"] BY <2>1, CallTypes
      <4> QED BY <1>0, <1>9, <1>10, <4>1 DEF Letters
    <3>2. \A j \in Chare : count'[j][y] = count[j][y] BY <1>0
    <3>3. /\ SentAt(c, d.of[i], y) <=> SentAt(c, c.of[i], y)
          /\ OverAt(c, d.of[i], y) => OverAt(c, c.of[i], y)
      BY <1>2, <1>11, <1>12, <1>p
    <3>4. Moves(c, d, i) /\ y \in DGKind BY <1>2
    <3> QED BY <3>1, <3>2, <3>3, <3>4, KindQuiet
  <2>2. Traded(d, "fac")' /\ \A j \in Chare : Arrived(d, "fac", j)' = Arrived(c, "fac", j)
    <3>0. "fac" \in DGKind /\ Traded(c, "fac") /\ SameTags(c, d, "fac")
      BY <1>2, CallTypes, PartsOf, SameFacts DEF Moves
    <3>1. Letters("fac")' = Letters("fac") \cup {Letter(c, "fac", i, j) : j \in From("fac", i)}
      <4>1. e.calls = {Letter(c, "fac", i, j) : j \in From("fac", i)} BY <1>6 DEF From
      <4>2. \A k \in M : k.type # CallOf["fac"] BY <1>10, <3>0
      <4> QED BY <1>0, <1>9, <4>1, <4>2 DEF Letters
    <3>4. \A j \in Chare : /\ SentAt(d, d.of[j], "fac") <=> j = i \/ SentAt(c, c.of[j], "fac")
                           /\ OverAt(d, d.of[j], "fac") => OverAt(c, c.of[j], "fac")
      BY <1>2, <1>13, <3>0, SameFacts, SentFacts DEF Moves
    <3>5. \A j \in Chare : count'[j]["fac"] = count[j]["fac"] BY <1>0
    <3>6. ~ SentAt(c, c.of[i], "fac") BY <1>p, <1>13
    <3>7. \A j \in Chare : SentAt(d, d.of[j], "fac") <=> j = i \/ SentAt(c, c.of[j], "fac") BY <3>4
    <3>8. \A j \in Chare : OverAt(d, d.of[j], "fac") => OverAt(c, c.of[j], "fac") \/ Arrived(c, "fac", j) = From("fac", j)
      BY <3>4
    <3> QED BY <3>0, <3>1, <3>5, <3>6, <3>7, <3>8, SendsOff
  <2> QED BY <2>1, <2>2
<1>15. /\ q.at = (IF Nbr[i] = {} THEN p.at + 2 ELSE p.at + 1) /\ p.at \in {0, 15} /\ q.at \in {1, 2, 16, 17}
       /\ Made(c, q) <=> Made(c, p)
  BY <1>0, <1>2, <1>b DEF Made
<1>16. Fits(c, q)
  <2>1. CASE p.at = 0 BY <1>1, <1>2, <1>4, <1>15, <2>1 DEF Fits, SamePoint
  <2>2. CASE p.at = 15 BY <1>0, <1>1, <1>2, <1>3, <1>15, <2>2 DEF Fits, SamePoint
  <2> QED BY <1>15, <2>1, <2>2
<1>17. Expects(d)'
  <2>1. ASSUME NEW k \in msgs \cap msgs', k.to = i, k = [type |-> k.type, to |-> i], Due(p, k) PROVE Due(q, k)
    <3>1. Due(q, k) \/ k.type = AtCall(p.at) BY <1>2, <2>1, DueMoves DEF SamePoint
    <3>2. ASSUME k.type = AtCall(p.at) PROVE FALSE
      <4>1. p.at = 0 BY <1>15, <2>1, <3>2 DEF Due, AtCall
      <4>2. k \in M /\ k.type = "create" BY <1>0, <2>1, <3>2, <4>1 DEF AtCall
      <4>3. k \notin e.calls BY <1>9, <4>2, CallTypes
      <4> QED BY <1>0, <2>1, <4>2, <4>3
    <3> QED BY <3>1, <3>2
  <2>2. \A k \in msgs \cap msgs' : k.type # "write" \/ k.to # i BY <1>15, <1>p, WriteCall
  <2>3. \A k \in msgs' \ msgs : \E y \in DGKind : k.type = CallOf[y] BY <1>0, <1>9, CallTypes
  <2> QED BY <1>1, <1>2, <1>p, <2>1, <2>2, <2>3, ExpectsMoves
<1>18. Contribution(d, i)'
  <2>1. WorkerPart(c, p) = <<>> /\ WorkerPart(c, q) = IF Nbr[i] = {} THEN <<"comfinal">> ELSE <<>>
    <3>1. (p.ref # 3 \/ c.work) /\ (q.ref # 3 \/ c.work) BY <1>2, <1>3, <1>4, <1>15 DEF SamePoint
    <3>2. p.at \notin {2, 4, 9, 13, 17, 24} /\ (Nbr[i] = {} => q.at \in {2, 17}) /\ (Nbr[i] # {} => q.at \in {1, 16})
      BY <1>15
    <3> QED BY <3>1, <3>2, WorkerParts
  <2>2. contrib["worker"][i] = <<>> BY <1>1, <1>p, <2>1 DEF Contribution
  <2>3. /\ contrib'["worker"][i] = WorkerPart(c, q)
        /\ \A a \in {"disc", "refiner", "sync"} : contrib'[a][i] = contrib[a][i]
    BY <1>0, <1>1, <1>6, <2>1, <2>2, ActsAdds, Arrays DEF ArrayIs
  <2>4. /\ finished' = finished /\ Arrived(d, "vol", i)' = Arrived(c, "vol", i)
        /\ q.at \notin {21, 22} /\ p.at \notin {21, 22} /\ q.diag = p.diag /\ q.ref = p.ref /\ q.vol = p.vol
    BY <1>0, <1>2, <1>14, <1>15, CallTypes DEF SamePoint
  <2> QED BY <1>1, <1>2, <1>p, <2>3, <2>4, ContributionKept
<1>19. Counters(d, i)' /\ Updated(d, i)' BY <1>0, <1>1, <1>2, <1>15, <1>p, CountersKept, UpdatedKept DEF SamePoint
<1>20. Ghosts(d, i)'
  <2>1. Arrived(d, "sol", i)' = Arrived(c, "sol", i) /\ Arrived(d, "lim", i)' = Arrived(c, "lim", i)
    BY <1>14, CallTypes
  <2> QED BY <1>0, <1>1, <1>2, <1>15, <1>p, <2>1, GhostsKept
<1>21. Maps(d, i)'
  <2>1. /\ Arrived(d, "fac", i)' = Arrived(c, "fac", i) /\ Arrived(d, "req", i)' = Arrived(c, "req", i)
        /\ Arrived(d, "ghost", i)' = Arrived(c, "ghost", i)
    BY <1>14, CallTypes
  <2>2. Asking(c, p) /\ (Asking(d, q) <=> Nbr[i] # {})
    <3>1. Asking(c, p) /\ (Asking(c, q) <=> Nbr[i] # {}) BY <1>2, <1>3, <1>15 DEF Asking, SamePoint
    <3> QED BY <1>2, <3>1, SameFacts
  <2>3. d.of[i] = q /\ q.req = p.req /\ q.sent = p.sent /\ (OverAt(d, q, "fac") <=> OverAt(c, p, "fac"))
    BY <1>2, <1>12, SameFacts, CallTypes DEF SamePoint
  <2>4. Nbr[i] = {} => Fac[i] = {} /\ Arrived(c, "fac", i) = {} /\ Arrived(c, "ghost", i) = {}
    BY NbrFacts DEF Arrived, From
  <2>5. /\ bndFace[i] = Arrived(c, "fac", i) \cap Fac[i]
        /\ ghostData[i] = IF Arrived(c, "fac", i) = Nbr[i] THEN Fac[i] ELSE {}
        /\ DOMAIN ghost[i] = Arrived(c, "ghost", i)
    BY <1>1, <1>p, <2>2 DEF Maps
  <2>6. /\ p.req <=> Nbr[i] # {} /\ Arrived(c, "fac", i) = Nbr[i]
        /\ p.sent => p.req /\ Arrived(c, "req", i) = Nbr[i]
        /\ OverAt(c, p, "fac") => Nbr[i] = {} \/ p.sent
    BY <1>1, <1>p DEF Maps
  <2>7. CASE Nbr[i] = {}
    <3>1. q.at \in {2, 17} BY <1>15, <2>7
    <3> QED BY <1>7, <2>1, <2>2, <2>3, <2>4, <2>5, <2>6, <2>7, <3>1 DEF Maps
  <2>8. CASE Nbr[i] # {}
    <3>1. q.at \in {1, 16} BY <1>15, <2>8
    <3> QED BY <1>7, <2>1, <2>2, <2>3, <2>5, <2>6, <2>8, <3>1 DEF Maps
  <2> QED BY <2>7, <2>8
<1>22. Signalled(d, i)'
  <2>1. /\ \A y \in {"init", "sol", "lim", "req"} : Arrived(d, y, i)' = Arrived(c, y, i)
        /\ q.req = p.req /\ q.sent = p.sent
    BY <1>2, <1>14, CallTypes DEF SamePoint
  <2>2. CASE p.at = 0
    <3>1. trigger'[i] = trigger[i]
      <4>1. Acts(i, {}, e) BY <1>0, <2>2
      <4>2. Shape BY <1>1
      <4> QED BY <1>6, <4>1, <4>2, ActsSilent
    <3> QED BY <1>1, <1>2, <1>p, <2>1, <2>2, <3>1, SignalsKept
  <2>3. CASE p.at = 15
    <3>1. SpendsStep(i) BY <1>0, <1>6, <2>3 DEF SpendsStep, Acts
    <3> QED BY <1>1, <1>2, <1>p, <2>1, <2>3, <3>1, SignalsSpent
  <2> QED BY <1>15, <2>2, <2>3
<1>23. Local(d, i)' BY <1>18, <1>19, <1>20, <1>21, <1>22 DEF Local
<1>24. \A y \in DGKind : Traded(d, y)' /\ \A j \in Chare \ {i} : Arrived(d, y, j)' = Arrived(c, y, j) BY <1>14
<1> QED BY <1>1, <1>2, <1>8, <1>16, <1>17, <1>23, <1>24, Acted

\* DG::DG
LEMMA CreateKeeps ==
  ASSUME NEW c, DGInv(c), NEW m \in msgs, NEW i, i = m.to, Create(i, m)
  PROVE  \E d \in Config : DGInv(d)'
<1> DEFINE M == {m}
           e == AsksForFaces(i)
<1>1. /\ i \in Chare /\ m = [type |-> "create", to |-> i] /\ c.of[i].at = 0
  BY PlainCall, CallTypes DEF Create, Is, Due
<1>2. Shape /\ Take(i, m, e) BY PartsOf DEF Create
<1> HIDE DEF e
<1>3. msgs' = (msgs \ M) \cup e.calls /\ Acts(i, {}, e) BY <1>1, <1>2, Taking
<1>4. ResizeComm(i) /\ UNCHANGED <<it, itr, finished, refined, count, stage, used, usol, ulim>>
  BY DEF Create, stepVars, nodeVars, stageVars, cellVars
<1>5. M \in SUBSET msgs /\ (\A k \in M : k = [type |-> "create", to |-> i]) /\ [type |-> "create", to |-> i] \in M
  BY <1>1
<1> HIDE DEF M
<1>6. Asks(c, i, M, {}) BY <1>1, <1>3, <1>4, <1>5 DEF Asks, e
<1> QED BY <1>1, <1>5, <1>6, AsksKeeps

\* DG::recompGhostRefined on a new mesh
LEMMA RefinedKeeps ==
  ASSUME NEW c, DGInv(c), NEW i \in Chare, RecompGhostRefined(i), refined[i]
  PROVE  \E d \in Config : DGInv(d)'
<1> DEFINE e == AsksForFaces(i)
           ns == {done("diag"), done("ref"), done("resize")}
           M == {}
<1>1. Shape /\ Run(i, "recompghost", e) /\ "recompghost" \in Wait /\ Needs["recompghost"] = ns
  BY PartsOf, WaitsAre DEF RecompGhostRefined
<1>2. ResizeComm(i) /\ UNCHANGED <<it, itr, finished, refined, count, stage, used, usol, ulim>>
  BY DEF RecompGhostRefined, stepVars, nodeVars, cellVars
<1> HIDE DEF e
<1>3. \A t \in ns : trigger[i][t] > 0
  <2> HIDE DEF ns
  <2> QED BY <1>1, Running
<1>4. msgs' = (msgs \ M) \cup e.calls /\ Acts(i, ns, e)
  <2> HIDE DEF ns
  <2>1. msgs' = msgs \cup e.calls /\ Acts(i, ns, e) BY <1>1, Running
  <2> QED BY <2>1
<1>5. c.of[i].at = 15 /\ Renews(c) BY <1>3, StepEnds
<1>6. Asks(c, i, M, ns) BY <1>2, <1>3, <1>4, <1>5 DEF Asks, e
<1>7. M \in SUBSET msgs OBVIOUS
<1> HIDE DEF M, ns
<1> QED BY <1>6, <1>7, AsksKeeps

LEMMA Turning ==
  ASSUME NEW c, DGInv(c), NEW i \in Chare, NEW d \in Config, Moves(c, d, i), Turns(c, d, i), Alone(i), Shape',
         Fits(c, d.of[i]), EndSays(c, d.of[i], i)', Expects(d)', Counters(d, i)', Contribution(d, i)', Maps(d, i)'
  PROVE  DGInv(d)'
<1> DEFINE p == c.of[i]
           q == d.of[i]
<1>1. /\ Signalled(c, i) /\ Ghosts(c, i) /\ Updated(c, i) /\ (finished => p.at = 24) BY PartsOf
<1>2. p.at = 15 /\ q.at = 15 /\ q.req = p.req /\ q.sent = p.sent /\ SameRun(c, d) BY DEF Turns, Moves
<1>3. Updated(d, i)' BY <1>1, <1>2, UpdatedKept DEF Turns
<1>4. Ghosts(d, i)' BY <1>1, <1>2 DEF Turns, Ghosts
<1>5. Signalled(d, i)'
  <2>1. /\ \A x \in {"init", "sol", "lim"} : trigger[i][own(x)] = 0 /\ trigger[i][com(x)] = 0
    BY <1>1, <1>2 DEF Signalled
  <2>2. \A x \in {"init", "sol", "lim"} : trigger'[i][own(x)] = 0 /\ trigger'[i][com(x)] = 0
    BY <2>1, TriggersAre, TriggersDiffer DEF Turns
  <2>3. trigger'[i][own("ghost")] = trigger[i][own("ghost")] /\ trigger'[i][com("ghost")] = trigger[i][com("ghost")]
    BY TriggersAre, TriggersDiffer DEF Turns
  <2>4. Arrived(d, "req", i)' = Arrived(c, "req", i) BY CallTypes DEF Turns
  <2>5. Renews(d) = Renews(c) BY <1>2, SameFacts
  <2> QED BY <1>1, <1>2, <2>2, <2>3, <2>4, <2>5 DEF Signalled, EndSays
<1>6. Local(d, i)' BY <1>3, <1>4, <1>5 DEF Local
<1>7. \A x \in DGKind : Traded(d, x)' /\ \A j \in Chare \ {i} : Arrived(d, x, j)' = Arrived(c, x, j) BY DEF Turns
<1>8. ~ finished BY <1>1, <1>2
<1> QED BY <1>6, <1>7, <1>8, Acted

\* A chare that waits for diagnostics, for a mesh or for its volumes is at point 15.
LEMMA AtTheEnd ==
  ASSUME NEW c, DGInv(c), NEW i \in Chare, c.of[i].diag \in 1 .. 2 \/ c.of[i].ref = 2 \/ c.of[i].vol \in 1 .. 5
  PROVE  /\ c.of[i].at = 15 /\ c.phase = 4 /\ c.st = 2 /\ Made(c, c.of[i]) /\ ~ finished
         /\ c.of[i].ref = 2 => c.mesh = 1 /\ ~ c.disc /\ ~ c.work /\ c.of[i].vol = 0 /\ Renews(c)
         /\ c.of[i].vol \in 1 .. 5 => c.mesh >= 2 /\ c.of[i].ref = 3 /\ c.disc /\ c.work /\ Renews(c) /\ c.of[i].diag # 1
         /\ c.mesh = 2 <=> c.of[i].vol \in 1 .. 2
         /\ c.mesh = 3 <=> c.of[i].vol \in 3 .. 4
         /\ c.of[i].vol = 5 => c.mesh = 4
<1> DEFINE p == c.of[i]
<1>p. p = c.of[i] OBVIOUS
<1>1. /\ c \in Config /\ Fits(c, p) /\ Together(c) /\ (finished => p.at = 24) /\ c.mesh \in 0 .. 5
  BY PartsOf, ConfigIs
<1>2. p.at \in 0 .. 24 /\ p.diag \in 0 .. 3 /\ p.ref \in 0 .. 3 /\ p.vol \in 0 .. 6 BY <1>1, ConfigIs
<1> HIDE DEF p
<1>3. p.diag \in 1 .. 2 \/ p.ref = 2 \/ p.vol \in 1 .. 5 BY <1>p
<1>4. p.vol \in Vols(c)
  BY <1>1 DEF Fits
<1>5. Made(c, p)
  <2>1. p.diag \in 1 .. 2 => Made(c, p) BY <1>1 DEF Fits
  <2>2. p.ref = 2 => Made(c, p) BY <1>1 DEF Fits
  <2>3. p.vol \in 1 .. 5 => c.mesh > 0 BY <1>1, <1>4
  <2> QED BY <1>1, <1>3, <2>1, <2>2, <2>3 DEF Fits
<1>6. p.ref = 2 => c.mesh = 1 /\ ~ c.disc /\ ~ c.work /\ p.vol = 0 /\ Renews(c)
  <2>1. p.ref = 2 => c.mesh < 2 /\ ~ c.disc /\ ~ c.work BY <1>1 DEF Fits
  <2>2. p.ref = 2 => c.mesh # 0 /\ Renews(c) BY <1>1, <1>5 DEF Fits
  <2> QED BY <1>1, <1>4, <2>1, <2>2
<1>7. p.vol \in 1 .. 5 => c.mesh >= 2 /\ p.ref = 3 /\ c.disc /\ c.work /\ Renews(c) /\ p.diag # 1
  <2>1. p.vol \in 1 .. 5 => c.mesh >= 2 BY <1>1, <1>4
  <2>2. c.mesh >= 2 => p.ref = 3 /\ c.disc /\ c.work /\ Renews(c) BY <1>1 DEF Fits, Together
  <2> QED BY <1>1, <2>1, <2>2 DEF Fits
<1>8. p.at = 15
  <2>1. ASSUME p.at >= 16 PROVE FALSE
    <3>1. p.diag = 3 /\ (Renews(c) => p.vol = 6) BY <1>1, <1>5, <2>1 DEF Fits
    <3> QED BY <1>3, <1>6, <1>7, <3>1
  <2> QED BY <1>2, <1>5, <2>1 DEF Made
<1>9. c.mesh = 2 <=> p.vol \in 1 .. 2 BY <1>1, <1>4
<1>10. c.mesh = 3 <=> p.vol \in 3 .. 4 BY <1>1, <1>4
<1>11. p.vol = 5 => c.mesh = 4
  <2>1. p.vol = 5 => c.mesh \in 4 .. 5 BY <1>1, <1>4
  <2>2. p.vol = 5 /\ Renews(c) => c.mesh # 5 BY <1>1, <1>5, <1>8 DEF Fits
  <2> QED BY <1>7, <2>1, <2>2
<1>12. c.phase = 4 /\ c.st = 2 /\ ~ finished BY <1>1, <1>5, <1>8 DEF Made
<1> QED BY <1>5, <1>6, <1>7, <1>8, <1>9, <1>10, <1>11, <1>12, <1>p

LEMMA TurnedIs ==
  ASSUME NEW p \in Point, NEW dg, NEW rf, NEW vl
  PROVE  /\ Turned(p, dg, rf, vl).at = p.at /\ Turned(p, dg, rf, vl).diag = dg /\ Turned(p, dg, rf, vl).ref = rf
         /\ Turned(p, dg, rf, vl).vol = vl
         /\ Turned(p, dg, rf, vl).req = p.req /\ Turned(p, dg, rf, vl).sent = p.sent
         /\ dg \in 0 .. 3 /\ rf \in 0 .. 3 /\ vl \in 0 .. 6 => Turned(p, dg, rf, vl) \in Point
  BY DEF Turned, Point

LEMMA PutThere ==
  ASSUME NEW c, DGInv(c), NEW i \in Chare, NEW q \in Point, NEW d, d = Put(c, i, q)
  PROVE  d \in Config /\ Moves(c, d, i) /\ d.of[i] = q /\ SameRun(c, d)
<1>1. c \in Config BY DEF DGInv, Levels
<1> QED BY <1>1, PutIs DEF Moves

LEMMA EndsKeeps ==
  ASSUME NEW c, DGInv(c), NEW m \in msgs, NEW i, NEW x, Ends(c, i, m, x)
  PROVE  \E d \in Config : DGInv(d)'
<1> DEFINE p == c.of[i]
           dg == IF x = "diag" THEN 3 ELSE p.diag
           vl == IF x = "diag" THEN p.vol ELSE 6
           q == Turned(p, dg, p.ref, vl)
           d == Put(c, i, q)
           e == Triggers({done(x)})
<1>p. p = c.of[i] OBVIOUS
<1>1. /\ m.to = i /\ Take(i, m, e) /\ UNCHANGED members
      /\ (m.type = "diag" /\ x = "diag") \/ (m.type = "resized" /\ x = "resize")
  BY DEF Ends
<1>2. /\ i \in Chare /\ m = [type |-> m.type, to |-> i] /\ \A y \in DGKind : m.type # CallOf[y]
      /\ x = "diag" => p.diag = 2
      /\ x = "resize" => p.vol = 5
  <2>1. m.type # "write" /\ \A y \in DGKind : m.type # CallOf[y] BY <1>1, CallTypes
  <2>2. m.to \in Chare /\ Plain(m) /\ Due(c.of[m.to], m) BY <2>1, PlainCall
  <2>3. Due(p, m) BY <1>1, <2>2
  <2> HIDE DEF p
  <2> QED BY <1>1, <2>1, <2>2, <2>3 DEF Due
<1>3. /\ Held(c, i, p)
      /\ Maps(c, i) /\ Expects(c)
  BY <1>2, PartsOf
<1>4. /\ p.at = 15 /\ Made(c, p) /\ ~ finished /\ c.mesh \in 0 .. 5
      /\ x = "resize" => c.mesh = 4 /\ p.ref = 3 /\ c.disc /\ c.work /\ Renews(c) /\ p.diag # 1
  <2>1. c.of[i].diag \in 1 .. 2 \/ c.of[i].ref = 2 \/ c.of[i].vol \in 1 .. 5 BY <1>1, <1>2
  <2>2. c.mesh \in 0 .. 5 BY <1>3, ConfigIs
  <2>3. x = "resize" => c.of[i].vol = 5 BY <1>2
  <2> HIDE DEF p
  <2> QED BY <1>2, <1>p, <2>1, <2>2, <2>3, AtTheEnd
<1>5. p.diag \in 0 .. 3 /\ p.ref \in 0 .. 3 /\ p.vol \in 0 .. 6 BY <1>2, <1>3, ConfigIs
<1>6. dg \in 0 .. 3 /\ vl \in 0 .. 6 BY <1>5
<1>7. /\ q.at = p.at /\ q.diag = dg /\ q.ref = p.ref /\ q.vol = vl /\ q.req = p.req /\ q.sent = p.sent
      /\ d \in Config /\ Moves(c, d, i) /\ d.of[i] = q /\ SameRun(c, d)
  <2> HIDE DEF dg, vl, q, d
  <2>1. p \in Point /\ p.ref \in 0 .. 3 BY <1>2, <1>3, <1>5 DEF Config
  <2>2. q = Turned(p, dg, p.ref, vl) /\ d = Put(c, i, q) BY DEF q, d
  <2> HIDE DEF p
  <2>3. /\ q.at = p.at /\ q.diag = dg /\ q.ref = p.ref /\ q.vol = vl /\ q.req = p.req /\ q.sent = p.sent
        /\ q \in Point
    BY <1>6, <2>1, <2>2, TurnedIs
  <2>4. d \in Config /\ Moves(c, d, i) /\ d.of[i] = q /\ SameRun(c, d) BY <1>2, <2>2, <2>3, PutThere
  <2> QED BY <2>3, <2>4
<1>8. /\ x = "diag" => dg = 3 /\ vl = p.vol
      /\ x = "resize" => dg = p.diag /\ vl = 6
  OBVIOUS
<1>9. e.calls = {} /\ e.triggers = {done(x)} /\ \A a : TargetsOn(a, e) = <<>> BY EffectFacts
<1> HIDE DEF e, q, d, p, dg, vl
<1>10. msgs' = msgs \ {m} /\ Acts(i, {}, e) BY <1>1, <1>2, <1>3, <1>9, Taking
<1>11. Shape' /\ Alone(i) BY <1>1, <1>2, <1>3, <1>10, PlainActs
<1>12. Fits(c, q)
  <2>1. Made(c, q) <=> Made(c, p) BY <1>7 DEF Made
  <2>2. CASE x = "diag" BY <1>2, <1>3, <1>4, <1>7, <1>8, <2>1, <2>2 DEF Fits
  <2>3. CASE x = "resize" BY <1>2, <1>3, <1>4, <1>7, <1>8, <2>1, <2>3 DEF Fits
  <2> QED BY <1>1, <2>2, <2>3
<1>13. \A y \in DGKind : Keeps(c, d, y)
  <2>1. \A y \in DGKind : Letters(y)' = Letters(y) /\ \A j \in Chare : count'[j][y] = count[j][y]
    BY <1>1, <1>2, <1>10 DEF members, Letters
  <2>2. \A y \in DGKind : (SentAt(c, q, y) <=> SentAt(c, p, y)) /\ (OverAt(c, q, y) <=> OverAt(c, p, y))
    <3>1. (q.vol >= 2 <=> p.vol >= 2) /\ (q.vol >= 3 <=> p.vol >= 3) BY <1>1, <1>2, <1>7, <1>8
    <3> QED BY <1>7, <3>1, CallTypes, SentFacts
  <2>3. ASSUME NEW y \in DGKind
        PROVE  (SentAt(c, d.of[i], y) <=> SentAt(c, c.of[i], y)) /\ (OverAt(c, d.of[i], y) => OverAt(c, c.of[i], y))
    BY <1>7, <1>p, <2>2
  <2> QED BY <1>2, <1>7, <2>1, <2>3, KindQuiet
<1>14. \A a \in {"worker", "disc", "refiner", "sync"} : contrib'[a][i] = contrib[a][i]
  BY <1>2, <1>3, <1>9, <1>10, ActsAdds, Arrays DEF ArrayIs
<1>15. Contribution(d, i)'
  <2>1. WorkerPart(c, q) = WorkerPart(c, p) BY <1>7 DEF WorkerPart
  <2>2. DiscParts(c, q) = DiscParts(c, p)
    <3>1. CASE x = "diag" BY <1>2, <1>4, <1>7, <1>8, <3>1 DEF DiscParts
    <3>2. CASE x = "resize" BY <1>2, <1>4, <1>7, <1>8, <3>2 DEF DiscParts
    <3> QED BY <1>1, <3>1, <3>2
  <2>3. WorkerPart(d, q) = WorkerPart(c, p) /\ DiscParts(d, q) = DiscParts(c, p) BY <1>7, <2>1, <2>2, SameFacts
  <2>4. finished' = finished /\ Arrived(d, "vol", i)' = Arrived(c, "vol", i)
    BY <1>2, <1>11, <1>13, CallTypes DEF Alone
  <2>5. (q.vol \in {1, 2} <=> p.vol \in {1, 2}) /\ (q.vol = 2 <=> p.vol = 2) /\ q.ref = p.ref /\ q.at = p.at
    BY <1>1, <1>2, <1>7, <1>8
  <2> QED BY <1>3, <1>7, <1>p, <1>14, <2>3, <2>4, <2>5 DEF Contribution
<1>16. Counters(d, i)' BY <1>1, <1>2, <1>3, <1>7, <1>p, CountersKept DEF members, Made
<1>17. Maps(d, i)'
  <2>1. SameFace(c, d, i) BY <1>2, <1>13, CallTypes
  <2>2. Asking(c, q) <=> Asking(c, p) BY <1>7 DEF Asking
  <2>3. bndFace'[i] = bndFace[i] /\ ghostData'[i] = ghostData[i] /\ ghost'[i] = ghost[i] BY <1>1 DEF members
  <2> QED BY <1>2, <1>3, <1>4, <1>7, <1>p, <2>1, <2>2, <2>3, MapsKept
<1>18. /\ \A t \in Trigger : t # done(x) => trigger'[i][t] = trigger[i][t] + 0
       /\ trigger'[i][done(x)] = trigger[i][done(x)] + 1
  <2>1. done(x) \in Trigger BY <1>1, TriggersAre
  <2> QED BY <1>9, <1>10, <2>1 DEF Acts
<1>19. EndSays(c, q, i)'
  <2>1. trigger[i][done(x)] = 0
    <3>1. CASE x = "diag" BY <1>2, <1>3, <1>p, <3>1 DEF Signalled
    <3>2. CASE x = "resize" BY <1>2, <1>3, <1>4, <1>p, <3>2 DEF Signalled
    <3> QED BY <1>1, <3>1, <3>2
  <2>2. trigger'[i][done(x)] = 1 BY <1>18, <2>1
  <2>3. \A y \in {"diag", "ref", "resize"} : y # x => trigger'[i][done(y)] = trigger[i][done(y)] + 0
    BY <1>18, TriggersAre, TriggersDiffer
  <2>4. CASE x = "diag" BY <1>3, <1>7, <1>8, <1>p, <2>2, <2>3, <2>4 DEF Signalled, EndSays
  <2>5. CASE x = "resize" BY <1>3, <1>7, <1>8, <1>p, <2>2, <2>3, <2>5 DEF Signalled, EndSays
  <2> QED BY <1>1, <2>4, <2>5
<1>20. Expects(d)'
  <2>1. ASSUME NEW k \in msgs \cap msgs', k.to = i, k = [type |-> k.type, to |-> i], Due(p, k) PROVE Due(q, k)
    <3>1. k # m BY <1>10, <2>1
    <3>2. k.type # m.type BY <1>2, <2>1, <3>1
    <3>3. CASE x = "diag"
      <4>1. k.type # "diag" BY <1>1, <3>2, <3>3
      <4> QED BY <1>7, <1>8, <2>1, <4>1, <3>3 DEF Due
    <3>4. CASE x = "resize"
      <4>1. k.type # "resized" BY <1>1, <3>2, <3>4
      <4> QED BY <1>2, <1>7, <1>8, <2>1, <4>1, <3>4 DEF Due
    <3> QED BY <1>1, <3>3, <3>4
  <2>2. \A k \in msgs \cap msgs' : k.type = "write" /\ k.to = i => q.at = p.at BY <1>7
  <2>3. \A k \in msgs' \ msgs : \E y \in DGKind : k.type = CallOf[y] BY <1>10
  <2> QED BY <1>2, <1>3, <1>7, <1>p, <2>1, <2>2, <2>3, ExpectsMoves
<1>21. Turns(c, d, i)
  <2>1. \A t \in Trigger : t \notin {done("diag"), done("ref"), done("resize")} => trigger'[i][t] = trigger[i][t]
    <3>1. trigger \in [Object -> [Trigger -> Int]] /\ i \in Object BY <1>2, <1>3, ObjectFacts DEF Shape
    <3>2. \A t \in Trigger : trigger[i][t] \in Int BY <3>1
    <3> QED BY <1>1, <1>18, <3>2
  <2>2. used'[i] = used[i] /\ usol'[i] = usol[i] /\ ulim'[i] = ulim[i] BY <1>1 DEF members
  <2>3. \A y \in DGKind \ {"vol"} : Arrived(d, y, i)' = Arrived(c, y, i) BY <1>2, <1>13
  <2>4. c.of[i].at = 15 /\ d.of[i].at = 15 /\ d.of[i].req = c.of[i].req /\ d.of[i].sent = c.of[i].sent
    BY <1>4, <1>7, <1>p
  <2> QED BY <1>13, <2>1, <2>2, <2>3, <2>4 DEF Turns
<1>22. Fits(c, d.of[i]) /\ EndSays(c, d.of[i], i)'
  <2>1. EndSays(c, d.of[i], i)' BY <1>7, <1>19
  <2> QED BY <1>7, <1>12, <2>1
<1> QED BY <1>2, <1>7, <1>11, <1>15, <1>16, <1>17, <1>20, <1>21, <1>22, Turning

\* DG::diag, DG::resized
LEMMA SignalKeeps ==
  ASSUME NEW c, DGInv(c), NEW m \in msgs, NEW i, i = m.to, Diag(i, m) \/ Resized(i, m)
  PROVE  \E d \in Config : DGInv(d)'
<1>1. UNCHANGED members
  BY DEF Diag, Resized, Signal, stepVars, nodeVars, dgVars, stageVars, meshVars, cellVars, members
<1>2. CASE Diag(i, m) BY <1>1, <1>2, EndsKeeps DEF Diag, Signal, Is, Ends
<1>3. CASE Resized(i, m) BY <1>1, <1>3, EndsKeeps DEF Resized, Signal, Is, Ends
<1> QED BY <1>2, <1>3

\* Nobody asks for ghosts of a new mesh before all have it.
LEMMA NotYetAsked ==
  ASSUME NEW c, DGInv(c), c.mesh \in 1 .. 3
  PROVE  \A i \in Chare : /\ \A x \in Faces : Arrived(c, x, i) = {}
                          /\ ~ c.of[i].req /\ ~ c.of[i].sent
                          /\ ~ SentAt(c, c.of[i], "fac")
<1>1. ASSUME NEW i \in Chare PROVE ~ SentAt(c, c.of[i], "fac")
  <2>1. /\ c \in Config /\ Fits(c, c.of[i]) /\ Together(c) BY PartsOf
  <2>2. Renews(c) /\ c.phase = 4 /\ c.st = 2 BY <2>1, ConfigIs DEF Together
  <2>3. c.of[i].vol \in Vols(c)
    BY <2>1 DEF Fits
  <2>4. c.of[i].vol # 6 BY <2>3
  <2>5. c.of[i].at \in 0 .. 24 /\ ~ (Made(c, c.of[i]) /\ c.of[i].at >= 16) BY <2>1, <2>2, <2>4, ConfigIs DEF Fits
  <2>6. ~ (c.of[i].at >= 16) BY <2>2, <2>5 DEF Made
  <2> QED BY <2>6, SentFacts
<1>2. \A i \in Chare : Arrived(c, "fac", i) = {} BY <1>1 DEF Arrived, Senders
<1>3. \A i \in Chare : ~ c.of[i].req /\ ~ c.of[i].sent BY <1>2, PartsOf DEF Maps
<1>4. \A i \in Chare : Arrived(c, "req", i) = {} /\ Arrived(c, "ghost", i) = {}
  BY <1>3, SentFacts DEF Arrived, Senders
<1> QED BY <1>1, <1>2, <1>3, <1>4

LEMMA EvalEffect ==
  LET e == Contributes("disc", "discresized") ++ Triggers({done("ref")}) ++ Contributes("worker", "workresized")
  IN  /\ e.calls = {} /\ e.triggers = {done("ref")}
      /\ TargetsOn("disc", e) = <<"discresized">> /\ TargetsOn("worker", e) = <<"workresized">>
      /\ TargetsOn("refiner", e) = <<>> /\ TargetsOn("sync", e) = <<>>
<1> DEFINE a == Contributes("disc", "discresized")
           b == Triggers({done("ref")})
           r == Contributes("worker", "workresized")
           e == a ++ b ++ r
<1>1. a.calls = {} /\ a.triggers = {} /\ \A x : TargetsOn(x, a) = IF x = "disc" THEN <<"discresized">> ELSE <<>>
  BY EffectFacts
<1>2. b.calls = {} /\ b.triggers = {done("ref")} /\ \A x : TargetsOn(x, b) = <<>> BY EffectFacts
<1>3. r.calls = {} /\ r.triggers = {} /\ \A x : TargetsOn(x, r) = IF x = "worker" THEN <<"workresized">> ELSE <<>>
  BY EffectFacts
<1> HIDE DEF a, b, r
<1>4. /\ (a ++ b).calls = a.calls \cup b.calls /\ (a ++ b).triggers = a.triggers \cup b.triggers
      /\ \A x : TargetsOn(x, a ++ b) = TargetsOn(x, a) \o TargetsOn(x, b)
  BY ThenFacts
<1>5. /\ e.calls = (a ++ b).calls \cup r.calls /\ e.triggers = (a ++ b).triggers \cup r.triggers
      /\ \A x : TargetsOn(x, e) = TargetsOn(x, a ++ b) \o TargetsOn(x, r)
  BY ThenFacts
<1>6. e.calls = {} /\ e.triggers = {done("ref")} BY <1>1, <1>2, <1>3, <1>4, <1>5
<1>7. TargetsOn("disc", e) = <<"discresized">> BY <1>1, <1>2, <1>3, <1>4, <1>5, TargetFacts
<1>8. TargetsOn("worker", e) = <<"workresized">> BY <1>1, <1>2, <1>3, <1>4, <1>5, TargetFacts
<1>9. TargetsOn("refiner", e) = <<>> /\ TargetsOn("sync", e) = <<>> BY <1>1, <1>2, <1>3, <1>4, <1>5, TargetFacts
<1> QED BY <1>6, <1>7, <1>8, <1>9 DEF a, b, r

\* DG::resizeAfterRefined
LEMMA EvalKeeps ==
  ASSUME NEW c, DGInv(c), NEW m \in msgs, NEW i, i = m.to, Eval(i, m)
  PROVE  \E d \in Config : DGInv(d)'
<1> DEFINE p == c.of[i]
           q == Turned(p, p.diag, 3, 0)
           d == Put(c, i, q)
           e == Contributes("disc", "discresized") ++ Triggers({done("ref")}) ++ Contributes("worker", "workresized")
<1>p. p = c.of[i] OBVIOUS
<1>1. /\ m.type = "eval" /\ Take(i, m, e) /\ itr' = [itr EXCEPT ![i] = itr[i] + 1]
      /\ count' = [count EXCEPT ![i]["vol"] = 0]
      /\ bndFace' = [bndFace EXCEPT ![i] = {}] /\ ghostData' = [ghostData EXCEPT ![i] = {}]
      /\ ghost' = [ghost EXCEPT ![i] = <<>>] /\ usol' = [usol EXCEPT ![i] = {}] /\ ulim' = [ulim EXCEPT ![i] = {}]
      /\ UNCHANGED <<it, finished, refined, stage, used>>
  BY DEF Eval, Is, Resize, stageVars
<1>2. /\ i \in Chare /\ m = [type |-> "eval", to |-> i] /\ \A y \in DGKind : m.type # CallOf[y]
      /\ p.ref = 2
  <2>1. m.type # "write" /\ \A y \in DGKind : m.type # CallOf[y] BY <1>1, CallTypes
  <2>2. m.to \in Chare /\ Plain(m) /\ Due(c.of[m.to], m) BY <2>1, PlainCall
  <2>3. Due(p, m) BY <2>2
  <2> HIDE DEF p
  <2> QED BY <1>1, <2>1, <2>2, <2>3 DEF Due
<1>3. /\ Held(c, i, p)
      /\ Maps(c, i) /\ Expects(c)
  BY <1>2, PartsOf
<1>4. p.at = 15 /\ Made(c, p) /\ ~ finished /\ c.mesh = 1 /\ ~ c.disc /\ ~ c.work /\ p.vol = 0 /\ Renews(c)
  BY <1>2, AtTheEnd
<1>5. p.diag \in 0 .. 3 /\ p \in Point BY <1>2, <1>3, ConfigIs DEF Config
<1>q. q = Turned(p, p.diag, 3, 0) /\ d = Put(c, i, q) OBVIOUS
<1>e. /\ e.calls = {} /\ e.triggers = {done("ref")}
      /\ TargetsOn("disc", e) = <<"discresized">> /\ TargetsOn("worker", e) = <<"workresized">>
      /\ TargetsOn("refiner", e) = <<>> /\ TargetsOn("sync", e) = <<>>
  BY EvalEffect
<1> HIDE DEF e, q, d, p
<1>6. /\ q.at = p.at /\ q.diag = p.diag /\ q.ref = 3 /\ q.vol = 0 /\ q.req = p.req /\ q.sent = p.sent
      /\ q \in Point
  BY <1>5, <1>q, TurnedIs
<1>7. d \in Config /\ Moves(c, d, i) /\ d.of[i] = q /\ SameRun(c, d) BY <1>2, <1>6, <1>q, PutThere
<1>8. msgs' = msgs \ {m} /\ Acts(i, {}, e) BY <1>1, <1>2, <1>3, <1>e, Taking
<1>9. \A j \in Chare : /\ \A x \in Faces : Arrived(c, x, j) = {}
                       /\ ~ c.of[j].req /\ ~ c.of[j].sent
  BY <1>4, NotYetAsked
<1>10. count' = count
  <2>1. count \in [Chare -> [DGKind -> Nat]] BY <1>3 DEF Shape
  <2>2. \A j \in Chare : ~ SentAt(c, c.of[j], "vol")
    <3>1. \A j \in Chare : c.of[j].vol = 0 BY <1>4, PartsOf DEF Fits
    <3> QED BY <3>1, SentFacts
  <2>3. count[i]["vol"] = 0 BY <1>2, <2>2, NoneSent, PartsOf, CallTypes
  <2> QED BY <1>1, <1>2, <2>1, <2>3, CallTypes
<1>11. Shape' /\ Alone(i)
  <2>1. Shape BY <1>3
  <2>2. /\ TriggerIs
        /\ ContribIs
    BY <1>8 DEF Acts
  <2>3. itr[i] + 1 \in Nat BY <1>2, <2>1 DEF Shape
  <2>4. itr' \in [Chare -> Nat] BY <1>1, <2>1, <2>3 DEF Shape
  <2>5. Shape' BY <1>1, <1>10, <2>1, <2>2, <2>4 DEF Shape
  <2>6. Alone(i) BY <1>1, <1>8, <1>10, <2>1 DEF Alone, Acts, Shape
  <2> QED BY <2>5, <2>6
<1>m. /\ itr'[i] = itr[i] + 1 /\ it'[i] = it[i] /\ stage'[i] = stage[i] /\ refined'[i] = refined[i]
      /\ used'[i] = used[i] /\ usol'[i] = {} /\ ulim'[i] = {}
      /\ bndFace'[i] = {} /\ ghostData'[i] = {} /\ DOMAIN ghost'[i] = {} /\ finished' = finished
  <2>1. DOMAIN <<>> = {} OBVIOUS
  <2> QED BY <1>1, <1>2, <1>3, <2>1 DEF Shape
<1>12. Fits(c, q)
  <2>1. Made(c, q) <=> Made(c, p) BY <1>6 DEF Made
  <2> QED BY <1>2, <1>3, <1>4, <1>6, <2>1 DEF Fits
<1>13. \A y \in DGKind : Keeps(c, d, y)
  <2>1. \A y \in DGKind : Letters(y)' = Letters(y) /\ \A j \in Chare : count'[j][y] = count[j][y]
    BY <1>2, <1>8, <1>10 DEF Letters
  <2>2. \A y \in DGKind : (SentAt(c, q, y) <=> SentAt(c, p, y)) /\ (OverAt(c, q, y) <=> OverAt(c, p, y))
    <3>1. (q.vol >= 2 <=> p.vol >= 2) /\ (q.vol >= 3 <=> p.vol >= 3) BY <1>4, <1>6
    <3> QED BY <1>6, <3>1, CallTypes, SentFacts
  <2>3. ASSUME NEW y \in DGKind
        PROVE  (SentAt(c, d.of[i], y) <=> SentAt(c, c.of[i], y)) /\ (OverAt(c, d.of[i], y) => OverAt(c, c.of[i], y))
    BY <1>7, <1>p, <2>2
  <2> QED BY <1>2, <1>7, <2>1, <2>3, KindQuiet
<1>14. Contribution(d, i)'
  <2>1. WorkerPart(c, p) = <<>> /\ WorkerPart(c, q) = <<"workresized">> BY <1>2, <1>4, <1>6 DEF WorkerPart
  <2>2. contrib["worker"][i] = <<>> BY <1>3, <1>4, <1>p, <2>1 DEF Contribution
  <2>3. contrib'["worker"][i] = WorkerPart(c, q) BY <1>2, <1>3, <1>8, <1>e, <2>1, <2>2, ActsAdds, Arrays DEF ArrayIs
  <2>4. SameTargets("refiner", i) /\ SameTargets("sync", i)
    BY <1>2, <1>3, <1>8, <1>e, ActsAdds, Arrays DEF ArrayIs
  <2>5. contrib'["disc"][i] = contrib["disc"][i] \o <<"discresized">> BY <1>2, <1>8, <1>e, Arrays DEF ArrayIs, Acts
  <2>6. contrib'["disc"][i] \in DiscParts(c, q)
    <3>1. contrib["disc"][i] \in DiscParts(c, p) BY <1>3, <1>p DEF Contribution
    <3>2. DiscParts(c, p) = IF p.diag = 1 THEN {<<"diagnostics">>} ELSE {<<>>} BY <1>2, <1>4 DEF DiscParts
    <3>3. DiscParts(c, q) = IF p.diag = 1 THEN {<<"diagnostics", "discresized">>} ELSE {<<"discresized">>}
      BY <1>4, <1>6 DEF DiscParts
    <3>4. CASE p.diag = 1
      <4>1. contrib["disc"][i] = <<"diagnostics">> BY <3>1, <3>2, <3>4
      <4>2. contrib'["disc"][i] = <<"diagnostics", "discresized">> BY <2>5, <4>1, TargetFacts
      <4> QED BY <3>3, <3>4, <4>2
    <3>5. CASE p.diag # 1
      <4>1. contrib["disc"][i] = <<>> BY <3>1, <3>2, <3>5
      <4>2. contrib'["disc"][i] = <<"discresized">> BY <2>5, <4>1, TargetFacts
      <4> QED BY <3>3, <3>5, <4>2
    <3> QED BY <3>4, <3>5
  <2>7. WorkerPart(d, q) = WorkerPart(c, q) /\ DiscParts(d, q) = DiscParts(c, q) BY <1>7, SameFacts
  <2>8. p.vol = 0 /\ q.vol = 0 /\ p.ref = 2 /\ q.ref = 3 /\ p.at = 15 /\ q.at = 15 /\ ~ finished /\ finished' = finished
    BY <1>2, <1>4, <1>6, <1>m
  <2> QED BY <1>3, <1>7, <1>p, <2>3, <2>4, <2>6, <2>7, <2>8 DEF Contribution
<1>15. Counters(d, i)'
  <2>1. Made(d, q) /\ Made(c, p) /\ Base(d) = Base(c) /\ Now(d) = Now(c) /\ d.st = c.st /\ d.it = c.it /\ Renews(d) = Renews(c)
    BY <1>4, <1>6, <1>7, SameFacts DEF Made, SameRun
  <2>2. q.at = 15 /\ p.at = 15 /\ q.ref = 3 /\ p.ref = 2 BY <1>2, <1>4, <1>6
  <2> QED BY <1>3, <1>7, <1>m, <1>p, <2>1, <2>2 DEF Counters
<1>16. Maps(d, i)'
  <2>1. \A y \in Faces : Arrived(d, y, i)' = {} BY <1>2, <1>9, <1>13, CallTypes
  <2>2. Asking(d, q) /\ ~ q.req /\ ~ q.sent /\ q.at = 15
    <3>1. Asking(c, q) BY <1>4, <1>6 DEF Asking
    <3> QED BY <1>2, <1>4, <1>6, <1>7, <1>9, <1>p, <3>1, SameFacts
  <2>3. ~ OverAt(d, q, "fac")
    <3>1. ~ OverAt(c, q, "fac") BY <1>4, SentFacts
    <3> QED BY <1>7, <3>1, SameFacts, CallTypes
  <2>4. Nbr[i] = {} => Fac[i] = {} BY <1>2, NbrFacts
  <2> QED BY <1>7, <1>m, <2>1, <2>2, <2>3, <2>4 DEF Maps
<1>17. EndSays(c, q, i)'
  <2>1. /\ trigger[i][done("ref")] = 0 /\ trigger[i][done("resize")] = 0
        /\ trigger[i][done("diag")] \in {0, 1} /\ (trigger[i][done("diag")] = 1 => p.diag = 3)
    BY <1>2, <1>3, <1>4, <1>p DEF Signalled
  <2>2. /\ trigger'[i][done("ref")] = trigger[i][done("ref")] + 1
        /\ trigger'[i][done("resize")] = trigger[i][done("resize")] + 0
        /\ trigger'[i][done("diag")] = trigger[i][done("diag")] + 0
    <3>1. \A t \in Trigger : trigger'[i][t] = trigger[i][t] + (IF t \in e.triggers THEN 1 ELSE 0) BY <1>8 DEF Acts
    <3>2. done("ref") \in Trigger /\ done("resize") \in Trigger /\ done("diag") \in Trigger BY TriggersAre
    <3>3. done("ref") \in e.triggers /\ done("resize") \notin e.triggers /\ done("diag") \notin e.triggers
      <4>1. "ref" # "resize" /\ "ref" # "diag" OBVIOUS
      <4> QED BY <1>e, <4>1, TriggersDiffer
    <3> QED BY <3>1, <3>2, <3>3
  <2> QED BY <1>6, <2>1, <2>2 DEF EndSays
<1>18. Expects(d)'
  <2>1. ASSUME NEW k \in msgs \cap msgs', k.to = i, k = [type |-> k.type, to |-> i], Due(p, k) PROVE Due(q, k)
    <3>1. k # m BY <1>8, <2>1
    <3>2. k.type # "eval" BY <1>2, <2>1, <3>1
    <3> QED BY <1>4, <1>6, <2>1, <3>2 DEF Due
  <2>2. \A k \in msgs \cap msgs' : k.type = "write" /\ k.to = i => q.at = p.at BY <1>6
  <2>3. \A k \in msgs' \ msgs : \E y \in DGKind : k.type = CallOf[y] BY <1>8
  <2> QED BY <1>2, <1>3, <1>7, <1>p, <2>1, <2>2, <2>3, ExpectsMoves
<1>19. Turns(c, d, i)
  <2>1. \A t \in Trigger : t \notin {done("diag"), done("ref"), done("resize")} => trigger'[i][t] = trigger[i][t]
    <3>1. trigger \in [Object -> [Trigger -> Int]] /\ i \in Object BY <1>2, <1>3, ObjectFacts DEF Shape
    <3>2. \A t \in Trigger : trigger[i][t] \in Int BY <3>1
    <3>3. \A t \in Trigger : t # done("ref") => trigger'[i][t] = trigger[i][t] + 0 BY <1>8, <1>e DEF Acts
    <3> QED BY <3>2, <3>3
  <2>2. \A y \in DGKind \ {"vol"} : Arrived(d, y, i)' = Arrived(c, y, i) BY <1>2, <1>13
  <2>3. c.of[i].at = 15 /\ d.of[i].at = 15 /\ d.of[i].req = c.of[i].req /\ d.of[i].sent = c.of[i].sent
    BY <1>4, <1>6, <1>7, <1>p
  <2> QED BY <1>13, <1>m, <2>1, <2>2, <2>3 DEF Turns
<1>20. Fits(c, d.of[i]) /\ EndSays(c, d.of[i], i)'
  <2>1. EndSays(c, d.of[i], i)' BY <1>7, <1>17
  <2> QED BY <1>7, <1>12, <2>1
<1> QED BY <1>2, <1>7, <1>11, <1>14, <1>15, <1>16, <1>18, <1>19, <1>20, Turning

LEMMA MeasuresKeeps ==
  ASSUME NEW c, DGInv(c), NEW d \in Config, NEW i \in Chare, Moves(c, d, i), NEW m \in msgs, NEW e,
         Measures(c, d, i, m, e)
  PROVE  DGInv(d)'
<1> DEFINE p == c.of[i]
           q == d.of[i]
<1>p. p = c.of[i] /\ q = d.of[i] OBVIOUS
<1>1. /\ p.vol \in 1 .. 3 /\ q.at = 15 /\ q.diag = p.diag /\ q.ref = 3 /\ q.req = p.req /\ q.sent = p.sent
      /\ IF p.vol = 3 THEN q.vol \in 3 .. 4 ELSE q.vol \in 1 .. 2
      /\ m.to = i /\ msgs' = (msgs \ {m}) \cup e.calls /\ Acts(i, {}, e)
      /\ \A n \in e.calls : n.type = CallOf["vol"]
      /\ e.triggers = {} /\ (\A a \in Array \ {"disc"} : TargetsOn(a, e) = <<>>)
      /\ UNCHANGED <<it, itr, finished, refined, stage, used, bndFace, ghostData, ghost, usol, ulim>>
  BY DEF Measures
<1>2. /\ (\A j \in Chare \ {i} : count'[j] = count[j]) /\ (\A y \in DGKind \ {"vol"} : count'[i][y] = count[i][y])
      /\ count' \in [Chare -> [DGKind -> Nat]]
      /\ m.type = "com" \/ m = [type |-> m.type, to |-> i]
      /\ \/ m.type = "com" /\ q.vol = p.vol
         \/ m.type = "vol" /\ p.vol = 1
         \/ m.type = "totalvol" /\ p.vol = 3
      /\ Traded(d, "vol")' /\ (\A j \in Chare \ {i} : Arrived(d, "vol", j)' = Arrived(c, "vol", j))
  BY DEF Measures
<1>c. /\ contrib'["disc"][i] \in IF q.vol = 4 THEN {<<"totalvol">>} ELSE IF q.vol = 3 THEN {<<>>} ELSE {<<>>, <<"vol">>}
      /\ q.vol \in {1, 2} /\ contrib'["disc"][i] = <<"vol">> =>
         Arrived(d, "vol", i)' = Nbr[i] /\ (Nbr[i] = {} => q.vol = 2)
  BY DEF Measures
<1>3. /\ Held(c, i, p)
      /\ Maps(c, i) /\ Expects(c)
  BY PartsOf
<1>4. /\ p.at = 15 /\ Made(c, p) /\ ~ finished /\ c.mesh >= 2 /\ p.ref = 3 /\ c.disc /\ c.work /\ Renews(c) /\ p.diag # 1
      /\ (c.mesh = 2 <=> p.vol \in 1 .. 2) /\ (c.mesh = 3 <=> p.vol \in 3 .. 4)
  <2>1. p.vol \in 1 .. 5 BY <1>1
  <2> QED BY <2>1, AtTheEnd
<1>5. SameRun(c, d) /\ c.mesh \in 0 .. 5 BY <1>3, ConfigIs DEF Moves
<1> HIDE DEF p, q
<1>6. Shape' /\ Alone(i)
  <2>1. Shape BY <1>3
  <2>2. /\ TriggerIs
        /\ ContribIs
    BY <1>1 DEF Acts
  <2>3. Shape' BY <1>1, <1>2, <2>1, <2>2 DEF Shape
  <2>4. Alone(i) BY <1>1, <1>2 DEF Alone, Acts
  <2> QED BY <2>3, <2>4
<1>7. Fits(c, q)
  <2>1. Made(c, q) <=> Made(c, p) BY <1>1, <1>4 DEF Made
  <2>2. (c.mesh = 2 /\ q.vol \in 1 .. 2) \/ (c.mesh = 3 /\ q.vol \in 3 .. 4) BY <1>1, <1>4
  <2> QED BY <1>1, <1>3, <1>4, <2>1, <2>2 DEF Fits
<1>8. \A y \in DGKind : Traded(d, y)' /\ \A j \in Chare : y # "vol" \/ j # i => Arrived(d, y, j)' = Arrived(c, y, j)
  <2>1. ASSUME NEW y \in DGKind \ {"vol"}
        PROVE  Keeps(c, d, y)
    <3>1. Letters(y)' = Letters(y) /\ \A j \in Chare : count'[j][y] = count[j][y]
      <4>1. CallOf[y] # CallOf["vol"] BY <2>1, CallTypes
      <4>2. m.type # CallOf[y] BY <1>2, <4>1, <2>1, CallTypes
      <4>3. Letters(y)' = Letters(y) BY <1>1, <4>1, <4>2 DEF Letters
      <4> QED BY <1>2, <2>1, <4>3
    <3>2. (SentAt(c, q, y) <=> SentAt(c, p, y)) /\ (OverAt(c, q, y) <=> OverAt(c, p, y))
      BY <1>1, <1>4, <2>1, CallTypes, SentFacts
    <3>3. (SentAt(c, d.of[i], y) <=> SentAt(c, c.of[i], y)) /\ (OverAt(c, d.of[i], y) => OverAt(c, c.of[i], y))
      BY <1>p, <3>2
    <3> QED BY <2>1, <3>1, <3>3, KindQuiet
  <2> QED BY <1>2, <2>1
<1>9. Contribution(d, i)'
  <2>1. WorkerPart(c, p) = WorkerPart(c, q) BY <1>1, <1>4 DEF WorkerPart
  <2>2. \A a \in {"worker", "refiner", "sync"} : contrib'[a][i] = contrib[a][i]
    BY <1>1, <1>3, ActsAdds, Arrays DEF ArrayIs
  <2>3. DiscParts(c, q) = IF q.vol = 4 THEN {<<"totalvol">>} ELSE IF q.vol = 3 THEN {<<>>} ELSE {<<>>, <<"vol">>}
    BY <1>1, <1>4 DEF DiscParts
  <2>4. contrib'["disc"][i] \in DiscParts(c, q) BY <1>c, <2>3
  <2>5. WorkerPart(d, q) = WorkerPart(c, p) /\ DiscParts(d, q) = DiscParts(c, q) BY <1>5, <2>1, SameFacts
  <2>6. q.at = 15 /\ p.at = 15 /\ q.ref = 3 /\ p.ref = 3 /\ finished' = finished BY <1>1, <1>4
  <2> QED BY <1>3, <1>c, <1>p, <2>2, <2>4, <2>5, <2>6 DEF Contribution
<1>10. Counters(d, i)'
  <2>1. Made(c, q) <=> Made(c, p) BY <1>1, <1>4 DEF Made
  <2>2. q.at = p.at /\ q.ref = p.ref BY <1>1, <1>4
  <2> QED BY <1>1, <1>3, <1>5, <1>p, <2>1, <2>2, CountersKept
<1>11. Maps(d, i)'
  <2>1. SameFace(c, d, i) BY <1>8, CallTypes
  <2>2. Asking(c, q) <=> Asking(c, p) BY <1>1, <1>4 DEF Asking
  <2>3. q.at = p.at BY <1>1, <1>4
  <2> QED BY <1>1, <1>3, <1>5, <1>p, <2>1, <2>2, <2>3, MapsKept
<1>12. trigger'[i] = trigger[i] BY <1>1, <1>3, ActsSilent
<1>13. EndSays(c, d.of[i], i)'
  <2>1. q.ref = 3 /\ q.diag = p.diag /\ p.vol # 6 BY <1>1
  <2> QED BY <1>3, <1>4, <1>12, <1>p, <2>1 DEF EndSays, Signalled
<1>14. Expects(d)'
  <2>1. ASSUME NEW k \in msgs \cap msgs', k.to = i, k = [type |-> k.type, to |-> i], Due(p, k) PROVE Due(q, k)
    <3>1. CASE q.vol = p.vol BY <1>1, <1>4, <2>1, <3>1 DEF Due
    <3>2. CASE q.vol # p.vol
      <4>1. m.type # "com" /\ m = [type |-> m.type, to |-> i] BY <1>2, <3>2
      <4>2. k.type # m.type
        <5>1. k \notin e.calls
          <6>1. CASE k \in e.calls
            <7>1. k.type = "com" BY <1>1, <6>1, CallTypes
            <7> QED BY <2>1, <7>1 DEF Due
          <6> QED BY <6>1
        <5> QED BY <1>1, <2>1, <4>1, <5>1
      <4>3. (p.vol = 1 /\ m.type = "vol") \/ (p.vol = 3 /\ m.type = "totalvol") BY <1>2, <4>1
      <4> QED BY <1>1, <1>4, <2>1, <4>2, <4>3 DEF Due
    <3> QED BY <3>1, <3>2
  <2>2. \A k \in msgs \cap msgs' : k.type = "write" /\ k.to = i => q.at = p.at BY <1>1, <1>4
  <2>3. \A k \in msgs' \ msgs : \E y \in DGKind : k.type = CallOf[y] BY <1>1, CallTypes
  <2> QED BY <1>3, <1>p, <2>1, <2>2, <2>3, ExpectsMoves
<1>15. Turns(c, d, i)
  <2>1. c.of[i].at = 15 /\ d.of[i].at = 15 /\ d.of[i].req = c.of[i].req /\ d.of[i].sent = c.of[i].sent
    BY <1>1, <1>4, <1>p
  <2>2. used'[i] = used[i] /\ usol'[i] = usol[i] /\ ulim'[i] = ulim[i] BY <1>1
  <2> QED BY <1>8, <1>12, <2>1, <2>2 DEF Turns
<1>16. Fits(c, d.of[i]) BY <1>7, <1>p
<1> QED BY <1>6, <1>9, <1>10, <1>11, <1>13, <1>14, <1>15, <1>16, Turning

\* Where a chare is that gets on with its volumes.
LEMMA Measuring ==
  ASSUME NEW c, DGInv(c), NEW i \in Chare, c.of[i].vol \in 1 .. 3, NEW vl \in 1 .. 4,
         NEW q, q = Turned(c.of[i], c.of[i].diag, 3, vl), NEW d, d = Put(c, i, q)
  PROVE  /\ q.at = 15 /\ q.diag = c.of[i].diag /\ q.ref = 3 /\ q.vol = vl /\ q.req = c.of[i].req /\ q.sent = c.of[i].sent
         /\ d \in Config /\ Moves(c, d, i) /\ d.of[i] = q /\ SameRun(c, d)
<1>1. c.of[i].at = 15 /\ c.of[i] \in Point /\ c.of[i].diag \in 0 .. 3
  <2>1. c \in Config BY PartsOf
  <2> QED BY <2>1, AtTheEnd, ConfigIs DEF Config
<1>2. /\ q.at = 15 /\ q.diag = c.of[i].diag /\ q.ref = 3 /\ q.vol = vl /\ q.req = c.of[i].req /\ q.sent = c.of[i].sent
      /\ q \in Point
  BY <1>1, TurnedIs
<1> QED BY <1>2, PutThere

\* What the volumes of chare i say of it.
LEMMA VolumeTags ==
  ASSUME NEW c, DGInv(c), NEW i \in Chare, c.of[i].ref = 3, c.mesh >= 2
  PROVE  ComCalls(i, "vol") = {Letter(c, "vol", i, j) : j \in Nbr[i]}
<1>1. itr[i] = Base(c) + 1 BY PartsOf DEF Counters
<1>2. Part(i, "vol") = [from |-> i, it |-> (Base(c) + 1) * DtFreq, itr |-> Base(c) + 1] BY <1>1 DEF Part, MeshKind
<1>3. \A j : Letter(c, "vol", i, j) = [type |-> "com", kind |-> "vol", to |-> j, part |-> Part(i, "vol")]
  BY <1>2 DEF Letter
<1> QED BY <1>3 DEF ComCalls

\* Discretization::vol
LEMMA VolKeeps ==
  ASSUME NEW c, DGInv(c), NEW m \in msgs, NEW i, i = m.to, Vol(i, m), UNCHANGED dgVars
  PROVE  \E d \in Config : DGInv(d)'
<1> DEFINE p == c.of[i]
           q == Turned(p, p.diag, 3, 2)
           d == Put(c, i, q)
           e == IF Nbr[i] = {} THEN Contributes("disc", "vol") ELSE Calls(ComCalls(i, "vol"))
<1>p. p = c.of[i] OBVIOUS
<1>1. /\ m.type = "vol" /\ Take(i, m, e)
      /\ UNCHANGED <<it, itr, finished, refined, count, stage, used, bndFace, ghostData, ghost, usol, ulim>>
  BY DEF Vol, Is, stepVars, dgVars, stageVars, meshVars, cellVars
<1>2. i \in Chare /\ m = [type |-> "vol", to |-> i] /\ p.vol = 1
  <2>1. m.type # "write" /\ \A y \in DGKind : m.type # CallOf[y] BY <1>1, CallTypes
  <2>2. m.to \in Chare /\ Plain(m) /\ Due(c.of[m.to], m) BY <2>1, PlainCall
  <2>3. Due(p, m) BY <2>2
  <2> HIDE DEF p
  <2> QED BY <1>1, <2>1, <2>2, <2>3 DEF Due
<1>q. q = Turned(p, p.diag, 3, 2) /\ d = Put(c, i, q) OBVIOUS
<1> HIDE DEF q, d, p
<1>3. /\ q.at = 15 /\ q.diag = p.diag /\ q.ref = 3 /\ q.vol = 2 /\ q.req = p.req /\ q.sent = p.sent
      /\ d \in Config /\ Moves(c, d, i) /\ d.of[i] = q /\ SameRun(c, d)
  <2>1. c.of[i].vol \in 1 .. 3 BY <1>2, <1>p
  <2>2. q = Turned(c.of[i], c.of[i].diag, 3, 2) BY <1>p, <1>q
  <2> QED BY <1>2, <1>p, <1>q, <2>1, <2>2, Measuring
<1>4. /\ Shape /\ Contribution(c, i) /\ Traded(c, "vol") /\ count \in [Chare -> [DGKind -> Nat]]
  BY <1>2, PartsOf, CallTypes DEF Shape
<1>5. c.mesh = 2 /\ p.ref = 3 /\ p.diag # 1 /\ c.disc /\ p.at = 15
  <2>1. c.of[i].vol \in 1 .. 5 BY <1>2, <1>p
  <2> QED BY <1>2, <1>p, <2>1, AtTheEnd
<1>6. /\ e.calls = {Letter(c, "vol", i, j) : j \in Nbr[i]} /\ e.triggers = {}
      /\ \A a \in Array : TargetsOn(a, e) = IF a = "disc" /\ Nbr[i] = {} THEN <<"vol">> ELSE <<>>
  <2>1. ComCalls(i, "vol") = {Letter(c, "vol", i, j) : j \in Nbr[i]}
    <3>1. c.of[i].ref = 3 /\ c.mesh >= 2 BY <1>5, <1>p
    <3> QED BY <1>2, <3>1, VolumeTags
  <2> QED BY <2>1, EffectFacts
<1> HIDE DEF e
<1>7. msgs' = (msgs \ {m}) \cup e.calls /\ Acts(i, {}, e) BY <1>1, <1>2, <1>4, Taking
<1>8. Traded(d, "vol")' /\ \A j \in Chare : Arrived(d, "vol", j)' = Arrived(c, "vol", j)
  <2>0. "vol" \in DGKind /\ SameTags(c, d, "vol") /\ From("vol", i) = Nbr[i]
    BY <1>3, CallTypes, SameFacts DEF Moves, From
  <2>1. Letters("vol")' = Letters("vol") \cup {Letter(c, "vol", i, j) : j \in From("vol", i)}
    <3>1. \A k \in e.calls : k.type = CallOf["vol"] BY <1>6, <2>0, LetterFacts
    <3>2. m.type # CallOf["vol"] BY <1>1, CallTypes
    <3> QED BY <1>6, <1>7, <2>0, <3>1, <3>2 DEF Letters
  <2>2. ~ SentAt(c, p, "vol") /\ SentAt(c, q, "vol") /\ ~ OverAt(c, q, "vol") BY <1>2, <1>3, SentFacts
  <2>3. \A j \in Chare : SentAt(d, d.of[j], "vol") <=> j = i \/ SentAt(c, c.of[j], "vol")
    BY <1>3, <2>0, <2>2, SameFacts DEF Moves
  <2>4. \A j \in Chare : OverAt(d, d.of[j], "vol") => OverAt(c, c.of[j], "vol") \/ Arrived(c, "vol", j) = From("vol", j)
    BY <1>3, <2>0, <2>2, SameFacts DEF Moves
  <2>5. \A j \in Chare : count'[j]["vol"] = count[j]["vol"] BY <1>1
  <2>6. ~ SentAt(c, c.of[i], "vol") BY <1>p, <2>2
  <2> QED BY <1>2, <1>4, <2>0, <2>1, <2>3, <2>4, <2>5, <2>6, SendsOff
<1>9. /\ contrib["disc"][i] \in {<<>>, <<"vol">>}
      /\ contrib["disc"][i] = <<"vol">> => Arrived(c, "vol", i) = Nbr[i] /\ Nbr[i] # {}
  <2>1. contrib["disc"][i] \in DiscParts(c, p) BY <1>4, <1>p DEF Contribution
  <2>2. DiscParts(c, p) = {<<>>, <<"vol">>} BY <1>2, <1>5 DEF DiscParts
  <2>3. contrib["disc"][i] = <<"vol">> => Arrived(c, "vol", i) = Nbr[i] /\ (Nbr[i] = {} => p.vol = 2)
    BY <1>2, <1>4, <1>p DEF Contribution
  <2> QED BY <1>2, <2>1, <2>2, <2>3
<1>10. /\ contrib'["disc"][i] \in {<<>>, <<"vol">>}
       /\ contrib'["disc"][i] = <<"vol">> => Arrived(d, "vol", i)' = Nbr[i]
  <2>1. CASE Nbr[i] = {}
    <3>1. contrib["disc"][i] = <<>> BY <1>9, <2>1
    <3>2. contrib'["disc"][i] = <<"vol">> BY <1>2, <1>4, <1>6, <1>7, <2>1, <3>1, ActsAdds, Arrays DEF ArrayIs
    <3>3. Arrived(c, "vol", i) = {} BY <2>1 DEF Arrived, From
    <3> QED BY <1>2, <1>8, <2>1, <3>2, <3>3
  <2>2. CASE Nbr[i] # {}
    <3>1. SameTargets("disc", i) BY <1>2, <1>4, <1>6, <1>7, <2>2, ActsAdds, Arrays DEF ArrayIs
    <3> QED BY <1>2, <1>8, <1>9, <3>1
  <2> QED BY <2>1, <2>2
<1>11. Measures(c, d, i, m, e)
  <2>1. c.of[i].vol = 1 /\ d.of[i] = q /\ c.of[i] = p BY <1>2, <1>3, <1>p
  <2>2. \A n \in e.calls : n.type = CallOf["vol"] BY <1>6, CallTypes, LetterFacts
  <2>3. \A a \in Array \ {"disc"} : TargetsOn(a, e) = <<>> BY <1>6
  <2>4. /\ p.vol \in 1 .. 3 /\ q.at = 15 /\ q.diag = p.diag /\ q.ref = 3 /\ q.req = p.req /\ q.sent = p.sent
        /\ IF p.vol = 3 THEN q.vol \in 3 .. 4 ELSE q.vol \in 1 .. 2
        /\ m.to = i /\ (m.type = "com" \/ m = [type |-> m.type, to |-> i])
        /\ m.type = "vol" /\ p.vol = 1 /\ q.vol = 2
    BY <1>1, <1>2, <1>3
  <2>5. count' \in [Chare -> [DGKind -> Nat]] /\ count' = count BY <1>1, <1>4
  <2> QED BY <1>1, <1>6, <1>7, <1>8, <1>10, <2>1, <2>2, <2>3, <2>4, <2>5 DEF Measures
<1> QED BY <1>2, <1>3, <1>11, MeasuresKeeps

\* Discretization::totalvol
LEMMA TotalVolKeeps ==
  ASSUME NEW c, DGInv(c), NEW m \in msgs, NEW i, i = m.to, TotalVol(i, m), UNCHANGED dgVars
  PROVE  \E d \in Config : DGInv(d)'
<1> DEFINE p == c.of[i]
           q == Turned(p, p.diag, 3, 4)
           d == Put(c, i, q)
           e == Contributes("disc", "totalvol")
<1>p. p = c.of[i] OBVIOUS
<1>1. /\ m.type = "totalvol" /\ Take(i, m, e)
      /\ UNCHANGED <<it, itr, finished, refined, count, stage, used, bndFace, ghostData, ghost, usol, ulim>>
  BY DEF TotalVol, Is, stepVars, dgVars, stageVars, meshVars, cellVars
<1>2. i \in Chare /\ m = [type |-> "totalvol", to |-> i] /\ p.vol = 3
  <2>1. m.type # "write" /\ \A y \in DGKind : m.type # CallOf[y] BY <1>1, CallTypes
  <2>2. m.to \in Chare /\ Plain(m) /\ Due(c.of[m.to], m) BY <2>1, PlainCall
  <2>3. Due(p, m) BY <2>2
  <2> HIDE DEF p
  <2> QED BY <1>1, <2>1, <2>2, <2>3 DEF Due
<1>q. q = Turned(p, p.diag, 3, 4) /\ d = Put(c, i, q) OBVIOUS
<1>6. e.calls = {} /\ e.triggers = {} /\ \A a \in Array : TargetsOn(a, e) = IF a = "disc" THEN <<"totalvol">> ELSE <<>>
  BY EffectFacts
<1> HIDE DEF q, d, p, e
<1>3. /\ q.at = 15 /\ q.diag = p.diag /\ q.ref = 3 /\ q.vol = 4 /\ q.req = p.req /\ q.sent = p.sent
      /\ d \in Config /\ Moves(c, d, i) /\ d.of[i] = q /\ SameRun(c, d)
  <2>1. c.of[i].vol \in 1 .. 3 BY <1>2, <1>p
  <2>2. q = Turned(c.of[i], c.of[i].diag, 3, 4) BY <1>p, <1>q
  <2> QED BY <1>2, <1>p, <1>q, <2>1, <2>2, Measuring
<1>4. /\ Shape /\ Contribution(c, i) /\ Traded(c, "vol") /\ count \in [Chare -> [DGKind -> Nat]]
  BY <1>2, PartsOf, CallTypes DEF Shape
<1>5. p.ref = 3 /\ p.diag # 1 /\ c.disc /\ p.at = 15
  <2>1. c.of[i].vol \in 1 .. 5 BY <1>2, <1>p
  <2> QED BY <1>2, <1>p, <2>1, AtTheEnd
<1>7. msgs' = (msgs \ {m}) \cup e.calls /\ Acts(i, {}, e) BY <1>1, <1>2, <1>4, Taking
<1>8. Traded(d, "vol")' /\ \A j \in Chare : Arrived(d, "vol", j)' = Arrived(c, "vol", j)
  <2>1. "vol" \in DGKind /\ Letters("vol")' = Letters("vol")
    <3>1. m.type # CallOf["vol"] BY <1>1, CallTypes
    <3> QED BY <1>6, <1>7, <3>1, CallTypes DEF Letters
  <2>2. /\ SentAt(c, d.of[i], "vol") <=> SentAt(c, c.of[i], "vol")
        /\ OverAt(c, d.of[i], "vol") => OverAt(c, c.of[i], "vol")
    BY <1>2, <1>3, <1>p, SentFacts
  <2>3. \A j \in Chare : count'[j]["vol"] = count[j]["vol"] BY <1>1
  <2> QED BY <1>2, <1>3, <2>1, <2>2, <2>3, KindQuiet
<1>9. contrib'["disc"][i] = <<"totalvol">>
  <2>1. contrib["disc"][i] \in DiscParts(c, p) BY <1>4, <1>p DEF Contribution
  <2>2. DiscParts(c, p) = {<<>>} BY <1>2, <1>5 DEF DiscParts
  <2>3. contrib["disc"][i] = <<>> BY <2>1, <2>2
  <2> QED BY <1>2, <1>4, <1>6, <1>7, <2>3, ActsAdds, Arrays DEF ArrayIs
<1>11. Measures(c, d, i, m, e)
  <2>1. c.of[i].vol = 3 /\ d.of[i] = q /\ c.of[i] = p BY <1>2, <1>3, <1>p
  <2>2. \A n \in e.calls : n.type = CallOf["vol"] BY <1>6
  <2>3. \A a \in Array \ {"disc"} : TargetsOn(a, e) = <<>> BY <1>6
  <2>4. /\ p.vol \in 1 .. 3 /\ q.at = 15 /\ q.diag = p.diag /\ q.ref = 3 /\ q.req = p.req /\ q.sent = p.sent
        /\ IF p.vol = 3 THEN q.vol \in 3 .. 4 ELSE q.vol \in 1 .. 2
        /\ m.to = i /\ (m.type = "com" \/ m = [type |-> m.type, to |-> i])
        /\ m.type = "totalvol" /\ p.vol = 3 /\ q.vol = 4
    BY <1>1, <1>2, <1>3
  <2>5. count' \in [Chare -> [DGKind -> Nat]] /\ count' = count BY <1>1, <1>4
  <2> QED BY <1>1, <1>6, <1>7, <1>8, <1>9, <2>1, <2>2, <2>3, <2>4, <2>5 DEF Measures
<1> QED BY <1>2, <1>3, <1>11, MeasuresKeeps

\* Discretization::comvol
LEMMA ComvolKeeps ==
  ASSUME NEW c, DGInv(c), NEW m \in msgs, NEW i, i = m.to, Comvol(i, m), UNCHANGED dgVars
  PROVE  DGInv(c)'
<1> DEFINE p == c.of[i]
           last == count[i]["vol"] + 1 = Cardinality(Nbr[i])
           e == IF last THEN Contributes("disc", "vol") ELSE Nothing
           n == IF last THEN 0 ELSE count[i]["vol"] + 1
<1>p. p = c.of[i] OBVIOUS
<1>1. /\ m.type = "com" /\ Take(i, m, e) /\ count' = [count EXCEPT ![i]["vol"] = n]
      /\ UNCHANGED <<it, itr, finished, refined, stage, used, bndFace, ghostData, ghost, usol, ulim>>
  BY DEF Comvol, Receive, Is, Heard, stepVars, dgVars, stageVars, meshVars, cellVars
<1>2. "vol" \in DGKind /\ m.type = CallOf["vol"] /\ From("vol", i) = Nbr[i] BY <1>1, CallTypes DEF From
<1>3. m \in Letters("vol") /\ Traded(c, "vol") /\ c \in Config /\ Shape BY <1>2, PartsOf DEF Letters
<1>4. /\ i \in Chare /\ ~ OverAt(c, p, "vol")
      /\ \E j \in From("vol", i) : SentAt(c, c.of[j], "vol")
  BY <1>2, <1>3, Sender
<1>5. c.mesh = 2 /\ p.vol \in 1 .. 2
  <2>1. PICK j \in Nbr[i] : c.of[j].vol >= 2 BY <1>2, <1>4, SentFacts
  <2>2. j \in Chare BY <1>4, <2>1, NbrFacts
  <2>3. ~ (p.vol >= 3) BY <1>4, SentFacts
  <2>4. Fits(c, c.of[j]) /\ Fits(c, p) /\ c.mesh \in 0 .. 5 BY <1>3, <1>4, <2>2, PartsOf, ConfigIs
  <2> HIDE DEF p
  <2>5. c.of[j].vol \in Vols(c)
    BY <2>4 DEF Fits
  <2>6. p.vol \in Vols(c)
    BY <2>4 DEF Fits
  <2>7. c.mesh >= 2 BY <2>1, <2>4, <2>5
  <2>8. c.mesh = 2 BY <2>3, <2>4, <2>6, <2>7
  <2> QED BY <2>6, <2>8
<1>6. p.at = 15 /\ p.ref = 3 /\ p.diag # 1 /\ c.disc
  <2>1. c.of[i].vol \in 1 .. 5 BY <1>5
  <2> QED BY <1>4, <2>1, AtTheEnd
<1>7. n \in Nat /\ count \in [Chare -> [DGKind -> Nat]] BY <1>2, <1>3, <1>4 DEF Shape
<1>8. /\ e.calls = {} /\ e.triggers = {} /\ (\A a \in Array \ {"disc"} : TargetsOn(a, e) = <<>>)
      /\ TargetsOn("disc", e) = IF last THEN <<"vol">> ELSE <<>>
  <2> HIDE DEF last
  <2> QED BY EffectFacts
<1>n. n = IF last THEN 0 ELSE count[i]["vol"] + 1 OBVIOUS
<1>l. last <=> count[i]["vol"] + 1 = Cardinality(Nbr[i]) OBVIOUS
<1> HIDE DEF p, n, e, last
<1>9. msgs' = (msgs \ {m}) \cup e.calls /\ Acts(i, {}, e) BY <1>1, <1>3, <1>4, Taking
<1>10. /\ count' \in [Chare -> [DGKind -> Nat]] /\ (\A j \in Chare \ {i} : count'[j] = count[j])
       /\ count'[i]["vol"] = n /\ \A y \in DGKind \ {"vol"} : count'[i][y] = count[i][y]
  BY <1>1, <1>2, <1>4, <1>7, CountsOne
<1>11. Moves(c, c, i) /\ SameRun(c, c) BY <1>4, StaysThere
<1>12. Hears(c, c, i, m, "vol", {})
  <2>1. count'[i]["vol"] = IF count[i]["vol"] + 1 = Cardinality(From("vol", i)) THEN 0 ELSE count[i]["vol"] + 1
    BY <1>2, <1>10, <1>l, <1>n
  <2>2. \A j \in Chare \ {i} : count'[j]["vol"] = count[j]["vol"] BY <1>10
  <2>3. msgs' = (msgs \ {m}) \cup {} BY <1>8, <1>9
  <2> QED BY <1>2, <2>1, <2>2, <2>3 DEF Hears
<1>13. /\ Traded(c, "vol")' /\ \A j \in Chare \ {i} : Arrived(c, "vol", j)' = Arrived(c, "vol", j)
       /\ last <=> Arrived(c, "vol", i)' = Nbr[i]
       /\ Arrived(c, "vol", i) # Nbr[i]
  BY <1>2, <1>4, <1>11, <1>12, <1>l, HearsOne
<1>14. contrib["disc"][i] = <<>>
  <2>1. Contribution(c, i) BY <1>4, PartsOf
  <2>2. contrib["disc"][i] \in DiscParts(c, p) BY <1>p, <2>1 DEF Contribution
  <2>3. DiscParts(c, p) = {<<>>, <<"vol">>} BY <1>5, <1>6 DEF DiscParts
  <2>4. contrib["disc"][i] # <<"vol">> BY <1>5, <1>13, <1>p, <2>1 DEF Contribution
  <2> QED BY <2>2, <2>3, <2>4
<1>15. contrib'["disc"][i] = IF last THEN <<"vol">> ELSE <<>>
  <2>1. Contribution(c, i) BY <1>4, PartsOf
  <2> QED BY <1>4, <1>8, <1>9, <1>14, <2>1, ActsAdds, Arrays DEF ArrayIs
<1>16. Measures(c, c, i, m, e)
  <2>1. last => Nbr[i] # {}
    <3>1. ASSUME Nbr[i] = {} PROVE FALSE
      <4>1. Arrived(c, "vol", i) = {} BY <3>1 DEF Arrived, From
      <4> QED BY <1>13, <3>1, <4>1
    <3> QED BY <3>1
  <2>2. contrib'["disc"][i] = <<"vol">> => last
    <3>1. <<>> # <<"vol">> OBVIOUS
    <3>2. CASE last BY <3>2
    <3>3. CASE ~ last BY <1>15, <3>1, <3>3
    <3> QED BY <3>2, <3>3
  <2>3. c.of[i].vol \in 1 .. 2 /\ c.of[i].at = 15 /\ c.of[i].ref = 3 BY <1>5, <1>6, <1>p
  <2>4. contrib'["disc"][i] \in {<<>>, <<"vol">>} BY <1>15
  <2> QED BY <1>1, <1>8, <1>9, <1>10, <1>13, <2>1, <2>2, <2>3, <2>4 DEF Measures
<1> QED BY <1>3, <1>4, <1>11, <1>16, MeasuresKeeps

\* A chare that is to update its solution.
LEMMA AtSolve ==
  ASSUME NEW c, DGInv(c), NEW i \in Chare, c.of[i].at = 14
  PROVE  /\ c.phase = 4 /\ c.mesh = 0 /\ ~ c.diagnosed /\ ~ c.disc /\ ~ c.work /\ ~ finished
         /\ ~ Made(c, c.of[i]) /\ c.of[i].diag = 0 /\ c.of[i].ref = 0 /\ c.of[i].vol = 0
         /\ it[i] = c.it /\ stage[i] = c.st /\ itr[i] = Base(c)
         /\ contrib["worker"][i] = <<>> /\ contrib["disc"][i] = <<>> /\ contrib["refiner"][i] = <<>>
<1> DEFINE p == c.of[i]
<1>p. p = c.of[i] OBVIOUS
<1>1. /\ c \in Config /\ Fits(c, p) /\ Counters(c, i) /\ Together(c) /\ Contribution(c, i) /\ (finished => p.at = 24)
  BY PartsOf
<1>2. /\ c.phase \in 0 .. 4 /\ c.mesh \in 0 .. 5 /\ c.st \in 0 .. 2 BY <1>1, ConfigIs
<1>3. p.at = 14 OBVIOUS
<1> HIDE DEF p
<1>4. c.phase = 4 BY <1>1, <1>2, <1>3 DEF Fits
<1>5. ~ Made(c, p) BY <1>3 DEF Made
<1>6. c.mesh = 0 /\ ~ c.diagnosed BY <1>1, <1>2, <1>5 DEF Fits
<1>7. ~ c.disc /\ ~ c.work BY <1>1, <1>6 DEF Together
<1>8. p.diag = 0 /\ p.ref = 0 /\ p.vol = 0 BY <1>1, <1>5, <1>6 DEF Fits
<1>9. it[i] = c.it /\ stage[i] = c.st /\ itr[i] = Base(c) /\ ~ finished BY <1>1, <1>3, <1>5, <1>8, <1>p DEF Counters
<1>10. contrib["worker"][i] = <<>> /\ contrib["disc"][i] = <<>> /\ contrib["refiner"][i] = <<>>
  <2>1. WorkerPart(c, p) = <<>> /\ DiscParts(c, p) = {<<>>} BY <1>3, <1>8 DEF WorkerPart, DiscParts
  <2> QED BY <1>1, <1>8, <1>9, <1>p, <2>1 DEF Contribution
<1> QED BY <1>4, <1>5, <1>6, <1>7, <1>8, <1>9, <1>10, <1>p

\* The update uses the cells of the stage.
LEMMA UpdateKeeps ==
  ASSUME NEW c, DGInv(c), NEW i \in Chare, c.of[i].at = 14, Update(i), NEW d, SameRun(c, d), d.of[i].at >= 15
  PROVE  Updated(d, i)'
<1> DEFINE s == [sol |-> usol[i], lim |-> ulim[i], it |-> it[i], stage |-> stage[i], itr |-> itr[i]]
<1>1. used'[i] = {s}
  <2>1. used = [j \in Chare |-> used[j]] BY PartsOf DEF Shape
  <2> QED BY <2>1 DEF Update
<1>2. it[i] = c.it /\ stage[i] = c.st /\ itr[i] = Base(c) BY AtSolve
<1>3. Ghosts(c, i) BY PartsOf
<1>4. usol[i] = CellsOf(c, Fac[i])
  <2>1. {x \in usol[i] : x.from \in Fac[i]} = CellsOf(c, Fac[i]) BY <1>3 DEF Ghosts
  <2>2. \A x \in usol[i] : x.from \in Fac[i] BY <1>3 DEF Ghosts
  <2> QED BY <2>1, <2>2
<1>5. ulim[i] = IF Ndof > 1 THEN CellsOf(c, Fac[i]) ELSE {}
  <2>1. CASE Ndof > 1
    <3>1. {x \in ulim[i] : x.from \in Fac[i]} = CellsOf(c, Fac[i]) BY <1>3, <2>1 DEF Ghosts
    <3>2. \A x \in ulim[i] : x.from \in Fac[i] BY <1>3 DEF Ghosts
    <3> QED BY <2>1, <3>1, <3>2
  <2>2. CASE ~ (Ndof > 1)
    <3>1. Ndof = 1 BY <2>2, DGAssumption
    <3> QED BY <1>3, <2>2, <3>1 DEF Ghosts
  <2> QED BY <2>1, <2>2
<1>6. s.sol = usol[i] /\ s.lim = ulim[i] /\ s.it = c.it /\ s.stage = c.st /\ s.itr = Base(c) BY <1>2
<1> HIDE DEF s
<1>7. CellsOf(c, Fac[i]) = Current(i, s) BY <1>6 DEF CellsOf, Current, Base
<1>8. /\ s.sol = Current(i, s) /\ s.itr = MeshOf(s.it) /\ s.lim = (IF Ndof > 1 THEN Current(i, s) ELSE {})
      /\ s.it = d.it /\ s.stage = d.st
  BY <1>4, <1>5, <1>6, <1>7 DEF Base, SameRun
<1> QED BY <1>1, <1>8 DEF Updated

\* A trigger that ends a step, after an update.
LEMMA FreshSignals ==
  ASSUME NEW c, DGInv(c), NEW i \in Chare, c.of[i].at = 14, NEW e, Acts(i, {}, e)
  PROVE  /\ \A x \in {"init", "sol", "lim"} : own(x) \notin e.triggers => trigger'[i][own(x)] = 0
         /\ \A x \in {"init", "sol", "lim"} : com(x) \notin e.triggers => trigger'[i][com(x)] = 0
         /\ \A x \in {"diag", "ref", "resize"} : trigger'[i][done(x)] = IF done(x) \in e.triggers THEN 1 ELSE 0
         /\ own("ghost") \notin e.triggers => trigger'[i][own("ghost")] = trigger[i][own("ghost")]
         /\ com("ghost") \notin e.triggers => trigger'[i][com("ghost")] = trigger[i][com("ghost")]
<1>1. Signalled(c, i) BY PartsOf
<1>2. /\ \A x \in {"init", "sol", "lim"} : trigger[i][own(x)] = 0 /\ trigger[i][com(x)] = 0
      /\ \A x \in {"diag", "ref", "resize"} : trigger[i][done(x)] = 0
      /\ trigger[i][own("ghost")] \in {0, 1} /\ trigger[i][com("ghost")] \in {0, 1}
  BY <1>1 DEF Signalled
<1>3. \A t \in Trigger : trigger'[i][t] = trigger[i][t] + (IF t \in e.triggers THEN 1 ELSE 0) BY DEF Acts
<1>4. \A x \in {"init", "sol", "lim"} : own(x) \notin e.triggers => trigger'[i][own(x)] = 0 BY <1>2, <1>3, TriggersAre
<1>5. \A x \in {"init", "sol", "lim"} : com(x) \notin e.triggers => trigger'[i][com(x)] = 0 BY <1>2, <1>3, TriggersAre
<1>6. \A x \in {"diag", "ref", "resize"} : trigger'[i][done(x)] = IF done(x) \in e.triggers THEN 1 ELSE 0
  BY <1>2, <1>3, TriggersAre
<1>7. /\ own("ghost") \notin e.triggers => trigger'[i][own("ghost")] = trigger[i][own("ghost")]
      /\ com("ghost") \notin e.triggers => trigger'[i][com("ghost")] = trigger[i][com("ghost")]
  BY <1>2, <1>3, TriggersAre
<1> QED BY <1>4, <1>5, <1>6, <1>7

LEMMA SolvesKeeps ==
  ASSUME NEW c, DGInv(c), NEW d \in Config, NEW i \in Chare, Moves(c, d, i), NEW m \in msgs, NEW e,
         Solves(c, d, i, m, e), Fits(c, d.of[i]), Counters(d, i)', Contribution(d, i)'
  PROVE  DGInv(d)'
<1> DEFINE p == c.of[i]
           q == d.of[i]
<1>p. p = c.of[i] /\ q = d.of[i] OBVIOUS
<1>1. /\ p.at = 14 /\ q.at \in {15, 22} /\ q.vol = 0 /\ q.req = p.req /\ q.sent = p.sent /\ q.ref \in 0 .. 1
      /\ m = [type |-> "solve", to |-> i] /\ msgs' = msgs \ {m} /\ Acts(i, {}, e) /\ Update(i)
      /\ UNCHANGED <<itr, finished, count, bndFace, ghostData, ghost, usol, ulim>>
      /\ it' \in [Chare -> Nat] /\ stage' \in [Chare -> Nat] /\ refined' \in [Chare -> BOOLEAN]
      /\ (\A j \in Chare \ {i} : it'[j] = it[j] /\ stage'[j] = stage[j] /\ refined'[j] = refined[j])
  BY DEF Solves
<1>2. /\ e.triggers \subseteq {done("diag"), done("ref"), done("resize")}
      /\ q.at = 22 => e.triggers = {}
      /\ done("diag") \in e.triggers => q.diag = 3
      /\ done("ref") \in e.triggers \/ done("resize") \in e.triggers => ~ Renews(c)
  BY DEF Solves
<1>3. /\ Shape /\ Expects(c) /\ Signalled(c, i) /\ Maps(c, i) /\ Ghosts(c, i) BY PartsOf
<1>4. SameRun(c, d) BY DEF Moves
<1>5. /\ c.phase = 4 /\ c.mesh = 0 /\ p.diag = 0 /\ p.ref = 0 /\ p.vol = 0 /\ ~ finished BY <1>1, AtSolve
<1> HIDE DEF p, q
<1>6. Shape' /\ Alone(i)
  <2>1. Shape BY <1>3
  <2>2. /\ TriggerIs
        /\ ContribIs
    BY <1>1 DEF Acts
  <2>3. used' = [j \in Chare |-> used'[j]] /\ \A j \in Chare \ {i} : used'[j] = used[j]
    BY <1>1, <2>1 DEF Update, Shape
  <2>4. Shape' BY <1>1, <2>1, <2>2, <2>3 DEF Shape
  <2>5. Alone(i) BY <1>1, <2>3 DEF Alone, Acts
  <2> QED BY <2>4, <2>5
<1>7. \A y \in DGKind : Keeps(c, d, y)
  <2>1. ASSUME NEW y \in DGKind
        PROVE  Keeps(c, d, y)
    <3>1. Letters(y)' = Letters(y) /\ \A j \in Chare : count'[j][y] = count[j][y]
      <4>1. m.type # CallOf[y] BY <1>1, CallTypes
      <4> QED BY <1>1, <4>1 DEF Letters
    <3>2. (SentAt(c, q, y) <=> SentAt(c, p, y)) /\ (OverAt(c, q, y) <=> OverAt(c, p, y))
      BY <1>1, <1>5, <2>1, CallTypes, SentFacts
    <3>3. (SentAt(c, d.of[i], y) <=> SentAt(c, c.of[i], y)) /\ (OverAt(c, d.of[i], y) => OverAt(c, c.of[i], y))
      BY <1>p, <3>2
    <3> QED BY <2>1, <3>1, <3>3, KindQuiet
  <2> QED BY <2>1
<1>8. Maps(d, i)'
  <2>1. SameFace(c, d, i) BY <1>7, CallTypes
  <2>2. Asking(c, q) <=> Asking(c, p) BY <1>1, <1>5 DEF Asking
  <2>3. q.at \notin {1, 16, 2, 17} BY <1>1
  <2> QED BY <1>1, <1>3, <1>4, <1>p, <2>1, <2>2, <2>3, MapsKept
<1>9. Ghosts(d, i)'
  <2>1. \A y \in {"sol", "lim"} : Arrived(d, y, i)' = Arrived(c, y, i) BY <1>7, CallTypes
  <2>2. q.at \notin 10 .. 14 BY <1>1
  <2> QED BY <1>1, <1>3, <1>4, <1>p, <2>1, <2>2, GhostsKept
<1>10. Updated(d, i)' BY <1>1, <1>4, <1>p, UpdateKeeps
<1>11. Signalled(d, i)'
  <2>1. /\ \A x \in {"init", "sol", "lim"} : trigger'[i][own(x)] = 0 /\ trigger'[i][com(x)] = 0
        /\ trigger'[i][own("ghost")] = trigger[i][own("ghost")] /\ trigger'[i][com("ghost")] = trigger[i][com("ghost")]
    <3>1. /\ \A x : own(x) \notin e.triggers /\ com(x) \notin e.triggers BY <1>2, TriggersDiffer
    <3> QED BY <1>1, <1>p, <3>1, FreshSignals
  <2>2. \A x \in {"diag", "ref", "resize"} : trigger'[i][done(x)] = IF done(x) \in e.triggers THEN 1 ELSE 0
    BY <1>1, <1>p, FreshSignals
  <2>3. Arrived(d, "req", i)' = Arrived(c, "req", i) /\ Renews(d) = Renews(c) BY <1>4, <1>7, SameFacts, CallTypes
  <2>4. /\ trigger'[i][done("diag")] \in {0, 1} /\ (trigger'[i][done("diag")] = 1 => q.at = 15 /\ q.diag = 3)
        /\ trigger'[i][done("ref")] \in {0, 1} /\ (trigger'[i][done("ref")] = 1 => q.at = 15 /\ ~ Renews(d))
        /\ trigger'[i][done("resize")] \in {0, 1} /\ (trigger'[i][done("resize")] = 1 => q.at = 15 /\ ~ Renews(d))
    BY <1>1, <1>2, <2>2, <2>3
  <2> QED BY <1>1, <1>3, <1>p, <2>1, <2>3, <2>4 DEF Signalled
<1>12. Expects(d)'
  <2>1. ASSUME NEW k \in msgs \cap msgs', k.to = i, k = [type |-> k.type, to |-> i], Due(p, k) PROVE Due(q, k)
    <3>1. k # m BY <1>1, <2>1
    <3>2. k.type # "solve" BY <1>1, <2>1, <3>1
    <3> QED BY <1>1, <1>5, <2>1, <3>2 DEF Due
  <2>2. \A k \in msgs \cap msgs' : k.type # "write" \/ k.to # i BY <1>1, <1>p, WriteCall
  <2>3. \A k \in msgs' \ msgs : \E y \in DGKind : k.type = CallOf[y] BY <1>1
  <2> QED BY <1>3, <1>p, <2>1, <2>2, <2>3, ExpectsMoves
<1>13. Local(d, i)' BY <1>8, <1>9, <1>10, <1>11 DEF Local
<1> QED BY <1>5, <1>6, <1>7, <1>12, <1>13, Acted

\* Contributions after an update.
LEMMA SolveParts ==
  ASSUME NEW c, DGInv(c), NEW i \in Chare, c.of[i].at = 14, NEW e, Acts(i, {}, e), NEW d, SameRun(c, d),
         NEW q, q = d.of[i], finished' = finished, q.vol = 0, q.ref \in 0 .. 1,
         \/ q.at = 22 /\ q.diag = 0 /\ q.ref = 0
         \/ q.at = 15,
         TargetsOn("worker", e) = <<>>, TargetsOn("sync", e) = <<>>,
         TargetsOn("disc", e) = IF q.at = 22 THEN <<"advance">> ELSE IF q.diag = 1 THEN <<"diagnostics">> ELSE <<>>,
         TargetsOn("refiner", e) = IF q.ref = 1 THEN <<"matched">> ELSE <<>>
  PROVE  Contribution(d, i)'
<1>1. /\ Contribution(c, i) /\ ~ c.disc /\ ~ finished
      /\ contrib["worker"][i] = <<>> /\ contrib["disc"][i] = <<>> /\ contrib["refiner"][i] = <<>>
  BY PartsOf, AtSolve
<1>2. contrib'["worker"][i] = <<>> /\ SameTargets("sync", i) BY <1>1, ActsAdds, Arrays DEF ArrayIs
<1>3. contrib'["disc"][i] = TargetsOn("disc", e) BY <1>1, ActsAdds, Arrays DEF ArrayIs
<1>4. contrib'["refiner"][i] = TargetsOn("refiner", e) BY <1>1, ActsAdds, Arrays DEF ArrayIs
<1>5. WorkerPart(c, q) = <<>> BY DEF WorkerPart
<1>6. TargetsOn("disc", e) \in DiscParts(c, q) BY DEF DiscParts
<1>7. WorkerPart(d, q) = <<>> /\ TargetsOn("disc", e) \in DiscParts(d, q) BY <1>5, <1>6, SameFacts
<1>8. q.at # 21 /\ c.of[i].at # 21 /\ q.vol \notin {1, 2} OBVIOUS
<1> QED BY <1>1, <1>2, <1>3, <1>4, <1>7, <1>8 DEF Contribution

\* DG::solve in the first stages
LEMMA SolveKeeps ==
  ASSUME NEW c, DGInv(c), NEW m \in msgs, NEW i, i = m.to, Solve(i, m)
  PROVE  \E d \in Config : DGInv(d)'
<1> DEFINE p == c.of[i]
           q == At(p, 22)
           d == Put(c, i, q)
           e == Posts({"sol", "lim"}) ++ NextStage
<1>p. p = c.of[i] OBVIOUS
<1>1. /\ m.type = "solve" /\ stage[i] < 2 /\ Update(i) /\ Stage(i) /\ Take(i, m, e)
      /\ UNCHANGED <<it, itr, finished, refined, count, bndFace, ghostData, ghost, usol, ulim>>
  <2>1. stage[i] < 2 => StageNext(i) = NextStage BY DEF StageNext
  <2> QED BY <2>1 DEF Solve, Is, stepVars, nodeVars, meshVars, cellVars
<1>2. i \in Chare /\ m = [type |-> "solve", to |-> i] /\ p.at = 14
  <2>1. m.type # "write" /\ \A y \in DGKind : m.type # CallOf[y] BY <1>1, CallTypes
  <2>2. m.to \in Chare /\ Plain(m) /\ Due(c.of[m.to], m) BY <2>1, PlainCall
  <2>3. Due(p, m) BY <2>2
  <2> HIDE DEF p
  <2> QED BY <1>1, <2>1, <2>2, <2>3 DEF Due
<1>3. /\ q.at = 22 /\ SamePoint(p, q)
      /\ d \in Config /\ Moves(c, d, i) /\ d.of[i] = q /\ SameRun(c, d)
  <2>1. At(c.of[i], 22).at = 22 /\ SamePoint(c.of[i], At(c.of[i], 22)) BY <1>2, Placed
  <2>2. Put(c, i, At(c.of[i], 22)) \in Config /\ Moves(c, Put(c, i, At(c.of[i], 22)), i) BY <1>2, Placed
  <2>3. Put(c, i, At(c.of[i], 22)).of[i] = At(c.of[i], 22) /\ SameRun(c, Put(c, i, At(c.of[i], 22))) BY <1>2, Placed
  <2> QED BY <2>1, <2>2, <2>3
<1>e. /\ e.calls = {} /\ e.triggers = {} /\ \A a : TargetsOn(a, e) = IF a = "disc" THEN <<"advance">> ELSE <<>>
  <2> DEFINE f == Posts({"sol", "lim"})
             g == Contributes("disc", "advance")
  <2>1. f.calls = {} /\ f.triggers = {} /\ \A a : TargetsOn(a, f) = <<>> BY EffectFacts
  <2>2. g.calls = {} /\ g.triggers = {} /\ \A a : TargetsOn(a, g) = IF a = "disc" THEN <<"advance">> ELSE <<>>
    BY EffectFacts
  <2>3. e = f ++ g BY DEF NextStage
  <2> HIDE DEF f, g, e
  <2>4. /\ (f ++ g).calls = f.calls \cup g.calls /\ (f ++ g).triggers = f.triggers \cup g.triggers
        /\ \A a : TargetsOn(a, f ++ g) = TargetsOn(a, f) \o TargetsOn(a, g)
    BY ThenFacts
  <2> QED BY <2>1, <2>2, <2>3, <2>4, TargetFacts
<1> HIDE DEF q, d, p, e
<1>4. /\ Shape /\ c \in Config /\ Fits(c, p) /\ Counters(c, i) /\ c.st \in 0 .. 2 BY <1>2, <1>p, PartsOf, ConfigIs
<1>5. /\ c.phase = 4 /\ c.mesh = 0 /\ ~ c.diagnosed /\ ~ c.disc /\ ~ c.work /\ ~ finished
      /\ ~ Made(c, p) /\ p.diag = 0 /\ p.ref = 0 /\ p.vol = 0
      /\ it[i] = c.it /\ stage[i] = c.st /\ itr[i] = Base(c)
  BY <1>2, <1>p, AtSolve
<1>6. msgs' = msgs \ {m} /\ Acts(i, {}, e) BY <1>1, <1>2, <1>4, <1>e, Taking
<1>7. c.st < 2 /\ ~ Made(c, q) BY <1>1, <1>4, <1>5 DEF Made
<1>8. /\ stage' \in [Chare -> Nat] /\ stage'[i] = c.st + 1 /\ \A j \in Chare \ {i} : stage'[j] = stage[j]
  <2>1. stage' = [stage EXCEPT ![i] = stage[i] + 1]
    <3>1. stage[i] # 2 BY <1>5, <1>7
    <3> QED BY <1>1, <3>1 DEF Stage
  <2>2. stage \in [Chare -> Nat] BY <1>4 DEF Shape
  <2> QED BY <1>2, <1>5, <2>1, <2>2
<1>9. q.diag = 0 /\ q.ref = 0 /\ q.vol = 0 /\ q.req = p.req /\ q.sent = p.sent BY <1>3, <1>5 DEF SamePoint
<1>10. Fits(c, q) BY <1>3, <1>4, <1>5, <1>7, <1>9 DEF Fits
<1>11. Counters(d, i)'
  <2>1. ~ Made(d, q) /\ Base(d) = Base(c) /\ d.st = c.st /\ d.it = c.it BY <1>3, <1>7, SameFacts DEF SameRun
  <2> QED BY <1>1, <1>3, <1>5, <1>7, <1>8, <1>9, <2>1 DEF Counters
<1>12. Contribution(d, i)'
  <2>1. /\ TargetsOn("worker", e) = <<>> /\ TargetsOn("sync", e) = <<>> /\ TargetsOn("refiner", e) = <<>>
        /\ TargetsOn("disc", e) = <<"advance">>
    BY <1>e
  <2>2. c.of[i].at = 14 /\ q = d.of[i] /\ finished' = finished BY <1>1, <1>2, <1>3, <1>p
  <2> QED BY <1>2, <1>3, <1>6, <1>9, <2>1, <2>2, SolveParts
<1>13. Solves(c, d, i, m, e)
  <2>1. it \in [Chare -> Nat] /\ refined \in [Chare -> BOOLEAN] BY <1>4 DEF Shape
  <2>2. c.of[i].at = 14 /\ d.of[i] = q /\ c.of[i] = p BY <1>2, <1>3, <1>p
  <2> QED BY <1>1, <1>2, <1>3, <1>6, <1>8, <1>9, <1>e, <2>1, <2>2 DEF Solves
<1>14. Fits(c, d.of[i]) BY <1>3, <1>10
<1> QED BY <1>2, <1>3, <1>11, <1>12, <1>13, <1>14, SolvesKeeps

\* What the last stage of a step does.
LEMMA LastEffect ==
  ASSUME NEW i \in Chare, NEW n, n = it[i] + 1
  PROVE  LET e == Posts({"sol", "lim", "recompghost"}) ++ Diagnostics(i, "disc") ++ Refine(n)
         IN  /\ e.calls = {}
             /\ e.triggers = (IF n % DiagFreq = 0 THEN {} ELSE {done("diag")})
                             \cup (IF Refines(n) THEN {} ELSE {done("ref"), done("resize")})
             /\ TargetsOn("worker", e) = <<>> /\ TargetsOn("sync", e) = <<>>
             /\ TargetsOn("disc", e) = IF n % DiagFreq = 0 THEN <<"diagnostics">> ELSE <<>>
             /\ TargetsOn("refiner", e) = IF Refines(n) THEN <<"matched">> ELSE <<>>
<1> DEFINE f == Posts({"sol", "lim", "recompghost"})
           g == Diagnostics(i, "disc")
           h == Refine(n)
           e == f ++ g ++ h
<1>1. f.calls = {} /\ f.triggers = {} /\ \A a : TargetsOn(a, f) = <<>> BY EffectFacts
<1>2. /\ g.calls = {} /\ g.triggers = (IF n % DiagFreq = 0 THEN {} ELSE {done("diag")})
      /\ \A a : TargetsOn(a, g) = IF a = "disc" /\ n % DiagFreq = 0 THEN <<"diagnostics">> ELSE <<>>
  BY EffectFacts DEF Diagnostics
<1>3. /\ h.calls = {} /\ h.triggers = (IF Refines(n) THEN {} ELSE {done("ref"), done("resize")})
      /\ \A a : TargetsOn(a, h) = IF a = "refiner" /\ Refines(n) THEN <<"matched">> ELSE <<>>
  BY EffectFacts DEF Refine
<1> HIDE DEF f, g, h
<1>4. /\ (f ++ g).calls = f.calls \cup g.calls /\ (f ++ g).triggers = f.triggers \cup g.triggers
      /\ \A a : TargetsOn(a, f ++ g) = TargetsOn(a, f) \o TargetsOn(a, g)
  BY ThenFacts
<1>5. /\ e.calls = (f ++ g).calls \cup h.calls /\ e.triggers = (f ++ g).triggers \cup h.triggers
      /\ \A a : TargetsOn(a, e) = TargetsOn(a, f ++ g) \o TargetsOn(a, h)
  BY ThenFacts
<1> HIDE DEF e
<1>6. e.calls = {} /\ e.triggers = g.triggers \cup h.triggers BY <1>1, <1>2, <1>3, <1>4, <1>5
<1>7. \A a : TargetsOn(a, f ++ g) = TargetsOn(a, g) BY <1>1, <1>2, <1>4, TargetFacts
<1>8. TargetsOn("worker", e) = <<>> /\ TargetsOn("sync", e) = <<>> BY <1>2, <1>3, <1>5, <1>7, TargetFacts
<1>9. TargetsOn("disc", e) = IF n % DiagFreq = 0 THEN <<"diagnostics">> ELSE <<>>
  BY <1>2, <1>3, <1>5, <1>7, TargetFacts
<1>10. TargetsOn("refiner", e) = IF Refines(n) THEN <<"matched">> ELSE <<>> BY <1>2, <1>3, <1>5, <1>7, TargetFacts
<1> QED BY <1>2, <1>3, <1>6, <1>8, <1>9, <1>10 DEF e, f, g, h

\* DG::solve in the last stage
LEMMA SolveLastKeeps ==
  ASSUME NEW c, DGInv(c), NEW m \in msgs, NEW i, i = m.to, SolveLast(i, m)
  PROVE  \E d \in Config : DGInv(d)'
<1> DEFINE p == c.of[i]
           dg == IF Now(c) % DiagFreq = 0 THEN 1 ELSE 3
           rf == IF Renews(c) THEN 1 ELSE 0
           r == At(p, 15)
           q == Turned(r, dg, rf, 0)
           d == Put(c, i, q)
           e == Posts({"sol", "lim", "recompghost"}) ++ Diagnostics(i, "disc") ++ Refine(it[i] + 1)
<1>p. p = c.of[i] OBVIOUS
<1>1. /\ m.type = "solve" /\ stage[i] = 2 /\ Update(i) /\ Take(i, m, e)
      /\ it' = [it EXCEPT ![i] = it[i] + 1] /\ refined' = [refined EXCEPT ![i] = Refines(it[i] + 1)]
      /\ UNCHANGED <<itr, finished, stage, count, bndFace, ghostData, ghost, usol, ulim>>
  BY DEF SolveLast, Is, nodeVars, meshVars, cellVars
<1>2. i \in Chare /\ m = [type |-> "solve", to |-> i] /\ p.at = 14
  <2>1. m.type # "write" /\ \A y \in DGKind : m.type # CallOf[y] BY <1>1, CallTypes
  <2>2. m.to \in Chare /\ Plain(m) /\ Due(c.of[m.to], m) BY <2>1, PlainCall
  <2>3. Due(p, m) BY <2>2
  <2> HIDE DEF p
  <2> QED BY <1>1, <2>1, <2>2, <2>3 DEF Due
<1>q. /\ q = Turned(r, dg, rf, 0) /\ d = Put(c, i, q) /\ r = At(p, 15)
      /\ dg = (IF Now(c) % DiagFreq = 0 THEN 1 ELSE 3) /\ rf = (IF Renews(c) THEN 1 ELSE 0)
  OBVIOUS
<1>r. e = Posts({"sol", "lim", "recompghost"}) ++ Diagnostics(i, "disc") ++ Refine(it[i] + 1) OBVIOUS
<1> HIDE DEF r, q, d, p, dg, rf, e
<1>3. r.at = 15 /\ SamePoint(p, r) /\ r \in Point BY <1>2, <1>p, <1>q, Placed
<1>4. /\ q.at = 15 /\ q.diag = dg /\ q.ref = rf /\ q.vol = 0 /\ q.req = p.req /\ q.sent = p.sent
      /\ q \in Point
  <2>1. dg \in 0 .. 3 /\ rf \in 0 .. 3 BY <1>q
  <2> QED BY <1>3, <1>q, <2>1, TurnedIs DEF SamePoint
<1>5. d \in Config /\ Moves(c, d, i) /\ d.of[i] = q /\ SameRun(c, d) BY <1>2, <1>4, <1>q, PutThere
<1>6. /\ Shape /\ c \in Config /\ Fits(c, p) /\ Counters(c, i) /\ Together(c) BY <1>2, <1>p, PartsOf
<1>7. /\ c.phase = 4 /\ c.mesh = 0 /\ ~ c.diagnosed /\ ~ c.disc /\ ~ c.work /\ ~ finished
      /\ ~ Made(c, p) /\ p.diag = 0 /\ p.ref = 0 /\ p.vol = 0
      /\ it[i] = c.it /\ stage[i] = c.st /\ itr[i] = Base(c)
  BY <1>2, <1>p, AtSolve
<1>8. c.st = 2 /\ Made(c, q) /\ it[i] + 1 = Now(c) BY <1>1, <1>4, <1>7 DEF Made, Now
<1>9. /\ e.calls = {}
      /\ e.triggers = (IF Now(c) % DiagFreq = 0 THEN {} ELSE {done("diag")})
                      \cup (IF Renews(c) THEN {} ELSE {done("ref"), done("resize")})
      /\ TargetsOn("worker", e) = <<>> /\ TargetsOn("sync", e) = <<>>
      /\ TargetsOn("disc", e) = (IF Now(c) % DiagFreq = 0 THEN <<"diagnostics">> ELSE <<>>)
      /\ TargetsOn("refiner", e) = (IF Renews(c) THEN <<"matched">> ELSE <<>>)
  <2> DEFINE n == it[i] + 1
  <2>1. n = it[i] + 1 /\ n = Now(c) BY <1>8
  <2>2. e = Posts({"sol", "lim", "recompghost"}) ++ Diagnostics(i, "disc") ++ Refine(n) BY <1>r
  <2>3. Renews(c) = Refines(n) BY <2>1 DEF Renews
  <2> HIDE DEF n
  <2>4. LET f == Posts({"sol", "lim", "recompghost"}) ++ Diagnostics(i, "disc") ++ Refine(n)
        IN  /\ f.calls = {}
            /\ f.triggers = (IF n % DiagFreq = 0 THEN {} ELSE {done("diag")})
                            \cup (IF Refines(n) THEN {} ELSE {done("ref"), done("resize")})
            /\ TargetsOn("worker", f) = <<>> /\ TargetsOn("sync", f) = <<>>
            /\ TargetsOn("disc", f) = (IF n % DiagFreq = 0 THEN <<"diagnostics">> ELSE <<>>)
            /\ TargetsOn("refiner", f) = (IF Refines(n) THEN <<"matched">> ELSE <<>>)
    BY <1>2, <2>1, LastEffect
  <2>5. /\ e.calls = {}
        /\ e.triggers = (IF n % DiagFreq = 0 THEN {} ELSE {done("diag")})
                        \cup (IF Refines(n) THEN {} ELSE {done("ref"), done("resize")})
        /\ TargetsOn("worker", e) = <<>> /\ TargetsOn("sync", e) = <<>>
        /\ TargetsOn("disc", e) = (IF n % DiagFreq = 0 THEN <<"diagnostics">> ELSE <<>>)
        /\ TargetsOn("refiner", e) = (IF Refines(n) THEN <<"matched">> ELSE <<>>)
    BY <2>2, <2>4
  <2>6. n = Now(c) BY <2>1
  <2> QED BY <2>3, <2>5, <2>6
<1>10. msgs' = msgs \ {m} /\ Acts(i, {}, e) BY <1>1, <1>2, <1>6, <1>9, Taking
<1>11. Fits(c, q)
  <2>1. q.diag = dg /\ q.diag \in IF Now(c) % DiagFreq # 0 THEN {3} ELSE IF c.diagnosed THEN {2, 3} ELSE {1}
    BY <1>4, <1>7, <1>q
  <2>2. q.ref \in IF ~ Renews(c) THEN {0} ELSE {1} BY <1>4, <1>q
  <2> QED BY <1>4, <1>6, <1>7, <1>8, <2>1, <2>2 DEF Fits
<1>12. /\ it' \in [Chare -> Nat] /\ it'[i] = Now(c) /\ (\A j \in Chare \ {i} : it'[j] = it[j])
       /\ refined' \in [Chare -> BOOLEAN] /\ refined'[i] = Renews(c) /\ (\A j \in Chare \ {i} : refined'[j] = refined[j])
       /\ stage' \in [Chare -> Nat] /\ stage' = stage
  <2>1. it \in [Chare -> Nat] /\ refined \in [Chare -> BOOLEAN] /\ stage \in [Chare -> Nat] BY <1>6 DEF Shape
  <2>2. Refines(it[i] + 1) = Renews(c) BY <1>8 DEF Renews
  <2>3. Renews(c) \in BOOLEAN BY DEF Renews, Refines
  <2>4. Now(c) \in Nat BY <1>2, <1>8, <2>1
  <2>5. it' \in [Chare -> Nat] /\ it'[i] = Now(c) /\ (\A j \in Chare \ {i} : it'[j] = it[j])
    BY <1>1, <1>2, <1>8, <2>1, <2>4
  <2>6. refined' \in [Chare -> BOOLEAN] /\ refined'[i] = Renews(c) /\ (\A j \in Chare \ {i} : refined'[j] = refined[j])
    <3>1. refined' = [refined EXCEPT ![i] = Renews(c)] BY <1>1, <2>2
    <3> QED BY <1>2, <2>1, <2>3, <3>1
  <2> QED BY <1>1, <2>1, <2>5, <2>6
<1>13. Counters(d, i)'
  <2>1. Made(d, q) /\ Base(d) = Base(c) /\ Now(d) = Now(c) /\ d.st = 2 /\ d.it = c.it /\ Renews(d) = Renews(c)
    BY <1>5, <1>8, SameFacts DEF SameRun
  <2>2. q.ref # 3 /\ q.at = 15 BY <1>4, <1>q
  <2>3. itr'[i] = Base(c) /\ stage'[i] = 2 BY <1>1, <1>7, <1>8
  <2> QED BY <1>5, <1>12, <2>1, <2>2, <2>3 DEF Counters
<1>14. Contribution(d, i)'
  <2>1. c.of[i].at = 14 /\ q = d.of[i] /\ finished' = finished BY <1>1, <1>2, <1>5, <1>p
  <2>2. q.ref \in 0 .. 1 /\ q.at = 15 /\ (q.ref = 1 <=> Renews(c)) /\ (q.diag = 1 <=> Now(c) % DiagFreq = 0)
    BY <1>4, <1>q
  <2>3. /\ TargetsOn("disc", e) = IF q.at = 22 THEN <<"advance">> ELSE IF q.diag = 1 THEN <<"diagnostics">> ELSE <<>>
        /\ TargetsOn("refiner", e) = IF q.ref = 1 THEN <<"matched">> ELSE <<>>
    BY <1>9, <2>2
  <2> QED BY <1>2, <1>4, <1>5, <1>9, <1>10, <2>1, <2>2, <2>3, SolveParts
<1>15. Solves(c, d, i, m, e)
  <2>1. c.of[i].at = 14 /\ d.of[i] = q /\ c.of[i] = p BY <1>2, <1>5, <1>p
  <2>2. q.ref \in 0 .. 1 /\ q.at = 15 /\ (q.diag = 1 <=> Now(c) % DiagFreq = 0) /\ q.diag \in {1, 3} BY <1>4, <1>q
  <2>3. e.triggers \subseteq {done("diag"), done("ref"), done("resize")} BY <1>9
  <2>4. done("diag") \in e.triggers => q.diag = 3 BY <1>9, <2>2, TriggersDiffer
  <2>5. done("ref") \in e.triggers \/ done("resize") \in e.triggers => ~ Renews(c) BY <1>9, TriggersDiffer
  <2> QED BY <1>1, <1>2, <1>4, <1>10, <1>12, <2>1, <2>2, <2>3, <2>4, <2>5 DEF Solves
<1>16. Fits(c, d.of[i]) BY <1>5, <1>11
<1> QED BY <1>2, <1>5, <1>13, <1>14, <1>15, <1>16, SolvesKeeps

\* A chare that ends a step, or starts the next one.
LEMMA AtLast ==
  ASSUME NEW c, DGInv(c), NEW i \in Chare, NEW p, p = c.of[i],
         \/ p.at \in {18, 19, 20, 21, 23}
         \/ p.at = 15 /\ ~ Renews(c) /\ p.diag = 3
  PROVE  /\ c.phase = 4 /\ c.st = 2 /\ Made(c, p) /\ p.diag = 3 /\ it[i] = Now(c) /\ ~ finished
         /\ p.ref \in {0, 3} /\ p.vol \in {0, 6} /\ (p.ref = 3 => c.disc /\ c.work) /\ c.it < NStep /\ Now(c) <= NStep
         /\ Renews(c) => p.vol = 6 /\ p.ref = 3 /\ c.mesh = 5
         /\ ~ Renews(c) => p.vol = 0 /\ p.ref = 0 /\ c.mesh = 0
         /\ contrib["worker"][i] = <<>> /\ contrib["disc"][i] = <<>>
         /\ stage[i] = IF p.at < 19 THEN 2 ELSE IF p.at < 21 THEN 3 ELSE 0
<1>1. /\ c \in Config /\ Fits(c, p) /\ Counters(c, i) /\ Together(c) /\ Contribution(c, i) /\ (finished => p.at = 24)
  BY PartsOf
<1>2. /\ c.phase \in 0 .. 4 /\ c.mesh \in 0 .. 5 /\ c.st \in 0 .. 2 /\ c.it \in Nat /\ NStep \in Nat
  BY <1>1, ConfigIs, ConstantFacts
<1>3. p.at >= 15 /\ p.at \notin {2, 4, 9, 13, 17, 22, 24} OBVIOUS
<1>4. c.phase = 4 /\ c.st = 2 /\ Made(c, p)
  <2>1. c.phase = 4 BY <1>1, <1>2, <1>3 DEF Fits
  <2>2. c.st = 2 BY <1>1, <1>2, <1>3, <2>1 DEF Fits
  <2> QED BY <1>3, <2>1, <2>2 DEF Made
<1>5. p.diag = 3 BY <1>1, <1>4 DEF Fits
<1>6. ASSUME Renews(c) PROVE p.vol = 6 /\ p.ref = 3 /\ c.mesh = 5 /\ c.disc /\ c.work
  <2>1. c.mesh = 5 /\ p.vol = 6 BY <1>1, <1>4, <1>6 DEF Fits
  <2> QED BY <1>1, <2>1 DEF Fits, Together
<1>7. ASSUME ~ Renews(c) PROVE p.vol = 0 /\ p.ref = 0 /\ c.mesh = 0
  <2>1. c.mesh = 0 BY <1>1, <1>2, <1>7 DEF Together
  <2> QED BY <1>1, <1>7, <2>1 DEF Fits
<1>8. c.it < NStep /\ Now(c) <= NStep BY <1>1, <1>2 DEF Together, Now
<1>9. it[i] = Now(c) /\ ~ finished BY <1>1, <1>3, <1>4 DEF Counters
<1>10. stage[i] = IF p.at < 19 THEN 2 ELSE IF p.at < 21 THEN 3 ELSE 0 BY <1>1, <1>3, <1>4 DEF Counters
<1>11. p.ref \in {0, 3} /\ p.vol \in {0, 6} /\ (p.ref = 3 => c.disc /\ c.work) BY <1>6, <1>7
<1>12. WorkerPart(c, p) = <<>> /\ DiscParts(c, p) = {<<>>}
  <2>1. WorkerPart(c, p) = <<>> BY <1>3, <1>11, WorkerParts
  <2>2. DiscParts(c, p) = {<<>>} BY <1>3, <1>5, <1>11 DEF DiscParts
  <2> QED BY <2>1, <2>2
<1>13. contrib["worker"][i] = <<>> /\ contrib["disc"][i] = <<>> BY <1>1, <1>9, <1>12 DEF Contribution
<1> QED BY <1>4, <1>5, <1>6, <1>7, <1>8, <1>9, <1>10, <1>11, <1>13

LEMMA StepsSync ==
  ASSUME NEW c, DGInv(c), NEW d, SameRun(c, d), NEW i \in Chare, NEW M, NEW ns, NEW e, NEW b, Steps(c, i, M, ns, e, b),
         d.of[i].at = b
  PROVE  /\ contrib'["sync"][i] \in Seq({"sync"})
         /\ ~ Nonblocking => contrib'["sync"][i] = IF b = 21 THEN <<"sync">> ELSE <<>>
<1>1. Contribution(c, i) BY PartsOf
<1>2. /\ Acts(i, ns, e)
      /\ TargetsOn("sync", e) \in IF b = 21 THEN {<<"sync">>} ELSE IF b = 22 /\ Nonblocking THEN {<<>>, <<"sync">>} ELSE {<<>>}
      /\ c.of[i].at \in {15, 18, 20, 23}
  BY DEF Steps
<1>3. contrib'["sync"][i] = contrib["sync"][i] \o TargetsOn("sync", e) BY <1>2, Arrays DEF Acts, ArrayIs
<1>4. contrib["sync"][i] \in Seq({"sync"}) /\ (~ Nonblocking => contrib["sync"][i] = <<>>)
  BY <1>1, <1>2 DEF Contribution
<1>5. TargetsOn("sync", e) \in Seq({"sync"})
  <2>1. <<>> \in Seq({"sync"}) /\ <<"sync">> \in Seq({"sync"}) OBVIOUS
  <2> QED BY <1>2, <2>1
<1>6. contrib'["sync"][i] \in Seq({"sync"}) BY <1>3, <1>4, <1>5
<1>7. ASSUME ~ Nonblocking PROVE contrib'["sync"][i] = IF b = 21 THEN <<"sync">> ELSE <<>>
  <2>1. contrib'["sync"][i] = <<>> \o TargetsOn("sync", e) BY <1>3, <1>4, <1>7
  <2>2. TargetsOn("sync", e) = IF b = 21 THEN <<"sync">> ELSE <<>> BY <1>2, <1>7
  <2> QED BY <2>1, <2>2, TargetFacts
<1> QED BY <1>6, <1>7

LEMMA StepsKeeps ==
  ASSUME NEW c, DGInv(c), NEW i \in Chare, NEW M \in SUBSET msgs, NEW ns, NEW e, NEW b, Steps(c, i, M, ns, e, b)
  PROVE  \E d \in Config : DGInv(d)'
<1> DEFINE p == c.of[i]
           q == At(p, b)
           d == Put(c, i, q)
<1>p. p = c.of[i] OBVIOUS
<1>0. /\ \/ /\ p.at = 15 /\ M = {} /\ ns = {done("diag"), done("ref"), done("resize")} /\ (\A t \in ns : trigger[i][t] > 0)
            /\ ~ Renews(c) /\ p.diag = 3
         \/ /\ p.at \in {18, 20, 23} /\ ns = {} /\ (\A m \in M : m = [type |-> AtCall(p.at), to |-> i])
            /\ [type |-> AtCall(p.at), to |-> i] \in M
      /\ msgs' = (msgs \ M) \cup e.calls /\ Acts(i, ns, e) /\ e.triggers = {}
      /\ UNCHANGED <<it, itr, finished, refined, count, used, bndFace, ghostData, ghost, usol, ulim>>
      /\ stage' = [stage EXCEPT ![i] = IF b = 19 THEN 3 ELSE 0]
      /\ TargetsOn("refiner", e) = <<>> /\ TargetsOn("worker", e) = IF b = 24 THEN <<"finish">> ELSE <<>>
      /\ TargetsOn("disc", e) = IF b = 22 THEN <<"advance">> ELSE <<>>
  BY DEF Steps
<1>1. \/ b = 19 /\ p.at < 19 /\ Writes(c) /\ e.calls = {Dump(i, "step")}
      \/ b = 24 /\ p.at # 23 /\ Now(c) = NStep /\ e.calls = {}
      \/ b = 21 /\ p.at # 23 /\ Now(c) # NStep /\ ~ Nonblocking /\ e.calls = {}
      \/ b = 22 /\ Now(c) # NStep /\ e.calls = {}
  BY DEF Steps
<1>2. /\ p \in Point /\ q.at = b /\ SamePoint(p, q) /\ b \in 0 .. 24
      /\ d \in Config /\ Moves(c, d, i) /\ d.of[i] = q /\ SameRun(c, d)
  <2>1. b \in 0 .. 24 BY <1>1
  <2>2. \A a \in 0 .. 24 : /\ c.of[i] \in Point /\ At(c.of[i], a).at = a /\ SamePoint(c.of[i], At(c.of[i], a))
    BY Placed
  <2>3. \A a \in 0 .. 24 : Put(c, i, At(c.of[i], a)) \in Config /\ Moves(c, Put(c, i, At(c.of[i], a)), i) BY Placed
  <2>4. \A a \in 0 .. 24 : Put(c, i, At(c.of[i], a)).of[i] = At(c.of[i], a) /\ SameRun(c, Put(c, i, At(c.of[i], a)))
    BY Placed
  <2> QED BY <2>1, <2>2, <2>3, <2>4
<1> HIDE DEF q, d, p
<1>3. /\ Held(c, i, p)
      /\ Kept(c, i) /\ Expects(c)
  BY <1>p, PartsOf
<1>4. /\ c.phase = 4 /\ c.st = 2 /\ Made(c, p) /\ p.diag = 3 /\ it[i] = Now(c) /\ ~ finished
      /\ p.ref \in {0, 3} /\ p.vol \in {0, 6} /\ (p.ref = 3 => c.disc /\ c.work) /\ Now(c) <= NStep
      /\ Renews(c) => p.vol = 6 /\ p.ref = 3 /\ c.mesh = 5
      /\ ~ Renews(c) => p.vol = 0 /\ p.ref = 0 /\ c.mesh = 0
      /\ contrib["worker"][i] = <<>> /\ contrib["disc"][i] = <<>>
  <2>1. \/ p.at \in {18, 19, 20, 21, 23}
        \/ p.at = 15 /\ ~ Renews(c) /\ p.diag = 3
    BY <1>0
  <2> QED BY <1>p, <2>1, AtLast
<1>5. /\ p.at \in {15, 18, 20, 23} /\ q.at \in {19, 21, 22, 24} /\ q.at # p.at
      /\ q.diag = 3 /\ q.ref = p.ref /\ q.vol = p.vol /\ q.req = p.req /\ q.sent = p.sent
      /\ Made(c, q)
  BY <1>0, <1>1, <1>2, <1>4 DEF SamePoint, Made
<1>6. /\ stage' \in [Chare -> Nat] /\ stage'[i] = (IF b = 19 THEN 3 ELSE 0)
      /\ \A j \in Chare \ {i} : stage'[j] = stage[j]
  <2>1. stage \in [Chare -> Nat] BY <1>3 DEF Shape
  <2> QED BY <1>0, <2>1
<1>7. Shape' /\ Alone(i)
  <2>1. Shape BY <1>3
  <2>2. /\ TriggerIs
        /\ ContribIs
    BY <1>0 DEF Acts
  <2>3. Shape' BY <1>0, <1>6, <2>1, <2>2 DEF Shape
  <2>4. Alone(i) BY <1>0, <1>6 DEF Alone, Acts
  <2> QED BY <2>3, <2>4
<1>8. \A k \in M \cup e.calls, y \in DGKind : k.type # CallOf[y]
  <2>1. ASSUME NEW y \in DGKind PROVE \A k \in M : k.type # CallOf[y]
    <3>1. \A k \in M : k.type = AtCall(p.at) BY <1>0
    <3>2. AtCall(p.at) # CallOf[y] BY <1>5, <2>1, CallTypes DEF AtCall
    <3> QED BY <3>1, <3>2
  <2>2. ASSUME NEW y \in DGKind PROVE \A k \in e.calls : k.type # CallOf[y]
    <3>1. Dump(i, "step").type = "write" BY DEF Dump
    <3> QED BY <1>1, <2>2, <3>1, CallTypes
  <2> QED BY <2>1, <2>2
<1>9. \A y \in DGKind : Keeps(c, d, y)
  <2>1. ASSUME NEW y \in DGKind
        PROVE  Keeps(c, d, y)
    <3>1. Letters(y)' = Letters(y) /\ \A j \in Chare : count'[j][y] = count[j][y] BY <1>0, <1>8, <2>1 DEF Letters
    <3>2. (SentAt(c, q, y) <=> SentAt(c, p, y)) /\ (OverAt(c, q, y) <=> OverAt(c, p, y))
      <4>1. (c.mesh = 0 /\ p.at >= 15) \/ p.at >= 18 BY <1>0, <1>4
      <4>2. q.at >= 19 BY <1>5
      <4> QED BY <1>4, <1>5, <2>1, <4>1, <4>2, CallTypes, SentFacts
    <3>3. (SentAt(c, d.of[i], y) <=> SentAt(c, c.of[i], y)) /\ (OverAt(c, d.of[i], y) => OverAt(c, c.of[i], y))
      BY <1>2, <1>p, <3>2
    <3> QED BY <1>2, <2>1, <3>1, <3>3, KindQuiet
  <2> QED BY <2>1
<1>10. Fits(c, q)
  <2>1. p.at >= 18 \/ ~ Renews(c) BY <1>0
  <2>2. /\ q.at = 19 => Writes(c)
        /\ q.at = 24 => Now(c) = NStep
        /\ q.at \in 21 .. 23 => Now(c) < NStep
        /\ q.at = 21 => ~ Nonblocking
    <3>1. Now(c) \in Nat /\ NStep \in Nat BY <1>3, ConfigIs, ConstantFacts DEF Now
    <3> QED BY <1>1, <1>2, <1>4, <3>1
  <2>3. q.at >= 19 /\ q.at # 20 /\ q.at # 23 /\ q.at \in 14 .. 24 BY <1>5
  <2>4. p.diag = 3 /\ (q.diag = p.diag) BY <1>4, <1>5
  <2> QED BY <1>3, <1>4, <1>5, <2>1, <2>2, <2>3, <2>4 DEF Fits
<1>11. Counters(d, i)'
  <2>1. Made(d, q) /\ Base(d) = Base(c) /\ Now(d) = Now(c) /\ d.st = 2 /\ Renews(d) = Renews(c)
    BY <1>2, <1>4, <1>5, SameFacts DEF SameRun
  <2>2. it'[i] = Now(c) /\ itr'[i] = itr[i] /\ refined'[i] = refined[i] BY <1>0, <1>4
  <2>3. itr[i] = (IF p.ref = 3 THEN Base(c) + 1 ELSE Base(c)) /\ refined[i] = Renews(c)
    BY <1>3, <1>4, <1>p DEF Counters
  <2>4. stage'[i] = IF q.at < 21 THEN 3 ELSE 0 BY <1>2, <1>5, <1>6
  <2> QED BY <1>2, <1>5, <2>1, <2>2, <2>3, <2>4 DEF Counters
<1>12. Contribution(d, i)'
  <2>1. contrib'["worker"][i] = WorkerPart(c, q)
    <3>1. WorkerPart(c, q) = IF b = 24 THEN <<"finish">> ELSE <<>>
      <4>1. q.ref # 3 \/ c.work BY <1>4, <1>5
      <4>2. q.at \notin {2, 4, 9, 13, 17} /\ q.at = b BY <1>2, <1>5
      <4> QED BY <4>1, <4>2, WorkerParts
    <3>2. Acts(i, ns, e) BY <1>0
    <3>3. TargetsOn("worker", e) = IF b = 24 THEN <<"finish">> ELSE <<>> BY <1>0
    <3>4. contrib'["worker"][i] = contrib["worker"][i] \o TargetsOn("worker", e) BY <3>2, Arrays DEF Acts, ArrayIs
    <3>5. contrib'["worker"][i] = TargetsOn("worker", e) BY <1>4, <3>3, <3>4, TargetFacts
    <3> QED BY <3>1, <3>3, <3>5
  <2>2. contrib'["disc"][i] \in DiscParts(c, q)
    <3>1. contrib'["disc"][i] = IF b = 22 THEN <<"advance">> ELSE <<>>
      <4>1. Acts(i, ns, e) BY <1>0
      <4>2. TargetsOn("disc", e) = IF b = 22 THEN <<"advance">> ELSE <<>> BY <1>0
      <4>3. contrib'["disc"][i] = contrib["disc"][i] \o TargetsOn("disc", e) BY <4>1, Arrays DEF Acts, ArrayIs
      <4> QED BY <1>4, <4>2, <4>3, TargetFacts
    <3>2. CASE b = 22 BY <1>2, <3>1, <3>2 DEF DiscParts
    <3>3. CASE b # 22 BY <1>2, <1>4, <1>5, <3>1, <3>3 DEF DiscParts
    <3> QED BY <3>2, <3>3
  <2>3. SameTargets("refiner", i) BY <1>0, <1>3, ActsAdds, Arrays DEF ArrayIs
  <2>4. /\ contrib'["sync"][i] \in Seq({"sync"})
        /\ ~ Nonblocking => contrib'["sync"][i] = IF q.at = 21 THEN <<"sync">> ELSE <<>>
    BY <1>2, StepsSync
  <2>5. WorkerPart(d, q) = WorkerPart(c, q) /\ DiscParts(d, q) = DiscParts(c, q) BY <1>2, SameFacts
  <2>6. q.vol \notin {1, 2} /\ q.ref # 1 /\ p.ref # 1 /\ ~ finished /\ finished' = finished BY <1>0, <1>4, <1>5
  <2> QED BY <1>2, <1>3, <1>p, <2>1, <2>2, <2>3, <2>4, <2>5, <2>6 DEF Contribution
<1>13. Updated(d, i)' /\ Ghosts(d, i)'
  <2>1. \A y \in {"sol", "lim"} : Arrived(d, y, i)' = Arrived(c, y, i) BY <1>9, CallTypes
  <2>2. q.at \notin 10 .. 14 /\ q.at >= 15 /\ p.at >= 15 BY <1>5
  <2> QED BY <1>0, <1>2, <1>3, <1>p, <2>1, <2>2, GhostsKept, UpdatedKept
<1>14. Maps(d, i)'
  <2>1. SameFace(c, d, i) BY <1>9, CallTypes
  <2>2. Asking(c, q) <=> Asking(c, p) BY <1>0, <1>4, <1>5 DEF Asking
  <2>3. q.at \notin {1, 16, 2, 17} BY <1>5
  <2> QED BY <1>0, <1>2, <1>3, <1>5, <1>p, <2>1, <2>2, <2>3, MapsKept
<1>15. Signalled(d, i)'
  <2>1. \A y \in {"init", "sol", "lim", "req"} : Arrived(d, y, i)' = Arrived(c, y, i) BY <1>9, CallTypes
  <2>2. CASE p.at = 15
    <3>1. SpendsStep(i) BY <1>0, <2>2 DEF SpendsStep, Acts
    <3> QED BY <1>2, <1>3, <1>5, <1>p, <2>1, <2>2, <3>1, SignalsSpent
  <2>3. CASE p.at # 15
    <3>1. Acts(i, {}, e) BY <1>0, <2>3
    <3>2. trigger'[i] = trigger[i] BY <1>0, <1>3, <3>1, ActsSilent
    <3>3. p.at \notin {5, 6, 10, 11, 12, 15} BY <1>5, <2>3
    <3> QED BY <1>2, <1>3, <1>5, <1>p, <2>1, <3>2, <3>3, SignalsKept
  <2> QED BY <2>2, <2>3
<1>16. Expects(d)'
  <2>1. ASSUME NEW k \in msgs \cap msgs', k.to = i, k = [type |-> k.type, to |-> i], Due(p, k) PROVE Due(q, k)
    <3>1. Due(q, k) \/ k.type = AtCall(p.at) BY <1>4, <1>5, <2>1, DueMoves
    <3>2. ASSUME k.type = AtCall(p.at) PROVE FALSE
      <4>1. k.type # "write" BY <2>1 DEF Due
      <4>2. k \notin e.calls BY <1>1, <4>1 DEF Dump
      <4>3. k \notin M BY <1>0, <2>1, <4>2
      <4>4. p.at = 15 BY <1>0, <2>1, <3>2, <4>3
      <4>5. k.type = "none" BY <3>2, <4>4 DEF AtCall
      <4> QED BY <2>1, <4>5 DEF Due
    <3> QED BY <3>1, <3>2
  <2>2. CASE b = 19
    <3> DEFINE w == Dump(i, "step")
    <3>1. w.type = "write" /\ w.to = i /\ w.then = "step" BY DEF Dump
    <3>2. \A k \in msgs' : k \in msgs \/ k = w BY <1>0, <1>1, <2>2
    <3>3. c.of[i].at \notin {7, 19} /\ d.of[i].at = 19 BY <1>2, <1>5, <1>p, <2>2
    <3> HIDE DEF w
    <3>4. \A k \in msgs \cap msgs' : k.to = i /\ k = [type |-> k.type, to |-> i] /\ Due(c.of[i], k) => Due(d.of[i], k)
      BY <1>2, <1>p, <2>1
    <3> QED BY <1>2, <1>3, <3>1, <3>2, <3>3, <3>4, ExpectsWrite
  <2>3. CASE b # 19
    <3>1. \A k \in msgs \cap msgs' : k.type # "write" \/ k.to # i BY <1>5, <1>p, WriteCall
    <3>2. msgs' \ msgs = {} BY <1>0, <1>1, <2>3
    <3> QED BY <1>2, <1>3, <1>p, <2>1, <3>1, <3>2, ExpectsMoves
  <2> QED BY <2>2, <2>3
<1>17. Local(d, i)' BY <1>11, <1>12, <1>13, <1>14, <1>15 DEF Local
<1> QED BY <1>2, <1>4, <1>7, <1>9, <1>10, <1>16, <1>17, Acted

LEMMA NextSays ==
  ASSUME NEW i \in Chare, NEW n, n = it[i], NEW e, e = StepNext(i)
  PROVE  e.calls = {} /\ StepSays(e, NextAt(n))
<1>1. CASE n = NStep
  <2>1. e = Contributes("worker", "finish") BY <1>1 DEF StepNext, NextStep
  <2>2. NextAt(n) = 24 BY <1>1 DEF NextAt
  <2> QED BY <2>1, <2>2, EffectFacts DEF StepSays
<1>2. CASE n # NStep /\ n % LbFreq # 0
  <2>1. e = Contributes("disc", "advance") BY <1>2 DEF StepNext, NextStep, NextStage
  <2>2. NextAt(n) = 22 BY <1>2 DEF NextAt
  <2> QED BY <2>1, <2>2, EffectFacts DEF StepSays
<1>3. CASE n # NStep /\ n % LbFreq = 0 /\ Nonblocking
  <2>1. e = Contributes("sync", "sync") ++ Contributes("disc", "advance") BY <1>3 DEF StepNext, NextStep, NextStage
  <2>2. NextAt(n) = 22 BY <1>3 DEF NextAt
  <2>3. /\ e.calls = {} /\ e.triggers = {} /\ TargetsOn("refiner", e) = <<>> /\ TargetsOn("worker", e) = <<>>
        /\ TargetsOn("disc", e) = <<"advance">> /\ TargetsOn("sync", e) = <<"sync">>
    BY <2>1, EffectFacts, ThenFacts, TargetFacts
  <2> QED BY <1>3, <2>2, <2>3 DEF StepSays
<1>4. CASE n # NStep /\ n % LbFreq = 0 /\ ~ Nonblocking
  <2>1. e = Contributes("sync", "sync") ++ Nothing BY <1>4 DEF StepNext, NextStep
  <2>2. NextAt(n) = 21 BY <1>4 DEF NextAt
  <2>3. /\ e.calls = {} /\ e.triggers = {} /\ TargetsOn("refiner", e) = <<>> /\ TargetsOn("worker", e) = <<>>
        /\ TargetsOn("disc", e) = <<>> /\ TargetsOn("sync", e) = <<"sync">>
    BY <2>1, EffectFacts, ThenFacts, TargetFacts
  <2> QED BY <2>2, <2>3 DEF StepSays
<1> QED BY <1>1, <1>2, <1>3, <1>4

\* What the last stage does.
LEMMA StageSays ==
  ASSUME NEW i \in Chare, stage \in [Chare -> Nat], stage[i] = 2, Stage(i), NEW n, n = it[i], NEW e, e = StageNext(i),
         NEW b, b = IF n % FieldFreq = 0 \/ n = NStep THEN 19 ELSE NextAt(n)
  PROVE  /\ stage' = [stage EXCEPT ![i] = IF b = 19 THEN 3 ELSE 0]
         /\ e.calls = (IF b = 19 THEN {Dump(i, "step")} ELSE {})
         /\ StepSays(e, b)
<1>1. CASE Outputs(i)
  <2>1. b = 19 BY <1>1 DEF Outputs
  <2>2. stage' = [stage EXCEPT ![i] = 3]
    <3>1. stage' = [stage EXCEPT ![i] = stage[i] + 1] BY <1>1 DEF Stage
    <3> QED BY <3>1
  <2>3. e = Calls({Dump(i, "step")}) BY <1>1 DEF StageNext
  <2>4. e.calls = {Dump(i, "step")} /\ e.triggers = {} /\ \A a : TargetsOn(a, e) = <<>> BY <2>3, EffectFacts
  <2>5. (IF b = 19 THEN 3 ELSE 0) = 3 BY <2>1
  <2>6. stage' = [stage EXCEPT ![i] = IF b = 19 THEN 3 ELSE 0] BY <2>2, <2>5, Zenon
  <2>7. StepSays(e, b) BY <2>1, <2>4 DEF StepSays
  <2> QED BY <2>1, <2>4, <2>6, <2>7
<1>2. CASE ~ Outputs(i)
  <2>1. b = NextAt(n) /\ b # 19 BY <1>2 DEF Outputs, NextAt
  <2>2. stage' = [stage EXCEPT ![i] = 0] BY <1>2 DEF Stage, Step
  <2>3. e = StepNext(i) BY <1>2 DEF StageNext
  <2> QED BY <2>1, <2>2, <2>3, NextSays
<1> QED BY <1>1, <1>2

\* The point after step n, in terms of the configuration.
LEMMA NextThere ==
  ASSUME NEW c, NEW n, n = Now(c), n \in Nat
  PROVE  /\ NextAt(n) = 24 <=> Now(c) = NStep
         /\ NextAt(n) = 21 => Now(c) # NStep /\ ~ Nonblocking
         /\ NextAt(n) = 22 => Now(c) # NStep
         /\ NextAt(n) \in {21, 22, 24}
         /\ Writes(c) <=> n % FieldFreq = 0 \/ n = NStep
  BY DEF NextAt, Writes

\* DG::recompGhostRefined, on the same mesh, and DG::lhs.
LEMMA LhsKeeps ==
  ASSUME NEW c, DGInv(c), NEW i \in Chare, NEW M \in SUBSET msgs, NEW ns, NEW e, e = StageNext(i),
         \/ /\ c.of[i].at = 15 /\ M = {} /\ ns = {done("diag"), done("ref"), done("resize")}
            /\ (\A t \in ns : trigger[i][t] > 0) /\ ~ Renews(c) /\ c.of[i].diag = 3
         \/ /\ c.of[i].at = 18 /\ ns = {} /\ (\A m \in M : m = [type |-> "lhs", to |-> i])
            /\ [type |-> "lhs", to |-> i] \in M,
         Stage(i), msgs' = (msgs \ M) \cup e.calls, Acts(i, ns, e),
         UNCHANGED <<it, itr, finished, refined, count, used, bndFace, ghostData, ghost, usol, ulim>>
  PROVE  \E d \in Config : DGInv(d)'
<1> DEFINE n == it[i]
           b == IF n % FieldFreq = 0 \/ n = NStep THEN 19 ELSE NextAt(n)
<1>1. it[i] = Now(c) /\ stage[i] = 2 /\ c.of[i].at < 19
  <2>1. \/ c.of[i].at \in {18, 19, 20, 21, 23}
        \/ c.of[i].at = 15 /\ ~ Renews(c) /\ c.of[i].diag = 3
    OBVIOUS
  <2>2. c.of[i].at < 19 OBVIOUS
  <2> QED BY <2>1, <2>2, AtLast
<1>2. Shape BY PartsOf
<1>3. stage \in [Chare -> Nat] /\ it[i] \in Nat BY <1>2 DEF Shape
<1>b. n = it[i] /\ b = IF n % FieldFreq = 0 \/ n = NStep THEN 19 ELSE NextAt(n) OBVIOUS
<1> HIDE DEF n, b
<1>4. /\ stage' = [stage EXCEPT ![i] = IF b = 19 THEN 3 ELSE 0]
      /\ e.calls = (IF b = 19 THEN {Dump(i, "step")} ELSE {})
      /\ StepSays(e, b)
  BY <1>1, <1>3, <1>b, StageSays
<1>5. /\ NextAt(n) = 24 <=> Now(c) = NStep
      /\ NextAt(n) = 21 => Now(c) # NStep /\ ~ Nonblocking
      /\ NextAt(n) = 22 => Now(c) # NStep
      /\ NextAt(n) \in {21, 22, 24}
      /\ Writes(c) <=> n % FieldFreq = 0 \/ n = NStep
  BY <1>1, <1>3, <1>b, NextThere
<1>6. \/ b = 19 /\ c.of[i].at < 19 /\ Writes(c) /\ e.calls = {Dump(i, "step")}
      \/ b = 24 /\ c.of[i].at # 23 /\ Now(c) = NStep /\ e.calls = {}
      \/ b = 21 /\ c.of[i].at # 23 /\ Now(c) # NStep /\ ~ Nonblocking /\ e.calls = {}
      \/ b = 22 /\ Now(c) # NStep /\ e.calls = {}
  BY <1>1, <1>4, <1>5, <1>b
<1>7. AtCall(18) = "lhs" BY DEF AtCall
<1>8. \/ /\ c.of[i].at = 15 /\ M = {} /\ ns = {done("diag"), done("ref"), done("resize")}
         /\ (\A t \in ns : trigger[i][t] > 0) /\ ~ Renews(c) /\ c.of[i].diag = 3
      \/ /\ c.of[i].at \in {18, 20, 23} /\ ns = {} /\ (\A m \in M : m = [type |-> AtCall(c.of[i].at), to |-> i])
         /\ [type |-> AtCall(c.of[i].at), to |-> i] \in M
  BY <1>7
<1>9. Steps(c, i, M, ns, e, b) BY <1>4, <1>6, <1>8 DEF Steps, StepSays
<1> QED BY <1>9, StepsKeeps

\* DG::recompGhostRefined, on the same mesh.
LEMMA SameMeshKeeps ==
  ASSUME NEW c, DGInv(c), NEW i \in Chare, RecompGhostRefined(i), ~ refined[i]
  PROVE  \E d \in Config : DGInv(d)'
<1> DEFINE e == StageNext(i)
           ns == {done("diag"), done("ref"), done("resize")}
           M == {}
<1>1. /\ Stage(i) /\ Run(i, "recompghost", e)
      /\ UNCHANGED <<it, itr, finished, refined, count, used, bndFace, ghostData, ghost, usol, ulim>>
  BY DEF RecompGhostRefined, stepVars, nodeVars, meshVars, cellVars
<1>2. Shape BY PartsOf
<1>3. Needs["recompghost"] = ns /\ "recompghost" \in Wait BY WaitsAre
<1>4. M \in SUBSET msgs /\ e = StageNext(i) /\ M = {} /\ ns = {done("diag"), done("ref"), done("resize")} OBVIOUS
<1> HIDE DEF e, ns, M
<1>5. msgs' = msgs \cup e.calls /\ Acts(i, ns, e) /\ \A t \in ns : trigger[i][t] > 0 BY <1>1, <1>2, <1>3, Running
<1>6. \A x \in {"diag", "ref", "resize"} : trigger[i][done(x)] > 0 BY <1>4, <1>5
<1>7. c.of[i].at = 15 /\ c.of[i].diag = 3 /\ refined[i] = Renews(c) BY <1>6, StepEnds
<1>8. msgs' = (msgs \ M) \cup e.calls BY <1>4, <1>5
<1> QED BY <1>1, <1>4, <1>5, <1>7, <1>8, LhsKeeps

\* DG::lhs
LEMMA LhsCallKeeps ==
  ASSUME NEW c, DGInv(c), NEW m \in msgs, NEW i, i = m.to, Lhs(i, m)
  PROVE  \E d \in Config : DGInv(d)'
<1> DEFINE e == StageNext(i)
           M == {m}
<1>1. /\ m.type = "lhs" /\ Stage(i) /\ Take(i, m, e)
      /\ UNCHANGED <<it, itr, finished, refined, count, used, bndFace, ghostData, ghost, usol, ulim>>
  BY DEF Lhs, Is, stepVars, nodeVars, meshVars, cellVars
<1>2. Shape BY PartsOf
<1>3. i \in Chare /\ m = [type |-> "lhs", to |-> i] /\ c.of[i].at = 18
  <2>1. m.type # "write" /\ \A x \in DGKind : m.type # CallOf[x] BY <1>1, CallTypes
  <2>2. m.to \in Chare /\ Plain(m) /\ Due(c.of[m.to], m) BY <2>1, PlainCall
  <2> QED BY <1>1, <2>2 DEF Due
<1>4. M \in SUBSET msgs /\ e = StageNext(i) /\ M = {m} OBVIOUS
<1> HIDE DEF e, M
<1>5. msgs' = (msgs \ M) \cup e.calls /\ Acts(i, {}, e) BY <1>1, <1>2, <1>3, <1>4, Taking
<1> QED BY <1>1, <1>3, <1>4, <1>5, LhsKeeps

\* DG::step, called by the file writer.
LEMMA WrittenKeeps ==
  ASSUME NEW c, DGInv(c), NEW m \in msgs, NEW i, i = m.to, Written(i, m)
  PROVE  \E d \in Config : DGInv(d)'
<1> DEFINE e == StepNext(i)
           M == {m}
           ns == {}
           n == it[i]
           b == NextAt(n)
<1>1. /\ m.type = "step" /\ stage' = [stage EXCEPT ![i] = 0] /\ Take(i, m, e)
      /\ UNCHANGED <<it, itr, finished, refined, count, used, bndFace, ghostData, ghost, usol, ulim>>
  BY DEF Written, Step, Is, stepVars, nodeVars, meshVars, cellVars
<1>2. Shape BY PartsOf
<1>3. i \in Chare /\ m = [type |-> "step", to |-> i] /\ c.of[i].at = 20
  <2>1. m.type # "write" /\ \A x \in DGKind : m.type # CallOf[x] BY <1>1, CallTypes
  <2>2. m.to \in Chare /\ Plain(m) /\ Due(c.of[m.to], m) BY <2>1, PlainCall
  <2> QED BY <1>1, <2>2 DEF Due
<1>4. M \in SUBSET msgs /\ e = StepNext(i) /\ M = {m} /\ ns = {} /\ n = it[i] /\ b = NextAt(n) OBVIOUS
<1> HIDE DEF e, M, ns, n, b
<1>5. msgs' = (msgs \ M) \cup e.calls /\ Acts(i, ns, e) BY <1>1, <1>2, <1>3, <1>4, Taking
<1>6. n = Now(c) /\ n \in Nat
  <2>1. it[i] = Now(c) BY <1>3, AtLast
  <2>2. it[i] \in Nat BY <1>2, <1>3 DEF Shape
  <2> QED BY <1>4, <2>1, <2>2
<1>7. e.calls = {} /\ StepSays(e, b) BY <1>3, <1>4, NextSays
<1>8. /\ b = 24 <=> Now(c) = NStep
      /\ b = 21 => Now(c) # NStep /\ ~ Nonblocking
      /\ b = 22 => Now(c) # NStep
      /\ b \in {21, 22, 24}
  BY <1>4, <1>6, NextThere
<1>9. /\ c.of[i].at \in {18, 20, 23} /\ (\A k \in M : k = [type |-> AtCall(c.of[i].at), to |-> i])
      /\ [type |-> AtCall(c.of[i].at), to |-> i] \in M
  <2>1. AtCall(20) = "step" BY DEF AtCall
  <2> QED BY <1>3, <1>4, <2>1
<1>10. \/ b = 24 /\ c.of[i].at # 23 /\ Now(c) = NStep /\ e.calls = {}
       \/ b = 21 /\ c.of[i].at # 23 /\ Now(c) # NStep /\ ~ Nonblocking /\ e.calls = {}
       \/ b = 22 /\ Now(c) # NStep /\ e.calls = {}
  BY <1>3, <1>7, <1>8
<1>11. stage' = [stage EXCEPT ![i] = IF b = 19 THEN 3 ELSE 0]
  <2>1. (IF b = 19 THEN 3 ELSE 0) = 0 BY <1>8
  <2> QED BY <1>1, <2>1, Zenon
<1>12. Steps(c, i, M, ns, e, b) BY <1>1, <1>4, <1>5, <1>7, <1>9, <1>10, <1>11 DEF Steps, StepSays
<1> QED BY <1>3, <1>4, <1>12, StepsKeeps

\* DG::ResumeFromSync, if time stepping waited for it.
LEMMA ResumeKeeps ==
  ASSUME NEW c, DGInv(c), NEW m \in msgs, NEW i, i = m.to, ResumeFromSync(i, m), ~ Nonblocking
  PROVE  \E d \in Config : DGInv(d)'
<1> DEFINE e == NextStage
           M == {m}
           ns == {}
<1>1. /\ m.type = "resume" /\ Take(i, m, e)
      /\ UNCHANGED <<it, itr, finished, refined, count, stage, used, bndFace, ghostData, ghost, usol, ulim>>
  BY DEF ResumeFromSync, Resume, Is, stepVars, nodeVars, dgVars, stageVars, meshVars, cellVars
<1>2. Shape BY PartsOf
<1>3. i \in Chare /\ m = [type |-> "resume", to |-> i] /\ c.of[i].at = 23
  <2>1. m.type # "write" /\ \A x \in DGKind : m.type # CallOf[x] BY <1>1, CallTypes
  <2>2. m.to \in Chare /\ Plain(m) /\ Due(c.of[m.to], m) BY <2>1, PlainCall
  <2> QED BY <1>1, <2>2 DEF Due
<1>4. M \in SUBSET msgs /\ e = Contributes("disc", "advance") /\ M = {m} /\ ns = {} BY DEF NextStage
<1> HIDE DEF e, M, ns
<1>5. msgs' = (msgs \ M) \cup e.calls /\ Acts(i, ns, e) BY <1>1, <1>2, <1>3, <1>4, Taking
<1>6. Now(c) # NStep /\ stage[i] = 0
  <2>1. c.st = 2 /\ stage[i] = 0 BY <1>3, AtLast
  <2>2. Fits(c, c.of[i]) /\ c \in Config BY <1>3, PartsOf
  <2>3. Now(c) \in Nat /\ NStep \in Nat BY <2>2, ConfigIs, ConstantFacts DEF Now
  <2> QED BY <1>3, <2>1, <2>2, <2>3 DEF Fits
<1>7. e.calls = {} /\ StepSays(e, 22) BY <1>4, EffectFacts DEF StepSays
<1>9. /\ c.of[i].at \in {18, 20, 23} /\ (\A k \in M : k = [type |-> AtCall(c.of[i].at), to |-> i])
      /\ [type |-> AtCall(c.of[i].at), to |-> i] \in M
  <2>1. AtCall(23) = "resume" BY DEF AtCall
  <2> QED BY <1>3, <1>4, <2>1
<1>11. stage' = [stage EXCEPT ![i] = IF 22 = 19 THEN 3 ELSE 0]
  <2>1. stage \in [Chare -> Nat] BY <1>2 DEF Shape
  <2> QED BY <1>1, <1>3, <1>6, <2>1
<1>12. Steps(c, i, M, ns, e, 22) BY <1>1, <1>4, <1>5, <1>6, <1>7, <1>9, <1>11 DEF Steps, StepSays
<1> QED BY <1>3, <1>4, <1>12, StepsKeeps

LEMMA StepFacts ==
  ASSUME NEW c, NEW d, SameStep(c, d)
  PROVE  /\ Base(d) = Base(c) /\ Now(d) = Now(c) /\ Renews(d) = Renews(c) /\ (Writes(d) <=> Writes(c))
         /\ \A js : CellsOf(d, js) = CellsOf(c, js)
         /\ \A p : Asking(d, p) <=> Asking(c, p)
  BY DEF SameStep, Base, Now, Renews, Writes, CellsOf, Asking

LEMMA Shifted ==
  ASSUME NEW c \in Config, NEW d \in Config, SameStep(c, d), NEW i \in Chare, Local(c, i), Shifts(c, d, i), UNCHANGED held,
         trigger'[i] = trigger[i], SameFace(c, d, i),
         d.of[i].at \in {5, 6, 10, 11, 12} => \A x \in {"init", "sol", "lim"} : Arrived(d, x, i)' = Arrived(c, x, i)
  PROVE  Counters(d, i)' /\ Signalled(d, i)' /\ Maps(d, i)' /\ Ghosts(d, i)' /\ Updated(d, i)'
<1> DEFINE p == c.of[i]
           q == d.of[i]
<1>0. /\ Counters(c, i) /\ Signalled(c, i) /\ Kept(c, i) BY DEF Local
<1>p. p = c.of[i] /\ q = d.of[i] OBVIOUS
<1>1. /\ (q.ref = 3 <=> p.ref = 3) /\ (Made(d, q) <=> Made(c, p)) /\ q.req = p.req /\ q.sent = p.sent
      /\ (q.at < 15 <=> p.at < 15) /\ (q.at < 19 <=> p.at < 19) /\ (q.at < 21 <=> p.at < 21)
      /\ (Asking(c, q) <=> Asking(c, p)) /\ (q.at \in {1, 2, 16, 17} => q.at = p.at)
      /\ OverAt(d, q, "fac") => Nbr[i] = {} \/ p.sent
      /\ \/ p.at \notin {5, 6, 10, 11, 12, 15}
         \/ q.at = p.at /\ (p.diag = 3 => q.diag = 3) /\ (p.vol = 6 => q.vol = 6)
      /\ \/ q.at \notin 10 .. 14
         \/ p.at \in 10 .. 14 /\ (q.at <= 11 <=> p.at <= 11) /\ (q.at <= 12 <=> p.at <= 12)
      /\ c.phase >= 3 => d.phase >= 3
  BY DEF Shifts
<1> HIDE DEF p, q
<1>2. /\ Base(d) = Base(c) /\ Now(d) = Now(c) /\ Renews(d) = Renews(c) /\ d.it = c.it /\ d.st = c.st
      /\ \A js : CellsOf(d, js) = CellsOf(c, js)
      /\ Asking(d, q) <=> Asking(c, p)
  BY <1>1, StepFacts DEF SameStep
<1>3. /\ Arrived(d, "fac", i)' = Arrived(c, "fac", i) /\ Arrived(d, "req", i)' = Arrived(c, "req", i)
      /\ Arrived(d, "ghost", i)' = Arrived(c, "ghost", i)
      /\ q.at \in {5, 6, 10, 11, 12} => /\ Arrived(d, "init", i)' = Arrived(c, "init", i)
                                       /\ Arrived(d, "sol", i)' = Arrived(c, "sol", i)
                                       /\ Arrived(d, "lim", i)' = Arrived(c, "lim", i)
  BY <1>p
<1>4. /\ it' = it /\ itr' = itr /\ refined' = refined /\ stage' = stage /\ used' = used /\ bndFace' = bndFace
      /\ ghostData' = ghostData /\ ghost' = ghost /\ usol' = usol /\ ulim' = ulim
  BY DEF held
<1>5. Counters(d, i)' BY <1>0, <1>1, <1>2, <1>4, <1>p DEF Counters
<1>6. Signalled(d, i)' BY <1>0, <1>1, <1>2, <1>3, <1>p DEF Signalled
<1>7. Maps(d, i)' BY <1>0, <1>1, <1>2, <1>3, <1>4, <1>p DEF Maps
<1>8. Ghosts(d, i)'
  <2>1. p.at \in 0 .. 24 /\ q.at \in 0 .. 24 BY <1>p, ConfigIs
  <2>2. q.at \in 10 .. 14 /\ q.at <= 12 => q.at \in {5, 6, 10, 11, 12} BY <2>1
  <2> QED BY <1>0, <1>1, <1>2, <1>3, <1>4, <1>p, <2>1, <2>2 DEF Ghosts
<1>9. Updated(d, i)'
  <2>1. q.at >= 15 <=> p.at >= 15
    <3>1. p.at \in 0 .. 24 /\ q.at \in 0 .. 24 BY <1>p, ConfigIs
    <3> QED BY <1>1, <3>1
  <2> QED BY <1>0, <1>1, <1>2, <1>4, <1>p, <2>1 DEF Updated, Current
<1> QED BY <1>5, <1>6, <1>7, <1>8, <1>9

\* The calls are expected after all chares have moved.
LEMMA ExpectsShifted ==
  ASSUME NEW c, NEW d, Expects(c),
         \A i \in Chare : /\ \A n : Due(c.of[i], n) => Due(d.of[i], n)
                          /\ c.of[i].at \in {7, 19} => d.of[i].at = c.of[i].at,
         NewDue(d)
  PROVE  Expects(d)'
<1> DEFINE Fine(e, n) ==
      \/ \E x \in DGKind : n.type = CallOf[x]
      \/ n.to \in Chare /\ Plain(n) /\ Due(e.of[n.to], n)
<1>2. ASSUME NEW n \in msgs', n \notin msgs PROVE Fine(d, n) BY <1>2
<1>3. ASSUME NEW n \in msgs', n \in msgs, Fine(c, n) PROVE Fine(d, n) BY <1>3
<1>4. ASSUME NEW n \in msgs', n \in msgs, ~ Fine(c, n)
      PROVE  /\ n.type = "write" /\ n.to \in Chare
             /\ \/ d.of[n.to].at = 7 /\ n.then = "start"
                \/ d.of[n.to].at = 19 /\ n.then = "step"
             /\ \A k \in msgs' : k.type = "write" /\ k.to = n.to => k = n
  <2>1. /\ n.type = "write" /\ n.to \in Chare
        /\ \/ c.of[n.to].at = 7 /\ n.then = "start"
           \/ c.of[n.to].at = 19 /\ n.then = "step"
        /\ \A k \in msgs : k.type = "write" /\ k.to = n.to => k = n
    BY <1>4 DEF Expects
  <2>2. d.of[n.to].at = c.of[n.to].at BY <2>1
  <2> QED BY <2>1, <2>2
<1> HIDE DEF Fine
<1>5. \A n \in msgs' :
        \/ Fine(d, n)
        \/ /\ n.type = "write" /\ n.to \in Chare
           /\ \/ d.of[n.to].at = 7 /\ n.then = "start"
              \/ d.of[n.to].at = 19 /\ n.then = "step"
           /\ \A k \in msgs' : k.type = "write" /\ k.to = n.to => k = n
  BY <1>2, <1>3, <1>4
<1> QED BY <1>5 DEF Expects, Fine

LEMMA TradesKeep ==
  ASSUME NEW c, DGInv(c), NEW d, Trades(c, d), NEW x \in DGKind, Letters(x)' = Letters(x), UNCHANGED held
  PROVE  Keeps(c, d, x)
<1>1. Traded(c, x) BY PartsOf
<1>2. \A j \in Chare : count'[j][x] = count[j][x] BY DEF held
<1> QED BY <1>1, <1>2, Quiets DEF Trades

\* An action of the Transporter: what remains to be shown.
LEMMA AllMove ==
  ASSUME NEW c, DGInv(c), NEW d \in Config, SameStep(c, d), \A i \in Chare : Shifts(c, d, i), \A x \in DGKind : Traded(d, x)',
         \A i \in Chare : SameFace(c, d, i),
         \A i \in Chare : d.of[i].at \in {5, 6, 10, 11, 12} =>
           \A x \in {"init", "sol", "lim"} : Arrived(d, x, i)' = Arrived(c, x, i),
         \A i \in Chare : Fits(d, d.of[i]) /\ Contribution(d, i)', Together(d), HostSignals(d)',
         UNCHANGED held, \A i \in Chare : trigger'[i] = trigger[i], TriggerIs,
         ContribIs,
         finished' \in BOOLEAN, finished' => \A i \in Chare : d.of[i].at = 24,
         NewDue(d)
  PROVE  DGInv(d)'
<1>1. Shape /\ Expects(c) /\ c \in Config /\ \A i \in Chare : Local(c, i) BY DEF DGInv, Levels
<1>3. Shape' BY <1>1 DEF Shape, held
<1>4. Expects(d)'
  <2>1. \A i \in Chare : /\ \A n : Due(c.of[i], n) => Due(d.of[i], n)
                         /\ c.of[i].at \in {7, 19} => d.of[i].at = c.of[i].at
    BY DEF Shifts
  <2> QED BY <1>1, <2>1, ExpectsShifted
<1>5. Levels(d) BY DEF Levels
<1>6. ASSUME NEW i \in Chare PROVE Local(d, i)'
  <2>1. /\ SameFace(c, d, i)
        /\ d.of[i].at \in {5, 6, 10, 11, 12} => \A x \in {"init", "sol", "lim"} : Arrived(d, x, i)' = Arrived(c, x, i)
    OBVIOUS
  <2>2. Counters(d, i)' /\ Signalled(d, i)' /\ Maps(d, i)' /\ Ghosts(d, i)' /\ Updated(d, i)' BY <1>1, <2>1, Shifted
  <2> QED BY <2>2 DEF Local
<1> QED BY <1>3, <1>4, <1>5, <1>6 DEF DGInv

-----------------------------------------------------------------------------
\* Nothing that DGInv is about changes, but contributions and calls.
LEMMA Remains ==
  ASSUME NEW c, DGInv(c), \A i \in Chare : Contribution(c, i)',
         UNCHANGED held, trigger' = trigger,
         ContribIs,
         finished' \in BOOLEAN, finished' => \A i \in Chare : c.of[i].at = 24,
         SameMail,
         NewDue(c)
  PROVE  DGInv(c)'
<1>1. /\ Shape /\ c \in Config /\ Together(c) /\ HostSignals(c)
      /\ \A i \in Chare : Fits(c, c.of[i]) /\ Maps(c, i)
  BY PartsOf
<1>2. \A i \in Chare : Shifts(c, c, i)
  <2>1. \A i \in Chare : OverAt(c, c.of[i], "fac") => Nbr[i] = {} \/ c.of[i].sent BY <1>1 DEF Maps
  <2>2. \A i \in Chare : c.of[i].at \in 0 .. 24 BY <1>1, ConfigIs
  <2> QED BY <2>1, <2>2 DEF Shifts
<1>3. Trades(c, c) /\ SameStep(c, c) BY DEF Trades, SameTags, SameStep
<1>5. \A x \in DGKind : Traded(c, x)' /\ \A j \in Chare : Arrived(c, x, j)' = Arrived(c, x, j) BY <1>3, TradesKeep
<1>6. DGKind = {"vol", "fac", "req", "ghost", "init", "sol", "lim"} BY CallTypes
<1>4. HostSignals(c)' /\ TriggerIs BY <1>1 DEF HostSignals, Shape
<1> QED BY <1>1, <1>2, <1>3, <1>4, <1>5, <1>6, AllMove

\* Where a chare is, by the first of its contributions: of the worker,
LEMMA HeadWorker ==
  ASSUME NEW c, DGInv(c), NEW i \in Chare, contrib["worker"][i] # <<>>, NEW r, r = Head(contrib["worker"][i])
  PROVE  /\ ~ finished /\ Tail(contrib["worker"][i]) = <<>>
         /\ r = "comfinal" => c.of[i].at \in {2, 17}
         /\ r = "sendinit" => c.of[i].at = 4
         /\ r = "advance" => c.of[i].at = 9
         /\ r = "solve" => c.of[i].at = 13
         /\ r = "finish" => c.of[i].at = 24
         /\ r = "workresized" => c.of[i].ref = 3 /\ ~ c.work /\ c.of[i].at = 15
<1> DEFINE p == c.of[i]
<1>p. p = c.of[i] OBVIOUS
<1>0. Fits(c, p) /\ Contribution(c, i) /\ Together(c) /\ c \in Config BY PartsOf
<1> HIDE DEF p
<1>1. ~ finished /\ contrib["worker"][i] = WorkerPart(c, p) BY <1>0, <1>p DEF Contribution
<1>2. CASE p.ref # 3 \/ c.work
  <2>1. /\ p.at \in {2, 17} => WorkerPart(c, p) = <<"comfinal">>
        /\ p.at = 4 => WorkerPart(c, p) = <<"sendinit">>
        /\ p.at = 9 => WorkerPart(c, p) = <<"advance">>
        /\ p.at = 13 => WorkerPart(c, p) = <<"solve">>
        /\ p.at = 24 => WorkerPart(c, p) = <<"finish">>
        /\ p.at \notin {2, 4, 9, 13, 17, 24} => WorkerPart(c, p) = <<>>
    BY <1>2, WorkerParts
  <2>2. p.at \in {2, 4, 9, 13, 17, 24} BY <1>1, <2>1
  <2>3. /\ p.at \in {2, 17} => r = "comfinal"
        /\ p.at = 4 => r = "sendinit"
        /\ p.at = 9 => r = "advance"
        /\ p.at = 13 => r = "solve"
        /\ p.at = 24 => r = "finish"
    BY <1>1, <2>1, TargetFacts
  <2>4. Tail(contrib["worker"][i]) = <<>>
    <3>1. \A k : Tail(<<k>>) = <<>> BY TargetFacts
    <3>2. \E k \in {"comfinal", "sendinit", "advance", "solve", "finish"} : WorkerPart(c, p) = <<k>> BY <2>1, <2>2
    <3> QED BY <1>1, <3>1, <3>2
  <2> QED BY <1>1, <1>p, <2>2, <2>3, <2>4
<1>3. CASE p.ref = 3 /\ ~ c.work
  <2>1. Made(c, p) /\ p.at >= 15 /\ Renews(c) BY <1>0, <1>3 DEF Fits, Made
  <2>2. c.mesh < 2 /\ p.vol = 0
    <3>1. c.mesh \in 0 .. 5 BY <1>0, ConfigIs
    <3>2. ~ (c.mesh >= 2) BY <1>0, <1>3 DEF Together
    <3>3. c.mesh < 2 BY <3>1, <3>2
    <3> QED BY <1>0, <3>3 DEF Fits
  <2>3. p.at = 15
    <3>1. ~ (p.at >= 16) BY <1>0, <2>1, <2>2 DEF Fits
    <3>2. p.at \in 0 .. 24 BY <1>0, <1>p, ConfigIs
    <3> QED BY <2>1, <3>1, <3>2
  <2>4. WorkerPart(c, p) = <<"workresized">> BY <1>3, <2>3 DEF WorkerPart
  <2>5. r = "workresized" /\ Tail(contrib["worker"][i]) = <<>> BY <1>1, <2>4, TargetFacts
  <2> QED BY <1>1, <1>3, <1>p, <2>3, <2>5
<1> QED BY <1>2, <1>3

\* and of the Discretization.
LEMMA HeadDisc ==
  ASSUME NEW c, DGInv(c), NEW i \in Chare, contrib["disc"][i] # <<>>, NEW r, r = Head(contrib["disc"][i])
  PROVE  /\ Tail(contrib["disc"][i]) = IF r = "diagnostics" /\ c.of[i].ref = 3 THEN <<"discresized">> ELSE <<>>
         /\ r = "advance" => c.of[i].at = 22
         /\ r = "diagnostics" => c.of[i].diag = 1 /\ ~ c.disc /\ c.of[i].at # 22
         /\ r = "discresized" => c.of[i].diag # 1 /\ c.of[i].ref = 3 /\ ~ c.disc /\ c.of[i].at # 22
         /\ r = "vol" => c.of[i].vol \in {1, 2} /\ contrib["disc"][i] = <<"vol">>
         /\ r = "totalvol" => c.of[i].vol = 4
<1> DEFINE p == c.of[i]
           s == contrib["disc"][i]
<1>p. p = c.of[i] /\ s = contrib["disc"][i] /\ s # <<>> /\ r = Head(s) OBVIOUS
<1>0. Fits(c, p) /\ Contribution(c, i) BY PartsOf
<1> HIDE DEF p, s
<1>1. s \in DiscParts(c, p) BY <1>0, <1>p DEF Contribution
<1>2. c.disc => p.diag # 1 BY <1>0 DEF Fits
<1>3. \/ s = <<"advance">> /\ p.at = 22
      \/ s = <<"diagnostics", "discresized">> /\ p.diag = 1 /\ p.ref = 3 /\ p.at # 22
      \/ s = <<"diagnostics">> /\ p.diag = 1 /\ p.ref # 3 /\ p.at # 22
      \/ s = <<"discresized">> /\ p.diag # 1 /\ p.ref = 3 /\ ~ c.disc /\ p.at # 22
      \/ s = <<"vol">> /\ p.vol \in {1, 2}
      \/ s = <<"totalvol">> /\ p.vol = 4
  BY <1>1, <1>p DEF DiscParts
<1>4. \/ r = "advance" /\ Tail(s) = <<>> /\ p.at = 22
      \/ r = "diagnostics" /\ Tail(s) = <<"discresized">> /\ p.diag = 1 /\ p.ref = 3 /\ p.at # 22
      \/ r = "diagnostics" /\ Tail(s) = <<>> /\ p.diag = 1 /\ p.ref # 3 /\ p.at # 22
      \/ r = "discresized" /\ Tail(s) = <<>> /\ p.diag # 1 /\ p.ref = 3 /\ ~ c.disc /\ p.at # 22
      \/ r = "vol" /\ Tail(s) = <<>> /\ p.vol \in {1, 2} /\ s = <<"vol">>
      \/ r = "totalvol" /\ Tail(s) = <<>> /\ p.vol = 4
  <2>1. /\ \A q : Head(<<q>>) = q /\ Tail(<<q>>) = <<>>
        /\ \A q, k : Head(<<q, k>>) = q /\ Tail(<<q, k>>) = <<k>>
    BY TargetFacts
  <2> QED BY <1>3, <1>p, <2>1
<1> QED BY <1>2, <1>4, <1>p

-----------------------------------------------------------------------------
\* What remains of the contributions of a chare for which nothing else changes.
LEMMA ContributionRemains ==
  ASSUME NEW c, NEW i \in Chare, Contribution(c, i), Letters("vol")' = Letters("vol"),
         contrib'["worker"][i] = IF finished' THEN <<>> ELSE contrib["worker"][i],
         finished => finished',
         SameTargets("disc", i), SameTargets("refiner", i),
         contrib'["sync"][i] \in Seq({"sync"}),
         ~ Nonblocking => SameTargets("sync", i)
  PROVE  Contribution(c, i)'
<1>1. Arrived(c, "vol", i)' = Arrived(c, "vol", i)
  <2>1. "vol" \in DGKind BY CallTypes
  <2>2. /\ \A j : j \in Arrived(c, "vol", i) <=> /\ j \in From("vol", i) /\ SentAt(c, c.of[j], "vol")
                                                /\ Letter(c, "vol", j, i) \notin Letters("vol")
        /\ \A j : j \in Arrived(c, "vol", i)' <=> /\ j \in From("vol", i) /\ SentAt(c, c.of[j], "vol")
                                                 /\ Letter(c, "vol", j, i) \notin Letters("vol")'
    BY <2>1, ArrivedIs
  <2> QED BY <2>2
<1>2. contrib'["worker"][i] = IF finished' THEN <<>> ELSE WorkerPart(c, c.of[i]) BY DEF Contribution
<1> QED BY <1>1, <1>2 DEF Contribution

\* Discretization::Posting and Exit: nothing.
LEMMA PostingKeeps ==
  ASSUME NEW c, DGInv(c), UNCHANGED <<msgs, trigger, contrib, finished, held>>
  PROVE  DGInv(c)'
<1>1. /\ Shape /\ \A i \in Chare : Contribution(c, i) /\ (finished => c.of[i].at = 24) BY PartsOf
<1>2. \A x : Letters(x)' = Letters(x) BY DEF Letters
<1>3. ASSUME NEW i \in Chare PROVE Contribution(c, i)'
  <2>1. /\ contrib["sync"][i] \in Seq({"sync"})
        /\ contrib["worker"][i] = IF finished THEN <<>> ELSE contrib["worker"][i]
    BY <1>1 DEF Contribution
  <2> QED BY <1>1, <1>2, <2>1, ContributionRemains
<1>4. /\ ContribIs
      /\ finished' \in BOOLEAN
  BY <1>1 DEF Shape
<1>5. finished' => \A i \in Chare : c.of[i].at = 24 BY <1>1
<1>6. UNCHANGED held /\ trigger' = trigger /\ msgs' = msgs OBVIOUS
<1> QED BY <1>2, <1>3, <1>4, <1>5, <1>6, Remains

\* Transporter::finish
LEMMA EndKeeps ==
  ASSUME NEW c, DGInv(c), End
  PROVE  DGInv(c)'
<1>1. Reduce("worker", "finish", Nothing) /\ finished' = TRUE /\ UNCHANGED held
  BY DEF End, Finish, nodeVars, dgVars, stageVars, meshVars, cellVars, held
<1>2. /\ Shape /\ \A i \in Chare : Contribution(c, i) BY PartsOf
<1>3. /\ msgs' = msgs \cup Nothing.calls /\ Reduces("worker", {}, Nothing)
      /\ \A i \in Chare : contrib["worker"][i] # <<>> /\ Head(contrib["worker"][i]) = "finish"
  BY <1>1, <1>2, Arrays, Reducing DEF ArrayIs
<1>4. msgs' = msgs BY <1>3, EffectFacts
<1>5. \A x : Letters(x)' = Letters(x) BY <1>4 DEF Letters
<1>6. ASSUME NEW i \in Chare PROVE c.of[i].at = 24 /\ ~ finished /\ Tail(contrib["worker"][i]) = <<>>
  BY <1>3, HeadWorker
<1>7. /\ ContribIs
      /\ \A i \in Chare : /\ contrib'["worker"][i] = Tail(contrib["worker"][i])
                          /\ SameTargets("disc", i)
                          /\ SameTargets("refiner", i)
                          /\ SameTargets("sync", i)
  BY <1>3, Arrays DEF Reduces, ArrayIs
<1>8. ASSUME NEW i \in Chare PROVE Contribution(c, i)'
  <2>1. contrib["sync"][i] \in Seq({"sync"}) BY <1>2 DEF Contribution
  <2> QED BY <1>1, <1>2, <1>5, <1>6, <1>7, <2>1, ContributionRemains
<1>9. trigger' = trigger
  <2>1. trigger \in [Object -> [Trigger -> Int]] /\ TriggerIs
    BY <1>2, <1>3 DEF Shape, Reduces
  <2>2. \A t \in Trigger : trigger'[Host][t] = trigger[Host][t] + 0 BY <1>3, EffectFacts DEF Reduces
  <2>3. \A o \in Chare : trigger'[o] = trigger[o] BY <1>3 DEF Reduces
  <2>4. trigger'[Host] = trigger[Host] BY <2>1, <2>2, ObjectFacts
  <2>5. Object = Chare \cup {Host} BY DEF Object
  <2> QED BY <2>1, <2>3, <2>4, <2>5
<1> QED BY <1>1, <1>4, <1>5, <1>6, <1>7, <1>8, <1>9, Remains

\* A call of all elements.
LEMMA Broadcasting ==
  ASSUME NEW t, \A x \in DGKind : t # CallOf[x], msgs' = msgs \cup Broadcast(t)
  PROVE  /\ SameMail
         /\ \A n \in msgs' : n \notin msgs => n.to \in Chare /\ n.type = t /\ Plain(n)
<1>1. \A n \in Broadcast(t) : n.to \in Chare /\ n.type = t /\ Plain(n) BY DEF Broadcast
<1>2. ASSUME NEW x \in DGKind PROVE Letters(x)' = Letters(x) BY <1>1, <1>2 DEF Letters
<1> QED BY <1>1, <1>2

\* The Transporter calls all elements.
LEMMA Reduced ==
  ASSUME NEW c, DGInv(c), NEW a \in Array, NEW r, NEW t, NEW e, Reduce(a, r, e), e.calls = Broadcast(t), e.triggers = {},
         t # "write", \A x \in DGKind : t # CallOf[x]
  PROVE  /\ \A i \in Chare : contrib[a][i] # <<>> /\ Head(contrib[a][i]) = r
         /\ \A i \in Chare : \A b \in Array : contrib'[b][i] = IF b = a THEN Tail(contrib[b][i]) ELSE contrib[b][i]
         /\ ContribIs
         /\ trigger' = trigger /\ TriggerIs
         /\ SameMail
         /\ NewOf(t)
<1>2. Shape BY PartsOf
<1>3. /\ msgs' = msgs \cup e.calls /\ Reduces(a, {}, e)
      /\ \A i \in Chare : contrib[a][i] # <<>> /\ Head(contrib[a][i]) = r
  BY <1>2, Reducing
<1>4. trigger' = trigger /\ TriggerIs
  <2>1. trigger \in [Object -> [Trigger -> Int]] /\ TriggerIs
    BY <1>2, <1>3 DEF Shape, Reduces
  <2>2. \A s \in Trigger : trigger'[Host][s] = trigger[Host][s] + 0 BY <1>3 DEF Reduces
  <2>3. \A o \in Chare : trigger'[o] = trigger[o] BY <1>3 DEF Reduces
  <2>4. trigger'[Host] = trigger[Host] BY <2>1, <2>2, ObjectFacts
  <2>5. Object = Chare \cup {Host} BY DEF Object
  <2> QED BY <2>1, <2>3, <2>4, <2>5
<1>5. /\ SameMail
      /\ \A n \in msgs' : n \notin msgs => n.to \in Chare /\ n.type = t /\ Plain(n)
  BY <1>3, Broadcasting
<1> QED BY <1>3, <1>4, <1>5 DEF Reduces

LEMMA Reduction ==
  ASSUME NEW c, DGInv(c), NEW a \in Array, NEW r, NEW t, Reduce(a, r, Calls(Broadcast(t))),
         t # "write", \A x \in DGKind : t # CallOf[x]
  PROVE  /\ \A i \in Chare : contrib[a][i] # <<>> /\ Head(contrib[a][i]) = r
         /\ \A i \in Chare : \A b \in Array : contrib'[b][i] = IF b = a THEN Tail(contrib[b][i]) ELSE contrib[b][i]
         /\ ContribIs
         /\ trigger' = trigger /\ TriggerIs
         /\ SameMail
         /\ NewOf(t)
<1> DEFINE e == Calls(Broadcast(t))
<1>1. e.calls = Broadcast(t) /\ e.triggers = {} BY EffectFacts
<1>2. Reduce(a, r, e) OBVIOUS
<1> HIDE DEF e
<1> QED BY <1>1, <1>2, Reduced

LEMMA AllAtIs ==
  ASSUME NEW c \in Config, NEW ph, NEW ms, NEW b, ph \in 0 .. 4, ms \in 0 .. 5, b \in 0 .. 24,
         NEW d, d = AllAt(c, ph, ms, b)
  PROVE  /\ d \in Config /\ SameStep(c, d) /\ d.phase = ph /\ d.mesh = ms
         /\ SameJobs(c, d)
         /\ \A i \in Chare : d.of[i].at = b /\ SamePoint(c.of[i], d.of[i])
<1>1. c.of \in [Chare -> Point] BY DEF Config
<1>2. ASSUME NEW i \in Chare PROVE At(c.of[i], b) \in Point /\ At(c.of[i], b).at = b /\ SamePoint(c.of[i], At(c.of[i], b))
  <2>1. c.of[i] \in Point BY <1>1
  <2> QED BY <2>1, AtIs
<1>3. d.of = [i \in Chare |-> At(c.of[i], b)] BY DEF AllAt, Config
<1>4. /\ d.phase = ph /\ d.mesh = ms /\ d.it = c.it /\ d.st = c.st
      /\ SameJobs(c, d)
  BY DEF AllAt, Config
<1>5. d \in Config
  <2>1. [i \in Chare |-> At(c.of[i], b)] \in [Chare -> Point] BY <1>2
  <2> QED BY <2>1 DEF AllAt, Config
<1> QED BY <1>2, <1>3, <1>4, <1>5 DEF SameStep

\* The chare no longer contributes to the reduction that is complete.
LEMMA ContributionTaken ==
  ASSUME NEW c, NEW d, NEW i \in Chare, Contribution(c, i), SamePoint(c.of[i], d.of[i]),
         d.disc = c.disc, d.work = c.work, c.of[i].ref # 3 \/ c.work,
         c.of[i].at \notin {21, 22}, d.of[i].at \notin {2, 4, 9, 13, 17, 24, 21, 22}, finished' = finished,
         Arrived(d, "vol", i)' = Arrived(c, "vol", i),
         contrib'["worker"][i] = <<>>, SameTargets("disc", i),
         SameTargets("refiner", i), SameTargets("sync", i)
  PROVE  Contribution(d, i)'
<1>1. WorkerPart(d, d.of[i]) = <<>> BY WorkerParts DEF SamePoint
<1>2. DiscParts(d, d.of[i]) = DiscParts(c, c.of[i]) BY DEF DiscParts, SamePoint
<1> QED BY <1>1, <1>2 DEF Contribution, SamePoint

\* The first of these targets: what is asked for ghosts has all arrived.
LEMMA AllAsked ==
  ASSUME NEW c, DGInv(c), \A i \in Chare : c.of[i].at \in {2, 17}, NEW i \in Chare
  PROVE  /\ Nbr[i] = {} \/ (c.of[i].req /\ c.of[i].sent)
         /\ \A x \in Faces : Arrived(c, x, i) = From(x, i)
<1>1. \A j \in Chare : Maps(c, j) BY PartsOf
<1>2. \A j \in Chare : Arrived(c, "ghost", j) = Fac[j] /\ (Nbr[j] # {} => Fac[j] # {}) BY <1>1 DEF Maps
<1>3. \A j \in Chare : \A k \in Arrived(c, "ghost", j) : c.of[k].sent BY ArrivedIs, CallTypes DEF SentAt
<1>4. Nbr[i] # {} => c.of[i].sent
  <2>1. ASSUME NEW j \in Fac[i] PROVE c.of[i].sent
    <3>1. j \in Chare /\ i \in Fac[j] BY NbrFacts
    <3> QED BY <1>2, <1>3, <3>1
  <2> QED BY <1>2, <2>1
<1>5. Nbr[i] # {} => c.of[i].req /\ Arrived(c, "fac", i) = Nbr[i] /\ Arrived(c, "req", i) = Nbr[i]
  BY <1>1, <1>4 DEF Maps
<1>6. ASSUME Nbr[i] = {} PROVE Arrived(c, "fac", i) = Nbr[i] /\ Arrived(c, "req", i) = Nbr[i]
  <2>1. From("fac", i) = Nbr[i] /\ From("req", i) = Nbr[i] BY DEF From
  <2> QED BY <1>6, <2>1, ArrivedIs, CallTypes
<1>7. From("fac", i) = Nbr[i] /\ From("req", i) = Nbr[i] /\ From("ghost", i) = Fac[i] BY DEF From
<1> QED BY <1>2, <1>4, <1>5, <1>6, <1>7

\* What has been counted does not depend on phase and point.
LEMMA SameLetters ==
  ASSUME NEW c, NEW d, SameStep(c, d), (d.mesh > 0) <=> (c.mesh > 0), NEW x \in DGKind
  PROVE  SameTags(c, d, x)
<1>1. Base(d) = Base(c) /\ Now(d) = Now(c) BY StepFacts
<1>2. TagOf(d, x) = TagOf(c, x) BY <1>1 DEF SameStep, TagOf
<1> QED BY <1>1, <1>2 DEF SameTags, Letter

\* The members that DGInv is about.
LEMMA HeldIs ==
  ASSUME UNCHANGED <<stepVars, fileVars, refined, nodeVars, dgVars>>
  PROVE  UNCHANGED held /\ finished' = finished
  BY DEF held, stepVars, nodeVars, dgVars, stageVars, meshVars, cellVars

LEMMA StartingKeeps ==
  ASSUME NEW c, DGInv(c), NEW r, NEW t, NEW ph, NEW b, Starting(c, ph, b, r), t = (IF b = 3 THEN "setup" ELSE "sendinit"),
         Reduce("worker", r, Calls(Broadcast(t))), UNCHANGED held, finished' = finished
  PROVE  \E d \in Config : DGInv(d)'
<1> DEFINE d == AllAt(c, ph, 0, b)
<1>d. d = AllAt(c, ph, 0, b) OBVIOUS
<1> HIDE DEF d
<1>1. /\ Shape /\ c \in Config /\ Together(c) /\ HostSignals(c)
      /\ \A i \in Chare : Fits(c, c.of[i]) /\ Maps(c, i) /\ Contribution(c, i)
  BY PartsOf
<1>2. /\ \A i \in Chare : contrib["worker"][i] # <<>> /\ Head(contrib["worker"][i]) = r
      /\ \A i \in Chare : \A a \in Array : contrib'[a][i] = IF a = "worker" THEN Tail(contrib[a][i]) ELSE contrib[a][i]
      /\ ContribIs
      /\ trigger' = trigger /\ TriggerIs
      /\ SameMail
      /\ NewOf(t)
  <2>1. t # "write" /\ (\A x \in DGKind : t # CallOf[x]) /\ "worker" \in Array BY CallTypes, Arrays DEF ArrayIs
  <2> QED BY <2>1, Reduction
<1>3. /\ c.phase \in 0 .. 4 /\ c.st \in 0 .. 2 /\ c.mesh \in 0 .. 5
      /\ \A i \in Chare : c.of[i].at \in 0 .. 24
  BY <1>1, ConfigIs
<1>4. \A i \in Chare : c.of[i].at = (IF b = 3 THEN 2 ELSE 4) /\ Tail(contrib["worker"][i]) = <<>> /\ ~ finished
  <2>1. ASSUME NEW i \in Chare
        PROVE  /\ ~ finished /\ Tail(contrib["worker"][i]) = <<>>
               /\ r = "comfinal" => c.of[i].at \in {2, 17}
               /\ r = "sendinit" => c.of[i].at = 4
    BY <1>2, HeadWorker
  <2>2. ASSUME NEW i \in Chare, c.phase = 0 PROVE c.of[i].at # 17 BY <1>1, <2>2 DEF Fits
  <2> QED BY <2>1, <2>2 DEF Starting
<1>5. c.phase = ph - 1 /\ ph \in {1, 2} /\ b \in {3, 5} /\ (b = 3 <=> ph = 1)
  <2>1. PICK j \in Chare : TRUE BY ConstantFacts
  <2>2. r = "sendinit" => c.phase = 1
    <3>1. r = "sendinit" => c.of[j].at = 4 BY <1>4 DEF Starting
    <3> QED BY <1>1, <1>3, <3>1 DEF Fits
  <2> QED BY <2>2 DEF Starting
<1>6. c.mesh = 0 /\ ~ c.disc /\ ~ c.work /\ ~ c.diagnosed /\ c.it = 0 /\ c.st = 0 BY <1>1, <1>3, <1>5 DEF Together
<1>7. /\ d \in Config /\ SameStep(c, d) /\ d.phase = ph /\ d.mesh = 0
      /\ SameJobs(c, d)
      /\ \A i \in Chare : d.of[i].at = b /\ SamePoint(c.of[i], d.of[i])
  BY <1>1, <1>5, <1>d, AllAtIs
<1>8. \A i \in Chare : ~ Made(c, c.of[i]) /\ ~ Made(d, d.of[i]) /\ c.of[i].diag = 0 /\ c.of[i].ref = 0 /\ c.of[i].vol = 0
  <2>1. \A i \in Chare : ~ Made(c, c.of[i]) /\ ~ Made(d, d.of[i]) BY <1>5, <1>7 DEF Made
  <2> QED BY <1>1, <1>6, <2>1 DEF Fits
<1>9. \A i \in Chare : /\ Nbr[i] = {} \/ (c.of[i].req /\ c.of[i].sent)
                       /\ \A x \in Faces : OverAt(d, d.of[i], x) => \/ OverAt(c, c.of[i], x)
                                                                                     \/ Arrived(c, x, i) = From(x, i)
  <2>1. CASE b = 3
    <3>1. \A i \in Chare : c.of[i].at \in {2, 17} BY <1>4, <2>1
    <3> QED BY <3>1, AllAsked
  <2>2. CASE b # 3
    <3>1. \A i \in Chare : \A x \in Faces : OverAt(c, c.of[i], x) BY <1>5, <1>6, <2>2, SentFacts
    <3>2. \A i \in Chare : Nbr[i] = {} \/ (c.of[i].req /\ c.of[i].sent) BY <1>1, <3>1 DEF Maps
    <3> QED BY <3>1, <3>2
  <2> QED BY <2>1, <2>2
<1>10. Trades(c, d)
  <2>1. ASSUME NEW x \in DGKind PROVE SameTags(c, d, x) BY <1>6, <1>7, SameLetters
  <2>2. ASSUME NEW i \in Chare
        PROVE  /\ \A x \in DGKind : SentAt(d, d.of[i], x) <=> SentAt(c, c.of[i], x)
               /\ \A x \in {"vol", "init", "sol", "lim"} : OverAt(d, d.of[i], x) => OverAt(c, c.of[i], x)
    <3>1. c.of[i].at \in {2, 4} /\ d.of[i].at \in {3, 5} /\ SamePoint(c.of[i], d.of[i]) BY <1>4, <1>5, <1>7
    <3>2. d.mesh = 0 /\ d.phase \in {1, 2} /\ c.phase \in {0, 1} BY <1>5, <1>7
    <3> QED BY <1>6, <3>1, <3>2, CallTypes, SentFacts DEF SamePoint
  <2>3. \A x \in DGKind : x \in {"vol", "init", "sol", "lim"} \/ x \in Faces BY CallTypes
  <2> QED BY <1>9, <2>1, <2>2, <2>3 DEF Trades
<1>11. \A x \in DGKind : Keeps(c, d, x)
  BY <1>2, <1>10, TradesKeep
<1>12. ASSUME NEW i \in Chare PROVE Contribution(d, i)'
  <2>1. /\ contrib'["worker"][i] = <<>> /\ SameTargets("disc", i)
        /\ SameTargets("refiner", i) /\ SameTargets("sync", i)
    BY <1>2, <1>4, Arrays DEF ArrayIs
  <2>2. Arrived(d, "vol", i)' = Arrived(c, "vol", i) BY <1>11, CallTypes
  <2>3. c.of[i].ref # 3 /\ c.of[i].at \notin {21, 22} /\ d.of[i].at \notin {2, 4, 9, 13, 17, 24, 21, 22}
    BY <1>4, <1>5, <1>7, <1>8
  <2> QED BY <1>1, <1>7, <2>1, <2>2, <2>3, ContributionTaken
<1>13. ASSUME NEW i \in Chare PROVE Fits(d, d.of[i])
  <2> DEFINE q == d.of[i]
  <2>1. q.at = b /\ q.diag = 0 /\ q.ref = 0 /\ q.vol = 0 /\ ~ Made(d, q) BY <1>7, <1>8 DEF SamePoint
  <2>2. d.phase = ph /\ d.mesh = 0 /\ ~ d.disc /\ ~ d.work /\ ~ d.diagnosed BY <1>6, <1>7
  <2> HIDE DEF q
  <2>3. Fits(d, q) BY <1>5, <2>1, <2>2 DEF Fits
  <2> QED BY <2>3 DEF q
<1>14. ASSUME NEW i \in Chare PROVE Shifts(c, d, i)
  <2> DEFINE p == c.of[i]
             q == d.of[i]
  <2>1. p.at \in {2, 4} /\ q.at \in {3, 5} /\ SamePoint(p, q) /\ (Nbr[i] = {} \/ p.sent) /\ ~ Made(c, p) /\ ~ Made(d, q)
    BY <1>4, <1>5, <1>7, <1>8, <1>9
  <2>2. p.ref = 0 /\ q.ref = 0 /\ c.phase \in {0, 1} BY <1>5, <1>7, <1>8 DEF SamePoint
  <2>3. \A n : Due(p, n) => Due(q, n)
    <3>1. AtCall(p.at) = "none" BY <2>1 DEF AtCall
    <3>2. \A n : Due(p, n) => n.type # "none" BY DEF Due
    <3> QED BY <2>1, <3>1, <3>2, DueMoves DEF SamePoint
  <2>4. p = c.of[i] /\ q = d.of[i] OBVIOUS
  <2> HIDE DEF p, q
  <2>5. Asking(c, q) <=> Asking(c, p) BY <2>1, <2>2 DEF Asking, SamePoint
  <2> QED BY <2>1, <2>2, <2>3, <2>4, <2>5 DEF Shifts, SamePoint
<1>15. Together(d) BY <1>1, <1>5, <1>6, <1>7 DEF Together, SameStep
<1>16. HostSignals(d)' BY <1>1, <1>2, <1>6, <1>7 DEF HostSignals
<1>17. NewDue(d)
  <2>1. \A i \in Chare : \A n : n.type = t => Due(d.of[i], n) BY <1>5, <1>7 DEF Due
  <2> QED BY <1>2, <2>1
<1>18. finished' \in BOOLEAN /\ (finished' => \A i \in Chare : d.of[i].at = 24)
  <2>1. Chare # {} /\ finished \in BOOLEAN BY <1>1, ConstantFacts DEF Shape
  <2> QED BY <1>4, <2>1
<1>19. DGInv(d)'
  <2>1. \A i \in Chare : \A x \in {"fac", "req", "ghost", "init", "sol", "lim"} : Arrived(d, x, i)' = Arrived(c, x, i)
    BY <1>11, CallTypes
  <2> QED BY <1>2, <1>7, <1>11, <1>12, <1>13, <1>14, <1>15, <1>16, <1>17, <1>18, <2>1, AllMove
<1> QED BY <1>7, <1>19

\* A chare with the ghosts of a new mesh.
LEMMA AtAgain ==
  ASSUME NEW c, DGInv(c), NEW i \in Chare, c.of[i].at = 17
  PROVE  /\ c.phase = 4 /\ c.st = 2 /\ Made(c, c.of[i]) /\ Renews(c) /\ c.mesh = 4 /\ c.disc /\ c.work
         /\ c.of[i].diag = 3 /\ c.of[i].ref = 3 /\ c.of[i].vol = 6
<1> DEFINE p == c.of[i]
<1>p. p = c.of[i] /\ p.at = 17 OBVIOUS
<1>1. Fits(c, p) /\ Together(c) /\ c \in Config BY PartsOf
<1> HIDE DEF p
<1>2. c.phase \in 0 .. 4 /\ c.st \in 0 .. 2 /\ c.mesh \in 0 .. 5 BY <1>1, ConfigIs
<1>3. c.phase = 4 BY <1>1, <1>2, <1>p DEF Fits
<1>4. c.st = 2 BY <1>1, <1>2, <1>3, <1>p DEF Fits
<1>5. Made(c, p) BY <1>3, <1>4, <1>p DEF Made
<1>6. Renews(c) /\ p.diag = 3 /\ p.vol = 6 BY <1>1, <1>5, <1>p DEF Fits
<1>7. c.mesh = 4
  <2>1. c.mesh # 5 /\ p.vol = 6 BY <1>1, <1>5, <1>6, <1>p DEF Fits
  <2> QED BY <1>1, <1>2, <2>1 DEF Fits
<1>8. p.ref = 3 BY <1>1, <1>7 DEF Fits
<1>9. c.disc /\ c.work BY <1>1, <1>7 DEF Together
<1> QED BY <1>3, <1>4, <1>5, <1>6, <1>7, <1>8, <1>9, <1>p

\* Transporter::comfinal on a new mesh.
LEMMA AgainKeeps ==
  ASSUME NEW c, DGInv(c), NEW j0 \in Chare, c.of[j0].at = 17, NEW t, t = "lhs",
         Reduce("worker", "comfinal", Calls(Broadcast(t))), UNCHANGED held, finished' = finished
  PROVE  \E d \in Config : DGInv(d)'
<1> DEFINE d == AllAt(c, 4, 5, 18)
<1>d. d = AllAt(c, 4, 5, 18) OBVIOUS
<1> HIDE DEF d
<1>1. /\ Shape /\ c \in Config /\ Together(c) /\ HostSignals(c)
      /\ \A i \in Chare : Fits(c, c.of[i]) /\ Maps(c, i) /\ Contribution(c, i)
  BY PartsOf
<1>2. /\ \A i \in Chare : contrib["worker"][i] # <<>> /\ Head(contrib["worker"][i]) = "comfinal"
      /\ \A i \in Chare : \A a \in Array : contrib'[a][i] = IF a = "worker" THEN Tail(contrib[a][i]) ELSE contrib[a][i]
      /\ ContribIs
      /\ trigger' = trigger /\ TriggerIs
      /\ SameMail
      /\ NewOf(t)
  <2>1. t # "write" /\ (\A x \in DGKind : t # CallOf[x]) /\ "worker" \in Array BY CallTypes, Arrays DEF ArrayIs
  <2> QED BY <2>1, Reduction
<1>4. \A i \in Chare : c.of[i].at = 17 /\ Tail(contrib["worker"][i]) = <<>> /\ ~ finished
  <2>1. ASSUME NEW i \in Chare
        PROVE  ~ finished /\ Tail(contrib["worker"][i]) = <<>> /\ c.of[i].at \in {2, 17}
    BY <1>2, HeadWorker
  <2>2. c.phase = 4 BY AtAgain
  <2>3. ASSUME NEW i \in Chare PROVE c.of[i].at # 2 BY <1>1, <2>2 DEF Fits
  <2> QED BY <2>1, <2>3
<1>5. /\ c.phase = 4 /\ c.st = 2 /\ Renews(c) /\ c.mesh = 4 /\ c.disc /\ c.work
      /\ \A i \in Chare : Made(c, c.of[i]) /\ c.of[i].diag = 3 /\ c.of[i].ref = 3 /\ c.of[i].vol = 6
  BY <1>4, AtAgain
<1>7. /\ d \in Config /\ SameStep(c, d) /\ d.phase = 4 /\ d.mesh = 5 /\ d.st = 2
      /\ SameJobs(c, d)
      /\ \A i \in Chare : d.of[i].at = 18 /\ SamePoint(c.of[i], d.of[i])
  <2>1. 4 \in 0 .. 4 /\ 5 \in 0 .. 5 /\ 18 \in 0 .. 24 OBVIOUS
  <2>2. /\ d \in Config /\ SameStep(c, d) /\ d.phase = 4 /\ d.mesh = 5
        /\ SameJobs(c, d)
        /\ \A i \in Chare : d.of[i].at = 18 /\ SamePoint(c.of[i], d.of[i])
    BY <1>1, <1>d, <2>1, AllAtIs
  <2> QED BY <1>5, <2>2 DEF SameStep
<1>8. \A i \in Chare : Made(d, d.of[i]) BY <1>7 DEF Made
<1>9. \A i \in Chare : /\ Nbr[i] = {} \/ (c.of[i].req /\ c.of[i].sent)
                       /\ \A x \in Faces : Arrived(c, x, i) = From(x, i)
  <2>1. \A i \in Chare : c.of[i].at \in {2, 17} BY <1>4
  <2> QED BY <2>1, AllAsked
<1>10. Trades(c, d)
  <2>1. ASSUME NEW x \in DGKind PROVE SameTags(c, d, x) BY <1>5, <1>7, SameLetters
  <2>2. ASSUME NEW i \in Chare
        PROVE  /\ \A x \in DGKind : SentAt(d, d.of[i], x) <=> SentAt(c, c.of[i], x)
               /\ \A x \in {"vol", "init", "sol", "lim"} : OverAt(d, d.of[i], x) => OverAt(c, c.of[i], x)
    <3>1. c.of[i].at = 17 /\ d.of[i].at = 18 /\ SamePoint(c.of[i], d.of[i]) BY <1>4, <1>7
    <3>2. d.mesh = 5 /\ d.phase = 4 /\ c.phase = 4 /\ c.mesh = 4 BY <1>5, <1>7
    <3> QED BY <3>1, <3>2, CallTypes, SentFacts DEF SamePoint
  <2>3. \A x \in DGKind : x \in {"vol", "init", "sol", "lim"} \/ x \in Faces BY CallTypes
  <2> QED BY <1>9, <2>1, <2>2, <2>3 DEF Trades
<1>11. \A x \in DGKind : Keeps(c, d, x)
  BY <1>2, <1>10, TradesKeep
<1>12. ASSUME NEW i \in Chare PROVE Contribution(d, i)'
  <2>1. /\ contrib'["worker"][i] = <<>> /\ SameTargets("disc", i)
        /\ SameTargets("refiner", i) /\ SameTargets("sync", i)
    BY <1>2, <1>4, Arrays DEF ArrayIs
  <2>2. Arrived(d, "vol", i)' = Arrived(c, "vol", i) BY <1>11, CallTypes
  <2>3. c.work /\ c.of[i].at \notin {21, 22} /\ d.of[i].at \notin {2, 4, 9, 13, 17, 24, 21, 22} BY <1>4, <1>5, <1>7
  <2> QED BY <1>1, <1>7, <2>1, <2>2, <2>3, ContributionTaken
<1>13. ASSUME NEW i \in Chare PROVE Fits(d, d.of[i])
  <2> DEFINE p == c.of[i]
             q == d.of[i]
  <2>1. q.at = 18 /\ q.diag = 3 /\ q.ref = 3 /\ q.vol = 6 /\ Made(d, q) /\ Made(c, p) /\ p.diag = 3 /\ Fits(c, p)
    BY <1>1, <1>5, <1>7, <1>8 DEF SamePoint
  <2>2. d.phase = 4 /\ d.mesh = 5 /\ d.st = 2 /\ SameJobs(c, d)
    BY <1>7
  <2>3. Now(d) = Now(c) /\ Renews(d) /\ (Writes(d) <=> Writes(c)) BY <1>5, <1>7, StepFacts
  <2> HIDE DEF p, q
  <2>4. 3 \in IF Now(c) % DiagFreq # 0 THEN {3} ELSE IF c.diagnosed THEN {2, 3} ELSE {1} BY <2>1 DEF Fits
  <2>5. Fits(d, q) BY <2>1, <2>2, <2>3, <2>4 DEF Fits
  <2> QED BY <2>5 DEF q
<1>14. ASSUME NEW i \in Chare PROVE Shifts(c, d, i)
  <2> DEFINE p == c.of[i]
             q == d.of[i]
  <2>1. p.at = 17 /\ q.at = 18 /\ SamePoint(p, q) /\ (Nbr[i] = {} \/ p.sent) /\ Made(c, p) /\ Made(d, q)
    BY <1>4, <1>5, <1>7, <1>8, <1>9
  <2>2. d.phase = 4 BY <1>7
  <2>3. \A n : Due(p, n) => Due(q, n)
    <3>1. AtCall(p.at) = "none" BY <2>1 DEF AtCall
    <3>2. \A n : Due(p, n) => n.type # "none" BY DEF Due
    <3> QED BY <2>1, <3>1, <3>2, DueMoves DEF SamePoint
  <2>4. p = c.of[i] /\ q = d.of[i] OBVIOUS
  <2> HIDE DEF p, q
  <2>5. Asking(c, q) <=> Asking(c, p) BY <2>1 DEF Asking, SamePoint
  <2> QED BY <2>1, <2>2, <2>3, <2>4, <2>5 DEF Shifts, SamePoint
<1>15. Together(d)
  <2>1. Renews(d) BY <1>5, <1>7, StepFacts
  <2> QED BY <1>1, <1>5, <1>7, <2>1 DEF Together, SameStep
<1>16. HostSignals(d)' BY <1>1, <1>2, <1>5, <1>7 DEF HostSignals
<1>17. NewDue(d)
  <2>1. \A i \in Chare : \A n : n.type = t => Due(d.of[i], n) BY <1>7 DEF Due
  <2> QED BY <1>2, <2>1
<1>18. finished' \in BOOLEAN /\ (finished' => \A i \in Chare : d.of[i].at = 24)
  <2>1. finished \in BOOLEAN BY <1>1 DEF Shape
  <2> QED BY <1>4, <2>1
<1>19. DGInv(d)'
  <2>1. \A i \in Chare : \A x \in {"fac", "req", "ghost", "init", "sol", "lim"} : Arrived(d, x, i)' = Arrived(c, x, i)
    BY <1>11, CallTypes
  <2> QED BY <1>2, <1>7, <1>11, <1>12, <1>13, <1>14, <1>15, <1>16, <1>17, <1>18, <2>1, AllMove
<1> QED BY <1>7, <1>19

\* Transporter::comfinal and sendinit.
LEMMA ComfinalKeeps ==
  ASSUME NEW c, DGInv(c), Comfinal \/ Sendinit
  PROVE  \E d \in Config : DGInv(d)'
<1>1. CASE Sendinit
  <2>1. /\ Reduce("worker", "sendinit", Calls(Broadcast("sendinit")))
        /\ UNCHANGED <<stepVars, fileVars, refined, nodeVars, dgVars>>
    BY <1>1 DEF Sendinit, Target
  <2>2. UNCHANGED held /\ finished' = finished BY <2>1, HeldIs
  <2>3. Starting(c, 2, 5, "sendinit") BY DEF Starting
  <2> QED BY <2>1, <2>2, <2>3, StartingKeeps
<1>2. CASE Comfinal
  <2> DEFINE initial == \E i \in Chare : itr[i] = 0
             t == IF initial THEN "setup" ELSE "lhs"
  <2>1. /\ Reduce("worker", "comfinal", Calls(Broadcast(t)))
        /\ UNCHANGED <<stepVars, fileVars, refined, nodeVars, dgVars>>
    BY <1>2 DEF Comfinal, Target
  <2>2. UNCHANGED held /\ finished' = finished BY <2>1, HeldIs
  <2>3. Shape /\ c \in Config /\ \A i \in Chare : Fits(c, c.of[i]) /\ Counters(c, i) BY PartsOf
  <2>4. \A i \in Chare : contrib["worker"][i] # <<>> /\ Head(contrib["worker"][i]) = "comfinal"
    BY <2>1, <2>3, Arrays, Reducing DEF ArrayIs
  <2>5. \A i \in Chare : c.of[i].at \in {2, 17} BY <2>4, HeadWorker
  <2>6. PICK k \in Chare : TRUE BY ConstantFacts
  <2>b. PICK b \in BOOLEAN : b <=> initial OBVIOUS
  <2> DEFINE u == IF b THEN "setup" ELSE "lhs"
  <2>7. Reduce("worker", "comfinal", Calls(Broadcast(u))) BY <2>1, <2>b
  <2> HIDE DEF t
  <2>8. CASE c.of[k].at = 2
    <3>1. c.phase = 0 /\ c.it = 0 /\ c.phase \in 0 .. 4
      <4>1. c.phase \in 0 .. 4 /\ c.st \in 0 .. 2 /\ Together(c) BY <2>3, ConfigIs, PartsOf
      <4>2. c.phase = 0 BY <2>3, <2>8, <4>1 DEF Fits
      <4> QED BY <4>1, <4>2 DEF Together
    <3>2. c.of[k].ref # 3 BY <2>3, <3>1 DEF Fits, Made
    <3>3. itr[k] = 0
      <4>1. Base(c) = 0 BY <3>1, MeshFacts DEF Base
      <4> QED BY <2>3, <3>2, <4>1 DEF Counters
    <3>4. u = "setup" BY <2>b, <3>3
    <3>5. Starting(c, 1, 3, "comfinal") BY <3>1 DEF Starting
    <3> QED BY <2>2, <2>7, <3>4, <3>5, StartingKeeps
  <2>9. CASE c.of[k].at = 17
    <3>1. c.phase = 4 BY <2>9, AtAgain
    <3>2. \A i \in Chare : c.of[i].at = 17 BY <2>3, <2>5, <3>1 DEF Fits
    <3>3. \A i \in Chare : itr[i] # 0
      <4>1. \A i \in Chare : c.of[i].ref = 3 BY <3>2, AtAgain
      <4>2. Base(c) \in Nat
        <5>1. c.it \in Nat BY <2>3, ConfigIs
        <5> QED BY <5>1, MeshFacts DEF Base
      <4> QED BY <2>3, <4>1, <4>2 DEF Counters
    <3>4. u = "lhs" BY <2>b, <3>3
    <3> QED BY <2>2, <2>7, <2>9, <3>4, AgainKeeps
  <2> QED BY <2>5, <2>8, <2>9
<1> QED BY <1>1, <1>2

\* What is counted of a kind of calls remains, after all chares have moved.
LEMMA KindKeeps ==
  ASSUME NEW c, DGInv(c), NEW d, NEW x \in DGKind, SameTags(c, d, x), Letters(x)' = Letters(x), UNCHANGED held,
         \A j \in Chare : /\ SentAt(d, d.of[j], x) <=> SentAt(c, c.of[j], x)
                          /\ OverAt(d, d.of[j], x) => OverAt(c, c.of[j], x) \/ Arrived(c, x, j) = From(x, j)
  PROVE  Keeps(c, d, x)
<1>1. Traded(c, x) BY PartsOf
<1>2. \A j \in Chare : count'[j][x] = count[j][x] BY DEF held
<1> QED BY <1>1, <1>2, Quiets

\* Calls all chares have received are not counted in the next stage.
LEMMA KindStarts ==
  ASSUME NEW c, DGInv(c), NEW d, NEW x \in DGKind, Letters(x)' = Letters(x), UNCHANGED held,
         (\A j \in Chare : OverAt(c, c.of[j], x)) \/ (\A j \in Chare : ~ SentAt(c, c.of[j], x)),
         \A j \in Chare : ~ SentAt(d, d.of[j], x) /\ ~ OverAt(d, d.of[j], x)
  PROVE  Traded(d, x)' /\ \A j \in Chare : Arrived(d, x, j)' = {}
<1>1. Traded(c, x) BY PartsOf
<1>2. Letters(x) = {} /\ \A j \in Chare : count[j][x] = 0
  <2>1. CASE \A j \in Chare : OverAt(c, c.of[j], x)
    <3>1. \A j \in Chare : Arrived(c, x, j) = From(x, j) BY <1>1, <2>1 DEF Traded
    <3> QED BY <1>1, <3>1, AllHeard
  <2>2. CASE \A j \in Chare : ~ SentAt(c, c.of[j], x) BY <1>1, <2>2, NoneSent
  <2> QED BY <2>1, <2>2
<1>3. Letters(x)' = {} /\ \A j \in Chare : count'[j][x] = 0 BY <1>2 DEF held
<1> QED BY <1>3, Afresh

\* Calls all chares have received remain received.
LEMMA KindDone ==
  ASSUME NEW c, DGInv(c), NEW d, NEW x \in DGKind, Letters(x)' = Letters(x), UNCHANGED held,
         \A j \in Chare : OverAt(c, c.of[j], x),
         \A i \in Chare : \A j \in From(x, i) : SentAt(d, d.of[j], x)
  PROVE  Keeps(c, d, x)
<1>1. Traded(c, x) BY PartsOf
<1>2. \A j \in Chare : Arrived(c, x, j) = From(x, j) BY <1>1 DEF Traded
<1>3. Letters(x) = {} /\ \A j \in Chare : count[j][x] = 0 BY <1>1, <1>2, AllHeard
<1>4. Letters(x)' = {} /\ \A j \in Chare : count'[j][x] = 0 BY <1>3 DEF held
<1>5. Traded(d, x)' /\ \A j \in Chare : Arrived(d, x, j)' = From(x, j) BY <1>4, AllDone
<1> QED BY <1>2, <1>5

\* Transporter::advance's answer, the size of the time step, in DG::solve.
LEMMA MinDtKeeps ==
  ASSUME NEW c, DGInv(c), MinDt
  PROVE  \E d \in Config : DGInv(d)'
<1> DEFINE d == AllAt(c, 4, 0, 14)
<1>d. d = AllAt(c, 4, 0, 14) OBVIOUS
<1> HIDE DEF d
<1>0. /\ Reduce("worker", "solve", Calls(Broadcast("solve")))
      /\ UNCHANGED held /\ finished' = finished
  <2>1. UNCHANGED <<stepVars, fileVars, refined, nodeVars, dgVars>> BY DEF MinDt, Target
  <2> QED BY <2>1, HeldIs DEF MinDt, Target
<1>1. /\ Shape /\ c \in Config /\ Together(c) /\ HostSignals(c)
      /\ \A i \in Chare : Fits(c, c.of[i]) /\ Maps(c, i) /\ Contribution(c, i)
  BY PartsOf
<1>2. /\ \A i \in Chare : contrib["worker"][i] # <<>> /\ Head(contrib["worker"][i]) = "solve"
      /\ \A i \in Chare : \A a \in Array : contrib'[a][i] = IF a = "worker" THEN Tail(contrib[a][i]) ELSE contrib[a][i]
      /\ ContribIs
      /\ trigger' = trigger /\ TriggerIs
      /\ SameMail
      /\ NewOf("solve")
  <2>1. "solve" # "write" /\ (\A x \in DGKind : "solve" # CallOf[x]) /\ "worker" \in Array
    BY CallTypes, Arrays DEF ArrayIs
  <2> QED BY <1>0, <2>1, Reduction
<1>3. /\ c.phase \in 0 .. 4 /\ c.st \in 0 .. 2 /\ c.mesh \in 0 .. 5 BY <1>1, ConfigIs
<1>4. \A i \in Chare : c.of[i].at = 13 /\ Tail(contrib["worker"][i]) = <<>> /\ ~ finished BY <1>2, HeadWorker
<1>5. c.phase = 3
  <2>1. PICK j \in Chare : TRUE BY ConstantFacts
  <2> DEFINE p == c.of[j]
  <2>2. Fits(c, p) /\ p.at = 13 BY <1>1, <1>4, <2>1
  <2> HIDE DEF p
  <2>3. c.phase \in {0, 1, 2, 3, 4} BY <1>3
  <2>4. p.at \in CASE c.phase = 0 -> 0 .. 2 [] c.phase = 1 -> 3 .. 4 [] c.phase = 2 -> 5 .. 9
                   [] c.phase = 3 -> 10 .. 13 [] OTHER -> IF c.st = 2 THEN 14 .. 24 ELSE {14, 22}
    BY <2>2 DEF Fits
  <2> QED BY <2>2, <2>3, <2>4
<1>6. c.mesh = 0 /\ ~ c.disc /\ ~ c.work /\ ~ c.diagnosed BY <1>1, <1>3, <1>5 DEF Together
<1>7. /\ d \in Config /\ SameStep(c, d) /\ d.phase = 4 /\ d.mesh = 0 /\ d.st = c.st /\ d.it = c.it
      /\ SameJobs(c, d)
      /\ \A i \in Chare : d.of[i].at = 14 /\ SamePoint(c.of[i], d.of[i])
  <2>1. 4 \in 0 .. 4 /\ 0 \in 0 .. 5 /\ 14 \in 0 .. 24 OBVIOUS
  <2>2. /\ d \in Config /\ SameStep(c, d) /\ d.phase = 4 /\ d.mesh = 0
        /\ SameJobs(c, d)
        /\ \A i \in Chare : d.of[i].at = 14 /\ SamePoint(c.of[i], d.of[i])
    BY <1>1, <1>d, <2>1, AllAtIs
  <2> QED BY <2>2 DEF SameStep
<1>8. \A i \in Chare : ~ Made(c, c.of[i]) /\ ~ Made(d, d.of[i]) /\ c.of[i].diag = 0 /\ c.of[i].ref = 0 /\ c.of[i].vol = 0
  <2>1. \A i \in Chare : ~ Made(c, c.of[i]) /\ ~ Made(d, d.of[i]) BY <1>5, <1>7 DEF Made
  <2> QED BY <1>1, <1>6, <2>1 DEF Fits
<1>9. \A i \in Chare : Nbr[i] = {} \/ (c.of[i].req /\ c.of[i].sent)
  <2>1. \A i \in Chare : OverAt(c, c.of[i], "fac") BY <1>5, <1>6, SentFacts
  <2> QED BY <1>1, <2>1 DEF Maps
<1>10. \A x \in {"sol", "lim"} : Traded(d, x)'
  <2>1. \A j \in Chare : /\ OverAt(c, c.of[j], "sol")
                         /\ Ndof > 1 => OverAt(c, c.of[j], "lim")
                         /\ ~ (Ndof > 1) => ~ SentAt(c, c.of[j], "lim")
    BY <1>4, <1>5, SentFacts
  <2>2. \A j \in Chare : \A x \in {"sol", "lim"} : ~ SentAt(d, d.of[j], x) /\ ~ OverAt(d, d.of[j], x)
    BY <1>7, SentFacts
  <2>3. "sol" \in DGKind /\ "lim" \in DGKind BY CallTypes
  <2>4. Traded(d, "sol")' BY <1>0, <1>2, <2>1, <2>2, <2>3, KindStarts
  <2>5. Traded(d, "lim")'
    <3>1. (\A j \in Chare : OverAt(c, c.of[j], "lim")) \/ (\A j \in Chare : ~ SentAt(c, c.of[j], "lim")) BY <2>1
    <3> QED BY <1>0, <1>2, <2>2, <2>3, <3>1, KindStarts
  <2> QED BY <2>4, <2>5
<1>11. \A x \in {"vol", "fac", "req", "ghost", "init"} :
         Keeps(c, d, x)
  <2>1. ASSUME NEW x \in {"vol", "fac", "req", "ghost", "init"}
        PROVE  Keeps(c, d, x)
    <3>1. x \in DGKind BY CallTypes
    <3>2. SameTags(c, d, x) BY <1>6, <1>7, <3>1, SameLetters
    <3>3. ASSUME NEW i \in Chare
          PROVE  /\ SentAt(d, d.of[i], x) <=> SentAt(c, c.of[i], x)
                 /\ OverAt(d, d.of[i], x) => OverAt(c, c.of[i], x)
      <4>1. c.of[i].at = 13 /\ d.of[i].at = 14 /\ SamePoint(c.of[i], d.of[i]) BY <1>4, <1>7
      <4> QED BY <1>5, <1>6, <1>7, <4>1, SentFacts DEF SamePoint
    <3> QED BY <1>0, <1>2, <3>1, <3>2, <3>3, KindKeeps
  <2> QED BY <2>1
<1>12. ASSUME NEW i \in Chare PROVE Contribution(d, i)'
  <2>1. /\ contrib'["worker"][i] = <<>> /\ SameTargets("disc", i)
        /\ SameTargets("refiner", i) /\ SameTargets("sync", i)
    BY <1>2, <1>4, Arrays DEF ArrayIs
  <2>2. Arrived(d, "vol", i)' = Arrived(c, "vol", i) BY <1>11
  <2>3. c.of[i].ref # 3 /\ c.of[i].at \notin {21, 22} /\ d.of[i].at \notin {2, 4, 9, 13, 17, 24, 21, 22}
    BY <1>4, <1>7, <1>8
  <2> QED BY <1>0, <1>1, <1>7, <2>1, <2>2, <2>3, ContributionTaken
<1>13. ASSUME NEW i \in Chare PROVE Fits(d, d.of[i])
  <2> DEFINE q == d.of[i]
  <2>1. q.at = 14 /\ q.diag = 0 /\ q.ref = 0 /\ q.vol = 0 /\ ~ Made(d, q) BY <1>7, <1>8 DEF SamePoint
  <2>2. d.phase = 4 /\ d.mesh = 0 /\ ~ d.disc /\ ~ d.work /\ ~ d.diagnosed BY <1>6, <1>7
  <2> HIDE DEF q
  <2>3. Fits(d, q) BY <2>1, <2>2 DEF Fits
  <2> QED BY <2>3 DEF q
<1>14. ASSUME NEW i \in Chare PROVE Shifts(c, d, i)
  <2> DEFINE p == c.of[i]
             q == d.of[i]
  <2>1. p.at = 13 /\ q.at = 14 /\ SamePoint(p, q) /\ (Nbr[i] = {} \/ p.sent) /\ ~ Made(c, p) /\ ~ Made(d, q)
    BY <1>4, <1>7, <1>8, <1>9
  <2>2. p.ref = 0 /\ q.ref = 0 /\ d.phase = 4 BY <1>7, <1>8 DEF SamePoint
  <2>3. \A n : Due(p, n) => Due(q, n)
    <3>1. AtCall(p.at) = "none" BY <2>1 DEF AtCall
    <3>2. \A n : Due(p, n) => n.type # "none" BY DEF Due
    <3> QED BY <2>1, <3>1, <3>2, DueMoves DEF SamePoint
  <2>4. p = c.of[i] /\ q = d.of[i] OBVIOUS
  <2> HIDE DEF p, q
  <2>5. Asking(c, q) <=> Asking(c, p) BY <2>1, <2>2 DEF Asking, SamePoint
  <2> QED BY <2>1, <2>2, <2>3, <2>4, <2>5 DEF Shifts, SamePoint
<1>15. Together(d) BY <1>1, <1>5, <1>6, <1>7 DEF Together
<1>16. HostSignals(d)' BY <1>1, <1>2, <1>6, <1>7 DEF HostSignals
<1>17. NewDue(d)
  <2>1. \A i \in Chare : \A n : n.type = "solve" => Due(d.of[i], n) BY <1>7 DEF Due
  <2> QED BY <1>2, <2>1
<1>18. finished' \in BOOLEAN /\ (finished' => \A i \in Chare : d.of[i].at = 24)
  <2>1. Chare # {} /\ finished \in BOOLEAN BY <1>1, ConstantFacts DEF Shape
  <2> QED BY <1>0, <1>4, <2>1
<1>19. DGInv(d)'
  <2>1. \A i \in Chare : SameFace(c, d, i) BY <1>11
  <2>2. \A i \in Chare : d.of[i].at \notin {5, 6, 10, 11, 12} BY <1>7
  <2>3. \A x \in DGKind : Traded(d, x)' BY <1>10, <1>11, CallTypes
  <2> QED BY <1>0, <1>2, <1>7, <1>12, <1>13, <1>14, <1>15, <1>16, <1>17, <1>18, <2>1, <2>2, <2>3, AllMove
<1> QED BY <1>7, <1>19

\* Load balancing is done, while time stepping goes on.
LEMMA SyncRemains ==
  ASSUME NEW c, DGInv(c), Sync, UNCHANGED dgVars, Nonblocking
  PROVE  DGInv(c)'
<1>0. /\ Reduce("sync", "sync", Calls(Broadcast("resume")))
      /\ UNCHANGED held /\ finished' = finished
  BY HeldIs DEF Sync, Target
<1>1. Shape /\ \A i \in Chare : Contribution(c, i) /\ (finished => c.of[i].at = 24) BY PartsOf
<1>2. /\ \A i \in Chare : contrib["sync"][i] # <<>> /\ Head(contrib["sync"][i]) = "sync"
      /\ \A i \in Chare : \A a \in Array : contrib'[a][i] = IF a = "sync" THEN Tail(contrib[a][i]) ELSE contrib[a][i]
      /\ ContribIs
      /\ trigger' = trigger /\ TriggerIs
      /\ SameMail
      /\ NewOf("resume")
  <2>1. "resume" # "write" /\ (\A x \in DGKind : "resume" # CallOf[x]) /\ "sync" \in Array
    BY CallTypes, Arrays DEF ArrayIs
  <2> QED BY <1>0, <2>1, Reduction
<1>3. ASSUME NEW i \in Chare PROVE Contribution(c, i)'
  <2>1. /\ SameTargets("worker", i) /\ SameTargets("disc", i)
        /\ SameTargets("refiner", i) /\ contrib'["sync"][i] = Tail(contrib["sync"][i])
    BY <1>2, Arrays DEF ArrayIs
  <2>2. contrib["sync"][i] \in Seq({"sync"}) /\ contrib["sync"][i] # <<>>
        /\ contrib["worker"][i] = IF finished THEN <<>> ELSE contrib["worker"][i]
    BY <1>1, <1>2 DEF Contribution
  <2>3. contrib'["sync"][i] \in Seq({"sync"}) BY <2>1, <2>2
  <2>4. Letters("vol")' = Letters("vol") BY <1>2, CallTypes
  <2>5. contrib'["worker"][i] = IF finished' THEN <<>> ELSE contrib["worker"][i] BY <1>0, <2>1, <2>2
  <2>6. Contribution(c, i) /\ (finished => finished') BY <1>0, <1>1
  <2> QED BY <2>1, <2>3, <2>4, <2>5, <2>6, ContributionRemains
<1>4. NewDue(c)
  BY <1>2 DEF Due
<1>5. finished' \in BOOLEAN /\ (finished' => \A i \in Chare : c.of[i].at = 24) BY <1>0, <1>1 DEF Shape
<1> QED BY <1>0, <1>2, <1>3, <1>4, <1>5, Remains

\* Load balancing is done, and time stepping is resumed.
LEMMA SyncResumes ==
  ASSUME NEW c, DGInv(c), Sync, UNCHANGED dgVars, ~ Nonblocking
  PROVE  \E d \in Config : DGInv(d)'
<1> DEFINE d == AllAt(c, 4, c.mesh, 23)
<1>d. d = AllAt(c, 4, c.mesh, 23) OBVIOUS
<1> HIDE DEF d
<1>0. /\ Reduce("sync", "sync", Calls(Broadcast("resume")))
      /\ UNCHANGED held /\ finished' = finished
  BY HeldIs DEF Sync, Target
<1>1. /\ Shape /\ c \in Config /\ Together(c) /\ HostSignals(c)
      /\ \A i \in Chare : Fits(c, c.of[i]) /\ Maps(c, i) /\ Contribution(c, i)
  BY PartsOf
<1>2. /\ \A i \in Chare : contrib["sync"][i] # <<>> /\ Head(contrib["sync"][i]) = "sync"
      /\ \A i \in Chare : \A a \in Array : contrib'[a][i] = IF a = "sync" THEN Tail(contrib[a][i]) ELSE contrib[a][i]
      /\ ContribIs
      /\ trigger' = trigger /\ TriggerIs
      /\ SameMail
      /\ NewOf("resume")
  <2>1. "resume" # "write" /\ (\A x \in DGKind : "resume" # CallOf[x]) /\ "sync" \in Array
    BY CallTypes, Arrays DEF ArrayIs
  <2> QED BY <1>0, <2>1, Reduction
<1>4. \A i \in Chare : c.of[i].at = 21 /\ contrib["sync"][i] = <<"sync">> BY <1>1, <1>2 DEF Contribution
<1>5. /\ c.phase = 4 /\ c.st = 2 /\ ~ finished
      /\ \A i \in Chare : /\ Made(c, c.of[i]) /\ c.of[i].diag = 3 /\ c.of[i].ref \in {0, 3} /\ c.of[i].vol \in {0, 6}
                          /\ c.of[i].ref = 3 => c.disc /\ c.work
                          /\ Renews(c) => c.mesh = 5
                          /\ ~ Renews(c) => c.mesh = 0
                          /\ contrib["worker"][i] = <<>> /\ contrib["disc"][i] = <<>>
  <2>1. ASSUME NEW i \in Chare
        PROVE  /\ c.phase = 4 /\ c.st = 2 /\ ~ finished
               /\ Made(c, c.of[i]) /\ c.of[i].diag = 3 /\ c.of[i].ref \in {0, 3} /\ c.of[i].vol \in {0, 6}
               /\ c.of[i].ref = 3 => c.disc /\ c.work
               /\ Renews(c) => c.mesh = 5
               /\ ~ Renews(c) => c.mesh = 0
               /\ contrib["worker"][i] = <<>> /\ contrib["disc"][i] = <<>>
    BY <1>4, AtLast
  <2>2. Chare # {} BY ConstantFacts
  <2> QED BY <2>1, <2>2
<1>7. /\ d \in Config /\ SameStep(c, d) /\ d.phase = 4 /\ d.mesh = c.mesh /\ d.st = 2
      /\ SameJobs(c, d)
      /\ \A i \in Chare : d.of[i].at = 23 /\ SamePoint(c.of[i], d.of[i])
  <2>1. 4 \in 0 .. 4 /\ c.mesh \in 0 .. 5 /\ 23 \in 0 .. 24 BY <1>1, ConfigIs
  <2>2. /\ d \in Config /\ SameStep(c, d) /\ d.phase = 4 /\ d.mesh = c.mesh
        /\ SameJobs(c, d)
        /\ \A i \in Chare : d.of[i].at = 23 /\ SamePoint(c.of[i], d.of[i])
    BY <1>1, <1>d, <2>1, AllAtIs
  <2> QED BY <1>5, <2>2 DEF SameStep
<1>8. \A i \in Chare : Made(d, d.of[i]) BY <1>7 DEF Made
<1>10. Trades(c, d)
  <2>1. ASSUME NEW x \in DGKind PROVE SameTags(c, d, x) BY <1>7, SameLetters
  <2>2. ASSUME NEW i \in Chare
        PROVE  /\ \A x \in DGKind : SentAt(d, d.of[i], x) <=> SentAt(c, c.of[i], x)
               /\ \A x \in DGKind : OverAt(d, d.of[i], x) => OverAt(c, c.of[i], x)
    <3>1. c.of[i].at = 21 /\ d.of[i].at = 23 /\ SamePoint(c.of[i], d.of[i]) BY <1>4, <1>7
    <3>2. d.mesh = c.mesh /\ d.phase = 4 /\ c.phase = 4 BY <1>5, <1>7
    <3> QED BY <3>1, <3>2, CallTypes, SentFacts DEF SamePoint
  <2> QED BY <2>1, <2>2 DEF Trades
<1>11. \A x \in DGKind : Keeps(c, d, x)
  BY <1>0, <1>2, <1>10, TradesKeep
<1>12. ASSUME NEW i \in Chare PROVE Contribution(d, i)'
  <2> DEFINE q == d.of[i]
  <2>q. q = d.of[i] /\ SamePoint(c.of[i], q) /\ q.at = 23 BY <1>7
  <2>1. /\ contrib'["worker"][i] = <<>> /\ contrib'["disc"][i] = <<>>
        /\ SameTargets("refiner", i) /\ contrib'["sync"][i] = <<>>
    <3>1. /\ SameTargets("worker", i) /\ SameTargets("disc", i)
          /\ SameTargets("refiner", i) /\ contrib'["sync"][i] = Tail(contrib["sync"][i])
      BY <1>2, Arrays DEF ArrayIs
    <3>2. Tail(<<"sync">>) = <<>> BY TargetFacts
    <3> QED BY <1>4, <1>5, <3>1, <3>2
  <2>2. contrib["refiner"][i] = <<>> /\ q.ref \in {0, 3} /\ q.vol \in {0, 6} /\ q.diag = 3
        /\ (q.ref = 3 => d.disc /\ d.work)
    BY <1>1, <1>5, <1>7, <2>q DEF Contribution, SamePoint
  <2> HIDE DEF q
  <2>3. WorkerPart(d, q) = <<>> BY <2>q, <2>2, WorkerParts
  <2>4. <<>> \in DiscParts(d, q) BY <2>q, <2>2 DEF DiscParts
  <2>5. <<>> \in Seq({"sync"}) /\ <<>> # <<"vol">> BY TargetFacts
  <2> QED BY <1>0, <1>5, <2>q, <2>1, <2>2, <2>3, <2>4, <2>5 DEF Contribution
<1>13. ASSUME NEW i \in Chare PROVE Fits(d, d.of[i])
  <2> DEFINE p == c.of[i]
             q == d.of[i]
  <2>1. /\ q.at = 23 /\ p.at = 21 /\ q.diag = p.diag /\ q.ref = p.ref /\ q.vol = p.vol /\ Made(d, q) /\ Made(c, p)
        /\ p.diag = 3 /\ Fits(c, p)
    BY <1>1, <1>4, <1>5, <1>7, <1>8 DEF SamePoint
  <2>2. /\ d.phase = 4 /\ d.mesh = c.mesh /\ d.st = 2 /\ SameJobs(c, d)
        /\ c.phase = 4 /\ c.st = 2
    BY <1>5, <1>7
  <2>3. Now(d) = Now(c) /\ (Renews(d) <=> Renews(c)) /\ (Writes(d) <=> Writes(c)) BY <1>7, StepFacts
  <2> HIDE DEF p, q
  <2>4. Fits(d, q) BY <2>1, <2>2, <2>3 DEF Fits
  <2> QED BY <2>4 DEF q
<1>14. ASSUME NEW i \in Chare PROVE Shifts(c, d, i)
  <2> DEFINE p == c.of[i]
             q == d.of[i]
  <2>1. p.at = 21 /\ q.at = 23 /\ SamePoint(p, q) /\ Made(c, p) /\ Made(d, q) BY <1>4, <1>5, <1>7, <1>8
  <2>2. d.phase = 4 /\ (OverAt(d, q, "fac") => Nbr[i] = {} \/ p.sent)
    <3>1. OverAt(d, q, "fac") => OverAt(c, p, "fac") BY <1>5, <1>7, SentFacts
    <3> QED BY <1>1, <1>7, <3>1 DEF Maps
  <2>3. \A n : Due(p, n) => Due(q, n)
    <3>1. AtCall(p.at) = "none" BY <2>1 DEF AtCall
    <3>2. \A n : Due(p, n) => n.type # "none" BY DEF Due
    <3> QED BY <2>1, <3>1, <3>2, DueMoves DEF SamePoint
  <2>4. p = c.of[i] /\ q = d.of[i] OBVIOUS
  <2> HIDE DEF p, q
  <2>5. Asking(c, q) <=> Asking(c, p) BY <2>1 DEF Asking, SamePoint
  <2> QED BY <2>1, <2>2, <2>3, <2>4, <2>5 DEF Shifts, SamePoint
<1>15. Together(d)
  <2>1. Renews(d) <=> Renews(c) BY <1>7, StepFacts
  <2> QED BY <1>1, <1>5, <1>7, <2>1 DEF Together, SameStep
<1>16. HostSignals(d)' BY <1>1, <1>2, <1>7 DEF HostSignals
<1>17. NewDue(d)
  <2>1. \A i \in Chare : \A n : n.type = "resume" => Due(d.of[i], n) BY <1>7 DEF Due
  <2> QED BY <1>2, <2>1
<1>18. finished' \in BOOLEAN /\ (finished' => \A i \in Chare : d.of[i].at = 24) BY <1>0, <1>1, <1>5 DEF Shape
<1>19. DGInv(d)' BY <1>0, <1>2, <1>7, <1>11, <1>12, <1>13, <1>14, <1>15, <1>16, <1>17, <1>18, CallTypes, AllMove
<1> QED BY <1>7, <1>19

\* DG::ResumeFromSync, while time stepping goes on.
LEMMA ResumeRemains ==
  ASSUME NEW c, DGInv(c), NEW m \in msgs, NEW i, i = m.to, ResumeFromSync(i, m), Nonblocking
  PROVE  DGInv(c)'
<1>1. /\ m.type = "resume" /\ Take(i, m, Nothing) /\ UNCHANGED held /\ finished' = finished
  BY HeldIs DEF ResumeFromSync, Resume, Is
<1>2. Shape /\ \A j \in Chare : Contribution(c, j) /\ (finished => c.of[j].at = 24) BY PartsOf
<1>3. i \in Chare
  <2>1. m.type # "write" /\ \A x \in DGKind : m.type # CallOf[x] BY <1>1, CallTypes
  <2> QED BY <2>1, PlainCall
<1>4. msgs' = (msgs \ {m}) \cup Nothing.calls /\ Acts(i, {}, Nothing) BY <1>1, <1>2, <1>3, Taking
<1>5. SameMail
  <2>1. \A x \in DGKind : m.type # CallOf[x] /\ \A n \in Nothing.calls : n.type # CallOf[x]
    BY <1>1, CallTypes, EffectFacts
  <2> QED BY <1>4, <2>1, NoLetters
<1>6. trigger' = trigger
  <2>1. trigger'[i] = trigger[i] BY <1>2, <1>3, <1>4, EffectFacts, ActsSilent
  <2>2. /\ trigger \in [Object -> [Trigger -> Int]] /\ TriggerIs
        /\ \A o \in Object \ {i} : trigger'[o] = trigger[o]
    BY <1>2, <1>4 DEF Shape, Acts
  <2> QED BY <2>1, <2>2
<1>7. /\ ContribIs
      /\ \A a \in Array : \A j \in Chare : contrib'[a][j] = contrib[a][j]
  <2>1. \A a \in Array : contrib'[a][i] = contrib[a][i] BY <1>2, <1>3, <1>4, EffectFacts, ActsAdds
  <2> QED BY <1>4, <2>1 DEF Acts
<1>8. ASSUME NEW j \in Chare PROVE Contribution(c, j)'
  <2>1. /\ SameTargets("worker", j) /\ SameTargets("disc", j)
        /\ SameTargets("refiner", j) /\ SameTargets("sync", j)
    BY <1>7, Arrays DEF ArrayIs
  <2>2. contrib["sync"][j] \in Seq({"sync"}) /\ contrib["worker"][j] = IF finished THEN <<>> ELSE contrib["worker"][j]
    BY <1>2 DEF Contribution
  <2>4. Letters("vol")' = Letters("vol") BY <1>5, CallTypes
  <2>6. Contribution(c, j) /\ (finished => finished') BY <1>1, <1>2
  <2> QED BY <1>1, <2>1, <2>2, <2>4, <2>6, ContributionRemains
<1>9. NewDue(c)
  BY <1>4, EffectFacts
<1>10. finished' \in BOOLEAN /\ (finished' => \A j \in Chare : c.of[j].at = 24) BY <1>1, <1>2 DEF Shape
<1> QED BY <1>1, <1>5, <1>6, <1>7, <1>8, <1>9, <1>10, Remains

LEMMA MidTrades ==
  ASSUME NEW c, DGInv(c), NEW d \in Config, Mid(c, d), SameMail, UNCHANGED held
  PROVE  \A x \in DGKind : Keeps(c, d, x)
<1>1. Trades(c, d)
  <2>1. ASSUME NEW x \in DGKind PROVE SameTags(c, d, x) BY SameLetters DEF Mid
  <2>0. c.mesh \in 0 .. 5 /\ d.mesh \in 0 .. 5 /\ Together(c) BY PartsOf, ConfigIs
  <2>2. ASSUME NEW i \in Chare
        PROVE  /\ \A x \in DGKind : SentAt(d, d.of[i], x) <=> SentAt(c, c.of[i], x)
               /\ \A x \in DGKind : OverAt(d, d.of[i], x) => OverAt(c, c.of[i], x) \/ Arrived(c, x, i) = From(x, i)
    <3> DEFINE p == c.of[i]
               q == d.of[i]
    <3>1. MidPoint(c, i, p, q) BY DEF Mid
    <3>2. d.phase = 4 /\ c.phase = 4 /\ ((d.mesh = 0) <=> (c.mesh = 0)) /\ d.mesh # 5 BY <2>0 DEF Mid
    <3>3. From("vol", i) = Nbr[i] BY DEF From
    <3> HIDE DEF p, q
    <3>4. /\ \A x \in DGKind : SentAt(d, q, x) <=> SentAt(c, p, x)
          /\ \A x \in DGKind : OverAt(d, q, x) => OverAt(c, p, x) \/ Arrived(c, x, i) = From(x, i)
      BY <3>1, <3>2, <3>3, CallTypes, SentFacts DEF MidPoint
    <3> QED BY <3>4 DEF p, q
  <2> QED BY <2>1, <2>2 DEF Trades
<1> QED BY <1>1, TradesKeep

LEMMA MidKeeps ==
  ASSUME NEW c, DGInv(c), NEW d \in Config, Mid(c, d), SameMail,
         \A i \in Chare : Fits(d, d.of[i]) /\ Contribution(d, i)', Together(d), HostSignals(d)',
         UNCHANGED held, finished' = finished,
         \A i \in Chare : trigger'[i] = trigger[i], TriggerIs,
         ContribIs,
         NewDue(d)
  PROVE  DGInv(d)'
<1>1. /\ Shape /\ c \in Config
      /\ \A i \in Chare : Fits(c, c.of[i]) /\ Maps(c, i) /\ (finished => c.of[i].at = 24)
  BY PartsOf
<1>2. \A x \in DGKind : Keeps(c, d, x) BY MidTrades
<1>3. ASSUME NEW i \in Chare PROVE Shifts(c, d, i)
  <2> DEFINE p == c.of[i]
             q == d.of[i]
  <2>1. MidPoint(c, i, p, q) /\ c.phase = 4 /\ d.phase = 4 /\ c.st = 2 /\ SameStep(c, d) BY DEF Mid
  <2>2. Made(c, p) /\ Made(d, q) BY <2>1 DEF Made, MidPoint, SameStep
  <2>3. OverAt(d, q, "fac") => Nbr[i] = {} \/ p.sent
    <3>1. OverAt(d, q, "fac") => OverAt(c, p, "fac")
      <4>1. c.mesh \in 0 .. 5 /\ d.mesh \in 0 .. 5 /\ d.mesh # 5 /\ ((d.mesh > 0) <=> (c.mesh > 0))
        BY <1>1, ConfigIs DEF Mid
      <4> QED BY <2>1, <4>1, SentFacts
    <3> QED BY <1>1, <3>1 DEF Maps
  <2>4. p = c.of[i] /\ q = d.of[i] OBVIOUS
  <2> HIDE DEF p, q
  <2>5. \A n : Due(p, n) => Due(q, n) BY <2>1 DEF Due, MidPoint
  <2>6. Asking(c, q) <=> Asking(c, p) BY <2>1 DEF Asking, MidPoint
  <2> QED BY <2>1, <2>2, <2>3, <2>4, <2>5, <2>6 DEF Shifts, MidPoint
<1>4. ~ finished /\ finished' \in BOOLEAN
  <2>1. PICK j \in Chare : TRUE BY ConstantFacts
  <2>2. c.of[j].at = 15 BY <2>1 DEF Mid, MidPoint
  <2> QED BY <1>1, <2>1, <2>2 DEF Shape
<1>5. SameStep(c, d) BY DEF Mid
<1>6. \A i \in Chare : /\ SameFace(c, d, i)
                       /\ \A x \in {"init", "sol", "lim"} : Arrived(d, x, i)' = Arrived(c, x, i)
  BY <1>2, CallTypes
<1>7. \A x \in DGKind : Traded(d, x)' BY <1>2
<1> QED BY <1>3, <1>4, <1>5, <1>6, <1>7, AllMove

\* Transporter::diagnostics
LEMMA DiagnosedKeeps ==
  ASSUME NEW c, DGInv(c), Diagnosed
  PROVE  \E d \in Config : DGInv(d)'
<1> DEFINE f == [i \in Chare |-> Turned(c.of[i], 2, c.of[i].ref, c.of[i].vol)]
           d == AllTurn(c, c.mesh, c.disc, c.work, TRUE, f)
<1>0. /\ Reduce("disc", "diagnostics", Calls(Broadcast("diag")))
      /\ UNCHANGED held /\ finished' = finished
  BY HeldIs DEF Diagnosed, TransporterDiagnostics, Target
<1>1. /\ Shape /\ c \in Config /\ Together(c) /\ HostSignals(c)
      /\ \A i \in Chare : Fits(c, c.of[i]) /\ Contribution(c, i)
  BY PartsOf
<1>2. /\ \A i \in Chare : contrib["disc"][i] # <<>> /\ Head(contrib["disc"][i]) = "diagnostics"
      /\ \A i \in Chare : \A a \in Array : contrib'[a][i] = IF a = "disc" THEN Tail(contrib[a][i]) ELSE contrib[a][i]
      /\ ContribIs
      /\ trigger' = trigger /\ TriggerIs
      /\ SameMail
      /\ NewOf("diag")
  <2>1. "diag" # "write" /\ (\A x \in DGKind : "diag" # CallOf[x]) /\ "disc" \in Array
    BY CallTypes, Arrays DEF ArrayIs
  <2> QED BY <1>0, <2>1, Reduction
<1>3. /\ c.mesh \in 0 .. 5 /\ c.disc \in BOOLEAN /\ c.work \in BOOLEAN
      /\ \A i \in Chare : c.of[i] \in Point /\ c.of[i].ref \in 0 .. 3 /\ c.of[i].vol \in 0 .. 6
  BY <1>1, ConfigIs DEF Config
<1>4. \A i \in Chare : /\ c.of[i].diag = 1 /\ ~ c.disc /\ c.of[i].at = 15 /\ Made(c, c.of[i])
                       /\ Tail(contrib["disc"][i]) = IF c.of[i].ref = 3 THEN <<"discresized">> ELSE <<>>
                       /\ c.phase = 4 /\ c.st = 2 /\ ~ finished
  <2>1. ASSUME NEW i \in Chare
        PROVE  /\ c.of[i].diag = 1 /\ ~ c.disc
               /\ Tail(contrib["disc"][i]) = IF c.of[i].ref = 3 THEN <<"discresized">> ELSE <<>>
    BY <1>2, HeadDisc
  <2> QED BY <2>1, AtTheEnd
<1>5. c.phase = 4 /\ c.st = 2 /\ c.mesh < 2 /\ ~ c.disc /\ (c.mesh > 0 <=> ~ (c.mesh = 0))
      /\ \A i \in Chare : c.of[i].vol = 0
  <2>1. c.phase = 4 /\ c.st = 2 /\ ~ c.disc BY <1>4, ConstantFacts
  <2>2. c.mesh < 2 BY <1>1, <1>3, <2>1 DEF Together
  <2> QED BY <1>1, <1>3, <2>1, <2>2 DEF Fits
<1>6. /\ f \in [Chare -> Point]
      /\ \A i \in Chare : /\ f[i].at = c.of[i].at /\ f[i].diag = 2 /\ f[i].ref = c.of[i].ref /\ f[i].vol = c.of[i].vol
                          /\ f[i].req = c.of[i].req /\ f[i].sent = c.of[i].sent
  <2>1. 2 \in 0 .. 3 OBVIOUS
  <2> QED BY <1>3, <2>1, TurnedIs
<1> HIDE DEF f
<1>d. d = AllTurn(c, c.mesh, c.disc, c.work, TRUE, f) OBVIOUS
<1> HIDE DEF d
<1>7. /\ d \in Config /\ SameStep(c, d) /\ d.phase = 4 /\ d.mesh = c.mesh /\ d.st = 2
      /\ d.disc = c.disc /\ d.work = c.work /\ d.diagnosed = TRUE /\ d.of = f
  <2>1. /\ d \in Config /\ SameStep(c, d) /\ d.phase = c.phase /\ d.mesh = c.mesh
        /\ d.disc = c.disc /\ d.work = c.work /\ d.diagnosed = TRUE /\ d.of = f
    BY <1>1, <1>3, <1>6, <1>d DEF AllTurn, Config, SameStep
  <2> QED BY <1>5, <2>1 DEF SameStep
<1>8. Mid(c, d)
  <2>1. ASSUME NEW i \in Chare PROVE MidPoint(c, i, c.of[i], f[i]) BY <1>4, <1>5, <1>6 DEF MidPoint
  <2> QED BY <1>3, <1>5, <1>7, <2>1 DEF Mid
<1>9. Now(d) = Now(c) /\ (Renews(d) <=> Renews(c)) BY <1>7, StepFacts
<1>10. ASSUME NEW i \in Chare PROVE Fits(d, d.of[i])
  <2> DEFINE p == c.of[i]
             q == f[i]
  <2>1. /\ q.at = 15 /\ p.at = 15 /\ p.diag = 1 /\ q.diag = 2 /\ q.ref = p.ref /\ q.vol = p.vol /\ p.vol = 0
        /\ Made(c, p) /\ Fits(c, p)
    BY <1>1, <1>4, <1>5, <1>6
  <2> HIDE DEF p, q
  <2>2. Made(d, q) BY <1>7, <2>1 DEF Made
  <2>3. Now(c) % DiagFreq = 0 BY <2>1 DEF Fits
  <2>4. Fits(d, q) BY <1>5, <1>7, <1>9, <2>1, <2>2, <2>3 DEF Fits
  <2> QED BY <1>7, <2>4 DEF q
<1>11. ASSUME NEW i \in Chare PROVE Contribution(d, i)'
  <2> DEFINE p == c.of[i]
             q == f[i]
  <2>1. q.at = 15 /\ p.at = 15 /\ q.diag = 2 /\ q.ref = p.ref /\ q.vol = 0 BY <1>4, <1>5, <1>6
  <2>2. /\ SameTargets("worker", i) /\ contrib'["disc"][i] = Tail(contrib["disc"][i])
        /\ SameTargets("refiner", i) /\ SameTargets("sync", i)
    BY <1>2, Arrays DEF ArrayIs
  <2>3. contrib'["disc"][i] = IF q.ref = 3 THEN <<"discresized">> ELSE <<>> BY <1>4, <2>1, <2>2
  <2>p. p = c.of[i] /\ q = d.of[i] BY <1>7
  <2>4. Contribution(c, i) BY <1>1
  <2> HIDE DEF p, q
  <2>5. WorkerPart(d, q) = WorkerPart(c, p) BY <1>7, <2>1 DEF WorkerPart
  <2>6. contrib'["disc"][i] \in DiscParts(d, q) BY <1>5, <1>7, <2>1, <2>3 DEF DiscParts
  <2> QED BY <1>0, <2>1, <2>2, <2>4, <2>5, <2>6, <2>p DEF Contribution
<1>12. Together(d) BY <1>1, <1>7, <1>9, <1>5 DEF Together, SameStep
<1>13. HostSignals(d)' BY <1>1, <1>2, <1>7 DEF HostSignals
<1>14. NewDue(d)
  <2>1. \A i \in Chare : \A n : n.type = "diag" => Due(d.of[i], n) BY <1>6, <1>7 DEF Due
  <2> QED BY <1>2, <2>1
<1>15. DGInv(d)' BY <1>0, <1>2, <1>7, <1>8, <1>10, <1>11, <1>12, <1>13, <1>14, MidKeeps
<1> QED BY <1>7, <1>15

LEMMA VolumesKnown ==
  ASSUME NEW c, DGInv(c), \A i \in Chare : contrib["disc"][i] # <<>> /\ Head(contrib["disc"][i]) = "vol"
  PROVE  \A i \in Chare : c.of[i].vol = 2 /\ Arrived(c, "vol", i) = Nbr[i]
<1>1. \A i \in Chare : Contribution(c, i) BY PartsOf
<1>2. ASSUME NEW i \in Chare
      PROVE  c.of[i].vol \in {1, 2} /\ Arrived(c, "vol", i) = Nbr[i] /\ (Nbr[i] = {} => c.of[i].vol = 2)
  <2>1. c.of[i].vol \in {1, 2} /\ contrib["disc"][i] = <<"vol">> BY HeadDisc
  <2> QED BY <1>1, <2>1 DEF Contribution
<1>3. ASSUME NEW i \in Chare, NEW j \in Nbr[i] PROVE c.of[i].vol = 2
  <2>1. j \in Chare /\ i \in Nbr[j] BY NbrFacts
  <2>2. i \in Arrived(c, "vol", j) BY <1>2, <2>1
  <2>3. SentAt(c, c.of[i], "vol") BY <2>1, <2>2, ArrivedIs, CallTypes
  <2>4. c.of[i].vol >= 2 BY <2>3, SentFacts
  <2> QED BY <1>2, <2>4
<1> QED BY <1>2, <1>3

LEMMA MeasuredKeeps ==
  ASSUME NEW c, DGInv(c), NEW r, NEW t, NEW vl, NEW ms, Measured(r, t, vl, ms),
         Reduce("disc", r, Calls(Broadcast(t))), UNCHANGED held, finished' = finished
  PROVE  \E d \in Config : DGInv(d)'
<1> DEFINE f == [i \in Chare |-> Turned(c.of[i], c.of[i].diag, c.of[i].ref, vl)]
           d == AllTurn(c, ms, c.disc, c.work, c.diagnosed, f)
<1>1. /\ Shape /\ c \in Config /\ Together(c) /\ HostSignals(c)
      /\ \A i \in Chare : Fits(c, c.of[i]) /\ Contribution(c, i)
  BY PartsOf
<1>2. /\ \A i \in Chare : contrib["disc"][i] # <<>> /\ Head(contrib["disc"][i]) = r
      /\ \A i \in Chare : \A a \in Array : contrib'[a][i] = IF a = "disc" THEN Tail(contrib[a][i]) ELSE contrib[a][i]
      /\ ContribIs
      /\ trigger' = trigger /\ TriggerIs
      /\ SameMail
      /\ NewOf(t)
  <2>1. t # "write" /\ (\A x \in DGKind : t # CallOf[x]) /\ "disc" \in Array
    BY CallTypes, Arrays DEF ArrayIs, Measured
  <2> QED BY <2>1, Reduction
<1>3. /\ c.mesh \in 0 .. 5 /\ c.disc \in BOOLEAN /\ c.work \in BOOLEAN /\ c.diagnosed \in BOOLEAN
      /\ \A i \in Chare : /\ c.of[i] \in Point /\ c.of[i].diag \in 0 .. 3 /\ c.of[i].ref \in 0 .. 3
                          /\ c.of[i].vol \in 0 .. 6
  BY <1>1, ConfigIs DEF Config
<1>4. \A i \in Chare : /\ Tail(contrib["disc"][i]) = <<>>
                       /\ r = "vol" => c.of[i].vol = 2 /\ Arrived(c, "vol", i) = Nbr[i]
                       /\ r = "totalvol" => c.of[i].vol = 4
  <2>1. r \in {"vol", "totalvol"} BY DEF Measured
  <2>2. ASSUME NEW i \in Chare
        PROVE  Tail(contrib["disc"][i]) = <<>> /\ (r = "totalvol" => c.of[i].vol = 4)
    <3>1. r # "diagnostics" BY <2>1
    <3>2. contrib["disc"][i] # <<>> /\ r = Head(contrib["disc"][i]) BY <1>2
    <3>3. /\ Tail(contrib["disc"][i]) = IF r = "diagnostics" /\ c.of[i].ref = 3 THEN <<"discresized">> ELSE <<>>
          /\ r = "totalvol" => c.of[i].vol = 4
      BY <3>2, HeadDisc
    <3> QED BY <3>1, <3>3
  <2> QED BY <1>2, <2>1, <2>2, VolumesKnown
<1>5. /\ c.phase = 4 /\ c.st = 2 /\ c.disc /\ c.work /\ Renews(c) /\ c.mesh \in {2, 3} /\ ~ finished
      /\ r = "vol" => c.mesh = 2
      /\ r = "totalvol" => c.mesh = 3
      /\ \A i \in Chare : c.of[i].at = 15 /\ Made(c, c.of[i]) /\ c.of[i].ref = 3 /\ c.of[i].diag \in {2, 3}
  <2>1. r \in {"vol", "totalvol"} BY DEF Measured
  <2>2. ASSUME NEW i \in Chare
        PROVE  /\ c.phase = 4 /\ c.st = 2 /\ c.disc /\ c.work /\ Renews(c) /\ c.mesh \in {2, 3} /\ ~ finished
               /\ r = "vol" => c.mesh = 2
               /\ r = "totalvol" => c.mesh = 3
               /\ c.of[i].at = 15 /\ Made(c, c.of[i]) /\ c.of[i].ref = 3 /\ c.of[i].diag \in {2, 3}
    <3>1. c.of[i].vol \in {2, 4} /\ (r = "vol" => c.of[i].vol = 2) /\ (r = "totalvol" => c.of[i].vol = 4)
      BY <1>4, <2>1
    <3>2. /\ c.of[i].at = 15 /\ c.phase = 4 /\ c.st = 2 /\ Made(c, c.of[i]) /\ ~ finished
          /\ c.of[i].ref = 3 /\ c.disc /\ c.work /\ Renews(c) /\ c.of[i].diag # 1
          /\ c.mesh = 2 <=> c.of[i].vol \in 1 .. 2
          /\ c.mesh = 3 <=> c.of[i].vol \in 3 .. 4
      BY <3>1, AtTheEnd
    <3>3. c.of[i].diag \in {1, 2, 3} BY <1>1, <3>2 DEF Fits
    <3> QED BY <2>1, <3>1, <3>2, <3>3
  <2> QED BY <2>2, ConstantFacts
<1>v. vl \in {3, 5} /\ ms \in {3, 4} /\ vl \in 0 .. 6 /\ ms \in 0 .. 5 BY DEF Measured
<1>6. /\ f \in [Chare -> Point]
      /\ \A i \in Chare : /\ f[i].at = c.of[i].at /\ f[i].diag = c.of[i].diag /\ f[i].ref = c.of[i].ref /\ f[i].vol = vl
                          /\ f[i].req = c.of[i].req /\ f[i].sent = c.of[i].sent
  BY <1>3, <1>v, TurnedIs
<1> HIDE DEF f
<1>d. d = AllTurn(c, ms, c.disc, c.work, c.diagnosed, f) OBVIOUS
<1> HIDE DEF d
<1>7. /\ d \in Config /\ SameStep(c, d) /\ d.phase = 4 /\ d.mesh = ms /\ d.st = 2
      /\ d.disc /\ d.work /\ d.diagnosed = c.diagnosed /\ d.of = f
  <2>1. /\ d \in Config /\ SameStep(c, d) /\ d.phase = c.phase /\ d.mesh = ms
        /\ SameJobs(c, d) /\ d.of = f
    BY <1>1, <1>3, <1>6, <1>d, <1>v DEF AllTurn, Config, SameStep
  <2> QED BY <1>5, <2>1 DEF SameStep
<1>8. Mid(c, d)
  <2>1. ASSUME NEW i \in Chare PROVE MidPoint(c, i, c.of[i], f[i]) BY <1>4, <1>5, <1>6 DEF MidPoint, Measured
  <2>2. d.mesh > 0 /\ c.mesh > 0 /\ d.mesh # 5 BY <1>5, <1>7, <1>v
  <2> QED BY <1>5, <1>7, <2>1, <2>2 DEF Mid
<1>9. Now(d) = Now(c) /\ (Renews(d) <=> Renews(c)) BY <1>7, StepFacts
<1>10. ASSUME NEW i \in Chare PROVE Fits(d, d.of[i])
  <2> DEFINE p == c.of[i]
             q == f[i]
  <2>1. /\ q.at = 15 /\ p.at = 15 /\ p.ref = 3 /\ q.diag = p.diag /\ q.ref = 3 /\ q.vol = vl
        /\ Made(c, p) /\ Fits(c, p) /\ q.diag \in {2, 3}
    BY <1>1, <1>5, <1>6
  <2> HIDE DEF p, q
  <2>2. Made(d, q) BY <1>7, <2>1 DEF Made
  <2>3. q.diag \in IF Now(c) % DiagFreq # 0 THEN {3} ELSE IF c.diagnosed THEN {2, 3} ELSE {1} BY <2>1 DEF Fits
  <2>4. q.vol \in CASE d.mesh < 2 -> {0} [] d.mesh = 2 -> {1, 2} [] d.mesh = 3 -> {3, 4} [] OTHER -> {5, 6}
    BY <1>7, <2>1 DEF Measured
  <2>5. d.mesh > 2 /\ d.mesh # 5 BY <1>7, <1>v
  <2>6. Fits(d, q) BY <1>5, <1>7, <1>9, <2>1, <2>2, <2>3, <2>4, <2>5 DEF Fits
  <2> QED BY <1>7, <2>6 DEF q
<1>11. ASSUME NEW i \in Chare PROVE Contribution(d, i)'
  <2> DEFINE p == c.of[i]
             q == f[i]
  <2>1. q.at = 15 /\ p.at = 15 /\ q.diag \in {2, 3} /\ q.ref = 3 /\ p.ref = 3 /\ q.vol \in {3, 5} BY <1>5, <1>6, <1>v
  <2>2. /\ SameTargets("worker", i) /\ contrib'["disc"][i] = Tail(contrib["disc"][i])
        /\ SameTargets("refiner", i) /\ SameTargets("sync", i)
    BY <1>2, Arrays DEF ArrayIs
  <2>3. contrib'["disc"][i] = <<>> BY <1>4, <2>2
  <2>p. p = c.of[i] /\ q = d.of[i] BY <1>7
  <2>4. Contribution(c, i) BY <1>1
  <2> HIDE DEF p, q
  <2>5. WorkerPart(d, q) = WorkerPart(c, p) BY <1>5, <1>7, <2>1 DEF WorkerPart
  <2>6. contrib'["disc"][i] \in DiscParts(d, q) BY <1>7, <2>1, <2>3 DEF DiscParts
  <2> QED BY <2>1, <2>2, <2>4, <2>5, <2>6, <2>p DEF Contribution
<1>12. Together(d) BY <1>1, <1>5, <1>7, <1>9, <1>v DEF Together, SameStep
<1>13. HostSignals(d)'
  <2>1. c.mesh # 1 /\ d.mesh # 1 BY <1>5, <1>7, <1>v
  <2> QED BY <1>1, <1>2, <2>1 DEF HostSignals
<1>14. NewDue(d)
  <2>1. \A i \in Chare : \A n : n.type = t => Due(d.of[i], n) BY <1>6, <1>7 DEF Due, Measured
  <2> QED BY <1>2, <2>1
<1>15. DGInv(d)' BY <1>2, <1>7, <1>8, <1>10, <1>11, <1>12, <1>13, <1>14, MidKeeps
<1> QED BY <1>7, <1>15

\* Transporter::vol and totalvol.
LEMMA VolumesKeep ==
  ASSUME NEW c, DGInv(c), TransporterVol \/ TransporterTotalvol, UNCHANGED dgVars
  PROVE  \E d \in Config : DGInv(d)'
<1>1. CASE TransporterVol
  <2>1. /\ Reduce("disc", "vol", Calls(Broadcast("totalvol"))) /\ UNCHANGED held /\ finished' = finished
    BY <1>1, HeldIs DEF TransporterVol, Target
  <2>2. Measured("vol", "totalvol", 3, 3) BY DEF Measured
  <2> QED BY <2>1, <2>2, MeasuredKeeps
<1>2. CASE TransporterTotalvol
  <2>1. /\ Reduce("disc", "totalvol", Calls(Broadcast("resized"))) /\ UNCHANGED held /\ finished' = finished
    BY <1>2, HeldIs DEF TransporterTotalvol, Target
  <2>2. Measured("totalvol", "resized", 5, 4) BY DEF Measured
  <2> QED BY <2>1, <2>2, MeasuredKeeps
<1> QED BY <1>1, <1>2

\* Before the new mesh is known to be on all chares.
LEMMA BeforeResize ==
  ASSUME NEW c, DGInv(c), ~ c.disc \/ ~ c.work, NEW i \in Chare, c.of[i].ref = 3
  PROVE  /\ c.of[i].at = 15 /\ c.phase = 4 /\ c.st = 2 /\ Made(c, c.of[i]) /\ ~ finished /\ Renews(c)
         /\ c.mesh = 1 /\ c.of[i].vol = 0
<1> DEFINE p == c.of[i]
<1>1. Fits(c, p) /\ Together(c) /\ p.ref = 3 /\ (finished => p.at = 24) BY PartsOf
<1>2. c.mesh \in 0 .. 5 /\ p.at \in 0 .. 24 /\ c.disc \in BOOLEAN /\ c.work \in BOOLEAN BY PartsOf, ConfigIs
<1> HIDE DEF p
<1>3. c.mesh < 2 BY <1>1, <1>2 DEF Together
<1>4. Made(c, p) /\ Renews(c) /\ c.mesh # 0 BY <1>1 DEF Fits
<1>5. c.mesh = 1 /\ p.vol = 0 /\ c.phase = 4 /\ c.st = 2 /\ p.at >= 15 BY <1>1, <1>2, <1>3, <1>4 DEF Fits, Made
<1>6. p.at < 16 BY <1>1, <1>2, <1>4, <1>5 DEF Fits
<1> QED BY <1>1, <1>2, <1>4, <1>5, <1>6 DEF p

LEMMA NotedKeeps ==
  ASSUME NEW c, DGInv(c), NEW a \in Array, NEW r, NEW x, Noted(a, r, x),
         Reduce(a, r, Triggers({done(x)})), UNCHANGED held, finished' = finished
  PROVE  \E d \in Config : DGInv(d)'
<1> DEFINE e == Triggers({done(x)})
<1>1. /\ Shape /\ c \in Config /\ Together(c) /\ HostSignals(c)
      /\ \A i \in Chare : Fits(c, c.of[i]) /\ Contribution(c, i)
  BY PartsOf
<1>2. /\ msgs' = msgs \cup e.calls /\ Reduces(a, {}, e)
      /\ \A i \in Chare : contrib[a][i] # <<>> /\ Head(contrib[a][i]) = r
  BY <1>1, Reducing
<1>e. e.calls = {} /\ e.triggers = {done(x)} BY EffectFacts
<1> HIDE DEF e
<1>m. msgs' = msgs BY <1>2, <1>e
<1>k. SameMail BY <1>m DEF Letters
<1>3. \A i \in Chare : /\ Tail(contrib[a][i]) = <<>> /\ c.of[i].ref = 3 /\ ~ finished
                       /\ a = "disc" => ~ c.disc /\ c.of[i].diag # 1
                       /\ a = "worker" => ~ c.work
  <2>1. CASE a = "disc"
    <3>1. r = "discresized" BY <2>1 DEF Noted
    <3>2. ASSUME NEW i \in Chare
          PROVE  Tail(contrib[a][i]) = <<>> /\ c.of[i].diag # 1 /\ c.of[i].ref = 3 /\ ~ c.disc
      <4>1. contrib["disc"][i] # <<>> /\ r = Head(contrib["disc"][i]) BY <1>2, <2>1
      <4>2. /\ Tail(contrib["disc"][i]) = IF r = "diagnostics" /\ c.of[i].ref = 3 THEN <<"discresized">> ELSE <<>>
            /\ r = "discresized" => c.of[i].diag # 1 /\ c.of[i].ref = 3 /\ ~ c.disc
        BY <4>1, HeadDisc
      <4>3. r # "diagnostics" BY <3>1
      <4> QED BY <2>1, <3>1, <4>2, <4>3
    <3> QED BY <2>1, <3>2, BeforeResize
  <2>2. CASE a = "worker"
    <3>1. r = "workresized" BY <2>2 DEF Noted
    <3>2. ASSUME NEW i \in Chare
          PROVE  Tail(contrib[a][i]) = <<>> /\ c.of[i].ref = 3 /\ ~ c.work
      <4>1. contrib["worker"][i] # <<>> /\ r = Head(contrib["worker"][i]) BY <1>2, <2>2
      <4>2. Tail(contrib["worker"][i]) = <<>> /\ (r = "workresized" => c.of[i].ref = 3 /\ ~ c.work)
        BY <4>1, HeadWorker
      <4> QED BY <2>2, <3>1, <4>2
    <3> QED BY <2>2, <3>2, BeforeResize
  <2> QED BY <2>1, <2>2 DEF Noted
<1>4. /\ ~ c.disc \/ ~ c.work
      /\ c.phase = 4 /\ c.st = 2 /\ ~ finished /\ Renews(c) /\ c.mesh = 1
      /\ \A i \in Chare : c.of[i].at = 15 /\ Made(c, c.of[i]) /\ c.of[i].vol = 0
  <2>1. Chare # {} /\ a \in {"disc", "worker"} BY ConstantFacts DEF Noted
  <2>2. ~ c.disc \/ ~ c.work BY <1>3, <2>1
  <2>3. \A i \in Chare : /\ c.of[i].at = 15 /\ c.phase = 4 /\ c.st = 2 /\ Made(c, c.of[i]) /\ ~ finished /\ Renews(c)
                         /\ c.mesh = 1 /\ c.of[i].vol = 0
    BY <1>3, <2>2, BeforeResize
  <2> QED BY <2>1, <2>2, <2>3
<1>5. PICK b \in BOOLEAN : b <=> c.disc \/ a = "disc" OBVIOUS
<1>6. PICK w \in BOOLEAN : w <=> c.work \/ a = "worker" OBVIOUS
<1> DEFINE d == AllTurn(c, 1, b, w, c.diagnosed, c.of)
<1>d. d = AllTurn(c, 1, b, w, c.diagnosed, c.of) OBVIOUS
<1> HIDE DEF d
<1>7. /\ d \in Config /\ SameStep(c, d) /\ d.phase = 4 /\ d.mesh = 1 /\ d.st = 2
      /\ d.disc = b /\ d.work = w /\ d.diagnosed = c.diagnosed /\ d.of = c.of
  <2>1. 1 \in 0 .. 5 OBVIOUS
  <2>2. /\ d \in Config /\ SameStep(c, d) /\ d.phase = c.phase /\ d.mesh = 1
        /\ d.disc = b /\ d.work = w /\ d.diagnosed = c.diagnosed /\ d.of = c.of
    BY <1>1, <1>5, <1>6, <1>d, <2>1 DEF AllTurn, Config, SameStep
  <2> QED BY <1>4, <2>2 DEF SameStep
<1>8. Mid(c, d)
  <2>1. ASSUME NEW i \in Chare PROVE MidPoint(c, i, c.of[i], c.of[i]) BY <1>4 DEF MidPoint
  <2> QED BY <1>4, <1>7, <2>1 DEF Mid
<1>9. Now(d) = Now(c) /\ (Renews(d) <=> Renews(c)) BY <1>7, StepFacts
<1>c. (c.disc \in BOOLEAN /\ c.work \in BOOLEAN) /\ (c.disc => d.disc) /\ (c.work => d.work)
  BY <1>1, <1>5, <1>6, <1>7, ConfigIs
<1>10. ASSUME NEW i \in Chare PROVE Fits(d, d.of[i])
  <2> DEFINE p == c.of[i]
  <2>1. /\ p.at = 15 /\ Made(c, p) /\ Fits(c, p) /\ p.ref = 3 /\ p.vol = 0 /\ (d.disc => p.diag # 1)
    <3>1. d.disc => c.disc \/ a = "disc" BY <1>5, <1>7
    <3>2. c.disc => p.diag # 1 BY <1>1 DEF Fits
    <3> QED BY <1>1, <1>3, <1>4, <3>1, <3>2
  <2> HIDE DEF p
  <2>2. Made(d, p) BY <1>7, <2>1 DEF Made
  <2>3. Fits(d, p) BY <1>4, <1>7, <1>9, <2>1, <2>2 DEF Fits
  <2> QED BY <1>7, <2>3 DEF p
<1>11. ASSUME NEW i \in Chare PROVE Contribution(d, i)'
  <2> DEFINE p == c.of[i]
  <2>1. p.at = 15 /\ p.ref = 3 /\ p.vol = 0 /\ (a = "disc" => ~ c.disc /\ p.diag # 1) /\ (a = "worker" => ~ c.work)
    BY <1>3, <1>4
  <2>2. \A y \in Array : contrib'[y][i] = IF y = a THEN Tail(contrib[y][i]) ELSE contrib[y][i] BY <1>2 DEF Reduces
  <2>p. p = c.of[i] /\ p = d.of[i] BY <1>7
  <2>4. Contribution(c, i) /\ Tail(contrib[a][i]) = <<>> /\ ~ finished BY <1>1, <1>3
  <2> HIDE DEF p
  <2>5. SameTargets("refiner", i) /\ SameTargets("sync", i)
    BY <2>2, Arrays DEF ArrayIs, Noted
  <2>6. contrib'["worker"][i] = WorkerPart(d, p)
    <3>1. contrib["worker"][i] = WorkerPart(c, p) BY <2>4, <2>p DEF Contribution
    <3>2. CASE a = "disc"
      <4>1. SameTargets("worker", i) /\ (d.work <=> c.work)
        <5>1. a # "worker" /\ "worker" \in Array BY <3>2, Arrays DEF ArrayIs
        <5> QED BY <1>6, <1>7, <1>c, <2>2, <5>1
      <4> QED BY <2>1, <3>1, <4>1 DEF WorkerPart
    <3>3. CASE a = "worker"
      <4>1. contrib'["worker"][i] = <<>> /\ d.work BY <1>6, <1>7, <2>2, <2>4, <3>3
      <4> QED BY <2>1, <4>1 DEF WorkerPart
    <3> QED BY <3>2, <3>3 DEF Noted
  <2>7. contrib'["disc"][i] \in DiscParts(d, p)
    <3>1. contrib["disc"][i] \in DiscParts(c, p) BY <2>4, <2>p DEF Contribution
    <3>2. CASE a = "disc"
      <4>1. contrib'["disc"][i] = <<>> /\ d.disc BY <1>5, <1>7, <2>2, <2>4, <3>2
      <4>2. p.diag # 1 BY <2>1, <3>2
      <4> QED BY <2>1, <4>1, <4>2 DEF DiscParts
    <3>3. CASE a = "worker"
      <4>1. SameTargets("disc", i) /\ (d.disc <=> c.disc)
        <5>1. a # "disc" /\ "disc" \in Array BY <3>3, Arrays DEF ArrayIs
        <5> QED BY <1>5, <1>7, <1>c, <2>2, <5>1
      <4> QED BY <2>1, <3>1, <4>1 DEF DiscParts
    <3> QED BY <3>2, <3>3 DEF Noted
  <2> QED BY <2>1, <2>4, <2>5, <2>6, <2>7, <2>p DEF Contribution
<1>12. Together(d) BY <1>1, <1>4, <1>7, <1>9 DEF Together, SameStep
<1>13. HostSignals(d)'
  <2>1. done("disc") \in Trigger /\ done("work") \in Trigger /\ done("disc") # done("work")
    BY TriggersAre, TriggersDiffer
  <2>2. \A s \in Trigger : trigger'[Host][s] = trigger[Host][s] + (IF s = done(x) THEN 1 ELSE 0)
    <3>1. ASSUME NEW s \in Trigger PROVE trigger'[Host][s] = trigger[Host][s] + (IF s = done(x) THEN 1 ELSE 0)
      BY <1>2, <1>e DEF Reduces
    <3> QED BY <3>1
  <2>3. /\ trigger[Host][done("disc")] = IF c.disc THEN 1 ELSE 0
        /\ trigger[Host][done("work")] = IF c.work THEN 1 ELSE 0
    BY <1>1, <1>4 DEF HostSignals
  <2>4. CASE a = "disc"
    <3>1. x = "disc" /\ a # "worker" BY <2>4 DEF Noted
    <3>2. ~ c.disc /\ d.disc /\ (d.work <=> c.work) BY <1>3, <1>5, <1>6, <1>7, <2>4, <3>1, ConstantFacts
    <3>3. trigger'[Host][done("disc")] = 1 /\ trigger'[Host][done("work")] = trigger[Host][done("work")] + 0
      BY <2>1, <2>2, <2>3, <3>1, <3>2
    <3> QED BY <1>7, <2>3, <3>2, <3>3 DEF HostSignals
  <2>5. CASE a = "worker"
    <3>1. x = "work" /\ a # "disc" BY <2>5 DEF Noted
    <3>2. ~ c.work /\ d.work /\ (d.disc <=> c.disc) BY <1>3, <1>5, <1>6, <1>7, <2>5, <3>1, ConstantFacts
    <3>3. trigger'[Host][done("work")] = 1 /\ trigger'[Host][done("disc")] = trigger[Host][done("disc")] + 0
      BY <2>1, <2>2, <2>3, <3>1, <3>2
    <3> QED BY <1>7, <2>3, <3>2, <3>3 DEF HostSignals
  <2> QED BY <2>4, <2>5 DEF Noted
<1>14. /\ \A i \in Chare : trigger'[i] = trigger[i]
       /\ TriggerIs
       /\ ContribIs
  BY <1>2 DEF Reduces
<1>15. DGInv(d)' BY <1>m, <1>k, <1>7, <1>8, <1>10, <1>11, <1>12, <1>13, <1>14, MidKeeps
<1> QED BY <1>7, <1>15

\* Transporter::discresized and workresized.
LEMMA NotesKeep ==
  ASSUME NEW c, DGInv(c), Discresized \/ Workresized, UNCHANGED dgVars
  PROVE  \E d \in Config : DGInv(d)'
<1>1. CASE Discresized
  <2>1. /\ Reduce("disc", "discresized", Triggers({done("disc")})) /\ UNCHANGED held /\ finished' = finished
    BY <1>1, HeldIs DEF Discresized, Target
  <2>2. Noted("disc", "discresized", "disc") /\ "disc" \in Array BY Arrays DEF Noted, ArrayIs
  <2> QED BY <2>1, <2>2, NotedKeeps
<1>2. CASE Workresized
  <2>1. /\ Reduce("worker", "workresized", Triggers({done("work")})) /\ UNCHANGED held /\ finished' = finished
    BY <1>2, HeldIs DEF Workresized, Target
  <2>2. Noted("worker", "workresized", "work") /\ "worker" \in Array BY Arrays DEF Noted, ArrayIs
  <2> QED BY <2>1, <2>2, NotedKeeps
<1> QED BY <1>1, <1>2

\* Transporter::resized
LEMMA MeshResizedKeeps ==
  ASSUME NEW c, DGInv(c), MeshResized
  PROVE  \E d \in Config : DGInv(d)'
<1> DEFINE f == [i \in Chare |-> Turned(c.of[i], c.of[i].diag, c.of[i].ref, 1)]
           d == AllTurn(c, 2, c.disc, c.work, c.diagnosed, f)
           e == Calls(Broadcast("vol"))
<1>0. /\ Run(Host, "resize", e) /\ UNCHANGED held /\ finished' = finished
  BY HeldIs DEF MeshResized, TransporterResized
<1>1. /\ Shape /\ c \in Config /\ Together(c) /\ HostSignals(c)
      /\ \A i \in Chare : Fits(c, c.of[i]) /\ Contribution(c, i) /\ (finished => c.of[i].at = 24)
  BY PartsOf
<1>e. e.calls = Broadcast("vol") /\ e.triggers = {} BY EffectFacts
<1> HIDE DEF e
<1>2. /\ msgs' = msgs \cup e.calls /\ Reduces("none", {done("disc"), done("work")}, e)
      /\ trigger[Host][done("disc")] > 0 /\ trigger[Host][done("work")] > 0
  BY <1>0, <1>1, HostRunning
<1>k. /\ SameMail
      /\ \A n \in msgs' : n \notin msgs => n.to \in Chare /\ n.type = "vol" /\ Plain(n)
  <2>1. \A x \in DGKind : "vol" # CallOf[x] BY CallTypes
  <2> QED BY <1>2, <1>e, <2>1, Broadcasting
<1>b. c.disc \in BOOLEAN /\ c.work \in BOOLEAN /\ c.diagnosed \in BOOLEAN /\ c.phase \in 0 .. 4 /\ c.mesh \in 0 .. 5
      /\ \A i \in Chare : c.of[i] \in Point /\ c.of[i].at \in 0 .. 24 /\ c.of[i].diag \in 0 .. 3 /\ c.of[i].ref \in 0 .. 3
  BY <1>1, ConfigIs DEF Config
<1>3. c.disc /\ c.work /\ c.mesh = 1 BY <1>1, <1>2, <1>b DEF HostSignals
<1>4. c.phase = 4 /\ c.st = 2 /\ Renews(c) BY <1>1, <1>3 DEF Together
<1>5. ASSUME NEW i \in Chare
      PROVE  /\ c.of[i].at = 15 /\ Made(c, c.of[i]) /\ c.of[i].ref = 3 /\ c.of[i].vol = 0 /\ c.of[i].diag \in {2, 3}
  <2> DEFINE p == c.of[i]
  <2>1. Fits(c, p) /\ p.at \in 0 .. 24 /\ p.diag \in 0 .. 3 BY <1>1, <1>b
  <2> HIDE DEF p
  <2>2. Made(c, p) /\ p.ref = 3 /\ p.vol = 0 /\ p.diag # 1 BY <1>3, <2>1 DEF Fits
  <2>3. p.at = 15
    <3>1. p.at >= 15 BY <2>2 DEF Made
    <3>2. ~ (p.at >= 16) BY <1>4, <2>1, <2>2 DEF Fits
    <3> QED BY <2>1, <3>1, <3>2
  <2>4. p.diag \in {1, 2, 3} BY <2>1, <2>2 DEF Fits
  <2> QED BY <2>2, <2>3, <2>4 DEF p
<1>6. /\ f \in [Chare -> Point]
      /\ \A i \in Chare : /\ f[i].at = c.of[i].at /\ f[i].diag = c.of[i].diag /\ f[i].ref = c.of[i].ref /\ f[i].vol = 1
                          /\ f[i].req = c.of[i].req /\ f[i].sent = c.of[i].sent
  <2>1. 1 \in 0 .. 6 OBVIOUS
  <2> QED BY <1>b, <2>1, TurnedIs
<1> HIDE DEF f
<1>d. d = AllTurn(c, 2, c.disc, c.work, c.diagnosed, f) OBVIOUS
<1> HIDE DEF d
<1>7. /\ d \in Config /\ SameStep(c, d) /\ d.phase = 4 /\ d.mesh = 2 /\ d.st = 2
      /\ d.disc /\ d.work /\ d.diagnosed = c.diagnosed /\ d.of = f
  <2>1. 2 \in 0 .. 5 OBVIOUS
  <2>2. /\ d \in Config /\ SameStep(c, d) /\ d.phase = c.phase /\ d.mesh = 2
        /\ SameJobs(c, d) /\ d.of = f
    BY <1>1, <1>b, <1>6, <1>d, <2>1 DEF AllTurn, Config, SameStep
  <2> QED BY <1>3, <1>4, <2>2 DEF SameStep
<1>8. Mid(c, d)
  <2>1. ASSUME NEW i \in Chare PROVE MidPoint(c, i, c.of[i], f[i]) BY <1>5, <1>6 DEF MidPoint
  <2> QED BY <1>3, <1>4, <1>7, <2>1 DEF Mid
<1>9. Now(d) = Now(c) /\ (Renews(d) <=> Renews(c)) BY <1>7, StepFacts
<1>10. ASSUME NEW i \in Chare PROVE Fits(d, d.of[i])
  <2> DEFINE p == c.of[i]
             q == f[i]
  <2>1. /\ q.at = 15 /\ p.at = 15 /\ p.ref = 3 /\ q.diag = p.diag /\ q.ref = 3 /\ q.vol = 1
        /\ Made(c, p) /\ Fits(c, p) /\ q.diag \in {2, 3}
    BY <1>1, <1>5, <1>6
  <2> HIDE DEF p, q
  <2>2. Made(d, q) BY <1>7, <2>1 DEF Made
  <2>3. q.diag \in IF Now(c) % DiagFreq # 0 THEN {3} ELSE IF c.diagnosed THEN {2, 3} ELSE {1} BY <2>1 DEF Fits
  <2>6. Fits(d, q) BY <1>4, <1>7, <1>9, <2>1, <2>2, <2>3 DEF Fits
  <2> QED BY <1>7, <2>6 DEF q
<1>c. \A y \in Array : \A i \in Chare : contrib'[y][i] = contrib[y][i]
  <2>1. \A y \in Array : y # "none" BY Arrays
  <2> QED BY <1>2, <2>1 DEF Reduces
<1>11. ASSUME NEW i \in Chare PROVE Contribution(d, i)'
  <2> DEFINE p == c.of[i]
             q == f[i]
  <2>1. /\ q.at = 15 /\ p.at = 15 /\ q.diag \in {2, 3} /\ q.ref = 3 /\ p.ref = 3 /\ q.vol = 1 /\ p.vol = 0
        /\ p.diag \in {2, 3}
    BY <1>5, <1>6
  <2>2. /\ SameTargets("worker", i) /\ SameTargets("disc", i)
        /\ SameTargets("refiner", i) /\ SameTargets("sync", i)
    BY <1>c, Arrays DEF ArrayIs
  <2>p. p = c.of[i] /\ q = d.of[i] BY <1>7
  <2>4. Contribution(c, i) BY <1>1
  <2> HIDE DEF p, q
  <2>5. WorkerPart(d, q) = WorkerPart(c, p) BY <1>3, <1>7, <2>1 DEF WorkerPart
  <2>6. contrib'["disc"][i] = <<>>
    <3>1. contrib["disc"][i] \in DiscParts(c, p) BY <2>4, <2>p DEF Contribution
    <3> QED BY <1>3, <2>1, <2>2, <3>1 DEF DiscParts
  <2>7. contrib'["disc"][i] \in DiscParts(d, q) BY <1>7, <2>1, <2>6 DEF DiscParts
  <2>8. contrib'["disc"][i] # <<"vol">> BY <2>6, TargetFacts
  <2> QED BY <1>0, <2>1, <2>2, <2>4, <2>5, <2>7, <2>8, <2>p DEF Contribution
<1>12. Together(d) BY <1>1, <1>4, <1>7, <1>9 DEF Together, SameStep
<1>13. HostSignals(d)'
  <2>1. done("disc") \in Trigger /\ done("work") \in Trigger BY TriggersAre
  <2>2. /\ trigger'[Host][done("disc")] = trigger[Host][done("disc")] - 1 + 0
        /\ trigger'[Host][done("work")] = trigger[Host][done("work")] - 1 + 0
    BY <1>2, <1>e, <2>1 DEF Reduces
  <2>3. trigger[Host][done("disc")] = 1 /\ trigger[Host][done("work")] = 1 BY <1>1, <1>3 DEF HostSignals
  <2> QED BY <1>7, <2>2, <2>3 DEF HostSignals
<1>14. NewDue(d)
  <2>1. \A i \in Chare : \A n : n.type = "vol" => Due(d.of[i], n) BY <1>6, <1>7 DEF Due
  <2> QED BY <1>k, <2>1
<1>15. /\ \A i \in Chare : trigger'[i] = trigger[i]
       /\ TriggerIs
       /\ ContribIs
  BY <1>2 DEF Reduces
<1>16. DGInv(d)' BY <1>0, <1>k, <1>7, <1>8, <1>10, <1>11, <1>12, <1>13, <1>14, <1>15, MidKeeps
<1> QED BY <1>7, <1>16

\* All chares are somewhere else.
LEMMA AllPut ==
  ASSUME NEW c, DGInv(c), NEW d \in Config, \A x \in DGKind : Traded(d, x)', \A i \in Chare : Local(d, i)',
         \A i \in Chare : Fits(d, d.of[i]), Together(d), HostSignals(d)',
         UNCHANGED held, TriggerIs,
         ContribIs,
         finished' \in BOOLEAN, ~ finished',
         \A i \in Chare : /\ \A n : Due(c.of[i], n) => Due(d.of[i], n)
                          /\ c.of[i].at \in {7, 19} => d.of[i].at = c.of[i].at,
         NewDue(d)
  PROVE  DGInv(d)'
<1>1. Shape /\ Expects(c) BY PartsOf
<1>2. Shape' BY <1>1 DEF Shape, held
<1>3. Expects(d)' BY <1>1, ExpectsShifted
<1>4. Levels(d) BY DEF Levels
<1> QED BY <1>2, <1>3, <1>4 DEF DGInv

LEMMA BeforeMesh ==
  ASSUME NEW c, DGInv(c), NEW i \in Chare, c.of[i].ref = 1
  PROVE  /\ c.of[i].at = 15 /\ c.phase = 4 /\ c.st = 2 /\ Made(c, c.of[i]) /\ ~ finished /\ Renews(c)
         /\ c.mesh = 0 /\ ~ c.disc /\ ~ c.work /\ c.of[i].vol = 0 /\ c.of[i].diag \in {1, 2, 3}
<1> DEFINE p == c.of[i]
<1>1. Fits(c, p) /\ Together(c) /\ p.ref = 1 /\ (finished => p.at = 24) BY PartsOf
<1>2. c.mesh \in 0 .. 5 /\ p.at \in 0 .. 24 /\ c.disc \in BOOLEAN /\ c.work \in BOOLEAN BY PartsOf, ConfigIs
<1> HIDE DEF p
<1>4. Made(c, p) /\ Renews(c) /\ c.mesh = 0 BY <1>1 DEF Fits
<1>5. p.vol = 0 /\ c.phase = 4 /\ c.st = 2 /\ p.at >= 15 /\ ~ c.disc /\ ~ c.work /\ p.diag \in {1, 2, 3}
  BY <1>1, <1>2, <1>4 DEF Fits, Made
<1>6. p.at < 16 BY <1>1, <1>2, <1>4, <1>5 DEF Fits
<1> QED BY <1>1, <1>2, <1>4, <1>5, <1>6 DEF p

\* What is true of a chare before it has evaluated its new mesh.
LEMMA RenewedLocal ==
  ASSUME NEW c, DGInv(c), NEW d \in Config, SameStep(c, d), d.phase = 4, c.phase = 4, d.st = 2, d.mesh = 1,
         ~ d.disc, ~ d.work, NEW i \in Chare,
         d.of[i].at = 15, c.of[i].at = 15, c.of[i].ref = 1, d.of[i].ref = 2, d.of[i].vol = 0, c.of[i].vol = 0,
         d.of[i].diag = c.of[i].diag, ~ d.of[i].req, ~ d.of[i].sent, Renews(c), c.mesh = 0,
         UNCHANGED held, trigger' = trigger, finished' = finished,
         \A x \in Faces : Arrived(d, x, i)' = {},
         SameTargets("worker", i), SameTargets("disc", i),
         contrib'["refiner"][i] = <<>>, SameTargets("sync", i)
  PROVE  Local(d, i)'
<1> DEFINE p == c.of[i]
           q == d.of[i]
<1>0. /\ Counters(c, i) /\ Signalled(c, i) /\ Kept(c, i) /\ Contribution(c, i)
  BY PartsOf
<1>p. p = c.of[i] /\ q = d.of[i] OBVIOUS
<1>1. /\ q.at = 15 /\ p.at = 15 /\ p.ref = 1 /\ q.ref = 2 /\ p.vol = 0 /\ q.vol = 0 /\ q.diag = p.diag
      /\ ~ q.req /\ ~ q.sent
  OBVIOUS
<1>2. /\ Base(d) = Base(c) /\ Now(d) = Now(c) /\ Renews(d) = Renews(c) /\ d.it = c.it /\ d.st = c.st /\ c.st = 2
      /\ \A js : CellsOf(d, js) = CellsOf(c, js)
  BY StepFacts DEF SameStep
<1>3. Made(c, p) /\ Made(d, q) BY <1>1, <1>2 DEF Made
<1>4. OverAt(c, p, "fac") /\ ~ OverAt(d, q, "fac") BY SentFacts
<1>5. Nbr[i] = {} \/ p.sent BY <1>0, <1>4, <1>p DEF Maps
<1>6. Arrived(d, "fac", i)' = {} /\ Arrived(d, "req", i)' = {} /\ Arrived(d, "ghost", i)' = {} OBVIOUS
<1> HIDE DEF p, q
<1>7. /\ it' = it /\ itr' = itr /\ refined' = refined /\ stage' = stage /\ used' = used /\ bndFace' = bndFace
      /\ ghostData' = ghostData /\ ghost' = ghost /\ usol' = usol /\ ulim' = ulim
  BY DEF held
<1>8. Counters(d, i)'
  <2>1. Made(d, q) <=> Made(c, p) BY <1>3
  <2>2. /\ q.ref = 3 <=> p.ref = 3
        /\ q.at < 15 <=> p.at < 15
        /\ q.at < 19 <=> p.at < 19
        /\ q.at < 21 <=> p.at < 21
    BY <1>1
  <2> QED BY <1>0, <1>2, <1>7, <1>p, <2>1, <2>2 DEF Counters
<1>9. Signalled(d, i)'
  <2>1. trigger'[i] = trigger[i] OBVIOUS
  <2>2. p.req => p.sent \/ Nbr[i] = {} BY <1>5
  <2>3. /\ trigger[i][own("ghost")] \in {0, 1} /\ (trigger[i][own("ghost")] = 1 => p.req /\ ~ p.sent)
        /\ trigger[i][com("ghost")] \in {0, 1} /\ (trigger[i][com("ghost")] = 1 => Nbr[i] # {} /\ ~ p.sent)
    BY <1>0, <1>p DEF Signalled
  <2>4. Nbr[i] = {} => ~ p.req BY <1>0, <1>p DEF Maps
  <2>5. trigger[i][own("ghost")] = 0 /\ trigger[i][com("ghost")] = 0 BY <1>5, <2>3, <2>4
  <2> QED BY <1>0, <1>1, <1>2, <1>p, <2>1, <2>5 DEF Signalled
<1>10. Maps(d, i)'
  <2>1. ~ Asking(c, p) /\ ~ Asking(d, q) BY <1>1 DEF Asking
  <2>2. bndFace[i] = {} /\ ghostData[i] = Fac[i] /\ DOMAIN ghost[i] = Fac[i] BY <1>0, <1>p, <2>1 DEF Maps
  <2>3. ~ (Nbr[i] # {} /\ {} = Nbr[i]) OBVIOUS
  <2> QED BY <1>1, <1>4, <1>6, <1>7, <1>p, <2>1, <2>2, <2>3 DEF Maps
<1>11. Ghosts(d, i)' BY <1>0, <1>1, <1>2, <1>7, <1>p DEF Ghosts
<1>12. Updated(d, i)' BY <1>0, <1>1, <1>2, <1>7, <1>p DEF Updated, Current
<1>13. Contribution(d, i)'
  <2>1. contrib'["worker"][i] = IF finished THEN <<>> ELSE WorkerPart(c, p) BY <1>0, <1>p DEF Contribution
  <2>2. WorkerPart(d, q) = WorkerPart(c, p) BY <1>1 DEF WorkerPart
  <2>3. DiscParts(d, q) = DiscParts(c, p) BY <1>1 DEF DiscParts
  <2> QED BY <1>0, <1>1, <1>p, <2>1, <2>2, <2>3 DEF Contribution
<1> QED BY <1>8, <1>9, <1>10, <1>11, <1>12, <1>13 DEF Local

\* Transporter::matched
LEMMA MatchedKeeps ==
  ASSUME NEW c, DGInv(c), Matched, UNCHANGED dgVars
  PROVE  \E d \in Config : DGInv(d)'
<1> DEFINE f == [i \in Chare |-> Renewed(c.of[i])]
           d == AllTurn(c, 1, c.disc, c.work, c.diagnosed, f)
<1>0. /\ Reduce("refiner", "matched", Calls(Broadcast("eval")))
      /\ UNCHANGED held /\ finished' = finished
  BY HeldIs DEF Matched, Target
<1>1. /\ Shape /\ c \in Config /\ Together(c) /\ HostSignals(c)
      /\ \A i \in Chare : Fits(c, c.of[i]) /\ Contribution(c, i)
  BY PartsOf
<1>2. /\ \A i \in Chare : contrib["refiner"][i] # <<>> /\ Head(contrib["refiner"][i]) = "matched"
      /\ \A i \in Chare : \A a \in Array : contrib'[a][i] = IF a = "refiner" THEN Tail(contrib[a][i]) ELSE contrib[a][i]
      /\ ContribIs
      /\ trigger' = trigger /\ TriggerIs
      /\ SameMail
      /\ NewOf("eval")
  <2>1. "eval" # "write" /\ (\A x \in DGKind : "eval" # CallOf[x]) /\ "refiner" \in Array
    BY CallTypes, Arrays DEF ArrayIs
  <2> QED BY <1>0, <2>1, Reduction
<1>3. \A i \in Chare : c.of[i].ref = 1 /\ Tail(contrib["refiner"][i]) = <<>>
  <2>1. ASSUME NEW i \in Chare PROVE c.of[i].ref = 1 /\ Tail(contrib["refiner"][i]) = <<>>
    <3>1. contrib["refiner"][i] = IF c.of[i].ref = 1 THEN <<"matched">> ELSE <<>> BY <1>1 DEF Contribution
    <3>2. contrib["refiner"][i] = <<"matched">> /\ c.of[i].ref = 1 BY <1>2, <3>1
    <3>3. Tail(<<"matched">>) = <<>> BY TargetFacts
    <3> QED BY <3>2, <3>3
  <2> QED BY <2>1
<1>4. /\ c.phase = 4 /\ c.st = 2 /\ ~ finished /\ Renews(c) /\ c.mesh = 0 /\ ~ c.disc /\ ~ c.work
      /\ \A i \in Chare : c.of[i].at = 15 /\ Made(c, c.of[i]) /\ c.of[i].vol = 0 /\ c.of[i].diag \in {1, 2, 3}
  <2>1. \A i \in Chare : /\ c.of[i].at = 15 /\ c.phase = 4 /\ c.st = 2 /\ Made(c, c.of[i]) /\ ~ finished /\ Renews(c)
                         /\ c.mesh = 0 /\ ~ c.disc /\ ~ c.work /\ c.of[i].vol = 0 /\ c.of[i].diag \in {1, 2, 3}
    BY <1>3, BeforeMesh
  <2> QED BY <2>1, ConstantFacts
<1>b. c.disc \in BOOLEAN /\ c.work \in BOOLEAN /\ c.diagnosed \in BOOLEAN /\ \A i \in Chare : c.of[i] \in Point
  BY <1>1, ConfigIs DEF Config
<1>6. /\ f \in [Chare -> Point]
      /\ \A i \in Chare : /\ f[i].at = c.of[i].at /\ f[i].diag = c.of[i].diag /\ f[i].ref = 2 /\ f[i].vol = c.of[i].vol
                          /\ ~ f[i].req /\ ~ f[i].sent
  <2>1. \A p \in Point : /\ Renewed(p) \in Point /\ Renewed(p).at = p.at /\ Renewed(p).diag = p.diag
                         /\ Renewed(p).ref = 2 /\ Renewed(p).vol = p.vol
                         /\ ~ Renewed(p).req /\ ~ Renewed(p).sent
    <3>1. 2 \in 0 .. 3 OBVIOUS
    <3> QED BY <3>1 DEF Point, Renewed
  <2> QED BY <1>b, <2>1
<1> HIDE DEF f
<1>d. d = AllTurn(c, 1, c.disc, c.work, c.diagnosed, f) OBVIOUS
<1> HIDE DEF d
<1>7. /\ d \in Config /\ SameStep(c, d) /\ d.phase = 4 /\ d.mesh = 1 /\ d.st = 2
      /\ ~ d.disc /\ ~ d.work /\ d.diagnosed = c.diagnosed /\ d.of = f
  <2>1. 1 \in 0 .. 5 OBVIOUS
  <2>2. /\ d \in Config /\ SameStep(c, d) /\ d.phase = c.phase /\ d.mesh = 1
        /\ SameJobs(c, d) /\ d.of = f
    BY <1>1, <1>b, <1>6, <1>d, <2>1 DEF AllTurn, Config, SameStep
  <2> QED BY <1>4, <2>2 DEF SameStep
<1>9. Now(d) = Now(c) /\ (Renews(d) <=> Renews(c)) /\ Base(d) = Base(c) BY <1>7, StepFacts
<1>10. \A x \in Faces : Traded(d, x)' /\ \A j \in Chare : Arrived(d, x, j)' = {}
  <2>1. ASSUME NEW x \in Faces
        PROVE  Traded(d, x)' /\ \A j \in Chare : Arrived(d, x, j)' = {}
    <3>1. \A j \in Chare : OverAt(c, c.of[j], x) BY <1>4, SentFacts
    <3>2. ASSUME NEW j \in Chare PROVE ~ SentAt(d, d.of[j], x) /\ ~ OverAt(d, d.of[j], x)
      <4>1. d.of[j].at = 15 /\ ~ d.of[j].req /\ ~ d.of[j].sent BY <1>4, <1>6, <1>7
      <4> QED BY <1>7, <4>1, SentFacts
    <3>3. x \in DGKind BY CallTypes
    <3> QED BY <1>0, <1>2, <3>1, <3>2, <3>3, KindStarts
  <2> QED BY <2>1
<1>11. \A x \in {"vol", "init", "sol", "lim"} : Traded(d, x)'
  <2>1. ASSUME NEW x \in {"vol", "init", "sol", "lim"} PROVE Traded(d, x)'
    <3>1. x \in DGKind BY CallTypes
    <3>2. SameTags(c, d, x)
      <4>1. d.it = c.it /\ d.st = c.st BY <1>7 DEF SameStep
      <4> QED BY <1>9, <4>1 DEF SameTags, Letter, TagOf
    <3>3. ASSUME NEW i \in Chare
          PROVE  /\ SentAt(d, d.of[i], x) <=> SentAt(c, c.of[i], x)
                 /\ OverAt(d, d.of[i], x) => OverAt(c, c.of[i], x)
      <4>1. c.of[i].vol = 0 /\ d.of[i].vol = 0 BY <1>4, <1>6, <1>7
      <4> QED BY <1>4, <1>7, <4>1, SentFacts
    <3> QED BY <1>0, <1>2, <3>1, <3>2, <3>3, KindKeeps
  <2> QED BY <2>1
<1>12. ASSUME NEW i \in Chare PROVE Local(d, i)'
  <2>1. /\ SameTargets("worker", i) /\ SameTargets("disc", i)
        /\ contrib'["refiner"][i] = <<>> /\ SameTargets("sync", i)
    BY <1>2, <1>3, Arrays DEF ArrayIs
  <2>2. /\ d.of[i].at = 15 /\ d.of[i].ref = 2 /\ d.of[i].vol = 0 /\ d.of[i].diag = c.of[i].diag
        /\ ~ d.of[i].req /\ ~ d.of[i].sent
        /\ c.of[i].at = 15 /\ c.of[i].ref = 1 /\ c.of[i].vol = 0
    BY <1>3, <1>4, <1>6, <1>7
  <2>3. \A x \in Faces : Arrived(d, x, i)' = {} BY <1>10
  <2> QED BY <1>0, <1>2, <1>4, <1>7, <2>1, <2>2, <2>3, RenewedLocal
<1>13. ASSUME NEW i \in Chare PROVE Fits(d, d.of[i])
  <2> DEFINE p == c.of[i]
             q == f[i]
  <2>1. /\ q.at = 15 /\ p.at = 15 /\ q.diag = p.diag /\ q.ref = 2 /\ q.vol = 0 /\ Made(c, p) /\ Fits(c, p)
    BY <1>1, <1>4, <1>6
  <2> HIDE DEF p, q
  <2>2. Made(d, q) BY <1>7, <2>1 DEF Made
  <2>3. q.diag \in IF Now(c) % DiagFreq # 0 THEN {3} ELSE IF c.diagnosed THEN {2, 3} ELSE {1} BY <2>1 DEF Fits
  <2>6. Fits(d, q) BY <1>4, <1>7, <1>9, <2>1, <2>2, <2>3 DEF Fits
  <2> QED BY <1>7, <2>6 DEF q
<1>14. Together(d) BY <1>1, <1>4, <1>7, <1>9 DEF Together, SameStep
<1>15. HostSignals(d)' BY <1>1, <1>2, <1>4, <1>7 DEF HostSignals
<1>16. NewDue(d)
  <2>1. \A i \in Chare : \A n : n.type = "eval" => Due(d.of[i], n) BY <1>6, <1>7 DEF Due
  <2> QED BY <1>2, <2>1
<1>17. ASSUME NEW i \in Chare
       PROVE  (\A n : Due(c.of[i], n) => Due(d.of[i], n)) /\ (c.of[i].at \in {7, 19} => d.of[i].at = c.of[i].at)
  <2> DEFINE p == c.of[i]
             q == d.of[i]
  <2>1. p.at = 15 /\ q.at = 15 /\ q.diag = p.diag /\ p.ref = 1 /\ q.vol = 0 /\ p.vol = 0 BY <1>3, <1>4, <1>6, <1>7
  <2>2. p = c.of[i] /\ q = d.of[i] OBVIOUS
  <2> HIDE DEF p, q
  <2>3. \A n : Due(p, n) => Due(q, n) BY <2>1 DEF Due
  <2> QED BY <2>1, <2>2, <2>3
<1>18. finished' \in BOOLEAN /\ ~ finished' BY <1>0, <1>1, <1>4 DEF Shape
<1>19. \A x \in DGKind : Traded(d, x)' BY <1>10, <1>11, CallTypes
<1>20. DGInv(d)' BY <1>0, <1>2, <1>7, <1>12, <1>13, <1>14, <1>15, <1>16, <1>17, <1>18, <1>19, AllPut
<1> QED BY <1>7, <1>20

\* At the end of a step.
LEMMA AtAdvance ==
  ASSUME NEW c, DGInv(c), NEW i \in Chare, c.of[i].at = 22, c.st = 2
  PROVE  /\ c.phase = 4 /\ Made(c, c.of[i]) /\ c.of[i].diag = 3 /\ Now(c) < NStep
         /\ Renews(c) => c.of[i].vol = 6 /\ c.of[i].ref = 3 /\ c.mesh = 5
         /\ ~ Renews(c) => c.of[i].vol = 0 /\ c.of[i].ref = 0 /\ c.mesh = 0
<1> DEFINE p == c.of[i]
<1>1. Fits(c, p) /\ Together(c) /\ p.at = 22 BY PartsOf
<1>2. c.mesh \in 0 .. 5 /\ c.phase \in 0 .. 4 BY PartsOf, ConfigIs
<1> HIDE DEF p
<1>3. c.phase = 4
  <2>1. c.phase \in {0, 1, 2, 3, 4} BY <1>2
  <2>2. p.at \in CASE c.phase = 0 -> 0 .. 2 [] c.phase = 1 -> 3 .. 4 [] c.phase = 2 -> 5 .. 9
                   [] c.phase = 3 -> 10 .. 13 [] OTHER -> IF c.st = 2 THEN 14 .. 24 ELSE {14, 22}
    BY <1>1 DEF Fits
  <2> QED BY <1>1, <2>1, <2>2
<1>4. Made(c, p) BY <1>1, <1>3 DEF Made
<1>5. p.diag = 3 /\ (Renews(c) => p.vol = 6 /\ c.mesh = 5) BY <1>1, <1>4 DEF Fits
<1>6. Now(c) < NStep BY <1>1 DEF Fits
<1>7. Renews(c) => p.ref = 3 BY <1>1, <1>5 DEF Fits
<1>8. ~ Renews(c) => c.mesh = 0 BY <1>1, <1>2 DEF Together
<1>9. ~ Renews(c) => p.ref = 0 /\ p.vol = 0 BY <1>1, <1>8 DEF Fits
<1> QED BY <1>3, <1>4, <1>5, <1>6, <1>7, <1>8, <1>9 DEF p

LEMMA AheadReady ==
  ASSUME NEW c, DGInv(c), NEW n, NEW s, Ahead(c, n, s), NEW i \in Chare, ~ finished
  PROVE  Ready(c, n, s, i)
<1> DEFINE p == c.of[i]
<1>1. /\ c \in Config /\ Together(c) /\ Fits(c, p) /\ Counters(c, i) /\ Maps(c, i) /\ Updated(c, i) BY PartsOf
<1>2. c.mesh \in 0 .. 5 /\ c.phase \in 0 .. 4 /\ c.st \in 0 .. 2 /\ c.it \in Nat BY <1>1, ConfigIs
<1>p. p = c.of[i] OBVIOUS
<1> HIDE DEF p
<1>m. (OverAt(c, p, "fac") => (Nbr[i] = {} \/ (p.req /\ p.sent))) /\ (Nbr[i] = {} => ~ p.req) BY <1>1, <1>p DEF Maps
<1>3. CASE c.phase = 2 /\ n = c.it /\ s = c.st /\ p.at = 9
  <2>1. c.mesh = 0 /\ ~ Made(c, p) /\ ~ c.diagnosed BY <1>1, <1>2, <1>3 DEF Together, Made
  <2>2. p.diag = 0 /\ p.ref = 0 /\ p.vol = 0 BY <1>1, <2>1 DEF Fits
  <2>3. it[i] = n /\ stage[i] = s /\ itr[i] = MeshOf(n) BY <1>1, <1>3, <1>p, <2>1, <2>2 DEF Counters, Base
  <2>4. used[i] = {} BY <1>1, <1>3, <1>p DEF Updated
  <2>5. OverAt(c, p, "fac") BY <1>3, <2>1, SentFacts
  <2> QED BY <1>3, <1>m, <1>p, <2>1, <2>2, <2>3, <2>4, <2>5 DEF Ready
<1>4. CASE c.phase = 4 /\ c.st < 2 /\ n = c.it /\ s = c.st + 1 /\ p.at = 22
  <2>1. c.mesh = 0 /\ ~ Made(c, p) /\ ~ c.diagnosed BY <1>1, <1>2, <1>4 DEF Together, Made
  <2>2. p.diag = 0 /\ p.ref = 0 /\ p.vol = 0 BY <1>1, <2>1 DEF Fits
  <2>3. it[i] = n /\ stage[i] = s /\ itr[i] = MeshOf(n) BY <1>1, <1>4, <1>p, <2>1, <2>2 DEF Counters, Base
  <2>4. \A u \in used[i] : StageFollows(u, [it |-> n, stage |-> s]) BY <1>1, <1>4, <1>p DEF Updated, StageFollows
  <2>5. OverAt(c, p, "fac") BY <1>4, <2>1, SentFacts
  <2> QED BY <1>4, <1>m, <1>p, <2>1, <2>2, <2>3, <2>4, <2>5 DEF Ready
<1>5. CASE c.phase = 4 /\ c.st = 2 /\ n = Now(c) /\ s = 0 /\ p.at = 22
  <2>1. /\ Made(c, p) /\ p.diag = 3
        /\ Renews(c) => p.vol = 6 /\ p.ref = 3 /\ c.mesh = 5
        /\ ~ Renews(c) => p.vol = 0 /\ p.ref = 0 /\ c.mesh = 0
    BY <1>5, <1>p, AtAdvance
  <2>2. p.ref = 3 => c.work BY <1>1, <2>1 DEF Together
  <2>3. n \in Nat \ {0} /\ n - 1 = c.it /\ (Renews(c) <=> Refines(n)) BY <1>2, <1>5 DEF Now, Renews
  <2>4. MeshOf(n) = IF Renews(c) THEN Base(c) + 1 ELSE Base(c) BY <2>3, MeshFacts DEF Base
  <2>5. it[i] = n /\ stage[i] = s /\ itr[i] = MeshOf(n) BY <1>1, <1>5, <1>p, <2>1, <2>4 DEF Counters
  <2>6. \A u \in used[i] : StageFollows(u, [it |-> n, stage |-> s]) BY <1>1, <1>5, <1>p DEF Updated, StageFollows, Now
  <2>7. OverAt(c, p, "fac") BY <1>5, <2>1, SentFacts
  <2> QED BY <1>5, <1>m, <1>p, <2>1, <2>2, <2>5, <2>6, <2>7 DEF Ready
<1> QED BY <1>3, <1>4, <1>5, <1>p DEF Ahead

LEMMA AheadLocal ==
  ASSUME NEW c, DGInv(c), NEW n, NEW s, NEW i \in Chare, Ready(c, n, s, i), NEW d, Starts(d, n, s), StartsAt(c.of[i], d.of[i]),
         UNCHANGED held, trigger'[i] = trigger[i], finished' = finished,
         SameFace(c, d, i),
         \A x \in {"init", "sol", "lim"} : Arrived(d, x, i)' = {},
         contrib'["worker"][i] = <<>>, contrib'["disc"][i] = <<>>,
         SameTargets("refiner", i), SameTargets("sync", i)
  PROVE  Local(d, i)' /\ Fits(d, d.of[i])
<1> DEFINE p == c.of[i]
           q == d.of[i]
<1>0. /\ Counters(c, i) /\ Signalled(c, i) /\ Kept(c, i) /\ Contribution(c, i)
  BY PartsOf
<1>p. p = c.of[i] /\ q = d.of[i] OBVIOUS
<1>1. /\ p.at \in {9, 22} /\ p.ref \in {0, 3} /\ p.vol \in {0, 6}
      /\ it[i] = n /\ stage[i] = s /\ itr[i] = MeshOf(n) /\ ~ finished
      /\ \A u \in used[i] : StageFollows(u, [it |-> n, stage |-> s])
      /\ (Nbr[i] = {} \/ (p.req /\ p.sent))
  BY DEF Ready
<1>2. q.at = 10 /\ q.diag = 0 /\ q.ref = 0 /\ q.vol = 0 /\ q.req = p.req /\ q.sent = p.sent BY DEF StartsAt
<1>3. /\ Arrived(d, "fac", i)' = Arrived(c, "fac", i) /\ Arrived(d, "req", i)' = Arrived(c, "req", i)
      /\ Arrived(d, "ghost", i)' = Arrived(c, "ghost", i)
      /\ Arrived(d, "init", i)' = {} /\ Arrived(d, "sol", i)' = {} /\ Arrived(d, "lim", i)' = {}
  OBVIOUS
<1> HIDE DEF p, q
<1>4. d.it = n /\ d.st = s /\ d.phase = 3 /\ d.mesh = 0 /\ ~ d.disc /\ ~ d.work /\ ~ d.diagnosed BY DEF Starts
<1>5. ~ Made(d, q) /\ Base(d) = MeshOf(n) BY <1>4 DEF Made, Base
<1>7. /\ it' = it /\ itr' = itr /\ refined' = refined /\ stage' = stage /\ used' = used /\ bndFace' = bndFace
      /\ ghostData' = ghostData /\ ghost' = ghost /\ usol' = usol /\ ulim' = ulim
  BY DEF held
<1>8. Counters(d, i)' BY <1>1, <1>2, <1>4, <1>5, <1>7, <1>p DEF Counters
<1>9. Signalled(d, i)' BY <1>0, <1>1, <1>2, <1>3, <1>p DEF Signalled
<1>10. Maps(d, i)'
  <2>1. ~ Asking(c, p) /\ ~ Asking(d, q) BY <1>1, <1>2 DEF Asking
  <2>2. bndFace[i] = {} /\ ghostData[i] = Fac[i] /\ DOMAIN ghost[i] = Fac[i] BY <1>0, <1>p, <2>1 DEF Maps
  <2>3. /\ p.req <=> Nbr[i] # {} /\ Arrived(c, "fac", i) = Nbr[i]
        /\ p.sent => p.req /\ Arrived(c, "req", i) = Nbr[i]
    BY <1>0, <1>p DEF Maps
  <2> QED BY <1>1, <1>2, <1>3, <1>7, <1>p, <2>1, <2>2, <2>3 DEF Maps
<1>11. Ghosts(d, i)'
  <2>1. /\ \A u \in usol[i] \cup ulim[i] : u.from \in Fac[i]
        /\ Ndof = 1 => ulim[i] = {}
    BY <1>0 DEF Ghosts
  <2>2. CellsOf(d, {}) = {} BY DEF CellsOf
  <2>3. /\ {u \in usol'[i] : u.from \in {}} = CellsOf(d, {})
        /\ {u \in ulim'[i] : u.from \in {}} = CellsOf(d, {})
    BY <2>2
  <2>4. CellsOf(d, {})' = CellsOf(d, {}) BY DEF CellsOf
  <2>5. q.at <= 11 /\ q.at <= 12 BY <1>2
  <2>6. /\ {u \in usol'[i] : u.from \in Arrived(d, "sol", i)'} = CellsOf(d, Arrived(d, "sol", i)')
        /\ {u \in ulim'[i] : u.from \in Arrived(d, "lim", i)'} = CellsOf(d, Arrived(d, "lim", i)')
    BY <1>3, <2>3
  <2> QED BY <1>7, <1>p, <2>1, <2>5, <2>6 DEF Ghosts
<1>12. Updated(d, i)'
  <2>1. \A u \in used'[i] : StageFollows(u, [it |-> d.it, stage |-> d.st]) BY <1>1, <1>4, <1>7
  <2>2. ~ (d.of[i].at >= 15) /\ d.phase >= 3 BY <1>2, <1>4, <1>p
  <2>3. /\ \A u, t \in used'[i] : u = t
        /\ \A u \in used'[i] : u.sol = Current(i, u) /\ u.itr = MeshOf(u.it) /\ u.lim = IF Ndof > 1 THEN Current(i, u) ELSE {}
    BY <1>0, <1>7 DEF Updated
  <2> QED BY <2>1, <2>2, <2>3 DEF Updated
<1>13. Contribution(d, i)'
  <2>1. WorkerPart(d, q) = <<>> BY <1>2, WorkerParts
  <2>2. <<>> \in DiscParts(d, q) BY <1>2 DEF DiscParts
  <2>3. contrib["refiner"][i] = <<>> BY <1>0, <1>1, <1>p DEF Contribution
  <2>4. contrib["sync"][i] \in Seq({"sync"}) /\ (~ Nonblocking => contrib["sync"][i] = <<>>)
    BY <1>0, <1>1, <1>p DEF Contribution
  <2> QED BY <1>1, <1>2, <1>p, <2>1, <2>2, <2>3, <2>4 DEF Contribution
<1>14. Fits(d, q) BY <1>2, <1>4, <1>5 DEF Fits
<1> QED BY <1>8, <1>9, <1>10, <1>11, <1>12, <1>13, <1>14, <1>p DEF Local

\* What all chares have received and will not wait for again, or wait for again.
LEMMA AheadTraded ==
  ASSUME NEW c, DGInv(c), NEW n, NEW s, Ahead(c, n, s), \A i \in Chare : Ready(c, n, s, i), NEW d, Starts(d, n, s),
         \A i \in Chare : StartsAt(c.of[i], d.of[i]), UNCHANGED held, SameMail
  PROVE  /\ \A x \in Faces : Keeps(c, d, x)
         /\ \A x \in {"vol", "init", "sol", "lim"} : Traded(d, x)' /\ \A j \in Chare : Arrived(d, x, j)' = {}
<1>1. ASSUME NEW x \in Faces
      PROVE  Keeps(c, d, x)
  <2>1. \A j \in Chare : OverAt(c, c.of[j], x)
    <3>1. ASSUME NEW j \in Chare PROVE OverAt(c, c.of[j], x)
      <4>1. c.phase >= 1 /\ (c.mesh = 0 \/ c.mesh = 5) BY DEF Ahead, Ready
      <4> QED BY <4>1, SentFacts
    <3> QED BY <3>1
  <2>2. ASSUME NEW i \in Chare, NEW j \in From(x, i) PROVE SentAt(d, d.of[j], x)
    <3>1. j \in Chare /\ i \in Nbr[j] BY <1>1, <2>2, NbrFacts DEF From
    <3>2. c.of[j].req /\ c.of[j].sent BY <3>1 DEF Ready
    <3>3. d.of[j].at = 10 /\ d.of[j].req /\ d.of[j].sent /\ d.mesh = 0 BY <3>1, <3>2 DEF StartsAt, Starts
    <3> QED BY <3>3, SentFacts
  <2>3. x \in DGKind BY CallTypes
  <2> QED BY <2>1, <2>2, <2>3, KindDone
<1>2. ASSUME NEW x \in {"vol", "init", "sol", "lim"} PROVE Traded(d, x)' /\ \A j \in Chare : Arrived(d, x, j)' = {}
  <2>1. ASSUME NEW j \in Chare PROVE ~ SentAt(d, d.of[j], x) /\ ~ OverAt(d, d.of[j], x)
    <3>1. d.of[j].at = 10 /\ d.of[j].vol = 0 /\ d.phase = 3 BY DEF StartsAt, Starts
    <3> QED BY <3>1, SentFacts
  <2>2. (\A j \in Chare : OverAt(c, c.of[j], x)) \/ (\A j \in Chare : ~ SentAt(c, c.of[j], x))
    <3>1. \A j \in Chare : /\ c.of[j].vol \in {0, 6} /\ (c.mesh = 0 <=> c.of[j].vol = 0)
                           /\ c.phase = 2 => c.of[j].at = 9
                           /\ c.phase \in {2, 4}
      BY DEF Ready, Ahead
    <3>2. CASE x = "vol"
      <4>1. CASE c.mesh = 0
        <5>1. \A j \in Chare : ~ (c.of[j].vol >= 2) BY <3>1, <4>1
        <5> QED BY <3>2, <5>1, SentFacts
      <4>2. CASE c.mesh # 0
        <5>1. \A j \in Chare : c.of[j].vol >= 3 BY <3>1, <4>2
        <5> QED BY <3>2, <5>1, SentFacts
      <4> QED BY <4>1, <4>2
    <3>3. CASE x = "init"
      <4>1. CASE c.phase = 2
        <5>1. \A j \in Chare : c.of[j].at >= 7 BY <3>1, <4>1
        <5> QED BY <3>3, <4>1, <5>1, SentFacts
      <4>2. CASE c.phase # 2 BY <3>3, <4>2, SentFacts
      <4> QED BY <4>1, <4>2
    <3>4. CASE x \in {"sol", "lim"} BY <3>1, <3>4, SentFacts
    <3> QED BY <1>2, <3>2, <3>3, <3>4
  <2>3. x \in DGKind BY CallTypes
  <2> QED BY <2>1, <2>2, <2>3, KindStarts
<1> QED BY <1>1, <1>2

\* The configuration of the next stage.
LEMMA OnwardIs ==
  ASSUME NEW c \in Config, NEW n \in Nat, NEW s, s \in 0 .. 2,
         NEW d, d = Onward(c, n, s, [i \in Chare |-> Restarted(c.of[i])])
  PROVE  d \in Config /\ Starts(d, n, s) /\ \A i \in Chare : StartsAt(c.of[i], d.of[i])
<1> DEFINE f == [i \in Chare |-> Restarted(c.of[i])]
<1>1. \A i \in Chare : c.of[i] \in Point BY DEF Config
<1>2. \A p \in Point : Restarted(p) \in Point /\ StartsAt(p, Restarted(p))
  <2>1. 10 \in 0 .. 24 /\ 0 \in 0 .. 3 /\ 0 \in 0 .. 6 OBVIOUS
  <2> QED BY <2>1 DEF Point, Restarted, StartsAt
<1>3. f \in [Chare -> Point] /\ \A i \in Chare : StartsAt(c.of[i], f[i]) BY <1>1, <1>2
<1> HIDE DEF f
<1>4. 3 \in 0 .. 4 /\ 0 \in 0 .. 5 OBVIOUS
<1>5. d = Onward(c, n, s, f) BY DEF f
<1>6. d \in Config BY <1>3, <1>4, <1>5 DEF Onward, Config
<1>7. Starts(d, n, s) /\ d.of = f BY <1>5 DEF Onward, Starts
<1> QED BY <1>3, <1>6, <1>7

LEMMA AdvanceTakes ==
  ASSUME NEW c, DGInv(c), NEW a \in {"worker", "disc"}, Advances(c, a)
  PROVE  /\ ~ finished /\ \E n \in Nat : \E s \in 0 .. 2 : Ahead(c, n, s) /\ n < NStep
         /\ \A i \in Chare : contrib'["worker"][i] = <<>> /\ contrib'["disc"][i] = <<>>
                             /\ SameTargets("refiner", i) /\ SameTargets("sync", i)
<1>1. /\ c \in Config /\ Together(c)
      /\ \A i \in Chare : Fits(c, c.of[i]) /\ Contribution(c, i)
  BY PartsOf
<1>2. /\ c.phase \in 0 .. 4 /\ c.st \in 0 .. 2 /\ c.mesh \in 0 .. 5 /\ c.it \in Nat BY <1>1, ConfigIs
<1>3. PICK j \in Chare : TRUE BY ConstantFacts
<1>a. "worker" \in Array /\ "disc" \in Array /\ "refiner" \in Array /\ "sync" \in Array BY Arrays DEF ArrayIs
<1>4. CASE a = "worker"
  <2>1. \A i \in Chare : ~ finished /\ Tail(contrib["worker"][i]) = <<>> /\ c.of[i].at = 9
    BY <1>4, HeadWorker DEF Advances
  <2>2. c.phase = 2
    <3> DEFINE p == c.of[j]
    <3>2. Fits(c, p) /\ p.at = 9 BY <1>1, <1>3, <2>1
    <3> HIDE DEF p
    <3>3. c.phase \in {0, 1, 2, 3, 4} BY <1>2
    <3>4. p.at \in CASE c.phase = 0 -> 0 .. 2 [] c.phase = 1 -> 3 .. 4 [] c.phase = 2 -> 5 .. 9
                     [] c.phase = 3 -> 10 .. 13 [] OTHER -> IF c.st = 2 THEN 14 .. 24 ELSE {14, 22}
      BY <3>2 DEF Fits
    <3> QED BY <3>2, <3>3, <3>4
  <2>3. Ahead(c, c.it, c.st) /\ c.it < NStep /\ ~ finished BY <1>1, <1>3, <2>1, <2>2 DEF Ahead, Together
  <2>4. ASSUME NEW i \in Chare PROVE contrib["disc"][i] = <<>>
    <3> DEFINE p == c.of[i]
    <3>1. Fits(c, p) /\ p.at = 9 /\ contrib["disc"][i] \in DiscParts(c, p) BY <1>1, <2>1 DEF Contribution
    <3> HIDE DEF p
    <3>2. c.mesh = 0 /\ ~ Made(c, p) BY <1>1, <1>2, <2>2 DEF Together, Made
    <3>3. p.diag = 0 /\ p.ref = 0 /\ p.vol = 0 BY <3>1, <3>2 DEF Fits
    <3> QED BY <3>1, <3>3 DEF DiscParts
  <2>5. \A i \in Chare : contrib'["worker"][i] = <<>> /\ contrib'["disc"][i] = <<>>
                         /\ SameTargets("refiner", i) /\ SameTargets("sync", i)
    BY <1>4, <1>a, <2>1, <2>4 DEF Advances
  <2> QED BY <1>2, <2>3, <2>5
<1>5. CASE a = "disc"
  <2>1. \A i \in Chare : /\ c.of[i].at = 22
                         /\ Tail(contrib["disc"][i]) = IF "advance" = "diagnostics" /\ c.of[i].ref = 3
                                                       THEN <<"discresized">> ELSE <<>>
    <3>1. ASSUME NEW i \in Chare
          PROVE  /\ c.of[i].at = 22
                 /\ Tail(contrib["disc"][i]) = IF "advance" = "diagnostics" /\ c.of[i].ref = 3
                                               THEN <<"discresized">> ELSE <<>>
      <4>1. contrib["disc"][i] # <<>> /\ "advance" = Head(contrib["disc"][i]) BY <1>5 DEF Advances
      <4> QED BY <4>1, HeadDisc
    <3> QED BY <3>1
  <2>2. \A i \in Chare : c.of[i].at = 22 /\ Tail(contrib["disc"][i]) = <<>> BY <2>1
  <2>3. c.phase = 4
    <3> DEFINE p == c.of[j]
    <3>2. Fits(c, p) /\ p.at = 22 BY <1>1, <1>3, <2>2
    <3> HIDE DEF p
    <3>3. c.phase \in {0, 1, 2, 3, 4} BY <1>2
    <3>4. p.at \in CASE c.phase = 0 -> 0 .. 2 [] c.phase = 1 -> 3 .. 4 [] c.phase = 2 -> 5 .. 9
                     [] c.phase = 3 -> 10 .. 13 [] OTHER -> IF c.st = 2 THEN 14 .. 24 ELSE {14, 22}
      BY <3>2 DEF Fits
    <3> QED BY <3>2, <3>3, <3>4
  <2>4. ~ finished
    <3>1. finished => c.of[j].at = 24 BY <1>3 DEF DGInv
    <3>2. c.of[j].at = 22 BY <1>3, <2>2
    <3> QED BY <3>1, <3>2
  <2>5. \E n \in Nat : \E s \in 0 .. 2 : Ahead(c, n, s) /\ n < NStep
    <3>1. CASE c.st < 2
      <4>1. Ahead(c, c.it, c.st + 1) /\ c.it < NStep BY <1>1, <2>2, <2>3, <3>1 DEF Ahead, Together
      <4>2. c.st + 1 \in 0 .. 2 BY <1>2, <3>1
      <4> QED BY <1>2, <4>1, <4>2
    <3>2. CASE c.st = 2
      <4>1. c.of[j].at = 22 BY <1>3, <2>2
      <4>2. Now(c) < NStep /\ Now(c) \in Nat BY <1>2, <1>3, <3>2, <4>1, AtAdvance DEF Now
      <4>3. Ahead(c, Now(c), 0) BY <2>2, <2>3, <3>2 DEF Ahead
      <4>4. 0 \in 0 .. 2 OBVIOUS
      <4> QED BY <4>2, <4>3, <4>4
    <3> QED BY <1>2, <3>1, <3>2
  <2>6. ASSUME NEW i \in Chare PROVE contrib["worker"][i] = <<>>
    <3> DEFINE p == c.of[i]
    <3>1. p.at = 22 /\ contrib["worker"][i] = WorkerPart(c, p) /\ Fits(c, p) BY <1>1, <2>2, <2>4 DEF Contribution
    <3> HIDE DEF p
    <3>2. p.ref # 3 \/ c.work
      <4>1. p.ref = 3 => Renews(c) /\ Made(c, p) BY <3>1 DEF Fits
      <4>2. p.ref = 3 => c.mesh = 5 BY <3>1, <4>1 DEF Fits
      <4> QED BY <1>1, <4>2 DEF Together
    <3> QED BY <3>1, <3>2, WorkerParts
  <2>7. \A i \in Chare : contrib'["worker"][i] = <<>> /\ contrib'["disc"][i] = <<>>
                         /\ SameTargets("refiner", i) /\ SameTargets("sync", i)
    BY <1>5, <1>a, <2>2, <2>6 DEF Advances
  <2> QED BY <1>2, <2>4, <2>5, <2>7
<1> QED BY <1>4, <1>5

\* Transporter::advance
LEMMA AheadKeeps ==
  ASSUME NEW c, DGInv(c), TransporterAdvance
  PROVE  \E d \in Config : DGInv(d)'
<1>0. UNCHANGED held /\ finished' = finished BY HeldIs DEF TransporterAdvance, Target
<1>e. PICK a \in {"worker", "disc"} : Reduce(a, "advance", Posts({"resize"}) ++ Calls(Broadcast("advance")))
  BY DEF TransporterAdvance, Target
<1>1. /\ Shape /\ c \in Config /\ Together(c) /\ HostSignals(c)
      /\ \A i \in Chare : Fits(c, c.of[i]) /\ Maps(c, i) /\ Contribution(c, i)
  BY PartsOf
<1>2. /\ \A i \in Chare : contrib[a][i] # <<>> /\ Head(contrib[a][i]) = "advance"
      /\ \A i \in Chare : \A b \in Array : contrib'[b][i] = IF b = a THEN Tail(contrib[b][i]) ELSE contrib[b][i]
      /\ ContribIs
      /\ trigger' = trigger /\ TriggerIs
      /\ SameMail
      /\ NewOf("advance")
  <2> DEFINE e == Posts({"resize"}) ++ Calls(Broadcast("advance"))
  <2>1. "advance" # "write" /\ (\A x \in DGKind : "advance" # CallOf[x]) /\ a \in Array
    BY CallTypes, Arrays DEF ArrayIs
  <2>2. e.calls = Broadcast("advance") /\ e.triggers = {}
    <3>1. /\ e.calls = Posts({"resize"}).calls \cup Calls(Broadcast("advance")).calls
          /\ e.triggers = Posts({"resize"}).triggers \cup Calls(Broadcast("advance")).triggers
      BY ThenFacts
    <3> HIDE DEF e
    <3> QED BY <3>1, EffectFacts
  <2>3. Reduce(a, "advance", e) BY <1>e
  <2> HIDE DEF e
  <2> QED BY <2>1, <2>2, <2>3, Reduced
<1>3. Advances(c, a) BY <1>2 DEF Advances
<1>4. /\ ~ finished /\ \E n \in Nat : \E s \in 0 .. 2 : Ahead(c, n, s) /\ n < NStep
      /\ \A i \in Chare : contrib'["worker"][i] = <<>> /\ contrib'["disc"][i] = <<>>
                          /\ SameTargets("refiner", i) /\ SameTargets("sync", i)
  BY <1>3, AdvanceTakes
<1>5. PICK n \in Nat : \E s \in 0 .. 2 : Ahead(c, n, s) /\ n < NStep BY <1>4
<1>6. PICK s \in 0 .. 2 : Ahead(c, n, s) /\ n < NStep BY <1>5
<1>7. \A i \in Chare : Ready(c, n, s, i) BY <1>4, <1>6, AheadReady
<1> DEFINE d == Onward(c, n, s, [i \in Chare |-> Restarted(c.of[i])])
<1>8. d \in Config /\ Starts(d, n, s) /\ \A i \in Chare : StartsAt(c.of[i], d.of[i]) BY <1>1, OnwardIs
<1> HIDE DEF d
<1>9. /\ \A x \in Faces : Keeps(c, d, x)
      /\ \A x \in {"vol", "init", "sol", "lim"} : Traded(d, x)' /\ \A j \in Chare : Arrived(d, x, j)' = {}
  BY <1>0, <1>2, <1>6, <1>7, <1>8, AheadTraded
<1>10. ASSUME NEW i \in Chare PROVE Local(d, i)' /\ Fits(d, d.of[i])
  <2>1. trigger'[i] = trigger[i] BY <1>2
  <2>2. /\ SameFace(c, d, i)
        /\ \A x \in {"init", "sol", "lim"} : Arrived(d, x, i)' = {}
    BY <1>9
  <2> QED BY <1>0, <1>4, <1>7, <1>8, <2>1, <2>2, AheadLocal
<1>11. \A x \in DGKind : Traded(d, x)' BY <1>9, CallTypes
<1>12. Together(d) BY <1>6, <1>8 DEF Together, Starts
<1>13. c.mesh # 1 /\ d.mesh # 1
  <2>1. PICK j \in Chare : TRUE BY ConstantFacts
  <2> QED BY <1>7, <1>8, <2>1 DEF Ready, Starts
<1>14. HostSignals(d)' BY <1>1, <1>2, <1>13 DEF HostSignals
<1>15. ASSUME NEW i \in Chare
       PROVE  (\A m : Due(c.of[i], m) => Due(d.of[i], m)) /\ (c.of[i].at \in {7, 19} => d.of[i].at = c.of[i].at)
  <2> DEFINE p == c.of[i]
             q == d.of[i]
  <2>1. p.at \in {9, 22} /\ p.diag \in {0, 3} /\ p.ref \in {0, 3} /\ p.vol \in {0, 6} BY <1>7 DEF Ready
  <2>2. p = c.of[i] /\ q = d.of[i] OBVIOUS
  <2> HIDE DEF p, q
  <2>3. \A m : Due(p, m) => Due(q, m) BY <2>1 DEF Due
  <2> QED BY <2>1, <2>2, <2>3
<1>16. \A m \in msgs' : m \notin msgs => /\ m.to \in Chare /\ m.type # "write" /\ Plain(m)
                                         /\ Due(d.of[m.to], m)
  <2>1. \A i \in Chare : \A m : m.type = "advance" => Due(d.of[i], m) BY <1>8 DEF Due, StartsAt
  <2> QED BY <1>2, <2>1
<1>17. finished' \in BOOLEAN /\ ~ finished' BY <1>0, <1>1, <1>4 DEF Shape
<1>18. DGInv(d)' BY <1>0, <1>2, <1>8, <1>10, <1>11, <1>12, <1>14, <1>15, <1>16, <1>17, AllPut
<1> QED BY <1>8, <1>18

LEMMA InitLocal ==
  ASSUME Init, NEW c \in Config, Outset(c), NEW i \in Chare, \A x \in DGKind : Arrived(c, x, i) = {}
  PROVE  Local(c, i) /\ Fits(c, c.of[i])
<1> DEFINE p == c.of[i]
<1>1. p.at = 0 /\ p.diag = 0 /\ p.ref = 0 /\ p.vol = 0 /\ ~ p.req /\ ~ p.sent BY DEF Outset
<1>2. c.it = 0 /\ c.st = 0 /\ c.phase = 0 /\ c.mesh = 0 /\ ~ c.disc /\ ~ c.work /\ ~ c.diagnosed BY DEF Outset
<1>3. /\ it[i] = 0 /\ itr[i] = 0 /\ ~ finished /\ stage[i] = 0 /\ used[i] = {} /\ bndFace[i] = {} /\ ghostData[i] = {}
      /\ ghost[i] = <<>> /\ usol[i] = {} /\ ulim[i] = {}
  BY DEF Init, DiscretizationInit
<1>4. \A a \in Array : contrib[a][i] = <<>> BY DEF Init, DiscretizationInit, CharmInit
<1>5. \A t \in Trigger : trigger[i][t] = 0 BY ObjectFacts DEF Init, DiscretizationInit, CharmInit
<1>6. /\ Arrived(c, "fac", i) = {} /\ Arrived(c, "req", i) = {} /\ Arrived(c, "ghost", i) = {}
      /\ Arrived(c, "sol", i) = {} /\ Arrived(c, "lim", i) = {}
  BY CallTypes
<1>p. p = c.of[i] OBVIOUS
<1> HIDE DEF p
<1>7. ~ Made(c, p) /\ Base(c) = 0 BY <1>2, MeshFacts DEF Made, Base
<1>8. Counters(c, i) BY <1>1, <1>2, <1>3, <1>7, <1>p DEF Counters
<1>9. Contribution(c, i)
  <2>1. WorkerPart(c, p) = <<>> BY <1>1, WorkerParts
  <2>2. <<>> \in DiscParts(c, p) BY <1>1 DEF DiscParts
  <2>3. <<>> \in Seq({"sync"}) OBVIOUS
  <2>4. contrib["worker"][i] = <<>> /\ contrib["disc"][i] = <<>> /\ contrib["refiner"][i] = <<>> /\ contrib["sync"][i] = <<>>
    BY <1>4, Arrays DEF ArrayIs
  <2>5. p.ref # 1 /\ ~ (p.vol \in {1, 2}) /\ p.at # 21 BY <1>1
  <2> QED BY <1>3, <1>p, <2>1, <2>2, <2>3, <2>4, <2>5 DEF Contribution
<1>10. Signalled(c, i) BY <1>1, <1>5, <1>p, TriggersAre DEF Signalled
<1>11. Maps(c, i)
  <2>1. Asking(c, p) /\ ~ OverAt(c, p, "fac") BY <1>1, <1>2, SentFacts DEF Asking
  <2>2. DOMAIN ghost[i] = {} BY <1>3
  <2>3. ghostData[i] = IF {} = Nbr[i] THEN Fac[i] ELSE {} BY <1>3, NbrFacts
  <2> QED BY <1>1, <1>3, <1>6, <1>p, <2>1, <2>2, <2>3 DEF Maps
<1>12. Ghosts(c, i) BY <1>1, <1>3, <1>p DEF Ghosts
<1>13. Updated(c, i) BY <1>3 DEF Updated
<1>14. Fits(c, p) BY <1>1, <1>2, <1>7 DEF Fits
<1> QED BY <1>8, <1>9, <1>10, <1>11, <1>12, <1>13, <1>14, <1>p DEF Local

LEMMA InitTraded ==
  ASSUME Init, NEW c \in Config, Outset(c), NEW x \in DGKind
  PROVE  Traded(c, x) /\ \A i \in Chare : Arrived(c, x, i) = {}
<1>1. Letters(x) = {}
  <2>1. "create" # CallOf[x] BY CallTypes
  <2>2. \A m \in msgs : m.type = "create" BY DEF Init, DiscretizationInit, CharmInit, Broadcast
  <2> QED BY <2>1, <2>2 DEF Letters
<1>2. \A i \in Chare : count[i][x] = 0 BY DGDefines DEF Init, DiscretizationInit
<1>3. ASSUME NEW j \in Chare PROVE ~ SentAt(c, c.of[j], x) /\ ~ OverAt(c, c.of[j], x)
  <2> DEFINE p == c.of[j]
  <2>1. p.at = 0 /\ p.vol = 0 /\ ~ p.req /\ ~ p.sent /\ c.phase = 0 /\ c.mesh = 0 BY DEF Outset
  <2> HIDE DEF p
  <2>2. ~ SentAt(c, p, x) /\ ~ OverAt(c, p, x) BY <2>1, SentFacts, CallTypes
  <2> QED BY <2>2 DEF p
<1>4. \A i \in Chare : \A j : j \notin Arrived(c, x, i)
  <2>1. \A i \in Chare : From(x, i) \subseteq Chare BY FromFacts
  <2> QED BY <1>3, <2>1, ArrivedIs
<1>5. \A i \in Chare : Arrived(c, x, i) = {} BY <1>4
<1>6. Cardinality({}) = 0 BY FS_EmptySet
<1> QED BY <1>1, <1>2, <1>3, <1>5, <1>6 DEF Traded

\* The run starts in a configuration.
LEMMA InitConfigured == Init => Configured
<1> SUFFICES ASSUME Init PROVE Configured
  OBVIOUS
<1> DEFINE f == [i \in Chare |-> [at |-> 0, diag |-> 0, ref |-> 0, vol |-> 0, req |-> FALSE, sent |-> FALSE]]
           c == [it |-> 0, st |-> 0, phase |-> 0, mesh |-> 0, disc |-> FALSE, work |-> FALSE, diagnosed |-> FALSE,
                 of |-> f]
<1>1. f \in [Chare -> Point] BY DEF Point
<1>2. c \in Config BY <1>1 DEF Config
<1>3. Outset(c) BY DEF Outset
<1> HIDE DEF c, f
<1>4. \A x \in DGKind : Traded(c, x) /\ \A i \in Chare : Arrived(c, x, i) = {} BY <1>2, <1>3, InitTraded
<1>5. \A i \in Chare : Local(c, i) /\ Fits(c, c.of[i]) BY <1>2, <1>3, <1>4, InitLocal
<1>6. Together(c) BY <1>3, ConstantFacts DEF Outset, Together
<1>7. HostSignals(c) BY <1>3, TriggersAre, ObjectFacts DEF Outset, HostSignals, Init, DiscretizationInit, CharmInit
<1>8. Expects(c)
  <2>1. \A m \in msgs : \E i \in Chare : m = [type |-> "create", to |-> i]
    BY DEF Init, DiscretizationInit, CharmInit, Broadcast
  <2>2. \A i \in Chare : c.of[i].at = 0 BY <1>3 DEF Outset
  <2>3. ASSUME NEW m \in msgs
        PROVE  m.to \in Chare /\ Plain(m) /\ Due(c.of[m.to], m)
    <3>1. PICK i \in Chare : m = [type |-> "create", to |-> i] BY <2>1
    <3>2. m.type = "create" /\ m.to = i BY <3>1
    <3> QED BY <2>2, <3>1, <3>2 DEF Due
  <2> QED BY <2>3 DEF Expects
<1>9. Shape
  <2>1. /\ it \in [Chare -> Nat] /\ itr \in [Chare -> Nat] /\ stage \in [Chare -> Nat] /\ finished \in BOOLEAN
        /\ refined \in [Chare -> BOOLEAN]
        /\ bndFace = [i \in Chare |-> bndFace[i]] /\ ghostData = [i \in Chare |-> ghostData[i]]
        /\ ghost = [i \in Chare |-> ghost[i]] /\ used = [i \in Chare |-> used[i]]
        /\ usol = [i \in Chare |-> usol[i]] /\ ulim = [i \in Chare |-> ulim[i]]
    BY DEF Init, DiscretizationInit
  <2>2. count \in [Chare -> [DGKind -> Nat]] BY DGDefines DEF Init, DiscretizationInit
  <2>3. trigger \in [Object -> [Trigger -> Int]] /\ contrib = [a \in Array |-> [i \in Chare |-> contrib[a][i]]]
    BY DEF Init, DiscretizationInit, CharmInit
  <2> QED BY <2>1, <2>2, <2>3 DEF Shape
<1>10. ~ finished BY DEF Init, DiscretizationInit
<1> QED BY <1>2, <1>4, <1>5, <1>6, <1>7, <1>8, <1>9, <1>10 DEF Configured, DGInv, Levels

LEMMA CallKeeps ==
  ASSUME NEW c \in Config, DGInv(c), NEW m \in msgs, DGCall(m.to, m)
  PROVE  Configured'
<1> DEFINE i == m.to
<1>1. i = m.to /\ DGCall(i, m) OBVIOUS
<1>2. ASSUME DGInv(c)' \/ \E d \in Config : DGInv(d)' PROVE Configured' BY <1>2 DEF Configured
<1> HIDE DEF i
<1>3. CASE Create(i, m) BY <1>1, <1>2, <1>3, CreateKeeps
<1>4. CASE Comfac(i, m) BY <1>1, <1>2, <1>4, ComfacKeeps
<1>5. CASE ReqGhost(i, m) BY <1>1, <1>2, <1>5, ReqGhostKeeps
<1>6. CASE ComGhost(i, m) BY <1>1, <1>2, <1>6, ComGhostKeeps
<1>7. CASE Setup(i, m) \/ Start(i, m) BY <1>1, <1>2, <1>7, SetupKeeps
<1>8. CASE SendInit(i, m) \/ Advance(i, m) BY <1>1, <1>2, <1>8, SendInitKeeps
<1>9. CASE ComInit(i, m) \/ ComSol(i, m) \/ ComLim(i, m) BY <1>1, <1>2, <1>9, ComKeeps
<1>10. CASE Solve(i, m) BY <1>1, <1>2, <1>10, SolveKeeps
<1>11. CASE SolveLast(i, m) BY <1>1, <1>2, <1>11, SolveLastKeeps
<1>12. CASE Diag(i, m) \/ Resized(i, m) BY <1>1, <1>2, <1>12, SignalKeeps
<1>13. CASE Eval(i, m) BY <1>1, <1>2, <1>13, EvalKeeps
<1>14. CASE Lhs(i, m) BY <1>1, <1>2, <1>14, LhsCallKeeps
<1>15. CASE Written(i, m) BY <1>1, <1>2, <1>15, WrittenKeeps
<1>16. CASE ResumeFromSync(i, m) BY <1>1, <1>2, <1>16, ResumeKeeps, ResumeRemains
<1> QED BY <1>1, <1>3, <1>4, <1>5, <1>6, <1>7, <1>8, <1>9, <1>10, <1>11, <1>12, <1>13, <1>14, <1>15, <1>16 DEF DGCall

LEMMA SharedKeeps ==
  ASSUME NEW c \in Config, DGInv(c), DiscretizationNext, UNCHANGED dgVars
  PROVE  Configured'
<1>1. ASSUME DGInv(c)' \/ \E d \in Config : DGInv(d)' PROVE Configured' BY <1>1 DEF Configured
<1>2. ASSUME NEW m \in msgs, DiscretizationCall(m.to, m) PROVE Configured'
  <2> DEFINE i == m.to
  <2>1. i = m.to /\ DiscretizationCall(i, m) BY <1>2
  <2> HIDE DEF i
  <2>2. CASE Vol(i, m) BY <1>1, <2>1, <2>2, VolKeeps
  <2>3. CASE Comvol(i, m) BY <1>1, <2>1, <2>3, ComvolKeeps
  <2>4. CASE TotalVol(i, m) BY <1>1, <2>1, <2>4, TotalVolKeeps
  <2>5. CASE Write(i, m) BY <1>1, <2>1, <2>5, WriteKeeps
  <2> QED BY <2>1, <2>2, <2>3, <2>4, <2>5 DEF DiscretizationCall
<1>3. CASE Matched BY <1>1, <1>3, MatchedKeeps
<1>4. CASE Discresized \/ Workresized BY <1>1, <1>4, NotesKeep
<1>5. CASE TransporterVol \/ TransporterTotalvol BY <1>1, <1>5, VolumesKeep
<1>6. CASE Sync BY <1>1, <1>6, SyncRemains, SyncResumes
<1>7. CASE Posting
  <2>1. UNCHANGED <<msgs, trigger, contrib, finished, held>>
    BY <1>7 DEF Posting, Post, held, stepVars, nodeVars, dgVars, stageVars, meshVars, cellVars
  <2> QED BY <1>1, <2>1, PostingKeeps
<1> QED BY <1>2, <1>3, <1>4, <1>5, <1>6, <1>7 DEF DiscretizationNext

\* Every step leads to a configuration.
LEMMA NextConfigured == Configured /\ [Next]_vars => Configured'
<1> SUFFICES ASSUME Configured, [Next]_vars PROVE Configured'
  OBVIOUS
<1>1. PICK c \in Config : DGInv(c) BY DEF Configured
<1>2. ASSUME DGInv(c)' \/ \E d \in Config : DGInv(d)' PROVE Configured' BY <1>2 DEF Configured
<1>3. CASE DiscretizationNext /\ UNCHANGED dgVars BY <1>1, <1>3, SharedKeeps
<1>4. ASSUME NEW m \in msgs, DGCall(m.to, m) PROVE Configured' BY <1>1, <1>4, CallKeeps
<1>5. ASSUME NEW i \in Chare, SendGhost(i) \/ LimitIC(i) \/ Lim(i) \/ Dt(i) \/ RecompGhostRefined(i)
      PROVE  Configured'
  <2>1. CASE SendGhost(i) BY <1>1, <1>2, <2>1, SendGhostKeeps
  <2>2. CASE LimitIC(i) BY <1>1, <1>2, <2>2, LimitICKeeps
  <2>3. CASE Lim(i) \/ Dt(i) BY <1>1, <1>2, <2>3, LimKeeps
  <2>4. CASE RecompGhostRefined(i) BY <1>1, <1>2, <2>4, RefinedKeeps, SameMeshKeeps
  <2> QED BY <1>5, <2>1, <2>2, <2>3, <2>4
<1>6. CASE Comfinal \/ Sendinit BY <1>1, <1>2, <1>6, ComfinalKeeps
<1>7. CASE TransporterAdvance BY <1>1, <1>2, <1>7, AheadKeeps
<1>8. CASE MinDt BY <1>1, <1>2, <1>8, MinDtKeeps
<1>9. CASE MeshResized BY <1>1, <1>2, <1>9, MeshResizedKeeps
<1>10. CASE Diagnosed BY <1>1, <1>2, <1>10, DiagnosedKeeps
<1>11. CASE End BY <1>1, <1>2, <1>11, EndKeeps
<1>12. CASE (Exit /\ UNCHANGED dgVars) \/ UNCHANGED vars
  <2>1. UNCHANGED <<msgs, trigger, contrib, finished, held>>
    BY <1>12 DEF Exit, vars, discVars, charmVars, held, stepVars, nodeVars, dgVars, stageVars, meshVars, cellVars
  <2> QED BY <1>1, <1>2, <2>1, PostingKeeps
<1> QED BY <1>3, <1>4, <1>5, <1>6, <1>7, <1>8, <1>9, <1>10, <1>11, <1>12 DEF Next

\* Every state of a run is in a configuration of it: where the chares are relative to each other, and what they have
\* sent, received and signalled there (all of DG.C, Discretization.C and the targets of Transporter.C they use).
THEOREM DGInvHolds == Spec => []Configured
  BY InitConfigured, NextConfigured, PTL DEF Spec

\* A call about ghosts finds its sender.
LEMMA SendersFit ==
  ASSUME NEW c, DGInv(c)
  PROVE  SenderKnown
<1> SUFFICES ASSUME NEW m \in msgs
             PROVE  /\ m.type \in {"comfac", "reqGhost", "comGhost", "cominit", "comsol", "comlim"} => m.itr = itr[m.to]
                    /\ m.type = "comGhost" => m.from \in bndFace[m.to]
                    /\ m.type \in {"cominit", "comsol", "comlim"} => m.from \in DOMAIN ghost[m.to]
  BY DEF SenderKnown
<1> DEFINE i == m.to
<1>i. i = m.to OBVIOUS
<1> HIDE DEF i
<1>1. ASSUME NEW x \in Faces, m.type = CallOf[x]
      PROVE  m.itr = itr[i] /\ (x = "ghost" => m.from \in bndFace[i])
  <2>1. /\ i \in Chare /\ AskAt(c, i) /\ ~ OverAt(c, c.of[i], x) /\ m.itr = itr[i]
        /\ \E j \in From(x, i) : SentAt(c, c.of[j], x) /\ j \notin Arrived(c, x, i) /\ m = Letter(c, x, j, i)
    BY <1>1, <1>i, AskSender
  <2>2. CASE x = "ghost"
    <3>1. PICK j \in Fac[i] : SentAt(c, c.of[j], "ghost") /\ j \notin Arrived(c, "ghost", i) /\ m = Letter(c, "ghost", j, i)
      BY <2>1, <2>2 DEF From
    <3>2. m.from = j BY <3>1 DEF Letter
    <3>3. c.of[j].sent /\ j \in Chare /\ j \in Nbr[i] BY <2>1, <3>1, SentFacts, NbrFacts
    <3>4. c.of[i].req BY <2>1, <3>3, SentFrom
    <3>5. Maps(c, i) BY <2>1, PartsOf
    <3>6. Arrived(c, "fac", i) = Nbr[i] BY <3>4, <3>5 DEF Maps
    <3>7. Asking(c, c.of[i])
      <4>1. c.of[i].at \notin {2, 17}
        <5>1. c.of[i].at \in {2, 17} => Arrived(c, "ghost", i) = Fac[i] BY <3>5 DEF Maps
        <5> QED BY <3>1, <5>1
      <4>2. c.of[i].at \in 0 .. 24 BY <2>1, PartsOf, ConfigIs
      <4> DEFINE p == c.of[i]
      <4>3. p.at \notin {2, 17} /\ p.at \in 0 .. 24 /\ (c.mesh = 0 => p.at \in 0 .. 2) /\ (c.mesh # 0 => p.at \in 15 .. 17 /\ p.ref = 3)
        BY <2>1, <4>1, <4>2 DEF AskAt
      <4> HIDE DEF p
      <4>4. Asking(c, p) BY <4>3 DEF Asking
      <4> QED BY <4>4 DEF p
    <3>8. bndFace[i] = Nbr[i] \cap Fac[i] BY <3>5, <3>6, <3>7 DEF Maps
    <3> QED BY <2>1, <3>1, <3>2, <3>3, <3>8
  <2> QED BY <2>1, <2>2
<1>2. ASSUME NEW x \in {"init", "sol", "lim"}, m.type = CallOf[x]
      PROVE  m.itr = itr[i] /\ m.from \in DOMAIN ghost[i]
  <2>1. /\ i \in Chare /\ c.mesh = 0 /\ m.itr = Base(c)
        /\ \E j \in Fac[i] : j \notin Arrived(c, x, i) /\ m = Letter(c, x, j, i)
        /\ x = "init" => c.phase = 2 /\ c.of[i].at \in 5 .. 6
        /\ x = "sol" => c.phase = 3 /\ c.of[i].at \in 10 .. 11
        /\ x = "lim" => c.phase = 3 /\ c.of[i].at \in 10 .. 12
    BY <1>2, <1>i, CellSender
  <2> DEFINE p == c.of[i]
  <2>2. Maps(c, i) /\ Fits(c, p) /\ Counters(c, i) /\ p = c.of[i] BY <2>1, PartsOf
  <2>3. p.at \in 5 .. 12 BY <1>2, <2>1
  <2> HIDE DEF p
  <2>4. ~ Made(c, p) BY <2>3 DEF Made
  <2>5. p.ref = 0 /\ ~ Asking(c, p) BY <2>2, <2>3, <2>4 DEF Fits, Asking
  <2>6. itr[i] = Base(c) /\ DOMAIN ghost[i] = Fac[i] BY <2>2, <2>5 DEF Maps, Counters
  <2>7. PICK j \in Fac[i] : m = Letter(c, x, j, i) BY <2>1
  <2>8. m.from = j BY <1>2, <2>7 DEF Letter
  <2> QED BY <2>1, <2>6, <2>7, <2>8
<1> QED BY <1>1, <1>2, <1>i, CallTypes

\* A call with faces or cells is about the mesh its receiver has, and the receiver knows its sender: as one it shares
\* faces with when ghosts arrive, as one it has the ghosts of when cells arrive (DG::comfac, reqGhost, comGhost,
\* cominit, comsol, comlim).
THEOREM SendersKnown == Spec => []SenderKnown
<1>1. Configured => SenderKnown BY SendersFit DEF Configured
<1> QED BY <1>1, DGInvHolds, PTL

\* An update uses the solution and limiter function of all chares sharing faces, computed in its stage and step on its
\* mesh: none is late, of the stage before, or early (DG::comsol, comlim, lim, dt, solve).
THEOREM UpdatesCurrent == Spec => []GhostsCurrent
<1>1. Configured => GhostsCurrent
  <2> SUFFICES ASSUME Configured PROVE GhostsCurrent
    OBVIOUS
  <2>1. PICK c \in Config : DGInv(c) BY DEF Configured
  <2>2. \A i \in Chare : Updated(c, i) BY <2>1, PartsOf
  <2> QED BY <2>2 DEF Updated, GhostsCurrent
<1> QED BY <1>1, DGInvHolds, PTL

-----------------------------------------------------------------------------
\* A chare that is called to update its solution.
LEMMA SolvesAt ==
  ASSUME NEW c, DGInv(c), NEW m \in msgs, m.type = "solve", NEW i, i = m.to
  PROVE  i \in Chare /\ c.of[i].at = 14
<1>1. m.type # "write" /\ \A x \in DGKind : m.type # CallOf[x] BY CallTypes
<1>2. i \in Chare /\ Due(c.of[i], m) BY <1>1, PlainCall
<1> QED BY <1>2 DEF Due

\* What a chare that updates its solution used last.
LEMMA UpdateFollows ==
  ASSUME NEW c, DGInv(c), NEW m \in msgs, NEW i, i = m.to, m.type = "solve", Update(i), NEW k \in Chare,
         NEW s \in used[k], NEW t \in used'[k], s # t
  PROVE  StageFollows(s, t)
<1>1. i \in Chare /\ c.of[i].at = 14 BY SolvesAt
<1>2. it[i] = c.it /\ stage[i] = c.st BY <1>1, AtSolve
<1>3. Updated(c, k) /\ used = [j \in Chare |-> used[j]] BY PartsOf DEF Shape
<1>4. used' = [used EXCEPT ![i] = {[sol |-> usol[i], lim |-> ulim[i], it |-> it[i], stage |-> stage[i], itr |-> itr[i]]}]
  BY DEF Update
<1>5. CASE k # i
  <2>1. used'[k] = used[k] BY <1>3, <1>4, <1>5
  <2> QED BY <1>3, <2>1 DEF Updated
<1>6. CASE k = i
  <2>1. used'[i] = {[sol |-> usol[i], lim |-> ulim[i], it |-> it[i], stage |-> stage[i], itr |-> itr[i]]}
    BY <1>1, <1>3, <1>4
  <2>2. t.it = c.it /\ t.stage = c.st BY <1>2, <1>6, <2>1
  <2>3. StageFollows(s, [it |-> c.it, stage |-> c.st]) BY <1>1, <1>3, <1>6 DEF Updated
  <2> QED BY <2>2, <2>3 DEF StageFollows
<1> QED BY <1>5, <1>6

\* Nothing but the last update of a stage is replaced, by one of the next.
LEMMA NextFollows == Configured /\ [Next]_vars => [Follows]_vars
<1> SUFFICES ASSUME Configured, [Next]_vars PROVE Follows
  OBVIOUS
<1>1. PICK c \in Config : DGInv(c) BY DEF Configured
<1>2. used' = used => Follows
  <2>1. \A i \in Chare : \A s, t \in used[i] : s = t BY <1>1, PartsOf DEF Updated
  <2> QED BY <2>1 DEF Follows
<1>3. ASSUME NEW m \in msgs, DGCall(m.to, m) PROVE Follows
  <2> DEFINE i == m.to
  <2>1. i = m.to /\ DGCall(i, m) BY <1>3
  <2> HIDE DEF i
  <2>2. CASE Solve(i, m) \/ SolveLast(i, m)
    <3>1. m.type = "solve" /\ Update(i) BY <2>2 DEF Solve, SolveLast, Is
    <3> QED BY <1>1, <2>1, <3>1, UpdateFollows DEF Follows
  <2>3. CASE ~ (Solve(i, m) \/ SolveLast(i, m))
    <3>1. used' = used
      BY <2>1, <2>3 DEF DGCall, Create, Comfac, ReqGhost, ComGhost, Setup, SendInit, ComInit, Start, Advance, ComSol,
           ComLim, Diag, Resized, Eval, Lhs, Written, ResumeFromSync, dgVars, stageVars
    <3> QED BY <1>2, <3>1
  <2> QED BY <2>2, <2>3
<1>4. ASSUME NEW i \in Chare, SendGhost(i) \/ LimitIC(i) \/ Lim(i) \/ Dt(i) \/ RecompGhostRefined(i) PROVE Follows
  <2>1. used' = used BY <1>4 DEF SendGhost, LimitIC, Lim, Dt, RecompGhostRefined, dgVars, stageVars
  <2> QED BY <1>2, <2>1
<1>5. ASSUME \/ DiscretizationNext /\ UNCHANGED dgVars
             \/ Comfinal \/ Sendinit \/ TransporterAdvance \/ MinDt \/ MeshResized \/ Diagnosed \/ End
             \/ Exit /\ UNCHANGED dgVars
             \/ UNCHANGED vars
      PROVE  Follows
  <2>1. used' = used
    BY <1>5 DEF Comfinal, Sendinit, TransporterAdvance, MinDt, MeshResized, Diagnosed, End, vars, dgVars, stageVars
  <2> QED BY <1>2, <2>1
<1> QED BY <1>3, <1>4, <1>5 DEF Next

\* The updates of a chare are those of the stages 0, 1, 2 of one step after the other: none is repeated or left out
\* (DG::solve, stage, step, recompGhostRefined, lhs).
THEOREM StagesAdvance == Spec => StagesInOrder
<1>1. Configured /\ [Next]_vars => [Follows]_vars BY NextFollows
<1>2. Spec => [][Follows]_vars BY <1>1, DGInvHolds, PTL DEF Spec
<1> QED BY <1>2 DEF StagesInOrder, Follows

\* The step and mesh of a chare.
LEMMA WhereIs ==
  ASSUME NEW c, DGInv(c), NEW i \in Chare
  PROVE  /\ c.it \in Nat /\ c.it < NStep
         /\ Made(c, c.of[i]) => it[i] = Now(c)
         /\ ~ Made(c, c.of[i]) => it[i] = c.it /\ itr[i] = MeshOf(c.it)
         /\ Made(c, c.of[i]) /\ c.of[i].ref # 3 => itr[i] = Base(c)
         /\ c.of[i].ref = 3 => itr[i] = Base(c) + 1 /\ Renews(c)
         /\ c.mesh > 0 => Made(c, c.of[i])
<1> DEFINE p == c.of[i]
<1>1. Fits(c, p) /\ Counters(c, i) /\ Together(c) /\ c.it \in Nat /\ p = c.of[i] BY PartsOf, ConfigIs
<1> HIDE DEF p
<1>2. ~ Made(c, p) => p.ref = 0 BY <1>1 DEF Fits
<1>3. p.ref = 3 => Renews(c) BY <1>1 DEF Fits
<1>4. c.mesh > 0 => Made(c, p) BY <1>1 DEF Fits
<1> QED BY <1>1, <1>2, <1>3, <1>4 DEF Counters, Base, Together

LEMMA NextMesh ==
  ASSUME NEW c, DGInv(c)
  PROVE  /\ Now(c) \in Nat \ {0}
         /\ Renews(c) => MeshOf(Now(c)) = Base(c) + 1
         /\ ~ Renews(c) => MeshOf(Now(c)) = Base(c)
         /\ Base(c) \in Nat
<1>1. c.it \in Nat BY PartsOf, ConfigIs
<1>2. Now(c) \in Nat \ {0} /\ Now(c) - 1 = c.it BY <1>1 DEF Now
<1>3. Base(c) = MeshOf(Now(c) - 1) /\ Base(c) \in Nat BY <1>1, <1>2, MeshFacts DEF Base
<1> QED BY <1>2, <1>3, MeshFacts DEF Renews

\* The step of a chare that updates its solution for the last time.
LEMMA SolveLastSteps ==
  ASSUME NEW c, DGInv(c), NEW m \in msgs, NEW i, i = m.to, SolveLast(i, m)
  PROVE  i \in Chare /\ Bulk!Step(i)
<1>1. m.type = "solve" /\ it' = [it EXCEPT ![i] = @ + 1] /\ itr' = itr /\ finished' = finished BY DEF SolveLast, Is
<1>2. i \in Chare /\ c.of[i].at = 14 BY <1>1, SolvesAt
<1>3. it[i] = c.it BY <1>2, AtSolve
<1>4. \A j \in Chare : it[j] >= it[i] /\ (it[j] = it[i] => itr[j] = MeshOf(it[i]))
  <2>1. ASSUME NEW j \in Chare PROVE it[j] >= it[i] /\ (it[j] = it[i] => itr[j] = MeshOf(it[i]))
    BY <1>3, WhereIs DEF Now
  <2> QED BY <2>1
<1>5. it[i] < NStep BY <1>2, <1>3, WhereIs
<1> QED BY <1>1, <1>2, <1>4, <1>5 DEF Bulk!Step

\* The new mesh of a chare.
LEMMA EvalRemeshes ==
  ASSUME NEW c, DGInv(c), NEW m \in msgs, NEW i, i = m.to, Eval(i, m)
  PROVE  i \in Chare /\ Bulk!Remesh(i)
<1>1. m.type = "eval" /\ itr' = [itr EXCEPT ![i] = @ + 1] /\ it' = it /\ finished' = finished BY DEF Eval, Is, Resize
<1>2. i \in Chare /\ c.of[i].ref = 2
  <2>1. m.type # "write" /\ \A x \in DGKind : m.type # CallOf[x] BY <1>1, CallTypes
  <2>2. i \in Chare /\ Due(c.of[i], m) BY <2>1, PlainCall
  <2> QED BY <1>1, <2>2 DEF Due
<1>3. c.mesh = 1 /\ Renews(c) /\ Made(c, c.of[i]) BY <1>2, AtTheEnd
<1>4. \A j \in Chare : it[j] = Now(c) BY <1>3, WhereIs
<1>5. itr[i] = Base(c) /\ MeshOf(Now(c)) = Base(c) + 1 /\ Base(c) \in Nat BY <1>2, <1>3, WhereIs, NextMesh
<1>6. itr[i] < MeshOf(it[i]) BY <1>2, <1>4, <1>5
<1> QED BY <1>1, <1>2, <1>4, <1>6 DEF Bulk!Remesh

\* The end of the run.
LEMMA EndFinishes ==
  ASSUME NEW c, DGInv(c), End
  PROVE  Bulk!Finish
<1>1. /\ \A i \in Chare : contrib["worker"][i] # <<>> /\ Head(contrib["worker"][i]) = "finish"
      /\ finished' = TRUE /\ it' = it /\ itr' = itr
  BY DEF End, Finish, Reduce
<1>2. \A i \in Chare : ~ finished /\ c.of[i].at = 24 BY <1>1, HeadWorker
<1>3. ~ finished BY <1>2, ConstantFacts
<1>4. ASSUME NEW i \in Chare PROVE it[i] = NStep /\ itr[i] = MeshOf(NStep)
  <2> DEFINE p == c.of[i]
  <2>1. Fits(c, p) /\ Together(c) /\ p.at = 24 /\ p = c.of[i] /\ c.phase \in {0, 1, 2, 3, 4} /\ c.mesh \in 0 .. 5
    BY <1>2, PartsOf, ConfigIs
  <2> HIDE DEF p
  <2>2. p.at \in CASE c.phase = 0 -> 0 .. 2 [] c.phase = 1 -> 3 .. 4 [] c.phase = 2 -> 5 .. 9
                   [] c.phase = 3 -> 10 .. 13 [] OTHER -> IF c.st = 2 THEN 14 .. 24 ELSE {14, 22}
    BY <2>1 DEF Fits
  <2>3. c.phase = 4 /\ c.st = 2 BY <2>1, <2>2
  <2>4. Made(c, p) BY <2>1, <2>3 DEF Made
  <2>5. Now(c) = NStep BY <2>1 DEF Fits
  <2>6. Renews(c) => p.vol = 6 /\ c.mesh = 5 BY <2>1, <2>4 DEF Fits
  <2>7. Renews(c) => p.ref = 3 BY <2>1, <2>6 DEF Fits
  <2>8. it[i] = NStep /\ (Renews(c) => itr[i] = Base(c) + 1) /\ (~ Renews(c) => itr[i] = Base(c))
    BY <2>1, <2>4, <2>5, <2>7, WhereIs
  <2> QED BY <2>5, <2>8, NextMesh
<1> QED BY <1>1, <1>3, <1>4 DEF Bulk!Finish

\* What all chares do together is a bulk step, or none is visible.
LEMMA NextSteps ==
  ASSUME Configured, [Next]_vars
  PROVE  [Bulk!Next]_(Bulk!vars)
<1>1. PICK c \in Config : DGInv(c) BY DEF Configured
<1>2. UNCHANGED <<it, itr, finished>> => UNCHANGED Bulk!vars BY DEF Bulk!vars
<1>3. ASSUME NEW m \in msgs, DGCall(m.to, m) PROVE [Bulk!Next]_(Bulk!vars)
  <2> DEFINE i == m.to
  <2>1. i = m.to /\ DGCall(i, m) BY <1>3
  <2> HIDE DEF i
  <2>2. CASE Eval(i, m) BY <1>1, <2>1, <2>2, EvalRemeshes DEF Bulk!Next
  <2>3. CASE SolveLast(i, m) BY <1>1, <2>1, <2>3, SolveLastSteps DEF Bulk!Next
  <2>4. CASE ~ (Eval(i, m) \/ SolveLast(i, m))
    <3>1. UNCHANGED <<it, itr, finished>>
      BY <2>1, <2>4 DEF DGCall, Create, Comfac, ReqGhost, ComGhost, Setup, SendInit, ComInit, Start, Advance, ComSol,
           ComLim, Solve, Diag, Resized, Signal, Lhs, Written, ResumeFromSync, Resume, stepVars
    <3> QED BY <1>2, <3>1
  <2> QED BY <2>2, <2>3, <2>4
<1>4. ASSUME NEW i \in Chare, SendGhost(i) \/ LimitIC(i) \/ Lim(i) \/ Dt(i) \/ RecompGhostRefined(i)
      PROVE  [Bulk!Next]_(Bulk!vars)
  <2>1. UNCHANGED <<it, itr, finished>> BY <1>4 DEF SendGhost, LimitIC, Lim, Dt, RecompGhostRefined, stepVars
  <2> QED BY <1>2, <2>1
<1>5. CASE End BY <1>1, <1>5, EndFinishes DEF Bulk!Next
<1>6. ASSUME Comfinal \/ Sendinit \/ TransporterAdvance \/ MinDt \/ MeshResized \/ Diagnosed
      PROVE  [Bulk!Next]_(Bulk!vars)
  <2>1. UNCHANGED <<it, itr, finished>>
    BY <1>6 DEF Comfinal, Sendinit, TransporterAdvance, MinDt, MeshResized, Diagnosed, TransporterResized,
         TransporterDiagnostics, Target, stepVars
  <2> QED BY <1>2, <2>1
<1>7. ASSUME DiscretizationNext PROVE [Bulk!Next]_(Bulk!vars)
  <2>1. UNCHANGED <<it, itr, finished>>
    BY <1>7 DEF DiscretizationNext, DiscretizationCall, Vol, Comvol, Receive, TotalVol, Write, Matched, Discresized,
         Workresized, TransporterVol, TransporterTotalvol, Sync, Posting, Target, stepVars
  <2> QED BY <1>2, <2>1
<1>8. Exit \/ UNCHANGED vars => UNCHANGED <<it, itr, finished>> BY DEF Exit, vars, discVars, stepVars
<1> QED BY <1>2, <1>3, <1>4, <1>5, <1>6, <1>7, <1>8 DEF Next

\* Chares make time steps, of three stages each, and refine their meshes together: none makes a step while another is
\* behind or lacks the mesh of that step, the mesh changes only between two steps, and the run ends after the last
\* (DG::solve, resizeAfterRefined, step; Transporter::advance, matched, finish).
THEOREM StepsTogether == Spec => ImplementsBulkSteps
<1>1. Init => Bulk!Init BY DEF Init, DiscretizationInit, Bulk!Init
<1>2. Configured /\ [Next]_vars => [Bulk!Next]_(Bulk!vars) BY NextSteps
<1> QED BY <1>1, <1>2, DGInvHolds, PTL DEF Spec, ImplementsBulkSteps, Bulk!Spec
=============================================================================
