---------------------------- MODULE StepsProofs -----------------------------
(***************************************************************************)
(* What keeps StepsInvariant, first part. Exchanges of contributions: what *)
(* handlers do to one when chares send theirs, take those of others, start *)
(* to take them and are done with them. Then what the configurations say of*)
(* each kind of contributions, and the handlers that leave a chare in its  *)
(* stage or take it through the end of a step, and the reductions of the   *)
(* Transporter. A handler's effect on the fields that differ between the   *)
(* schemes is left open; what it does with the configuration is part of    *)
(* what is proved.                                                         *)
(***************************************************************************)
EXTENDS StepsInvariant, FiniteSetTheorems, TLAPS

-----------------------------------------------------------------------------
\* The Transporter is no element of an array.
LEMMA ObjectFacts == Chare \subseteq Object /\ Host \in Object /\ Host \notin Chare
  BY CharmAssumption DEF Object, Chare, Host

\* What the effects do.
LEMMA EffectFacts ==
  /\ Nothing.calls = {} /\ Nothing.triggers = {} /\ \A a : TargetsOn(a, Nothing) = <<>>
  /\ \A s : Posts(s).calls = {} /\ Posts(s).triggers = {} /\ \A a : TargetsOn(a, Posts(s)) = <<>>
  /\ \A s : Triggers(s).calls = {} /\ Triggers(s).triggers = s /\ \A a : TargetsOn(a, Triggers(s)) = <<>>
  /\ \A s : Calls(s).calls = s /\ Calls(s).triggers = {} /\ \A a : TargetsOn(a, Calls(s)) = <<>>
  /\ \A b, r : /\ Contributes(b, r).calls = {} /\ Contributes(b, r).triggers = {}
               /\ \A a : TargetsOn(a, Contributes(b, r)) = IF a = b THEN <<r>> ELSE <<>>
  BY DEF Nothing, Posts, Triggers, Calls, Contributes, TargetsOn

\* One after the other.
LEMMA ThenFacts ==
  ASSUME NEW d, NEW e
  PROVE  /\ (d ++ e).calls = d.calls \cup e.calls
         /\ (d ++ e).triggers = d.triggers \cup e.triggers
         /\ \A a : TargetsOn(a, d ++ e) = TargetsOn(a, d) \o TargetsOn(a, e)
  <1>1. (d ++ e).calls = d.calls \cup e.calls /\ (d ++ e).triggers = d.triggers \cup e.triggers
    BY DEF ++
  <1>2. ASSUME NEW a PROVE TargetsOn(a, d ++ e) = TargetsOn(a, d) \o TargetsOn(a, e)
    <2>1. (d ++ e).parts = [x \in DOMAIN d.parts \cup DOMAIN e.parts |-> TargetsOn(x, d) \o TargetsOn(x, e)]
      BY DEF ++
    <2>2. CASE a \in DOMAIN d.parts \cup DOMAIN e.parts
      BY <2>1, <2>2 DEF TargetsOn
    <2>3. CASE a \notin DOMAIN d.parts \cup DOMAIN e.parts
      <3>1. TargetsOn(a, d ++ e) = <<>> /\ TargetsOn(a, d) = <<>> /\ TargetsOn(a, e) = <<>>
        BY <2>1, <2>3 DEF TargetsOn
      <3> QED BY <3>1
    <2> QED BY <2>2, <2>3
  <1> QED BY <1>1, <1>2

\* What waits they post.
LEMMA PostsFacts ==
  /\ Nothing.posts = {} /\ \A s : Posts(s).posts = s /\ Triggers(s).posts = {} /\ Calls(s).posts = {}
  /\ \A b, r : Contributes(b, r).posts = {}
  /\ \A d, e : (d ++ e).posts = d.posts \cup e.posts
  BY DEF Nothing, Posts, Triggers, Calls, Contributes, ++

\* Targets contributed to one after the other,
LEMMA TwoTargets == ASSUME NEW q, NEW r PROVE <<q>> \o <<r>> = <<q, r>>
  <1> DEFINE u == <<q>> \o <<r>>
  <1>1. u \in Seq({q, r}) /\ Len(u) = 2 /\ u[1] = q /\ u[2] = r
    OBVIOUS
  <1> HIDE DEF u
  <1>2. u \in [1 .. 2 -> {q, r}]
    BY <1>1
  <1>3. u = [k \in 1 .. 2 |-> IF k = 1 THEN q ELSE r]
    BY <1>1, <1>2
  <1>4. <<q, r>> = [k \in 1 .. 2 |-> IF k = 1 THEN q ELSE r]
    OBVIOUS
  <1>5. u = <<q, r>>
    BY <1>3, <1>4
  <1> QED BY <1>5 DEF u

\* Targets contributed and taken.
LEMMA TargetFacts ==
  /\ <<>> \o <<>> = <<>>
  /\ \A r : <<>> \o <<r>> = <<r>> /\ <<r>> \o <<>> = <<r>> /\ Head(<<r>>) = r /\ Tail(<<r>>) = <<>>
  /\ \A q, r : /\ <<q>> \o <<r>> = <<q, r>> /\ <<q, r>> \o <<>> = <<q, r>> /\ <<>> \o <<q, r>> = <<q, r>>
               /\ Head(<<q, r>>) = q /\ Tail(<<q, r>>) = <<r>>
  <1>1. <<>> \o <<>> = <<>>
    OBVIOUS
  <1>2. \A r : <<>> \o <<r>> = <<r>> /\ <<r>> \o <<>> = <<r>> /\ Head(<<r>>) = r /\ Tail(<<r>>) = <<>>
    OBVIOUS
  <1>3. \A q, r : <<q, r>> \o <<>> = <<q, r>> /\ <<>> \o <<q, r>> = <<q, r>>
    OBVIOUS
  <1>4. \A q, r : Head(<<q, r>>) = q /\ Tail(<<q, r>>) = <<r>>
    OBVIOUS
  <1> QED BY <1>1, <1>2, <1>3, <1>4, TwoTargets

\* The counts of an object with the members of a set counted.
LEMMA CountedFacts ==
  ASSUME NEW S, NEW f \in [S -> Int], NEW s, NEW d \in Int
  PROVE  /\ Counted(f, s, d) \in [S -> Int]
         /\ \A t \in S : Counted(f, s, d)[t] = IF t \in s THEN f[t] + d ELSE f[t]
  BY DEF Counted

\* A handler posts waits.
LEMMA PostedFacts ==
  ASSUME CharmShape, NEW o \in Object, NEW e, Posted(o, e)
  PROVE  /\ posting' \in [Object -> [Wait -> Int]] /\ waiting' \in [Object -> [Wait -> Int]]
         /\ \A k \in Object, v \in Wait : Due(k, v)' = IF k = o /\ v \in e.posts THEN Due(k, v) + 1 ELSE Due(k, v)
  <1> DEFINE p == Counted(posting[o], e.posts \cap Late, 1)
             q == Counted(waiting[o], e.posts \ Late, 1)
  <1>1. /\ p \in [Wait -> Int] /\ q \in [Wait -> Int]
        /\ \A v \in Wait : /\ p[v] = IF v \in e.posts \cap Late THEN posting[o][v] + 1 ELSE posting[o][v]
                           /\ q[v] = IF v \in e.posts \ Late THEN waiting[o][v] + 1 ELSE waiting[o][v]
    <2>1. posting[o] \in [Wait -> Int] /\ waiting[o] \in [Wait -> Int]
      BY DEF CharmShape
    <2> QED BY <2>1, CountedFacts
  <1>2. posting' = [posting EXCEPT ![o] = p] /\ waiting' = [waiting EXCEPT ![o] = q]
    BY DEF Posted
  <1> HIDE DEF p, q
  <1>3. posting' \in [Object -> [Wait -> Int]] /\ waiting' \in [Object -> [Wait -> Int]]
    BY <1>1, <1>2 DEF CharmShape
  <1>4. \A k \in Object \ {o} : posting'[k] = posting[k] /\ waiting'[k] = waiting[k]
    BY <1>2 DEF CharmShape
  <1>5. posting'[o] = p /\ waiting'[o] = q
    BY <1>2 DEF CharmShape
  <1>6. ASSUME NEW k \in Object, NEW v \in Wait
        PROVE  Due(k, v)' = IF k = o /\ v \in e.posts THEN Due(k, v) + 1 ELSE Due(k, v)
    <2>1. posting[k][v] \in Int /\ waiting[k][v] \in Int
      BY DEF CharmShape
    <2>2. CASE k # o
      BY <1>4, <2>2 DEF Due
    <2>3. CASE k = o
      BY <1>1, <1>5, <2>1, <2>3 DEF Due
    <2> QED BY <2>2, <2>3
  <1> QED BY <1>3, <1>6

\* The body of a wait runs, and posts others.
LEMMA RunPosted ==
  ASSUME CharmShape, NEW o \in Object, NEW w \in Wait, NEW e, Run(o, w, e)
  PROVE  /\ posting' \in [Object -> [Wait -> Int]] /\ waiting' \in [Object -> [Wait -> Int]]
         /\ \A k \in Object, v \in Wait :
              Due(k, v)' = IF k # o THEN Due(k, v)
                           ELSE (IF v = w THEN Due(k, v) - 1 ELSE Due(k, v)) + (IF v \in e.posts THEN 1 ELSE 0)
  <1> DEFINE p == Counted(posting[o], e.posts \cap Late, 1)
             l == Counted(waiting[o], {w}, -1)
             q == Counted(l, e.posts \ Late, 1)
  <1>1. l \in [Wait -> Int] /\ \A v \in Wait : l[v] = IF v = w THEN waiting[o][v] - 1 ELSE waiting[o][v]
    <2>1. waiting[o] \in [Wait -> Int] /\ -1 \in Int
      BY DEF CharmShape
    <2>2. l \in [Wait -> Int] /\ \A v \in Wait : l[v] = IF v \in {w} THEN waiting[o][v] + (-1) ELSE waiting[o][v]
      BY <2>1, CountedFacts
    <2> HIDE DEF l
    <2> QED BY <2>1, <2>2
  <1>2. posting' = [posting EXCEPT ![o] = p] /\ waiting' = [waiting EXCEPT ![o] = q]
    BY DEF Run
  <1> HIDE DEF l
  <1>3. /\ p \in [Wait -> Int] /\ q \in [Wait -> Int]
        /\ \A v \in Wait : /\ p[v] = IF v \in e.posts \cap Late THEN posting[o][v] + 1 ELSE posting[o][v]
                           /\ q[v] = IF v \in e.posts \ Late THEN l[v] + 1 ELSE l[v]
    BY <1>1, CountedFacts DEF CharmShape
  <1> HIDE DEF p, q
  <1>4. posting' \in [Object -> [Wait -> Int]] /\ waiting' \in [Object -> [Wait -> Int]]
    BY <1>2, <1>3 DEF CharmShape
  <1>5. \A k \in Object \ {o} : posting'[k] = posting[k] /\ waiting'[k] = waiting[k]
    BY <1>2 DEF CharmShape
  <1>6. posting'[o] = p /\ waiting'[o] = q
    BY <1>2 DEF CharmShape
  <1>7. ASSUME NEW k \in Object, NEW v \in Wait
        PROVE  Due(k, v)' = IF k # o THEN Due(k, v)
                            ELSE (IF v = w THEN Due(k, v) - 1 ELSE Due(k, v)) + (IF v \in e.posts THEN 1 ELSE 0)
    <2>1. posting[k][v] \in Int /\ waiting[k][v] \in Int
      BY DEF CharmShape
    <2>2. CASE k # o
      BY <1>5, <2>2 DEF Due
    <2>3. CASE k = o
      BY <1>1, <1>3, <1>6, <2>1, <2>3 DEF Due
    <2> QED BY <2>2, <2>3
  <1> QED BY <1>4, <1>7

\* An object takes a call.
LEMMA TakeFacts ==
  ASSUME CharmShape, NEW o \in Object, NEW m, NEW e, Take(o, m, e)
  PROVE  /\ CharmShape'
         /\ m \in msgs /\ msgs' = (msgs \ {m}) \cup e.calls
         /\ \A k \in Object, t \in Trigger :
              trigger'[k][t] = IF k = o /\ t \in e.triggers THEN trigger[k][t] + 1 ELSE trigger[k][t]
         /\ \A a \in Array, i \in Chare :
              contrib'[a][i] = IF i = o THEN contrib[a][i] \o TargetsOn(a, e) ELSE contrib[a][i]
         /\ \A k \in Object, v \in Wait : Due(k, v)' = IF k = o /\ v \in e.posts THEN Due(k, v) + 1 ELSE Due(k, v)
  <1> DEFINE now == Counted(trigger[o], e.triggers, 1)
  <1>1. now \in [Trigger -> Int] /\ \A t \in Trigger : now[t] = IF t \in e.triggers THEN trigger[o][t] + 1 ELSE trigger[o][t]
    BY CountedFacts DEF CharmShape
  <1>2. trigger' = [trigger EXCEPT ![o] = now]
    BY DEF Take
  <1> HIDE DEF now
  <1>3. /\ trigger' \in [Object -> [Trigger -> Int]]
        /\ \A k \in Object, t \in Trigger :
              trigger'[k][t] = IF k = o /\ t \in e.triggers THEN trigger[k][t] + 1 ELSE trigger[k][t]
    BY <1>1, <1>2 DEF CharmShape
  <1>4. Contributed(o, e)
    BY DEF Take
  <1>5. /\ contrib' = [a \in Array |-> [i \in Chare |-> contrib'[a][i]]]
        /\ \A a \in Array, i \in Chare :
              contrib'[a][i] = IF i = o THEN contrib[a][i] \o TargetsOn(a, e) ELSE contrib[a][i]
    BY <1>4, ObjectFacts DEF Contributed, CharmShape
  <1>6. m \in msgs /\ msgs' = (msgs \ {m}) \cup e.calls
    BY DEF Take
  <1>7. /\ posting' \in [Object -> [Wait -> Int]] /\ waiting' \in [Object -> [Wait -> Int]]
        /\ \A k \in Object, v \in Wait : Due(k, v)' = IF k = o /\ v \in e.posts THEN Due(k, v) + 1 ELSE Due(k, v)
    BY PostedFacts DEF Take
  <1> QED BY <1>3, <1>5, <1>6, <1>7 DEF CharmShape

\* The body of a wait runs.
LEMMA RunFacts ==
  ASSUME CharmShape, NEW o \in Object, NEW w \in Wait, NEW e, Run(o, w, e)
  PROVE  /\ CharmShape'
         /\ msgs' = msgs \cup e.calls
         /\ \A t \in Needs[w] : t \in Trigger /\ trigger[o][t] > 0
         /\ \A k \in Object, t \in Trigger :
              trigger'[k][t] = IF k # o THEN trigger[k][t]
                               ELSE (IF t \in Needs[w] THEN trigger[k][t] - 1 ELSE trigger[k][t])
                                    + (IF t \in e.triggers THEN 1 ELSE 0)
         /\ \A a \in Array, i \in Chare :
              contrib'[a][i] = IF i = o THEN contrib[a][i] \o TargetsOn(a, e) ELSE contrib[a][i]
         /\ \A k \in Object, v \in Wait :
              Due(k, v)' = IF k # o THEN Due(k, v)
                           ELSE (IF v = w THEN Due(k, v) - 1 ELSE Due(k, v)) + (IF v \in e.posts THEN 1 ELSE 0)
  <1> DEFINE less == Counted(trigger[o], Needs[w], -1)
             now == Counted(less, e.triggers, 1)
  <1>1. less \in [Trigger -> Int] /\ \A t \in Trigger : less[t] = IF t \in Needs[w] THEN trigger[o][t] - 1 ELSE trigger[o][t]
    <2>1. trigger[o] \in [Trigger -> Int] /\ -1 \in Int
      BY DEF CharmShape
    <2>2. /\ less \in [Trigger -> Int]
          /\ \A t \in Trigger : less[t] = IF t \in Needs[w] THEN trigger[o][t] + (-1) ELSE trigger[o][t]
      BY <2>1, CountedFacts
    <2> HIDE DEF less
    <2> QED BY <2>1, <2>2
  <1>2. trigger' = [trigger EXCEPT ![o] = now]
    BY DEF Run
  <1> HIDE DEF less
  <1>3. now \in [Trigger -> Int] /\ \A t \in Trigger : now[t] = IF t \in e.triggers THEN less[t] + 1 ELSE less[t]
    BY <1>1, CountedFacts
  <1> HIDE DEF now
  <1>4. trigger' \in [Object -> [Trigger -> Int]]
    BY <1>2, <1>3 DEF CharmShape
  <1>5. \A k \in Object, t \in Trigger :
          trigger'[k][t] = IF k # o THEN trigger[k][t]
                           ELSE (IF t \in Needs[w] THEN trigger[k][t] - 1 ELSE trigger[k][t])
                                + (IF t \in e.triggers THEN 1 ELSE 0)
    <2> SUFFICES ASSUME NEW k \in Object, NEW t \in Trigger
                 PROVE  trigger'[k][t] = IF k # o THEN trigger[k][t]
                           ELSE (IF t \in Needs[w] THEN trigger[k][t] - 1 ELSE trigger[k][t])
                                + (IF t \in e.triggers THEN 1 ELSE 0)
      OBVIOUS
    <2>1. k # o => trigger'[k][t] = trigger[k][t]
      BY <1>2 DEF CharmShape
    <2>2. k = o => trigger'[k][t] = now[t]
      BY <1>2 DEF CharmShape
    <2>3. trigger[o][t] \in Int /\ less[t] \in Int
      BY <1>1 DEF CharmShape
    <2> QED BY <1>1, <1>3, <2>1, <2>2, <2>3
  <1>6. Contributed(o, e)
    BY DEF Run
  <1>7. /\ contrib' = [a \in Array |-> [i \in Chare |-> contrib'[a][i]]]
        /\ \A a \in Array, i \in Chare :
              contrib'[a][i] = IF i = o THEN contrib[a][i] \o TargetsOn(a, e) ELSE contrib[a][i]
    BY <1>6, ObjectFacts DEF Contributed, CharmShape
  <1>8. msgs' = msgs \cup e.calls /\ \A t \in Needs[w] : t \in Trigger /\ trigger[o][t] > 0
    BY DEF Run, Runnable, Trigger, Wait
  <1> QED BY <1>4, <1>5, <1>7, <1>8, RunPosted DEF CharmShape

\* A reduction calls its target.
LEMMA ReduceFacts ==
  ASSUME CharmShape, NEW a \in Array, NEW r, NEW e, Reduce(a, r, e)
  PROVE  /\ CharmShape'
         /\ msgs' = msgs \cup e.calls
         /\ \A i \in Chare : contrib[a][i] # <<>> /\ Head(contrib[a][i]) = r
         /\ \A k \in Object, t \in Trigger :
              trigger'[k][t] = IF k = Host /\ t \in e.triggers THEN trigger[k][t] + 1 ELSE trigger[k][t]
         /\ \A b \in Array, i \in Chare :
              contrib'[b][i] = IF b = a THEN Tail(contrib[b][i]) ELSE contrib[b][i]
         /\ \A k \in Object, v \in Wait : Due(k, v)' = IF k = Host /\ v \in e.posts THEN Due(k, v) + 1 ELSE Due(k, v)
  <1> DEFINE now == Counted(trigger[Host], e.triggers, 1)
  <1>1. now \in [Trigger -> Int] /\ \A t \in Trigger : now[t] = IF t \in e.triggers THEN trigger[Host][t] + 1 ELSE trigger[Host][t]
    <2>1. trigger[Host] \in [Trigger -> Int]
      BY ObjectFacts DEF CharmShape
    <2> QED BY <2>1, CountedFacts
  <1>2. trigger' = [trigger EXCEPT ![Host] = now]
    BY DEF Reduce
  <1> HIDE DEF now
  <1>3. /\ trigger' \in [Object -> [Trigger -> Int]]
        /\ \A k \in Object, t \in Trigger :
              trigger'[k][t] = IF k = Host /\ t \in e.triggers THEN trigger[k][t] + 1 ELSE trigger[k][t]
    BY <1>1, <1>2, ObjectFacts DEF CharmShape
  <1>4. contrib' = [contrib EXCEPT ![a] = [i \in Chare |-> Tail(contrib[a][i])]]
    BY DEF Reduce
  <1>5. /\ contrib' = [b \in Array |-> [i \in Chare |-> contrib'[b][i]]]
        /\ \A b \in Array, i \in Chare :
              contrib'[b][i] = IF b = a THEN Tail(contrib[b][i]) ELSE contrib[b][i]
    BY <1>4 DEF CharmShape
  <1>6. /\ msgs' = msgs \cup e.calls
        /\ \A i \in Chare : contrib[a][i] # <<>> /\ Head(contrib[a][i]) = r
    BY DEF Reduce
  <1>7. /\ posting' \in [Object -> [Wait -> Int]] /\ waiting' \in [Object -> [Wait -> Int]]
        /\ \A k \in Object, v \in Wait : Due(k, v)' = IF k = Host /\ v \in e.posts THEN Due(k, v) + 1 ELSE Due(k, v)
    BY ObjectFacts, PostedFacts DEF Reduce
  <1> QED BY <1>3, <1>5, <1>6, <1>7 DEF CharmShape

-----------------------------------------------------------------------------
\* Neighbours are chares, finitely many, and neighbours of each other.
LEMMA NbrFacts ==
  \A i \in Chare :
    /\ Nbr[i] \subseteq Chare /\ IsFiniteSet(Nbr[i]) /\ Cardinality(Nbr[i]) \in Nat
    /\ \A j \in Nbr[i] : i \in Nbr[j] /\ i # j
  <1> SUFFICES ASSUME NEW i \in Chare
               PROVE  /\ Nbr[i] \subseteq Chare /\ IsFiniteSet(Nbr[i]) /\ Cardinality(Nbr[i]) \in Nat
                      /\ \A j \in Nbr[i] : i \in Nbr[j] /\ i # j
    OBVIOUS
  <1>1. Nbr[i] \subseteq Chare /\ \A j \in Nbr[i] : i \in Nbr[j] /\ i # j
    BY DiscretizationAssumption
  <1>2. IsFiniteSet(Chare)
    <2>1. 0 \in Int /\ NChare - 1 \in Int
      BY CharmAssumption
    <2> QED BY <2>1, FS_Interval DEF Chare
  <1>3. IsFiniteSet(Nbr[i])
    BY <1>1, <1>2, FS_Subset
  <1> QED BY <1>1, <1>3, FS_CardinalityType

\* Hearing from one more neighbour counts one more, and the count tells whether all
\* have been heard from.
LEMMA CountNbr ==
  ASSUME NEW i \in Chare, NEW a \in SUBSET Nbr[i]
  PROVE  /\ Cardinality(a) \in Nat
         /\ a # Nbr[i] => Cardinality(a) < Cardinality(Nbr[i])
         /\ \A j \in Nbr[i] \ a : /\ Cardinality(a \cup {j}) = Cardinality(a) + 1
                                  /\ Cardinality(a) + 1 = Cardinality(Nbr[i]) <=> a \cup {j} = Nbr[i]
  <1>1. IsFiniteSet(Nbr[i]) /\ Cardinality(Nbr[i]) \in Nat
    BY NbrFacts
  <1>2. \A b \in SUBSET Nbr[i] :
          /\ IsFiniteSet(b) /\ Cardinality(b) \in Nat /\ Cardinality(b) <= Cardinality(Nbr[i])
          /\ Cardinality(b) = Cardinality(Nbr[i]) => b = Nbr[i]
    BY <1>1, FS_Subset, FS_CardinalityType
  <1>3. ASSUME NEW j \in Nbr[i] \ a
        PROVE  /\ Cardinality(a \cup {j}) = Cardinality(a) + 1
               /\ Cardinality(a) + 1 = Cardinality(Nbr[i]) <=> a \cup {j} = Nbr[i]
    <2>1. Cardinality(a \cup {j}) = Cardinality(a) + 1
      BY <1>2, FS_AddElement
    <2>2. a \cup {j} \in SUBSET Nbr[i]
      OBVIOUS
    <2> QED BY <1>2, <2>1, <2>2
  <1> QED BY <1>1, <1>2, <1>3

\* A call says from whom it is and to whom, and of which kind.
LEMMA CallsDiffer ==
  ASSUME NEW x, NEW p, NEW j, NEW i
  PROVE  /\ ComCall(x, p, j, i).type = "com" /\ ComCall(x, p, j, i).kind = x
         /\ ComCall(x, p, j, i).to = i /\ ComCall(x, p, j, i).part = PartOf(j, p)
         /\ PartOf(j, p).from = j /\ PartOf(j, p).it = p.it /\ PartOf(j, p).itr = p.itr
  BY DEF ComCall, PartOf

-----------------------------------------------------------------------------
\* Who has been heard from depends on the calls of the kind only.
LEMMA ArrivedKept ==
  ASSUME NEW x, NEW p, NEW S, OfKind(x)' = OfKind(x)
  PROVE  \A i \in Chare : /\ Arrived(x, p, S, i)' = Arrived(x, p, S, i)
                          /\ Complete(x, p, S, i)' = Complete(x, p, S, i)
  <1>1. \A i, j : ComCall(x, p, j, i) \in msgs' <=> ComCall(x, p, j, i) \in msgs
    BY CallsDiffer DEF OfKind
  <1>2. \A i \in Chare : Arrived(x, p, S, i)' = Arrived(x, p, S, i)
    BY <1>1 DEF Arrived
  <1> QED BY <1>2 DEF Complete

\* Before any chare has sent, and when none takes what arrives, nothing is on its way
\* and nothing is counted.
LEMMA ExchangeIdle ==
  ASSUME NEW x, NEW p, NEW S, NEW O, NEW B, Exchange(x, S, O, B, p), S = {} \/ O = {}
  PROVE  OfKind(x) = {} /\ \A i \in Chare : count[i][x] = 0
  <1>1. OfKind(x) = {}
    BY DEF Exchange
  <1>2. S = {} => \A i \in Chare : Arrived(x, p, S, i) = {}
    BY DEF Arrived
  <1>3. Cardinality({}) = 0
    BY FS_EmptySet
  <1> QED BY <1>1, <1>2, <1>3 DEF Exchange

\* From there an exchange about anything may start.
LEMMA ExchangeStarts ==
  ASSUME NEW x, NEW p, NEW O, NEW B,
         OfKind(x)' = {}, \A i \in Chare : count'[i][x] = 0,
         B \subseteq Chare, \A i \in B : buf'[i][x] = {}
  PROVE  Exchange(x, {}, O, B, p)'
  <1>1. \A i \in Chare : Arrived(x, p, {}, i)' = {}
    BY DEF Arrived
  <1>2. Cardinality({}) = 0
    BY FS_EmptySet
  <1>3. \A i \in B : buf'[i][x] = PartsOf(Arrived(x, p, {}, i)', p)
    BY <1>1 DEF PartsOf
  <1> QED BY <1>1, <1>2, <1>3 DEF Exchange

\* A handler that does nothing of the kind: chares that have heard from all are done,
\* and zero buffers nothing has arrived in.
LEMMA ExchangeGoesOn ==
  ASSUME NEW x, NEW p, NEW S, NEW O, NEW B, Exchange(x, S, O, B, p),
         OfKind(x)' = OfKind(x), \A i \in Chare : count'[i][x] = count[i][x],
         NEW O2 \in SUBSET O, \A i \in O \ O2 : Arrived(x, p, S, i) = Nbr[i],
         NEW B2 \in SUBSET Chare,
         \A i \in B2 : \/ i \in B /\ buf'[i][x] = buf[i][x]
                       \/ Arrived(x, p, S, i) = {} /\ buf'[i][x] = {}
  PROVE  Exchange(x, S, O2, B2, p)'
  <1>1. \A i \in Chare : Arrived(x, p, S, i)' = Arrived(x, p, S, i)
    BY ArrivedKept
  <1>2. ASSUME NEW m \in OfKind(x)' PROVE \E i \in O2 : \E j \in Nbr[i] \cap S : m = ComCall(x, p, j, i)
    <2>1. PICK i \in O : \E j \in Nbr[i] \cap S : m = ComCall(x, p, j, i)
      BY DEF Exchange
    <2>2. Arrived(x, p, S, i) # Nbr[i]
      BY <2>1 DEF Arrived, OfKind
    <2> QED BY <2>1, <2>2
  <1>3. \A i \in Chare : LET a == Arrived(x, p, S, i)' IN
          count'[i][x] = IF i \in O2 /\ a # Nbr[i] THEN Cardinality(a) ELSE 0
    BY <1>1 DEF Exchange
  <1>4. \A i \in B2 : buf'[i][x] = PartsOf(Arrived(x, p, S, i)', p)
    BY <1>1 DEF Exchange, PartsOf
  <1> QED BY <1>2, <1>3, <1>4 DEF Exchange

\* Chare i sends its contributions to its neighbours.
LEMMA ExchangeSends ==
  ASSUME NEW x, NEW p, NEW S, NEW O, NEW B, Exchange(x, S, O, B, p), B \subseteq Chare,
         NEW i \in Chare, i \notin S, Nbr[i] \subseteq O,
         OfKind(x)' = OfKind(x) \cup {ComCall(x, p, i, j) : j \in Nbr[i]},
         \A k \in Chare : count'[k][x] = count[k][x] /\ buf'[k][x] = buf[k][x]
  PROVE  /\ Exchange(x, S \cup {i}, O, B, p)'
         /\ \A k \in Chare : Arrived(x, p, S \cup {i}, k)' = Arrived(x, p, S, k)
  <1>1. \A k \in Chare : Arrived(x, p, S \cup {i}, k)' = Arrived(x, p, S, k)
    <2> SUFFICES ASSUME NEW k \in Chare, NEW j \in Nbr[k]
                 PROVE  j \in Arrived(x, p, S \cup {i}, k)' <=> j \in Arrived(x, p, S, k)
      BY DEF Arrived
    <2>1. CASE j = i
      <3>1. k \in Nbr[i]
        BY <2>1, NbrFacts
      <3>2. ComCall(x, p, i, k) \in msgs'
        BY <3>1 DEF OfKind
      <3> QED BY <2>1, <3>2 DEF Arrived
    <2>2. CASE j # i
      <3>1. ComCall(x, p, j, k) \in msgs' <=> ComCall(x, p, j, k) \in msgs
        <4>1. \A l \in Nbr[i] : ComCall(x, p, i, l) # ComCall(x, p, j, k)
          BY <2>2, CallsDiffer
        <4> QED BY <4>1, CallsDiffer DEF OfKind
      <3> QED BY <2>2, <3>1 DEF Arrived
    <2> QED BY <2>1, <2>2
  <1>2. ASSUME NEW m \in OfKind(x)'
        PROVE  \E k \in O : \E j \in Nbr[k] \cap (S \cup {i}) : m = ComCall(x, p, j, k)
    <2>1. CASE m \in OfKind(x)
      BY <2>1 DEF Exchange
    <2>2. CASE m \notin OfKind(x)
      <3>1. PICK j \in Nbr[i] : m = ComCall(x, p, i, j)
        BY <2>2
      <3> QED BY <3>1, NbrFacts
    <2> QED BY <2>1, <2>2
  <1> QED BY <1>1, <1>2 DEF Exchange

\* Chare i takes the contribution in call m, the last of one of its neighbours or not.
Taken(x, i, m) ==
  /\ m \in OfKind(x) /\ m.to = i /\ OfKind(x)' = OfKind(x) \ {m}
  /\ \A k \in Chare : count'[k][x] = IF k # i THEN count[k][x]
                                     ELSE IF count[k][x] + 1 = Cardinality(Nbr[k]) THEN 0
                                     ELSE count[k][x] + 1
  /\ \A k \in Chare : buf'[k][x] = IF k # i THEN buf[k][x] ELSE buf[k][x] \cup {m.part}

\* The exchange goes on; the last contribution completes it.
LEMMA ExchangeTakes ==
  ASSUME NEW x, NEW p, NEW S, NEW O, NEW B, Exchange(x, S, O, B, p), B \subseteq Chare,
         NEW i \in Chare, NEW m, Taken(x, i, m)
  PROVE  /\ Exchange(x, S, O, B, p)'
         /\ i \in O /\ Arrived(x, p, S, i) # Nbr[i] /\ Nbr[i] # {}
         /\ Arrived(x, p, S, i)' = Nbr[i] <=> count[i][x] + 1 = Cardinality(Nbr[i])
         /\ \A k \in Chare \ {i} : Arrived(x, p, S, k)' = Arrived(x, p, S, k)
  <1> USE DEF Taken
  <1>1. PICK j \in Nbr[i] \cap S : m = ComCall(x, p, j, i) /\ i \in O
    BY CallsDiffer DEF Exchange
  <1> DEFINE a == Arrived(x, p, S, i)
  <1>2. j \in Nbr[i] \ a /\ a \subseteq Nbr[i]
    BY <1>1 DEF Arrived, OfKind
  <1>3. Arrived(x, p, S, i)' = a \cup {j}
    <2> SUFFICES ASSUME NEW k \in Nbr[i] \cap S
                 PROVE  ComCall(x, p, k, i) \notin msgs' <=> ComCall(x, p, k, i) \notin msgs \/ k = j
      BY <1>1 DEF Arrived
    <2> QED BY <1>1, CallsDiffer DEF OfKind
  <1>4. \A k \in Chare \ {i} : Arrived(x, p, S, k)' = Arrived(x, p, S, k)
    <2> SUFFICES ASSUME NEW k \in Chare \ {i}, NEW l
                 PROVE  ComCall(x, p, l, k) \in msgs' <=> ComCall(x, p, l, k) \in msgs
      BY DEF Arrived
    <2> QED BY <1>1, CallsDiffer DEF OfKind
  <1>5. count[i][x] = Cardinality(a) /\ a # Nbr[i]
    BY <1>1, <1>2 DEF Exchange
  <1>6. /\ Cardinality(a) \in Nat /\ Cardinality(a \cup {j}) = Cardinality(a) + 1
        /\ Cardinality(a) + 1 = Cardinality(Nbr[i]) <=> a \cup {j} = Nbr[i]
    <2> HIDE DEF a
    <2> QED BY <1>2, CountNbr
  <1>7. \A n \in OfKind(x)' : \E k \in O : \E l \in Nbr[k] \cap S : n = ComCall(x, p, l, k)
    BY DEF Exchange
  <1>8. \A k \in Chare : LET b == Arrived(x, p, S, k)' IN
          count'[k][x] = IF k \in O /\ b # Nbr[k] THEN Cardinality(b) ELSE 0
    <2> SUFFICES ASSUME NEW k \in Chare
                 PROVE  LET b == Arrived(x, p, S, k)' IN
                        count'[k][x] = IF k \in O /\ b # Nbr[k] THEN Cardinality(b) ELSE 0
      OBVIOUS
    <2>1. CASE k = i
      <3> HIDE DEF a
      <3> QED BY <1>1, <1>3, <1>5, <1>6, <2>1
    <2>2. CASE k # i
      BY <1>4, <2>2 DEF Exchange
    <2> QED BY <2>1, <2>2
  <1>9. \A k \in B : buf'[k][x] = PartsOf(Arrived(x, p, S, k)', p)
    <2> SUFFICES ASSUME NEW k \in B PROVE buf'[k][x] = PartsOf(Arrived(x, p, S, k)', p)
      OBVIOUS
    <2>1. CASE k = i
      <3>1. buf'[i][x] = buf[i][x] \cup {PartOf(j, p)}
        <4>1. m.part = PartOf(j, p)
          BY <1>1, CallsDiffer
        <4> QED BY <4>1
      <3>2. buf[i][x] = PartsOf(a, p)
        BY <2>1 DEF Exchange
      <3> QED BY <1>3, <2>1, <3>1, <3>2 DEF PartsOf
    <2>2. CASE k # i
      BY <1>4, <2>2 DEF Exchange
    <2> QED BY <2>1, <2>2
  <1>10. Exchange(x, S, O, B, p)'
    BY <1>7, <1>8, <1>9 DEF Exchange
  <1>11. Arrived(x, p, S, i)' = Nbr[i] <=> count[i][x] + 1 = Cardinality(Nbr[i])
    BY <1>3, <1>5, <1>6
  <1> QED BY <1>1, <1>2, <1>4, <1>5, <1>10, <1>11
-----------------------------------------------------------------------------
\* Where no chare takes contributions, none is told that they are complete,
LEMMA SignalledIdle ==
  ASSUME NEW x, NEW p, NEW S, Signalled(x, S, {}, p)
  PROVE  \A i \in Chare : trigger[i][own(x)] = 0 /\ trigger[i][com(x)] = 0
  BY DEF Signalled

\* so that an exchange may start.
LEMMA SignalledStarts ==
  ASSUME NEW x, NEW p, NEW O, \A i \in Chare : trigger'[i][own(x)] = 0 /\ trigger'[i][com(x)] = 0
  PROVE  Signalled(x, {}, O, p)'
  BY DEF Signalled

\* A handler that signals nothing, or takes the signals of chares that are done.
LEMMA SignalledGoesOn ==
  ASSUME NEW x, NEW p, NEW S, NEW O, Signalled(x, S, O, p), OfKind(x)' = OfKind(x),
         NEW O2 \in SUBSET O,
         \A i \in Chare : \/ /\ i \in O2 \/ i \notin O
                             /\ trigger'[i][own(x)] = trigger[i][own(x)]
                             /\ trigger'[i][com(x)] = trigger[i][com(x)]
                          \/ trigger'[i][own(x)] = 0 /\ trigger'[i][com(x)] = 0
  PROVE  Signalled(x, S, O2, p)'
  <1>1. \A i \in Chare : Complete(x, p, S, i)' = Complete(x, p, S, i)
    BY ArrivedKept
  <1> SUFFICES ASSUME NEW i \in Chare
               PROVE  /\ trigger'[i][own(x)] \in {0, 1} /\ (trigger'[i][own(x)] = 1 => i \in O2 \cap S)
                      /\ trigger'[i][com(x)] \in {0, 1}
                      /\ (trigger'[i][com(x)] = 1 => i \in O2 /\ Complete(x, p, S, i)')
    BY DEF Signalled
  <1> QED BY <1>1 DEF Signalled

\* Chare i has sent its contributions: it is done with its own, and with those of its
\* neighbours if it has none.
LEMMA SignalledSends ==
  ASSUME NEW x, NEW p, NEW S, NEW O, Signalled(x, S, O, p), NEW i \in Chare, i \in O, i \notin S,
         \A k \in Chare : Arrived(x, p, S \cup {i}, k)' = Arrived(x, p, S, k),
         \A k \in Chare :
           /\ trigger'[k][own(x)] = IF k = i THEN trigger[k][own(x)] + 1 ELSE trigger[k][own(x)]
           /\ trigger'[k][com(x)] = IF k = i /\ Nbr[i] = {} THEN trigger[k][com(x)] + 1
                                                         ELSE trigger[k][com(x)]
  PROVE  Signalled(x, S \cup {i}, O, p)'
  <1>1. trigger[i][own(x)] = 0 /\ (Nbr[i] = {} => trigger[i][com(x)] = 0)
    BY DEF Signalled, Complete
  <1>2. ASSUME NEW k \in Chare, Complete(x, p, S, k) PROVE Complete(x, p, S \cup {i}, k)'
    BY <1>2 DEF Complete
  <1>3. Nbr[i] = {} => Complete(x, p, S \cup {i}, i)'
    BY DEF Complete, Arrived
  <1> SUFFICES ASSUME NEW k \in Chare
               PROVE  /\ trigger'[k][own(x)] \in {0, 1}
                      /\ (trigger'[k][own(x)] = 1 => k \in O \cap (S \cup {i}))
                      /\ trigger'[k][com(x)] \in {0, 1}
                      /\ (trigger'[k][com(x)] = 1 => k \in O /\ Complete(x, p, S \cup {i}, k)')
    BY DEF Signalled
  <1>4. trigger'[k][own(x)] \in {0, 1} /\ (trigger'[k][own(x)] = 1 => k \in O \cap (S \cup {i}))
    BY <1>1 DEF Signalled
  <1>5. trigger'[k][com(x)] \in {0, 1} /\ (trigger'[k][com(x)] = 1 => k \in O /\ Complete(x, p, S \cup {i}, k)')
    <2>1. CASE k = i /\ Nbr[i] = {}
      BY <1>1, <1>3, <2>1
    <2>2. CASE ~ (k = i /\ Nbr[i] = {})
      <3>1. trigger'[k][com(x)] = trigger[k][com(x)]
        BY <2>2
      <3>2. trigger[k][com(x)] \in {0, 1} /\ (trigger[k][com(x)] = 1 => k \in O /\ Complete(x, p, S, k))
        BY DEF Signalled
      <3> QED BY <1>2, <3>1, <3>2
    <2> QED BY <2>1, <2>2
  <1> QED BY <1>4, <1>5

\* Chare i has taken a contribution: it is told after the last one.
LEMMA SignalledTakes ==
  ASSUME NEW x, NEW p, NEW S, NEW O, Signalled(x, S, O, p), NEW i \in Chare, i \in O,
         Arrived(x, p, S, i) # Nbr[i], Nbr[i] # {},
         NEW last \in BOOLEAN, last => Arrived(x, p, S, i)' = Nbr[i],
         \A k \in Chare \ {i} : Arrived(x, p, S, k)' = Arrived(x, p, S, k),
         \A k \in Chare :
           /\ trigger'[k][own(x)] = trigger[k][own(x)]
           /\ trigger'[k][com(x)] = IF k = i /\ last THEN trigger[k][com(x)] + 1
                                                    ELSE trigger[k][com(x)]
  PROVE  Signalled(x, S, O, p)'
  <1>1. trigger[i][com(x)] = 0
    BY DEF Signalled, Complete
  <1>2. \A k \in Chare \ {i} : Complete(x, p, S, k)' = Complete(x, p, S, k)
    BY DEF Complete
  <1>3. last => Complete(x, p, S, i)'
    BY DEF Complete
  <1> SUFFICES ASSUME NEW k \in Chare
               PROVE  /\ trigger'[k][own(x)] \in {0, 1} /\ (trigger'[k][own(x)] = 1 => k \in O \cap S)
                      /\ trigger'[k][com(x)] \in {0, 1}
                      /\ (trigger'[k][com(x)] = 1 => k \in O /\ Complete(x, p, S, k)')
    BY DEF Signalled
  <1>4. CASE k = i
    BY <1>1, <1>3, <1>4 DEF Signalled
  <1>5. CASE k # i
    BY <1>2, <1>5 DEF Signalled
  <1> QED BY <1>4, <1>5

-----------------------------------------------------------------------------
\* The calls of a kind, after a body ran and after a call was taken.
LEMMA OfKindRun ==
  ASSUME NEW x, NEW s, msgs' = msgs \cup s
  PROVE  OfKind(x)' = OfKind(x) \cup {n \in s : n.type = "com" /\ n.kind = x}
  BY DEF OfKind

\* Some are sent after a call was taken.
LEMMA OfKindTake ==
  ASSUME NEW x, NEW s, NEW m, msgs' = (msgs \ {m}) \cup s
  PROVE  OfKind(x)' = (OfKind(x) \ {m}) \cup {n \in s : n.type = "com" /\ n.kind = x}
  BY DEF OfKind

\* Fields and buffers by kind.
LEMMA ZeroFacts ==
  ASSUME NEW f, NEW s
  PROVE  /\ Zero(f, s) = [x \in Kind |-> Zero(f, s)[x]]
         /\ \A x \in Kind : Zero(f, s)[x] = IF x \in s THEN {} ELSE f[x]
  BY DEF Zero

\* Own contributions replace what is in a field,
LEMMA ComputeFacts ==
  ASSUME NEW f, NEW i, NEW s
  PROVE  /\ Compute(f, i, s) = [x \in Kind |-> Compute(f, i, s)[x]]
         /\ \A x \in Kind : Compute(f, i, s)[x] = IF x \in s THEN {Part(i, x)} ELSE f[x]
  BY DEF Compute

\* are added to it,
LEMMA AccumulateFacts ==
  ASSUME NEW f, NEW i, NEW s
  PROVE  /\ Accumulate(f, i, s) = [x \in Kind |-> Accumulate(f, i, s)[x]]
         /\ \A x \in Kind : Accumulate(f, i, s)[x] = IF x \in s THEN f[x] \cup {Part(i, x)} ELSE f[x]
  BY DEF Accumulate

\* or those of the neighbours are.
LEMMA CombineFacts ==
  ASSUME NEW i, NEW s
  PROVE  /\ Combine(i, s) = [x \in Kind |-> Combine(i, s)[x]]
         /\ \A x \in Kind : Combine(i, s)[x] = IF x \in s THEN field[i][x] \cup buf[i][x] ELSE field[i][x]
  BY DEF Combine

\* The fields of one chare change.
LEMMA FieldSet ==
  ASSUME NodeShape, NEW i \in Chare, NEW g, g = [x \in Kind |-> g[x]], field' = [field EXCEPT ![i] = g]
  PROVE  /\ field' = [j \in Chare |-> [x \in Kind |-> field'[j][x]]]
         /\ \A x \in Kind : field'[i][x] = g[x]
         /\ \A j \in Chare \ {i} : field'[j] = field[j]
  BY DEF NodeShape

\* The buffers of one chare change.
LEMMA BufSet ==
  ASSUME NodeShape, NEW i \in Chare, NEW g, g = [x \in Kind |-> g[x]], buf' = [buf EXCEPT ![i] = g]
  PROVE  /\ buf' = [j \in Chare |-> [x \in Kind |-> buf'[j][x]]]
         /\ \A x \in Kind : buf'[i][x] = g[x]
         /\ \A j \in Chare \ {i} : buf'[j] = buf[j]
  BY DEF NodeShape

\* The calls after chare i has sent the contributions of the kinds in ys.
LEMMA OfKindSends ==
  ASSUME NEW ys, NEW i \in Chare,
         \A n : n.type = "com" => (n \in msgs' <=> n \in msgs \/ \E y \in ys : n \in ComCalls(i, y))
  PROVE  \A x : OfKind(x)' = IF x \in ys THEN OfKind(x) \cup ComCalls(i, x) ELSE OfKind(x)
  <1>1. \A y : \A n \in ComCalls(i, y) : n.type = "com" /\ n.kind = y
    BY DEF ComCalls
  <1> SUFFICES ASSUME NEW x, NEW n
               PROVE  n \in OfKind(x)' <=> n \in OfKind(x) \/ (x \in ys /\ n \in ComCalls(i, x))
    OBVIOUS
  <1>2. n \in OfKind(x)' <=> n \in msgs' /\ n.type = "com" /\ n.kind = x
    BY DEF OfKind
  <1>3. n \in OfKind(x) <=> n \in msgs /\ n.type = "com" /\ n.kind = x
    BY DEF OfKind
  <1> QED BY <1>1, <1>2, <1>3

-----------------------------------------------------------------------------
\* The parameters.
LEMMA ConstantFacts ==
  /\ NStep \in Nat \ {0} /\ DtFreq \in Nat \ {0} /\ DiagFreq \in Nat \ {0}
  /\ FieldFreq \in Nat \ {0} /\ LbFreq \in Nat \ {0}
  /\ Dtref \in BOOLEAN /\ Nonblocking \in BOOLEAN
  /\ Chare # {}
  <1>1. Chare # {}
    BY CharmAssumption DEF Chare
  <1> QED BY <1>1, DiscretizationAssumption

\* The kinds of contributions.
LEMMA KindIs ==
  /\ "vol" \in Kind /\ "lhs" \in Kind /\ "rhs" \in StepKind
  /\ Kind = StepKind \cup {"lhs", "vol"} /\ StepKind \subseteq {"rhs", "dif", "aec", "alw", "lim"}
  /\ "vol" \notin StepKind /\ "lhs" \notin StepKind
  BY StepsAssumption DEF StepKind, MeshKind, StageOf

\* From which stage the contributions of a step are sent.
LEMMA StageIs ==
  \A x \in StepKind : /\ x \in Kind \ {"vol"} /\ x \notin {"lhs", "vol"} /\ StageOf[x] \in {8, 9, 10}
                      /\ StageOf[x] = 8 <=> x \in {"rhs", "dif"}
                      /\ StageOf[x] = 9 <=> x \in {"aec", "alw"}
                      /\ StageOf[x] = 10 <=> x = "lim"
  BY KindIs DEF StageOf

\* Division rounds down.
LEMMA DivisionFacts ==
  ASSUME NEW a \in Nat, NEW b \in Nat \ {0}
  PROVE  /\ a \div b \in Int /\ a % b \in 0 .. (b - 1)
         /\ a = b * (a \div b) + (a % b)
  BY SMT

\* A product is at most its factors' where one grows.
LEMMA Times ==
  ASSUME NEW a \in Int, NEW b \in Int, NEW n \in Nat, a <= b
  PROVE  n * a <= n * b
  OBVIOUS

\* A product distributes over a difference.
LEMMA Distributes ==
  ASSUME NEW a \in Int, NEW b \in Int, NEW n \in Nat
  PROVE  n * (a - b) = n * a - n * b
  OBVIOUS

\* The number of meshes grows by one after a step that refines, and by no other.
LEMMA MeshFacts ==
  /\ MeshOf(0) = 0
  /\ \A n \in Nat : MeshOf(n) \in Nat /\ MeshOf(n) <= n /\ MeshOf(n) * DtFreq <= n
  /\ \A n \in Nat \ {0} : /\ Refines(n) => MeshOf(n) = MeshOf(n - 1) + 1
                          /\ ~ Refines(n) => MeshOf(n) = MeshOf(n - 1)
  <1> DEFINE f == DtFreq
             q(n) == n \div f
             r(n) == n % f
  <1>1. f \in Nat \ {0} /\ Dtref \in BOOLEAN
    BY ConstantFacts
  <1> HIDE DEF f
  <1>2. \A n \in Nat : q(n) \in Int /\ r(n) \in 0 .. (f - 1) /\ n = f * q(n) + r(n)
    BY <1>1, DivisionFacts
  <1> HIDE DEF q, r
  <1>3. ASSUME NEW n \in Nat PROVE q(n) \in Nat /\ q(n) <= n /\ q(n) * f <= n
    <2>1. q(n) \in Int /\ r(n) \in 0 .. (f - 1) /\ n = f * q(n) + r(n)
      BY <1>2
    <2>2. q(n) >= 0
      <3> SUFFICES ASSUME q(n) <= -1 PROVE FALSE
        BY <2>1
      <3>1. f * q(n) <= f * (-1)
        BY <1>1, <2>1, Times
      <3> QED BY <1>1, <2>1, <3>1
    <2>3. f * q(n) >= q(n)
      BY <1>1, <2>1, <2>2
    <2>4. q(n) * f = f * q(n)
      BY <1>1, <2>1
    <2> QED BY <1>1, <2>1, <2>2, <2>3, <2>4
  <1>4. ASSUME NEW n \in Nat \ {0}
        PROVE  /\ r(n) = 0 => q(n) = q(n - 1) + 1
               /\ r(n) # 0 => q(n) = q(n - 1)
    <2> DEFINE d == q(n) - q(n - 1)
               e == r(n) - r(n - 1)
    <2>1. /\ q(n) \in Int /\ r(n) \in 0 .. (f - 1) /\ n = f * q(n) + r(n)
          /\ q(n - 1) \in Int /\ r(n - 1) \in 0 .. (f - 1) /\ n - 1 = f * q(n - 1) + r(n - 1)
      <3>1. n - 1 \in Nat
        OBVIOUS
      <3> QED BY <1>2, <3>1
    <2>2. d \in Int /\ e \in Int /\ e > - f /\ e < f /\ f * d + e = 1
      <3>1. f * d = f * q(n) - f * q(n - 1)
        BY <1>1, <2>1, Distributes
      <3>2. f * q(n) \in Int /\ f * q(n - 1) \in Int
        BY <1>1, <2>1
      <3>3. f * d + e = 1
        BY <2>1, <3>1, <3>2
      <3>4. d \in Int /\ e \in Int /\ e > - f /\ e < f
        BY <1>1, <2>1
      <3> QED BY <3>3, <3>4
    <2>3. d <= 1
      <3> SUFFICES ASSUME d >= 2 PROVE FALSE
        BY <2>2
      <3>1. f * 2 <= f * d
        BY <1>1, <2>2, Times
      <3> HIDE DEF d, e
      <3> QED BY <1>1, <2>2, <3>1
    <2>4. d >= 0
      <3> SUFFICES ASSUME d <= -1 PROVE FALSE
        BY <2>2
      <3>1. f * d <= f * (-1)
        BY <1>1, <2>2, Times
      <3> HIDE DEF d, e
      <3> QED BY <1>1, <2>2, <3>1
    <2>5. d = 0 => e = 1
      <3> HIDE DEF d, e
      <3> QED BY <1>1, <2>2
    <2>6. d = 1 => e = 1 - f
      <3> HIDE DEF d, e
      <3> QED BY <1>1, <2>2
    <2>7. d = 0 \/ d = 1
      <3> HIDE DEF d, e
      <3> QED BY <2>2, <2>3, <2>4
    <2>8. d = 0 => q(n) = q(n - 1) /\ r(n) # 0
      BY <2>1, <2>5
    <2>9. d = 1 => q(n) = q(n - 1) + 1 /\ r(n) = 0
      BY <1>1, <2>1, <2>6
    <2> QED BY <2>7, <2>8, <2>9
  <1>5. \A n \in Nat : Refines(n) <=> Dtref /\ r(n) = 0
    BY DEF Refines, r, f
  <1>6. \A n \in Nat : MeshOf(n) = IF Dtref THEN q(n) ELSE 0
    BY DEF MeshOf, q, f
  <1>7. MeshOf(0) = 0
    BY <1>3, <1>6
  <1>8. ASSUME NEW n \in Nat PROVE MeshOf(n) \in Nat /\ MeshOf(n) <= n /\ MeshOf(n) * DtFreq <= n
    BY <1>1, <1>3, <1>6 DEF f
  <1>9. ASSUME NEW n \in Nat \ {0}
        PROVE  /\ Refines(n) => MeshOf(n) = MeshOf(n - 1) + 1
               /\ ~ Refines(n) => MeshOf(n) = MeshOf(n - 1)
    <2>1. n - 1 \in Nat
      OBVIOUS
    <2> QED BY <1>1, <1>4, <1>5, <1>6, <2>1
  <1> QED BY <1>7, <1>8, <1>9

-----------------------------------------------------------------------------
\* Triggers are told apart by their names.
LEMMA TriggersDiffer ==
  /\ \A x, y : own(x) = own(y) => x = y
  /\ \A x, y : com(x) = com(y) => x = y
  /\ \A x, y : done(x) = done(y) => x = y
  /\ \A x, y : own(x) # com(y) /\ own(x) # done(y) /\ com(x) # done(y)
  BY DEF own, com, done

\* What the waits need.
LEMMA WaitFacts ==
  /\ {"lhs", "rhs", "out", "resize"} \subseteq Wait /\ Wait \subseteq {"lhs", "rhs", "out", "fct", "app", "resize"}
  /\ Needs["lhs"] = {own("lhs"), com("lhs")}
  /\ Needs["out"] = {done("diag"), done("ref"), done("lhs"), done("resize")}
  /\ Needs["resize"] = {done("disc"), done("work")}
  /\ \A w \in Wait \cap StepWait : Needs[w] \subseteq {own(x) : x \in StepKind} \cup {com(x) : x \in StepKind}
  /\ \A x \in StepKind : \E w \in Wait \cap StepWait : own(x) \in Needs[w]
  /\ \A x \in StepKind : \E w \in Wait \cap StepWait : com(x) \in Needs[w]
  <1>1. UNION {Needs[w] : w \in Wait \cap StepWait} = {own(x) : x \in StepKind} \cup {com(x) : x \in StepKind}
    BY StepsAssumption
  <1>2. \A w \in Wait \cap StepWait : Needs[w] \subseteq {own(x) : x \in StepKind} \cup {com(x) : x \in StepKind}
    BY <1>1
  <1>3. \A x \in StepKind : own(x) \in UNION {Needs[w] : w \in Wait \cap StepWait}
    BY <1>1
  <1>4. \A x \in StepKind : com(x) \in UNION {Needs[w] : w \in Wait \cap StepWait}
    BY <1>1
  <1> QED BY <1>2, <1>3, <1>4, StepsAssumption DEF ResizeNeeds, StepWait

\* The triggers of the exchanges and of the ends of steps are among those waited for.
LEMMA TriggerFacts ==
  /\ \A x \in Kind \ {"vol"} : own(x) \in Trigger /\ com(x) \in Trigger
  /\ \A y \in {"diag", "ref", "lhs", "resize", "disc", "work"} : done(y) \in Trigger
  <1>1. \A w \in Wait : Needs[w] \subseteq Trigger
    BY DEF Trigger
  <1>2. \A x \in StepKind : own(x) \in Trigger /\ com(x) \in Trigger
    BY <1>1, WaitFacts
  <1> QED BY <1>1, <1>2, WaitFacts, KindIs

-----------------------------------------------------------------------------
\* What the definitions by kind say of each.
LEMMA SendersAre ==
  ASSUME NEW c, NEW j \in Chare
  PROVE  /\ \A x \in StepKind : j \in Senders(c, x) <=> c.round > 0 /\ c.stage[j] >= StageOf[x]
         /\ j \in Senders(c, "lhs") <=> IF c.round = 0 THEN c.stage[j] >= 5 ELSE c.lhs[j] >= 2
         /\ j \in Senders(c, "vol") <=> c.vol[j] >= 2
  BY KindIs DEF Senders

\* Who takes contributions of each kind,
LEMMA TakersAre ==
  ASSUME NEW c, NEW i \in Chare
  PROVE  /\ \A x \in StepKind : i \in Takers(c, x) <=> c.round > 0 /\ c.stage[i] \in 7 .. StageOf[x]
         /\ i \in Takers(c, "lhs") <=> IF c.round = 0 THEN c.stage[i] <= 5 ELSE c.ref[i] = 3 /\ c.lhs[i] <= 2
         /\ i \in Takers(c, "vol") <=> c.ref[i] = 3 /\ c.vol[i] <= 3
  BY KindIs DEF Takers

\* whose buffers are zeroed,
LEMMA ZeroedAre ==
  ASSUME NEW c
  PROVE  /\ \A x \in {"rhs", "dif", "lhs", "vol"} : Zeroed(c, x) = Takers(c, x)
         /\ \A x \in {"aec", "alw", "lim"}, i \in Chare : i \in Zeroed(c, x) <=> i \in Takers(c, x) /\ c.stage[i] >= 8
         /\ \A x : Zeroed(c, x) \subseteq Takers(c, x) /\ Takers(c, x) \subseteq Chare /\ Senders(c, x) \subseteq Chare
  BY DEF Zeroed, Emptied, Takers, Senders

\* who is past the exchange,
LEMMA PastAre ==
  ASSUME NEW c, NEW i \in Chare
  PROVE  /\ \A x \in StepKind : i \in Past(c, x) <=> c.round > 0 /\ c.stage[i] > StageOf[x]
         /\ i \in Past(c, "lhs") <=> IF c.round = 0 THEN c.stage[i] > 5 ELSE c.lhs[i] = 3
         /\ i \in Past(c, "vol") <=> c.vol[i] >= 3
         /\ \A x : Past(c, x) \subseteq Chare
  BY KindIs DEF Past

\* and what they are about.
LEMMA AboutIs ==
  ASSUME NEW c
  PROVE  /\ \A x \in StepKind : About(c, x) = [it |-> c.round - 1, itr |-> Base(c)]
         /\ \A x \in {"lhs", "vol"} : About(c, x) = OfMesh(Now(c))
  BY KindIs DEF About

\* What is computed for the next step of the round, from which mesh.
LEMMA RoundFacts ==
  ASSUME NEW c \in Config, Stages(c)
  PROVE  /\ c.round \in 0 .. NStep /\ Base(c) \in 0 .. NStep /\ Base(c) * DtFreq \in 0 .. NStep
         /\ Now(c) \in Nat
         /\ c.round > 0 => c.round - 1 \in 0 .. NStep
         /\ c.round = 0 => Base(c) = 0 /\ Now(c) = 0
         /\ c.round > 0 /\ Refines(c.round) =>
              /\ Now(c) = MeshOf(c.round) /\ Now(c) = Base(c) + 1
              /\ Now(c) \in 0 .. NStep /\ Now(c) * DtFreq \in 0 .. NStep
         /\ c.round > 0 /\ ~ Refines(c.round) => Base(c) = MeshOf(c.round)
  <1>1. c.round \in 0 .. NStep /\ NStep \in Nat /\ DtFreq \in Nat
    BY ConstantFacts DEF Config, Stages
  <1>2. \A n \in 0 .. NStep : MeshOf(n) \in 0 .. NStep /\ MeshOf(n) * DtFreq \in 0 .. NStep
    <2> SUFFICES ASSUME NEW n \in 0 .. NStep
                 PROVE  MeshOf(n) \in 0 .. NStep /\ MeshOf(n) * DtFreq \in 0 .. NStep
      OBVIOUS
    <2>1. MeshOf(n) \in Nat /\ MeshOf(n) <= n /\ MeshOf(n) * DtFreq <= n
      BY MeshFacts, <1>1
    <2>2. MeshOf(n) * DtFreq \in Nat
      BY <1>1, <2>1
    <2> QED BY <1>1, <2>1, <2>2
  <1>3. CASE c.round = 0
    <2>1. Base(c) = 0 /\ Now(c) = 0
      BY <1>3 DEF Base, Now
    <2>2. 0 * DtFreq = 0
      BY <1>1
    <2> QED BY <1>1, <1>3, <2>1, <2>2
  <1>4. CASE c.round > 0
    <2>1. Base(c) = MeshOf(c.round - 1) /\ Now(c) = Base(c) + 1 /\ c.round - 1 \in 0 .. NStep
      BY <1>1, <1>4 DEF Base, Now
    <2>2. Base(c) \in 0 .. NStep /\ Base(c) * DtFreq \in 0 .. NStep
      BY <1>2, <2>1
    <2>3. c.round \in Nat \ {0}
      BY <1>1, <1>4
    <2>4. Refines(c.round) => Now(c) = MeshOf(c.round)
      BY <2>1, <2>3, MeshFacts
    <2>5. ~ Refines(c.round) => Base(c) = MeshOf(c.round)
      BY <2>1, <2>3, MeshFacts
    <2>6. Refines(c.round) => Now(c) \in 0 .. NStep /\ Now(c) * DtFreq \in 0 .. NStep
      BY <1>1, <1>2, <2>4
    <2>7. Now(c) \in Nat
      BY <2>1, <2>2
    <2> QED BY <1>1, <1>4, <2>1, <2>2, <2>4, <2>5, <2>6, <2>7
  <1> QED BY <1>1, <1>3, <1>4

\* The chares are as far with contributions of a kind as before.
SameFor(c, d, x) ==
  /\ Senders(d, x) = Senders(c, x) /\ Takers(d, x) = Takers(c, x)
  /\ Zeroed(d, x) = Zeroed(c, x) /\ About(d, x) = About(c, x)

\* It is enough to look at the chares.
LEMMA SameForIf ==
  ASSUME NEW c, NEW d, NEW x, About(d, x) = About(c, x),
         \A j \in Chare : /\ j \in Senders(d, x) <=> j \in Senders(c, x)
                          /\ j \in Takers(d, x) <=> j \in Takers(c, x)
                          /\ j \in Zeroed(d, x) <=> j \in Zeroed(c, x)
  PROVE  SameFor(c, d, x)
  <1>1. /\ Senders(c, x) \subseteq Chare /\ Takers(c, x) \subseteq Chare /\ Zeroed(c, x) \subseteq Chare
        /\ Senders(d, x) \subseteq Chare /\ Takers(d, x) \subseteq Chare /\ Zeroed(d, x) \subseteq Chare
    BY ZeroedAre
  <1>2. Senders(d, x) = Senders(c, x)
    BY <1>1
  <1>3. Takers(d, x) = Takers(c, x)
    BY <1>1
  <1>4. Zeroed(d, x) = Zeroed(c, x)
    BY <1>1
  <1> QED BY <1>2, <1>3, <1>4 DEF SameFor

\* What is exchanged for a mesh does not depend on the stages of a step,
LEMMA SameMesh ==
  ASSUME NEW c, NEW d, d.round = c.round, c.round \in Nat \ {0}, d.ref = c.ref, \A x : About(d, x) = About(c, x)
  PROVE  /\ d.lhs = c.lhs => SameFor(c, d, "lhs")
         /\ d.vol = c.vol => SameFor(c, d, "vol")
  <1>1. ASSUME d.lhs = c.lhs PROVE SameFor(c, d, "lhs")
    <2>1. \A j \in Chare : /\ j \in Senders(d, "lhs") <=> j \in Senders(c, "lhs")
                           /\ j \in Takers(d, "lhs") <=> j \in Takers(c, "lhs")
      BY <1>1, SendersAre, TakersAre
    <2>2. Zeroed(d, "lhs") = Takers(d, "lhs") /\ Zeroed(c, "lhs") = Takers(c, "lhs")
      BY ZeroedAre
    <2> QED BY <2>1, <2>2, SameForIf
  <1>2. ASSUME d.vol = c.vol PROVE SameFor(c, d, "vol")
    <2>1. \A j \in Chare : /\ j \in Senders(d, "vol") <=> j \in Senders(c, "vol")
                           /\ j \in Takers(d, "vol") <=> j \in Takers(c, "vol")
      BY <1>2, SendersAre, TakersAre
    <2>2. Zeroed(d, "vol") = Takers(d, "vol") /\ Zeroed(c, "vol") = Takers(c, "vol")
      BY ZeroedAre
    <2> QED BY <2>1, <2>2, SameForIf
  <1> QED BY <1>1, <1>2

\* and what is exchanged in a step not on what comes after it.
LEMMA SameStep ==
  ASSUME NEW c, NEW d, d.round = c.round, \A x : About(d, x) = About(c, x), NEW k \in {8, 9, 10},
         c.stage \in [Chare -> 0 .. 17], d.stage \in [Chare -> 0 .. 17],
         \A j \in Chare : d.stage[j] = c.stage[j] \/ (d.stage[j] > k /\ c.stage[j] > k)
  PROVE  \A x \in StepKind : StageOf[x] <= k => SameFor(c, d, x)
  <1> SUFFICES ASSUME NEW x \in StepKind, StageOf[x] <= k PROVE SameFor(c, d, x)
    OBVIOUS
  <1>1. StageOf[x] \in {8, 9, 10}
    BY StageIs
  <1>2. \A j \in Chare : /\ d.stage[j] >= StageOf[x] <=> c.stage[j] >= StageOf[x]
                         /\ d.stage[j] \in 7 .. StageOf[x] <=> c.stage[j] \in 7 .. StageOf[x]
                         /\ c.stage[j] \in 7 .. StageOf[x] => d.stage[j] = c.stage[j]
    BY <1>1
  <1>3. x \notin {"lhs", "vol"}
    BY StageIs
  <1>4. \A j \in Chare : j \in Senders(d, x) <=> j \in Senders(c, x)
    BY <1>2, <1>3 DEF Senders
  <1>5. \A j \in Chare : j \in Takers(d, x) <=> j \in Takers(c, x)
    BY <1>2, <1>3 DEF Takers
  <1>6. \A j \in Takers(c, x) : d.stage[j] = c.stage[j]
    BY <1>2, <1>3 DEF Takers
  <1>7. \A j \in Chare : j \in Zeroed(d, x) <=> j \in Zeroed(c, x)
    BY <1>5, <1>6 DEF Zeroed
  <1> QED BY <1>4, <1>5, <1>7, SameForIf

-----------------------------------------------------------------------------
\* A handler that does nothing about a kind of contributions, except that chares are
\* done with those of their neighbours.
GoesOn(c, d, x) ==
  /\ Senders(d, x) = Senders(c, x) /\ About(d, x) = About(c, x) /\ Takers(d, x) \subseteq Takers(c, x)
  /\ \A i \in Takers(c, x) \ Takers(d, x) : Arrived(x, About(c, x), Senders(c, x), i) = Nbr[i]
  /\ \A i \in Zeroed(d, x) : \/ i \in Zeroed(c, x) /\ buf'[i][x] = buf[i][x]
                             \/ Arrived(x, About(c, x), Senders(c, x), i) = {} /\ buf'[i][x] = {}
  /\ OfKind(x)' = OfKind(x) /\ \A i \in Chare : count'[i][x] = count[i][x]
  /\ x # "vol" => \A i \in Chare :
       \/ /\ i \in Takers(d, x) \/ i \notin Takers(c, x)
          /\ trigger'[i][own(x)] = trigger[i][own(x)]
          /\ trigger'[i][com(x)] = trigger[i][com(x)]
       \/ trigger'[i][own(x)] = 0 /\ trigger'[i][com(x)] = 0

\* The exchange goes on.
LEMMA TradedGoesOn ==
  ASSUME NEW c, NEW d, NEW x, Traded(c, x), GoesOn(c, d, x)
  PROVE  Traded(d, x)'
  <1> DEFINE p == About(c, x)
             S == Senders(c, x)
             O == Takers(c, x)
             B == Zeroed(c, x)
             O2 == Takers(d, x)
             B2 == Zeroed(d, x)
  <1>1. B2 \subseteq Chare
    BY ZeroedAre
  <1>2. Exchange(x, S, O, B, p) /\ (x # "vol" => Signalled(x, S, O, p))
    BY DEF Traded
  <1> HIDE DEF p, S, O, B, O2, B2
  <1>3. Exchange(x, S, O2, B2, p)'
    BY <1>1, <1>2, ExchangeGoesOn DEF GoesOn, p, S, O, B, O2, B2
  <1>4. x # "vol" => Signalled(x, S, O2, p)'
    BY <1>2, SignalledGoesOn DEF GoesOn, p, S, O, O2
  <1> QED BY <1>3, <1>4 DEF GoesOn, Traded, p, S, O2, B2

\* It does nothing at all about it.
Untouched(x) ==
  /\ OfKind(x)' = OfKind(x)
  /\ \A i \in Chare : count'[i][x] = count[i][x] /\ buf'[i][x] = buf[i][x]
  /\ x # "vol" => \A i \in Chare : /\ trigger'[i][own(x)] = trigger[i][own(x)]
                                   /\ trigger'[i][com(x)] = trigger[i][com(x)]

\* The exchange is where it was.
LEMMA TradedKept ==
  ASSUME NEW c, NEW d, NEW x, Traded(c, x), SameFor(c, d, x), Untouched(x)
  PROVE  Traded(d, x)'
  <1>1. \A i \in Chare : count'[i][x] = count[i][x]
    BY DEF Untouched
  <1>2. Takers(d, x) = Takers(c, x) /\ Takers(c, x) \ Takers(d, x) = {} /\ Takers(d, x) \subseteq Takers(c, x)
    BY DEF SameFor
  <1>3. \A i \in Zeroed(d, x) : \/ i \in Zeroed(c, x) /\ buf'[i][x] = buf[i][x]
                                \/ Arrived(x, About(c, x), Senders(c, x), i) = {} /\ buf'[i][x] = {}
    BY ZeroedAre DEF SameFor, Untouched
  <1>4. x # "vol" => \A i \in Chare : /\ i \in Takers(d, x) \/ i \notin Takers(c, x)
                                      /\ trigger'[i][own(x)] = trigger[i][own(x)]
                                      /\ trigger'[i][com(x)] = trigger[i][com(x)]
    BY <1>2 DEF Untouched
  <1>5. OfKind(x)' = OfKind(x) /\ Senders(d, x) = Senders(c, x) /\ About(d, x) = About(c, x)
    BY DEF Untouched, SameFor
  <1>6. \A i \in Takers(c, x) \ Takers(d, x) : Arrived(x, About(c, x), Senders(c, x), i) = Nbr[i]
    BY <1>2
  <1>7. GoesOn(c, d, x)
    BY <1>1, <1>2, <1>3, <1>4, <1>5, <1>6 DEF GoesOn
  <1> QED BY <1>7, TradedGoesOn

\* Before any chare has sent, or when none takes what arrives, there is nothing;
LEMMA TradedIdle ==
  ASSUME NEW c, NEW x, Traded(c, x), Senders(c, x) = {} \/ Takers(c, x) = {}
  PROVE  /\ OfKind(x) = {} /\ \A i \in Chare : count[i][x] = 0
         /\ x # "vol" => \A i \in Chare : trigger[i][own(x)] = 0 /\ trigger[i][com(x)] = 0
  <1>1. OfKind(x) = {} /\ \A i \in Chare : count[i][x] = 0
    BY ExchangeIdle DEF Traded
  <1>2. x # "vol" => \A i \in Chare : trigger[i][own(x)] = 0 /\ trigger[i][com(x)] = 0
    BY DEF Traded, Signalled, Complete, Arrived
  <1> QED BY <1>1, <1>2

\* then an exchange may start.
LEMMA TradedStarts ==
  ASSUME NEW d, NEW x, Senders(d, x) = {}, OfKind(x)' = {},
         \A i \in Chare : count'[i][x] = 0, \A i \in Zeroed(d, x) : buf'[i][x] = {},
         x # "vol" => \A i \in Chare : trigger'[i][own(x)] = 0 /\ trigger'[i][com(x)] = 0
  PROVE  Traded(d, x)'
  <1>1. Zeroed(d, x) \subseteq Chare
    BY ZeroedAre
  <1> DEFINE p == About(d, x)
             O == Takers(d, x)
             B == Zeroed(d, x)
  <1> HIDE DEF p, O, B
  <1>2. Exchange(x, {}, O, B, p)'
    BY <1>1, ExchangeStarts DEF B
  <1>3. x # "vol" => Signalled(x, {}, O, p)'
    BY SignalledStarts
  <1> QED BY <1>2, <1>3 DEF Traded, p, O, B

\* Chare i sends its contributions.
SendsFor(c, d, x, i) ==
  /\ Senders(d, x) = Senders(c, x) \cup {i} /\ i \notin Senders(c, x) /\ Nbr[i] \subseteq Takers(c, x)
  /\ Takers(d, x) = Takers(c, x) /\ Zeroed(d, x) = Zeroed(c, x) /\ About(d, x) = About(c, x)
  /\ OfKind(x)' = OfKind(x) \cup {ComCall(x, About(c, x), i, j) : j \in Nbr[i]}
  /\ \A k \in Chare : count'[k][x] = count[k][x] /\ buf'[k][x] = buf[k][x]
  /\ x # "vol" =>
       /\ i \in Takers(c, x)
       /\ \A k \in Chare :
            /\ trigger'[k][own(x)] = IF k = i THEN trigger[k][own(x)] + 1 ELSE trigger[k][own(x)]
            /\ trigger'[k][com(x)] = IF k = i /\ Nbr[i] = {} THEN trigger[k][com(x)] + 1
                                                          ELSE trigger[k][com(x)]

\* The exchange has one more sender.
LEMMA TradedSends ==
  ASSUME NEW c, NEW d, NEW x, Traded(c, x), NEW i \in Chare, SendsFor(c, d, x, i)
  PROVE  /\ Traded(d, x)'
         /\ \A k \in Chare : Arrived(x, About(d, x), Senders(d, x), k)' = Arrived(x, About(c, x), Senders(c, x), k)
  <1> DEFINE p == About(c, x)
             S == Senders(c, x)
             O == Takers(c, x)
             B == Zeroed(c, x)
  <1>1. B \subseteq Chare
    BY ZeroedAre
  <1>2. Exchange(x, S, O, B, p) /\ (x # "vol" => Signalled(x, S, O, p))
    BY DEF Traded
  <1> HIDE DEF p, S, O, B
  <1>3. /\ Exchange(x, S \cup {i}, O, B, p)'
        /\ \A k \in Chare : Arrived(x, p, S \cup {i}, k)' = Arrived(x, p, S, k)
    <2>1. i \notin S /\ Nbr[i] \subseteq O /\ OfKind(x)' = OfKind(x) \cup {ComCall(x, p, i, j) : j \in Nbr[i]}
      BY DEF SendsFor, p, S, O
    <2>2. \A k \in Chare : count'[k][x] = count[k][x] /\ buf'[k][x] = buf[k][x]
      BY DEF SendsFor
    <2> QED BY <1>1, <1>2, <2>1, <2>2, ExchangeSends
  <1>4. x # "vol" => Signalled(x, S \cup {i}, O, p)'
    <2> SUFFICES ASSUME x # "vol" PROVE Signalled(x, S \cup {i}, O, p)'
      OBVIOUS
    <2>1. i \notin S /\ i \in O /\ Signalled(x, S, O, p)
      BY <1>2 DEF SendsFor, S, O
    <2>2. \A k \in Chare :
            /\ trigger'[k][own(x)] = IF k = i THEN trigger[k][own(x)] + 1 ELSE trigger[k][own(x)]
            /\ trigger'[k][com(x)] = IF k = i /\ Nbr[i] = {} THEN trigger[k][com(x)] + 1
                                                          ELSE trigger[k][com(x)]
      BY DEF SendsFor
    <2> QED BY <1>3, <2>1, <2>2, SignalledSends
  <1> QED BY <1>3, <1>4 DEF SendsFor, Traded, p, S, O, B

-----------------------------------------------------------------------------
\* Chare i goes on to the next stage of its step.
SameRest(c, d) ==
  /\ d.round = c.round /\ d.diag = c.diag /\ d.ref = c.ref /\ d.lhs = c.lhs /\ d.vol = c.vol
  /\ d.mesh = c.mesh /\ d.started = c.started /\ d.diagnosed = c.diagnosed
  /\ d.disc = c.disc /\ d.work = c.work

\* There is a configuration with any stages.
LEMMA StageSet ==
  ASSUME NEW c \in Config, NEW s \in [Chare -> 0 .. 17]
  PROVE  \E d \in Config : d.stage = s /\ SameRest(c, d)
  <1> DEFINE d == [c EXCEPT !.stage = s]
  <1>1. d \in Config /\ d.stage = s /\ SameRest(c, d)
    BY DEF Config, SameRest
  <1> HIDE DEF d
  <1> QED BY <1>1

\* In a step, nothing but its own contributions depends on how far a chare is.
LEMMA InStep ==
  ASSUME NEW c \in Config, Stages(c), Diagnosing(c), Remeshing(c),
         NEW i \in Chare, c.round > 0, c.stage[i] \in 7 .. 9,
         NEW d \in Config, d.stage = [c.stage EXCEPT ![i] = @ + 1], SameRest(c, d)
  PROVE  /\ Stages(d) /\ Diagnosing(d) /\ Remeshing(d)
         /\ \A j \in Chare : Made(d, j) = Made(c, j)
         /\ Base(d) = Base(c) /\ Now(d) = Now(c) /\ \A x : About(d, x) = About(c, x)
  <1>1. c.stage \in [Chare -> 0 .. 17] /\ d.stage[i] = c.stage[i] + 1 /\ \A j \in Chare \ {i} : d.stage[j] = c.stage[j]
    BY DEF Config
  <1>2. Base(d) = Base(c) /\ Now(d) = Now(c) /\ \A x : About(d, x) = About(c, x)
    BY DEF SameRest, Base, Now, About
  <1>3. \A j \in Chare : Made(d, j) = Made(c, j)
    BY <1>1 DEF SameRest, Made
  <1>4. Stages(d)
    BY <1>1 DEF SameRest, Stages
  <1>5. Diagnosing(d)
    BY <1>1, <1>3 DEF SameRest, Diagnosing
  <1>6. Remeshing(d)
    BY <1>1, <1>3 DEF SameRest, Remeshing
  <1> QED BY <1>2, <1>3, <1>4, <1>5, <1>6

\* What a chare computes is about the round, or its new mesh.
LEMMA OwnPart ==
  ASSUME NEW c \in Config, Stages(c), Remeshing(c), Counters(c), NEW i \in Chare
  PROVE  /\ c.round > 0 /\ ~ Made(c, i) => \A x \in StepKind :
              Part(i, x) = PartOf(i, About(c, x)) /\ Part(i, x) \in Parts
         /\ c.round = 0 \/ c.ref[i] = 3 => \A x \in {"lhs", "vol"} :
              Part(i, x) = PartOf(i, About(c, x)) /\ Part(i, x) \in Parts
  <1>1. CASE c.round > 0 /\ ~ Made(c, i)
    <2>1. it[i] = c.round - 1 /\ itr[i] = Base(c)
      BY <1>1 DEF Counters, Remeshing
    <2>2. it[i] \in 0 .. NStep /\ itr[i] \in 0 .. NStep
      BY <1>1, <2>1, RoundFacts
    <2> SUFFICES ASSUME NEW x \in StepKind PROVE Part(i, x) = PartOf(i, About(c, x)) /\ Part(i, x) \in Parts
      BY <1>1 DEF Made, Remeshing
    <2>3. Part(i, x) = [from |-> i, it |-> it[i], itr |-> itr[i]]
      BY DEF Part, MeshKind, StepKind
    <2> QED BY <2>1, <2>2, <2>3, AboutIs DEF PartOf, Parts
  <1>2. CASE c.round = 0 \/ c.ref[i] = 3
    <2>1. itr[i] = Now(c) /\ Now(c) \in 0 .. NStep /\ Now(c) * DtFreq \in 0 .. NStep
      <3>1. CASE c.round = 0
        <4>1. c.ref[i] # 3 /\ Now(c) = 0 /\ Base(c) = 0
          BY <3>1, RoundFacts DEF Remeshing, Made
        <4>2. 0 * DtFreq = 0 /\ NStep \in Nat
          BY ConstantFacts
        <4> QED BY <4>1, <4>2 DEF Counters
      <3>2. CASE c.round # 0
        <4>1. c.round > 0 /\ c.ref[i] = 3
          BY <1>2, <3>2, RoundFacts
        <4>2. Refines(c.round)
          BY <4>1 DEF Remeshing
        <4> QED BY <4>1, <4>2, RoundFacts DEF Counters
      <3> QED BY <3>1, <3>2
    <2> SUFFICES ASSUME NEW x \in {"lhs", "vol"} PROVE Part(i, x) = PartOf(i, About(c, x)) /\ Part(i, x) \in Parts
      BY <1>2 DEF Made, Remeshing
    <2>2. Part(i, x) = [from |-> i, it |-> itr[i] * DtFreq, itr |-> itr[i]]
      BY DEF Part, MeshKind
    <2> DEFINE time == itr[i] * DtFreq
    <2>3. About(c, x) = [it |-> time, itr |-> itr[i]]
      BY <2>1, AboutIs DEF OfMesh
    <2>4. time \in 0 .. NStep
      BY <2>1
    <2> HIDE DEF time
    <2>5. Part(i, x) = [from |-> i, it |-> time, itr |-> itr[i]]
      BY <2>2 DEF time
    <2> QED BY <2>1, <2>3, <2>4, <2>5 DEF PartOf, Parts
  <1> QED BY <1>1, <1>2

\* The calls that send it.
LEMMA OwnCalls ==
  ASSUME NEW i \in Chare, NEW x, NEW p, Part(i, x) = PartOf(i, p)
  PROVE  ComCalls(i, x) = {ComCall(x, p, i, j) : j \in Nbr[i]}
  BY DEF ComCalls, ComCall

\* What a handler does that sends the contributions of a kind.
LEMMA SendsFacts ==
  ASSUME NEW i \in Chare, NEW x
  PROVE  /\ Sends(i, x).calls = ComCalls(i, x)
         /\ Sends(i, x).triggers = {own(x)} \cup (IF Nbr[i] = {} THEN {com(x)} ELSE {})
         /\ \A a : TargetsOn(a, Sends(i, x)) = <<>>
         /\ \A n \in ComCalls(i, x) : n.type = "com" /\ n.kind = x
  BY EffectFacts, ThenFacts, TargetFacts DEF Sends, ComCalls


\* Before chare i has sent its contributions, no neighbour is done with what it gets.
LEMMA NbrsWait ==
  ASSUME NEW c, Ahead(c), NEW x \in Kind, NEW i \in Chare, i \notin Senders(c, x)
  PROVE  \A j \in Nbr[i] : j \in Chare /\ j \notin Past(c, x)
  BY NbrFacts DEF Ahead

\* In a step, they take it.
LEMMA NbrsTake ==
  ASSUME NEW c \in Config, Stages(c), Ahead(c), c.round > 0, NEW x \in StepKind,
         NEW i \in Chare, i \notin Senders(c, x)
  PROVE  Nbr[i] \subseteq Takers(c, x)
  <1> SUFFICES ASSUME NEW j \in Nbr[i] PROVE j \in Takers(c, x)
    OBVIOUS
  <1>1. x \in Kind
    BY KindIs, AboutIs
  <1>2. j \in Chare /\ j \notin Past(c, x)
    BY <1>1, NbrsWait
  <1>3. c.stage[j] \in 7 .. 17
    BY <1>2 DEF Stages
  <1>4. StageOf[x] \in {8, 9, 10}
    BY StageIs
  <1>5. c.stage[j] <= StageOf[x]
    BY <1>2, <1>3, <1>4 DEF Past
  <1> QED BY <1>2, <1>3, <1>4, <1>5 DEF Takers

-----------------------------------------------------------------------------
\* The parts of the invariant.
LEMMA PartsOfInv ==
  ASSUME NEW c, StepsInv(c)
  PROVE  /\ c \in Config /\ Shape /\ Stages(c) /\ Diagnosing(c) /\ Remeshing(c) /\ Ahead(c) /\ Counters(c)
         /\ Expects(c) /\ Contributions(c) /\ Ends(c) /\ Exchanges(c) /\ Waits(c) /\ Volumes(c) /\ Outputs(c)
  BY DEF StepsInv, Levels

\* The members no handler of the middle of a step changes.
StepFrame == UNCHANGED <<it, itr, itf, lastDump, refined, finished>>

\* The buffers zeroed by a handler of chare i in a step.
ZeroesFor(c, i) ==
  IF c.stage[i] = 7 THEN {"aec", "alw", "lim"} ELSE IF c.stage[i] = 8 THEN {"rhs", "dif"} ELSE {}

\* In stage k, it takes the signals of the one and signals its own contributions to the other.
SignalsOnward(i, k) ==
  /\ \A x \in StepKind, j \in Chare :
       /\ trigger'[j][own(x)] = IF j # i \/ StageOf[x] \notin {k, k + 1} THEN trigger[j][own(x)]
                                ELSE IF StageOf[x] = k THEN 0 ELSE trigger[j][own(x)] + 1
       /\ trigger'[j][com(x)] = IF j # i \/ StageOf[x] \notin {k, k + 1} THEN trigger[j][com(x)]
                                ELSE IF StageOf[x] = k THEN 0
                                ELSE IF Nbr[i] = {} THEN trigger[j][com(x)] + 1 ELSE trigger[j][com(x)]
  /\ \A j \in Chare : trigger'[j][own("lhs")] = trigger[j][own("lhs")] /\ trigger'[j][com("lhs")] = trigger[j][com("lhs")]
  /\ \A o \in Object, y \in {"diag", "ref", "lhs", "resize", "disc", "work"} : trigger'[o][done(y)] = trigger[o][done(y)]

\* Chare i goes on from one exchange of a step to the next: it has heard from all
\* neighbours in the last one, and sends its contributions to the next.
StepOnward(c, i) ==
  /\ \A x \in StepKind : StageOf[x] = c.stage[i] => Arrived(x, About(c, x), Senders(c, x), i) = Nbr[i]
  /\ \A x \in Kind :
       OfKind(x)' = IF x \in StepKind /\ StageOf[x] = c.stage[i] + 1 THEN OfKind(x) \cup ComCalls(i, x) ELSE OfKind(x)
  /\ \A n \in msgs' : /\ n \in msgs \/ (n.type = "com" /\ n.kind \in Kind)
                      /\ n.type = "advance" => n.to # i
  /\ count' = count
  /\ \A x \in Kind, j \in Chare : buf'[j][x] = IF j = i /\ x \in ZeroesFor(c, i) THEN {} ELSE buf[j][x]
  /\ SignalsOnward(i, c.stage[i])
  /\ \A a \in Array, j \in Chare : contrib'[a][j] = contrib[a][j]
  /\ StepFrame

\* The exchanges of the step go on.
LEMMA StepExchanges ==
  ASSUME NEW c \in Config, Shape, Stages(c), Diagnosing(c), Remeshing(c), Ahead(c), Counters(c), Exchanges(c),
         NEW i \in Chare, c.round > 0, c.stage[i] \in 7 .. 9, StepOnward(c, i),
         NEW d \in Config, d.stage = [c.stage EXCEPT ![i] = @ + 1], SameRest(c, d)
  PROVE  Exchanges(d)' /\ Ahead(d)
  <1> DEFINE k == c.stage[i]
  <1>1. /\ d.round = c.round /\ d.ref = c.ref /\ d.lhs = c.lhs /\ d.vol = c.vol
        /\ c.round \in Nat \ {0} /\ c.stage \in [Chare -> 0 .. 17]
    BY DEF Config, SameRest
  <1>2. /\ \A x : About(d, x) = About(c, x)
        /\ k \in 7 .. 9 /\ d.stage[i] = k + 1 /\ \A j \in Chare \ {i} : d.stage[j] = c.stage[j]
    BY <1>1, InStep
  <1>3. /\ \A x \in StepKind : StageOf[x] \in {8, 9, 10} /\ x \in Kind \ {"vol"} /\ x \notin {"lhs", "vol"}
        /\ Kind = StepKind \cup {"lhs", "vol"}
    BY StageIs, KindIs
  <1>4. count' = count
    BY DEF StepOnward, SignalsOnward
  <1> HIDE DEF k
  \* Who is how far in the exchanges of the step.
  <1>5. ASSUME NEW x \in StepKind
        PROVE  /\ Senders(d, x) = IF StageOf[x] = k + 1 THEN Senders(c, x) \cup {i} ELSE Senders(c, x)
               /\ i \in Senders(c, x) <=> StageOf[x] <= k
               /\ Takers(d, x) = IF StageOf[x] = k THEN Takers(c, x) \ {i} ELSE Takers(c, x)
               /\ i \in Takers(c, x) <=> StageOf[x] >= k
               /\ \A j \in Zeroed(d, x) : j \in Zeroed(c, x) \/ (j = i /\ k = 7 /\ x \in Emptied)
               /\ k # 7 /\ StageOf[x] # k => Zeroed(d, x) = Zeroed(c, x)
               /\ x \notin Emptied => Zeroed(d, x) = Takers(d, x) /\ Zeroed(c, x) = Takers(c, x)
    <2>1. StageOf[x] \in {8, 9, 10} /\ x \notin {"lhs", "vol"}
      BY <1>3
    <2>2. \A j \in Chare : j \in Senders(c, x) <=> c.stage[j] >= StageOf[x]
      BY <1>1, <2>1 DEF Senders
    <2>3. \A j \in Chare : j \in Senders(d, x) <=> d.stage[j] >= StageOf[x]
      BY <1>1, <2>1 DEF Senders
    <2>4. \A j \in Chare : j \in Takers(c, x) <=> c.stage[j] \in 7 .. StageOf[x]
      BY <1>1, <2>1 DEF Takers
    <2>5. \A j \in Chare : j \in Takers(d, x) <=> d.stage[j] \in 7 .. StageOf[x]
      BY <1>1, <2>1 DEF Takers
    <2>6. i \in Senders(c, x) <=> StageOf[x] <= k
      BY <1>2, <2>1, <2>2 DEF k
    <2>7. i \in Takers(c, x) <=> StageOf[x] >= k
      BY <1>2, <2>1, <2>4 DEF k
    <2>8. \A j \in Chare : j \in Senders(d, x) <=> j \in Senders(c, x) \/ (j = i /\ StageOf[x] = k + 1)
      BY <1>2, <2>1, <2>2, <2>3 DEF k
    <2>9. \A j \in Chare : j \in Takers(d, x) <=> j \in Takers(c, x) /\ ~ (j = i /\ StageOf[x] = k)
      BY <1>2, <2>1, <2>4, <2>5 DEF k
    <2>10. Senders(c, x) \subseteq Chare /\ Senders(d, x) \subseteq Chare /\ Takers(c, x) \subseteq Chare /\ Takers(d, x) \subseteq Chare
      BY ZeroedAre
    <2>11. Senders(d, x) = IF StageOf[x] = k + 1 THEN Senders(c, x) \cup {i} ELSE Senders(c, x)
      BY <2>8, <2>10
    <2>12. Takers(d, x) = IF StageOf[x] = k THEN Takers(c, x) \ {i} ELSE Takers(c, x)
      BY <2>9, <2>10
    <2>13. x \notin Emptied => Zeroed(d, x) = Takers(d, x) /\ Zeroed(c, x) = Takers(c, x)
      BY DEF Zeroed
    <2>14. x \in Emptied => \A j \in Chare : /\ j \in Zeroed(d, x) <=> j \in Takers(d, x) /\ d.stage[j] >= 8
                                             /\ j \in Zeroed(c, x) <=> j \in Takers(c, x) /\ c.stage[j] >= 8
      BY DEF Zeroed
    <2>15. Zeroed(d, x) \subseteq Chare /\ Zeroed(c, x) \subseteq Chare
      BY ZeroedAre
    <2>16. \A j \in Zeroed(d, x) : j \in Zeroed(c, x) \/ (j = i /\ k = 7 /\ x \in Emptied)
      <3> SUFFICES ASSUME NEW j \in Zeroed(d, x)
                   PROVE  j \in Zeroed(c, x) \/ (j = i /\ k = 7 /\ x \in Emptied)
        OBVIOUS
      <3>1. CASE x \in Emptied
        BY <1>2, <2>9, <2>14, <2>15, <3>1 DEF k
      <3>2. CASE x \notin Emptied
        BY <2>9, <2>13, <2>15, <3>2
      <3> QED BY <3>1, <3>2
    <2>17. k # 7 /\ StageOf[x] # k => Zeroed(d, x) = Zeroed(c, x)
      <3> SUFFICES ASSUME k # 7, StageOf[x] # k, NEW j \in Chare
                   PROVE  j \in Zeroed(d, x) <=> j \in Zeroed(c, x)
        BY <2>15
      <3>1. CASE x \in Emptied
        BY <1>2, <2>9, <2>14, <3>1 DEF k
      <3>2. CASE x \notin Emptied
        BY <2>9, <2>13, <3>2
      <3> QED BY <3>1, <3>2
    <2> QED BY <2>6, <2>7, <2>11, <2>12, <2>13, <2>16, <2>17
  \* The exchanges for a mesh are not touched.
  <1>6. ASSUME NEW x \in {"lhs", "vol"} PROVE Traded(d, x)'
    <2>1. SameFor(c, d, x)
      BY <1>1, <1>2, SameMesh
    <2>2. Untouched(x)
      BY <1>3, <1>4 DEF StepOnward, SignalsOnward, Untouched, ZeroesFor
    <2> QED BY <1>3, <2>1, <2>2, TradedKept DEF Exchanges
  \* Those the chare is not to send anything for go on.
  <1>7. ASSUME NEW x \in StepKind, StageOf[x] # k + 1 PROVE Traded(d, x)'
    <2>1. Senders(d, x) = Senders(c, x) /\ About(d, x) = About(c, x) /\ Takers(d, x) \subseteq Takers(c, x)
      BY <1>2, <1>5, <1>7
    <2>2. \A j \in Takers(c, x) \ Takers(d, x) : Arrived(x, About(c, x), Senders(c, x), j) = Nbr[j]
      BY <1>5 DEF StepOnward, SignalsOnward, k
    <2>3. ASSUME NEW j \in Zeroed(d, x)
          PROVE  \/ j \in Zeroed(c, x) /\ buf'[j][x] = buf[j][x]
                 \/ Arrived(x, About(c, x), Senders(c, x), j) = {} /\ buf'[j][x] = {}
      <3>1. j \in Chare /\ x \in Kind /\ Zeroed(d, x) \subseteq Takers(d, x)
        BY <1>3, ZeroedAre
      <3>2. CASE j # i
        BY <1>5, <3>1, <3>2 DEF StepOnward, SignalsOnward
      <3>3. CASE j = i /\ k # 7
        <4>1. j \in Zeroed(c, x)
          BY <1>5, <3>3
        <4>2. StageOf[x] > 8
          BY <1>2, <1>3, <1>5, <1>7, <3>1, <3>3
        <4>3. x \notin ZeroesFor(c, i)
          BY <3>3, <4>2, StageIs DEF ZeroesFor, k
        <4> QED BY <3>1, <4>1, <4>3 DEF StepOnward, SignalsOnward
      <3>4. CASE j = i /\ k = 7
        <4>1. StageOf[x] > 8
          BY <1>3, <1>7, <3>4
        <4>2. x \in ZeroesFor(c, i)
          BY <3>4, <4>1, StageIs DEF ZeroesFor, k
        <4>3. buf'[j][x] = {}
          BY <3>1, <3>4, <4>2 DEF StepOnward, SignalsOnward
        <4>4. "rhs" \in StepKind /\ StageOf["rhs"] = 8 /\ "rhs" \in Kind
          BY KindIs, StageIs
        <4>5. i \notin Senders(c, "rhs")
          BY <1>5, <3>4, <4>4
        <4>6. \A l \in Nbr[i] : l \in Chare /\ l \notin Past(c, "rhs")
          BY <4>4, <4>5, NbrsWait
        <4>7. \A l \in Nbr[i] : l \notin Senders(c, x)
          <5> SUFFICES ASSUME NEW l \in Nbr[i] PROVE l \notin Senders(c, x)
            OBVIOUS
          <5>1. l \in Chare /\ ~ (c.stage[l] > 8)
            BY <1>1, <4>4, <4>6, PastAre
          <5>2. c.stage[l] < StageOf[x]
            BY <1>1, <1>3, <4>1, <5>1
          <5> QED BY <1>1, <1>3, <5>1, <5>2, SendersAre
        <4>8. Arrived(x, About(c, x), Senders(c, x), i) = {}
          BY <4>7 DEF Arrived
        <4> QED BY <3>4, <4>3, <4>8
      <3> QED BY <3>2, <3>3, <3>4
    <2>4. \A j \in Chare :
            \/ /\ j \in Takers(d, x) \/ j \notin Takers(c, x)
               /\ trigger'[j][own(x)] = trigger[j][own(x)]
               /\ trigger'[j][com(x)] = trigger[j][com(x)]
            \/ trigger'[j][own(x)] = 0 /\ trigger'[j][com(x)] = 0
      BY <1>5, <1>7 DEF StepOnward, SignalsOnward, k
    <2>5. OfKind(x)' = OfKind(x)
      BY <1>3, <1>7 DEF StepOnward, SignalsOnward, k
    <2>6. GoesOn(c, d, x)
      BY <1>4, <2>1, <2>2, <2>3, <2>4, <2>5 DEF GoesOn
    <2> QED BY <1>3, <2>6, TradedGoesOn DEF Exchanges
  \* It sends its contributions to the next ones.
  <1>8. ASSUME NEW x \in StepKind, StageOf[x] = k + 1 PROVE Traded(d, x)'
    <2>1. /\ Senders(d, x) = Senders(c, x) \cup {i} /\ i \notin Senders(c, x)
          /\ Takers(d, x) = Takers(c, x) /\ i \in Takers(c, x) /\ About(d, x) = About(c, x)
      BY <1>2, <1>5, <1>8
    <2>2. Zeroed(d, x) = Zeroed(c, x)
      <3>1. CASE k # 7
        BY <1>2, <1>5, <1>8, <3>1
      <3>2. CASE k = 7
        <4>1. x \notin Emptied
          BY <1>8, <3>2, StageIs DEF Emptied
        <4> QED BY <1>5, <2>1, <4>1
      <3> QED BY <3>1, <3>2
    <2>3. OfKind(x)' = OfKind(x) \cup {ComCall(x, About(c, x), i, j) : j \in Nbr[i]}
      <3>1. ~ Made(c, i)
        BY <1>2 DEF Made, k
      <3>2. Part(i, x) = PartOf(i, About(c, x))
        BY <3>1, OwnPart
      <3>3. OfKind(x)' = OfKind(x) \cup ComCalls(i, x)
        BY <1>3, <1>8 DEF StepOnward, SignalsOnward, k
      <3> QED BY <3>2, <3>3, OwnCalls
    <2>4. Nbr[i] \subseteq Takers(c, x)
      BY <2>1, NbrsTake
    <2>5. x \notin ZeroesFor(c, i)
      BY <1>8, StageIs DEF ZeroesFor, k
    <2>6. \A j \in Chare : count'[j][x] = count[j][x] /\ buf'[j][x] = buf[j][x]
      BY <1>3, <1>4, <2>5 DEF StepOnward, SignalsOnward
    <2>7. \A j \in Chare :
            /\ trigger'[j][own(x)] = IF j = i THEN trigger[j][own(x)] + 1 ELSE trigger[j][own(x)]
            /\ trigger'[j][com(x)] = IF j = i /\ Nbr[i] = {} THEN trigger[j][com(x)] + 1
                                                             ELSE trigger[j][com(x)]
      BY <1>2, <1>8 DEF StepOnward, SignalsOnward, k
    <2>8. SendsFor(c, d, x, i)
      BY <2>1, <2>2, <2>3, <2>4, <2>6, <2>7 DEF SendsFor
    <2> QED BY <1>3, <2>8, TradedSends DEF Exchanges
  <1>9. ASSUME NEW x \in Kind \cap {"rhs", "dif"}, NEW j \in Chare \ Takers(d, x) PROVE buf'[j][x] = {}
    <2>1. x \in StepKind /\ StageOf[x] = 8 /\ x \in Kind
      BY KindIs, StageIs
    <2>2. j \notin Takers(c, x) \/ (j = i /\ k = 8)
      BY <1>5, <2>1
    <2>3. j = i /\ k = 8 => x \in ZeroesFor(c, i)
      BY DEF ZeroesFor, k
    <2>4. j \notin Takers(c, x) => buf[j][x] = {}
      BY DEF Exchanges
    <2> QED BY <2>1, <2>2, <2>3, <2>4 DEF StepOnward, SignalsOnward
  <1>10. Exchanges(d)'
    <2>1. d.mesh >= 3 => OfKind("vol")' = {}
      BY <1>3 DEF Exchanges, StepOnward, SameRest
    <2> QED BY <1>3, <1>6, <1>7, <1>8, <1>9, <2>1 DEF Exchanges
  <1>11. Ahead(d)
    <2>1. ASSUME NEW x \in StepKind, NEW j \in Past(d, x) PROVE Nbr[j] \subseteq Senders(d, x)
      <3>1. j \in Chare /\ d.stage[j] > StageOf[x]
        BY <1>3 DEF Past
      <3>2. Senders(c, x) \subseteq Senders(d, x)
        BY <1>5
      <3>3. CASE j = i /\ StageOf[x] = k
        <4>1. Nbr[i] \subseteq Senders(c, x)
          BY <3>3 DEF StepOnward, SignalsOnward, Arrived, k
        <4> QED BY <3>2, <3>3, <4>1
      <3>4. CASE ~ (j = i /\ StageOf[x] = k)
        <4>1. c.stage[j] > StageOf[x]
          BY <1>1, <1>2, <1>3, <3>1, <3>4
        <4>2. j \in Past(c, x)
          BY <1>1, <1>3, <3>1, <4>1 DEF Past
        <4> QED BY <1>3, <3>2, <4>2 DEF Ahead
      <3> QED BY <3>3, <3>4
    <2>2. ASSUME NEW x \in {"lhs", "vol"}, NEW j \in Past(d, x) PROVE Nbr[j] \subseteq Senders(d, x)
      <3>1. j \in Chare
        BY DEF Past
      <3>2. j \in Past(c, x)
        BY <1>1, <3>1, PastAre
      <3>3. SameFor(c, d, x)
        BY <1>1, <1>2, SameMesh
      <3> QED BY <1>3, <3>2, <3>3 DEF Ahead, SameFor
    <2> QED BY <1>3, <2>1, <2>2 DEF Ahead
  <1> QED BY <1>10, <1>11

-----------------------------------------------------------------------------
\* A call that is not sent by a chare to another, nor to the file writer.
Plain(n) == n.type \notin {"com", "write"}

\* What is expected stays expected, and what is called is.
ExpectsOn(c, d) ==
  /\ \A n \in msgs' \ msgs :
       /\ n.type # "write" /\ (n.type = "com" => n.kind \in Kind)
       /\ Plain(n) => n.to \in Chare /\ n = [type |-> n.type, to |-> n.to] /\ Expected(d, n.type, n.to)
  /\ \A n \in msgs' \cap msgs :
       /\ Plain(n) /\ Expected(c, n.type, n.to) => Expected(d, n.type, n.to)
       /\ n.type = "write" => d.stage[n.to] = c.stage[n.to]

\* The calls on their way are still expected.
LEMMA ExpectsGoOn ==
  ASSUME NEW c, NEW d, Expects(c), ExpectsOn(c, d)
  PROVE  Expects(d)'
  <1>1. ASSUME NEW m \in msgs', Plain(m)
        PROVE  m.to \in Chare /\ m = [type |-> m.type, to |-> m.to] /\ Expected(d, m.type, m.to)
    <2>1. CASE m \in msgs
      BY <1>1, <2>1 DEF Expects, ExpectsOn, Plain
    <2>2. CASE m \notin msgs
      BY <1>1, <2>2 DEF ExpectsOn
    <2> QED BY <2>1, <2>2
  <1>2. ASSUME NEW m \in msgs', m.type = "write"
        PROVE  /\ m.to \in Chare
               /\ (d.stage[m.to] = 3 /\ m.then = "init") \/ (d.stage[m.to] = 12 /\ m.then = "step")
               /\ \A n \in msgs' : n.type = "write" /\ n.to = m.to => n = m
    <2>1. \A n \in msgs' : n.type = "write" => n \in msgs
      BY DEF ExpectsOn
    <2>2. m \in msgs /\ d.stage[m.to] = c.stage[m.to]
      BY <1>2, <2>1 DEF ExpectsOn
    <2>3. /\ m.to \in Chare
          /\ (c.stage[m.to] = 3 /\ m.then = "init") \/ (c.stage[m.to] = 12 /\ m.then = "step")
          /\ \A n \in msgs : n.type = "write" /\ n.to = m.to => n = m
      BY <1>2, <2>2 DEF Expects
    <2> QED BY <2>1, <2>2, <2>3
  <1>3. ASSUME NEW m \in msgs', m.type = "com" PROVE m.kind \in Kind
    BY <1>3 DEF Expects, ExpectsOn
  <1> QED BY <1>1, <1>2, <1>3 DEF Expects, Plain, Expected

\* The contributions for the volumes stay complete.
LEMMA VolKept ==
  ASSUME NEW c, NEW d, OfKind("vol")' = OfKind("vol"), About(d, "vol") = About(c, "vol"),
         Senders(d, "vol") = Senders(c, "vol")
  PROVE  \A i \in Chare : Complete("vol", About(d, "vol"), Senders(d, "vol"), i)'
                          = Complete("vol", About(c, "vol"), Senders(c, "vol"), i)
  <1>1. \A i \in Chare : Complete("vol", About(c, "vol"), Senders(c, "vol"), i)'
                         = Complete("vol", About(c, "vol"), Senders(c, "vol"), i)
    BY ArrivedKept
  <1>2. \A i \in Chare : Complete("vol", About(d, "vol"), Senders(d, "vol"), i)'
                         = Complete("vol", About(c, "vol"), Senders(c, "vol"), i)'
    OBVIOUS
  <1> QED BY <1>1, <1>2

\* The rest of the invariant is kept by a step from one exchange to the next.
LEMMA StepKeeps ==
  ASSUME NEW c, StepsInv(c), NEW i \in Chare, c.round > 0, c.stage[i] \in 7 .. 9, StepOnward(c, i),
         NEW d \in Config, d.stage = [c.stage EXCEPT ![i] = @ + 1], SameRest(c, d),
         Shape', Waits(d)', \A j \in Chare : field'[j]["vol"] = field[j]["vol"]
  PROVE  StepsInv(d)'
  <1>1. /\ c \in Config /\ Shape /\ Stages(c) /\ Diagnosing(c) /\ Remeshing(c) /\ Ahead(c) /\ Counters(c)
        /\ Expects(c) /\ Contributions(c) /\ Ends(c) /\ Exchanges(c) /\ Waits(c) /\ Volumes(c) /\ Outputs(c)
    BY PartsOfInv
  <1>2. /\ Stages(d) /\ Diagnosing(d) /\ Remeshing(d)
        /\ \A j \in Chare : Made(d, j) = Made(c, j)
        /\ Base(d) = Base(c) /\ Now(d) = Now(c) /\ \A x : About(d, x) = About(c, x)
    BY <1>1, InStep
  <1>3. /\ c.stage \in [Chare -> 0 .. 17] /\ d.stage[i] = c.stage[i] + 1
        /\ \A j \in Chare \ {i} : d.stage[j] = c.stage[j]
        /\ c.round \in Nat \ {0} /\ d.round = c.round /\ d.ref = c.ref
    BY <1>1 DEF Config, SameRest
  <1>4. Exchanges(d)' /\ Ahead(d)
    BY <1>1, StepExchanges
  <1>5. Levels(d)'
    <2>1. finished' = finished
      BY DEF StepOnward, SignalsOnward, StepFrame
    <2>2. Stages(d)'
      BY <1>2, <2>1 DEF Stages
    <2>3. Diagnosing(d)' /\ Remeshing(d)' /\ Ahead(d)'
      BY <1>2, <1>4 DEF Diagnosing, Remeshing, Ahead, Made, Senders, Past
    <2> QED BY <2>2, <2>3 DEF Levels
  <1>6. Counters(d)'
    <2>1. it' = it /\ itr' = itr
      BY DEF StepOnward, SignalsOnward, StepFrame
    <2> QED BY <1>1, <1>2, <1>3, <2>1 DEF Counters
  <1>7. Expects(d)'
    <2>1. \A n \in msgs' : n \in msgs \/ (n.type = "com" /\ n.kind \in Kind)
      BY DEF StepOnward, SignalsOnward
    <2>2. ASSUME NEW n \in msgs' \cap msgs, Plain(n), Expected(c, n.type, n.to) PROVE Expected(d, n.type, n.to)
      <3>1. n.type = "advance" => n.to # i
        BY DEF StepOnward, SignalsOnward
      <3>2. n.to \in Chare
        BY <1>1, <2>2 DEF Expects, Plain
      <3>3. CASE n.to = i
        BY <1>3, <2>2, <3>1, <3>3 DEF Expected, SameRest
      <3>4. CASE n.to # i
        BY <1>3, <2>2, <3>2, <3>4 DEF Expected, SameRest
      <3> QED BY <3>3, <3>4
    <2>3. ASSUME NEW n \in msgs' \cap msgs, n.type = "write" PROVE d.stage[n.to] = c.stage[n.to]
      <3>1. n.to \in Chare /\ c.stage[n.to] \in {3, 12}
        BY <1>1, <2>3 DEF Expects
      <3> QED BY <1>3, <3>1
    <2>4. ExpectsOn(c, d)
      BY <2>1, <2>2, <2>3 DEF ExpectsOn, Plain
    <2> QED BY <1>1, <2>4, ExpectsGoOn
  <1>8. Contributions(d)'
    <2>1. /\ d.ref = c.ref /\ d.vol = c.vol /\ d.diag = c.diag /\ d.disc = c.disc /\ d.work = c.work
          /\ \A a \in Array, j \in Chare : contrib'[a][j] = contrib[a][j]
          /\ finished' = finished
      BY DEF StepOnward, SignalsOnward, StepFrame, SameRest
    <2>2. \A j \in Chare : \A k \in {1, 14, 16, 17} : d.stage[j] = k <=> c.stage[j] = k
      BY <1>3
    <2>3. OfKind("vol")' = OfKind("vol") /\ SameFor(c, d, "vol")
      BY <1>2, <1>3, SameMesh, KindIs, AboutIs DEF StepOnward, SignalsOnward, SameRest
    <2>4. \A j \in Chare : Complete("vol", About(d, "vol"), Senders(d, "vol"), j)'
                           = Complete("vol", About(c, "vol"), Senders(c, "vol"), j)
      BY <2>3, VolKept DEF SameFor
    <2>5. Array = {"disc", "worker", "refiner", "sync"}
      BY DEF Array
    <2> SUFFICES ASSUME NEW j \in Chare PROVE ContributedBy(d, j)'
      BY DEF Contributions
    <2>6. ContributedBy(c, j)
      BY <1>1 DEF Contributions
    <2> QED BY <2>1, <2>2, <2>4, <2>5, <2>6 DEF ContributedBy
  <1>9. Ends(d)'
    <2>1. /\ \A o \in Object, y \in {"diag", "ref", "lhs", "resize", "disc", "work"} : trigger'[o][done(y)] = trigger[o][done(y)]
          /\ d.diag = c.diag /\ d.ref = c.ref /\ d.lhs = c.lhs /\ d.vol = c.vol /\ d.mesh = c.mesh /\ d.disc = c.disc /\ d.work = c.work
      BY DEF StepOnward, SignalsOnward, SameRest
    <2>2. \A j \in Chare : c.stage[j] = 11 => d.stage[j] = 11
      BY <1>3
    <2> QED BY <1>1, <1>2, <1>3, <2>1, <2>2, ObjectFacts DEF Ends, Ended
  <1>10. Outputs(d)'
    <2>1. UNCHANGED <<it, itf, lastDump, refined>>
      BY DEF StepOnward, SignalsOnward, StepFrame
    <2>2. \A j \in Chare : c.stage[j] # 11 => d.stage[j] # 11
      BY <1>3
    <2> QED BY <1>1, <1>3, <2>1, <2>2 DEF Outputs
  <1>11. Volumes(d)'
    <2>1. d.vol = c.vol
      BY DEF SameRest
    <2> QED BY <1>1, <1>2, <1>3, <2>1 DEF Volumes, VolumesOf
  <1> QED BY <1>4, <1>5, <1>6, <1>7, <1>8, <1>9, <1>10, <1>11 DEF StepsInv

\* The targets of a chare are a sequence.
LEMMA ContribSeq ==
  ASSUME NEW c, Contributions(c)
  PROVE  \A a \in Array, i \in Chare : contrib[a][i] \o <<>> = contrib[a][i]
  <1> SUFFICES ASSUME NEW a \in Array, NEW i \in Chare PROVE contrib[a][i] \o <<>> = contrib[a][i]
    OBVIOUS
  <1>1. a \in {"disc", "worker", "refiner", "sync"} /\ ContributedBy(c, i)
    BY DEF Array, Contributions
  <1>2. contrib["worker"][i] \o <<>> = contrib["worker"][i]
    BY <1>1, TargetFacts DEF ContributedBy
  <1>3. contrib["refiner"][i] \o <<>> = contrib["refiner"][i]
    BY <1>1, TargetFacts DEF ContributedBy
  <1>4. contrib["disc"][i] \o <<>> = contrib["disc"][i]
    BY <1>1, TargetFacts DEF ContributedBy
  <1>5. contrib["sync"][i] \o <<>> = contrib["sync"][i]
    <2>1. contrib["sync"][i] \in Seq({"sync"})
      BY <1>1 DEF ContributedBy
    <2>2. \A s \in Seq({"sync"}) : s \o <<>> = s
      OBVIOUS
    <2> QED BY <2>1, <2>2
  <1> QED BY <1>1, <1>2, <1>3, <1>4, <1>5

-----------------------------------------------------------------------------
\* A wait for a chare's own contributions of a kind and its neighbours' is over.
LEMMA WaitedFor ==
  ASSUME NEW c, Exchanges(c), Shape, NEW i \in Chare, NEW x \in Kind \ {"vol"},
         trigger[i][own(x)] > 0, trigger[i][com(x)] > 0
  PROVE  /\ trigger[i][own(x)] = 1 /\ trigger[i][com(x)] = 1
         /\ i \in Takers(c, x) /\ i \in Senders(c, x)
         /\ Arrived(x, About(c, x), Senders(c, x), i) = Nbr[i]
         /\ i \in Zeroed(c, x) => buf[i][x] = PartsOf(Nbr[i], About(c, x))
  BY DEF Exchanges, Traded, Signalled, Complete, Exchange

\* The shape of the variables, when only fields and buffers change.
LEMMA ShapeOn ==
  ASSUME Shape, CharmShape', count' \in [Chare -> [Kind -> Nat]],
         buf' = [j \in Chare |-> [x \in Kind |-> buf'[j][x]]],
         field' = [j \in Chare |-> [x \in Kind |-> field'[j][x]]],
         \A j \in Chare, x \in Kind : field'[j][x] \subseteq Parts /\ buf'[j][x] \subseteq Parts,
         UNCHANGED <<it, itr, finished>>
  PROVE  Shape'
  BY DEF Shape, NodeShape

\* What the contributions of a chare and of its neighbours make together.
LEMMA FullIs ==
  ASSUME NEW i, NEW p
  PROVE  {PartOf(i, p)} \cup PartsOf(Nbr[i], p) = Full(i, p)
  BY DEF Full, PartsOf

\* Object o contributes what effect e says.
Adds(o, e) ==
  \A a \in Array, j \in Chare :
    contrib'[a][j] = IF j = o THEN contrib[a][j] \o TargetsOn(a, e) ELSE contrib[a][j]

\* A handler that contributes to no reduction.
LEMMA NoTargets ==
  ASSUME NEW c, Contributions(c), NEW i, NEW e, \A a : TargetsOn(a, e) = <<>>, Adds(i, e)
  PROVE  \A a \in Array, j \in Chare : contrib'[a][j] = contrib[a][j]
  <1>1. \A a \in Array, j \in Chare : contrib[a][j] \o <<>> = contrib[a][j]
    BY ContribSeq
  <1> SUFFICES ASSUME NEW a \in Array, NEW j \in Chare PROVE contrib'[a][j] = contrib[a][j]
    OBVIOUS
  <1>2. contrib'[a][j] = IF j = i THEN contrib[a][j] \o TargetsOn(a, e) ELSE contrib[a][j]
    BY DEF Adds
  <1>3. TargetsOn(a, e) = <<>>
    OBVIOUS
  <1> QED BY <1>1, <1>2, <1>3

\* The triggers of a handler that takes those of the set ns and calls those of the set ts.
LEMMA OnwardSignals ==
  ASSUME CharmShape, NEW i \in Chare, NEW k \in 7 .. 9, NEW ns, NEW ts,
         \A x \in Kind \ {"vol"} :
           /\ own(x) \in ns <=> x \in StepKind /\ StageOf[x] = k
           /\ com(x) \in ns <=> x \in StepKind /\ StageOf[x] = k
           /\ own(x) \in ts <=> x \in StepKind /\ StageOf[x] = k + 1
           /\ com(x) \in ts <=> x \in StepKind /\ StageOf[x] = k + 1 /\ Nbr[i] = {},
         \A y \in {"diag", "ref", "lhs", "resize", "disc", "work"} : done(y) \notin ns /\ done(y) \notin ts,
         \A x \in StepKind : StageOf[x] = k => trigger[i][own(x)] = 1 /\ trigger[i][com(x)] = 1,
         \A o \in Object, t \in Trigger :
           trigger'[o][t] = IF o # i THEN trigger[o][t]
                            ELSE (IF t \in ns THEN trigger[o][t] - 1 ELSE trigger[o][t]) + (IF t \in ts THEN 1 ELSE 0)
  PROVE  SignalsOnward(i, k)
  <1>1. /\ \A o \in Object, t \in Trigger : trigger[o][t] \in Int
        /\ \A x \in Kind \ {"vol"} : own(x) \in Trigger /\ com(x) \in Trigger
        /\ \A y \in {"diag", "ref", "lhs", "resize", "disc", "work"} : done(y) \in Trigger
        /\ \A j \in Chare : j \in Object
        /\ \A x \in StepKind : x \in Kind \ {"vol"} /\ StageOf[x] \in {8, 9, 10}
        /\ "lhs" \in Kind \ {"vol"} /\ "lhs" \notin StepKind
    BY TriggerFacts, ObjectFacts, KindIs, StageIs DEF CharmShape
  <1>2. ASSUME NEW x \in StepKind, NEW j \in Chare
        PROVE  trigger'[j][own(x)] = IF j # i \/ StageOf[x] \notin {k, k + 1} THEN trigger[j][own(x)]
                                     ELSE IF StageOf[x] = k THEN 0 ELSE trigger[j][own(x)] + 1
    BY <1>1
  <1>3. ASSUME NEW x \in StepKind, NEW j \in Chare
        PROVE  trigger'[j][com(x)] = IF j # i \/ StageOf[x] \notin {k, k + 1} THEN trigger[j][com(x)]
                                     ELSE IF StageOf[x] = k THEN 0
                                     ELSE IF Nbr[i] = {} THEN trigger[j][com(x)] + 1 ELSE trigger[j][com(x)]
    BY <1>1
  <1>4. \A j \in Chare : trigger'[j][own("lhs")] = trigger[j][own("lhs")] /\ trigger'[j][com("lhs")] = trigger[j][com("lhs")]
    BY <1>1
  <1>5. \A o \in Object, y \in {"diag", "ref", "lhs", "resize", "disc", "work"} : trigger'[o][done(y)] = trigger[o][done(y)]
    BY <1>1
  <1> QED BY <1>2, <1>3, <1>4, <1>5 DEF SignalsOnward

-----------------------------------------------------------------------------
\* What takers are sent is about a time step and mesh of the run.
LEMMA AboutIn ==
  ASSUME NEW c \in Config, Stages(c), Remeshing(c), NEW x \in Kind, NEW i \in Takers(c, x), NEW j \in Chare
  PROVE  PartOf(j, About(c, x)) \in Parts
  <1>1. i \in Chare
    BY ZeroedAre
  <1>2. ASSUME NEW n \in 0 .. NStep, NEW k \in 0 .. NStep, About(c, x) = [it |-> n, itr |-> k]
        PROVE  PartOf(j, About(c, x)) \in Parts
    BY <1>2 DEF PartOf, Parts
  <1>3. CASE x \in StepKind
    <2>1. c.round > 0
      BY <1>1, <1>3, TakersAre, AboutIs
    <2>2. c.round - 1 \in 0 .. NStep /\ Base(c) \in 0 .. NStep
      BY <2>1, RoundFacts
    <2> QED BY <1>2, <1>3, <2>2, AboutIs
  <1>4. CASE x \notin StepKind
    <2>1. x \in {"lhs", "vol"}
      BY <1>4, KindIs, AboutIs
    <2>2. About(c, x) = OfMesh(Now(c))
      BY <2>1, AboutIs
    <2>3. Now(c) \in 0 .. NStep /\ Now(c) * DtFreq \in 0 .. NStep
      <3>1. CASE c.round = 0
        <4>1. Now(c) = 0
          BY <3>1, RoundFacts
        <4>2. 0 * DtFreq = 0 /\ NStep \in Nat
          BY ConstantFacts
        <4> QED BY <4>1, <4>2
      <3>2. CASE c.round # 0
        <4>1. c.round > 0
          BY <3>2, RoundFacts
        <4>2. c.ref[i] = 3
          BY <1>1, <2>1, <3>2, TakersAre
        <4>3. Refines(c.round)
          BY <1>1, <4>2 DEF Remeshing
        <4> QED BY <4>1, <4>3, RoundFacts
      <3> QED BY <3>1, <3>2
    <2> DEFINE time == Now(c) * DtFreq
    <2>4. About(c, x) = [it |-> time, itr |-> Now(c)] /\ time \in 0 .. NStep
      BY <2>2, <2>3 DEF OfMesh
    <2> HIDE DEF time
    <2> QED BY <1>2, <2>3, <2>4
  <1> QED BY <1>3, <1>4

\* Chare i takes the contribution in call m.
TakesFor(c, x, i, m) ==
  /\ Taken(x, i, m)
  /\ x # "vol" => \A k \in Chare :
       /\ trigger'[k][own(x)] = trigger[k][own(x)]
       /\ trigger'[k][com(x)] = IF k = i /\ count[i][x] + 1 = Cardinality(Nbr[i]) THEN trigger[k][com(x)] + 1
                                                                                ELSE trigger[k][com(x)]

\* The exchange goes on, and that chare had not heard from all.
LEMMA TradedTakes ==
  ASSUME NEW c, NEW x, Traded(c, x), NEW i \in Chare, NEW m, TakesFor(c, x, i, m)
  PROVE  /\ Traded(c, x)' /\ i \in Takers(c, x)
         /\ Arrived(x, About(c, x), Senders(c, x), i) # Nbr[i]
         /\ \E j \in Nbr[i] \cap Senders(c, x) : m = ComCall(x, About(c, x), j, i)
         /\ count[i][x] + 1 = Cardinality(Nbr[i]) => Complete(x, About(c, x), Senders(c, x), i)'
         /\ \A k \in Chare \ {i} : Complete(x, About(c, x), Senders(c, x), k)'
                                   = Complete(x, About(c, x), Senders(c, x), k)
  <1> DEFINE p == About(c, x)
             S == Senders(c, x)
             O == Takers(c, x)
             B == Zeroed(c, x)
             last == count[i][x] + 1 = Cardinality(Nbr[i])
  <1>1. B \subseteq Chare
    BY ZeroedAre
  <1>2. Exchange(x, S, O, B, p) /\ (x # "vol" => Signalled(x, S, O, p))
    BY DEF Traded
  <1> HIDE DEF p, S, O, B
  <1>3. /\ Exchange(x, S, O, B, p)'
        /\ i \in O /\ Arrived(x, p, S, i) # Nbr[i] /\ Nbr[i] # {}
        /\ Arrived(x, p, S, i)' = Nbr[i] <=> count[i][x] + 1 = Cardinality(Nbr[i])
        /\ \A k \in Chare \ {i} : Arrived(x, p, S, k)' = Arrived(x, p, S, k)
    <2>1. Taken(x, i, m)
      BY DEF TakesFor
    <2> QED BY <1>1, <1>2, <2>1, ExchangeTakes
  <1>4. x # "vol" => Signalled(x, S, O, p)'
    <2> SUFFICES ASSUME x # "vol" PROVE Signalled(x, S, O, p)'
      OBVIOUS
    <2>1. last \in BOOLEAN /\ (last => Arrived(x, p, S, i)' = Nbr[i])
      BY <1>3
    <2>2. \A k \in Chare :
            /\ trigger'[k][own(x)] = trigger[k][own(x)]
            /\ trigger'[k][com(x)] = IF k = i /\ last THEN trigger[k][com(x)] + 1 ELSE trigger[k][com(x)]
      BY DEF TakesFor
    <2>3. Signalled(x, S, O, p)
      BY <1>2
    <2> HIDE DEF last
    <2> QED BY <1>3, <2>1, <2>2, <2>3, SignalledTakes
  <1>5. \E j \in Nbr[i] \cap S : m = ComCall(x, p, j, i)
    <2>1. m \in OfKind(x) /\ m.to = i
      BY DEF TakesFor, Taken
    <2>2. PICK k \in O : \E j \in Nbr[k] \cap S : m = ComCall(x, p, j, k)
      BY <1>2, <2>1 DEF Exchange
    <2>3. k = i
      BY <2>1, <2>2, CallsDiffer
    <2> QED BY <2>2, <2>3
  <1>6. Traded(c, x)'
    BY <1>3, <1>4 DEF Traded, p, S, O, B
  <1>7. /\ count[i][x] + 1 = Cardinality(Nbr[i]) => Complete(x, p, S, i)'
        /\ \A k \in Chare \ {i} : Complete(x, p, S, k)' = Complete(x, p, S, k)
    BY <1>3 DEF Complete
  <1> QED BY <1>3, <1>5, <1>6, <1>7 DEF p, S, O

\* DiagCG::comlhs, comrhs, comdif, DistFCT::comaec, comalw, comlim, Discretization::comvol:
\* chare i takes a contribution of kind x.
LEMMA ReceiveKeeps ==
  ASSUME NEW c, StepsInv(c), NEW x \in Kind, NEW i, NEW m, NEW e, Receive(i, x, m, e),
         e = IF x = "vol" THEN Contributes("disc", "vol") ELSE Triggers({com(x)})
  PROVE  StepsInv(c)'
  <1> DEFINE last == count[i][x] + 1 = Cardinality(Nbr[i])
             now == IF last THEN e ELSE Nothing
  <1>1. /\ c \in Config /\ Shape /\ Stages(c) /\ Diagnosing(c) /\ Remeshing(c) /\ Ahead(c) /\ Counters(c)
        /\ Expects(c) /\ Contributions(c) /\ Ends(c) /\ Exchanges(c) /\ Waits(c) /\ Volumes(c) /\ Outputs(c)
    BY PartsOfInv
  <1>2. /\ Take(i, m, now) /\ m \in OfKind(x) /\ m.to = i /\ m.type = "com" /\ m.kind = x
        /\ UNCHANGED <<it, itr, finished, itf, lastDump, refined, field>>
        /\ buf' = [buf EXCEPT ![i][x] = @ \cup {m.part}]
        /\ count' = [count EXCEPT ![i][x] = IF last THEN 0 ELSE @ + 1]
    BY DEF Receive, Heard, Is, OfKind, stepVars, fileVars
  <1>3. i \in Chare
    <2>1. PICK k \in Takers(c, x) : \E j \in Nbr[k] \cap Senders(c, x) : m = ComCall(x, About(c, x), j, k)
      BY <1>1, <1>2 DEF Exchanges, Traded, Exchange
    <2>2. k = i
      BY <1>2, <2>1, CallsDiffer
    <2> QED BY <2>1, <2>2, ZeroedAre
  <1>4. /\ now.calls = {} /\ now.posts = {}
        /\ now.triggers = IF last /\ x # "vol" THEN {com(x)} ELSE {}
        /\ \A a : TargetsOn(a, now) = IF last /\ x = "vol" /\ a = "disc" THEN <<"vol">> ELSE <<>>
    <2>1. CASE last /\ x = "vol"
      BY <2>1, EffectFacts, PostsFacts
    <2>2. CASE last /\ x # "vol"
      BY <2>2, EffectFacts, PostsFacts
    <2>3. CASE ~ last
      BY <2>3, EffectFacts, PostsFacts
    <2> QED BY <2>1, <2>2, <2>3
  <1> HIDE DEF now
  <1>5. /\ CharmShape' /\ msgs' = msgs \ {m}
        /\ \A k \in Object, t \in Trigger :
             trigger'[k][t] = IF k = i /\ t \in now.triggers THEN trigger[k][t] + 1 ELSE trigger[k][t]
        /\ \A a \in Array, j \in Chare :
             contrib'[a][j] = IF j = i THEN contrib[a][j] \o TargetsOn(a, now) ELSE contrib[a][j]
        /\ \A j \in Chare, w \in Wait : Due(j, w)' = Due(j, w)
    <2>1. CharmShape /\ i \in Object
      BY <1>1, <1>3, ObjectFacts DEF Shape
    <2>2. /\ CharmShape' /\ msgs' = (msgs \ {m}) \cup now.calls
          /\ \A k \in Object, t \in Trigger :
               trigger'[k][t] = IF k = i /\ t \in now.triggers THEN trigger[k][t] + 1 ELSE trigger[k][t]
          /\ \A a \in Array, j \in Chare :
               contrib'[a][j] = IF j = i THEN contrib[a][j] \o TargetsOn(a, now) ELSE contrib[a][j]
          /\ \A k \in Object, w \in Wait : Due(k, w)' = IF k = i /\ w \in now.posts THEN Due(k, w) + 1 ELSE Due(k, w)
      BY <1>2, <2>1, TakeFacts
    <2> QED BY <1>4, <2>2, ObjectFacts
  <1>6. /\ \A y : OfKind(y)' = IF y = x THEN OfKind(y) \ {m} ELSE OfKind(y)
        /\ \A n \in msgs' : n \in msgs
    BY <1>2, <1>5 DEF OfKind
  <1>7. /\ \A j \in Chare, y \in Kind : buf'[j][y] = IF j = i /\ y = x THEN buf[j][y] \cup {m.part} ELSE buf[j][y]
        /\ buf' = [j \in Chare |-> [y \in Kind |-> buf'[j][y]]]
    <2>1. NodeShape
      BY <1>1 DEF Shape
    <2>2. buf[i] = [y \in Kind |-> buf[i][y]]
      BY <1>3, <2>1 DEF NodeShape
    <2> DEFINE g == [buf[i] EXCEPT ![x] = @ \cup {m.part}]
    <2>3. /\ g = [y \in Kind |-> g[y]]
          /\ \A y \in Kind : g[y] = IF y = x THEN buf[i][y] \cup {m.part} ELSE buf[i][y]
      BY <2>2
    <2>4. buf' = [buf EXCEPT ![i] = g]
      BY <1>2
    <2> HIDE DEF g
    <2> QED BY <1>3, <2>1, <2>3, <2>4, BufSet
  <1>8. /\ \A j \in Chare, y \in Kind :
             count'[j][y] = IF j = i /\ y = x THEN IF last THEN 0 ELSE count[j][y] + 1 ELSE count[j][y]
        /\ count' \in [Chare -> [Kind -> Nat]]
    <2>1. count \in [Chare -> [Kind -> Nat]]
      BY <1>1 DEF Shape, NodeShape
    <2>2. count[i][x] + 1 \in Nat
      BY <1>3, <2>1
    <2> HIDE DEF last
    <2> DEFINE g == [count[i] EXCEPT ![x] = IF last THEN 0 ELSE @ + 1]
    <2>3. /\ g \in [Kind -> Nat]
          /\ \A y \in Kind : g[y] = IF y = x THEN IF last THEN 0 ELSE count[i][y] + 1 ELSE count[i][y]
      BY <1>3, <2>1, <2>2
    <2>4. count' = [count EXCEPT ![i] = g]
      BY <1>2
    <2> HIDE DEF g
    <2> QED BY <1>3, <2>1, <2>3, <2>4
  <1>9. TakesFor(c, x, i, m)
    <2>1. Taken(x, i, m)
      <3>1. m \in OfKind(x) /\ m.to = i /\ OfKind(x)' = OfKind(x) \ {m}
        BY <1>2, <1>6
      <3>2. \A k \in Chare : buf'[k][x] = IF k # i THEN buf[k][x] ELSE buf[k][x] \cup {m.part}
        BY <1>7
      <3>3. \A k \in Chare : count'[k][x] = IF k # i THEN count[k][x]
                                            ELSE IF count[k][x] + 1 = Cardinality(Nbr[k]) THEN 0
                                            ELSE count[k][x] + 1
        <4> SUFFICES ASSUME NEW k \in Chare
                     PROVE  count'[k][x] = IF k # i THEN count[k][x]
                                           ELSE IF count[k][x] + 1 = Cardinality(Nbr[k]) THEN 0
                                           ELSE count[k][x] + 1
          OBVIOUS
        <4>1. count'[k][x] = IF k = i THEN IF last THEN 0 ELSE count[k][x] + 1 ELSE count[k][x]
          BY <1>8
        <4> QED BY <4>1
      <3> QED BY <3>1, <3>2, <3>3 DEF Taken
    <2>2. ASSUME x # "vol", NEW k \in Chare
          PROVE  /\ trigger'[k][own(x)] = trigger[k][own(x)]
                 /\ trigger'[k][com(x)] = IF k = i /\ last THEN trigger[k][com(x)] + 1 ELSE trigger[k][com(x)]
      <3>1. own(x) \in Trigger /\ com(x) \in Trigger /\ k \in Object
        BY <2>2, TriggerFacts, ObjectFacts
      <3>2. own(x) \notin now.triggers /\ (com(x) \in now.triggers <=> last)
        BY <1>4, <2>2, TriggersDiffer
      <3> QED BY <1>5, <3>1, <3>2
    <2> QED BY <2>1, <2>2 DEF TakesFor
  <1>10. /\ Traded(c, x)' /\ i \in Takers(c, x)
         /\ Arrived(x, About(c, x), Senders(c, x), i) # Nbr[i]
         /\ \E j \in Nbr[i] \cap Senders(c, x) : m = ComCall(x, About(c, x), j, i)
         /\ last => Complete(x, About(c, x), Senders(c, x), i)'
         /\ \A k \in Chare \ {i} : Complete(x, About(c, x), Senders(c, x), k)'
                                   = Complete(x, About(c, x), Senders(c, x), k)
    <2>1. Traded(c, x)
      BY <1>1 DEF Exchanges
    <2> QED BY <1>3, <1>9, <2>1, TradedTakes
  <1> HIDE DEF last
  <1>11. ASSUME NEW y \in Kind, y # x PROVE Traded(c, y)'
    <2>1. SameFor(c, c, y)
      BY DEF SameFor
    <2>2. \A k \in Chare : y # "vol" => trigger'[k][own(y)] = trigger[k][own(y)] /\ trigger'[k][com(y)] = trigger[k][com(y)]
      <3> SUFFICES ASSUME NEW k \in Chare, y # "vol"
                   PROVE  trigger'[k][own(y)] = trigger[k][own(y)] /\ trigger'[k][com(y)] = trigger[k][com(y)]
        OBVIOUS
      <3>1. own(y) \in Trigger /\ com(y) \in Trigger /\ k \in Object
        BY TriggerFacts, ObjectFacts
      <3>2. own(y) \notin now.triggers /\ com(y) \notin now.triggers
        BY <1>4, <1>11, TriggersDiffer
      <3> QED BY <1>5, <3>1, <3>2
    <2>3. Untouched(y)
      BY <1>6, <1>7, <1>8, <1>11, <2>2 DEF Untouched
    <2>4. Traded(c, y)
      BY <1>1 DEF Exchanges
    <2> QED BY <2>1, <2>3, <2>4, TradedKept
  <1>12. Exchanges(c)'
    <2>1. \A y \in Kind : Traded(c, y)'
      BY <1>10, <1>11
    <2>2. ASSUME NEW y \in Kind \cap {"rhs", "dif"}, NEW j \in Chare \ Takers(c, y) PROVE buf'[j][y] = {}
      <3>1. y \in Kind /\ buf[j][y] = {}
        BY <1>1, KindIs DEF Exchanges
      <3> QED BY <1>7, <1>10, <3>1
    <2>3. c.mesh >= 3 => OfKind("vol")' = {}
      BY <1>1, <1>6 DEF Exchanges
    <2> QED BY <2>1, <2>2, <2>3 DEF Exchanges
  <1>13. Shape'
    <2>1. m.part \in Parts
      <3>1. PICK j \in Nbr[i] \cap Senders(c, x) : m = ComCall(x, About(c, x), j, i)
        BY <1>10
      <3>2. m.part = PartOf(j, About(c, x)) /\ j \in Chare
        BY <1>3, <3>1, CallsDiffer, NbrFacts
      <3> QED BY <1>1, <1>10, <3>2, AboutIn
    <2>2. \A j \in Chare, y \in Kind : field[j][y] \subseteq Parts /\ buf[j][y] \subseteq Parts
      BY <1>1 DEF Shape
    <2>3. \A j \in Chare, y \in Kind : field'[j][y] \subseteq Parts /\ buf'[j][y] \subseteq Parts
      BY <1>2, <1>7, <2>1, <2>2
    <2>4. field' = [j \in Chare |-> [y \in Kind |-> field'[j][y]]]
      BY <1>1, <1>2 DEF Shape, NodeShape
    <2>5. UNCHANGED <<it, itr, finished>>
      BY <1>2
    <2> QED BY <1>1, <1>5, <1>7, <1>8, <2>3, <2>4, <2>5, ShapeOn
  <1>14. Expects(c)'
    <2>1. ExpectsOn(c, c)
      BY <1>6 DEF ExpectsOn
    <2> QED BY <1>1, <2>1, ExpectsGoOn
  <1>15. Ends(c)'
    <2>1. \A o \in Object, y \in {"diag", "ref", "lhs", "resize", "disc", "work"} : trigger'[o][done(y)] = trigger[o][done(y)]
      <3> SUFFICES ASSUME NEW o \in Object, NEW y \in {"diag", "ref", "lhs", "resize", "disc", "work"}
                   PROVE  trigger'[o][done(y)] = trigger[o][done(y)]
        OBVIOUS
      <3>1. done(y) \in Trigger
        BY TriggerFacts
      <3>2. done(y) \notin now.triggers
        BY <1>4, TriggersDiffer
      <3> QED BY <1>5, <3>1, <3>2
    <2> QED BY <1>1, <2>1, ObjectFacts DEF Ends, Ended
  <1>16. Contributions(c)'
    <2> SUFFICES ASSUME NEW j \in Chare PROVE ContributedBy(c, j)'
      BY DEF Contributions
    <2>1. ContributedBy(c, j) /\ finished' = finished
      BY <1>1, <1>2 DEF Contributions
    <2>2. CASE x # "vol" \/ j # i
      <3>1. \A a \in Array : contrib'[a][j] = contrib[a][j]
        <4> SUFFICES ASSUME NEW a \in Array PROVE contrib'[a][j] = contrib[a][j]
          OBVIOUS
        <4>1. contrib[a][j] \o <<>> = contrib[a][j]
          BY <1>1, ContribSeq
        <4>2. x # "vol" => TargetsOn(a, now) = <<>>
          BY <1>4
        <4> QED BY <1>5, <2>2, <4>1, <4>2
      <3>2. Complete("vol", About(c, "vol"), Senders(c, "vol"), j)'
            = Complete("vol", About(c, "vol"), Senders(c, "vol"), j)
        <4>1. CASE x # "vol"
          BY <1>6, <4>1, VolKept
        <4>2. CASE x = "vol"
          BY <1>10, <2>2, <4>2
        <4> QED BY <4>1, <4>2
      <3>3. \A a \in {"disc", "worker", "refiner", "sync"} : contrib'[a][j] = contrib[a][j]
        BY <3>1 DEF Array
      <3> QED BY <2>1, <3>2, <3>3 DEF ContributedBy
    <2>3. CASE x = "vol" /\ j = i
      <3>1. c.mesh = 2
        <4>1. \E k \in Chare : c.vol[k] >= 2
          BY <1>10, <2>3, ZeroedAre, SendersAre
        <4>2. c.mesh < 3
          BY <1>1, <1>2, <2>3 DEF Exchanges, Config
        <4> QED BY <1>1, <4>1, <4>2 DEF Remeshing, Config
      <3>2. c.vol[i] \in {1, 2} /\ c.disc /\ c.ref[i] = 3 /\ c.stage[i] = 11
        <4>1. c.vol[i] \in {1, 2} /\ c.disc /\ c.ref[i] = 3
          BY <1>1, <1>3, <3>1 DEF Remeshing
        <4>2. Made(c, i) /\ Refines(c.round)
          BY <1>1, <1>3, <4>1 DEF Remeshing
        <4>3. ~ (c.stage[i] >= 12) /\ c.stage[i] \in 0 .. 17
          BY <1>1, <1>3, <4>1, <4>2 DEF Remeshing, Config
        <4> QED BY <4>1, <4>2, <4>3 DEF Made
      <3>3. contrib["disc"][i] = <<>>
        <4>1. contrib["disc"][i] \in {<<>>, <<"vol">>}
          BY <2>1, <2>3, <3>2 DEF ContributedBy
        <4>2. ~ Complete("vol", About(c, "vol"), Senders(c, "vol"), i)
          BY <1>10, <2>3 DEF Complete
        <4> QED BY <2>1, <2>3, <4>1, <4>2 DEF ContributedBy
      <3>4. contrib'["disc"][i] = IF last THEN <<"vol">> ELSE <<>>
        BY <1>3, <1>4, <1>5, <2>3, <3>3, TargetFacts DEF Array
      <3>5. \A a \in {"worker", "refiner", "sync"} : contrib'[a][i] = contrib[a][i]
        <4> SUFFICES ASSUME NEW a \in {"worker", "refiner", "sync"} PROVE contrib'[a][i] = contrib[a][i]
          OBVIOUS
        <4>1. a \in Array /\ contrib[a][i] \o <<>> = contrib[a][i]
          BY <1>1, <1>3, ContribSeq DEF Array
        <4>2. TargetsOn(a, now) = <<>>
          BY <1>4
        <4> QED BY <1>3, <1>5, <4>1, <4>2
      <3>6. contrib'["disc"][i] = <<"vol">> => Complete("vol", About(c, "vol"), Senders(c, "vol"), i)'
        BY <1>10, <2>3, <3>4
      <3> QED BY <2>1, <2>3, <3>2, <3>4, <3>5, <3>6 DEF ContributedBy
    <2> QED BY <2>2, <2>3
  <1>17. Levels(c)' /\ Counters(c)' /\ Volumes(c)'
    <2>1. finished' = finished /\ field' = field /\ it' = it /\ itr' = itr
      BY <1>2
    <2>2. Stages(c)' /\ Diagnosing(c)' /\ Remeshing(c)' /\ Ahead(c)'
      BY <1>1, <2>1 DEF Stages, Diagnosing, Remeshing, Ahead, Made, Senders, Past
    <2>3. Counters(c)'
      BY <1>1, <2>1 DEF Counters, Made
    <2>4. Volumes(c)'
      BY <1>1, <2>1 DEF Volumes, VolumesOf
    <2> QED BY <1>1, <2>2, <2>3, <2>4 DEF Levels
  <1>18. Outputs(c)' /\ Waits(c)'
    BY <1>1, <1>2, <1>5 DEF Outputs, Waits, Open
  <1> QED BY <1>12, <1>13, <1>14, <1>15, <1>16, <1>17, <1>18 DEF StepsInv

-----------------------------------------------------------------------------
\* A handler that has nothing to do with contributions to fields.
Frame ==
  /\ UNCHANGED <<it, itr, field, buf, count>>
  /\ \A x \in Kind : OfKind(x)' = OfKind(x)
  /\ \A x \in Kind \ {"vol"}, i \in Chare :
       trigger'[i][own(x)] = trigger[i][own(x)] /\ trigger'[i][com(x)] = trigger[i][com(x)]

\* Nor goes the chare on to another stage of a step, or with lhs.
Alongside(c, d) ==
  /\ d.round = c.round
  /\ \A i \in Chare :
       /\ \/ d.stage[i] = c.stage[i]
          \/ /\ d.stage[i] >= c.stage[i]
             /\ \/ {c.stage[i], d.stage[i]} \subseteq 0 .. 4
                \/ c.round > 0 /\ {c.stage[i], d.stage[i]} \subseteq 11 .. 17
       /\ \/ d.lhs[i] = c.lhs[i]
          \/ {c.lhs[i], d.lhs[i]} \subseteq 0 .. 1

\* What it does is to be told from what there was, but not by contributions.
Alike(c, d) ==
  /\ Alongside(c, d)
  /\ \A i \in Chare :
       /\ d.ref[i] = 3 <=> c.ref[i] = 3
       /\ \/ d.vol[i] = c.vol[i]
          \/ \E s \in {0 .. 1, 2 .. 3, 4 .. 6} : {c.vol[i], d.vol[i]} \subseteq s
  /\ d.mesh >= 3 => OfKind("vol") = {}

\* The chare has the same waits.
SameWaits(c, d, i) ==
  /\ \A k \in {0, 17} : d.stage[i] = k <=> c.stage[i] = k
  /\ c.round > 0 => (d.stage[i] <= 11 <=> c.stage[i] <= 11)
  /\ d.ref[i] = 3 <=> c.ref[i] = 3

\* Who waits for what is the same,
LEMMA OpenKept ==
  ASSUME NEW c \in Config, NEW d \in Config, Alongside(c, d), NEW i \in Chare, SameWaits(c, d, i)
  PROVE  \A w : i \in Open(d, w) <=> i \in Open(c, w)
  <1>1. /\ c.stage[i] \in 0 .. 17 /\ d.stage[i] \in 0 .. 17 /\ c.round \in Nat /\ d.round = c.round
        /\ c.lhs[i] \in 0 .. 3 /\ d.lhs[i] \in 0 .. 3
    BY DEF Config, Alongside
  <1>2. /\ d.stage[i] \in 1 .. 5 <=> c.stage[i] \in 1 .. 5
        /\ d.stage[i] = 17 <=> c.stage[i] = 17
        /\ c.round > 0 => /\ \A k \in 8 .. 10 : d.stage[i] \in 7 .. k <=> c.stage[i] \in 7 .. k
                          /\ \A k \in 8 .. 10 : d.stage[i] \in 8 .. k <=> c.stage[i] \in 8 .. k
                          /\ d.stage[i] \in 7 .. 11 <=> c.stage[i] \in 7 .. 11
    BY <1>1 DEF Alongside, SameWaits
  <1>3. (d.ref[i] = 3 <=> c.ref[i] = 3) /\ (d.lhs[i] <= 2 <=> c.lhs[i] <= 2)
    BY <1>1 DEF Alongside, SameWaits
  <1> QED BY <1>1, <1>2, <1>3 DEF Open

\* and so are the waits posted.
LEMMA WaitsKept ==
  ASSUME NEW c \in Config, NEW d \in Config, Waits(c), Alongside(c, d),
         \A i \in Chare : SameWaits(c, d, i),
         \A i \in Chare, w \in Wait : Due(i, w)' = Due(i, w)
  PROVE  Waits(d)'
  <1>1. \A i \in Chare, w \in Wait : i \in Open(d, w) <=> i \in Open(c, w)
    BY OpenKept
  <1> QED BY <1>1 DEF Waits, Open

\* The outputs of the chares are as late as they were.
LEMMA OutputsKept ==
  ASSUME NEW c \in Config, NEW d \in Config, Outputs(c), Alongside(c, d), UNCHANGED <<it, itf, lastDump, refined>>
  PROVE  Outputs(d)'
  <1>1. \A i \in Chare : c.stage[i] \in 0 .. 17 /\ d.stage[i] \in 0 .. 17 /\ c.round \in Nat /\ d.round = c.round
    BY DEF Config, Alongside
  <1>2. \A i \in Chare : /\ c.stage[i] >= 3 => d.stage[i] >= 3
                         /\ c.stage[i] # 11 => d.stage[i] # 11
    BY <1>1 DEF Alongside
  <1> QED BY <1>1, <1>2 DEF Outputs

\* Contributions are about the same step and mesh,
LEMMA AlikeAbout ==
  ASSUME NEW c, NEW d, Alike(c, d)
  PROVE  Base(d) = Base(c) /\ Now(d) = Now(c) /\ \A x : About(d, x) = About(c, x)
  BY DEF Alike, Alongside, Base, Now, About

\* and the chares as far with them,
LEMMA AlikeFor ==
  ASSUME NEW c \in Config, NEW d \in Config, Alike(c, d), NEW x \in Kind
  PROVE  SameFor(c, d, x)
  <1>1. About(d, x) = About(c, x)
    BY AlikeAbout
  <1>2. ASSUME NEW j \in Chare
        PROVE  /\ j \in Senders(d, x) <=> j \in Senders(c, x)
               /\ j \in Takers(d, x) <=> j \in Takers(c, x)
               /\ c.stage[j] \in 7 .. 10 => d.stage[j] = c.stage[j]
    <2>1. /\ c.stage[j] \in 0 .. 17 /\ d.stage[j] \in 0 .. 17 /\ c.round \in Nat /\ d.round = c.round
          /\ c.lhs[j] \in 0 .. 3 /\ d.lhs[j] \in 0 .. 3 /\ c.vol[j] \in 0 .. 6 /\ d.vol[j] \in 0 .. 6
      BY DEF Config, Alike, Alongside
    <2>2. /\ \A k \in {5, 8, 9, 10} : d.stage[j] >= k <=> c.stage[j] >= k
          /\ d.stage[j] <= 5 <=> c.stage[j] <= 5
          /\ c.round > 0 => \A k \in {8, 9, 10} : d.stage[j] \in 7 .. k <=> c.stage[j] \in 7 .. k
          /\ c.stage[j] \in 7 .. 10 => d.stage[j] = c.stage[j]
      BY <2>1 DEF Alike, Alongside
    <2>3. /\ d.ref[j] = 3 <=> c.ref[j] = 3
          /\ d.lhs[j] >= 2 <=> c.lhs[j] >= 2
          /\ d.lhs[j] <= 2 <=> c.lhs[j] <= 2
          /\ d.vol[j] >= 2 <=> c.vol[j] >= 2
          /\ d.vol[j] <= 3 <=> c.vol[j] <= 3
      BY <2>1 DEF Alike, Alongside
    <2>4. j \in Senders(d, x) <=> j \in Senders(c, x)
      <3>1. CASE x \in StepKind
        BY <2>1, <2>2, <3>1, StageIs, SendersAre
      <3>2. CASE x \in {"lhs", "vol"}
        BY <2>1, <2>2, <2>3, <3>2, SendersAre
      <3> QED BY <3>1, <3>2, KindIs
    <2>5. j \in Takers(d, x) <=> j \in Takers(c, x)
      <3>1. CASE x \in StepKind
        BY <2>1, <2>2, <3>1, StageIs, TakersAre
      <3>2. CASE x \in {"lhs", "vol"}
        BY <2>1, <2>2, <2>3, <3>2, TakersAre
      <3> QED BY <3>1, <3>2, KindIs
    <2> QED BY <2>2, <2>4, <2>5
  <1>3. ASSUME NEW j \in Chare PROVE j \in Zeroed(d, x) <=> j \in Zeroed(c, x)
    <2>1. CASE x \notin Emptied
      BY <1>2, <2>1 DEF Zeroed
    <2>2. CASE x \in Emptied
      <3>1. j \in Zeroed(d, x) <=> j \in Takers(d, x) /\ d.stage[j] >= 8
        BY <2>2 DEF Zeroed
      <3>2. j \in Zeroed(c, x) <=> j \in Takers(c, x) /\ c.stage[j] >= 8
        BY <2>2 DEF Zeroed
      <3>3. j \in Takers(c, x) => c.stage[j] \in 7 .. 10
        <4>1. x \in StepKind
          BY <2>2, KindIs DEF Emptied
        <4> QED BY <4>1, StageIs, TakersAre
      <3> QED BY <1>2, <3>1, <3>2, <3>3
    <2> QED BY <2>1, <2>2
  <1> QED BY <1>1, <1>2, <1>3, SameForIf

\* so that exchanges, fields and counters keep what is true of them,
LEMMA AlikeKeeps ==
  ASSUME NEW c \in Config, NEW d \in Config, Exchanges(c), Volumes(c), Counters(c), Shape,
         Alike(c, d), Frame, CharmShape', finished' \in BOOLEAN
  PROVE  Exchanges(d)' /\ Volumes(d)' /\ Counters(d)' /\ Shape'
  <1>1. Exchanges(d)'
    <2>1. ASSUME NEW x \in Kind PROVE Traded(d, x)'
      <3>1. Untouched(x)
        BY DEF Frame, Untouched
      <3> QED BY <3>1, AlikeFor, TradedKept DEF Exchanges
    <2>2. ASSUME NEW x \in Kind \cap {"rhs", "dif"}, NEW i \in Chare \ Takers(d, x) PROVE buf'[i][x] = {}
      <3>1. SameFor(c, d, x)
        BY AlikeFor, KindIs
      <3> QED BY <3>1 DEF SameFor, Exchanges, Frame
    <2>3. d.mesh >= 3 => OfKind("vol")' = {}
      BY KindIs DEF Alike, Frame
    <2> QED BY <2>1, <2>2, <2>3 DEF Exchanges
  <1>2. Volumes(d)'
    <2> SUFFICES ASSUME NEW i \in Chare PROVE VolumesOf(d, i)'
      BY DEF Volumes
    <2>1. VolumesOf(c, i) /\ field' = field
      BY DEF Volumes, Frame
    <2>2. Base(d) = Base(c) /\ Now(d) = Now(c)
      BY AlikeAbout
    <2>3. c.vol[i] \in 0 .. 6 /\ d.vol[i] \in 0 .. 6
      BY DEF Config
    <2>4. /\ d.ref[i] = 3 <=> c.ref[i] = 3
          /\ d.vol[i] <= 1 <=> c.vol[i] <= 1
          /\ d.vol[i] <= 3 <=> c.vol[i] <= 3
      BY <2>3 DEF Alike
    <2> QED BY <2>1, <2>2, <2>4 DEF VolumesOf
  <1>3. Counters(d)'
    <2>1. Base(d) = Base(c) /\ it' = it /\ itr' = itr /\ d.round = c.round
      BY AlikeAbout DEF Frame, Alike, Alongside
    <2>2. \A i \in Chare : (d.stage[i] >= 11 <=> c.stage[i] >= 11) /\ (d.ref[i] = 3 <=> c.ref[i] = 3)
      BY DEF Alike, Alongside, Config
    <2> QED BY <2>1, <2>2 DEF Counters, Made
  <1>4. Shape'
    BY DEF Shape, NodeShape, Frame
  <1> QED BY <1>1, <1>2, <1>3, <1>4

\* neighbours have sent,
LEMMA AlikeAhead ==
  ASSUME NEW c \in Config, NEW d \in Config, Alike(c, d), Ahead(c),
         \A i \in Chare : d.vol[i] >= 3 => c.vol[i] >= 3
  PROVE  Ahead(d)
  <1> SUFFICES ASSUME NEW x \in Kind, NEW i \in Past(d, x) PROVE Nbr[i] \subseteq Senders(d, x)
    BY DEF Ahead
  <1>1. i \in Chare
    BY DEF Past
  <1>2. /\ c.stage[i] \in 0 .. 17 /\ d.stage[i] \in 0 .. 17 /\ c.round \in Nat /\ d.round = c.round
        /\ c.lhs[i] \in 0 .. 3 /\ d.lhs[i] \in 0 .. 3
    BY <1>1 DEF Config, Alike, Alongside
  <1>3. /\ \A k \in {5, 8, 9, 10} : d.stage[i] > k => c.stage[i] > k
        /\ d.lhs[i] = 3 => c.lhs[i] = 3
        /\ d.vol[i] >= 3 => c.vol[i] >= 3
    BY <1>1, <1>2 DEF Alike, Alongside
  <1>4. i \in Past(c, x)
    <2>1. CASE x \in StepKind
      BY <1>1, <1>2, <1>3, <2>1, StageIs, PastAre
    <2>2. CASE x \in {"lhs", "vol"}
      BY <1>1, <1>2, <1>3, <2>2, PastAre
    <2> QED BY <2>1, <2>2, KindIs
  <1>5. SameFor(c, d, x)
    BY AlikeFor
  <1> QED BY <1>4, <1>5 DEF Ahead, SameFor

\* Then the rest of the invariant is what is left to show.
LEMMA AlikeInv ==
  ASSUME NEW c, StepsInv(c), NEW d \in Config, Alike(c, d), Frame, CharmShape', finished' \in BOOLEAN,
         Stages(d)', Diagnosing(d), Remeshing(d), Ahead(d), Expects(d)', Contributions(d)', Ends(d)',
         Waits(d)', Outputs(d)'
  PROVE  \E b : StepsInv(b)' /\ Alongside(c, b)
  <1>1. c \in Config /\ Shape /\ Counters(c) /\ Exchanges(c) /\ Volumes(c)
    BY PartsOfInv
  <1>2. Exchanges(d)' /\ Volumes(d)' /\ Counters(d)' /\ Shape'
    BY <1>1, AlikeKeeps
  <1>3. Levels(d)'
    <2>1. Diagnosing(d)' /\ Remeshing(d)' /\ Ahead(d)'
      BY DEF Diagnosing, Remeshing, Ahead, Made, Senders, Past
    <2> QED BY <2>1 DEF Levels
  <1>4. StepsInv(d)'
    BY <1>2, <1>3 DEF StepsInv
  <1> QED BY <1>4 DEF Alike

\* The members of a configuration, chare by chare.
Becomes(c, d, s, g, r, l, v) ==
  /\ d.stage = s /\ d.diag = g /\ d.ref = r /\ d.lhs = l /\ d.vol = v
  /\ d.round = c.round /\ d.mesh = c.mesh /\ d.started = c.started /\ d.diagnosed = c.diagnosed
  /\ d.disc = c.disc /\ d.work = c.work

\* There is a configuration with any of them.
LEMMA ConfigSet ==
  ASSUME NEW c \in Config, NEW s \in [Chare -> 0 .. 17], NEW g \in [Chare -> 0 .. 3],
         NEW r \in [Chare -> 0 .. 3], NEW l \in [Chare -> 0 .. 3], NEW v \in [Chare -> 0 .. 6]
  PROVE  \E d \in Config : Becomes(c, d, s, g, r, l, v)
  <1> DEFINE d == [c EXCEPT !.stage = s, !.diag = g, !.ref = r, !.lhs = l, !.vol = v]
  <1>1. d \in Config /\ Becomes(c, d, s, g, r, l, v)
    BY DEF Config, Becomes
  <1> HIDE DEF d
  <1> QED BY <1>1

\* What an object does that takes a call other than a contribution.
LEMMA PlainTake ==
  ASSUME NEW c, StepsInv(c), NEW m \in msgs, Plain(m), NEW e, Take(m.to, m, e),
         UNCHANGED <<it, itr, field, buf, count>>,
         \A n \in e.calls : n.type # "com", \A t \in e.triggers : \E y : t = done(y)
  PROVE  /\ m.to \in Chare /\ m = [type |-> m.type, to |-> m.to] /\ Expected(c, m.type, m.to)
         /\ Frame /\ CharmShape'
         /\ msgs' = (msgs \ {m}) \cup e.calls
         /\ \A o \in Object, y \in {"diag", "ref", "lhs", "resize", "disc", "work"} :
              trigger'[o][done(y)] = IF o = m.to /\ done(y) \in e.triggers THEN trigger[o][done(y)] + 1
                                                                           ELSE trigger[o][done(y)]
         /\ Adds(m.to, e)
         /\ \A j \in Chare, w \in Wait : Due(j, w)' = IF j = m.to /\ w \in e.posts THEN Due(j, w) + 1 ELSE Due(j, w)
  <1>1. m.to \in Chare /\ m = [type |-> m.type, to |-> m.to] /\ Expected(c, m.type, m.to)
    BY PartsOfInv DEF Expects, Plain
  <1>2. CharmShape /\ m.to \in Object
    BY <1>1, PartsOfInv, ObjectFacts DEF Shape
  <1>3. /\ CharmShape'
        /\ msgs' = (msgs \ {m}) \cup e.calls
        /\ \A k \in Object, t \in Trigger :
             trigger'[k][t] = IF k = m.to /\ t \in e.triggers THEN trigger[k][t] + 1 ELSE trigger[k][t]
        /\ \A a \in Array, i \in Chare :
             contrib'[a][i] = IF i = m.to THEN contrib[a][i] \o TargetsOn(a, e) ELSE contrib[a][i]
        /\ \A k \in Object, w \in Wait : Due(k, w)' = IF k = m.to /\ w \in e.posts THEN Due(k, w) + 1 ELSE Due(k, w)
    BY <1>2, TakeFacts
  <1>4. Frame
    <2>1. ASSUME NEW x \in Kind PROVE OfKind(x)' = OfKind(x)
      BY <1>3 DEF OfKind, Plain
    <2>2. ASSUME NEW x \in Kind \ {"vol"}, NEW i \in Chare
          PROVE  trigger'[i][own(x)] = trigger[i][own(x)] /\ trigger'[i][com(x)] = trigger[i][com(x)]
      <3>1. own(x) \in Trigger /\ com(x) \in Trigger /\ i \in Object
        BY TriggerFacts, ObjectFacts
      <3>2. own(x) \notin e.triggers /\ com(x) \notin e.triggers
        BY TriggersDiffer
      <3> QED BY <1>3, <3>1, <3>2
    <2> QED BY <2>1, <2>2 DEF Frame
  <1> QED BY <1>1, <1>3, <1>4, TriggerFacts, ObjectFacts DEF Adds

\* What an object does that goes on after one of the waits that end something.
LEMMA PlainRun ==
  ASSUME NEW c, StepsInv(c), NEW o \in Object, NEW w \in {"out", "resize"}, NEW e, Run(o, w, e),
         UNCHANGED <<it, itr, field, buf, count>>,
         \A n \in e.calls : n.type # "com", e.triggers = {}
  PROVE  /\ Frame /\ CharmShape'
         /\ msgs' = msgs \cup e.calls
         /\ \A y \in {"diag", "ref", "lhs", "resize", "disc", "work"} :
              /\ done(y) \in Needs[w] => trigger[o][done(y)] > 0
              /\ \A k \in Object : trigger'[k][done(y)] = IF k = o /\ done(y) \in Needs[w] THEN trigger[k][done(y)] - 1
                                                                                           ELSE trigger[k][done(y)]
         /\ Adds(o, e)
         /\ \A j \in Chare, v \in Wait :
              Due(j, v)' = IF j # o THEN Due(j, v)
                           ELSE (IF v = w THEN Due(j, v) - 1 ELSE Due(j, v)) + (IF v \in e.posts THEN 1 ELSE 0)
  <1>1. CharmShape /\ w \in Wait
    BY PartsOfInv, WaitFacts DEF Shape
  <1>2. /\ CharmShape' /\ msgs' = msgs \cup e.calls
        /\ \A t \in Needs[w] : t \in Trigger /\ trigger[o][t] > 0
        /\ \A k \in Object, t \in Trigger :
             trigger'[k][t] = IF k # o THEN trigger[k][t]
                              ELSE (IF t \in Needs[w] THEN trigger[k][t] - 1 ELSE trigger[k][t])
                                   + (IF t \in e.triggers THEN 1 ELSE 0)
        /\ \A a \in Array, j \in Chare :
             contrib'[a][j] = IF j = o THEN contrib[a][j] \o TargetsOn(a, e) ELSE contrib[a][j]
        /\ \A k \in Object, v \in Wait :
             Due(k, v)' = IF k # o THEN Due(k, v)
                          ELSE (IF v = w THEN Due(k, v) - 1 ELSE Due(k, v)) + (IF v \in e.posts THEN 1 ELSE 0)
    BY <1>1, RunFacts
  <1>3. \A k \in Object, t \in Trigger :
          trigger'[k][t] = IF k = o /\ t \in Needs[w] THEN trigger[k][t] - 1 ELSE trigger[k][t]
    BY <1>1, <1>2 DEF CharmShape
  <1>4. \A x : own(x) \notin Needs[w] /\ com(x) \notin Needs[w]
    <2>1. Needs[w] \subseteq {done(y) : y \in {"diag", "ref", "lhs", "resize", "disc", "work"}}
      BY WaitFacts
    <2> QED BY <2>1, TriggersDiffer
  <1>5. Frame
    <2>1. ASSUME NEW x \in Kind PROVE OfKind(x)' = OfKind(x)
      BY <1>2 DEF OfKind
    <2>2. ASSUME NEW x \in Kind \ {"vol"}, NEW i \in Chare
          PROVE  trigger'[i][own(x)] = trigger[i][own(x)] /\ trigger'[i][com(x)] = trigger[i][com(x)]
      <3>1. own(x) \in Trigger /\ com(x) \in Trigger /\ i \in Object
        BY TriggerFacts, ObjectFacts
      <3> QED BY <1>3, <1>4, <3>1
    <2> QED BY <2>1, <2>2 DEF Frame
  <1> QED BY <1>2, <1>3, <1>5, TriggerFacts, ObjectFacts DEF Adds

\* A reduction.
LEMMA PlainReduce ==
  ASSUME NEW c, StepsInv(c), NEW a \in Array, NEW r, NEW e, Reduce(a, r, e),
         UNCHANGED <<it, itr, field, buf, count>>,
         \A n \in e.calls : n.type # "com"
  PROVE  /\ Frame /\ CharmShape'
         /\ msgs' = msgs \cup e.calls
         /\ \A o \in Object, y \in {"diag", "ref", "lhs", "resize", "disc", "work"} :
              trigger'[o][done(y)] = IF o = Host /\ done(y) \in e.triggers THEN trigger[o][done(y)] + 1
                                                                           ELSE trigger[o][done(y)]
         /\ \A i \in Chare : contrib[a][i] # <<>> /\ Head(contrib[a][i]) = r
         /\ \A b \in Array, i \in Chare : contrib'[b][i] = IF b = a THEN Tail(contrib[b][i]) ELSE contrib[b][i]
         /\ \A j \in Chare, w \in Wait : Due(j, w)' = Due(j, w)
  <1>1. CharmShape
    BY PartsOfInv DEF Shape
  <1>2. /\ CharmShape'
        /\ msgs' = msgs \cup e.calls
        /\ \A i \in Chare : contrib[a][i] # <<>> /\ Head(contrib[a][i]) = r
        /\ \A k \in Object, t \in Trigger :
             trigger'[k][t] = IF k = Host /\ t \in e.triggers THEN trigger[k][t] + 1 ELSE trigger[k][t]
        /\ \A b \in Array, i \in Chare : contrib'[b][i] = IF b = a THEN Tail(contrib[b][i]) ELSE contrib[b][i]
        /\ \A k \in Object, w \in Wait : Due(k, w)' = IF k = Host /\ w \in e.posts THEN Due(k, w) + 1 ELSE Due(k, w)
    BY <1>1, ReduceFacts
  <1>3. Frame
    <2>1. ASSUME NEW x \in Kind PROVE OfKind(x)' = OfKind(x)
      BY <1>2 DEF OfKind
    <2>2. ASSUME NEW x \in Kind \ {"vol"}, NEW i \in Chare
          PROVE  trigger'[i][own(x)] = trigger[i][own(x)] /\ trigger'[i][com(x)] = trigger[i][com(x)]
      <3>1. own(x) \in Trigger /\ com(x) \in Trigger /\ i \in Object /\ i # Host
        BY TriggerFacts, ObjectFacts
      <3> QED BY <1>2, <3>1
    <2> QED BY <2>1, <2>2 DEF Frame
  <1> QED BY <1>2, <1>3, TriggerFacts, ObjectFacts

-----------------------------------------------------------------------------
\* The calls of q are taken, and those of s made.
Handled(c, d, q, s) ==
  /\ msgs' = (msgs \ q) \cup s
  /\ \A n \in s :
       \/ Plain(n) /\ n.to \in Chare /\ n = [type |-> n.type, to |-> n.to] /\ Expected(d, n.type, n.to)
       \/ /\ n.type = "write" /\ s = {n} /\ n.to \in Chare /\ c.stage[n.to] \notin {3, 12}
          /\ (d.stage[n.to] = 3 /\ n.then = "init") \/ (d.stage[n.to] = 12 /\ n.then = "step")
  /\ \A t : \A j \in Chare : Expected(c, t, j) /\ [type |-> t, to |-> j] \notin q => Expected(d, t, j)
  /\ \A j \in Chare : c.stage[j] \in {3, 12} => d.stage[j] = c.stage[j]

\* The calls on their way are expected after it.
LEMMA HandledExpects ==
  ASSUME NEW c, NEW d, Expects(c), NEW q, NEW s, Handled(c, d, q, s)
  PROVE  Expects(d)'
  <1>1. ASSUME NEW m \in msgs', Plain(m)
        PROVE  m.to \in Chare /\ m = [type |-> m.type, to |-> m.to] /\ Expected(d, m.type, m.to)
    <2>1. CASE m \in s
      BY <1>1, <2>1 DEF Handled, Plain
    <2>2. CASE m \notin s
      <3>1. m \in msgs /\ m \notin q
        BY <2>2 DEF Handled
      <3>2. m.to \in Chare /\ m = [type |-> m.type, to |-> m.to] /\ Expected(c, m.type, m.to)
        BY <1>1, <3>1 DEF Expects, Plain
      <3> QED BY <3>1, <3>2 DEF Handled
    <2> QED BY <2>1, <2>2
  <1>2. ASSUME NEW m \in msgs', m.type = "write"
        PROVE  /\ m.to \in Chare
               /\ (d.stage[m.to] = 3 /\ m.then = "init") \/ (d.stage[m.to] = 12 /\ m.then = "step")
               /\ \A n \in msgs' : n.type = "write" /\ n.to = m.to => n = m
    <2>1. ASSUME NEW n \in msgs, n.type = "write"
          PROVE  /\ n.to \in Chare /\ c.stage[n.to] \in {3, 12}
                 /\ (c.stage[n.to] = 3 /\ n.then = "init") \/ (c.stage[n.to] = 12 /\ n.then = "step")
                 /\ \A k \in msgs : k.type = "write" /\ k.to = n.to => k = n
      BY <2>1 DEF Expects
    <2>2. ASSUME NEW n \in s, n.type = "write"
          PROVE  /\ s = {n} /\ n.to \in Chare /\ c.stage[n.to] \notin {3, 12}
                 /\ (d.stage[n.to] = 3 /\ n.then = "init") \/ (d.stage[n.to] = 12 /\ n.then = "step")
      BY <2>2 DEF Handled, Plain
    <2>3. \A n \in msgs' : n \in s \/ n \in msgs
      BY DEF Handled
    <2>4. CASE m \in s
      <3>1. /\ m.to \in Chare
            /\ (d.stage[m.to] = 3 /\ m.then = "init") \/ (d.stage[m.to] = 12 /\ m.then = "step")
        BY <1>2, <2>2, <2>4
      <3>2. ASSUME NEW n \in msgs', n.type = "write", n.to = m.to PROVE n = m
        BY <1>2, <2>1, <2>2, <2>3, <2>4, <3>2
      <3> QED BY <1>2, <2>2, <2>4, <3>1, <3>2
    <2>5. CASE m \notin s
      <3>1. m \in msgs
        BY <2>3, <2>5
      <3>2. d.stage[m.to] = c.stage[m.to]
        BY <1>2, <2>1, <3>1 DEF Handled
      <3>3. ASSUME NEW n \in msgs', n.type = "write", n.to = m.to PROVE n = m
        BY <1>2, <2>1, <2>2, <2>3, <3>1, <3>3
      <3> QED BY <1>2, <2>1, <3>1, <3>2, <3>3
    <2> QED BY <2>4, <2>5
  <1>3. ASSUME NEW m \in msgs', m.type = "com" PROVE m.kind \in Kind
    BY <1>3 DEF Expects, Handled, Plain
  <1> QED BY <1>1, <1>2, <1>3 DEF Expects, Plain, Expected

\* A chare has contributed to the same reductions.
SameContribs(c, d, j) ==
  /\ \A k \in {1, 14, 16, 17} : d.stage[j] = k <=> c.stage[j] = k
  /\ d.ref[j] = 3 <=> c.ref[j] = 3
  /\ d.ref[j] = 1 <=> c.ref[j] = 1
  /\ d.diag[j] = 1 <=> c.diag[j] = 1
  /\ d.vol[j] \in {1, 2} <=> c.vol[j] \in {1, 2}
  /\ d.vol[j] = 4 <=> c.vol[j] = 4
  /\ d.work = c.work /\ d.disc = c.disc

\* who has the volumes of all neighbours is the same,
LEMMA AlikeVol ==
  ASSUME NEW c \in Config, NEW d \in Config, Alike(c, d), Frame
  PROVE  \A j \in Chare : Complete("vol", About(d, "vol"), Senders(d, "vol"), j)'
                          = Complete("vol", About(c, "vol"), Senders(c, "vol"), j)
  <1>1. "vol" \in Kind
    BY KindIs
  <1>2. SameFor(c, d, "vol")
    BY <1>1, AlikeFor
  <1>3. OfKind("vol")' = OfKind("vol")
    BY <1>1 DEF Frame
  <1> QED BY <1>2, <1>3, VolKept DEF SameFor

\* and the contributions of a chare that has made none are right.
LEMMA ContribsKept ==
  ASSUME NEW c \in Config, NEW d \in Config, Alike(c, d), Frame, Contributions(c), finished' = finished,
         NEW j \in Chare, SameContribs(c, d, j), \A a \in Array : contrib'[a][j] = contrib[a][j]
  PROVE  ContributedBy(d, j)'
  <1>1. ContributedBy(c, j)
    BY DEF Contributions
  <1>2. Complete("vol", About(d, "vol"), Senders(d, "vol"), j)' = Complete("vol", About(c, "vol"), Senders(c, "vol"), j)
    BY AlikeVol
  <1> QED BY <1>1, <1>2 DEF ContributedBy, SameContribs, Array

\* The signals of the end of the step.
Ending(c, d) ==
  /\ \A i \in Chare, y \in {"diag", "ref", "lhs", "resize"} :
       \/ trigger'[i][done(y)] = trigger[i][done(y)] /\ (Ended(c, i, y) => Ended(d, i, y))
       \/ trigger'[i][done(y)] = trigger[i][done(y)] + 1 /\ ~ Ended(c, i, y) /\ Ended(d, i, y)
       \/ trigger'[i][done(y)] = 0
  /\ \A y \in {"disc", "work"} : trigger'[Host][done(y)] = trigger[Host][done(y)]
  /\ d.disc /\ d.mesh = 1 <=> c.disc /\ c.mesh = 1
  /\ d.work /\ d.mesh = 1 <=> c.work /\ c.mesh = 1

\* They are right after it.
LEMMA EndingEnds ==
  ASSUME NEW c, NEW d, Ends(c), Ending(c, d)
  PROVE  Ends(d)'
  <1>1. ASSUME NEW i \in Chare, NEW y \in {"diag", "ref", "lhs", "resize"}
        PROVE  trigger'[i][done(y)] \in {0, 1} /\ (trigger'[i][done(y)] = 1 => Ended(d, i, y))
    <2>1. trigger[i][done(y)] \in {0, 1} /\ (trigger[i][done(y)] = 1 => Ended(c, i, y))
      BY DEF Ends
    <2> QED BY <2>1 DEF Ending
  <1>2. /\ trigger'[Host][done("disc")] = IF d.disc /\ d.mesh = 1 THEN 1 ELSE 0
        /\ trigger'[Host][done("work")] = IF d.work /\ d.mesh = 1 THEN 1 ELSE 0
    BY DEF Ends, Ending
  <1> QED BY <1>1, <1>2 DEF Ends, Ended, Made

\* DiagCG::diag, ALECG::diag: the diagnostics of the step are done.
LEMMA DiagKeeps ==
  ASSUME NEW c, StepsInv(c), NEW m \in msgs, NEW i, i = m.to, Signal(i, m, "diag", "diag")
  PROVE  \E d : StepsInv(d)' /\ Alongside(c, d)
  <1> DEFINE e == Triggers({done("diag")})
  <1>1. /\ c \in Config /\ Shape /\ Stages(c) /\ Diagnosing(c) /\ Remeshing(c) /\ Ahead(c) /\ Counters(c)
        /\ Expects(c) /\ Contributions(c) /\ Ends(c) /\ Exchanges(c) /\ Waits(c) /\ Volumes(c) /\ Outputs(c)
    BY PartsOfInv
  <1>2. /\ Take(i, m, e) /\ m.type = "diag"
        /\ UNCHANGED <<stepVars, fileVars, refined, nodeVars>>
    BY DEF Signal, Is
  <1>3. e.calls = {} /\ e.triggers = {done("diag")} /\ \A a : TargetsOn(a, e) = <<>> /\ e.posts = {}
    BY EffectFacts, PostsFacts
  <1> HIDE DEF e
  <1>4. /\ i \in Chare /\ m = [type |-> "diag", to |-> i] /\ Expected(c, "diag", i)
        /\ Frame /\ CharmShape'
        /\ msgs' = (msgs \ {m}) \cup e.calls
        /\ \A o \in Object, y \in {"diag", "ref", "lhs", "resize", "disc", "work"} :
             trigger'[o][done(y)] = IF o = i /\ done(y) \in e.triggers THEN trigger[o][done(y)] + 1
                                                                       ELSE trigger[o][done(y)]
        /\ Adds(i, e)
        /\ \A j \in Chare, w \in Wait : Due(j, w)' = Due(j, w)
    <2>1. UNCHANGED <<it, itr, field, buf, count>> /\ Plain(m)
      BY <1>2 DEF stepVars, nodeVars, Plain
    <2> QED BY <1>2, <1>3, <2>1, PlainTake
  <1>5. c.diag[i] = 2 /\ c.diag \in [Chare -> 0 .. 3]
    BY <1>1, <1>4 DEF Expected, Config
  <1>6. PICK d \in Config : Becomes(c, d, c.stage, [c.diag EXCEPT ![i] = 3], c.ref, c.lhs, c.vol)
    <2>1. [c.diag EXCEPT ![i] = 3] \in [Chare -> 0 .. 3]
      BY <1>4, <1>5
    <2> QED BY <1>1, <2>1, ConfigSet DEF Config
  <1>7. /\ d.round = c.round /\ d.stage = c.stage /\ d.ref = c.ref /\ d.lhs = c.lhs /\ d.vol = c.vol
        /\ d.mesh = c.mesh /\ d.started = c.started /\ d.diagnosed = c.diagnosed /\ d.disc = c.disc /\ d.work = c.work
        /\ d.diag[i] = 3 /\ \A j \in Chare \ {i} : d.diag[j] = c.diag[j]
    BY <1>4, <1>5, <1>6 DEF Becomes
  <1>8. finished' = finished /\ UNCHANGED <<it, itf, lastDump, refined>>
    BY <1>2 DEF stepVars, fileVars
  <1>9. Alike(c, d)
    <2>1. c.mesh >= 3 => OfKind("vol") = {}
      BY <1>1 DEF Exchanges
    <2> QED BY <1>7, <2>1 DEF Alike, Alongside
  <1>10. Stages(d)' /\ Remeshing(d)
    BY <1>1, <1>7, <1>8 DEF Stages, Remeshing, Made
  <1>11. Diagnosing(d)
    BY <1>1, <1>5, <1>7 DEF Diagnosing, Made
  <1>12. Ahead(d)
    BY <1>1, <1>7, <1>9, AlikeAhead
  <1>13. Expects(d)'
    <2>1. ASSUME NEW t, NEW j \in Chare, Expected(c, t, j), [type |-> t, to |-> j] \notin {m} PROVE Expected(d, t, j)
      BY <1>4, <1>7, <2>1 DEF Expected
    <2>2. Handled(c, d, {m}, e.calls)
      BY <1>3, <1>4, <1>7, <2>1 DEF Handled
    <2> QED BY <1>1, <2>2, HandledExpects
  <1>14. Contributions(d)'
    <2> SUFFICES ASSUME NEW j \in Chare PROVE ContributedBy(d, j)'
      BY DEF Contributions
    <2>1. \A a \in Array : contrib'[a][j] = contrib[a][j]
      BY <1>1, <1>3, <1>4, NoTargets
    <2>2. SameContribs(c, d, j)
      BY <1>5, <1>7 DEF SameContribs
    <2> QED BY <1>1, <1>4, <1>8, <1>9, <2>1, <2>2, ContribsKept
  <1>15. Ends(d)'
    <2>1. ASSUME NEW j \in Chare, NEW y \in {"diag", "ref", "lhs", "resize"}
          PROVE  \/ trigger'[j][done(y)] = trigger[j][done(y)] /\ (Ended(c, j, y) => Ended(d, j, y))
                 \/ trigger'[j][done(y)] = trigger[j][done(y)] + 1 /\ ~ Ended(c, j, y) /\ Ended(d, j, y)
      <3>1. CASE j = i /\ y = "diag"
        <4>1. Ended(d, j, y) /\ ~ Ended(c, j, y)
          <5>1. c.stage[i] \in 0 .. 17 /\ c.round \in Nat
            BY <1>1, <1>4 DEF Config
          <5> QED BY <1>1, <1>4, <1>5, <1>7, <3>1, <5>1 DEF Ended, Diagnosing, Made
        <4> QED BY <1>3, <1>4, <3>1, <4>1, ObjectFacts
      <3>2. CASE ~ (j = i /\ y = "diag")
        <4>1. Ended(c, j, y) => Ended(d, j, y)
          BY <1>7, <3>2 DEF Ended, Made
        <4>2. trigger'[j][done(y)] = trigger[j][done(y)]
          BY <1>3, <1>4, <3>2, ObjectFacts, TriggersDiffer
        <4> QED BY <4>1, <4>2
      <3> QED BY <3>1, <3>2
    <2>2. Ending(c, d)
      BY <1>3, <1>4, <1>7, <2>1, ObjectFacts, TriggersDiffer DEF Ending
    <2> QED BY <1>1, <2>2, EndingEnds
  <1>16. Outputs(d)'
    BY <1>1, <1>8, <1>9, OutputsKept DEF Alike
  <1>19. Waits(d)'
    <2>1. \A j \in Chare : SameWaits(c, d, j)
      BY <1>5, <1>6, <1>7, <1>9 DEF SameWaits, Alike, Alongside
    <2> QED BY <1>1, <1>4, <1>9, <2>1, WaitsKept DEF Alike
  <1> QED BY <1>1, <1>4, <1>6, <1>8, <1>9, <1>10, <1>11, <1>12, <1>13, <1>14, <1>15, <1>16, <1>19, AlikeInv DEF Shape

\* DiagCG::resized, ALECG::resized: all chares have their new volumes.
LEMMA ResizedKeeps ==
  ASSUME NEW c, StepsInv(c), NEW m \in msgs, NEW i, i = m.to, Signal(i, m, "resized", "resize")
  PROVE  \E d : StepsInv(d)' /\ Alongside(c, d)
  <1> DEFINE e == Triggers({done("resize")})
  <1>1. /\ c \in Config /\ Shape /\ Stages(c) /\ Diagnosing(c) /\ Remeshing(c) /\ Ahead(c) /\ Counters(c)
        /\ Expects(c) /\ Contributions(c) /\ Ends(c) /\ Exchanges(c) /\ Waits(c) /\ Volumes(c) /\ Outputs(c)
    BY PartsOfInv
  <1>2. /\ Take(i, m, e) /\ m.type = "resized"
        /\ UNCHANGED <<stepVars, fileVars, refined, nodeVars>>
    BY DEF Signal, Is
  <1>3. e.calls = {} /\ e.triggers = {done("resize")} /\ \A a : TargetsOn(a, e) = <<>> /\ e.posts = {}
    BY EffectFacts, PostsFacts
  <1> HIDE DEF e
  <1>4. /\ i \in Chare /\ m = [type |-> "resized", to |-> i] /\ Expected(c, "resized", i)
        /\ Frame /\ CharmShape'
        /\ msgs' = (msgs \ {m}) \cup e.calls
        /\ \A o \in Object, y \in {"diag", "ref", "lhs", "resize", "disc", "work"} :
             trigger'[o][done(y)] = IF o = i /\ done(y) \in e.triggers THEN trigger[o][done(y)] + 1
                                                                       ELSE trigger[o][done(y)]
        /\ Adds(i, e)
        /\ \A j \in Chare, w \in Wait : Due(j, w)' = Due(j, w)
    <2>1. UNCHANGED <<it, itr, field, buf, count>> /\ Plain(m)
      BY <1>2 DEF stepVars, nodeVars, Plain
    <2> QED BY <1>2, <1>3, <2>1, PlainTake
  <1>5. /\ c.vol[i] = 5 /\ c.vol \in [Chare -> 0 .. 6] /\ c.stage[i] \in 0 .. 17
        /\ c.mesh = 4 /\ Refines(c.round) /\ Made(c, i) /\ c.stage[i] = 11
    <2>1. c.vol[i] = 5 /\ c.vol \in [Chare -> 0 .. 6] /\ c.stage[i] \in 0 .. 17 /\ c.mesh \in 0 .. 4
      BY <1>1, <1>4 DEF Expected, Config
    <2>2. c.mesh = 4
      BY <1>1, <1>4, <2>1 DEF Remeshing
    <2>3. Refines(c.round) /\ Made(c, i)
      BY <1>1, <1>4, <2>2 DEF Remeshing
    <2>4. c.stage[i] = 11
      BY <1>1, <1>4, <2>1, <2>3 DEF Remeshing, Made
    <2> QED BY <2>1, <2>2, <2>3, <2>4
  <1>6. PICK d \in Config : Becomes(c, d, c.stage, c.diag, c.ref, c.lhs, [c.vol EXCEPT ![i] = 6])
    <2>1. [c.vol EXCEPT ![i] = 6] \in [Chare -> 0 .. 6]
      BY <1>4, <1>5
    <2> QED BY <1>1, <2>1, ConfigSet DEF Config
  <1>7. /\ d.round = c.round /\ d.stage = c.stage /\ d.diag = c.diag /\ d.ref = c.ref /\ d.lhs = c.lhs
        /\ d.mesh = c.mesh /\ d.started = c.started /\ d.diagnosed = c.diagnosed /\ d.disc = c.disc /\ d.work = c.work
        /\ d.vol[i] = 6 /\ \A j \in Chare \ {i} : d.vol[j] = c.vol[j]
    BY <1>4, <1>5, <1>6 DEF Becomes
  <1>8. finished' = finished /\ UNCHANGED <<it, itf, lastDump, refined>>
    BY <1>2 DEF stepVars, fileVars
  <1>9. Alike(c, d)
    <2>1. c.mesh >= 3 => OfKind("vol") = {}
      BY <1>1 DEF Exchanges
    <2>2. {c.vol[i], d.vol[i]} \subseteq 4 .. 6
      BY <1>5, <1>7
    <2> QED BY <1>7, <2>1, <2>2 DEF Alike, Alongside
  <1>10. Stages(d)' /\ Diagnosing(d)
    BY <1>1, <1>7, <1>8 DEF Stages, Diagnosing, Made
  <1>11. Remeshing(d)
    BY <1>1, <1>5, <1>7 DEF Remeshing, Made
  <1>12. Ahead(d)
    <2>1. \A j \in Chare : d.vol[j] >= 3 => c.vol[j] >= 3
      BY <1>5, <1>7
    <2> QED BY <1>1, <1>9, <2>1, AlikeAhead
  <1>13. Expects(d)'
    <2>1. ASSUME NEW t, NEW j \in Chare, Expected(c, t, j), [type |-> t, to |-> j] \notin {m} PROVE Expected(d, t, j)
      BY <1>4, <1>7, <2>1 DEF Expected
    <2>2. Handled(c, d, {m}, e.calls)
      BY <1>3, <1>4, <1>7, <2>1 DEF Handled
    <2> QED BY <1>1, <2>2, HandledExpects
  <1>14. Contributions(d)'
    <2> SUFFICES ASSUME NEW j \in Chare PROVE ContributedBy(d, j)'
      BY DEF Contributions
    <2>1. \A a \in Array : contrib'[a][j] = contrib[a][j]
      BY <1>1, <1>3, <1>4, NoTargets
    <2>2. SameContribs(c, d, j)
      BY <1>5, <1>7 DEF SameContribs
    <2> QED BY <1>1, <1>4, <1>8, <1>9, <2>1, <2>2, ContribsKept
  <1>15. Ends(d)'
    <2>1. ASSUME NEW j \in Chare, NEW y \in {"diag", "ref", "lhs", "resize"}
          PROVE  \/ trigger'[j][done(y)] = trigger[j][done(y)] /\ (Ended(c, j, y) => Ended(d, j, y))
                 \/ trigger'[j][done(y)] = trigger[j][done(y)] + 1 /\ ~ Ended(c, j, y) /\ Ended(d, j, y)
      <3>1. CASE j = i /\ y = "resize"
        <4>1. Ended(d, j, y) /\ ~ Ended(c, j, y)
          BY <1>5, <1>7, <3>1 DEF Ended, Made
        <4> QED BY <1>3, <1>4, <3>1, <4>1, ObjectFacts
      <3>2. CASE ~ (j = i /\ y = "resize")
        <4>1. Ended(c, j, y) => Ended(d, j, y)
          BY <1>7, <3>2 DEF Ended, Made
        <4>2. trigger'[j][done(y)] = trigger[j][done(y)]
          BY <1>3, <1>4, <3>2, ObjectFacts, TriggersDiffer
        <4> QED BY <4>1, <4>2
      <3> QED BY <3>1, <3>2
    <2>2. Ending(c, d)
      BY <1>3, <1>4, <1>7, <2>1, ObjectFacts, TriggersDiffer DEF Ending
    <2> QED BY <1>1, <2>2, EndingEnds
  <1>16. Outputs(d)'
    BY <1>1, <1>8, <1>9, OutputsKept DEF Alike
  <1>19. Waits(d)'
    <2>1. \A j \in Chare : SameWaits(c, d, j)
      BY <1>5, <1>6, <1>7, <1>9 DEF SameWaits, Alike, Alongside
    <2> QED BY <1>1, <1>4, <1>9, <2>1, WaitsKept DEF Alike
  <1> QED BY <1>1, <1>4, <1>6, <1>8, <1>9, <1>10, <1>11, <1>12, <1>13, <1>14, <1>15, <1>16, <1>19, AlikeInv DEF Shape

\* Nothing happens that the invariant is about.
LEMMA NothingKeeps ==
  ASSUME NEW c, StepsInv(c),
         UNCHANGED <<msgs, trigger, contrib, it, itr, itf, lastDump, refined, field, buf, count, finished>>,
         \A o \in Object, w \in Wait : Due(o, w)' = Due(o, w),
         posting' \in [Object -> [Wait -> Int]], waiting' \in [Object -> [Wait -> Int]]
  PROVE  StepsInv(c)'
  <1>1. /\ c \in Config /\ Shape /\ Stages(c) /\ Diagnosing(c) /\ Remeshing(c) /\ Ahead(c) /\ Counters(c)
        /\ Expects(c) /\ Contributions(c) /\ Ends(c) /\ Exchanges(c) /\ Waits(c) /\ Volumes(c) /\ Outputs(c)
    BY PartsOfInv
  <1>2. Shape'
    BY <1>1 DEF Shape, CharmShape, NodeShape
  <1>7. Counters(c)' /\ Outputs(c)' /\ Volumes(c)'
    BY <1>1 DEF Counters, Made, Outputs, Volumes, VolumesOf
  <1>8. Expects(c)' /\ Ends(c)'
    BY <1>1 DEF Expects, Expected, Ends, Ended, Made
  <1>3. Levels(c)'
    <2>1. Stages(c)' /\ Diagnosing(c)' /\ Remeshing(c)' /\ Ahead(c)'
      BY <1>1 DEF Stages, Diagnosing, Remeshing, Ahead, Made, Senders, Past
    <2> QED BY <1>1, <2>1 DEF Levels
  <1>4. Contributions(c)'
    BY <1>1 DEF Contributions, ContributedBy, Complete, Arrived
  <1>5. Exchanges(c)'
    <2>1. \A x : OfKind(x)' = OfKind(x)
      BY DEF OfKind
    <2>2. ASSUME NEW x \in Kind PROVE Traded(c, x)'
      <3>1. Traded(c, x)
        BY <1>1 DEF Exchanges
      <3>2. /\ \A i : Arrived(x, About(c, x), Senders(c, x), i)' = Arrived(x, About(c, x), Senders(c, x), i)
            /\ \A i : Complete(x, About(c, x), Senders(c, x), i)' = Complete(x, About(c, x), Senders(c, x), i)
        BY DEF Arrived, Complete
      <3>3. Exchange(x, Senders(c, x), Takers(c, x), Zeroed(c, x), About(c, x))'
        BY <2>1, <3>1, <3>2 DEF Traded, Exchange
      <3>4. x # "vol" => Signalled(x, Senders(c, x), Takers(c, x), About(c, x))'
        BY <3>1, <3>2 DEF Traded, Signalled
      <3> QED BY <3>3, <3>4 DEF Traded
    <2> QED BY <1>1, <2>1, <2>2 DEF Exchanges
  <1>6. Waits(c)'
    BY <1>1, ObjectFacts DEF Waits
  <1> QED BY <1>2, <1>3, <1>4, <1>5, <1>6, <1>7, <1>8 DEF StepsInv

\* MeshWriter::write: the output is written, and chare i called back.
LEMMA WriteKeeps ==
  ASSUME NEW c, StepsInv(c), NEW m \in msgs, NEW i, i = m.to, Write(i, m)
  PROVE  \E d : StepsInv(d)' /\ Alongside(c, d)
  <1>1. /\ c \in Config /\ Shape /\ Stages(c) /\ Diagnosing(c) /\ Remeshing(c) /\ Ahead(c) /\ Counters(c)
        /\ Expects(c) /\ Contributions(c) /\ Ends(c) /\ Exchanges(c) /\ Waits(c) /\ Volumes(c) /\ Outputs(c)
    BY PartsOfInv
  <1>2. /\ m.type = "write" /\ msgs' = (msgs \ {m}) \cup {[type |-> m.then, to |-> i]}
        /\ UNCHANGED <<trigger, contrib, it, itr, itf, lastDump, refined, field, buf, count, finished>>
        /\ UNCHANGED <<posting, waiting>>
    BY DEF Write, Serve, Is, stepVars, nodeVars
  <1>3. /\ i \in Chare /\ c.stage \in [Chare -> 0 .. 17]
        /\ (c.stage[i] = 3 /\ m.then = "init") \/ (c.stage[i] = 12 /\ m.then = "step")
        /\ \A n \in msgs : n.type = "write" /\ n.to = i => n = m
    BY <1>1, <1>2 DEF Expects, Config
  <1>4. PICK d \in Config : Becomes(c, d, [c.stage EXCEPT ![i] = @ + 1], c.diag, c.ref, c.lhs, c.vol)
    <2>1. [c.stage EXCEPT ![i] = @ + 1] \in [Chare -> 0 .. 17]
      BY <1>3
    <2> QED BY <1>1, <2>1, ConfigSet DEF Config
  <1>5. /\ d.round = c.round /\ d.diag = c.diag /\ d.ref = c.ref /\ d.lhs = c.lhs /\ d.vol = c.vol
        /\ d.mesh = c.mesh /\ d.started = c.started /\ d.diagnosed = c.diagnosed /\ d.disc = c.disc /\ d.work = c.work
        /\ d.stage[i] = c.stage[i] + 1 /\ \A j \in Chare \ {i} : d.stage[j] = c.stage[j]
    BY <1>3, <1>4 DEF Becomes
  <1>6. Frame /\ CharmShape'
    <2>1. \A x \in Kind : OfKind(x)' = OfKind(x)
      BY <1>2, <1>3 DEF OfKind
    <2> QED BY <1>1, <1>2, <2>1 DEF Frame, Shape, CharmShape
  <1>7. c.stage[i] = 12 => c.round > 0
    BY <1>1, <1>3 DEF Stages, Config
  <1>8. Alike(c, d)
    <2>1. c.mesh >= 3 => OfKind("vol") = {}
      BY <1>1 DEF Exchanges
    <2>2. {c.stage[i], d.stage[i]} \subseteq 0 .. 4 \/ (c.round > 0 /\ {c.stage[i], d.stage[i]} \subseteq 11 .. 17)
      BY <1>3, <1>5, <1>7
    <2> QED BY <1>5, <2>1, <2>2 DEF Alike, Alongside
  <1>9. Stages(d)'
    BY <1>1, <1>2, <1>3, <1>5, <1>7 DEF Stages
  <1>10. /\ \A j \in Chare : Made(d, j) = Made(c, j)
         /\ \A j \in Chare : d.stage[j] >= 12 <=> c.stage[j] >= 12
    BY <1>3, <1>5 DEF Made
  <1>11. Diagnosing(d) /\ Remeshing(d)
    BY <1>1, <1>5, <1>10 DEF Diagnosing, Remeshing
  <1>12. Ahead(d)
    BY <1>1, <1>5, <1>8, AlikeAhead
  <1>13. Expects(d)'
    <2>1. ASSUME NEW t, NEW j \in Chare, Expected(c, t, j) PROVE Expected(d, t, j)
      BY <1>3, <1>5, <2>1 DEF Expected
    <2>2. ASSUME NEW n \in msgs', n \in msgs PROVE n.type = "write" => n.to # i
      BY <1>2, <1>3, <2>2
    <2>3. LET n == [type |-> m.then, to |-> i]
          IN  n.type \in {"init", "step"} /\ n.to = i /\ Expected(d, n.type, i)
      BY <1>3, <1>5 DEF Expected
    <2>4. ASSUME NEW n \in msgs', n.type \notin {"com", "write"}
          PROVE  n.to \in Chare /\ n = [type |-> n.type, to |-> n.to] /\ Expected(d, n.type, n.to)
      <3>1. CASE n \in msgs
        BY <1>1, <2>1, <2>4, <3>1 DEF Expects
      <3>2. CASE n \notin msgs
        BY <1>2, <1>3, <2>3, <3>2
      <3> QED BY <3>1, <3>2
    <2>5. ASSUME NEW n \in msgs', n.type \in {"com", "write"} PROVE n \in msgs
      BY <1>2, <1>3, <2>5
    <2>6. ASSUME NEW n \in msgs', n.type = "write"
          PROVE  /\ n.to \in Chare
                 /\ (d.stage[n.to] = 3 /\ n.then = "init") \/ (d.stage[n.to] = 12 /\ n.then = "step")
                 /\ \A k \in msgs' : k.type = "write" /\ k.to = n.to => k = n
      <3>1. n \in msgs /\ n.to # i
        BY <2>2, <2>5, <2>6
      <3>2. /\ n.to \in Chare
            /\ (c.stage[n.to] = 3 /\ n.then = "init") \/ (c.stage[n.to] = 12 /\ n.then = "step")
            /\ \A k \in msgs : k.type = "write" /\ k.to = n.to => k = n
        BY <1>1, <2>6, <3>1 DEF Expects
      <3> QED BY <1>5, <2>5, <3>1, <3>2
    <2>7. \A n \in msgs' : n.type = "com" => n.kind \in Kind
      BY <1>1, <2>5 DEF Expects
    <2> QED BY <2>4, <2>6, <2>7 DEF Expects, Expected
  <1>14. Contributions(d)'
    <2> SUFFICES ASSUME NEW j \in Chare PROVE ContributedBy(d, j)'
      BY DEF Contributions
    <2>1. SameContribs(c, d, j)
      BY <1>3, <1>5 DEF SameContribs
    <2> QED BY <1>1, <1>2, <1>6, <1>8, <2>1, ContribsKept
  <1>15. Ends(d)'
    <2>1. \A j \in Chare, y \in {"diag", "ref", "lhs", "resize"} : Ended(c, j, y) => Ended(d, j, y)
      BY <1>3, <1>5, <1>10 DEF Ended
    <2>2. Ending(c, d)
      BY <1>2, <1>5, <2>1 DEF Ending
    <2> QED BY <1>1, <2>2, EndingEnds
  <1>16. Outputs(d)'
    BY <1>1, <1>2, <1>8, OutputsKept DEF Alike
  <1>17. Waits(d)'
    <2>1. \A j \in Chare : SameWaits(c, d, j)
      BY <1>3, <1>5 DEF SameWaits
    <2>2. \A j \in Chare, w \in Wait : Due(j, w)' = Due(j, w)
      BY <1>2 DEF Due
    <2> QED BY <1>1, <1>8, <2>1, <2>2, WaitsKept DEF Alike
  <1> QED BY <1>1, <1>2, <1>4, <1>6, <1>8, <1>9, <1>11, <1>12, <1>13, <1>14, <1>15, <1>16, <1>17, AlikeInv DEF Shape

\* The members of a configuration.
LEMMA ConfigIs ==
  ASSUME NEW c \in Config
  PROVE  /\ c.round \in Nat /\ c.stage \in [Chare -> 0 .. 17] /\ c.diag \in [Chare -> 0 .. 3]
         /\ c.ref \in [Chare -> 0 .. 3] /\ c.lhs \in [Chare -> 0 .. 3] /\ c.vol \in [Chare -> 0 .. 6]
         /\ c.mesh \in 0 .. 4 /\ c.started \in BOOLEAN /\ c.diagnosed \in BOOLEAN
         /\ c.disc \in BOOLEAN /\ c.work \in BOOLEAN
  BY DEF Config

\* The mesh of the round gets on.
Remeshed(c, d, k, r, l, v) ==
  /\ d.mesh = k /\ d.ref = r /\ d.lhs = l /\ d.vol = v
  /\ d.round = c.round /\ d.stage = c.stage /\ d.diag = c.diag /\ d.started = c.started
  /\ d.diagnosed = c.diagnosed /\ d.disc = c.disc /\ d.work = c.work

\* There is such a configuration.
LEMMA MeshSet ==
  ASSUME NEW c \in Config, NEW k \in 0 .. 4,
         NEW r \in [Chare -> 0 .. 3], NEW l \in [Chare -> 0 .. 3], NEW v \in [Chare -> 0 .. 6]
  PROVE  \E d \in Config : Remeshed(c, d, k, r, l, v)
  <1> DEFINE d == [c EXCEPT !.mesh = k, !.ref = r, !.lhs = l, !.vol = v]
  <1>1. d \in Config /\ Remeshed(c, d, k, r, l, v)
    BY DEF Config, Remeshed
  <1> HIDE DEF d
  <1> QED BY <1>1

-----------------------------------------------------------------------------
\* What chares have contributed that are waited for.
LEMMA Heads ==
  ASSUME NEW c, NEW i \in Chare, ContributedBy(c, i)
  PROVE  /\ \A r : contrib["worker"][i] # <<>> /\ Head(contrib["worker"][i]) = r =>
              /\ Tail(contrib["worker"][i]) = <<>>
              /\ r = "comfinal" => c.stage[i] = 1
              /\ r = "advance" => c.stage[i] = 17
              /\ r = "workresized" => c.ref[i] = 3 /\ ~ c.work /\ c.stage[i] \notin {1, 17}
         /\ \A r : contrib["refiner"][i] # <<>> /\ Head(contrib["refiner"][i]) = r =>
              /\ r = "matched" => c.diag[i] # 1 /\ c.ref[i] = 1 /\ Tail(contrib["refiner"][i]) = <<>>
              /\ r = "diagnostics" => /\ c.diag[i] = 1
                                      /\ Tail(contrib["refiner"][i]) = IF c.ref[i] = 1 THEN <<"matched">> ELSE <<>>
         /\ \A r : contrib["disc"][i] # <<>> /\ Head(contrib["disc"][i]) = r =>
              /\ Tail(contrib["disc"][i]) = <<>> /\ contrib["disc"][i] = <<r>>
              /\ r = "finish" <=> c.stage[i] = 16 /\ ~ finished
              /\ r = "discresized" => c.ref[i] = 3 /\ ~ c.disc
              /\ r = "vol" => c.vol[i] \in {1, 2}
              /\ r = "totalvol" => c.vol[i] = 4
  <1>1. ASSUME NEW r, contrib["worker"][i] # <<>>, Head(contrib["worker"][i]) = r
        PROVE  /\ Tail(contrib["worker"][i]) = <<>>
               /\ r = "comfinal" => c.stage[i] = 1
               /\ r = "advance" => c.stage[i] = 17
               /\ r = "workresized" => c.ref[i] = 3 /\ ~ c.work /\ c.stage[i] \notin {1, 17}
    BY <1>1, TargetFacts DEF ContributedBy
  <1>2. ASSUME NEW r, contrib["refiner"][i] # <<>>, Head(contrib["refiner"][i]) = r
        PROVE  /\ r = "matched" => c.diag[i] # 1 /\ c.ref[i] = 1 /\ Tail(contrib["refiner"][i]) = <<>>
               /\ r = "diagnostics" => /\ c.diag[i] = 1
                                       /\ Tail(contrib["refiner"][i]) = IF c.ref[i] = 1 THEN <<"matched">> ELSE <<>>
    BY <1>2, TargetFacts DEF ContributedBy
  <1>3. ASSUME NEW r, contrib["disc"][i] # <<>>, Head(contrib["disc"][i]) = r
        PROVE  /\ Tail(contrib["disc"][i]) = <<>> /\ contrib["disc"][i] = <<r>>
               /\ r = "finish" <=> c.stage[i] = 16 /\ ~ finished
               /\ r = "discresized" => c.ref[i] = 3 /\ ~ c.disc
               /\ r = "vol" => c.vol[i] \in {1, 2}
               /\ r = "totalvol" => c.vol[i] = 4
    <2>1. contrib["disc"][i] \in
            IF c.stage[i] = 16 /\ ~ finished THEN {<<"finish">>}
            ELSE IF c.ref[i] = 3 /\ ~ c.disc THEN {<<"discresized">>}
            ELSE IF c.vol[i] \in {1, 2} THEN {<<>>, <<"vol">>}
            ELSE IF c.vol[i] = 4 THEN {<<"totalvol">>} ELSE {<<>>}
      BY DEF ContributedBy
    <2>2. PICK q : /\ contrib["disc"][i] = <<q>>
                   /\ q = "finish" <=> c.stage[i] = 16 /\ ~ finished
                   /\ q = "discresized" => c.ref[i] = 3 /\ ~ c.disc
                   /\ q = "vol" => c.vol[i] \in {1, 2}
                   /\ q = "totalvol" => c.vol[i] = 4
      <3>1. CASE contrib["disc"][i] = <<"finish">> /\ c.stage[i] = 16 /\ ~ finished
        BY <3>1
      <3>2. CASE contrib["disc"][i] = <<"discresized">> /\ c.ref[i] = 3 /\ ~ c.disc /\ ~ (c.stage[i] = 16 /\ ~ finished)
        BY <3>2
      <3>3. CASE contrib["disc"][i] = <<"vol">> /\ c.vol[i] \in {1, 2} /\ ~ (c.stage[i] = 16 /\ ~ finished)
        BY <3>3
      <3>4. CASE contrib["disc"][i] = <<"totalvol">> /\ c.vol[i] = 4 /\ ~ (c.stage[i] = 16 /\ ~ finished)
        BY <3>4
      <3> QED BY <1>3, <2>1, <3>1, <3>2, <3>3, <3>4
    <2>3. q = r /\ Tail(<<q>>) = <<>>
      BY <1>3, <2>2, TargetFacts
    <2> QED BY <2>2, <2>3
  <1> QED BY <1>1, <1>2, <1>3

\* The calls of all chares.
LEMMA BroadcastIs ==
  \A t : \A n : n \in Broadcast(t) <=> \E j \in Chare : n = [type |-> t, to |-> j]
  BY DEF Broadcast

\* Transporter::matched: all chares get their new meshes.
LEMMA MatchedKeeps ==
  ASSUME NEW c, StepsInv(c), Matched
  PROVE  \E d : StepsInv(d)' /\ Alongside(c, d)
  <1> DEFINE e == Calls(Broadcast("eval"))
  <1>1. /\ c \in Config /\ Shape /\ Stages(c) /\ Diagnosing(c) /\ Remeshing(c) /\ Ahead(c) /\ Counters(c)
        /\ Expects(c) /\ Contributions(c) /\ Ends(c) /\ Exchanges(c) /\ Waits(c) /\ Volumes(c) /\ Outputs(c)
    BY PartsOfInv
  <1>2. Reduce("refiner", "matched", e) /\ UNCHANGED <<stepVars, fileVars, refined, nodeVars>>
    BY DEF Matched, Target
  <1>3. e.calls = Broadcast("eval") /\ e.triggers = {} /\ e.posts = {}
    BY EffectFacts, PostsFacts
  <1> HIDE DEF e
  <1>4. /\ Frame /\ CharmShape'
        /\ msgs' = msgs \cup e.calls
        /\ \A o \in Object, y \in {"diag", "ref", "lhs", "resize", "disc", "work"} :
             trigger'[o][done(y)] = IF o = Host /\ done(y) \in e.triggers THEN trigger[o][done(y)] + 1
                                                                          ELSE trigger[o][done(y)]
        /\ \A i \in Chare : contrib["refiner"][i] # <<>> /\ Head(contrib["refiner"][i]) = "matched"
        /\ \A b \in Array, i \in Chare : contrib'[b][i] = IF b = "refiner" THEN Tail(contrib[b][i]) ELSE contrib[b][i]
        /\ \A j \in Chare, w \in Wait : Due(j, w)' = Due(j, w)
    <2>1. UNCHANGED <<it, itr, field, buf, count>> /\ "refiner" \in Array
      BY <1>2 DEF stepVars, nodeVars, Array
    <2>2. \A n \in e.calls : n.type # "com"
      BY <1>3, BroadcastIs
    <2> QED BY <1>2, <2>1, <2>2, PlainReduce
  <1>5. \A i \in Chare : c.diag[i] # 1 /\ c.ref[i] = 1 /\ Tail(contrib["refiner"][i]) = <<>>
    BY <1>1, <1>4, Heads DEF Contributions
  <1>6. c.mesh = 0 /\ ~ c.disc /\ ~ c.work /\ Refines(c.round) /\ \A i \in Chare : Made(c, i) /\ Refines(c.round) /\ c.stage[i] \in 0 .. 11
    <2>1. PICK i \in Chare : TRUE
      BY ConstantFacts
    <2>2. c.mesh = 0
      BY <1>1, <1>5, <2>1 DEF Remeshing
    <2>3. \A j \in Chare : Made(c, j) /\ Refines(c.round)
      BY <1>1, <1>5 DEF Remeshing
    <2>4. ASSUME NEW j \in Chare PROVE c.stage[j] \in 0 .. 11
      <3>1. c.stage[j] \in 0 .. 17 /\ ~ (c.stage[j] >= 12)
        BY <1>1, <1>5, <2>3 DEF Remeshing, Config
      <3> QED BY <3>1
    <2> QED BY <1>1, <2>1, <2>2, <2>3, <2>4 DEF Remeshing
  <1>7. PICK d \in Config :
          /\ d.round = c.round /\ d.stage = c.stage /\ d.diag = c.diag /\ d.lhs = c.lhs /\ d.vol = c.vol
          /\ d.started = c.started /\ d.diagnosed = c.diagnosed /\ d.disc = c.disc /\ d.work = c.work
          /\ d.mesh = 1 /\ \A j \in Chare : d.ref[j] = 2
    <2> DEFINE r == [j \in Chare |-> 2]
    <2>1. r \in [Chare -> 0 .. 3] /\ \A j \in Chare : r[j] = 2
      OBVIOUS
    <2> HIDE DEF r
    <2>2. c \in Config /\ 1 \in 0 .. 4 /\ c.lhs \in [Chare -> 0 .. 3] /\ c.vol \in [Chare -> 0 .. 6]
      BY <1>1, ConfigIs
    <2>3. \E d \in Config : Remeshed(c, d, 1, r, c.lhs, c.vol)
      BY <2>1, <2>2, MeshSet
    <2> QED BY <2>1, <2>3 DEF Remeshed
  <1>8. finished' = finished /\ UNCHANGED <<it, itf, lastDump, refined>>
    BY <1>2 DEF stepVars, fileVars
  <1>9. Alike(c, d)
    BY <1>5, <1>7 DEF Alike, Alongside
  <1>10. Stages(d)' /\ Diagnosing(d)
    BY <1>1, <1>7, <1>8 DEF Stages, Diagnosing, Made
  <1>11. Remeshing(d)
    BY <1>1, <1>6, <1>7 DEF Remeshing, Made
  <1>12. Ahead(d)
    BY <1>1, <1>7, <1>9, AlikeAhead
  <1>13. Expects(d)'
    <2>1. ASSUME NEW t, NEW j \in Chare, Expected(c, t, j) PROVE Expected(d, t, j)
      BY <1>5, <1>7, <2>1 DEF Expected
    <2>2. ASSUME NEW n \in e.calls
          PROVE  Plain(n) /\ n.to \in Chare /\ n = [type |-> n.type, to |-> n.to] /\ Expected(d, n.type, n.to)
      BY <1>3, <1>7, BroadcastIs DEF Plain, Expected
    <2>3. Handled(c, d, {}, e.calls)
      BY <1>4, <1>7, <2>1, <2>2 DEF Handled
    <2> QED BY <1>1, <2>3, HandledExpects
  <1>14. Contributions(d)'
    <2> SUFFICES ASSUME NEW j \in Chare PROVE ContributedBy(d, j)'
      BY DEF Contributions
    <2>1. /\ contrib'["worker"][j] = contrib["worker"][j] /\ contrib'["disc"][j] = contrib["disc"][j]
          /\ contrib'["sync"][j] = contrib["sync"][j] /\ contrib'["refiner"][j] = <<>>
      BY <1>4, <1>5 DEF Array
    <2>2. Complete("vol", About(d, "vol"), Senders(d, "vol"), j)' = Complete("vol", About(c, "vol"), Senders(c, "vol"), j)
      BY <1>1, <1>4, <1>7, <1>9, AlikeVol
    <2>3. ContributedBy(c, j)
      BY <1>1 DEF Contributions
    <2> QED BY <1>5, <1>7, <1>8, <2>1, <2>2, <2>3 DEF ContributedBy
  <1>15. Ends(d)'
    <2>1. \A j \in Chare, y \in {"diag", "ref", "lhs", "resize"} : Ended(c, j, y) => Ended(d, j, y)
      BY <1>5, <1>6, <1>7 DEF Ended, Made
    <2>2. Ending(c, d)
      BY <1>3, <1>4, <1>6, <1>7, <2>1, ObjectFacts DEF Ending
    <2> QED BY <1>1, <2>2, EndingEnds
  <1>16. Outputs(d)'
    BY <1>1, <1>8, <1>9, OutputsKept DEF Alike
  <1>19. Waits(d)'
    <2>1. \A j \in Chare : SameWaits(c, d, j)
      BY <1>5, <1>6, <1>7, <1>9 DEF SameWaits, Alike, Alongside
    <2> QED BY <1>1, <1>4, <1>9, <2>1, WaitsKept DEF Alike
  <1> QED BY <1>1, <1>4, <1>7, <1>8, <1>9, <1>10, <1>11, <1>12, <1>13, <1>14, <1>15, <1>16, <1>19, AlikeInv DEF Shape

\* Transporter::discresized: all chares have their new meshes.
LEMMA DiscresizedKeeps ==
  ASSUME NEW c, StepsInv(c), Discresized
  PROVE  \E d : StepsInv(d)' /\ Alongside(c, d)
  <1> DEFINE e == Triggers({done("disc")})
  <1>1. /\ c \in Config /\ Shape /\ Stages(c) /\ Diagnosing(c) /\ Remeshing(c) /\ Ahead(c) /\ Counters(c)
        /\ Expects(c) /\ Contributions(c) /\ Ends(c) /\ Exchanges(c) /\ Waits(c) /\ Volumes(c) /\ Outputs(c)
    BY PartsOfInv
  <1>2. Reduce("disc", "discresized", e) /\ UNCHANGED <<stepVars, fileVars, refined, nodeVars>>
    BY DEF Discresized, Target
  <1>3. e.calls = {} /\ e.triggers = {done("disc")} /\ e.posts = {}
    BY EffectFacts, PostsFacts
  <1> HIDE DEF e
  <1>4. /\ Frame /\ CharmShape'
        /\ msgs' = msgs \cup e.calls
        /\ \A o \in Object, y \in {"diag", "ref", "lhs", "resize", "disc", "work"} :
             trigger'[o][done(y)] = IF o = Host /\ done(y) \in e.triggers THEN trigger[o][done(y)] + 1
                                                                          ELSE trigger[o][done(y)]
        /\ \A i \in Chare : contrib["disc"][i] # <<>> /\ Head(contrib["disc"][i]) = "discresized"
        /\ \A b \in Array, i \in Chare : contrib'[b][i] = IF b = "disc" THEN Tail(contrib[b][i]) ELSE contrib[b][i]
        /\ \A j \in Chare, w \in Wait : Due(j, w)' = Due(j, w)
    <2>1. UNCHANGED <<it, itr, field, buf, count>> /\ "disc" \in Array
      BY <1>2 DEF stepVars, nodeVars, Array
    <2>2. \A n \in e.calls : n.type # "com"
      BY <1>3
    <2> QED BY <1>2, <2>1, <2>2, PlainReduce
  <1>5. \A i \in Chare : c.ref[i] = 3 /\ ~ c.disc /\ Tail(contrib["disc"][i]) = <<>>
    BY <1>1, <1>4, Heads DEF Contributions
  <1>6. c.mesh = 1 /\ ~ c.disc /\ Refines(c.round) /\ \A i \in Chare : Made(c, i) /\ c.stage[i] = 11 /\ c.vol[i] = 0
    <2>1. PICK i \in Chare : TRUE
      BY ConstantFacts
    <2>2. c.mesh \in 0 .. 4 /\ c.mesh # 0 /\ ~ (c.mesh >= 2)
      BY <1>1, <1>5, <2>1, ConfigIs DEF Remeshing
    <2>3. c.mesh = 1
      BY <2>2
    <2>4. \A j \in Chare : Made(c, j) /\ Refines(c.round) /\ c.vol[j] = 0
      BY <1>1, <2>3 DEF Remeshing
    <2>5. ASSUME NEW j \in Chare PROVE c.stage[j] = 11
      <3>1. c.stage[j] \in 0 .. 17 /\ ~ (c.stage[j] >= 12) /\ c.stage[j] >= 11
        BY <1>1, <2>4 DEF Remeshing, Config, Made
      <3> QED BY <3>1
    <2> QED BY <1>5, <2>1, <2>3, <2>4, <2>5
  <1>7. PICK d \in Config :
          /\ d.round = c.round /\ d.stage = c.stage /\ d.diag = c.diag /\ d.ref = c.ref /\ d.lhs = c.lhs
          /\ d.vol = c.vol /\ d.mesh = c.mesh
          /\ d.started = c.started /\ d.diagnosed = c.diagnosed /\ d.work = c.work /\ d.disc = TRUE
    <2> DEFINE d == [c EXCEPT !.disc = TRUE]
    <2>1. c \in Config
      BY <1>1
    <2>2. /\ d \in Config
          /\ d.round = c.round /\ d.stage = c.stage /\ d.diag = c.diag /\ d.ref = c.ref /\ d.lhs = c.lhs
          /\ d.vol = c.vol /\ d.mesh = c.mesh
          /\ d.started = c.started /\ d.diagnosed = c.diagnosed /\ d.work = c.work /\ d.disc = TRUE
      BY <2>1 DEF Config
    <2> HIDE DEF d
    <2> QED BY <2>2
  <1>8. finished' = finished /\ UNCHANGED <<it, itf, lastDump, refined>>
    BY <1>2 DEF stepVars, fileVars
  <1>9. Alike(c, d)
    BY <1>6, <1>7 DEF Alike, Alongside
  <1>10. Stages(d)' /\ Diagnosing(d)
    BY <1>1, <1>7, <1>8 DEF Stages, Diagnosing, Made
  <1>11. Remeshing(d)
    BY <1>1, <1>5, <1>6, <1>7 DEF Remeshing, Made
  <1>12. Ahead(d)
    BY <1>1, <1>7, <1>9, AlikeAhead
  <1>13. Expects(d)'
    <2>1. ASSUME NEW t, NEW j \in Chare, Expected(c, t, j) PROVE Expected(d, t, j)
      BY <1>7, <2>1 DEF Expected
    <2>2. Handled(c, d, {}, e.calls)
      BY <1>3, <1>4, <1>7, <2>1 DEF Handled
    <2> QED BY <1>1, <2>2, HandledExpects
  <1>14. Contributions(d)'
    <2> SUFFICES ASSUME NEW j \in Chare PROVE ContributedBy(d, j)'
      BY DEF Contributions
    <2>1. /\ contrib'["worker"][j] = contrib["worker"][j] /\ contrib'["refiner"][j] = contrib["refiner"][j]
          /\ contrib'["sync"][j] = contrib["sync"][j]
          /\ contrib'["disc"][j] = <<>>
      BY <1>4, <1>5 DEF Array
    <2>2. Complete("vol", About(d, "vol"), Senders(d, "vol"), j)' = Complete("vol", About(c, "vol"), Senders(c, "vol"), j)
      BY <1>1, <1>4, <1>7, <1>9, AlikeVol
    <2>3. ContributedBy(c, j)
      BY <1>1 DEF Contributions
    <2> QED BY <1>5, <1>6, <1>7, <1>8, <2>1, <2>2, <2>3 DEF ContributedBy
  <1>15. Ends(d)'
    <2>1. \A j \in Chare, y \in {"diag", "ref", "lhs", "resize"} :
            trigger'[j][done(y)] = trigger[j][done(y)] /\ (Ended(c, j, y) => Ended(d, j, y))
      BY <1>4, <1>7, ObjectFacts DEF Ended, Made
    <2>2. trigger'[Host][done("disc")] = 1 /\ trigger'[Host][done("work")] = trigger[Host][done("work")]
      BY <1>1, <1>3, <1>4, <1>6, ObjectFacts, TriggersDiffer DEF Ends
    <2> QED BY <1>1, <1>6, <1>7, <2>1, <2>2 DEF Ends, Ended, Made
  <1>16. Outputs(d)'
    BY <1>1, <1>8, <1>9, OutputsKept DEF Alike
  <1>19. Waits(d)'
    <2>1. \A j \in Chare : SameWaits(c, d, j)
      BY <1>5, <1>6, <1>7, <1>9 DEF SameWaits, Alike, Alongside
    <2> QED BY <1>1, <1>4, <1>9, <2>1, WaitsKept DEF Alike
  <1> QED BY <1>1, <1>4, <1>7, <1>8, <1>9, <1>10, <1>11, <1>12, <1>13, <1>14, <1>15, <1>16, <1>19, AlikeInv DEF Shape

\* Transporter::workresized: all workers have theirs.
LEMMA WorkresizedKeeps ==
  ASSUME NEW c, StepsInv(c), Workresized
  PROVE  \E d : StepsInv(d)' /\ Alongside(c, d)
  <1> DEFINE e == Triggers({done("work")})
  <1>1. /\ c \in Config /\ Shape /\ Stages(c) /\ Diagnosing(c) /\ Remeshing(c) /\ Ahead(c) /\ Counters(c)
        /\ Expects(c) /\ Contributions(c) /\ Ends(c) /\ Exchanges(c) /\ Waits(c) /\ Volumes(c) /\ Outputs(c)
    BY PartsOfInv
  <1>2. Reduce("worker", "workresized", e) /\ UNCHANGED <<stepVars, fileVars, refined, nodeVars>>
    BY DEF Workresized, Target
  <1>3. e.calls = {} /\ e.triggers = {done("work")} /\ e.posts = {}
    BY EffectFacts, PostsFacts
  <1> HIDE DEF e
  <1>4. /\ Frame /\ CharmShape'
        /\ msgs' = msgs \cup e.calls
        /\ \A o \in Object, y \in {"diag", "ref", "lhs", "resize", "disc", "work"} :
             trigger'[o][done(y)] = IF o = Host /\ done(y) \in e.triggers THEN trigger[o][done(y)] + 1
                                                                          ELSE trigger[o][done(y)]
        /\ \A i \in Chare : contrib["worker"][i] # <<>> /\ Head(contrib["worker"][i]) = "workresized"
        /\ \A b \in Array, i \in Chare : contrib'[b][i] = IF b = "worker" THEN Tail(contrib[b][i]) ELSE contrib[b][i]
        /\ \A j \in Chare, w \in Wait : Due(j, w)' = Due(j, w)
    <2>1. UNCHANGED <<it, itr, field, buf, count>> /\ "worker" \in Array
      BY <1>2 DEF stepVars, nodeVars, Array
    <2>2. \A n \in e.calls : n.type # "com"
      BY <1>3
    <2> QED BY <1>2, <2>1, <2>2, PlainReduce
  <1>5. \A i \in Chare : c.ref[i] = 3 /\ ~ c.work /\ Tail(contrib["worker"][i]) = <<>>
    BY <1>1, <1>4, Heads DEF Contributions
  <1>6. c.mesh = 1 /\ ~ c.work /\ Refines(c.round) /\ \A i \in Chare : Made(c, i) /\ c.stage[i] = 11 /\ c.vol[i] = 0
    <2>1. PICK i \in Chare : TRUE
      BY ConstantFacts
    <2>2. c.mesh \in 0 .. 4 /\ c.mesh # 0 /\ ~ (c.mesh >= 2)
      BY <1>1, <1>5, <2>1, ConfigIs DEF Remeshing
    <2>3. c.mesh = 1
      BY <2>2
    <2>4. \A j \in Chare : Made(c, j) /\ Refines(c.round) /\ c.vol[j] = 0
      BY <1>1, <2>3 DEF Remeshing
    <2>5. ASSUME NEW j \in Chare PROVE c.stage[j] = 11
      <3>1. c.stage[j] \in 0 .. 17 /\ ~ (c.stage[j] >= 12) /\ c.stage[j] >= 11
        BY <1>1, <2>4 DEF Remeshing, Config, Made
      <3> QED BY <3>1
    <2> QED BY <1>5, <2>1, <2>3, <2>4, <2>5
  <1>7. PICK d \in Config :
          /\ d.round = c.round /\ d.stage = c.stage /\ d.diag = c.diag /\ d.ref = c.ref /\ d.lhs = c.lhs
          /\ d.vol = c.vol /\ d.mesh = c.mesh
          /\ d.started = c.started /\ d.diagnosed = c.diagnosed /\ d.disc = c.disc /\ d.work = TRUE
    <2> DEFINE d == [c EXCEPT !.work = TRUE]
    <2>1. c \in Config
      BY <1>1
    <2>2. /\ d \in Config
          /\ d.round = c.round /\ d.stage = c.stage /\ d.diag = c.diag /\ d.ref = c.ref /\ d.lhs = c.lhs
          /\ d.vol = c.vol /\ d.mesh = c.mesh
          /\ d.started = c.started /\ d.diagnosed = c.diagnosed /\ d.disc = c.disc /\ d.work = TRUE
      BY <2>1 DEF Config
    <2> HIDE DEF d
    <2> QED BY <2>2
  <1>8. finished' = finished /\ UNCHANGED <<it, itf, lastDump, refined>>
    BY <1>2 DEF stepVars, fileVars
  <1>9. Alike(c, d)
    BY <1>6, <1>7 DEF Alike, Alongside
  <1>10. Stages(d)' /\ Diagnosing(d)
    BY <1>1, <1>7, <1>8 DEF Stages, Diagnosing, Made
  <1>11. Remeshing(d)
    BY <1>1, <1>5, <1>6, <1>7 DEF Remeshing, Made
  <1>12. Ahead(d)
    BY <1>1, <1>7, <1>9, AlikeAhead
  <1>13. Expects(d)'
    <2>1. ASSUME NEW t, NEW j \in Chare, Expected(c, t, j) PROVE Expected(d, t, j)
      BY <1>7, <2>1 DEF Expected
    <2>2. Handled(c, d, {}, e.calls)
      BY <1>3, <1>4, <1>7, <2>1 DEF Handled
    <2> QED BY <1>1, <2>2, HandledExpects
  <1>14. Contributions(d)'
    <2> SUFFICES ASSUME NEW j \in Chare PROVE ContributedBy(d, j)'
      BY DEF Contributions
    <2>1. /\ contrib'["disc"][j] = contrib["disc"][j] /\ contrib'["refiner"][j] = contrib["refiner"][j]
          /\ contrib'["sync"][j] = contrib["sync"][j]
          /\ contrib'["worker"][j] = <<>>
      BY <1>4, <1>5 DEF Array
    <2>2. Complete("vol", About(d, "vol"), Senders(d, "vol"), j)' = Complete("vol", About(c, "vol"), Senders(c, "vol"), j)
      BY <1>1, <1>4, <1>7, <1>9, AlikeVol
    <2>3. ContributedBy(c, j)
      BY <1>1 DEF Contributions
    <2> QED BY <1>5, <1>6, <1>7, <1>8, <2>1, <2>2, <2>3 DEF ContributedBy
  <1>15. Ends(d)'
    <2>1. \A j \in Chare, y \in {"diag", "ref", "lhs", "resize"} :
            trigger'[j][done(y)] = trigger[j][done(y)] /\ (Ended(c, j, y) => Ended(d, j, y))
      BY <1>4, <1>7, ObjectFacts DEF Ended, Made
    <2>2. trigger'[Host][done("work")] = 1 /\ trigger'[Host][done("disc")] = trigger[Host][done("disc")]
      BY <1>1, <1>3, <1>4, <1>6, ObjectFacts, TriggersDiffer DEF Ends
    <2> QED BY <1>1, <1>6, <1>7, <2>1, <2>2 DEF Ends, Ended, Made
  <1>16. Outputs(d)'
    BY <1>1, <1>8, <1>9, OutputsKept DEF Alike
  <1>19. Waits(d)'
    <2>1. \A j \in Chare : SameWaits(c, d, j)
      BY <1>5, <1>6, <1>7, <1>9 DEF SameWaits, Alike, Alongside
    <2> QED BY <1>1, <1>4, <1>9, <2>1, WaitsKept DEF Alike
  <1> QED BY <1>1, <1>4, <1>7, <1>8, <1>9, <1>10, <1>11, <1>12, <1>13, <1>14, <1>15, <1>16, <1>19, AlikeInv DEF Shape

\* Transporter::totalvol: all chares have added what they got.
LEMMA TotalvolKeeps ==
  ASSUME NEW c, StepsInv(c), TransporterTotalvol
  PROVE  \E d : StepsInv(d)' /\ Alongside(c, d)
  <1> DEFINE e == Calls(Broadcast("resized"))
  <1>1. /\ c \in Config /\ Shape /\ Stages(c) /\ Diagnosing(c) /\ Remeshing(c) /\ Ahead(c) /\ Counters(c)
        /\ Expects(c) /\ Contributions(c) /\ Ends(c) /\ Exchanges(c) /\ Waits(c) /\ Volumes(c) /\ Outputs(c)
    BY PartsOfInv
  <1>2. Reduce("disc", "totalvol", e) /\ UNCHANGED <<stepVars, fileVars, refined, nodeVars>>
    BY DEF TransporterTotalvol, Target
  <1>3. e.calls = Broadcast("resized") /\ e.triggers = {} /\ e.posts = {}
    BY EffectFacts, PostsFacts
  <1> HIDE DEF e
  <1>4. /\ Frame /\ CharmShape'
        /\ msgs' = msgs \cup e.calls
        /\ \A o \in Object, y \in {"diag", "ref", "lhs", "resize", "disc", "work"} :
             trigger'[o][done(y)] = IF o = Host /\ done(y) \in e.triggers THEN trigger[o][done(y)] + 1
                                                                          ELSE trigger[o][done(y)]
        /\ \A i \in Chare : contrib["disc"][i] # <<>> /\ Head(contrib["disc"][i]) = "totalvol"
        /\ \A b \in Array, i \in Chare : contrib'[b][i] = IF b = "disc" THEN Tail(contrib[b][i]) ELSE contrib[b][i]
        /\ \A j \in Chare, w \in Wait : Due(j, w)' = Due(j, w)
    <2>1. UNCHANGED <<it, itr, field, buf, count>> /\ "disc" \in Array
      BY <1>2 DEF stepVars, nodeVars, Array
    <2>2. \A n \in e.calls : n.type # "com"
      BY <1>3, BroadcastIs
    <2> QED BY <1>2, <2>1, <2>2, PlainReduce
  <1>5. \A i \in Chare : c.vol[i] = 4 /\ Tail(contrib["disc"][i]) = <<>>
    BY <1>1, <1>4, Heads DEF Contributions
  <1>6. c.mesh = 3 /\ c.disc /\ c.work /\ Refines(c.round) /\ \A i \in Chare : Made(c, i) /\ c.stage[i] = 11 /\ c.ref[i] = 3
    <2>1. PICK i \in Chare : TRUE
      BY ConstantFacts
    <2>2. c.mesh = 3
      <3>1. c.mesh \in 0 .. 4
        BY <1>1, ConfigIs
      <3>2. c.vol[i] \in CASE c.mesh < 2 -> {0} [] c.mesh = 2 -> {1, 2} [] c.mesh = 3 -> {3, 4} [] OTHER -> {5, 6}
        BY <1>1, <2>1 DEF Remeshing
      <3> QED BY <1>5, <2>1, <3>1, <3>2
    <2>3. \A j \in Chare : Made(c, j) /\ Refines(c.round) /\ c.ref[j] = 3
      BY <1>1, <2>2 DEF Remeshing
    <2>4. ASSUME NEW j \in Chare PROVE c.stage[j] = 11
      <3>1. c.stage[j] \in 0 .. 17 /\ ~ (c.stage[j] >= 12) /\ c.stage[j] >= 11
        BY <1>1, <1>5, <2>3 DEF Remeshing, Config, Made
      <3> QED BY <3>1
    <2>5. c.disc /\ c.work
      BY <1>1, <2>2 DEF Remeshing
    <2> QED BY <2>1, <2>2, <2>3, <2>4, <2>5
  <1>7. PICK d \in Config :
          /\ d.round = c.round /\ d.stage = c.stage /\ d.diag = c.diag /\ d.ref = c.ref /\ d.lhs = c.lhs
          /\ d.started = c.started /\ d.diagnosed = c.diagnosed /\ d.disc = c.disc /\ d.work = c.work
          /\ d.mesh = 4 /\ \A j \in Chare : d.vol[j] = 5
    <2> DEFINE v == [j \in Chare |-> 5]
    <2>1. v \in [Chare -> 0 .. 6] /\ \A j \in Chare : v[j] = 5
      OBVIOUS
    <2> HIDE DEF v
    <2>2. c \in Config /\ 4 \in 0 .. 4 /\ c.ref \in [Chare -> 0 .. 3] /\ c.lhs \in [Chare -> 0 .. 3]
      BY <1>1, ConfigIs
    <2>3. \E d \in Config : Remeshed(c, d, 4, c.ref, c.lhs, v)
      BY <2>1, <2>2, MeshSet
    <2> QED BY <2>1, <2>3 DEF Remeshed
  <1>8. finished' = finished /\ UNCHANGED <<it, itf, lastDump, refined>>
    BY <1>2 DEF stepVars, fileVars
  <1>9. Alike(c, d)
    <2>1. OfKind("vol") = {}
      BY <1>1, <1>6 DEF Exchanges
    <2>2. \A j \in Chare : {c.vol[j], d.vol[j]} \subseteq 4 .. 6
      BY <1>5, <1>7
    <2> QED BY <1>7, <2>1, <2>2 DEF Alike, Alongside
  <1>10. Stages(d)' /\ Diagnosing(d)
    BY <1>1, <1>7, <1>8 DEF Stages, Diagnosing, Made
  <1>11. Remeshing(d)
    BY <1>1, <1>6, <1>7 DEF Remeshing, Made
  <1>12. Ahead(d)
    <2>1. \A j \in Chare : d.vol[j] >= 3 => c.vol[j] >= 3
      BY <1>5
    <2> QED BY <1>1, <1>7, <1>9, <2>1, AlikeAhead
  <1>13. Expects(d)'
    <2>1. ASSUME NEW t, NEW j \in Chare, Expected(c, t, j) PROVE Expected(d, t, j)
      BY <1>5, <1>7, <2>1 DEF Expected
    <2>2. ASSUME NEW n \in e.calls
          PROVE  Plain(n) /\ n.to \in Chare /\ n = [type |-> n.type, to |-> n.to] /\ Expected(d, n.type, n.to)
      BY <1>3, <1>7, BroadcastIs DEF Plain, Expected
    <2>3. Handled(c, d, {}, e.calls)
      BY <1>4, <1>7, <2>1, <2>2 DEF Handled
    <2> QED BY <1>1, <2>3, HandledExpects
  <1>14. Contributions(d)'
    <2> SUFFICES ASSUME NEW j \in Chare PROVE ContributedBy(d, j)'
      BY DEF Contributions
    <2>1. /\ contrib'["worker"][j] = contrib["worker"][j] /\ contrib'["refiner"][j] = contrib["refiner"][j]
          /\ contrib'["sync"][j] = contrib["sync"][j]
          /\ contrib'["disc"][j] = <<>>
      BY <1>4, <1>5 DEF Array
    <2>2. Complete("vol", About(d, "vol"), Senders(d, "vol"), j)' = Complete("vol", About(c, "vol"), Senders(c, "vol"), j)
      BY <1>1, <1>4, <1>7, <1>9, AlikeVol
    <2>3. ContributedBy(c, j)
      BY <1>1 DEF Contributions
    <2> QED BY <1>5, <1>6, <1>7, <1>8, <2>1, <2>2, <2>3 DEF ContributedBy
  <1>15. Ends(d)'
    <2>1. \A j \in Chare, y \in {"diag", "ref", "lhs", "resize"} : Ended(c, j, y) => Ended(d, j, y)
      BY <1>5, <1>6, <1>7 DEF Ended, Made
    <2>2. Ending(c, d)
      BY <1>3, <1>4, <1>5, <1>6, <1>7, <2>1, ObjectFacts DEF Ending
    <2> QED BY <1>1, <2>2, EndingEnds
  <1>16. Outputs(d)'
    BY <1>1, <1>8, <1>9, OutputsKept DEF Alike
  <1>19. Waits(d)'
    <2>1. \A j \in Chare : SameWaits(c, d, j)
      BY <1>5, <1>6, <1>7, <1>9 DEF SameWaits, Alike, Alongside
    <2> QED BY <1>1, <1>4, <1>9, <2>1, WaitsKept DEF Alike
  <1> QED BY <1>1, <1>4, <1>7, <1>8, <1>9, <1>10, <1>11, <1>12, <1>13, <1>14, <1>15, <1>16, <1>19, AlikeInv DEF Shape

\* Transporter::vol: all chares have the contributions to their volumes.
LEMMA TransporterVolKeeps ==
  ASSUME NEW c, StepsInv(c), TransporterVol
  PROVE  \E d : StepsInv(d)' /\ Alongside(c, d)
  <1> DEFINE e == Calls(Broadcast("totalvol"))
  <1>1. /\ c \in Config /\ Shape /\ Stages(c) /\ Diagnosing(c) /\ Remeshing(c) /\ Ahead(c) /\ Counters(c)
        /\ Expects(c) /\ Contributions(c) /\ Ends(c) /\ Exchanges(c) /\ Waits(c) /\ Volumes(c) /\ Outputs(c)
    BY PartsOfInv
  <1>2. Reduce("disc", "vol", e) /\ UNCHANGED <<stepVars, fileVars, refined, nodeVars>>
    BY DEF TransporterVol, Target
  <1>3. e.calls = Broadcast("totalvol") /\ e.triggers = {} /\ e.posts = {}
    BY EffectFacts, PostsFacts
  <1> HIDE DEF e
  <1>4. /\ Frame /\ CharmShape'
        /\ msgs' = msgs \cup e.calls
        /\ \A o \in Object, y \in {"diag", "ref", "lhs", "resize", "disc", "work"} :
             trigger'[o][done(y)] = IF o = Host /\ done(y) \in e.triggers THEN trigger[o][done(y)] + 1
                                                                          ELSE trigger[o][done(y)]
        /\ \A i \in Chare : contrib["disc"][i] # <<>> /\ Head(contrib["disc"][i]) = "vol"
        /\ \A b \in Array, i \in Chare : contrib'[b][i] = IF b = "disc" THEN Tail(contrib[b][i]) ELSE contrib[b][i]
        /\ \A j \in Chare, w \in Wait : Due(j, w)' = Due(j, w)
    <2>1. UNCHANGED <<it, itr, field, buf, count>> /\ "disc" \in Array
      BY <1>2 DEF stepVars, nodeVars, Array
    <2>2. \A n \in e.calls : n.type # "com"
      BY <1>3, BroadcastIs
    <2> QED BY <1>2, <2>1, <2>2, PlainReduce
  <1>5. \A i \in Chare : c.vol[i] \in {1, 2} /\ contrib["disc"][i] = <<"vol">> /\ Tail(contrib["disc"][i]) = <<>>
    BY <1>1, <1>4, Heads DEF Contributions
  <1>6. c.mesh = 2 /\ c.disc /\ c.work /\ Refines(c.round) /\ \A i \in Chare : Made(c, i) /\ c.stage[i] = 11 /\ c.ref[i] = 3
    <2>1. PICK i \in Chare : TRUE
      BY ConstantFacts
    <2>2. c.mesh = 2
      <3>1. c.mesh \in 0 .. 4
        BY <1>1, ConfigIs
      <3>2. c.vol[i] \in CASE c.mesh < 2 -> {0} [] c.mesh = 2 -> {1, 2} [] c.mesh = 3 -> {3, 4} [] OTHER -> {5, 6}
        BY <1>1, <2>1 DEF Remeshing
      <3> QED BY <1>5, <2>1, <3>1, <3>2
    <2>3. \A j \in Chare : Made(c, j) /\ Refines(c.round) /\ c.ref[j] = 3
      BY <1>1, <2>2 DEF Remeshing
    <2>4. ASSUME NEW j \in Chare PROVE c.stage[j] = 11
      <3>1. c.stage[j] \in 0 .. 17 /\ ~ (c.stage[j] >= 12) /\ c.stage[j] >= 11
        BY <1>1, <1>5, <2>3 DEF Remeshing, Config, Made
      <3> QED BY <3>1
    <2>5. c.disc /\ c.work
      BY <1>1, <2>2 DEF Remeshing
    <2> QED BY <2>1, <2>2, <2>3, <2>4, <2>5
  <1>7. PICK d \in Config :
          /\ d.round = c.round /\ d.stage = c.stage /\ d.diag = c.diag /\ d.ref = c.ref /\ d.lhs = c.lhs
          /\ d.started = c.started /\ d.diagnosed = c.diagnosed /\ d.disc = c.disc /\ d.work = c.work
          /\ d.mesh = 3 /\ \A j \in Chare : d.vol[j] = 3
    <2> DEFINE v == [j \in Chare |-> 3]
    <2>1. v \in [Chare -> 0 .. 6] /\ \A j \in Chare : v[j] = 3
      OBVIOUS
    <2> HIDE DEF v
    <2>2. c \in Config /\ 3 \in 0 .. 4 /\ c.ref \in [Chare -> 0 .. 3] /\ c.lhs \in [Chare -> 0 .. 3]
      BY <1>1, ConfigIs
    <2>3. \E d \in Config : Remeshed(c, d, 3, c.ref, c.lhs, v)
      BY <2>1, <2>2, MeshSet
    <2> QED BY <2>1, <2>3 DEF Remeshed
  <1>8. finished' = finished /\ UNCHANGED <<it, itf, lastDump, refined>>
    BY <1>2 DEF stepVars, fileVars
  <1>17. /\ \A i \in Chare : i \in Senders(c, "vol") /\ Arrived("vol", About(c, "vol"), Senders(c, "vol"), i) = Nbr[i]
         /\ OfKind("vol") = {}
    <2> DEFINE p == About(c, "vol")
               S == Senders(c, "vol")
    <2>1. \A i \in Chare : Complete("vol", p, S, i)
      BY <1>1, <1>5 DEF Contributions, ContributedBy
    <2>2. Exchange("vol", S, Takers(c, "vol"), Zeroed(c, "vol"), p) /\ Takers(c, "vol") \subseteq Chare
      BY <1>1, KindIs, ZeroedAre DEF Exchanges, Traded
    <2> HIDE DEF p, S
    <2>3. \A i \in Chare : Arrived("vol", p, S, i) = Nbr[i]
      BY <2>1 DEF Complete
    <2>4. \A i \in Chare : \A j \in Nbr[i] : j \in S /\ ComCall("vol", p, j, i) \notin msgs
      BY <2>3 DEF Arrived
    <2>5. \A i \in Chare : i \in S
      BY <2>1, <2>4, NbrFacts DEF Complete
    <2>6. OfKind("vol") = {}
      BY <2>2, <2>4 DEF Exchange, OfKind
    <2> QED BY <2>3, <2>5, <2>6 DEF p, S
  <1>18. \A j \in Chare : c.vol[j] = 2
    BY <1>5, <1>17, KindIs, SendersAre
  <1>9. Alike(c, d)
    <2>2. \A j \in Chare : {c.vol[j], d.vol[j]} \subseteq 2 .. 3
      BY <1>7, <1>18
    <2> QED BY <1>7, <1>17, <2>2 DEF Alike, Alongside
  <1>10. Stages(d)' /\ Diagnosing(d)
    BY <1>1, <1>7, <1>8 DEF Stages, Diagnosing, Made
  <1>11. Remeshing(d)
    BY <1>1, <1>6, <1>7 DEF Remeshing, Made
  <1>12. Ahead(d)
    <2> SUFFICES ASSUME NEW x \in Kind, NEW i \in Past(d, x) PROVE Nbr[i] \subseteq Senders(d, x)
      BY DEF Ahead
    <2>1. i \in Chare /\ SameFor(c, d, x)
      BY <1>1, <1>7, <1>9, AlikeFor DEF Past
    <2>2. CASE x = "vol"
      BY <1>17, <2>1, <2>2, NbrFacts DEF SameFor
    <2>3. CASE x # "vol"
      <3>1. i \in Past(c, x)
        BY <1>7, <2>1, <2>3 DEF Past
      <3> QED BY <1>1, <2>1, <3>1 DEF Ahead, SameFor
    <2> QED BY <2>2, <2>3
  <1>13. Expects(d)'
    <2>1. ASSUME NEW t, NEW j \in Chare, Expected(c, t, j) PROVE Expected(d, t, j)
      BY <1>7, <1>18, <2>1 DEF Expected
    <2>2. ASSUME NEW n \in e.calls
          PROVE  Plain(n) /\ n.to \in Chare /\ n = [type |-> n.type, to |-> n.to] /\ Expected(d, n.type, n.to)
      BY <1>3, <1>7, BroadcastIs DEF Plain, Expected
    <2>3. Handled(c, d, {}, e.calls)
      BY <1>4, <1>7, <2>1, <2>2 DEF Handled
    <2> QED BY <1>1, <2>3, HandledExpects
  <1>14. Contributions(d)'
    <2> SUFFICES ASSUME NEW j \in Chare PROVE ContributedBy(d, j)'
      BY DEF Contributions
    <2>1. /\ contrib'["worker"][j] = contrib["worker"][j] /\ contrib'["refiner"][j] = contrib["refiner"][j]
          /\ contrib'["sync"][j] = contrib["sync"][j]
          /\ contrib'["disc"][j] = <<>>
      BY <1>4, <1>5 DEF Array
    <2>2. Complete("vol", About(d, "vol"), Senders(d, "vol"), j)' = Complete("vol", About(c, "vol"), Senders(c, "vol"), j)
      BY <1>1, <1>4, <1>7, <1>9, AlikeVol
    <2>3. ContributedBy(c, j)
      BY <1>1 DEF Contributions
    <2> QED BY <1>5, <1>6, <1>7, <1>8, <2>1, <2>2, <2>3 DEF ContributedBy
  <1>15. Ends(d)'
    <2>1. \A j \in Chare, y \in {"diag", "ref", "lhs", "resize"} : Ended(c, j, y) => Ended(d, j, y)
      BY <1>5, <1>6, <1>7 DEF Ended, Made
    <2>2. Ending(c, d)
      BY <1>3, <1>4, <1>5, <1>6, <1>7, <2>1, ObjectFacts DEF Ending
    <2> QED BY <1>1, <2>2, EndingEnds
  <1>16. Outputs(d)'
    BY <1>1, <1>8, <1>9, OutputsKept DEF Alike
  <1>19. Waits(d)'
    <2>1. \A j \in Chare : SameWaits(c, d, j)
      BY <1>5, <1>6, <1>7, <1>9 DEF SameWaits, Alike, Alongside
    <2> QED BY <1>1, <1>4, <1>9, <2>1, WaitsKept DEF Alike
  <1> QED BY <1>1, <1>4, <1>7, <1>8, <1>9, <1>10, <1>11, <1>12, <1>13, <1>14, <1>15, <1>16, <1>19, AlikeInv DEF Shape

\* Transporter::diagnostics: all chares have diagnosed the step.
LEMMA DiagnosedKeeps ==
  ASSUME NEW c, StepsInv(c), TransporterDiagnostics("refiner")
  PROVE  \E d : StepsInv(d)' /\ Alongside(c, d)
  <1> DEFINE e == Calls(Broadcast("diag"))
  <1>1. /\ c \in Config /\ Shape /\ Stages(c) /\ Diagnosing(c) /\ Remeshing(c) /\ Ahead(c) /\ Counters(c)
        /\ Expects(c) /\ Contributions(c) /\ Ends(c) /\ Exchanges(c) /\ Waits(c) /\ Volumes(c) /\ Outputs(c)
    BY PartsOfInv
  <1>2. Reduce("refiner", "diagnostics", e) /\ UNCHANGED <<stepVars, fileVars, refined, nodeVars>>
    BY DEF TransporterDiagnostics, Target
  <1>3. e.calls = Broadcast("diag") /\ e.triggers = {} /\ e.posts = {}
    BY EffectFacts, PostsFacts
  <1> HIDE DEF e
  <1>4. /\ Frame /\ CharmShape'
        /\ msgs' = msgs \cup e.calls
        /\ \A o \in Object, y \in {"diag", "ref", "lhs", "resize", "disc", "work"} :
             trigger'[o][done(y)] = IF o = Host /\ done(y) \in e.triggers THEN trigger[o][done(y)] + 1
                                                                          ELSE trigger[o][done(y)]
        /\ \A i \in Chare : contrib["refiner"][i] # <<>> /\ Head(contrib["refiner"][i]) = "diagnostics"
        /\ \A b \in Array, i \in Chare : contrib'[b][i] = IF b = "refiner" THEN Tail(contrib[b][i]) ELSE contrib[b][i]
        /\ \A j \in Chare, w \in Wait : Due(j, w)' = Due(j, w)
    <2>1. UNCHANGED <<it, itr, field, buf, count>> /\ "refiner" \in Array
      BY <1>2 DEF stepVars, nodeVars, Array
    <2>2. \A n \in e.calls : n.type # "com"
      BY <1>3, BroadcastIs
    <2> QED BY <1>2, <2>1, <2>2, PlainReduce
  <1>5. /\ \A i \in Chare : c.diag[i] = 1
        /\ \A i \in Chare : Tail(contrib["refiner"][i]) = IF c.ref[i] = 1 THEN <<"matched">> ELSE <<>>
    BY <1>1, <1>4, Heads DEF Contributions
  <1>6. ~ c.diagnosed /\ c.round % DiagFreq = 0 /\ \A i \in Chare : Made(c, i) /\ c.stage[i] = 11
    <2>1. PICK i \in Chare : TRUE
      BY ConstantFacts
    <2>2. \A j \in Chare : Made(c, j) /\ c.round % DiagFreq = 0 /\ ~ c.diagnosed
      BY <1>1, <1>5 DEF Diagnosing
    <2>3. ASSUME NEW j \in Chare PROVE c.stage[j] = 11
      <3>1. c.stage[j] \in 0 .. 17 /\ ~ (c.stage[j] >= 12) /\ c.stage[j] >= 11
        BY <1>1, <1>5, <2>2 DEF Diagnosing, Config, Made
      <3> QED BY <3>1
    <2> QED BY <2>1, <2>2, <2>3
  <1>7. PICK d \in Config :
          /\ d.round = c.round /\ d.stage = c.stage /\ d.ref = c.ref /\ d.lhs = c.lhs /\ d.vol = c.vol /\ d.mesh = c.mesh
          /\ d.started = c.started /\ d.diagnosed = TRUE /\ d.disc = c.disc /\ d.work = c.work
          /\ \A j \in Chare : d.diag[j] = 2
    <2> DEFINE g == [j \in Chare |-> 2]
    <2>1. g \in [Chare -> 0 .. 3] /\ \A j \in Chare : g[j] = 2
      OBVIOUS
    <2> HIDE DEF g
    <2> DEFINE d == [c EXCEPT !.diagnosed = TRUE, !.diag = g]
    <2>2. c \in Config
      BY <1>1
    <2>3. /\ d \in Config
          /\ d.round = c.round /\ d.stage = c.stage /\ d.ref = c.ref /\ d.lhs = c.lhs /\ d.vol = c.vol /\ d.mesh = c.mesh
          /\ d.started = c.started /\ d.diagnosed = TRUE /\ d.disc = c.disc /\ d.work = c.work
          /\ d.diag = g
      BY <2>1, <2>2 DEF Config
    <2> HIDE DEF d
    <2> QED BY <2>1, <2>3
  <1>8. finished' = finished /\ UNCHANGED <<it, itf, lastDump, refined>>
    BY <1>2 DEF stepVars, fileVars
  <1>9. Alike(c, d)
    <2>1. c.mesh >= 3 => OfKind("vol") = {}
      BY <1>1 DEF Exchanges
    <2> QED BY <1>7, <2>1 DEF Alike, Alongside
  <1>10. Stages(d)' /\ Remeshing(d)
    BY <1>1, <1>7, <1>8 DEF Stages, Remeshing, Made
  <1>11. Diagnosing(d)
    BY <1>1, <1>6, <1>7 DEF Diagnosing, Made
  <1>12. Ahead(d)
    BY <1>1, <1>7, <1>9, AlikeAhead
  <1>13. Expects(d)'
    <2>1. ASSUME NEW t, NEW j \in Chare, Expected(c, t, j) PROVE Expected(d, t, j)
      BY <1>5, <1>7, <2>1 DEF Expected
    <2>2. ASSUME NEW n \in e.calls
          PROVE  Plain(n) /\ n.to \in Chare /\ n = [type |-> n.type, to |-> n.to] /\ Expected(d, n.type, n.to)
      BY <1>3, <1>7, BroadcastIs DEF Plain, Expected
    <2>3. Handled(c, d, {}, e.calls)
      BY <1>4, <1>7, <2>1, <2>2 DEF Handled
    <2> QED BY <1>1, <2>3, HandledExpects
  <1>14. Contributions(d)'
    <2> SUFFICES ASSUME NEW j \in Chare PROVE ContributedBy(d, j)'
      BY DEF Contributions
    <2>1. /\ contrib'["worker"][j] = contrib["worker"][j] /\ contrib'["disc"][j] = contrib["disc"][j]
          /\ contrib'["sync"][j] = contrib["sync"][j]
          /\ contrib'["refiner"][j] = IF c.ref[j] = 1 THEN <<"matched">> ELSE <<>>
      BY <1>4, <1>5 DEF Array
    <2>2. Complete("vol", About(d, "vol"), Senders(d, "vol"), j)' = Complete("vol", About(c, "vol"), Senders(c, "vol"), j)
      BY <1>1, <1>4, <1>7, <1>9, AlikeVol
    <2>3. ContributedBy(c, j)
      BY <1>1 DEF Contributions
    <2> QED BY <1>5, <1>6, <1>7, <1>8, <2>1, <2>2, <2>3 DEF ContributedBy
  <1>15. Ends(d)'
    <2>1. \A j \in Chare, y \in {"diag", "ref", "lhs", "resize"} : Ended(c, j, y) => Ended(d, j, y)
      BY <1>5, <1>6, <1>7 DEF Ended, Made
    <2>2. Ending(c, d)
      BY <1>3, <1>4, <1>5, <1>6, <1>7, <2>1, ObjectFacts DEF Ending
    <2> QED BY <1>1, <2>2, EndingEnds
  <1>16. Outputs(d)'
    BY <1>1, <1>8, <1>9, OutputsKept DEF Alike
  <1>19. Waits(d)'
    <2>1. \A j \in Chare : SameWaits(c, d, j)
      BY <1>5, <1>6, <1>7, <1>9 DEF SameWaits, Alike, Alongside
    <2> QED BY <1>1, <1>4, <1>9, <2>1, WaitsKept DEF Alike
  <1> QED BY <1>1, <1>4, <1>7, <1>8, <1>9, <1>10, <1>11, <1>12, <1>13, <1>14, <1>15, <1>16, <1>19, AlikeInv DEF Shape

\* Transporter::comfinal: all workers have been created.
LEMMA ComfinalKeeps ==
  ASSUME NEW c, StepsInv(c), Target("worker", "comfinal", Calls(Broadcast("setup")))
  PROVE  \E d : StepsInv(d)' /\ Alongside(c, d)
  <1> DEFINE e == Calls(Broadcast("setup"))
  <1>1. /\ c \in Config /\ Shape /\ Stages(c) /\ Diagnosing(c) /\ Remeshing(c) /\ Ahead(c) /\ Counters(c)
        /\ Expects(c) /\ Contributions(c) /\ Ends(c) /\ Exchanges(c) /\ Waits(c) /\ Volumes(c) /\ Outputs(c)
    BY PartsOfInv
  <1>2. Reduce("worker", "comfinal", e) /\ UNCHANGED <<stepVars, fileVars, refined, nodeVars>>
    BY DEF Target
  <1>3. e.calls = Broadcast("setup") /\ e.triggers = {} /\ e.posts = {}
    BY EffectFacts, PostsFacts
  <1> HIDE DEF e
  <1>4. /\ Frame /\ CharmShape'
        /\ msgs' = msgs \cup e.calls
        /\ \A o \in Object, y \in {"diag", "ref", "lhs", "resize", "disc", "work"} :
             trigger'[o][done(y)] = IF o = Host /\ done(y) \in e.triggers THEN trigger[o][done(y)] + 1
                                                                          ELSE trigger[o][done(y)]
        /\ \A i \in Chare : contrib["worker"][i] # <<>> /\ Head(contrib["worker"][i]) = "comfinal"
        /\ \A b \in Array, i \in Chare : contrib'[b][i] = IF b = "worker" THEN Tail(contrib[b][i]) ELSE contrib[b][i]
        /\ \A j \in Chare, w \in Wait : Due(j, w)' = Due(j, w)
    <2>1. UNCHANGED <<it, itr, field, buf, count>> /\ "worker" \in Array
      BY <1>2 DEF stepVars, nodeVars, Array
    <2>2. \A n \in e.calls : n.type # "com"
      BY <1>3, BroadcastIs
    <2> QED BY <1>2, <2>1, <2>2, PlainReduce
  <1>5. \A i \in Chare : c.stage[i] = 1 /\ Tail(contrib["worker"][i]) = <<>>
    BY <1>1, <1>4, Heads DEF Contributions
  <1>6. c.round = 0 /\ ~ c.started /\ \A i \in Chare : ~ Made(c, i) /\ c.ref[i] = 0
    <2>1. PICK i \in Chare : TRUE
      BY ConstantFacts
    <2>2. c.round = 0
      BY <1>1, <1>5, <2>1, ConfigIs DEF Stages
    <2>3. ~ c.started
      BY <1>1, <1>5, <2>1, <2>2 DEF Stages
    <2> QED BY <1>1, <2>2, <2>3 DEF Made, Remeshing
  <1>7. PICK d \in Config :
          /\ d.round = c.round /\ d.diag = c.diag /\ d.ref = c.ref /\ d.lhs = c.lhs /\ d.vol = c.vol /\ d.mesh = c.mesh
          /\ d.started = TRUE /\ d.diagnosed = c.diagnosed /\ d.disc = c.disc /\ d.work = c.work
          /\ \A j \in Chare : d.stage[j] = 2
    <2> DEFINE g == [j \in Chare |-> 2]
    <2>1. g \in [Chare -> 0 .. 17] /\ \A j \in Chare : g[j] = 2
      OBVIOUS
    <2> HIDE DEF g
    <2> DEFINE d == [c EXCEPT !.started = TRUE, !.stage = g]
    <2>2. c \in Config
      BY <1>1
    <2>3. /\ d \in Config
          /\ d.round = c.round /\ d.diag = c.diag /\ d.ref = c.ref /\ d.lhs = c.lhs /\ d.vol = c.vol /\ d.mesh = c.mesh
          /\ d.started = TRUE /\ d.diagnosed = c.diagnosed /\ d.disc = c.disc /\ d.work = c.work
          /\ d.stage = g
      BY <2>1, <2>2 DEF Config
    <2> HIDE DEF d
    <2> QED BY <2>1, <2>3
  <1>8. finished' = finished /\ UNCHANGED <<it, itf, lastDump, refined>>
    BY <1>2 DEF stepVars, fileVars
  <1>9. Alike(c, d)
    <2>1. c.mesh >= 3 => OfKind("vol") = {}
      BY <1>1 DEF Exchanges
    <2>2. \A j \in Chare : {c.stage[j], d.stage[j]} \subseteq 0 .. 4 /\ d.stage[j] >= c.stage[j]
      BY <1>5, <1>7
    <2> QED BY <1>7, <2>1, <2>2 DEF Alike, Alongside
  <1>10. Stages(d)'
    BY <1>1, <1>5, <1>6, <1>7, <1>8 DEF Stages
  <1>11. Remeshing(d) /\ Diagnosing(d)
    BY <1>1, <1>6, <1>7 DEF Diagnosing, Remeshing, Made
  <1>12. Ahead(d)
    BY <1>1, <1>7, <1>9, AlikeAhead
  <1>13. Expects(d)'
    <2>1. ASSUME NEW t, NEW j \in Chare, Expected(c, t, j) PROVE Expected(d, t, j)
      BY <1>5, <1>7, <2>1 DEF Expected
    <2>2. ASSUME NEW n \in e.calls
          PROVE  Plain(n) /\ n.to \in Chare /\ n = [type |-> n.type, to |-> n.to] /\ Expected(d, n.type, n.to)
      BY <1>3, <1>7, BroadcastIs DEF Plain, Expected
    <2>3. Handled(c, d, {}, e.calls)
      BY <1>4, <1>5, <1>7, <2>1, <2>2 DEF Handled
    <2> QED BY <1>1, <2>3, HandledExpects
  <1>14. Contributions(d)'
    <2> SUFFICES ASSUME NEW j \in Chare PROVE ContributedBy(d, j)'
      BY DEF Contributions
    <2>1. /\ contrib'["disc"][j] = contrib["disc"][j] /\ contrib'["refiner"][j] = contrib["refiner"][j]
          /\ contrib'["sync"][j] = contrib["sync"][j]
          /\ contrib'["worker"][j] = <<>>
      BY <1>4, <1>5 DEF Array
    <2>2. Complete("vol", About(d, "vol"), Senders(d, "vol"), j)' = Complete("vol", About(c, "vol"), Senders(c, "vol"), j)
      BY <1>1, <1>4, <1>7, <1>9, AlikeVol
    <2>3. ContributedBy(c, j)
      BY <1>1 DEF Contributions
    <2> QED BY <1>5, <1>6, <1>7, <1>8, <2>1, <2>2, <2>3 DEF ContributedBy
  <1>15. Ends(d)'
    <2>1. \A j \in Chare, y \in {"diag", "ref", "lhs", "resize"} : Ended(c, j, y) => Ended(d, j, y)
      BY <1>5, <1>6, <1>7 DEF Ended, Made
    <2>2. Ending(c, d)
      BY <1>3, <1>4, <1>5, <1>6, <1>7, <2>1, ObjectFacts DEF Ending
    <2> QED BY <1>1, <2>2, EndingEnds
  <1>16. Outputs(d)'
    BY <1>1, <1>8, <1>9, OutputsKept DEF Alike
  <1>19. Waits(d)'
    <2>1. \A j \in Chare : SameWaits(c, d, j)
      BY <1>5, <1>6, <1>7, <1>9 DEF SameWaits, Alike, Alongside
    <2> QED BY <1>1, <1>4, <1>9, <2>1, WaitsKept DEF Alike
  <1> QED BY <1>1, <1>4, <1>7, <1>8, <1>9, <1>10, <1>11, <1>12, <1>13, <1>14, <1>15, <1>16, <1>19, AlikeInv DEF Shape

\* Transporter::resized: all chares have their new meshes, and compute volumes and lhs on them.
LEMMA MeshResizedKeeps ==
  ASSUME NEW c, StepsInv(c), TransporterResized(Broadcast("vol") \cup Broadcast("lhs"))
  PROVE  \E d : StepsInv(d)' /\ Alongside(c, d)
  <1> DEFINE e == Calls(Broadcast("vol") \cup Broadcast("lhs"))
  <1>1. /\ c \in Config /\ Shape /\ Stages(c) /\ Diagnosing(c) /\ Remeshing(c) /\ Ahead(c) /\ Counters(c)
        /\ Expects(c) /\ Contributions(c) /\ Ends(c) /\ Exchanges(c) /\ Waits(c) /\ Volumes(c) /\ Outputs(c)
    BY PartsOfInv
  <1>2. Run(Host, "resize", e) /\ UNCHANGED <<stepVars, fileVars, refined, nodeVars>>
    BY DEF TransporterResized
  <1>3. e.calls = Broadcast("vol") \cup Broadcast("lhs") /\ e.triggers = {} /\ e.posts = {}
    BY EffectFacts, PostsFacts
  <1> HIDE DEF e
  <1>4. /\ Frame /\ CharmShape'
        /\ msgs' = msgs \cup e.calls
        /\ \A y \in {"diag", "ref", "lhs", "resize", "disc", "work"} :
             /\ done(y) \in Needs["resize"] => trigger[Host][done(y)] > 0
             /\ \A k \in Object : trigger'[k][done(y)] = IF k = Host /\ done(y) \in Needs["resize"] THEN trigger[k][done(y)] - 1
                                                                                                   ELSE trigger[k][done(y)]
        /\ Adds(Host, e)
        /\ \A j \in Chare, w \in Wait : Due(j, w)' = Due(j, w)
    <2>1. UNCHANGED <<it, itr, field, buf, count>> /\ Host \in Object
      BY <1>2, ObjectFacts DEF stepVars, nodeVars
    <2>2. \A n \in e.calls : n.type # "com"
      BY <1>3, BroadcastIs
    <2> QED BY <1>2, <1>3, <2>1, <2>2, PlainRun, ObjectFacts
  <1>5. trigger[Host][done("disc")] > 0 /\ trigger[Host][done("work")] > 0
    BY <1>4, WaitFacts
  <1>6. /\ c.mesh = 1 /\ c.disc /\ c.work /\ Refines(c.round)
        /\ \A i \in Chare : Made(c, i) /\ c.stage[i] = 11 /\ c.ref[i] = 3 /\ c.vol[i] = 0 /\ c.lhs[i] = 0
    <2>1. c.mesh = 1 /\ c.disc /\ c.work
      BY <1>1, <1>5 DEF Ends
    <2>2. Refines(c.round) /\ \A i \in Chare : Made(c, i) /\ c.ref[i] = 3 /\ c.vol[i] = 0 /\ c.lhs[i] = 0
      BY <1>1, <2>1 DEF Remeshing
    <2>3. ASSUME NEW j \in Chare PROVE c.stage[j] = 11
      <3>1. c.stage[j] \in 0 .. 17 /\ ~ (c.stage[j] >= 12) /\ c.stage[j] >= 11
        BY <1>1, <2>2 DEF Remeshing, Config, Made
      <3> QED BY <3>1
    <2> QED BY <2>1, <2>2, <2>3
  <1>7. PICK d \in Config :
          /\ d.round = c.round /\ d.stage = c.stage /\ d.diag = c.diag /\ d.ref = c.ref
          /\ d.started = c.started /\ d.diagnosed = c.diagnosed /\ d.disc = c.disc /\ d.work = c.work
          /\ d.mesh = 2 /\ \A j \in Chare : d.lhs[j] = 1 /\ d.vol[j] = 1
    <2> DEFINE v == [j \in Chare |-> 1]
    <2>1. v \in [Chare -> 0 .. 6] /\ v \in [Chare -> 0 .. 3] /\ \A j \in Chare : v[j] = 1
      OBVIOUS
    <2> HIDE DEF v
    <2>2. c \in Config /\ 2 \in 0 .. 4 /\ c.ref \in [Chare -> 0 .. 3]
      BY <1>1, ConfigIs
    <2>3. \E d \in Config : Remeshed(c, d, 2, c.ref, v, v)
      BY <2>1, <2>2, MeshSet
    <2> QED BY <2>1, <2>3 DEF Remeshed
  <1>8. finished' = finished /\ UNCHANGED <<it, itf, lastDump, refined>>
    BY <1>2 DEF stepVars, fileVars
  <1>9. Alike(c, d)
    <2>1. \A j \in Chare : {c.vol[j], d.vol[j]} \subseteq 0 .. 1 /\ {c.lhs[j], d.lhs[j]} \subseteq 0 .. 1
      BY <1>6, <1>7
    <2> QED BY <1>7, <2>1 DEF Alike, Alongside
  <1>10. Stages(d)' /\ Diagnosing(d)
    BY <1>1, <1>7, <1>8 DEF Stages, Diagnosing, Made
  <1>11. Remeshing(d)
    BY <1>1, <1>6, <1>7 DEF Remeshing, Made
  <1>12. Ahead(d)
    <2>1. \A j \in Chare : d.vol[j] >= 3 => c.vol[j] >= 3
      BY <1>7
    <2> QED BY <1>1, <1>7, <1>9, <2>1, AlikeAhead
  <1>13. Expects(d)'
    <2>1. ASSUME NEW t, NEW j \in Chare, Expected(c, t, j) PROVE Expected(d, t, j)
      BY <1>6, <1>7, <2>1 DEF Expected
    <2>2. ASSUME NEW n \in e.calls
          PROVE  Plain(n) /\ n.to \in Chare /\ n = [type |-> n.type, to |-> n.to] /\ Expected(d, n.type, n.to)
      BY <1>3, <1>7, <2>2, BroadcastIs DEF Plain, Expected
    <2>3. Handled(c, d, {}, e.calls)
      BY <1>4, <1>7, <2>1, <2>2 DEF Handled
    <2> QED BY <1>1, <2>3, HandledExpects
  <1>14. Contributions(d)'
    <2> SUFFICES ASSUME NEW j \in Chare PROVE ContributedBy(d, j)'
      BY DEF Contributions
    <2>1. /\ contrib'["worker"][j] = contrib["worker"][j] /\ contrib'["refiner"][j] = contrib["refiner"][j]
          /\ contrib'["sync"][j] = contrib["sync"][j] /\ contrib'["disc"][j] = contrib["disc"][j]
      BY <1>4, ObjectFacts DEF Adds, Array
    <2>2. ContributedBy(c, j)
      BY <1>1 DEF Contributions
    <2>3. contrib["disc"][j] = <<>>
      BY <1>6, <2>2 DEF ContributedBy
    <2>4. contrib["disc"][j] # <<"vol">>
      BY <2>3
    <2> QED BY <1>6, <1>7, <1>8, <2>1, <2>2, <2>3, <2>4 DEF ContributedBy
  <1>15. Ends(d)'
    <2>1. \A y \in {"diag", "ref", "lhs", "resize"} : done(y) \notin Needs["resize"]
      BY WaitFacts, TriggersDiffer
    <2>2. \A j \in Chare, y \in {"diag", "ref", "lhs", "resize"} :
            trigger'[j][done(y)] = trigger[j][done(y)] /\ (Ended(c, j, y) => Ended(d, j, y))
      BY <1>4, <1>6, <1>7, <2>1, ObjectFacts DEF Ended, Made
    <2>3. trigger'[Host][done("disc")] = 0 /\ trigger'[Host][done("work")] = 0
      BY <1>1, <1>4, <1>6, ObjectFacts, WaitFacts DEF Ends
    <2> QED BY <1>1, <1>7, <2>2, <2>3 DEF Ends, Ended, Made
  <1>16. Outputs(d)'
    BY <1>1, <1>8, <1>9, OutputsKept DEF Alike
  <1>19. Waits(d)'
    <2>1. \A j \in Chare : SameWaits(c, d, j)
      BY <1>5, <1>6, <1>7, <1>9 DEF SameWaits, Alike, Alongside
    <2> QED BY <1>1, <1>4, <1>9, <2>1, WaitsKept DEF Alike
  <1> QED BY <1>1, <1>4, <1>7, <1>8, <1>9, <1>10, <1>11, <1>12, <1>13, <1>14, <1>15, <1>16, <1>19, AlikeInv DEF Shape

\* Load balancing is done.
LEMMA SyncKeeps ==
  ASSUME NEW c, StepsInv(c), Sync
  PROVE  \E d : StepsInv(d)' /\ Alongside(c, d)
  <1> DEFINE e == Calls(Broadcast("resume"))
  <1>1. /\ c \in Config /\ Shape /\ Stages(c) /\ Diagnosing(c) /\ Remeshing(c) /\ Ahead(c) /\ Counters(c)
        /\ Expects(c) /\ Contributions(c) /\ Ends(c) /\ Exchanges(c) /\ Waits(c) /\ Volumes(c) /\ Outputs(c)
    BY PartsOfInv
  <1>2. Reduce("sync", "sync", e) /\ UNCHANGED <<stepVars, fileVars, refined, nodeVars>>
    BY DEF Sync, Target
  <1>3. e.calls = Broadcast("resume") /\ e.triggers = {} /\ e.posts = {}
    BY EffectFacts, PostsFacts
  <1> HIDE DEF e
  <1>4. /\ Frame /\ CharmShape'
        /\ msgs' = msgs \cup e.calls
        /\ \A o \in Object, y \in {"diag", "ref", "lhs", "resize", "disc", "work"} :
             trigger'[o][done(y)] = IF o = Host /\ done(y) \in e.triggers THEN trigger[o][done(y)] + 1
                                                                          ELSE trigger[o][done(y)]
        /\ \A i \in Chare : contrib["sync"][i] # <<>> /\ Head(contrib["sync"][i]) = "sync"
        /\ \A b \in Array, i \in Chare : contrib'[b][i] = IF b = "sync" THEN Tail(contrib[b][i]) ELSE contrib[b][i]
        /\ \A j \in Chare, w \in Wait : Due(j, w)' = Due(j, w)
    <2>1. UNCHANGED <<it, itr, field, buf, count>> /\ "sync" \in Array
      BY <1>2 DEF stepVars, nodeVars, Array
    <2>2. \A n \in e.calls : n.type # "com"
      BY <1>3, BroadcastIs
    <2> QED BY <1>2, <2>1, <2>2, PlainReduce
  <1>5. CASE Nonblocking
    <2>1. finished' = finished /\ UNCHANGED <<it, itf, lastDump, refined>>
      BY <1>2 DEF stepVars, fileVars
    <2>2. Alike(c, c)
      BY <1>1 DEF Exchanges, Alike, Alongside
    <2>3. Stages(c)'
      BY <1>1, <2>1 DEF Stages
    <2>4. Expects(c)'
      <3>1. ASSUME NEW n \in e.calls
            PROVE  Plain(n) /\ n.to \in Chare /\ n = [type |-> n.type, to |-> n.to] /\ Expected(c, n.type, n.to)
        BY <1>3, <1>5, BroadcastIs DEF Plain, Expected
      <3>2. Handled(c, c, {}, e.calls)
        BY <1>4, <3>1 DEF Handled
      <3> QED BY <1>1, <3>2, HandledExpects
    <2>5. Contributions(c)'
      <3> SUFFICES ASSUME NEW j \in Chare PROVE ContributedBy(c, j)'
        BY DEF Contributions
      <3>1. /\ contrib'["worker"][j] = contrib["worker"][j] /\ contrib'["disc"][j] = contrib["disc"][j]
            /\ contrib'["refiner"][j] = contrib["refiner"][j] /\ contrib'["sync"][j] = Tail(contrib["sync"][j])
            /\ contrib["sync"][j] # <<>>
        BY <1>4 DEF Array
      <3>2. Complete("vol", About(c, "vol"), Senders(c, "vol"), j)' = Complete("vol", About(c, "vol"), Senders(c, "vol"), j)
        BY <1>1, <1>4, <2>2, AlikeVol
      <3>3. ContributedBy(c, j)
        BY <1>1 DEF Contributions
      <3>4. contrib["sync"][j] \in Seq({"sync"})
        BY <3>3 DEF ContributedBy
      <3>5. Tail(contrib["sync"][j]) \in Seq({"sync"})
        BY <3>1, <3>4
      <3> QED BY <1>5, <2>1, <3>1, <3>2, <3>3, <3>5 DEF ContributedBy
    <2>6. Ends(c)'
      <3>1. \A j \in Chare, y \in {"diag", "ref", "lhs", "resize"} : Ended(c, j, y) => Ended(c, j, y)
        OBVIOUS
      <3>2. Ending(c, c)
        BY <1>3, <1>4, <3>1, ObjectFacts DEF Ending
      <3> QED BY <1>1, <3>2, EndingEnds
    <2>7. Outputs(c)'
      BY <1>1, <2>1, <2>2, OutputsKept DEF Alike
    <2>8. Waits(c)'
      <3>1. \A j \in Chare : SameWaits(c, c, j)
        BY DEF SameWaits
      <3> QED BY <1>1, <1>4, <2>2, <3>1, WaitsKept DEF Alike
    <2> QED BY <1>1, <1>4, <2>1, <2>2, <2>3, <2>4, <2>5, <2>6, <2>7, <2>8, AlikeInv DEF Shape
  <1>6. CASE ~ Nonblocking
    <2>1. finished' = finished /\ UNCHANGED <<it, itf, lastDump, refined>>
      BY <1>2 DEF stepVars, fileVars
    <2>2. ASSUME NEW i \in Chare PROVE c.stage[i] = 14 /\ Tail(contrib["sync"][i]) = <<>>
      <3>1. contrib["sync"][i] # <<>> /\ ContributedBy(c, i)
        BY <1>1, <1>4 DEF Contributions
      <3>2. c.stage[i] = 14 /\ contrib["sync"][i] = <<"sync">>
        BY <1>6, <3>1 DEF ContributedBy
      <3> QED BY <3>2, TargetFacts
    <2>3. c.round > 0 /\ c.round < NStep /\ ~ finished
      <3>1. PICK i \in Chare : TRUE
        BY ConstantFacts
      <3>2. c.round # 0
        BY <1>1, <2>2, <3>1 DEF Stages
      <3> QED BY <1>1, <2>2, <3>1, <3>2, ConfigIs DEF Stages
    <2>4. PICK d \in Config : SameRest(c, d) /\ \A j \in Chare : d.stage[j] = 15
      <3> DEFINE g == [j \in Chare |-> 15]
      <3>1. g \in [Chare -> 0 .. 17] /\ \A j \in Chare : g[j] = 15
        OBVIOUS
      <3> HIDE DEF g
      <3> QED BY <1>1, <3>1, StageSet
    <2>5. /\ d.round = c.round /\ d.diag = c.diag /\ d.ref = c.ref /\ d.lhs = c.lhs /\ d.vol = c.vol
          /\ d.mesh = c.mesh /\ d.started = c.started /\ d.diagnosed = c.diagnosed
          /\ d.disc = c.disc /\ d.work = c.work
      BY <2>4 DEF SameRest
    <2>6. Alike(c, d)
      <3>1. c.mesh >= 3 => OfKind("vol") = {}
        BY <1>1 DEF Exchanges
      <3>2. \A j \in Chare : {c.stage[j], d.stage[j]} \subseteq 11 .. 17 /\ d.stage[j] >= c.stage[j]
        BY <2>2, <2>4
      <3> QED BY <2>3, <2>5, <3>1, <3>2 DEF Alike, Alongside
    <2>7. Stages(d)'
      BY <1>1, <1>6, <2>1, <2>3, <2>4, <2>5 DEF Stages
    <2>8. Diagnosing(d) /\ Remeshing(d)
      <3>1. \A j \in Chare : (Made(d, j) <=> Made(c, j)) /\ (d.stage[j] >= 12 <=> c.stage[j] >= 12)
        BY <2>2, <2>4, <2>5 DEF Made
      <3> QED BY <1>1, <2>5, <3>1 DEF Diagnosing, Remeshing
    <2>9. Ahead(d)
      BY <1>1, <2>5, <2>6, AlikeAhead
    <2>10. Expects(d)'
      <3>1. ASSUME NEW t, NEW j \in Chare, Expected(c, t, j) PROVE Expected(d, t, j)
        BY <2>2, <2>4, <2>5, <3>1 DEF Expected
      <3>2. ASSUME NEW n \in e.calls
            PROVE  Plain(n) /\ n.to \in Chare /\ n = [type |-> n.type, to |-> n.to] /\ Expected(d, n.type, n.to)
        BY <1>3, <2>4, BroadcastIs DEF Plain, Expected
      <3>3. Handled(c, d, {}, e.calls)
        BY <1>4, <2>2, <3>1, <3>2 DEF Handled
      <3> QED BY <1>1, <3>3, HandledExpects
    <2>11. Contributions(d)'
      <3> SUFFICES ASSUME NEW j \in Chare PROVE ContributedBy(d, j)'
        BY DEF Contributions
      <3>1. /\ contrib'["worker"][j] = contrib["worker"][j] /\ contrib'["disc"][j] = contrib["disc"][j]
            /\ contrib'["refiner"][j] = contrib["refiner"][j] /\ contrib'["sync"][j] = <<>>
        BY <1>4, <2>2 DEF Array
      <3>2. Complete("vol", About(d, "vol"), Senders(d, "vol"), j)' = Complete("vol", About(c, "vol"), Senders(c, "vol"), j)
        BY <1>1, <1>4, <2>6, AlikeVol
      <3>3. ContributedBy(c, j)
        BY <1>1 DEF Contributions
      <3>4. <<>> \in Seq({"sync"})
        OBVIOUS
      <3> QED BY <2>1, <2>2, <2>4, <2>5, <3>1, <3>2, <3>3, <3>4 DEF ContributedBy
    <2>12. Ends(d)'
      <3>1. \A j \in Chare, y \in {"diag", "ref", "lhs", "resize"} : Ended(c, j, y) => Ended(d, j, y)
        BY <2>2 DEF Ended
      <3>2. Ending(c, d)
        BY <1>3, <1>4, <2>5, <3>1, ObjectFacts DEF Ending
      <3> QED BY <1>1, <3>2, EndingEnds
    <2>13. Outputs(d)'
      BY <1>1, <2>1, <2>6, OutputsKept DEF Alike
    <2>14. Waits(d)'
      <3>1. \A j \in Chare : SameWaits(c, d, j)
        BY <2>2, <2>4, <2>5 DEF SameWaits
      <3> QED BY <1>1, <1>4, <2>6, <3>1, WaitsKept DEF Alike
    <2> QED BY <1>1, <1>4, <2>1, <2>4, <2>6, <2>7, <2>8, <2>9, <2>10, <2>11, <2>12, <2>13, <2>14, AlikeInv DEF Shape
  <1> QED BY <1>5, <1>6

\* Transporter::finish: the run ends.
LEMMA EndKeeps ==
  ASSUME NEW c, StepsInv(c), Finish("disc")
  PROVE  /\ \E d : StepsInv(d)' /\ Alongside(c, d)
         /\ c.round = NStep /\ ~ finished /\ UNCHANGED <<it, itr>> /\ finished'
         /\ \A i \in Chare : c.stage[i] = 16
  <1>1. /\ c \in Config /\ Shape /\ Stages(c) /\ Diagnosing(c) /\ Remeshing(c) /\ Ahead(c) /\ Counters(c)
        /\ Expects(c) /\ Contributions(c) /\ Ends(c) /\ Exchanges(c) /\ Waits(c) /\ Volumes(c) /\ Outputs(c)
    BY PartsOfInv
  <1>2. /\ Reduce("disc", "finish", Nothing) /\ finished' = TRUE
        /\ UNCHANGED <<it, itr, fileVars, refined, nodeVars>>
    BY DEF Finish
  <1>3. Nothing.calls = {} /\ Nothing.triggers = {} /\ Nothing.posts = {}
    BY EffectFacts, PostsFacts
  <1>4. /\ Frame /\ CharmShape'
        /\ msgs' = msgs \cup Nothing.calls
        /\ \A o \in Object, y \in {"diag", "ref", "lhs", "resize", "disc", "work"} :
             trigger'[o][done(y)] = IF o = Host /\ done(y) \in Nothing.triggers THEN trigger[o][done(y)] + 1
                                                                                ELSE trigger[o][done(y)]
        /\ \A i \in Chare : contrib["disc"][i] # <<>> /\ Head(contrib["disc"][i]) = "finish"
        /\ \A b \in Array, i \in Chare : contrib'[b][i] = IF b = "disc" THEN Tail(contrib[b][i]) ELSE contrib[b][i]
        /\ \A j \in Chare, w \in Wait : Due(j, w)' = Due(j, w)
    <2>1. UNCHANGED <<it, itr, field, buf, count>> /\ "disc" \in Array
      BY <1>2 DEF nodeVars, Array
    <2>2. \A n \in Nothing.calls : n.type # "com"
      BY <1>3
    <2> QED BY <1>2, <2>1, <2>2, PlainReduce
  <1>5. \A i \in Chare : c.stage[i] = 16 /\ ~ finished /\ Tail(contrib["disc"][i]) = <<>>
    BY <1>1, <1>4, Heads DEF Contributions
  <1>6. c.round = NStep /\ c.round > 0 /\ ~ finished
    <2>1. PICK i \in Chare : TRUE
      BY ConstantFacts
    <2> QED BY <1>1, <1>5, <2>1, ConstantFacts DEF Stages
  <1>7. ASSUME NEW j \in Chare
        PROVE  /\ Made(c, j) /\ c.diag[j] = 3 /\ c.vol[j] \in {0, 6}
               /\ c.ref[j] = 3 => c.disc /\ c.work
    <2>1. Made(c, j) /\ c.diag[j] = 3
      BY <1>1, <1>5, <1>6 DEF Made, Diagnosing
    <2>2. CASE Refines(c.round)
      <3>1. c.vol[j] = 6 /\ c.mesh \in 0 .. 4
        BY <1>1, <1>5, <2>1, <2>2, ConfigIs DEF Remeshing
      <3>2. c.vol[j] \in CASE c.mesh < 2 -> {0} [] c.mesh = 2 -> {1, 2} [] c.mesh = 3 -> {3, 4} [] OTHER -> {5, 6}
        BY <1>1 DEF Remeshing
      <3>3. c.mesh >= 2
        BY <3>1, <3>2
      <3> QED BY <1>1, <2>1, <3>1, <3>3 DEF Remeshing
    <2>3. CASE ~ Refines(c.round)
      <3>1. c.mesh = 0 /\ c.ref[j] = 0
        BY <1>1, <2>1, <2>3, ConfigIs DEF Remeshing
      <3>2. c.vol[j] = 0
        BY <1>1, <3>1 DEF Remeshing
      <3> QED BY <2>1, <3>1, <3>2
    <2> QED BY <2>2, <2>3
  <1>8. UNCHANGED <<it, itf, lastDump, refined>>
    BY <1>2 DEF fileVars
  <1>9. Alike(c, c)
    BY <1>1 DEF Exchanges, Alike, Alongside
  <1>10. Stages(c)'
    BY <1>1, <1>5 DEF Stages
  <1>11. Expects(c)'
    <2>1. Handled(c, c, {}, Nothing.calls)
      BY <1>3, <1>4 DEF Handled
    <2> QED BY <1>1, <2>1, HandledExpects
  <1>12. Contributions(c)'
    <2> SUFFICES ASSUME NEW j \in Chare PROVE ContributedBy(c, j)'
      BY DEF Contributions
    <2>1. /\ contrib'["worker"][j] = contrib["worker"][j] /\ contrib'["refiner"][j] = contrib["refiner"][j]
          /\ contrib'["sync"][j] = contrib["sync"][j]
          /\ contrib'["disc"][j] = <<>>
      BY <1>4, <1>5 DEF Array
    <2>2. ContributedBy(c, j)
      BY <1>1 DEF Contributions
    <2>3. contrib'["disc"][j] \in
            IF c.stage[j] = 16 /\ ~ finished' THEN {<<"finish">>}
            ELSE IF c.ref[j] = 3 /\ ~ c.disc THEN {<<"discresized">>}
            ELSE IF c.vol[j] \in {1, 2} THEN {<<>>, <<"vol">>}
            ELSE IF c.vol[j] = 4 THEN {<<"totalvol">>} ELSE {<<>>}
      BY <1>2, <1>7, <2>1
    <2>4. contrib'["disc"][j] # <<"vol">>
      BY <2>1
    <2> QED BY <2>1, <2>2, <2>3, <2>4 DEF ContributedBy
  <1>13. Ends(c)'
    <2>1. Ending(c, c)
      BY <1>3, <1>4, ObjectFacts DEF Ending
    <2> QED BY <1>1, <2>1, EndingEnds
  <1>14. Outputs(c)'
    BY <1>1, <1>8, <1>9, OutputsKept DEF Alike
  <1>15. Waits(c)'
    <2>1. \A j \in Chare : SameWaits(c, c, j)
      BY DEF SameWaits
    <2> QED BY <1>1, <1>4, <1>9, <2>1, WaitsKept DEF Alike
  <1>16. \E b : StepsInv(b)' /\ Alongside(c, b)
    BY <1>1, <1>2, <1>4, <1>9, <1>10, <1>11, <1>12, <1>13, <1>14, <1>15, AlikeInv
  <1> QED BY <1>2, <1>5, <1>6, <1>16
=============================================================================
