---------------------------- MODULE WalkerProofs ----------------------------
(***************************************************************************)
(* Proofs that the chares of walker keep the steps apart: see              *)
(* WalkerInvariant for what is true in every state.                        *)
(***************************************************************************)
EXTENDS WalkerInvariant, FiniteSetTheorems, TLAPS

USE WalkerAssumption

-----------------------------------------------------------------------------
\* Adding a sample to a sum.
LEMMA AddFirst == ASSUME NEW S PROVE EmptyBag (+) SetToBag(S) = SetToBag(S)
  BY DEF EmptyBag, SetToBag, (+)

\* The next one.
LEMMA AddOne ==
  ASSUME NEW S, NEW x, x \notin S PROVE SetToBag(S) (+) SetToBag({x}) = SetToBag(S \cup {x})
  BY DEF EmptyBag, SetToBag, (+)

\* Appending to a sequence of anything.
LEMMA AppendTwo ==
  ASSUME NEW s, IsSeq(s), NEW a, NEW b
  PROVE  LET u == s \o <<a, b>>
         IN  /\ IsSeq(u) /\ Len(u) = Len(s) + 2
             /\ u[Len(s) + 1] = a /\ u[Len(s) + 2] = b
             /\ \A k \in 1 .. Len(s) : u[k] = s[k]
  <1> DEFINE S == {s[k] : k \in 1 .. Len(s)} \cup {a, b}
             u == s \o <<a, b>>
  <1>1. s \in Seq(S)
    <2>1. s \in [1 .. Len(s) -> S] /\ Len(s) \in Nat
      BY DEF IsSeq
    <2> QED BY <2>1
  <1>2. <<a, b>> \in Seq(S)
    OBVIOUS
  <1> HIDE DEF S
  <1>3. u \in Seq(S) /\ Len(u) = Len(s) + 2
    BY <1>1, <1>2
  <1>4. \A k \in 1 .. Len(s) : u[k] = s[k]
    BY <1>1, <1>2
  <1>5. u[Len(s) + 1] = a /\ u[Len(s) + 2] = b
    BY <1>1, <1>2
  <1>6. IsSeq(u)
    BY <1>3 DEF IsSeq
  <1> QED BY <1>3, <1>4, <1>5, <1>6

-----------------------------------------------------------------------------
\* Every PE has Integrators, finitely many, and each Integrator is on one PE.
LEMMA OnFacts ==
  /\ \A p \in Pe : On(p) \subseteq Chare /\ On(p) # {}
  /\ \A i \in Chare : Home[i] \in Pe /\ i \in On(Home[i]) /\ \A p \in Pe : i \in On(p) => p = Home[i]
  /\ 0 \in Chare /\ 0 \in Pe
  <1>1. \A i \in Chare : Home[i] \in Pe
    BY DEF Chare, Pe
  <1>2. 0 \in Chare /\ 0 \in Pe
    BY DEF Chare, Pe
  <1>3. \A p \in Pe : \E i \in Chare : Home[i] = p
    BY DEF Chare, Pe
  <1> QED BY <1>1, <1>2, <1>3 DEF On

\* Integrators can be counted.
LEMMA FiniteOn == ASSUME NEW S \in SUBSET Chare PROVE IsFiniteSet(S) /\ Cardinality(S) \in Nat
  <1>1. IsFiniteSet(Chare)
    BY FS_Interval DEF Chare
  <1> QED BY <1>1, FS_Subset, FS_CardinalityType

\* Where no PE is busy, no Integrator is.
LEMMA NoneBusy ==
  ASSUME NEW P \in SUBSET Chare, \A p \in Pe : ~ Busy(p, P) PROVE P = {}
  BY OnFacts DEF Busy

\* All are busy at the start of a step.
LEMMA AllBusy == \A p \in Pe : Busy(p, Chare) /\ On(p) \ Chare = {}
  BY OnFacts DEF Busy

\* Counting Integrators tells when the last of a PE has called.
LEMMA CountCalls ==
  ASSUME NEW P \in SUBSET Chare, NEW i \in P
  PROVE  /\ Cardinality(On(Home[i]) \ (P \ {i})) = Cardinality(On(Home[i]) \ P) + 1
         /\ Cardinality(On(Home[i]) \ P) \in Nat
         /\ Cardinality(On(Home[i]) \ P) + 1 = Cardinality(On(Home[i])) <=> ~ Busy(Home[i], P \ {i})
         /\ \A p \in Pe : p # Home[i] => On(p) \ (P \ {i}) = On(p) \ P /\ Busy(p, P \ {i}) = Busy(p, P)
         /\ Busy(Home[i], P)
  <1> DEFINE on == On(Home[i])
             now == on \ (P \ {i})
  <1>1. i \in on /\ on \subseteq Chare /\ i \notin on \ P /\ now = (on \ P) \cup {i}
    BY OnFacts
  <1>2. IsFiniteSet(on \ P) /\ Cardinality(on \ P) \in Nat
    BY <1>1, FiniteOn
  <1>3. Cardinality(now) = Cardinality(on \ P) + 1
    <2> HIDE DEF on, now
    <2> QED BY <1>1, <1>2, FS_AddElement
  <1>4. Cardinality(now) = Cardinality(on) <=> ~ Busy(Home[i], P \ {i})
    <2>1. now \in SUBSET on /\ IsFiniteSet(on)
      BY <1>1, FiniteOn
    <2>2. Cardinality(now) = Cardinality(on) <=> now = on
      <3> HIDE DEF now, on
      <3> QED BY <2>1, FS_Subset
    <2>3. now = on <=> ~ Busy(Home[i], P \ {i})
      BY DEF Busy
    <2> QED BY <2>2, <2>3
  <1>5. \A p \in Pe : p # Home[i] => On(p) \ (P \ {i}) = On(p) \ P /\ Busy(p, P \ {i}) = Busy(p, P)
    <2> SUFFICES ASSUME NEW p \in Pe, p # Home[i]
                 PROVE  On(p) \ (P \ {i}) = On(p) \ P /\ Busy(p, P \ {i}) = Busy(p, P)
      OBVIOUS
    <2>1. i \notin On(p)
      BY OnFacts
    <2> QED BY <2>1 DEF Busy
  <1>6. Busy(Home[i], P)
    BY <1>1 DEF Busy
  <1> QED BY <1>2, <1>3, <1>4, <1>5, <1>6

-----------------------------------------------------------------------------
\* A partial sum grows by one sample, from nothing to the estimate.
LEMMA PartialGrows ==
  ASSUME NEW P \in SUBSET Chare, NEW i \in P, NEW cen \in BOOLEAN
  PROVE  Partial(Home[i], P, cen) (+) SetToBag({Sample(cen, i)}) = Partial(Home[i], P \ {i}, cen)
  <1> DEFINE old == {Sample(cen, j) : j \in On(Home[i]) \ P}
             now == {Sample(cen, j) : j \in On(Home[i]) \ (P \ {i})}
  <1>1. \A j \in Chare : Sample(cen, j).of = j
    BY DEF Sample
  <1>2. Sample(cen, i) \notin old
    BY <1>1, OnFacts
  <1>3. now = old \cup {Sample(cen, i)}
    BY OnFacts
  <1> HIDE DEF old, now
  <1>4. SetToBag(old) (+) SetToBag({Sample(cen, i)}) = SetToBag(now)
    BY <1>2, <1>3, AddOne
  <1> QED BY <1>4 DEF Partial, old, now

\* Nothing is added up at first,
LEMMA PartialNone ==
  ASSUME NEW P, NEW p \in Pe, On(p) \ P = {}, NEW cen PROVE Partial(p, P, cen) = EmptyBag
  BY DEF Partial, EmptyBag

\* and the estimate of the PE when none of its Integrators is left.
LEMMA PartialAll ==
  ASSUME NEW P, NEW p \in Pe, ~ Busy(p, P), NEW cen \in BOOLEAN
  PROVE  /\ Partial(p, P, cen) = EstimateOf(Current(cen), it)[p]
         /\ Partial(p, P, cen) = EstimateOf(CurrentPdf(cen), it)[p]
  <1>1. On(p) \ P = On(p)
    BY DEF Busy
  <1>2. CASE cen
    <2>1. EstimateOf(Current(cen), it) = AllCen(it) /\ EstimateOf(CurrentPdf(cen), it) = AllCen(it)
      BY <1>2 DEF EstimateOf, Current, CurrentPdf
    <2>2. Partial(p, P, cen) = SetToBag({[of |-> i, age |-> it, about |-> All(it)] : i \in On(p)})
      BY <1>1, <1>2 DEF Partial, Sample
    <2> QED BY <2>1, <2>2 DEF AllCen
  <1>3. CASE ~cen
    <2>1. EstimateOf(Current(cen), it) = All(it) /\ EstimateOf(CurrentPdf(cen), it) = All(it)
      BY <1>3 DEF EstimateOf, Current, CurrentPdf
    <2>2. Partial(p, P, cen) = SetToBag({[of |-> i, age |-> it] : i \in On(p)})
      BY <1>1, <1>3 DEF Partial, Sample
    <2> QED BY <2>1, <2>2 DEF All
  <1> QED BY <1>2, <1>3

\* An estimate is the first sum added to the moment set back.
LEMMA NoSumPlus ==
  ASSUME NEW x \in Estimate, NEW n PROVE Plus(NoSum, EstimateOf(x, n)) = EstimateOf(x, n)
  <1>1. CASE EstimateOf(x, n) = All(n)
    <2>1. \A p \in Pe : NoSum[p] (+) All(n)[p] = All(n)[p]
      BY AddFirst DEF NoSum, All
    <2> QED BY <1>1, <2>1 DEF Plus, All
  <1>2. CASE EstimateOf(x, n) = AllCen(n)
    <2>1. \A p \in Pe : NoSum[p] (+) AllCen(n)[p] = AllCen(n)[p]
      BY AddFirst DEF NoSum, AllCen
    <2> QED BY <1>2, <2>1 DEF Plus, AllCen
  <1> QED BY <1>1, <1>2 DEF EstimateOf

\* The four estimates of a step have the four positions of the step.
LEMMA PositionFacts ==
  /\ Position \in [Estimate -> 1 .. 4]
  /\ \A x, y \in Estimate : Position[x] = Position[y] => x = y
  /\ \A j \in 1 .. 4 : \E x \in Estimate : Position[x] = j
  /\ Position["estimateOrd"] = 1 /\ Position["estimateOrdPDF"] = 2
  /\ Position["estimateCen"] = 3 /\ Position["estimateCenPDF"] = 4
  <1>1. Estimate = {"estimateOrd", "estimateOrdPDF", "estimateCen", "estimateCenPDF"}
    BY DEF Estimate, Moment
  <1>2. /\ Position \in [Estimate -> 1 .. 4]
        /\ Position["estimateOrd"] = 1 /\ Position["estimateOrdPDF"] = 2
        /\ Position["estimateCen"] = 3 /\ Position["estimateCenPDF"] = 4
    BY <1>1 DEF Position
  <1> QED BY <1>1, <1>2

-----------------------------------------------------------------------------
\* Collector: an Integrator adds its sums, and the last of a PE has it contribute.
LEMMA CollectStep ==
  ASSUME Shape, NEW P \in SUBSET Chare, NEW i \in P, NEW cen \in BOOLEAN,
         \A p \in Pe : Collected(p, P, cen),
         NEW s, s[Current(cen)] = SetToBag({Sample(cen, i)}),
         Due(it) => s[CurrentPdf(cen)] = SetToBag({Sample(cen, i)}),
         Collect(Home[i], Current(cen), CurrentPdf(cen), s),
         UNCHANGED <<inputdeck, it>>
  PROVE  /\ \A p \in Pe : Collected(p, P \ {i}, cen)'
         /\ \A p \in Pe : Len(groupContrib'[p]) \in Nat /\ Len(groupContrib'[p]) >= Len(groupContrib[p])
         /\ IsOn(sums', Pe) /\ \A p \in Pe : IsOn(sums'[p], Estimate)
         /\ IsOn(groupContrib', Pe) /\ \A p \in Pe : IsSeq(groupContrib'[p])
         /\ nchare' = nchare /\ ncall' \in [Pe -> [Moment -> Nat]]
  <1> DEFINE h == Home[i]
             x == Current(cen)
             y == CurrentPdf(cen)
             total == [sums[h] EXCEPT ![x] = @ (+) s[x], ![y] = @ (+) s[y]]
             n == ncall[h][x] + 1
             Q == P \ {i}
             sum == Partial(h, Q, cen)
             base == 4 * it + (IF cen THEN 2 ELSE 0)
  <1>1. h \in Pe /\ x \in Moment /\ x \in Estimate /\ y \in Estimate /\ x # y /\ y \notin Moment
    BY OnFacts DEF Current, CurrentPdf, Moment, Estimate
  <1>2. /\ IsOn(sums, Pe) /\ IsOn(sums[h], Estimate) /\ \A p \in Pe : IsOn(sums[p], Estimate)
        /\ IsOn(groupContrib, Pe) /\ \A p \in Pe : IsSeq(groupContrib[p])
        /\ nchare \in [Pe -> Nat] /\ ncall \in [Pe -> [Moment -> Nat]] /\ it \in Nat
    BY <1>1 DEF Shape
  <1>3. Busy(h, P) /\ Collected(h, P, cen)
    BY <1>1, CountCalls
  <1>4. n = Cardinality(On(h) \ Q) /\ nchare[h] = Cardinality(On(h)) /\ n \in Nat
    <2>1. ncall[h][x] = Cardinality(On(h) \ P) /\ nchare[h] = Cardinality(On(h))
      BY <1>1, <1>3 DEF Collected
    <2>2. Cardinality(On(h) \ Q) = Cardinality(On(h) \ P) + 1 /\ Cardinality(On(h) \ P) \in Nat
      BY CountCalls
    <2> QED BY <2>1, <2>2
  <1>5. AllCalled(h, n) <=> ~ Busy(h, Q)
    <2>1. Cardinality(On(h) \ P) + 1 = Cardinality(On(h)) <=> ~ Busy(h, Q)
      BY CountCalls
    <2>2. Cardinality(On(h) \ Q) = Cardinality(On(h) \ P) + 1
      BY CountCalls
    <2> QED BY <1>4, <2>1, <2>2 DEF AllCalled
  <1>6. /\ IsOn(total, Estimate)
        /\ total[x] = sum /\ (Due(it) => total[y] = sum)
        /\ \A z \in Estimate : z \notin {x, y} => total[z] = sums[h][z]
    <2>1. sums[h][x] = Partial(h, P, cen) /\ (Due(it) => sums[h][y] = Partial(h, P, cen))
      BY <1>3 DEF Collected
    <2>2. Partial(h, P, cen) (+) s[x] = sum /\ (Due(it) => Partial(h, P, cen) (+) s[y] = sum)
      BY PartialGrows
    <2> HIDE DEF x, y, h, sum
    <2>3. /\ total = [z \in Estimate |-> IF z = y THEN sums[h][y] (+) s[y]
                                         ELSE IF z = x THEN sums[h][x] (+) s[x] ELSE sums[h][z]]
      BY <1>1, <1>2 DEF IsOn
    <2> HIDE DEF total
    <2> QED BY <1>1, <2>1, <2>2, <2>3 DEF IsOn
  <1>7. \A z \in Estimate : z \notin {x, y} => sums[h][z] = EmptyBag
    BY <1>3 DEF Collected
  <1>8. Due(it)' = Due(it) /\ it' = it /\ \A z, m : EstimateOf(z, m)' = EstimateOf(z, m)
    BY DEF Due, Pdf, EstimateOf, All, AllCen
  <1>9. \A p \in Pe : Partial(p, Q, cen)' = Partial(p, Q, cen)
    BY DEF Partial, Sample
  <1>10. \A p \in Pe : p # h => /\ Busy(p, Q) = Busy(p, P) /\ On(p) \ Q = On(p) \ P
                                /\ Partial(p, Q, cen) = Partial(p, P, cen)
    BY CountCalls DEF Partial
  <1>11. Len(groupContrib[h]) = base /\ base \in Nat
    <2>1. base \in Nat
      BY <1>2
    <2>2. Len(groupContrib[h]) = base + 0
      BY <1>3 DEF Collected
    <2> HIDE DEF base
    <2> QED BY <2>1, <2>2
  <1>15. 4 * it + Position[x] = base + 1 /\ 4 * it + Position[y] = base + 2
    <2>1. CASE cen
      BY <1>2, <2>1, PositionFacts DEF Current, CurrentPdf
    <2>2. CASE ~cen
      BY <1>2, <2>2, PositionFacts DEF Current, CurrentPdf
    <2> QED BY <2>1, <2>2
  <1> HIDE DEF x, y, h, sum, total, n, Q
  <1>12. ASSUME NEW p \in Pe, p # h,
                nchare'[p] = nchare[p], ncall'[p] = ncall[p], sums'[p] = sums[p],
                groupContrib'[p] = groupContrib[p]
         PROVE  Collected(p, Q, cen)'
    <2>1. Collected(p, P, cen)
      OBVIOUS
    <2> QED BY <1>8, <1>9, <1>10, <1>12, <2>1 DEF Collected, x, y
  <1>13. CASE AllCalled(h, n)
    <2> DEFINE a == [target |-> x, sum |-> total[x]]
               b == [target |-> y, sum |-> total[y]]
    <2>1. /\ groupContrib' = [groupContrib EXCEPT ![h] = @ \o <<a, b>>]
          /\ sums' = [sums EXCEPT ![h] = Cleared(total, <<x, y>>)]
          /\ ncall' = [ncall EXCEPT ![h][x] = 0]
          /\ nchare' = nchare
      BY <1>13 DEF Collect, h, x, y, total, n
    <2>2. ~ Busy(h, Q)
      BY <1>5, <1>13
    <2> DEFINE u == groupContrib[h] \o <<a, b>>
    <2>3. /\ IsSeq(u) /\ Len(u) = Len(groupContrib[h]) + 2
          /\ u[Len(groupContrib[h]) + 1] = a /\ u[Len(groupContrib[h]) + 2] = b
          /\ \A k \in 1 .. Len(groupContrib[h]) : u[k] = groupContrib[h][k]
      <3> HIDE DEF a, b
      <3> QED BY <1>1, <1>2, AppendTwo
    <2>4. groupContrib' = [p \in Pe |-> IF p = h THEN u ELSE groupContrib[p]]
      BY <1>1, <1>2, <2>1 DEF IsOn
    <2>5. Cleared(total, <<x, y>>) = [z \in Estimate |-> EmptyBag]
      <3>1. Cleared(total, <<x, y>>) = [total EXCEPT ![x] = EmptyBag, ![y] = EmptyBag]
        BY DEF Cleared
      <3>2. total = [z \in Estimate |-> total[z]]
        BY <1>6 DEF IsOn
      <3>3. \A z \in Estimate : z \notin {x, y} => total[z] = EmptyBag
        BY <1>6, <1>7
      <3> QED BY <1>1, <3>1, <3>2, <3>3
    <2>6. sums' = [p \in Pe |-> IF p = h THEN [z \in Estimate |-> EmptyBag] ELSE sums[p]]
      BY <1>1, <1>2, <2>1, <2>5 DEF IsOn
    <2>7. ncall' \in [Pe -> [Moment -> Nat]] /\ ncall'[h] = [ncall[h] EXCEPT ![x] = 0]
          /\ \A p \in Pe : p # h => ncall'[p] = ncall[p]
      BY <1>1, <1>2, <2>1
    <2>8. a.target = x /\ b.target = y
          /\ a.sum = EstimateOf(x, it)[h] /\ (Due(it) => b.sum = EstimateOf(y, it)[h])
      BY <1>1, <1>6, <2>2, PartialAll DEF sum, x, y, Q
    <2>9. Collected(h, Q, cen)'
      <3>1. nchare'[h] = Cardinality(On(h))
        BY <1>4, <2>1
      <3>2. \A z \in Moment : ncall'[h][z] = 0
        <4>1. \A z \in Moment : z # x => ncall[h][z] = 0
          BY <1>3 DEF Collected, x
        <4> QED BY <1>1, <1>2, <2>7, <4>1
      <3>3. \A z \in Estimate : sums'[h][z] = EmptyBag
        BY <1>1, <2>6
      <3>4. groupContrib'[h] = u /\ Len(groupContrib'[h]) = base + 2
        BY <1>1, <1>11, <2>3, <2>4
      <3>5. ASSUME NEW z \in Estimate, 4 * it + Position[z] <= Len(u)
            PROVE  /\ u[4 * it + Position[z]].target = z
                   /\ z \in Moment \/ Due(it) => u[4 * it + Position[z]].sum = EstimateOf(z, it)[h]
        <4> DEFINE k == 4 * it + Position[z]
        <4>2. CASE z = x
          <5>1. u[k] = a
            BY <1>11, <1>15, <2>3, <4>2
          <5> QED BY <2>8, <4>2, <5>1
        <4>3. CASE z = y
          <5>1. u[k] = b
            BY <1>11, <1>15, <2>3, <4>3
          <5> QED BY <1>1, <2>8, <4>3, <5>1
        <4>4. CASE z \notin {x, y}
          <5>1. Position[z] \in 1 .. 4 /\ Position[z] # Position[x] /\ Position[z] # Position[y]
            BY <1>1, <4>4, PositionFacts
          <5>2. k \in 1 .. Len(groupContrib[h])
            <6>1. k \in Nat /\ k >= 1 /\ k <= base + 2
              BY <1>2, <1>11, <2>3, <3>5, <5>1
            <6>2. Position[x] \in 1 .. 4 /\ Position[y] \in 1 .. 4
              BY <1>1, PositionFacts
            <6>3. k # base + 1 /\ k # base + 2
              BY <1>2, <1>15, <5>1, <6>2
            <6> HIDE DEF k, base
            <6> QED BY <1>11, <6>1, <6>3
          <5>3. u[k] = groupContrib[h][k]
            BY <2>3, <5>2
          <5> QED BY <1>3, <5>2, <5>3 DEF Collected
        <4> QED BY <4>2, <4>3, <4>4
      <3> HIDE DEF u
      <3> QED BY <1>1, <1>8, <2>2, <3>1, <3>2, <3>3, <3>4, <3>5 DEF Collected
    <2>10. \A p \in Pe : Collected(p, Q, cen)'
      <3> SUFFICES ASSUME NEW p \in Pe, p # h PROVE Collected(p, Q, cen)'
        BY <2>9
      <3>1. groupContrib'[p] = groupContrib[p] /\ sums'[p] = sums[p] /\ ncall'[p] = ncall[p] /\ nchare'[p] = nchare[p]
        BY <2>1, <2>4, <2>6, <2>7
      <3> QED BY <1>12, <3>1
    <2>11. \A p \in Pe : IsOn(sums'[p], Estimate)
      BY <1>2, <2>6 DEF IsOn
    <2>12. IsOn(sums', Pe) /\ IsOn(groupContrib', Pe)
      BY <2>4, <2>6 DEF IsOn
    <2>13. \A p \in Pe : IsSeq(groupContrib'[p]) /\ Len(groupContrib'[p]) \in Nat
                         /\ Len(groupContrib'[p]) >= Len(groupContrib[p])
      <3> SUFFICES ASSUME NEW p \in Pe
                   PROVE  IsSeq(groupContrib'[p]) /\ Len(groupContrib'[p]) \in Nat
                          /\ Len(groupContrib'[p]) >= Len(groupContrib[p])
        OBVIOUS
      <3>1. IsSeq(groupContrib[p]) /\ Len(groupContrib[p]) \in Nat
        BY <1>2 DEF IsSeq
      <3>2. IsSeq(u) /\ Len(u) \in Nat
        BY <2>3 DEF IsSeq
      <3> HIDE DEF u
      <3> QED BY <2>3, <2>4, <3>1, <3>2
    <2> QED BY <2>1, <2>7, <2>10, <2>11, <2>12, <2>13 DEF Q
  <1>14. CASE ~ AllCalled(h, n)
    <2>1. /\ sums' = [sums EXCEPT ![h] = total]
          /\ ncall' = [ncall EXCEPT ![h][x] = n]
          /\ nchare' = nchare /\ groupContrib' = groupContrib
      BY <1>14 DEF Collect, h, x, y, total, n
    <2>2. Busy(h, Q)
      BY <1>5, <1>14
    <2>3. sums' = [p \in Pe |-> IF p = h THEN total ELSE sums[p]]
      BY <1>1, <1>2, <2>1 DEF IsOn
    <2>4. ncall' \in [Pe -> [Moment -> Nat]] /\ ncall'[h] = [ncall[h] EXCEPT ![x] = n]
          /\ \A p \in Pe : p # h => ncall'[p] = ncall[p]
      BY <1>1, <1>2, <1>4, <2>1
    <2>5. Collected(h, Q, cen)'
      <3>1. \A z \in Moment : ncall'[h][z] = IF z = x THEN Cardinality(On(h) \ Q) ELSE 0
        <4>1. \A z \in Moment : z # x => ncall[h][z] = 0
          BY <1>3 DEF Collected, x
        <4> QED BY <1>1, <1>2, <1>4, <2>4, <4>1
      <3>2. sums'[h] = total /\ \A z \in Estimate : z \notin {x, y} => sums'[h][z] = EmptyBag
        BY <1>1, <1>6, <1>7, <2>3
      <3>3. sums'[h][x] = Partial(h, Q, cen) /\ (Due(it) => sums'[h][y] = Partial(h, Q, cen))
        BY <1>6, <3>2 DEF sum
      <3>4. nchare'[h] = Cardinality(On(h)) /\ groupContrib'[h] = groupContrib[h]
        BY <1>4, <2>1
      <3> QED BY <1>1, <1>3, <1>8, <1>9, <2>2, <3>1, <3>2, <3>3, <3>4 DEF Collected, x, y
    <2>6. \A p \in Pe : Collected(p, Q, cen)'
      <3> SUFFICES ASSUME NEW p \in Pe, p # h PROVE Collected(p, Q, cen)'
        BY <2>5
      <3> QED BY <1>12, <2>1, <2>3, <2>4
    <2>7. \A p \in Pe : IsOn(sums'[p], Estimate)
      BY <1>2, <1>6, <2>3
    <2>8. IsOn(sums', Pe)
      BY <2>3 DEF IsOn
    <2>9. \A p \in Pe : Len(groupContrib[p]) \in Nat
      BY <1>2 DEF IsSeq
    <2>10. \A p \in Pe : Len(groupContrib'[p]) \in Nat /\ Len(groupContrib'[p]) >= Len(groupContrib[p])
      BY <2>1, <2>9
    <2> QED BY <1>2, <2>1, <2>4, <2>6, <2>7, <2>8, <2>10 DEF Q
  <1> QED BY <1>13, <1>14

-----------------------------------------------------------------------------
\* Distributor's part of the invariant does not depend on the others.
LEMMA HostKept ==
  ASSUME UNCHANGED hostVars, NEW H, NEW cen
  PROVE  /\ Estimates(H, cen, trigger, est)' <=> Estimates(H, cen, trigger, est)
         /\ Waits(H, cen)' <=> Waits(H, cen)
         /\ (it > 0 => moments = [x \in Moment |-> EstimateOf(x, it - 1)])'
              <=> (it > 0 => moments = [x \in Moment |-> EstimateOf(x, it - 1)])
         /\ Time' <=> Time
         /\ PdfFile' <=> PdfFile
         /\ Stat' = Stat /\ Pdf' = Pdf
  BY DEF hostVars, Estimates, Waits, Time, PdfFile, Stat, Pdf, Due, EstimateOf, All, AllCen

\* Integrator::accumulateOrd and accumulateCen in a step: what one of them does
\* leaves one less to do its part.
LEMMA RunningStep ==
  ASSUME Shape, NEW P, NEW H, NEW cen, Running(P, H, cen), NEW i \in P,
         UNCHANGED hostVars, UNCHANGED <<arrayContrib, heard>>,
         msgs' = msgs \ {IF cen THEN CenMessage(i) ELSE StepMessage(i)},
         age' = [age EXCEPT ![i] = it],
         NEW s, IsOn(s, Estimate), stat' = [stat EXCEPT ![i] = s],
         s[Current(cen)] = SetToBag({Sample(cen, i)}),
         Due(it) => s[CurrentPdf(cen)] = SetToBag({Sample(cen, i)}),
         Collect(Home[i], Current(cen), CurrentPdf(cen), s)
  PROVE  Shape' /\ Running(P \ {i}, H, cen)'
  <1> DEFINE Q == P \ {i}
             f(j) == IF cen THEN CenMessage(j) ELSE StepMessage(j)
  <1>1. P \in SUBSET Chare /\ cen \in BOOLEAN /\ i \in Chare
    BY DEF Running
  <1>2. UNCHANGED <<inputdeck, it, t, finished, moments, est, inflight, waiting, trigger>>
    BY DEF hostVars
  <1>3. /\ \A p \in Pe : Collected(p, Q, cen)'
        /\ \A p \in Pe : Len(groupContrib'[p]) \in Nat /\ Len(groupContrib'[p]) >= Len(groupContrib[p])
        /\ IsOn(sums', Pe) /\ \A p \in Pe : IsOn(sums'[p], Estimate)
        /\ IsOn(groupContrib', Pe) /\ \A p \in Pe : IsSeq(groupContrib'[p])
        /\ nchare' = nchare /\ ncall' \in [Pe -> [Moment -> Nat]]
    <2>1. \A p \in Pe : Collected(p, P, cen)
      BY DEF Running
    <2>2. UNCHANGED <<inputdeck, it>>
      BY <1>2
    <2> QED BY <1>1, <2>1, <2>2, CollectStep
  <1>4. Shape'
    <2>1. IsOn(stat', Chare) /\ \A j \in Chare : IsOn(stat'[j], Estimate)
      <3>1. IsOn(stat, Chare) /\ \A j \in Chare : IsOn(stat[j], Estimate)
        BY DEF Shape
      <3>2. stat' = [j \in Chare |-> IF j = i THEN s ELSE stat[j]]
        BY <1>1, <3>1 DEF IsOn
      <3> QED BY <3>1, <3>2 DEF IsOn
    <2> QED BY <1>2, <1>3, <2>1 DEF Shape
  <1>5. msgs' = {f(j) : j \in Q}'
    <2>1. \A j \in P : f(j).to = j
      BY DEF CenMessage, StepMessage
    <2>2. msgs = {f(j) : j \in P}
      BY DEF Running
    <2>3. msgs' = {f(j) : j \in Q}
      <3> HIDE DEF f
      <3>1. {f(j) : j \in P} \ {f(i)} = {f(j) : j \in P \ {i}}
        BY <2>1
      <3> QED BY <2>2, <3>1 DEF f
    <2>4. \A j : f(j)' = f(j)
      BY <1>2 DEF CenMessage, StepMessage, All
    <2> QED BY <2>3, <2>4
  <1>6. age' = [j \in Chare |-> IF j \in Q /\ ~cen /\ it' > 0 THEN it' - 1 ELSE it']
    <2>1. age = [j \in Chare |-> IF j \in P /\ ~cen /\ it > 0 THEN it - 1 ELSE it]
      BY DEF Running
    <2> QED BY <1>1, <1>2, <2>1
  <1>7. /\ Estimates(H, cen, trigger, est)' /\ Waits(H, cen)'
        /\ (it > 0 => moments = [x \in Moment |-> EstimateOf(x, it - 1)])'
        /\ Stat' /\ ~finished'
    BY <1>2, HostKept DEF Running
  <1>8. \A x \in H, p \in Pe : 4 * it' + Position[x] <= Len(groupContrib'[p])
    <2> SUFFICES ASSUME NEW x \in H, NEW p \in Pe PROVE 4 * it + Position[x] <= Len(groupContrib'[p])
      BY <1>2
    <2>1. x \in Estimate /\ 4 * it + Position[x] <= Len(groupContrib[p])
      BY DEF Running, Estimates
    <2>2. Position[x] \in Nat /\ it \in Nat /\ Len(groupContrib[p]) \in Nat
      BY <2>1, PositionFacts DEF Shape, IsSeq
    <2> QED BY <1>3, <2>1, <2>2
  <1>9. arrayContrib' = arrayContrib /\ heard' = heard
    OBVIOUS
  <1>10. Running(Q, H, cen)'
    <2>1. Q \subseteq Chare /\ cen \in BOOLEAN
      BY <1>1
    <2>2. msgs' = {IF cen THEN CenMessage(j)' ELSE StepMessage(j)' : j \in Q}
      BY <1>5
    <2>3. /\ arrayContrib' = [j \in Chare |-> <<"registered">>]
          /\ heard'["array"] = {1}
          /\ heard'["group"] = 1 .. (4 * it') \cup {4 * it' + Position[x] : x \in H}
      BY <1>2, <1>9 DEF Running
    <2> HIDE DEF Q, f
    <2> QED BY <1>3, <1>6, <1>7, <1>8, <2>1, <2>2, <2>3 DEF Running
  <1> QED BY <1>4, <1>10

\* Integrator::Integrator: one more is registered.
LEMMA CreateInv == ASSUME WalkerInv, NEW i \in Chare, Create(i) PROVE WalkerInv'
  <1> DEFINE m == [type |-> "create", to |-> i]
  <1>1. m \in msgs /\ m.type = "create"
    BY DEF Create
  <1>2. PICK C \in SUBSET Chare : Starting(C)
    <2>1. ASSUME NEW P, NEW H, NEW cen, Running(P, H, cen) PROVE FALSE
      BY <1>1, <2>1 DEF Running, CenMessage, StepMessage
    <2>2. ASSUME NEW P, Skipping(P) PROVE FALSE
      BY <1>1, <2>2 DEF Skipping, StepMessage
    <2> QED BY <1>1, <2>1, <2>2 DEF WalkerInv, Phase, Done
  <1>3. i \notin C
    BY <1>1, <1>2 DEF Starting
  <1> DEFINE D == C \cup {i}
  <1>4. msgs' = {[type |-> "create", to |-> j] : j \in Chare \ D}
    BY <1>2 DEF Create, Starting
  <1>5. nchare' = [p \in Pe |-> Cardinality(On(p) \cap D)]
    <2>1. nchare = [p \in Pe |-> Cardinality(On(p) \cap C)]
      BY <1>2 DEF Starting
    <2>2. nchare' = [nchare EXCEPT ![Home[i]] = @ + 1]
      BY DEF Create
    <2>3. Cardinality(On(Home[i]) \cap D) = Cardinality(On(Home[i]) \cap C) + 1
      <3> DEFINE S == On(Home[i]) \cap C
      <3>1. On(Home[i]) \cap D = S \cup {i} /\ i \notin S /\ S \in SUBSET Chare
        BY <1>3, OnFacts
      <3> HIDE DEF S, D
      <3>2. Cardinality(S \cup {i}) = Cardinality(S) + 1
        BY <3>1, FiniteOn, FS_AddElement
      <3> QED BY <3>1, <3>2 DEF S
    <2>4. \A p \in Pe : p # Home[i] => On(p) \cap D = On(p) \cap C
      BY OnFacts
    <2> HIDE DEF D
    <2> QED BY <2>1, <2>2, <2>3, <2>4, OnFacts
  <1>6. arrayContrib' = [j \in Chare |-> IF j \in D THEN <<"registered">> ELSE <<>>]
    <2>1. arrayContrib = [j \in Chare |-> IF j \in C THEN <<"registered">> ELSE <<>>]
      BY <1>2 DEF Starting
    <2>2. arrayContrib' = [arrayContrib EXCEPT ![i] = Append(@, "registered")]
      BY DEF Create
    <2>3. Append(<< >>, "registered") = <<"registered">>
      OBVIOUS
    <2> QED BY <1>3, <2>1, <2>2, <2>3
  <1>7. UNCHANGED <<age, stat, ncall, sums, groupContrib, heard>> /\ UNCHANGED hostVars
    BY DEF Create
  <1>8. Starting(D)'
    <2> HIDE DEF D
    <2>1. D \subseteq Chare
      BY <1>2 DEF D
    <2> QED BY <1>2, <1>4, <1>5, <1>6, <1>7, <2>1 DEF Starting, hostVars
  <1>9. Shape'
    <2>1. \A p \in Pe : Cardinality(On(p) \cap D) \in Nat
      BY FiniteOn, OnFacts
    <2>2. nchare' \in [Pe -> Nat]
      BY <1>5, <2>1
    <2>3. <<"registered">> \in Seq({"registered", "nostat"}) /\ << >> \in Seq({"registered", "nostat"})
      OBVIOUS
    <2>4. arrayContrib' \in [Chare -> Seq({"registered", "nostat"})]
      BY <1>6, <2>3
    <2> QED BY <1>7, <2>2, <2>4 DEF WalkerInv, Shape, hostVars
  <1> QED BY <1>2, <1>7, <1>8, <1>9, HostKept DEF WalkerInv, Phase

\* Integrator::setup and advance, with statistics and without.
LEMMA StepInv == ASSUME WalkerInv, NEW i \in Chare, Step(i) PROVE WalkerInv'
  <1>1. PICK m \in msgs : /\ m.type \in {"setup", "advance"} /\ m.to = i
                          /\ msgs' = msgs \ {m}
                          /\ Advance(i, m)
                          /\ UNCHANGED heard /\ UNCHANGED hostVars
    BY DEF Step
  <1> DEFINE a == IF m.it > 0 THEN age[i] + 1 ELSE age[i]
  <1>2. Shape /\ Time /\ Phase /\ PdfFile
    BY DEF WalkerInv
  <1>3. CASE \E P, H, cen : Running(P, H, cen)
    <2>1. PICK P, H, cen : Running(P, H, cen)
      BY <1>3
    <2>2. cen = FALSE /\ i \in P /\ m = StepMessage(i)
      BY <1>1, <2>1 DEF Running, CenMessage, StepMessage
    <2>3. a = it /\ age' = [age EXCEPT ![i] = it] /\ m.it = it /\ m.t = t
      <3>1. age[i] = (IF it > 0 THEN it - 1 ELSE it) /\ it \in Nat
        BY <1>2, <2>1, <2>2 DEF Running, Shape
      <3>2. m.it = it /\ m.t = t
        BY <2>2 DEF StepMessage
      <3>3. age' = [age EXCEPT ![i] = a]
        BY <1>1 DEF Advance
      <3> QED BY <3>1, <3>2, <3>3
    <2>4. AccumulateOrd(i, it, t, it) /\ UNCHANGED arrayContrib
      <3>1. Stat
        BY <2>1 DEF Running
      <3> HIDE DEF a
      <3> QED BY <1>1, <2>3, <3>1 DEF Advance, a
    <2> DEFINE sample == SetToBag({[of |-> i, age |-> it]})
               s == [stat[i] EXCEPT
                       !["estimateOrd"] = sample,
                       !["estimateOrdPDF"] = IF PdfDue(it, t) THEN sample ELSE @]
    <2>5. stat' = [stat EXCEPT ![i] = s] /\ Collect(Home[i], "estimateOrd", "estimateOrdPDF", s)
      BY <2>4 DEF AccumulateOrd
    <2>6. IsOn(stat[i], Estimate)
      BY <1>2 DEF Shape
    <2>7. /\ IsOn(s, Estimate) /\ s["estimateOrd"] = sample
          /\ PdfDue(it, t) => s["estimateOrdPDF"] = sample
      BY <2>6 DEF IsOn, Estimate, Moment
    <2>8. Due(it) => PdfDue(it, t)
      BY DEF Due, PdfDue
    <2>9. sample = SetToBag({Sample(cen, i)}) /\ Current(cen) = "estimateOrd" /\ CurrentPdf(cen) = "estimateOrdPDF"
      BY <2>2 DEF Sample, Current, CurrentPdf
    <2> HIDE DEF s, sample
    <2>10. Shape' /\ Running(P \ {i}, H, cen)'
      <3>1. UNCHANGED hostVars /\ UNCHANGED <<arrayContrib, heard>>
        BY <1>1, <2>4
      <3>2. msgs' = msgs \ {IF cen THEN CenMessage(i) ELSE StepMessage(i)}
        BY <1>1, <2>2
      <3>3. /\ s[Current(cen)] = SetToBag({Sample(cen, i)})
            /\ Due(it) => s[CurrentPdf(cen)] = SetToBag({Sample(cen, i)})
            /\ Collect(Home[i], Current(cen), CurrentPdf(cen), s)
        BY <2>5, <2>7, <2>8, <2>9
      <3>4. age' = [age EXCEPT ![i] = it] /\ IsOn(s, Estimate) /\ stat' = [stat EXCEPT ![i] = s] /\ i \in P
        BY <2>2, <2>3, <2>5, <2>7
      <3> QED BY <1>2, <2>1, <3>1, <3>2, <3>3, <3>4, RunningStep
    <2>11. P \ {i} \in SUBSET Chare /\ H \in SUBSET Estimate /\ cen \in BOOLEAN
      BY <2>1 DEF Running, Estimates
    <2> QED BY <1>1, <1>2, <2>10, <2>11, HostKept DEF WalkerInv, Phase
  <1>4. CASE \E P : Skipping(P)
    <2>1. PICK P : Skipping(P)
      BY <1>4
    <2>2. i \in P /\ m = StepMessage(i) /\ ~Stat /\ P \subseteq Chare /\ ~finished
      BY <1>1, <2>1 DEF Skipping, StepMessage
    <2>3. arrayContrib' = [arrayContrib EXCEPT ![i] = Append(@, "nostat")] /\ UNCHANGED <<stat, collectorVars>>
      BY <1>1, <2>2 DEF Advance
    <2> DEFINE Q == P \ {i}
    <2>4. msgs' = {StepMessage(j) : j \in Q}'
      <3>1. \A j \in P : StepMessage(j).to = j
        BY DEF StepMessage
      <3>2. msgs = {StepMessage(j) : j \in P}
        BY <2>1 DEF Skipping
      <3>3. msgs' = {StepMessage(j) : j \in Q}
        BY <1>1, <2>2, <3>1, <3>2
      <3>4. \A j : StepMessage(j)' = StepMessage(j)
        BY <1>1 DEF StepMessage, hostVars
      <3> QED BY <3>3, <3>4
    <2>5. ASSUME NEW j \in Chare
          PROVE  /\ arrayContrib'[j] \in Seq({"registered", "nostat"})
                 /\ Len(arrayContrib'[j]) = it + (IF j \in Q THEN 1 ELSE 2)
                 /\ \A k \in 1 .. Len(arrayContrib'[j]) :
                      arrayContrib'[j][k] = IF k = 1 THEN "registered" ELSE "nostat"
      <3> DEFINE s == arrayContrib[j]
      <3>1. s \in Seq({"registered", "nostat"}) /\ Len(s) \in Nat /\ it \in Nat
        BY <1>2 DEF Shape
      <3>2. /\ Len(s) = it + (IF j \in P THEN 1 ELSE 2)
            /\ \A k \in 1 .. Len(s) : s[k] = IF k = 1 THEN "registered" ELSE "nostat"
        BY <2>1, <2>2 DEF Skipping
      <3>3. CASE j # i
        <4>1. arrayContrib'[j] = s
          BY <1>2, <2>3, <3>3 DEF Shape
        <4> QED BY <3>1, <3>2, <3>3, <4>1
      <3>4. CASE j = i
        <4>1. arrayContrib'[j] = Append(s, "nostat")
          BY <1>2, <2>3, <3>4 DEF Shape
        <4>2. Len(s) = it + 1
          BY <2>2, <3>2, <3>4
        <4> HIDE DEF s
        <4>3. Append(s, "nostat") \in Seq({"registered", "nostat"}) /\ Len(Append(s, "nostat")) = it + 2
          BY <3>1, <4>2
        <4>4. \A k \in 1 .. (it + 2) : Append(s, "nostat")[k] = IF k = 1 THEN "registered" ELSE "nostat"
          BY <3>1, <3>2, <4>2
        <4> QED BY <3>1, <3>4, <4>1, <4>3, <4>4
      <3> QED BY <3>3, <3>4
    <2>6. UNCHANGED hostVars /\ heard' = heard
      BY <1>1
    <2>7. Shape'
      <3>1. arrayContrib' \in [Chare -> Seq({"registered", "nostat"})]
        <4>1. arrayContrib' = [j \in Chare |-> arrayContrib'[j]]
          BY <1>2, <2>3 DEF Shape
        <4> QED BY <2>5, <4>1
      <3> QED BY <1>2, <2>3, <2>6, <3>1 DEF Shape, hostVars, collectorVars
    <2>8. Skipping(Q)'
      <3>1. Stat' = Stat
        BY <2>6, HostKept
      <3> QED BY <2>1, <2>2, <2>3, <2>4, <2>5, <2>6, <3>1 DEF Skipping, hostVars, collectorVars
    <2> QED BY <1>2, <2>2, <2>6, <2>7, <2>8, HostKept DEF WalkerInv, Phase
  <1>5. CASE \E C : Starting(C)
    BY <1>1, <1>5 DEF Starting
  <1>6. CASE Done
    BY <1>1, <1>6 DEF Done
  <1> QED BY <1>2, <1>3, <1>4, <1>5, <1>6 DEF Phase

\* Integrator::accumulateCen.
LEMMA AccumulateCenInv == ASSUME WalkerInv, NEW i \in Chare, AccumulateCen(i) PROVE WalkerInv'
  <1>1. Shape /\ Time /\ Phase /\ PdfFile
    BY DEF WalkerInv
  <1> DEFINE sample(m) == SetToBag({[of |-> i, age |-> age[i], about |-> m.ord]})
             s(m) == [stat[i] EXCEPT
                        !["estimateCen"] = sample(m),
                        !["estimateCenPDF"] = IF PdfDue(m.it, m.t) THEN sample(m) ELSE @]
  <1>2. PICK m \in msgs :
           /\ m.type = "accumulateCen" /\ m.to = i
           /\ msgs' = msgs \ {m}
           /\ stat' = [stat EXCEPT ![i] = s(m)]
           /\ Collect(Home[i], "estimateCen", "estimateCenPDF", s(m))
           /\ UNCHANGED <<age, arrayContrib, heard>> /\ UNCHANGED hostVars
    BY DEF AccumulateCen
  <1>3. PICK P, H, cen : Running(P, H, cen)
    BY <1>1, <1>2 DEF Phase, Starting, Skipping, StepMessage, Done
  <1>4. cen = TRUE /\ i \in P /\ m = CenMessage(i)
    BY <1>2, <1>3 DEF Running, CenMessage, StepMessage
  <1>5. age[i] = it /\ age' = [age EXCEPT ![i] = it] /\ m.it = it /\ m.t = t /\ m.ord = All(it)
    <2>1. age = [j \in Chare |-> it]
      BY <1>3, <1>4 DEF Running
    <2>2. m.it = it /\ m.t = t /\ m.ord = All(it)
      BY <1>4 DEF CenMessage
    <2> QED BY <1>2, <2>1, <2>2
  <1>6. IsOn(stat[i], Estimate)
    BY <1>1 DEF Shape
  <1>7. /\ IsOn(s(m), Estimate) /\ s(m)["estimateCen"] = sample(m)
        /\ PdfDue(it, t) => s(m)["estimateCenPDF"] = sample(m)
    <2> HIDE DEF sample
    <2> QED BY <1>5, <1>6 DEF IsOn, Estimate, Moment
  <1>8. Due(it) => PdfDue(it, t)
    BY DEF Due, PdfDue
  <1>9. sample(m) = SetToBag({Sample(cen, i)}) /\ Current(cen) = "estimateCen" /\ CurrentPdf(cen) = "estimateCenPDF"
    BY <1>4, <1>5 DEF Sample, Current, CurrentPdf
  <1> DEFINE sm == s(m)
  <1>10. /\ IsOn(sm, Estimate) /\ stat' = [stat EXCEPT ![i] = sm]
         /\ sm[Current(cen)] = SetToBag({Sample(cen, i)})
         /\ Due(it) => sm[CurrentPdf(cen)] = SetToBag({Sample(cen, i)})
         /\ Collect(Home[i], Current(cen), CurrentPdf(cen), sm)
    BY <1>2, <1>7, <1>8, <1>9
  <1> HIDE DEF sm, s, sample
  <1>11. msgs' = msgs \ {IF cen THEN CenMessage(i) ELSE StepMessage(i)}
    BY <1>2, <1>4
  <1>12. Shape' /\ Running(P \ {i}, H, cen)'
    <2>1. UNCHANGED hostVars /\ UNCHANGED <<arrayContrib, heard>> /\ i \in P
      BY <1>2, <1>4
    <2>2. age' = [age EXCEPT ![i] = it]
      BY <1>5
    <2> QED BY <1>1, <1>3, <1>10, <1>11, <2>1, <2>2, RunningStep
  <1>13. P \ {i} \in SUBSET Chare /\ H \in SUBSET Estimate /\ cen \in BOOLEAN
    BY <1>3 DEF Running, Estimates
  <1> QED BY <1>1, <1>2, <1>12, <1>13, HostKept DEF WalkerInv, Phase

-----------------------------------------------------------------------------
\* evaluateTime() cuts the last step to end at the terminate time.
LEMMA EndFacts ==
  ASSUME Shape, Time, ~finished
  PROVE  End \in Nat /\ (End # Term => End = (it + 1) * Dt /\ End < Term)
  <1>1. it \in Nat /\ Dt \in Nat /\ Term \in Nat /\ t = it * Dt /\ t \in Nat
    BY DEF Shape, Time
  <1>2. (it + 1) * Dt = it * Dt + Dt
    BY <1>1
  <1> QED BY <1>1, <1>2 DEF End

\* A step of which everything is received has been contributed to by all.
LEMMA Contributed ==
  ASSUME Shape, NEW P, NEW H, NEW cen, Running(P, H, cen), NEW x \in Estimate,
         \A p \in Pe : 4 * it + Position[x] <= Len(groupContrib[p])
  PROVE  /\ x \notin {"estimateOrd", "estimateOrdPDF"} => cen
         /\ (~cen \/ x \notin {"estimateOrd", "estimateOrdPDF"}) => P = {}
  <1>1. cen \in BOOLEAN /\ P \in SUBSET Chare /\ it \in Nat
    BY DEF Running, Shape
  <1>2. ASSUME NEW p \in Pe
        PROVE  /\ Len(groupContrib[p]) = 4 * it + (IF cen THEN 2 ELSE 0) + (IF Busy(p, P) THEN 0 ELSE 2)
               /\ Len(groupContrib[p]) \in Nat
    BY DEF Running, Collected, Shape, IsSeq
  <1>3. Position[x] \in 1 .. 4 /\ (x \notin {"estimateOrd", "estimateOrdPDF"} => Position[x] >= 3)
    BY PositionFacts DEF Estimate, Moment
  <1>4. ASSUME x \notin {"estimateOrd", "estimateOrdPDF"}, ~cen PROVE FALSE
    <2>1. 4 * it + Position[x] <= Len(groupContrib[0]) /\ 0 \in Pe
      BY OnFacts
    <2>2. CASE Busy(0, P)
      BY <1>1, <1>2, <1>3, <1>4, <2>1, <2>2
    <2>3. CASE ~Busy(0, P)
      BY <1>1, <1>2, <1>3, <1>4, <2>1, <2>3
    <2> QED BY <2>2, <2>3
  <1>5. ASSUME ~cen \/ x \notin {"estimateOrd", "estimateOrdPDF"}, NEW p \in Pe, Busy(p, P) PROVE FALSE
    <2>1. 4 * it + Position[x] <= Len(groupContrib[p])
      OBVIOUS
    <2>2. CASE cen
      BY <1>1, <1>2, <1>3, <1>5, <2>1, <2>2
    <2>3. CASE ~cen
      BY <1>1, <1>2, <1>3, <1>5, <2>1, <2>3
    <2> QED BY <1>1, <2>2, <2>3
  <1> QED BY <1>1, <1>4, <1>5, NoneBusy

\* When no Integrator has anything to do in the step, the Collectors have nothing
\* left either.
LEMMA CollectedAll ==
  ASSUME Shape, NEW cen \in BOOLEAN, \A p \in Pe : Collected(p, {}, cen), NEW p \in Pe
  PROVE  /\ nchare[p] = Cardinality(On(p))
         /\ \A x \in Moment : ncall[p][x] = 0
         /\ \A x \in Estimate : sums[p][x] = EmptyBag
         /\ Len(groupContrib[p]) = 4 * it + (IF cen THEN 4 ELSE 2)
         /\ \A x \in Estimate : 4 * it + Position[x] <= Len(groupContrib[p]) =>
              LET c == groupContrib[p][4 * it + Position[x]]
              IN  c.target = x /\ (x \in Moment \/ Due(it) => c.sum = EstimateOf(x, it)[p])
  <1>1. ~ Busy(p, {})
    BY DEF Busy
  <1>2. Collected(p, {}, cen)
    OBVIOUS
  <1>3. 4 * it + (IF cen THEN 2 ELSE 0) + 2 = 4 * it + (IF cen THEN 4 ELSE 2)
    <2>1. it \in Nat
      BY DEF Shape
    <2> QED BY <2>1
  <1> QED BY <1>1, <1>2, <1>3 DEF Collected

\* The start of a round of contributions.
LEMMA CollectedNone ==
  ASSUME NEW n \in Nat, NEW cen \in BOOLEAN, NEW p \in Pe, n = it,
         nchare[p] = Cardinality(On(p)),
         \A x \in Moment : ncall[p][x] = 0,
         \A x \in Estimate : sums[p][x] = EmptyBag,
         Len(groupContrib[p]) = 4 * n + (IF cen THEN 2 ELSE 0),
         cen => \A x \in Estimate : 4 * n + Position[x] <= Len(groupContrib[p]) =>
                  LET c == groupContrib[p][4 * n + Position[x]]
                  IN  c.target = x /\ (x \in Moment \/ Due(n) => c.sum = EstimateOf(x, n)[p])
  PROVE  Collected(p, Chare, cen)
  <1>1. Busy(p, Chare) /\ On(p) \ Chare = {} /\ Partial(p, Chare, cen) = EmptyBag
    BY AllBusy, PartialNone
  <1>2. Cardinality(On(p) \ Chare) = 0
    BY <1>1, FS_EmptySet
  <1>3. Current(cen) \in Estimate /\ CurrentPdf(cen) \in Estimate
    BY DEF Current, CurrentPdf, Estimate, Moment
  <1>4. ~cen => \A x \in Estimate : ~ (4 * n + Position[x] <= Len(groupContrib[p]))
    BY PositionFacts
  <1>5. Len(groupContrib[p]) = 4 * it + (IF cen THEN 2 ELSE 0) + 0
    BY PositionFacts
  <1> QED BY <1>1, <1>2, <1>3, <1>4, <1>5 DEF Collected

-----------------------------------------------------------------------------
\* The body of wait4ord: the ordinary moments are of all particles, and all
\* Integrators are asked for central ones.
LEMMA CenStarted ==
  ASSUME Shape, Time, PdfFile, NEW P, NEW H0, NEW cen, Running(P, H0, cen),
         NEW H, NEW triggers, NEW e, NEW posting,
         Estimates(H, cen, triggers, e),
         \A x \in H, p \in Pe : 4 * it + Position[x] <= Len(groupContrib[p]),
         Run("wait4ord", triggers, e, posting),
         posting \in [Wait -> Nat], waiting' \in [Wait -> Nat],
         posting["wait4ord"] + waiting'["wait4ord"] = 0,
         posting["wait4pdf"] + waiting'["wait4pdf"] = 1,
         IsOn(heard', {"array", "group"}), heard'["array"] = {1},
         heard'["group"] = 1 .. (4 * it) \cup {4 * it + Position[x] : x \in H},
         UNCHANGED <<inputdeck, age, stat, arrayContrib>>, UNCHANGED collectorVars
  PROVE  Shape' /\ Time' /\ PdfFile' /\ Running(Chare, H, TRUE)'
  <1>1. /\ Needs("wait4ord") = {"estimateOrd"} /\ StartCen(e, posting)
        /\ triggers["estimateOrd"] > 0
        /\ trigger' = [x \in Estimate |-> IF x \in Needs("wait4ord") THEN triggers[x] - 1 ELSE triggers[x]]
    BY DEF Run, Needs
  <1>2. "estimateOrd" \in Estimate /\ "estimateOrd" \in Moment
    BY DEF Estimate, Moment
  <1>3. "estimateOrd" \in H /\ cen = FALSE
    BY <1>1, <1>2 DEF Estimates, Running
  <1>4. P = {} /\ H \subseteq {"estimateOrd", "estimateOrdPDF"}
    <2>1. H \subseteq Estimate
      BY DEF Estimates
    <2>2. ASSUME NEW x \in H PROVE x \in {"estimateOrd", "estimateOrdPDF"}
      BY <1>3, <2>1, Contributed
    <2> QED BY <1>2, <1>3, <2>2, Contributed
  <1>5. /\ msgs' = msgs \cup {[type |-> "accumulateCen", to |-> i, it |-> it, t |-> t, ord |-> e["estimateOrd"]] : i \in Chare}
        /\ est' = e /\ inflight' = posting
        /\ UNCHANGED <<it, t, moments, statfile, pdffile, finished>>
    BY <1>1 DEF StartCen
  <1>6. e["estimateOrd"] = All(it) /\ msgs = {}
    <2>1. e["estimateOrd"] = EstimateOf("estimateOrd", it)
      BY <1>2, <1>3 DEF Estimates
    <2> QED BY <1>4, <2>1 DEF EstimateOf, Running
  <1>7. msgs' = {CenMessage(i)' : i \in Chare}
    BY <1>5, <1>6 DEF CenMessage, All
  <1>8. trigger' = [x \in Estimate |-> IF x \in H /\ x # "estimateOrd" THEN 1 ELSE 0]
    <2>1. triggers = [x \in Estimate |-> IF x \in H THEN 1 ELSE 0]
      BY <1>3 DEF Estimates
    <2> QED BY <1>1, <1>3, <2>1
  <1>9. UNCHANGED <<inputdeck, it, t, finished, moments, stat, arrayContrib, nchare, ncall, sums, groupContrib>>
    BY <1>5 DEF collectorVars
  <1>10. Shape'
    <2>1. trigger' \in [Estimate -> Nat]
      BY <1>8
    <2>2. IsOn(e, Estimate)
      BY DEF Estimates
    <2> QED BY <1>5, <1>9, <2>1, <2>2 DEF Shape
  <1>11. Estimates(H, TRUE, trigger, est)'
    <2>1. \A x, n : EstimateOf(x, n)' = EstimateOf(x, n)
      BY DEF EstimateOf, All, AllCen
    <2>2. Due(it)' = Due(it)
      BY <1>9 DEF Due, Pdf
    <2> QED BY <1>3, <1>5, <1>8, <1>9, <2>1, <2>2 DEF Estimates
  <1>12. Waits(H, TRUE)'
    <2>1. "estimateCen" \in Estimate \ {"estimateOrd"} /\ "estimateCen" \notin H
      BY <1>4 DEF Estimate, Moment
    <2>2. waiting'["wait4ord"] = 0
      BY DEF Wait
    <2> QED BY <1>5, <2>1, <2>2 DEF Waits
  <1>13. \A p \in Pe : Collected(p, Chare, TRUE)'
    <2>1. ASSUME NEW p \in Pe
          PROVE  /\ nchare[p] = Cardinality(On(p))
                 /\ \A x \in Moment : ncall[p][x] = 0
                 /\ \A x \in Estimate : sums[p][x] = EmptyBag
                 /\ Len(groupContrib[p]) = 4 * it + 2
                 /\ \A x \in Estimate : 4 * it + Position[x] <= Len(groupContrib[p]) =>
                      LET c == groupContrib[p][4 * it + Position[x]]
                      IN  c.target = x /\ (x \in Moment \/ Due(it) => c.sum = EstimateOf(x, it)[p])
      <3>1. \A q \in Pe : Collected(q, {}, FALSE)
        BY <1>3, <1>4 DEF Running
      <3> QED BY <3>1, CollectedAll
    <2>2. ASSUME NEW p \in Pe PROVE Collected(p, Chare, TRUE)
      <3>1. it \in Nat
        BY DEF Shape
      <3>2. Len(groupContrib[p]) = 4 * it + (IF TRUE THEN 2 ELSE 0)
        BY <2>1
      <3> QED BY <2>1, <3>1, <3>2, CollectedNone
    <2>3. ASSUME NEW p \in Pe PROVE Collected(p, Chare, TRUE)' <=> Collected(p, Chare, TRUE)
      BY <1>9 DEF Collected, Due, Pdf, Partial, Sample
    <2> QED BY <2>2, <2>3
  <1>14. age' = [i \in Chare |-> it']
    BY <1>3, <1>4, <1>9 DEF Running
  <1>15. Time' /\ PdfFile' /\ Stat' /\ ~finished'
    <2>1. \A x, n : EstimateOf(x, n)' = EstimateOf(x, n)
      BY DEF EstimateOf, All, AllCen
    <2>2. Stat /\ ~finished
      BY DEF Running
    <2>3. Time' /\ Stat' /\ ~finished'
      BY <1>5, <1>9, <2>2 DEF Time, Stat
    <2>4. pdffile' = pdffile
      BY <1>5
    <2>5. PdfFile'
      BY <2>1, <2>4 DEF PdfFile
    <2> QED BY <2>3, <2>5
  <1>16. Running(Chare, H, TRUE)'
    <2>1. (it > 0 => moments = [x \in Moment |-> EstimateOf(x, it - 1)])'
      BY <1>9 DEF Running
    <2>2. arrayContrib' = [i \in Chare |-> <<"registered">>]
      BY <1>9 DEF Running
    <2>3. \A x \in H, p \in Pe : 4 * it' + Position[x] <= Len(groupContrib'[p])
      BY <1>9
    <2>4. heard'["group"] = 1 .. (4 * it') \cup {4 * it' + Position[x] : x \in H}
      BY <1>9
    <2>5. msgs' = {IF TRUE THEN CenMessage(i)' ELSE StepMessage(i)' : i \in Chare}
      BY <1>7
    <2>6. age' = [i \in Chare |-> IF i \in Chare /\ ~TRUE /\ it' > 0 THEN it' - 1 ELSE it']
      BY <1>14
    <2> QED BY <1>11, <1>12, <1>13, <1>15, <2>1, <2>2, <2>3, <2>4, <2>5, <2>6 DEF Running
  <1> QED BY <1>10, <1>15, <1>16

\* The body of wait4pdf: everything of the step is received and all Integrators are
\* done, so that the next step or the end of the run starts afresh.
LEMMA StepEnds ==
  ASSUME Shape, Time, PdfFile, NEW P, NEW H0, NEW cen, Running(P, H0, cen),
         NEW H, NEW triggers, NEW e, NEW posting,
         Estimates(H, cen, triggers, e),
         \A x \in H, p \in Pe : 4 * it + Position[x] <= Len(groupContrib[p]),
         Run("wait4pdf", triggers, e, posting),
         posting \in [Wait -> Nat], waiting' \in [Wait -> Nat],
         cen => posting["wait4ord"] + waiting'["wait4ord"] = 0,
         posting["wait4pdf"] + waiting'["wait4pdf"] = 0,
         IsOn(heard', {"array", "group"}), heard'["array"] = {1},
         heard'["group"] = 1 .. (4 * it) \cup {4 * it + Position[x] : x \in H},
         UNCHANGED <<inputdeck, age, stat, arrayContrib>>, UNCHANGED collectorVars
  PROVE  Shape' /\ Time' /\ PdfFile' /\ (Running(Chare, {}, FALSE)' \/ Done')
  <1>1. /\ Needs("wait4pdf") = Estimate \ {"estimateOrd"} /\ OutPDF(e, posting)
        /\ \A x \in Estimate \ {"estimateOrd"} : triggers[x] > 0
        /\ trigger' = [x \in Estimate |-> IF x \in Needs("wait4pdf") THEN triggers[x] - 1 ELSE triggers[x]]
    BY DEF Run, Needs
  <1>2. Estimate = {"estimateOrd", "estimateOrdPDF", "estimateCen", "estimateCenPDF"} /\ Moment = {"estimateOrd", "estimateCen"}
    BY DEF Estimate, Moment
  <1>3. Estimate \ {"estimateOrd"} \subseteq H
    BY <1>1 DEF Estimates
  <1>4. cen = TRUE /\ P = {} /\ H = Estimate
    <2>1. "estimateCen" \in Estimate /\ "estimateCen" \in H
      BY <1>2, <1>3
    <2>2. cen /\ P = {}
      <3>1. \A p \in Pe : 4 * it + Position["estimateCen"] <= Len(groupContrib[p])
        BY <2>1
      <3> QED BY <2>1, <3>1, Contributed
    <2>3. cen \in BOOLEAN
      BY DEF Running
    <2>4. H \subseteq Estimate /\ "estimateOrd" \in H
      BY <2>2 DEF Estimates
    <2>5. H = Estimate
      <3>1. \A x \in Estimate : x \in H
        BY <1>3, <2>4
      <3> QED BY <2>4, <3>1
    <2> QED BY <2>2, <2>3, <2>5
  <1>5. trigger' = [x \in Estimate |-> 0]
    <2>1. triggers = [x \in Estimate |-> IF x # "estimateOrd" THEN 1 ELSE 0]
      BY <1>4 DEF Estimates
    <2>2. \A x \in Estimate : (IF x \in Needs("wait4pdf") THEN triggers[x] - 1 ELSE triggers[x]) = 0
      BY <1>1, <2>1
    <2> QED BY <1>1, <2>2
  <1>6. EvaluateTime(e, posting)
    BY <1>1 DEF OutPDF
  <1>7. ~finished /\ Stat /\ msgs = {}
    BY <1>4 DEF Running
  <1>8. it \in Nat /\ it' = it + 1 /\ t' = End /\ End \in Nat
    BY <1>6, <1>7, EndFacts DEF EvaluateTime, Shape
  <1>9. UNCHANGED <<inputdeck, stat, arrayContrib, nchare, ncall, sums, groupContrib, age>>
    BY DEF collectorVars
  <1>10. heard'["group"] = 1 .. (4 * it')
    <2> DEFINE b == 4 * it
    <2>1. b \in Nat /\ 4 * it' = b + 4
      BY <1>8
    <2> HIDE DEF b
    <2>2. \A x \in Estimate : Position[x] \in 1 .. 4
      BY PositionFacts
    <2>3. ASSUME NEW k \in (b + 1) .. (b + 4) PROVE k \in {b + Position[x] : x \in Estimate}
      <3>1. k - b \in 1 .. 4
        BY <2>1
      <3>2. PICK x \in Estimate : Position[x] = k - b
        BY <3>1, PositionFacts
      <3> QED BY <2>1, <3>2
    <2>4. ASSUME NEW x \in Estimate PROVE b + Position[x] \in (b + 1) .. (b + 4)
      BY <2>1, <2>2
    <2>5. {b + Position[x] : x \in Estimate} = (b + 1) .. (b + 4)
      BY <2>3, <2>4
    <2>6. (1 .. b) \cup ((b + 1) .. (b + 4)) = 1 .. (b + 4)
      BY <2>1
    <2>7. heard'["group"] = 1 .. b \cup {b + Position[x] : x \in Estimate}
      BY <1>4 DEF b
    <2> QED BY <2>1, <2>5, <2>6, <2>7
  <1>11. ASSUME NEW p \in Pe
         PROVE  /\ nchare[p] = Cardinality(On(p))
                /\ \A x \in Moment : ncall[p][x] = 0
                /\ \A x \in Estimate : sums[p][x] = EmptyBag
                /\ Len(groupContrib[p]) = 4 * it'
    <2>1. \A q \in Pe : Collected(q, {}, TRUE)
      BY <1>4 DEF Running
    <2>2. /\ nchare[p] = Cardinality(On(p))
          /\ \A x \in Moment : ncall[p][x] = 0
          /\ \A x \in Estimate : sums[p][x] = EmptyBag
          /\ Len(groupContrib[p]) = 4 * it + 4
      BY <2>1, CollectedAll
    <2> QED BY <1>8, <2>2
  <1>12. PdfFile'
    <2>1. pdffile' = IF Pdf /\ PdfOut
                     THEN pdffile \cup {[step |-> it, est |-> [x \in Estimate \ Moment |-> e[x]]]}
                     ELSE pdffile
      BY <1>1 DEF OutPDF
    <2>2. Due(it) => \A x \in Estimate : e[x] = EstimateOf(x, it)
      BY <1>4 DEF Estimates
    <2>3. Pdf /\ (it = 0 \/ (it + 1) % PdfFreq = 0) => Due(it)
      BY DEF Due
    <2>4. ASSUME NEW r \in pdffile', r.step = 0 \/ (r.step + 1) % PdfFreq = 0
          PROVE  r.est = [x \in Estimate \ Moment |-> EstimateOf(x, r.step)]
      <3>1. CASE r \in pdffile
        BY <2>4, <3>1 DEF PdfFile
      <3>2. CASE Pdf /\ r = [step |-> it, est |-> [x \in Estimate \ Moment |-> e[x]]]
        BY <2>2, <2>3, <2>4, <3>2
      <3> QED BY <2>1, <3>1, <3>2
    <2> QED BY <2>4 DEF PdfFile, EstimateOf, All, AllCen
  <1>13. CASE End # Term /\ it + 1 < NStep
    <2>1. /\ moments' = [x \in Moment |-> e[x]] /\ est' = Restart(e)
          /\ inflight' = [w \in Wait |-> posting[w] + 1]
          /\ msgs' = msgs \cup
               {[type |-> "advance", to |-> i, it |-> it + 1, t |-> End, moments |-> moments'] : i \in Chare}
          /\ finished' = finished
      BY <1>6, <1>7, <1>13 DEF EvaluateTime
    <2>2. End = (it + 1) * Dt /\ End < Term
      BY <1>7, <1>13, EndFacts
    <2>3. Time' /\ ~finished'
      BY <1>7, <1>8, <1>13, <2>1, <2>2 DEF Time
    <2>4. IsOn(e, Estimate) /\ \A x \in Moment : e[x] = EstimateOf(x, it)
      BY <1>2, <1>4 DEF Estimates
    <2>5. moments' = [x \in Moment |-> EstimateOf(x, it' - 1)]
      <3>1. it' - 1 = it
        BY <1>8
      <3> QED BY <2>1, <2>4, <3>1
    <2>6. est' = [x \in Estimate |-> IF x \in Moment THEN NoSum ELSE e[x]]
      BY <2>1 DEF Restart
    <2>7. Shape'
      <3>1. inflight' \in [Wait -> Nat] /\ trigger' \in [Estimate -> Nat]
        BY <1>5, <2>1
      <3>2. IsOn(est', Estimate) /\ IsOn(moments', Moment)
        BY <2>5, <2>6 DEF IsOn
      <3> QED BY <1>7, <1>8, <1>9, <2>1, <3>1, <3>2 DEF Shape
    <2>8. msgs' = {StepMessage(i)' : i \in Chare}
      <3>1. it' # 0
        BY <1>8
      <3> QED BY <1>7, <1>8, <2>1, <3>1 DEF StepMessage
    <2>9. Estimates({}, FALSE, trigger, est)'
      BY <1>2, <1>5, <2>6, <2>7 DEF Estimates, Shape, NoSum
    <2>10. Waits({}, FALSE)'
      <3>1. "wait4ord" \in Wait /\ "wait4pdf" \in Wait /\ Estimate \ {"estimateOrd"} # {}
        BY <1>2 DEF Wait
      <3>2. posting["wait4ord"] = 0 /\ waiting'["wait4ord"] = 0 /\ posting["wait4pdf"] = 0 /\ waiting'["wait4pdf"] = 0
        BY <1>4, <3>1
      <3> QED BY <2>1, <3>1, <3>2 DEF Waits
    <2>11. \A p \in Pe : Collected(p, Chare, FALSE)'
      <3> SUFFICES ASSUME NEW p \in Pe PROVE Collected(p, Chare, FALSE)'
        OBVIOUS
      <3>1. Busy(p, Chare) /\ On(p) \ Chare = {} /\ Cardinality(On(p) \ Chare) = 0
        BY AllBusy, FS_EmptySet
      <3>2. Partial(p, Chare, FALSE)' = EmptyBag
        <4>1. {Sample(FALSE, i)' : i \in On(p) \ Chare} = {}
          BY <3>1
        <4> QED BY <4>1 DEF Partial, EmptyBag
      <3>3. \A x \in Estimate : ~ (4 * it' + Position[x] <= 4 * it')
        BY <1>8, PositionFacts
      <3>4. Current(FALSE) \in Estimate /\ CurrentPdf(FALSE) \in Estimate
        BY <1>2 DEF Current, CurrentPdf
      <3>5. Len(groupContrib'[p]) = 4 * it' + (IF FALSE THEN 2 ELSE 0) + (IF Busy(p, Chare) THEN 0 ELSE 2)
        <4>1. 4 * it' \in Nat /\ Len(groupContrib'[p]) = 4 * it'
          BY <1>8, <1>9, <1>11
        <4> QED BY <3>1, <4>1
      <3>6. /\ nchare'[p] = Cardinality(On(p))
            /\ \A x \in Moment : ncall'[p][x] = IF x = Current(FALSE) /\ Busy(p, Chare) THEN Cardinality(On(p) \ Chare) ELSE 0
            /\ \A x \in Estimate : sums'[p][x] = EmptyBag
        BY <1>9, <1>11, <3>1
      <3>7. \A x \in Estimate : ~ (4 * it' + Position[x] <= Len(groupContrib'[p]))
        BY <1>9, <1>11, <3>3
      <3> QED BY <3>2, <3>4, <3>5, <3>6, <3>7 DEF Collected
    <2>12. age' = [i \in Chare |-> IF i \in Chare /\ ~FALSE /\ it' > 0 THEN it' - 1 ELSE it']
      <3>1. age = [i \in Chare |-> it]
        BY <1>4 DEF Running
      <3>2. it' > 0 /\ it' - 1 = it
        BY <1>8
      <3> QED BY <1>9, <3>1, <3>2
    <2>13. Running(Chare, {}, FALSE)'
      <3>1. Stat' /\ arrayContrib' = [i \in Chare |-> <<"registered">>]
        BY <1>7, <1>9 DEF Running, Stat
      <3>2. (it > 0 => moments = [x \in Moment |-> EstimateOf(x, it - 1)])'
        BY <2>5 DEF EstimateOf, All, AllCen
      <3>3. heard'["group"] = 1 .. (4 * it') \cup {4 * it' + Position[x] : x \in {}}
        BY <1>10
      <3>4. msgs' = {IF FALSE THEN CenMessage(i)' ELSE StepMessage(i)' : i \in Chare}
        BY <2>8
      <3> QED BY <2>3, <2>9, <2>10, <2>11, <2>12, <3>1, <3>2, <3>3, <3>4 DEF Running
    <2> QED BY <1>12, <2>3, <2>7, <2>13
  <1>14. CASE ~(End # Term /\ it + 1 < NStep)
    <2>1. finished' = TRUE /\ est' = e /\ inflight' = posting /\ UNCHANGED <<moments, msgs>>
      BY <1>6, <1>14 DEF EvaluateTime
    <2>2. Shape'
      <3>1. trigger' \in [Estimate -> Nat] /\ IsOn(e, Estimate)
        BY <1>5 DEF Estimates
      <3> QED BY <1>8, <1>9, <2>1, <3>1 DEF Shape
    <2>3. Done'
      <3>1. \A w \in Wait : inflight'[w] = 0 /\ waiting'[w] = 0
        BY <1>4, <2>1 DEF Wait
      <3>2. Stat' /\ arrayContrib' = [i \in Chare |-> <<"registered">>]
        BY <1>7, <1>9 DEF Running, Stat
      <3> QED BY <1>5, <1>7, <1>9, <1>10, <1>11, <2>1, <3>1, <3>2 DEF Done
    <2> QED BY <1>12, <2>1, <2>2, <2>3 DEF Time
  <1> QED BY <1>13, <1>14

-----------------------------------------------------------------------------
\* One of the waits of the step runs, with what has been received.
LEMMA BodyRun ==
  ASSUME Shape, Time, PdfFile, NEW P, NEW H0, NEW cen, Running(P, H0, cen),
         NEW H, NEW triggers, NEW e, NEW posting, NEW w \in Wait,
         Estimates(H, cen, triggers, e),
         \A x \in H, p \in Pe : 4 * it + Position[x] <= Len(groupContrib[p]),
         Run(w, triggers, e, posting),
         posting \in [Wait -> Nat], waiting' \in [Wait -> Nat],
         posting[w] + waiting'[w] = 0,
         w # "wait4ord" /\ cen => posting["wait4ord"] + waiting'["wait4ord"] = 0,
         w # "wait4pdf" => posting["wait4pdf"] + waiting'["wait4pdf"] = 1,
         IsOn(heard', {"array", "group"}), heard'["array"] = {1},
         heard'["group"] = 1 .. (4 * it) \cup {4 * it + Position[x] : x \in H},
         UNCHANGED <<inputdeck, age, stat, arrayContrib>>, UNCHANGED collectorVars
  PROVE  WalkerInv'
  <1>1. Chare \in SUBSET Chare /\ H \in SUBSET Estimate /\ TRUE \in BOOLEAN /\ FALSE \in BOOLEAN /\ {} \in SUBSET Estimate
    BY DEF Estimates
  <1>2. CASE w = "wait4ord"
    <2>1. Run("wait4ord", triggers, e, posting) /\ posting["wait4ord"] + waiting'["wait4ord"] = 0
          /\ posting["wait4pdf"] + waiting'["wait4pdf"] = 1
      BY <1>2
    <2>2. Shape' /\ Time' /\ PdfFile' /\ Running(Chare, H, TRUE)'
      BY <2>1, CenStarted
    <2>3. Phase'
      BY <1>1, <2>2 DEF Phase
    <2> QED BY <2>2, <2>3 DEF WalkerInv
  <1>3. CASE w = "wait4pdf"
    <2>1. Run("wait4pdf", triggers, e, posting) /\ posting["wait4pdf"] + waiting'["wait4pdf"] = 0
          /\ (cen => posting["wait4ord"] + waiting'["wait4ord"] = 0)
      BY <1>3
    <2>2. Shape' /\ Time' /\ PdfFile' /\ (Running(Chare, {}, FALSE)' \/ Done')
      BY <2>1, StepEnds
    <2>3. Phase'
      BY <1>1, <2>2 DEF Phase
    <2> QED BY <2>2, <2>3 DEF WalkerInv
  <1> QED BY <1>2, <1>3 DEF Wait

\* Of a wait there is one call or post in the step, or none once it has run.
LEMMA WaitSums ==
  ASSUME Shape, NEW P, NEW H, NEW cen, Running(P, H, cen), NEW w \in Wait
  PROVE  /\ inflight[w] \in Nat /\ waiting[w] \in Nat /\ inflight[w] + waiting[w] <= 1
         /\ cen => inflight["wait4ord"] = 0 /\ waiting["wait4ord"] = 0
         /\ ~cen => inflight["wait4ord"] + waiting["wait4ord"] = 1
         /\ inflight["wait4pdf"] + waiting["wait4pdf"] = 1
         /\ cen \in BOOLEAN
  <1>1. Waits(H, cen) /\ cen \in BOOLEAN
    BY DEF Running
  <1>2. inflight \in [Wait -> Nat] /\ waiting \in [Wait -> Nat] /\ Wait = {"wait4ord", "wait4pdf"}
    BY DEF Shape, Wait
  <1>3. CASE cen
    BY <1>1, <1>2, <1>3 DEF Waits
  <1>4. CASE ~cen
    BY <1>1, <1>2, <1>4 DEF Waits
  <1> QED BY <1>1, <1>3, <1>4

\* A wait is delivered, after its triggers or before.
LEMMA PostWaitInv == ASSUME WalkerInv, NEW w \in Wait, PostWait(w) PROVE WalkerInv'
  <1>1. Shape /\ Time /\ Phase /\ PdfFile
    BY DEF WalkerInv
  <1> DEFINE posting == [inflight EXCEPT ![w] = @ - 1]
  <1>2. inflight[w] > 0 /\ inflight \in [Wait -> Nat] /\ waiting \in [Wait -> Nat] /\ trigger \in [Estimate -> Nat]
    BY <1>1 DEF PostWait, Shape
  <1>3. posting \in [Wait -> Nat] /\ posting[w] = inflight[w] - 1 /\ \A v \in Wait : v # w => posting[v] = inflight[v]
    BY <1>2
  <1>4. UNCHANGED <<inputdeck, age, stat, arrayContrib, heard>> /\ UNCHANGED collectorVars
    BY DEF PostWait
  <1>5. Needs(w) \subseteq Estimate /\ Needs(w) # {}
    BY DEF Needs, Estimate, Moment
  <1>6. Wait = {"wait4ord", "wait4pdf"}
    BY DEF Wait
  <1>7. CASE Run(w, trigger, est, posting) /\ UNCHANGED waiting
    <2>1. PICK x \in Needs(w) : trigger[x] > 0
      BY <1>5, <1>7 DEF Run
    <2>2. PICK P, H, cen : Running(P, H, cen)
      <3>1. trigger # [z \in Estimate |-> 0]
        BY <1>5, <2>1
      <3> QED BY <1>1, <3>1 DEF Phase, Starting, Done, Skipping
    <2>3. /\ inflight[w] \in Nat /\ waiting[w] \in Nat /\ inflight[w] + waiting[w] <= 1
          /\ cen => inflight["wait4ord"] = 0 /\ waiting["wait4ord"] = 0
          /\ ~cen => inflight["wait4ord"] + waiting["wait4ord"] = 1
          /\ inflight["wait4pdf"] + waiting["wait4pdf"] = 1
      BY <1>1, <2>2, WaitSums
    <2>4. posting[w] + waiting'[w] = 0
      BY <1>2, <1>3, <1>7, <2>3
    <2>5. w # "wait4ord" /\ cen => posting["wait4ord"] + waiting'["wait4ord"] = 0
      BY <1>3, <1>6, <1>7, <2>3
    <2>6. w # "wait4pdf" => posting["wait4pdf"] + waiting'["wait4pdf"] = 1
      BY <1>3, <1>6, <1>7, <2>3
    <2>7. /\ Estimates(H, cen, trigger, est)
          /\ \A y \in H, p \in Pe : 4 * it + Position[y] <= Len(groupContrib[p])
          /\ IsOn(heard', {"array", "group"}) /\ heard'["array"] = {1}
          /\ heard'["group"] = 1 .. (4 * it) \cup {4 * it + Position[y] : y \in H}
      BY <1>1, <1>4, <2>2 DEF Running, Shape
    <2>8. waiting' \in [Wait -> Nat] /\ Run(w, trigger, est, posting)
      BY <1>2, <1>7
    <2>9. UNCHANGED <<inputdeck, age, stat, arrayContrib>>
      BY <1>4
    <2> HIDE DEF posting
    <2> QED BY <1>1, <1>3, <1>4, <2>2, <2>4, <2>5, <2>6, <2>7, <2>8, <2>9, BodyRun
  <1>8. CASE ~ (Run(w, trigger, est, posting) /\ UNCHANGED waiting)
    <2>1. /\ \E x \in Needs(w) : trigger[x] = 0
          /\ waiting' = [waiting EXCEPT ![w] = @ + 1]
          /\ inflight' = posting
          /\ UNCHANGED <<it, t, est, moments, trigger, statfile, pdffile, finished, msgs>>
      BY <1>8 DEF PostWait
    <2>2. waiting' \in [Wait -> Nat] /\ waiting'[w] = waiting[w] + 1 /\ \A v \in Wait : v # w => waiting'[v] = waiting[v]
      BY <1>2, <2>1
    <2>3. ASSUME NEW v \in Wait
          PROVE  inflight'[v] + waiting'[v] = inflight[v] + waiting[v]
      <3>1. inflight[v] \in Nat /\ waiting[v] \in Nat
        BY <1>2
      <3>2. CASE v = w
        BY <1>2, <1>3, <2>1, <2>2, <3>1, <3>2
      <3>3. CASE v # w
        BY <1>3, <2>1, <2>2, <3>3
      <3> QED BY <3>2, <3>3
    <2>4. Shape'
      BY <1>1, <1>3, <1>4, <2>1, <2>2 DEF Shape, collectorVars
    <2>5. Time' /\ PdfFile'
      <3>1. Time'
        BY <1>1, <2>1 DEF Time
      <3>2. pdffile' = pdffile
        BY <2>1
      <3>3. \A x, n : EstimateOf(x, n)' = EstimateOf(x, n)
        BY DEF EstimateOf, All, AllCen
      <3>4. PdfFile'
        BY <1>1, <3>2, <3>3 DEF PdfFile
      <3> QED BY <3>1, <3>4
    <2>6. CASE \E C \in SUBSET Chare : Starting(C)
      <3>1. PICK C \in SUBSET Chare : Starting(C)
        BY <2>6
      <3>2. Starting(C)'
        BY <1>4, <2>1, <2>3, <3>1 DEF Starting, collectorVars
      <3> QED BY <2>4, <2>5, <3>2 DEF WalkerInv, Phase
    <2>7. CASE \E P \in SUBSET Chare : Skipping(P)
      <3>1. PICK P \in SUBSET Chare : Skipping(P)
        BY <2>7
      <3>2. Skipping(P)'
        <4>1. \A i : StepMessage(i)' = StepMessage(i)
          BY <2>1 DEF StepMessage
        <4>2. Stat' = Stat
          BY <1>4 DEF Stat
        <4> QED BY <1>4, <2>1, <2>3, <3>1, <4>1, <4>2 DEF Skipping, collectorVars
      <3> QED BY <2>4, <2>5, <3>2 DEF WalkerInv, Phase
    <2>8. CASE \E P \in SUBSET Chare, H \in SUBSET Estimate, cen \in BOOLEAN : Running(P, H, cen)
      <3>1. PICK P \in SUBSET Chare, H \in SUBSET Estimate, cen \in BOOLEAN : Running(P, H, cen)
        BY <2>8
      <3>2. /\ cen => inflight["wait4ord"] = 0 /\ waiting["wait4ord"] = 0
            /\ ~cen => inflight["wait4ord"] + waiting["wait4ord"] = 1
            /\ inflight["wait4pdf"] + waiting["wait4pdf"] = 1
        BY <1>1, <3>1, WaitSums
      <3>3. \A x, n : EstimateOf(x, n)' = EstimateOf(x, n)
        BY DEF EstimateOf, All, AllCen
      <3>4. Due(it)' = Due(it)
        BY <1>4, <2>1 DEF Due, Pdf
      <3>5. Estimates(H, cen, trigger, est)'
        BY <2>1, <3>1, <3>3, <3>4 DEF Running, Estimates
      <3>6. Waits(H, cen)'
        <4>1. /\ waiting["wait4ord"] > 0 => "estimateOrd" \notin H
              /\ waiting["wait4pdf"] > 0 => ~ (Estimate \ {"estimateOrd"} \subseteq H)
          BY <3>1 DEF Running, Waits
        <4>2. trigger = [x \in Estimate |-> IF x \in H /\ ~(cen /\ x = "estimateOrd") THEN 1 ELSE 0]
          BY <3>1 DEF Running, Estimates
        <4>3. CASE w = "wait4ord"
          <5>1. ~cen
            BY <1>2, <3>2, <4>3
          <5>2. trigger["estimateOrd"] = 0 /\ "estimateOrd" \in Estimate
            BY <1>5, <2>1, <4>3 DEF Needs
          <5>3. "estimateOrd" \notin H
            BY <4>2, <5>1, <5>2
          <5>4. waiting'["wait4pdf"] = waiting["wait4pdf"]
            BY <1>6, <2>2, <4>3
          <5>5. inflight'["wait4ord"] + waiting'["wait4ord"] = 1 /\ inflight'["wait4pdf"] + waiting'["wait4pdf"] = 1
            BY <1>6, <2>3, <3>2, <5>1
          <5> QED BY <4>1, <5>1, <5>3, <5>4, <5>5 DEF Waits
        <4>4. CASE w = "wait4pdf"
          <5>1. PICK x \in Estimate \ {"estimateOrd"} : trigger[x] = 0
            BY <2>1, <4>4 DEF Needs
          <5>2. x \notin H
            BY <4>2, <5>1
          <5>3. waiting'["wait4ord"] = waiting["wait4ord"]
            BY <1>6, <2>2, <4>4
          <5>4. /\ cen => inflight'["wait4ord"] + waiting'["wait4ord"] = 0
                /\ ~cen => inflight'["wait4ord"] + waiting'["wait4ord"] = 1
                /\ inflight'["wait4pdf"] + waiting'["wait4pdf"] = 1
            BY <1>6, <2>3, <3>2
          <5> QED BY <4>1, <5>1, <5>2, <5>3, <5>4 DEF Waits
        <4> QED BY <1>6, <4>3, <4>4
      <3>7. \A p \in Pe : Collected(p, P, cen)'
        <4>1. ASSUME NEW p \in Pe PROVE Collected(p, P, cen)'
          <5>1. Partial(p, P, cen)' = Partial(p, P, cen)
            BY <2>1 DEF Partial, Sample
          <5>2. Collected(p, P, cen)
            BY <3>1 DEF Running
          <5> QED BY <1>4, <2>1, <3>3, <3>4, <5>1, <5>2 DEF Collected, collectorVars
        <4> QED BY <4>1
      <3>8. Running(P, H, cen)'
        <4>1. \A i : StepMessage(i)' = StepMessage(i) /\ CenMessage(i)' = CenMessage(i)
          BY <2>1 DEF StepMessage, CenMessage, All
        <4>2. Stat' = Stat
          BY <1>4 DEF Stat
        <4>3. (it > 0 => moments = [x \in Moment |-> EstimateOf(x, it - 1)])'
          BY <2>1, <3>1, <3>3 DEF Running
        <4>4. groupContrib' = groupContrib
          BY <1>4 DEF collectorVars
        <4>5. msgs' = {IF cen THEN CenMessage(i)' ELSE StepMessage(i)' : i \in P}
          BY <2>1, <3>1, <4>1 DEF Running
        <4>6. /\ Stat' /\ ~finished' /\ P \subseteq Chare /\ cen \in BOOLEAN
              /\ arrayContrib' = [i \in Chare |-> <<"registered">>]
              /\ heard'["array"] = {1}
              /\ heard'["group"] = 1 .. (4 * it') \cup {4 * it' + Position[x] : x \in H}
              /\ age' = [i \in Chare |-> IF i \in P /\ ~cen /\ it' > 0 THEN it' - 1 ELSE it']
              /\ \A x \in H, p \in Pe : 4 * it' + Position[x] <= Len(groupContrib'[p])
          BY <1>4, <2>1, <3>1, <4>2, <4>4 DEF Running
        <4> QED BY <3>5, <3>6, <3>7, <4>3, <4>5, <4>6 DEF Running
      <3> QED BY <2>4, <2>5, <3>8 DEF WalkerInv, Phase
    <2>9. CASE Done
      BY <1>2, <2>9 DEF Done
    <2> QED BY <1>1, <2>6, <2>7, <2>8, <2>9 DEF Phase
  <1> QED BY <1>7, <1>8

-----------------------------------------------------------------------------
\* Distributor receives an estimate in a step: one it has not received in it, and
\* contributed to by every Collector branch.
LEMMA ReceivedFacts ==
  ASSUME Shape, NEW P, NEW H, NEW cen, Running(P, H, cen),
         NEW k \in 1 .. Len(groupContrib[0]), GroupReduction(k)
  PROVE  \E x \in Estimate :
           /\ k = 4 * it + Position[x] /\ x \notin H
           /\ groupContrib[0][k].target = x
           /\ x \in Moment \/ Due(it) => [p \in Pe |-> groupContrib[p][k].sum] = EstimateOf(x, it)
           /\ \A p \in Pe : 4 * it + Position[x] <= Len(groupContrib[p])
  <1>1. it \in Nat /\ 0 \in Pe /\ Len(groupContrib[0]) \in Nat /\ cen \in BOOLEAN
    BY OnFacts DEF Shape, IsSeq, Running
  <1>2. k \notin heard["group"] /\ \A p \in Pe : k <= Len(groupContrib[p])
    BY DEF GroupReduction
  <1>3. heard["group"] = 1 .. (4 * it) \cup {4 * it + Position[x] : x \in H} /\ \A p \in Pe : Collected(p, P, cen)
    BY DEF Running
  <1> DEFINE b == 4 * it
  <1>4. b \in Nat
    BY <1>1
  <1>5. Len(groupContrib[0]) = b + (IF cen THEN 2 ELSE 0) + (IF Busy(0, P) THEN 0 ELSE 2)
    BY <1>1, <1>3 DEF Collected
  <1> HIDE DEF b
  <1>6. Len(groupContrib[0]) <= b + 4
    <2>1. Busy(0, P) \in BOOLEAN
      BY DEF Busy
    <2> QED BY <1>1, <1>4, <1>5, <2>1
  <1>7. k - b \in 1 .. 4
    <2>1. ~ (k <= b)
      BY <1>2, <1>3, <1>4 DEF b
    <2> QED BY <1>1, <1>4, <1>6, <2>1
  <1>8. PICK x \in Estimate : Position[x] = k - b
    BY <1>7, PositionFacts
  <1>9. k = b + Position[x]
    BY <1>4, <1>8
  <1>10. x \notin H
    BY <1>2, <1>3, <1>9 DEF b
  <1>11. ASSUME NEW p \in Pe
         PROVE  groupContrib[p][k].target = x /\ (x \in Moment \/ Due(it) => groupContrib[p][k].sum = EstimateOf(x, it)[p])
    <2>1. \A y \in Estimate : 4 * it + Position[y] <= Len(groupContrib[p]) =>
            LET c == groupContrib[p][4 * it + Position[y]]
            IN  c.target = y /\ (y \in Moment \/ Due(it) => c.sum = EstimateOf(y, it)[p])
      BY <1>3 DEF Collected
    <2>2. k = 4 * it + Position[x] /\ k <= Len(groupContrib[p])
      BY <1>2, <1>9 DEF b
    <2> QED BY <2>1, <2>2
  <1>12. x \in Moment \/ Due(it) => [p \in Pe |-> groupContrib[p][k].sum] = EstimateOf(x, it)
    <2>1. EstimateOf(x, it) = [p \in Pe |-> EstimateOf(x, it)[p]]
      BY DEF EstimateOf, All, AllCen
    <2>2. CASE x \in Moment \/ Due(it)
      <3>1. \A p \in Pe : groupContrib[p][k].sum = EstimateOf(x, it)[p]
        BY <1>11, <2>2
      <3> QED BY <2>1, <3>1
    <2> QED BY <2>2
  <1> QED BY <1>1, <1>2, <1>9, <1>10, <1>11, <1>12 DEF b

\* It adds the total to the moment, or replaces the PDFs, and counts the trigger.
LEMMA EstimatesGrow ==
  ASSUME Shape, NEW P, NEW H, NEW cen, Running(P, H, cen), NEW x \in Estimate, x \notin H, NEW total,
         x \in Moment \/ Due(it) => total = EstimateOf(x, it)
  PROVE  LET e == [est EXCEPT ![x] = IF x \in Moment THEN Plus(@, total) ELSE total]
             triggers == [trigger EXCEPT ![x] = @ + 1]
         IN  Estimates(H \cup {x}, cen, triggers, e)
  <1> DEFINE e == [est EXCEPT ![x] = IF x \in Moment THEN Plus(@, total) ELSE total]
             triggers == [trigger EXCEPT ![x] = @ + 1]
             now == H \cup {x}
  <1>1. /\ H \subseteq Estimate /\ (cen => "estimateOrd" \in H)
        /\ trigger = [y \in Estimate |-> IF y \in H /\ ~(cen /\ y = "estimateOrd") THEN 1 ELSE 0]
        /\ est = [y \in Estimate |-> est[y]]
        /\ \A y \in Moment : est[y] = IF y \in H THEN EstimateOf(y, it) ELSE NoSum
        /\ \A y \in H : Due(it) => est[y] = EstimateOf(y, it)
    BY DEF Running, Estimates, IsOn
  <1>2. trigger[x] = 0 /\ ~(cen /\ x = "estimateOrd")
    BY <1>1
  <1>3. triggers = [y \in Estimate |-> IF y \in now /\ ~(cen /\ y = "estimateOrd") THEN 1 ELSE 0]
    BY <1>1, <1>2
  <1>4. IsOn(e, Estimate) /\ \A y \in Estimate : y # x => e[y] = est[y]
    BY <1>1 DEF IsOn
  <1>5. x \in Moment => e[x] = EstimateOf(x, it)
    <2>1. ASSUME x \in Moment PROVE e[x] = EstimateOf(x, it)
      <3>1. est[x] = NoSum /\ total = EstimateOf(x, it)
        BY <1>1, <2>1
      <3>2. e[x] = Plus(est[x], total)
        BY <1>1, <2>1
      <3> QED BY <3>1, <3>2, NoSumPlus
    <2> QED BY <2>1
  <1>6. x \notin Moment => e[x] = total
    BY <1>1
  <1>7. Moment \subseteq Estimate
    BY DEF Estimate
  <1>8. \A y \in Moment : e[y] = IF y \in now THEN EstimateOf(y, it) ELSE NoSum
    <2> HIDE DEF e
    <2> QED BY <1>1, <1>4, <1>5, <1>7
  <1>9. \A y \in now : Due(it) => e[y] = EstimateOf(y, it)
    <2> HIDE DEF e
    <2> QED BY <1>1, <1>4, <1>5, <1>6
  <1>10. now \subseteq Estimate /\ (cen => "estimateOrd" \in now)
    BY <1>1
  <1> HIDE DEF e, triggers
  <1> QED BY <1>3, <1>4, <1>8, <1>9, <1>10 DEF Estimates, e, triggers

\* Collectors contribute in runs with statistics only.
LEMMA GroupRunning ==
  ASSUME WalkerInv, NEW k \in 1 .. Len(groupContrib[0]), GroupReduction(k)
  PROVE  \E P \in SUBSET Chare, H \in SUBSET Estimate, cen \in BOOLEAN : Running(P, H, cen)
  <1>1. Shape /\ Phase
    BY DEF WalkerInv
  <1>2. 0 \in Pe /\ Len(groupContrib[0]) \in Nat
    BY <1>1, OnFacts DEF Shape, IsSeq
  <1>3. CASE groupContrib = [p \in Pe |-> <<>>]
    <2>1. Len(groupContrib[0]) = 0
      BY <1>2, <1>3
    <2> QED BY <2>1
  <1>4. CASE Done
    <2>1. Len(groupContrib[0]) = 4 * it /\ heard["group"] = 1 .. (4 * it) /\ k \notin heard["group"]
      BY <1>2, <1>4 DEF Done, GroupReduction
    <2> QED BY <2>1
  <1> QED BY <1>1, <1>3, <1>4 DEF Phase, Starting, Skipping

\* Distributor::estimateOrd, estimateCen, estimateOrdPDF and estimateCenPDF.
LEMMA GroupReductionInv ==
  ASSUME WalkerInv, NEW k \in 1 .. Len(groupContrib[0]), GroupReduction(k) PROVE WalkerInv'
  <1>1. Shape /\ Time /\ Phase /\ PdfFile
    BY DEF WalkerInv
  <1>2. 0 \in Pe /\ Len(groupContrib[0]) \in Nat
    BY <1>1, OnFacts DEF Shape, IsSeq
  <1>3. PICK P \in SUBSET Chare, H \in SUBSET Estimate, cen \in BOOLEAN : Running(P, H, cen)
    BY GroupRunning
  <1>4. PICK x \in Estimate :
          /\ k = 4 * it + Position[x] /\ x \notin H
          /\ groupContrib[0][k].target = x
          /\ x \in Moment \/ Due(it) => [p \in Pe |-> groupContrib[p][k].sum] = EstimateOf(x, it)
          /\ \A p \in Pe : 4 * it + Position[x] <= Len(groupContrib[p])
    BY <1>1, <1>3, ReceivedFacts
  <1> DEFINE total == [p \in Pe |-> groupContrib[p][k].sum]
             e == [est EXCEPT ![x] = IF x \in Moment THEN Plus(@, total) ELSE total]
             triggers == [trigger EXCEPT ![x] = @ + 1]
             w == IF x = "estimateOrd" THEN "wait4ord" ELSE "wait4pdf"
             now == H \cup {x}
  <1>5. Estimates(now, cen, triggers, e)
    <2> HIDE DEF total
    <2>1. x \in Moment \/ Due(it) => total = EstimateOf(x, it)
      BY <1>4 DEF total
    <2> QED BY <1>1, <1>3, <1>4, <2>1, EstimatesGrow
  <1>6. /\ heard' = [heard EXCEPT !["group"] = @ \cup {k}]
        /\ Estimated(x, total)
        /\ UNCHANGED <<inputdeck, age, stat, arrayContrib>> /\ UNCHANGED collectorVars
    <2> HIDE DEF total
    <2> QED BY <1>4 DEF GroupReduction, total
  <1>7. /\ IsOn(heard', {"array", "group"}) /\ heard'["array"] = {1}
        /\ heard'["group"] = 1 .. (4 * it) \cup {4 * it + Position[y] : y \in now}
    <2>1. IsOn(heard, {"array", "group"}) /\ heard["array"] = {1}
          /\ heard["group"] = 1 .. (4 * it) \cup {4 * it + Position[y] : y \in H}
      BY <1>1, <1>3 DEF Shape, Running
    <2>2. IsOn(heard', {"array", "group"}) /\ heard'["array"] = {1} /\ heard'["group"] = heard["group"] \cup {k}
      BY <1>6, <2>1 DEF IsOn
    <2>3. {4 * it + Position[y] : y \in now} = {4 * it + Position[y] : y \in H} \cup {k}
      BY <1>4
    <2> QED BY <2>1, <2>2, <2>3
  <1>8. \A y \in now, p \in Pe : 4 * it + Position[y] <= Len(groupContrib[p])
    BY <1>3, <1>4 DEF Running
  <1>9. w \in Wait /\ x \in Needs(w) /\ Wait = {"wait4ord", "wait4pdf"}
    BY DEF Wait, Needs
  <1>10. /\ inflight \in [Wait -> Nat] /\ waiting \in [Wait -> Nat]
         /\ inflight[w] \in Nat /\ waiting[w] \in Nat /\ inflight[w] + waiting[w] <= 1
         /\ cen => inflight["wait4ord"] = 0 /\ waiting["wait4ord"] = 0
         /\ ~cen => inflight["wait4ord"] + waiting["wait4ord"] = 1
         /\ inflight["wait4pdf"] + waiting["wait4pdf"] = 1
    <2> HIDE DEF w
    <2> QED BY <1>1, <1>3, <1>9, WaitSums DEF Shape
  <1> DEFINE runs == waiting[w] > 0 /\ \A y \in Needs(w) : triggers[y] > 0
  <1>11. \/ /\ waiting[w] > 0 /\ Run(w, triggers, e, inflight)
            /\ waiting' = [waiting EXCEPT ![w] = @ - 1]
         \/ /\ ~runs
            /\ est' = e /\ trigger' = triggers
            /\ UNCHANGED <<it, t, moments, inflight, waiting, statfile, pdffile, finished, msgs>>
    <2> HIDE DEF total
    <2> QED BY <1>6 DEF Estimated
  <1> HIDE DEF e, total
  <1>12. CASE /\ waiting[w] > 0 /\ Run(w, triggers, e, inflight)
              /\ waiting' = [waiting EXCEPT ![w] = @ - 1]
    <2> HIDE DEF triggers, runs, w
    <2>0. waiting[w] - 1 \in Nat /\ waiting' = [waiting EXCEPT ![w] = waiting[w] - 1]
      BY <1>10, <1>12
    <2>1. waiting' \in [Wait -> Nat] /\ waiting'[w] = waiting[w] - 1 /\ \A v \in Wait : v # w => waiting'[v] = waiting[v]
      BY <1>9, <1>10, <2>0
    <2>2. inflight[w] + waiting'[w] = 0
      BY <1>10, <1>12, <2>1
    <2>3. w # "wait4ord" /\ cen => inflight["wait4ord"] + waiting'["wait4ord"] = 0
      BY <1>9, <1>10, <2>1
    <2>4. w # "wait4pdf" => inflight["wait4pdf"] + waiting'["wait4pdf"] = 1
      BY <1>9, <1>10, <2>1
    <2>5. Run(w, triggers, e, inflight)
      BY <1>12
    <2>6. UNCHANGED <<inputdeck, age, stat, arrayContrib>> /\ UNCHANGED collectorVars
      BY <1>6
    <2> HIDE DEF now
    <2> QED BY <1>1, <1>3, <1>5, <1>7, <1>8, <1>9, <1>10, <2>1, <2>2, <2>3, <2>4, <2>5, <2>6, BodyRun
  <1>13. CASE /\ ~runs
              /\ est' = e /\ trigger' = triggers
              /\ UNCHANGED <<it, t, moments, inflight, waiting, statfile, pdffile, finished, msgs>>
    <2>1. triggers = [y \in Estimate |-> IF y \in now /\ ~(cen /\ y = "estimateOrd") THEN 1 ELSE 0]
      BY <1>5 DEF Estimates
    <2>2. Waits(now, cen)'
      <3>1. /\ inflight["wait4ord"] + waiting["wait4ord"] = IF cen THEN 0 ELSE 1
            /\ inflight["wait4pdf"] + waiting["wait4pdf"] = 1
            /\ waiting["wait4ord"] > 0 => "estimateOrd" \notin H
            /\ waiting["wait4pdf"] > 0 => ~ (Estimate \ {"estimateOrd"} \subseteq H)
        BY <1>3 DEF Running, Waits
      <3>2. waiting["wait4ord"] > 0 => "estimateOrd" \notin now
        <4>1. CASE x = "estimateOrd"
          <5>1. w = "wait4ord" /\ Needs("wait4ord") = {"estimateOrd"}
            BY <4>1 DEF Needs
          <5>2. cen => waiting["wait4ord"] = 0
            BY <1>10
          <5>3. ~cen => triggers["estimateOrd"] = 1
            BY <2>1, <4>1
          <5>4. ~cen => ~ (waiting["wait4ord"] > 0)
            BY <1>13, <5>1, <5>3
          <5> QED BY <5>2, <5>4
        <4> QED BY <3>1, <4>1
      <3>3. waiting["wait4pdf"] > 0 => ~ (Estimate \ {"estimateOrd"} \subseteq now)
        <4>1. CASE x # "estimateOrd" /\ waiting["wait4pdf"] > 0
          <5>1. w = "wait4pdf" /\ Needs("wait4pdf") = Estimate \ {"estimateOrd"}
            BY <4>1 DEF Needs
          <5>2. PICK y \in Estimate \ {"estimateOrd"} : ~ (triggers[y] > 0)
            BY <1>13, <4>1, <5>1
          <5>3. y \notin now
            <6>1. y \in now => triggers[y] = 1
              BY <2>1, <5>2
            <6> QED BY <5>2, <6>1
          <5> QED BY <5>2, <5>3
        <4>2. CASE x = "estimateOrd"
          BY <3>1, <4>2
        <4> QED BY <4>1, <4>2
      <3> HIDE DEF runs, w, triggers, now
      <3> QED BY <1>13, <3>1, <3>2, <3>3 DEF Waits
    <2>3. \A y, n : EstimateOf(y, n)' = EstimateOf(y, n)
      BY DEF EstimateOf, All, AllCen
    <2>4. Due(it)' = Due(it) /\ Stat' = Stat
      BY <1>6, <1>13 DEF Due, Pdf, Stat
    <2>5. Estimates(now, cen, trigger, est)'
      <3> HIDE DEF triggers, now
      <3> QED BY <1>5, <1>13, <2>3, <2>4 DEF Estimates
    <2>6. \A p \in Pe : Collected(p, P, cen)'
      <3>1. ASSUME NEW p \in Pe PROVE Collected(p, P, cen)'
        <4>1. Partial(p, P, cen)' = Partial(p, P, cen)
          BY <1>13 DEF Partial, Sample
        <4>2. Collected(p, P, cen)
          BY <1>3 DEF Running
        <4> QED BY <1>6, <1>13, <2>3, <2>4, <4>1, <4>2 DEF Collected, collectorVars
      <3> QED BY <3>1
    <2>7. Shape'
      <3>1. trigger' \in [Estimate -> Nat]
        <4>1. trigger' = [y \in Estimate |-> IF y \in now /\ ~(cen /\ y = "estimateOrd") THEN 1 ELSE 0]
          BY <1>13, <2>1
        <4> HIDE DEF now, triggers
        <4> QED BY <4>1
      <3>2. IsOn(est', Estimate)
        BY <2>5 DEF Estimates
      <3> QED BY <1>1, <1>6, <1>7, <1>13, <3>1, <3>2 DEF Shape, collectorVars
    <2>8. Time' /\ PdfFile'
      <3>1. Time'
        BY <1>1, <1>13 DEF Time
      <3>2. pdffile' = pdffile
        BY <1>13
      <3>3. PdfFile'
        BY <1>1, <2>3, <3>2 DEF PdfFile
      <3> QED BY <3>1, <3>3
    <2>9. Running(P, now, cen)'
      <3>1. \A i : StepMessage(i)' = StepMessage(i) /\ CenMessage(i)' = CenMessage(i)
        BY <1>13 DEF StepMessage, CenMessage, All
      <3>2. (it > 0 => moments = [y \in Moment |-> EstimateOf(y, it - 1)])'
        BY <1>3, <1>13, <2>3 DEF Running
      <3>3. msgs' = {IF cen THEN CenMessage(i)' ELSE StepMessage(i)' : i \in P}
        BY <1>3, <1>13, <3>1 DEF Running
      <3>4. /\ Stat' /\ ~finished' /\ P \subseteq Chare /\ cen \in BOOLEAN
            /\ arrayContrib' = [i \in Chare |-> <<"registered">>]
            /\ age' = [i \in Chare |-> IF i \in P /\ ~cen /\ it' > 0 THEN it' - 1 ELSE it']
        BY <1>3, <1>6, <1>13, <2>4 DEF Running
      <3> HIDE DEF now, triggers
      <3>5. /\ heard'["group"] = 1 .. (4 * it') \cup {4 * it' + Position[y] : y \in now}
            /\ \A y \in now, p \in Pe : 4 * it' + Position[y] <= Len(groupContrib'[p])
        BY <1>6, <1>7, <1>8, <1>13 DEF collectorVars
      <3> QED BY <1>7, <2>2, <2>5, <2>6, <3>2, <3>3, <3>4, <3>5 DEF Running
    <2>10. now \in SUBSET Estimate
      OBVIOUS
    <2> QED BY <1>3, <2>7, <2>8, <2>9, <2>10 DEF WalkerInv, Phase
  <1> QED BY <1>11, <1>12, <1>13

-----------------------------------------------------------------------------
\* All Integrators are registered: they are asked for the first step.
LEMMA RegisteredInv ==
  ASSUME WalkerInv, NEW C, Starting(C), NEW k \in 1 .. Len(arrayContrib[0]), ArrayReduction(k)
  PROVE  WalkerInv'
  <1>1. Shape /\ Time /\ PdfFile
    BY DEF WalkerInv
  <1>2. 0 \in Chare /\ arrayContrib = [i \in Chare |-> IF i \in C THEN <<"registered">> ELSE <<>>]
    BY OnFacts DEF Starting
  <1>3. C = Chare /\ k = 1
    <2>1. \A i \in Chare : k <= Len(arrayContrib[i])
      BY DEF ArrayReduction
    <2>2. k \in Nat /\ k >= 1 /\ k <= 1
      <3>1. Len(arrayContrib[0]) = (IF 0 \in C THEN 1 ELSE 0)
        BY <1>2
      <3> QED BY <3>1
    <2>3. \A i \in Chare : i \in C
      <3>1. \A i \in Chare : i \notin C => Len(arrayContrib[i]) = 0
        BY <1>2
      <3> QED BY <2>1, <2>2, <3>1
    <2>4. C \subseteq Chare
      BY DEF Starting
    <2>5. C = Chare
      BY <2>3, <2>4
    <2>6. k = 1
      BY <2>2
    <2> QED BY <2>5, <2>6
  <1>4. arrayContrib = [i \in Chare |-> <<"registered">>] /\ arrayContrib[0][k] = "registered"
    BY <1>2, <1>3
  <1>5. /\ msgs' = msgs \cup
             {[type |-> "setup", to |-> i, it |-> it, t |-> t, moments |-> moments] : i \in Chare}
        /\ heard' = [heard EXCEPT !["array"] = @ \cup {1}]
        /\ UNCHANGED hostVars /\ UNCHANGED <<inputdeck, age, stat, arrayContrib>> /\ UNCHANGED collectorVars
    BY <1>3, <1>4 DEF ArrayReduction
  <1>6. UNCHANGED <<inputdeck, it, t, est, moments, inflight, waiting, trigger, statfile, pdffile, finished,
                    age, stat, arrayContrib, nchare, ncall, sums, groupContrib>>
    BY <1>5 DEF hostVars, collectorVars
  <1>7. it = 0 /\ msgs' = {StepMessage(i)' : i \in Chare}
    <2>1. msgs = {} /\ it = 0
      BY <1>3 DEF Starting
    <2> QED BY <1>5, <1>6, <2>1 DEF StepMessage
  <1>8. IsOn(heard', {"array", "group"}) /\ heard'["array"] = {1} /\ heard'["group"] = {}
    BY <1>1, <1>5 DEF Shape, Starting, IsOn
  <1>9. Shape' /\ Time' /\ PdfFile' /\ ~finished'
    <2>1. Shape'
      BY <1>1, <1>6, <1>8 DEF Shape
    <2>2. ~finished
      BY DEF Starting
    <2> QED BY <1>1, <1>5, <1>6, <2>1, <2>2, HostKept
  <1>10. CASE Stat
    <2>1. heard'["group"] = 1 .. (4 * it') \cup {4 * it' + Position[x] : x \in {}}
      BY <1>6, <1>7, <1>8
    <2>2. Estimates({}, FALSE, trigger, est)'
      BY <1>6 DEF Estimates, Starting, IsOn, Estimate, NoSum
    <2>3. Waits({}, FALSE)'
      <3>1. \A w \in Wait : inflight[w] + waiting[w] = 1
        BY DEF Starting
      <3>2. Estimate \ {"estimateOrd"} # {}
        BY DEF Estimate, Moment
      <3> QED BY <1>6, <3>1, <3>2 DEF Waits, Wait
    <2>4. \A p \in Pe : Collected(p, Chare, FALSE)'
      <3>1. ASSUME NEW p \in Pe PROVE Collected(p, Chare, FALSE)
        <4>1. On(p) \cap Chare = On(p)
          BY OnFacts
        <4>2. /\ nchare[p] = Cardinality(On(p))
              /\ \A x \in Moment : ncall[p][x] = 0
              /\ \A x \in Estimate : sums[p][x] = EmptyBag
              /\ groupContrib[p] = <<>>
          BY <1>3, <4>1 DEF Starting
        <4>3. Len(groupContrib[p]) = 4 * 0 + (IF FALSE THEN 2 ELSE 0)
          BY <4>2
        <4> QED BY <1>7, <4>2, <4>3, CollectedNone
      <3>2. ASSUME NEW p \in Pe PROVE Collected(p, Chare, FALSE)' <=> Collected(p, Chare, FALSE)
        BY <1>6 DEF Collected, Due, Pdf, Partial, Sample
      <3> QED BY <3>1, <3>2
    <2>5. age' = [i \in Chare |-> IF i \in Chare /\ ~FALSE /\ it' > 0 THEN it' - 1 ELSE it']
      BY <1>6, <1>7 DEF Starting
    <2>6. Running(Chare, {}, FALSE)'
      <3>1. msgs' = {IF FALSE THEN CenMessage(i)' ELSE StepMessage(i)' : i \in Chare}
        BY <1>7
      <3>2. (it > 0 => moments = [x \in Moment |-> EstimateOf(x, it - 1)])'
        BY <1>6, <1>7
      <3>3. Stat' /\ arrayContrib' = [i \in Chare |-> <<"registered">>]
        BY <1>4, <1>6, <1>10 DEF Stat
      <3> QED BY <1>8, <1>9, <2>1, <2>2, <2>3, <2>4, <2>5, <3>1, <3>2, <3>3 DEF Running
    <2> QED BY <1>9, <2>6 DEF WalkerInv, Phase
  <1>11. CASE ~Stat
    <2>1. \A i \in Chare : Len(arrayContrib[i]) = 1 /\ arrayContrib[i][1] = "registered"
      BY <1>4
    <2>2. heard'["array"] = 1 .. (it' + 1)
      BY <1>6, <1>7, <1>8
    <2>3. ASSUME NEW i \in Chare
          PROVE  /\ Len(arrayContrib'[i]) = it' + (IF i \in Chare \/ finished' THEN 1 ELSE 2)
                 /\ \A j \in 1 .. Len(arrayContrib'[i]) :
                      arrayContrib'[i][j] = IF j = 1 THEN "registered" ELSE "nostat"
      BY <1>6, <1>7, <2>1
    <2>4. Skipping(Chare)'
      BY <1>6, <1>7, <1>9, <1>11, <2>2, <2>3 DEF Skipping, Starting, Stat
    <2> QED BY <1>9, <2>4 DEF WalkerInv, Phase
  <1> QED BY <1>10, <1>11

\* A run without statistics: all Integrators have taken the step.
LEMMA NoStatInv ==
  ASSUME WalkerInv, NEW P, Skipping(P), NEW k \in 1 .. Len(arrayContrib[0]), ArrayReduction(k)
  PROVE  WalkerInv'
  <1>1. Shape /\ Time /\ PdfFile
    BY DEF WalkerInv
  <1>2. 0 \in Chare /\ it \in Nat
    BY <1>1, OnFacts DEF Shape
  <1>3. /\ ~Stat /\ P \subseteq Chare
        /\ msgs = {StepMessage(i) : i \in P}
        /\ \A i \in Chare :
             /\ Len(arrayContrib[i]) = it + (IF i \in P \/ finished THEN 1 ELSE 2)
             /\ \A j \in 1 .. Len(arrayContrib[i]) : arrayContrib[i][j] = IF j = 1 THEN "registered" ELSE "nostat"
        /\ heard["array"] = 1 .. (it + 1)
    BY DEF Skipping
  <1>4. k = it + 2 /\ ~finished /\ P = {}
    <2>1. k \notin heard["array"] /\ \A i \in Chare : k <= Len(arrayContrib[i])
      BY DEF ArrayReduction
    <2>2. k > it + 1
      BY <1>2, <1>3, <2>1
    <2>3. ASSUME NEW i \in Chare PROVE ~ (i \in P \/ finished)
      BY <1>2, <1>3, <2>1, <2>2
    <2>4. Len(arrayContrib[0]) = it + 2
      BY <1>2, <1>3, <2>3
    <2>5. k \in Int /\ k <= it + 2
      BY <1>2, <2>4
    <2> QED BY <1>2, <1>3, <2>2, <2>3, <2>5
  <1>5. arrayContrib[0][k] = "nostat"
    BY <1>2, <1>3, <1>4
  <1>6. /\ EvaluateTime(est, inflight)
        /\ heard' = [heard EXCEPT !["array"] = @ \cup {k}]
        /\ UNCHANGED <<waiting, trigger, statfile, pdffile>>
        /\ UNCHANGED <<inputdeck, age, stat, arrayContrib>> /\ UNCHANGED collectorVars
    BY <1>5 DEF ArrayReduction
  <1>7. /\ it' = it + 1 /\ t' = End /\ End \in Nat
        /\ est' = est /\ moments' = moments /\ inflight' = inflight
        /\ Stat' = Stat
    BY <1>1, <1>3, <1>4, <1>6, EndFacts DEF EvaluateTime, Stat
  <1>8. IsOn(heard', {"array", "group"}) /\ heard'["group"] = heard["group"] /\ heard'["array"] = 1 .. (it' + 1)
    <2>1. IsOn(heard, {"array", "group"})
      BY <1>1 DEF Shape
    <2>2. IsOn(heard', {"array", "group"}) /\ heard'["group"] = heard["group"] /\ heard'["array"] = heard["array"] \cup {k}
      BY <1>6, <2>1 DEF IsOn
    <2>3. (1 .. (it + 1)) \cup {it + 2} = 1 .. (it' + 1)
      BY <1>2, <1>7
    <2> QED BY <1>3, <1>4, <2>2, <2>3
  <1>9. \A i \in Chare :
          /\ Len(arrayContrib'[i]) = it' + 1
          /\ \A j \in 1 .. Len(arrayContrib'[i]) : arrayContrib'[i][j] = IF j = 1 THEN "registered" ELSE "nostat"
    <2>1. \A i \in Chare : Len(arrayContrib[i]) = it + 2
      BY <1>3, <1>4
    <2> QED BY <1>2, <1>3, <1>6, <1>7, <2>1
  <1>10. PdfFile'
    <2>1. pdffile' = {}
      BY <1>6 DEF Skipping
    <2> QED BY <2>1 DEF PdfFile
  <1>11. Shape'
    <2>1. finished' \in BOOLEAN
      BY <1>1, <1>6 DEF EvaluateTime, Shape
    <2> QED BY <1>1, <1>2, <1>6, <1>7, <1>8, <2>1 DEF Shape, collectorVars
  <1>12. CASE End # Term /\ it + 1 < NStep
    <2>1. /\ msgs' = {StepMessage(i)' : i \in Chare}
          /\ finished' = finished
      <3>1. /\ msgs' = msgs \cup
                 {[type |-> "advance", to |-> i, it |-> it + 1, t |-> End, moments |-> moments'] : i \in Chare}
            /\ finished' = finished
        BY <1>6, <1>12 DEF EvaluateTime
      <3>2. msgs = {} /\ it' # 0
        BY <1>2, <1>3, <1>4, <1>7
      <3> QED BY <1>7, <3>1, <3>2 DEF StepMessage
    <2>2. Time'
      <3>1. End = (it + 1) * Dt /\ End < Term
        BY <1>1, <1>4, <1>12, EndFacts
      <3> QED BY <1>7, <1>12, <3>1 DEF Time
    <2>3. Skipping(Chare)'
      <3>1. \A i \in Chare : Len(arrayContrib'[i]) = it' + (IF i \in Chare \/ finished' THEN 1 ELSE 2)
        BY <1>9
      <3> QED BY <1>3, <1>4, <1>6, <1>7, <1>8, <1>9, <2>1, <3>1 DEF Skipping, collectorVars
    <2> QED BY <1>10, <1>11, <2>2, <2>3 DEF WalkerInv, Phase
  <1>13. CASE ~(End # Term /\ it + 1 < NStep)
    <2>1. finished' = TRUE /\ msgs' = {}
      BY <1>3, <1>4, <1>6, <1>13 DEF EvaluateTime
    <2>2. Skipping({})'
      <3>1. \A i \in Chare : Len(arrayContrib'[i]) = it' + (IF i \in {} \/ finished' THEN 1 ELSE 2)
        BY <1>9, <2>1
      <3> QED BY <1>3, <1>6, <1>7, <1>8, <1>9, <2>1, <3>1 DEF Skipping, collectorVars
    <2> QED BY <1>10, <1>11, <2>1, <2>2 DEF WalkerInv, Phase, Time
  <1> QED BY <1>12, <1>13

\* Distributor::registered and nostat.
LEMMA ArrayReductionInv ==
  ASSUME WalkerInv, NEW k \in 1 .. Len(arrayContrib[0]), ArrayReduction(k) PROVE WalkerInv'
  <1>1. CASE arrayContrib = [i \in Chare |-> <<"registered">>] /\ heard["array"] = {1}
    <2>1. arrayContrib[0] = <<"registered">>
      BY <1>1, OnFacts
    <2>2. k = 1
      BY <2>1
    <2> QED BY <1>1, <2>2 DEF ArrayReduction
  <1> QED BY <1>1, RegisteredInv, NoStatInv DEF WalkerInv, Phase, Running, Done

-----------------------------------------------------------------------------
\* At the start no Integrator exists.
LEMMA InitInv == Init => WalkerInv
  <1> SUFFICES ASSUME Init PROVE WalkerInv
    OBVIOUS
  <1>1. Starting({})
    <2>1. \A p \in Pe : Cardinality(On(p) \cap {}) = 0
      BY FS_EmptySet
    <2>2. nchare = [p \in Pe |-> Cardinality(On(p) \cap {})]
      BY <2>1 DEF Init
    <2>3. \A w \in Wait : inflight[w] + waiting[w] = 1
      BY DEF Init
    <2>4. arrayContrib = [i \in Chare |-> IF i \in {} THEN <<"registered">> ELSE <<>>]
      BY DEF Init
    <2>5. /\ it = 0 /\ ~finished
          /\ msgs = {[type |-> "create", to |-> i] : i \in Chare \ {}}
          /\ heard["array"] = {} /\ heard["group"] = {}
          /\ age = [i \in Chare |-> 0]
          /\ ncall = [p \in Pe |-> [x \in Moment |-> 0]]
          /\ sums = [p \in Pe |-> [x \in Estimate |-> EmptyBag]]
          /\ groupContrib = [p \in Pe |-> <<>>]
          /\ est = [x \in Estimate |-> NoSum]
          /\ trigger = [x \in Estimate |-> 0]
          /\ pdffile = {}
      BY DEF Init
    <2> QED BY <2>2, <2>3, <2>4, <2>5 DEF Starting
  <1>2. Shape
    <2>1. \A p \in Pe : IsSeq(groupContrib[p])
      BY DEF Init, IsSeq
    <2>2. arrayContrib \in [Chare -> Seq({"registered", "nostat"})]
      BY DEF Init
    <2>3. /\ inflight \in [Wait -> Nat] /\ waiting \in [Wait -> Nat] /\ trigger \in [Estimate -> Nat]
          /\ nchare \in [Pe -> Nat] /\ ncall \in [Pe -> [Moment -> Nat]]
      BY DEF Init
    <2>4. /\ IsOn(est, Estimate) /\ IsOn(moments, Moment)
          /\ IsOn(stat, Chare) /\ \A i \in Chare : IsOn(stat[i], Estimate)
      BY DEF Init, IsOn
    <2>5. /\ IsOn(sums, Pe) /\ \A p \in Pe : IsOn(sums[p], Estimate)
          /\ IsOn(groupContrib, Pe) /\ IsOn(heard, {"array", "group"})
      BY DEF Init, IsOn
    <2> QED BY <2>1, <2>2, <2>3, <2>4, <2>5 DEF Init, Shape
  <1>3. Time
    BY DEF Init, Time
  <1>4. PdfFile
    BY DEF Init, PdfFile
  <1> QED BY <1>1, <1>2, <1>3, <1>4 DEF WalkerInv, Phase

\* WalkerInv is about the variables only.
LEMMA StutterInv == ASSUME WalkerInv, UNCHANGED vars PROVE WalkerInv'
  <1>1. UNCHANGED hostVars
    BY DEF vars, hostVars
  <1>2. Shape'
    BY DEF WalkerInv, Shape, vars
  <1>3. ASSUME NEW C, Starting(C) PROVE Starting(C)'
    BY <1>3 DEF Starting, vars
  <1>4. ASSUME NEW P, NEW H, NEW cen, Running(P, H, cen) PROVE Running(P, H, cen)'
    <2>1. \A p \in Pe : Collected(p, P, cen)'
      <3>1. \A p \in Pe : Collected(p, P, cen)
        BY <1>4 DEF Running
      <3>2. \A p \in Pe : Collected(p, P, cen)' <=> Collected(p, P, cen)
        BY DEF Collected, Due, Pdf, Partial, Sample, EstimateOf, All, AllCen, vars
      <3> QED BY <3>1, <3>2
    <2>2. \A i : StepMessage(i)' = StepMessage(i) /\ CenMessage(i)' = CenMessage(i)
      BY DEF StepMessage, CenMessage, All, vars
    <2>3. msgs' = {IF cen THEN CenMessage(i)' ELSE StepMessage(i)' : i \in P}
      BY <1>4, <2>2 DEF Running, vars
    <2>4. Estimates(H, cen, trigger, est)' /\ Waits(H, cen)'
          /\ (it > 0 => moments = [x \in Moment |-> EstimateOf(x, it - 1)])' /\ Stat'
      BY <1>1, <1>4, HostKept DEF Running
    <2> QED BY <1>4, <2>1, <2>3, <2>4 DEF Running, vars
  <1>5. Done => Done'
    BY DEF Done, Stat, vars
  <1>6. ASSUME NEW P, Skipping(P) PROVE Skipping(P)'
    <2>1. \A i : StepMessage(i)' = StepMessage(i)
      BY DEF StepMessage, vars
    <2> QED BY <1>6, <2>1 DEF Skipping, Stat, vars
  <1> QED BY <1>1, <1>2, <1>3, <1>4, <1>5, <1>6, HostKept DEF WalkerInv, Phase

\* Every state of walker is one that WalkerInvariant describes: the Integrators, the
\* Collector branches and Distributor agree on the step and on what of it is done.
THEOREM WalkerInvHolds == Spec => []WalkerInv
  <1>1. WalkerInv /\ Next => WalkerInv'
    <2> SUFFICES ASSUME WalkerInv, Next PROVE WalkerInv'
      OBVIOUS
    <2>1. ASSUME NEW i \in Chare, Create(i) \/ Step(i) \/ AccumulateCen(i) PROVE WalkerInv'
      BY <2>1, CreateInv, StepInv, AccumulateCenInv
    <2>2. ASSUME NEW w \in Wait, PostWait(w) PROVE WalkerInv'
      BY <2>2, PostWaitInv
    <2>3. ASSUME NEW k \in 1 .. Len(groupContrib[0]), GroupReduction(k) PROVE WalkerInv'
      BY <2>3, GroupReductionInv
    <2>4. ASSUME NEW k \in 1 .. Len(arrayContrib[0]), ArrayReduction(k) PROVE WalkerInv'
      BY <2>4, ArrayReductionInv
    <2>5. CASE Exit
      BY <2>5, StutterInv DEF Exit
    <2> QED BY <2>1, <2>2, <2>3, <2>4, <2>5 DEF Next
  <1> QED BY <1>1, InitInv, StutterInv, PTL DEF Spec

\* Central sums are started about the ordinary moments of all particles at this
\* step, while no Integrator has moved on (CenAboutAll).
THEOREM CentralAboutAll == Spec => []CenAboutAll
  <1>1. WalkerInv => CenAboutAll
    <2> SUFFICES ASSUME WalkerInv, NEW m \in msgs, m.type = "accumulateCen"
                 PROVE  m.it = it /\ m.ord = All(it) /\ \A i \in Chare : age[i] = it
      BY DEF CenAboutAll
    <2>1. PICK P, H, cen : Running(P, H, cen)
      <3>1. ASSUME NEW P, Skipping(P) PROVE FALSE
        BY <3>1 DEF Skipping, StepMessage
      <3> QED BY <3>1 DEF WalkerInv, Phase, Starting, Done
    <2>2. cen /\ \E i \in P : m = CenMessage(i)
      BY <2>1 DEF Running, StepMessage
    <2> QED BY <2>1, <2>2 DEF Running, CenMessage
  <1> QED BY <1>1, WalkerInvHolds, PTL

\* Equations are advanced with the moments of all particles at the last step
\* (MomentsOfLastStep).
THEOREM AdvancedWithMoments == Spec => []MomentsOfLastStep
  <1>1. WalkerInv => MomentsOfLastStep
    <2> SUFFICES ASSUME WalkerInv, NEW m \in msgs, m.type = "advance", Stat
                 PROVE  m.moments = [x \in Moment |-> EstimateOf(x, m.it - 1)]
      BY DEF MomentsOfLastStep
    <2>1. PICK P, H, cen : Running(P, H, cen)
      BY DEF WalkerInv, Phase, Starting, Done, Skipping
    <2>2. PICK i \in P : m = StepMessage(i)
      BY <2>1 DEF Running, CenMessage
    <2>3. it \in Nat /\ it # 0
      BY <2>2 DEF StepMessage, WalkerInv, Shape
    <2> QED BY <2>1, <2>2, <2>3 DEF Running, StepMessage
  <1> QED BY <1>1, WalkerInvHolds, PTL

\* PDFs written in the first step and at the interval are of all particles at that
\* step (PdfFile).
THEOREM PdfsOfTheirStep == Spec => []PdfFile
  <1>1. WalkerInv => PdfFile
    BY DEF WalkerInv
  <1> QED BY <1>1, WalkerInvHolds, PTL

\* Each wait is posted once per step and each trigger consumed in it (WaitsMatch).
THEOREM WaitsOncePerStep == Spec => []WaitsMatch
  <1>1. WalkerInv => WaitsMatch
    <2> SUFFICES ASSUME WalkerInv PROVE WaitsMatch
      OBVIOUS
    <2>1. ASSUME NEW P, NEW H, NEW cen, Running(P, H, cen) PROVE WaitsMatch
      <3>1. \A w \in Wait : inflight[w] + waiting[w] <= 1
        BY <2>1, WaitSums DEF WalkerInv
      <3>2. \A x \in Estimate : trigger[x] <= 1
        <4>1. trigger = [x \in Estimate |-> IF x \in H /\ ~(cen /\ x = "estimateOrd") THEN 1 ELSE 0]
          BY <2>1 DEF Running, Estimates
        <4> QED BY <4>1
      <3>3. ~finished
        BY <2>1 DEF Running
      <3> QED BY <3>1, <3>2, <3>3 DEF WaitsMatch
    <2>2. ASSUME trigger = [x \in Estimate |-> 0], \A w \in Wait : inflight[w] + waiting[w] <= 1
          PROVE  WaitsMatch
      BY <2>2 DEF WaitsMatch
    <2>3. ASSUME NEW C, Starting(C) PROVE WaitsMatch
      <3>1. \A w \in Wait : inflight[w] + waiting[w] <= 1
        BY <2>3 DEF Starting
      <3> QED BY <2>2, <2>3, <3>1 DEF Starting
    <2>4. ASSUME NEW P, Skipping(P) PROVE WaitsMatch
      <3>1. \A w \in Wait : inflight[w] + waiting[w] <= 1
        BY <2>4 DEF Skipping
      <3> QED BY <2>2, <2>4, <3>1 DEF Skipping
    <2>5. ASSUME Done PROVE WaitsMatch
      <3>1. \A w \in Wait : inflight[w] + waiting[w] <= 1
        BY <2>5 DEF Done
      <3> QED BY <2>2, <2>5, <3>1 DEF Done
    <2> QED BY <2>1, <2>3, <2>4, <2>5 DEF WalkerInv, Phase
  <1> QED BY <1>1, WalkerInvHolds, PTL

-----------------------------------------------------------------------------
\* What a division rounded up to a number of steps is good for.
LEMMA RoundedUp ==
  ASSUME NEW a \in Nat, NEW b \in Nat \ {0}, NEW n \in Nat
  PROVE  /\ (a + b - 1) \div b \in Int
         /\ (a + b - 1) \div b <= n <=> a <= n * b
  <1> DEFINE c == a + b - 1
             d == c \div b
             r == c % b
  <1>1. c \in Int /\ d \in Int /\ r \in 0 .. (b - 1) /\ c = b * d + r
    <2>1. c \in Int
      OBVIOUS
    <2> HIDE DEF c
    <2> QED BY <2>1, SMT
  <1>2. a = c - b + 1
    OBVIOUS
  <1> HIDE DEF c, d, r
  <1>3. ASSUME d <= n PROVE a <= n * b
    <2>1. b * d <= b * n
      BY <1>1, <1>3
    <2>2. b * n = n * b
      OBVIOUS
    <2> QED BY <1>1, <1>2, <2>1, <2>2
  <1>4. ASSUME d > n PROVE a > n * b
    <2>1. b * (n + 1) <= b * d
      BY <1>1, <1>4
    <2>2. b * (n + 1) = n * b + b
      OBVIOUS
    <2> QED BY <1>1, <1>2, <2>1, <2>2
  <1>5. d <= n <=> a <= n * b
    BY <1>1, <1>3, <1>4
  <1> QED BY <1>1, <1>5 DEF c, d

\* evaluateTime() finishes after the last of the steps, by time or by number.
LEMMA LastStep ==
  ASSUME Shape, Time, ~finished
  PROVE  /\ it \in 0 .. (NSteps - 1) /\ NSteps \in Nat
         /\ ~ (End # Term /\ it + 1 < NStep) <=> it + 1 = NSteps
  <1> DEFINE byTime == (Term + Dt - 1) \div Dt
             next == (it + 1) * Dt
  <1>1. it \in Nat /\ Dt \in Nat \ {0} /\ Term \in Nat \ {0} /\ NStep \in Nat \ {0} /\ t = it * Dt /\ it * Dt < Term /\ it < NStep
    BY DEF Shape, Time
  <1>2. byTime \in Int /\ (byTime <= it <=> Term <= it * Dt) /\ (byTime <= it + 1 <=> Term <= next)
    BY <1>1, RoundedUp
  <1>3. byTime >= it + 1
    <2> HIDE DEF byTime, next
    <2>1. it * Dt \in Nat
      BY <1>1
    <2>2. ~ (byTime <= it)
      BY <1>1, <1>2, <2>1
    <2> QED BY <1>1, <1>2, <2>2
  <1>4. End = Term <=> Term <= next
    <2>1. next = t + Dt /\ t + Dt \in Nat
      BY <1>1
    <2> HIDE DEF next
    <2> QED BY <1>1, <2>1 DEF End
  <1>5. NSteps = IF byTime < NStep THEN byTime ELSE NStep
    BY DEF NSteps
  <1>6. End = Term <=> byTime = it + 1
    <2> HIDE DEF byTime, next
    <2> QED BY <1>1, <1>2, <1>3, <1>4
  <1> HIDE DEF byTime, next
  <1> QED BY <1>1, <1>2, <1>3, <1>5, <1>6

\* evaluateTime() is a step of the promise, if the file has got what it owes.
LEMMA TimeStep ==
  ASSUME Shape, Time, ~finished, NEW e, NEW posting, EvaluateTime(e, posting), UNCHANGED inputdeck,
         statfile' = IF Stat /\ (it + 1) % StatFreq = 0
                     THEN statfile \cup {[step |-> it, est |-> [x \in Moment |-> EstimateOf(x, it)]]}
                     ELSE statfile
  PROVE  Promise!Step
  <1>1. /\ it \in 0 .. (NSteps - 1) /\ NSteps \in Nat
        /\ ~ (End # Term /\ it + 1 < NStep) <=> it + 1 = NSteps
    BY LastStep
  <1>2. it' = it + 1 /\ finished' = (it + 1 = NSteps)
    <2>1. finished \in BOOLEAN
      BY DEF Shape
    <2> QED BY <1>1, <2>1 DEF EvaluateTime
  <1> DEFINE due == {n \in 0 .. (NSteps - 1) : Stat /\ (n + 1) % StatFreq = 0}
             owed == [n \in 0 .. (NSteps - 1) |-> [x \in Moment |-> EstimateOf(x, n)]]
  <1>3. it \in due <=> Stat /\ (it + 1) % StatFreq = 0
    BY <1>1
  <1>4. owed[it] = [x \in Moment |-> EstimateOf(x, it)]
    BY <1>1
  <1>5. statfile' = IF it \in due THEN statfile \cup {[step |-> it, est |-> owed[it]]} ELSE statfile
    BY <1>3, <1>4
  <1>6. due' = due
    BY DEF Stat
  <1> HIDE DEF due, owed
  <1> QED BY <1>2, <1>5, <1>6 DEF Promise!Step, due, owed

\* Nothing happens to the promise.
LEMMA NoTimeStep ==
  ASSUME UNCHANGED <<inputdeck, it, statfile, finished>> PROVE UNCHANGED Promise!vars
  BY DEF Promise!vars, Stat

\* The body of one of the waits, with what has been received.
LEMMA BodySteps ==
  ASSUME Shape, Time, NEW P, NEW H0, NEW cen, Running(P, H0, cen),
         NEW H, NEW triggers, NEW e, NEW posting, NEW w \in Wait,
         Estimates(H, cen, triggers, e),
         \A x \in H, p \in Pe : 4 * it + Position[x] <= Len(groupContrib[p]),
         Run(w, triggers, e, posting), UNCHANGED inputdeck
  PROVE  Promise!Step \/ UNCHANGED Promise!vars
  <1>1. CASE w = "wait4ord"
    <2>1. UNCHANGED <<it, statfile, finished>>
      BY <1>1 DEF Run, StartCen
    <2> QED BY <2>1, NoTimeStep
  <1>2. CASE w = "wait4pdf"
    <2>1. OutPDF(e, posting) /\ \A x \in Estimate \ {"estimateOrd"} : triggers[x] > 0
      BY <1>2 DEF Run, Needs
    <2>2. Stat /\ ~finished
      BY DEF Running
    <2>3. "estimateCen" \in Estimate /\ "estimateCen" \in H
      BY <2>1 DEF Estimates, Estimate, Moment
    <2>4. cen
      <3>1. \A p \in Pe : 4 * it + Position["estimateCen"] <= Len(groupContrib[p])
        BY <2>3
      <3> QED BY <2>3, <3>1, Contributed
    <2>5. "estimateOrd" \in H
      BY <2>4 DEF Estimates
    <2>6. \A x \in Moment : e[x] = EstimateOf(x, it)
      <3>1. \A x \in Moment : x \in H
        BY <2>3, <2>5 DEF Moment
      <3> QED BY <3>1 DEF Estimates
    <2>7. EvaluateTime(e, posting)
      BY <2>1 DEF OutPDF
    <2>8. statfile' = IF Stat /\ (it + 1) % StatFreq = 0
                      THEN statfile \cup {[step |-> it, est |-> [x \in Moment |-> EstimateOf(x, it)]]}
                      ELSE statfile
      <3>1. [x \in Moment |-> e[x]] = [x \in Moment |-> EstimateOf(x, it)]
        BY <2>6
      <3>2. statfile' = IF (it + 1) % StatFreq = 0
                        THEN statfile \cup {[step |-> it, est |-> [x \in Moment |-> e[x]]]}
                        ELSE statfile
        BY <2>1 DEF OutPDF
      <3> QED BY <2>2, <3>1, <3>2
    <2> QED BY <2>2, <2>7, <2>8, TimeStep
  <1> QED BY <1>1, <1>2 DEF Wait

\* A wait delivered after its triggers,
LEMMA PostWaitSteps ==
  ASSUME WalkerInv, NEW w \in Wait, PostWait(w) PROVE Promise!Step \/ UNCHANGED Promise!vars
  <1> DEFINE posting == [inflight EXCEPT ![w] = @ - 1]
  <1>1. UNCHANGED inputdeck
    BY DEF PostWait
  <1>2. CASE Run(w, trigger, est, posting)
    <2>1. PICK x \in Estimate : trigger[x] > 0
      BY <1>2 DEF Run, Needs, Estimate, Moment
    <2>2. PICK P, H, cen : Running(P, H, cen)
      <3>1. trigger # [z \in Estimate |-> 0]
        BY <2>1
      <3> QED BY <3>1 DEF WalkerInv, Phase, Starting, Done, Skipping
    <2>3. /\ Shape /\ Time /\ Estimates(H, cen, trigger, est)
          /\ \A y \in H, p \in Pe : 4 * it + Position[y] <= Len(groupContrib[p])
      BY <2>2 DEF WalkerInv, Running
    <2> HIDE DEF posting
    <2> QED BY <1>1, <1>2, <2>2, <2>3, BodySteps
  <1>3. CASE ~ Run(w, trigger, est, posting)
    <2>1. UNCHANGED <<it, statfile, finished>>
      BY <1>3 DEF PostWait
    <2> QED BY <1>1, <2>1, NoTimeStep
  <1> QED BY <1>2, <1>3

\* an estimate received,
LEMMA GroupReductionSteps ==
  ASSUME WalkerInv, NEW k \in 1 .. Len(groupContrib[0]), GroupReduction(k)
  PROVE  Promise!Step \/ UNCHANGED Promise!vars
  <1>1. Shape /\ Time
    BY DEF WalkerInv
  <1>2. PICK P, H, cen : Running(P, H, cen)
    BY GroupRunning
  <1>3. PICK x \in Estimate :
          /\ k = 4 * it + Position[x] /\ x \notin H
          /\ groupContrib[0][k].target = x
          /\ x \in Moment \/ Due(it) => [p \in Pe |-> groupContrib[p][k].sum] = EstimateOf(x, it)
          /\ \A p \in Pe : 4 * it + Position[x] <= Len(groupContrib[p])
    BY <1>1, <1>2, ReceivedFacts
  <1> DEFINE total == [p \in Pe |-> groupContrib[p][k].sum]
             e == [est EXCEPT ![x] = IF x \in Moment THEN Plus(@, total) ELSE total]
             triggers == [trigger EXCEPT ![x] = @ + 1]
             w == IF x = "estimateOrd" THEN "wait4ord" ELSE "wait4pdf"
             now == H \cup {x}
  <1>4. x \in Moment \/ Due(it) => total = EstimateOf(x, it)
    BY <1>3
  <1>5. Estimated(x, total) /\ UNCHANGED inputdeck
    <2> HIDE DEF total
    <2> QED BY <1>3 DEF GroupReduction, total
  <1> HIDE DEF total
  <1>6. Estimates(now, cen, triggers, e)
    BY <1>1, <1>2, <1>3, <1>4, EstimatesGrow
  <1>7. \A y \in now, p \in Pe : 4 * it + Position[y] <= Len(groupContrib[p])
    BY <1>2, <1>3 DEF Running
  <1>8. Run(w, triggers, e, inflight) \/ UNCHANGED <<it, statfile, finished>>
    BY <1>5 DEF Estimated
  <1>9. w \in Wait
    BY DEF Wait
  <1> HIDE DEF e, triggers, now, w
  <1> QED BY <1>1, <1>2, <1>5, <1>6, <1>7, <1>8, <1>9, BodySteps, NoTimeStep

\* and the end of a step without statistics are steps of the promise, or none.
LEMMA ArrayReductionSteps ==
  ASSUME WalkerInv, NEW k \in 1 .. Len(arrayContrib[0]), ArrayReduction(k)
  PROVE  Promise!Step \/ UNCHANGED Promise!vars
  <1>1. CASE arrayContrib[0][k] = "registered"
    <2>1. UNCHANGED <<inputdeck, it, statfile, finished>>
      BY <1>1 DEF ArrayReduction, hostVars
    <2> QED BY <2>1, NoTimeStep
  <1>2. CASE arrayContrib[0][k] # "registered"
    <2>1. EvaluateTime(est, inflight) /\ UNCHANGED <<statfile, inputdeck>>
      BY <1>2 DEF ArrayReduction
    <2>2. PICK P : Skipping(P)
      <3>1. CASE arrayContrib = [i \in Chare |-> <<"registered">>]
        <4>1. arrayContrib[0] = <<"registered">>
          BY <3>1, OnFacts
        <4>2. k = 1
          BY <4>1
        <4> QED BY <1>2, <4>1, <4>2
      <3>2. ASSUME NEW C, Starting(C) PROVE FALSE
        <4>1. arrayContrib[0] \in {<<"registered">>, <<>>}
          BY <3>2, OnFacts DEF Starting
        <4>2. arrayContrib[0] # <<>>
          <5>1. arrayContrib[0] = <<>> => Len(arrayContrib[0]) = 0
            OBVIOUS
          <5> QED BY <5>1
        <4>3. arrayContrib[0] = <<"registered">>
          BY <4>1, <4>2
        <4>4. k = 1
          BY <4>3
        <4> QED BY <1>2, <4>3, <4>4
      <3> QED BY <3>1, <3>2 DEF WalkerInv, Phase, Running, Done
    <2>3. ~Stat /\ ~finished
      <3>1. ASSUME finished PROVE FALSE
        <4>1. /\ Len(arrayContrib[0]) = it + 1 /\ heard["array"] = 1 .. (it + 1)
              /\ k \notin heard["array"] /\ it \in Nat
          BY <2>2, <3>1, OnFacts DEF Skipping, ArrayReduction, WalkerInv, Shape
        <4> QED BY <4>1
      <3> QED BY <2>2, <3>1 DEF Skipping
    <2> QED BY <2>1, <2>3, TimeStep DEF WalkerInv
  <1> QED BY <1>1, <1>2

\* The chares of walker take the steps they promise: one after the other, the last
\* by the time or the number asked for, each with its line of moments over all
\* particles in the statistics file if it owes one, and none after the last.
THEOREM TakesTheSteps == Spec => Promise!Init /\ [][Promise!Step]_(Promise!vars)
  <1>1. Init => Promise!Init
    BY DEF Init, Promise!Init
  <1>2. WalkerInv /\ [Next]_vars => [Promise!Step]_(Promise!vars)
    <2> SUFFICES ASSUME WalkerInv, [Next]_vars PROVE Promise!Step \/ UNCHANGED Promise!vars
      OBVIOUS
    <2>1. ASSUME UNCHANGED hostVars PROVE UNCHANGED Promise!vars
      BY <2>1, NoTimeStep DEF hostVars
    <2>2. ASSUME NEW i \in Chare, Create(i) \/ Step(i) \/ AccumulateCen(i) PROVE UNCHANGED hostVars
      BY <2>2 DEF Create, Step, AccumulateCen
    <2>3. UNCHANGED vars => UNCHANGED hostVars
      BY DEF vars, hostVars
    <2> QED BY <2>1, <2>2, <2>3, PostWaitSteps, GroupReductionSteps, ArrayReductionSteps DEF Next, Exit
  <1> QED BY <1>1, <1>2, WalkerInvHolds, PTL DEF Spec
=============================================================================
