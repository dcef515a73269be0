------------------------- MODULE LoadBalanceProofs -------------------------
(***************************************************************************)
(* Proofs that linearLoadDistributor loses no work and gives every PE some,*)
(* that LinearMap creates array elements where their messages are sent and *)
(* that UnsMeshMap leaves no PE without an element unless it places one    *)
(* beyond all PEs, for every load, number of PEs, degree of virtualization *)
(* and mesh.                                                               *)
(***************************************************************************)
EXTENDS LoadBalance, FiniteSetTheorems, TLAPS

USE LoadBalanceAssumption

\* Division rounds down.
LEMMA DivFacts ==
  ASSUME NEW a \in Int, NEW b \in Nat \ {0}
  PROVE  /\ a \div b \in Int /\ a % b \in 0 .. (b - 1)
         /\ a = b * (a \div b) + (a % b)
  BY SMT

\* What rounds down to q is at least q.
LEMMA DivAtLeast ==
  ASSUME NEW a \in Int, NEW b \in Nat \ {0}, NEW q \in Int
  PROVE  a \div b >= q <=> b * q <= a
  <1> DEFINE d == a \div b
             r == a % b
  <1>1. d \in Int /\ r \in 0 .. (b - 1) /\ a = b * d + r
    BY DivFacts
  <1> HIDE DEF d, r
  <1>2. ASSUME d >= q PROVE b * q <= a
    <2>1. b * q <= b * d
      BY <1>1, <1>2
    <2> QED BY <1>1, <2>1
  <1>3. ASSUME d < q PROVE b * q > a
    <2>1. b * (d + 1) <= b * q
      BY <1>1, <1>3
    <2>2. b * (d + 1) = b * d + b
      BY <1>1
    <2> QED BY <1>1, <2>1, <2>2
  <1>4. d >= q <=> b * q <= a
    BY <1>1, <1>2, <1>3
  <1> QED BY <1>4 DEF d

-----------------------------------------------------------------------------
\* The arguments of the functions keep their ranges, whatever fixPEs does.
Ranges == npe \in Nat \ {0} /\ load \in Nat /\ virt \in 0 .. Denom

LEMMA InitRanges == Init => Ranges
  BY DEF Init, InitLoad, InitMesh, Ranges

LEMMA NextRanges == Ranges /\ [FixPEs]_vars => Ranges'
  BY DEF Ranges, FixPEs, vars

THEOREM RangesHold == Spec => []Ranges
  BY InitRanges, NextRanges, PTL DEF Spec

-----------------------------------------------------------------------------
\* With work for each PE, the unit size is between one and the work for a PE.
LEMMA ChunkBounds ==
  ASSUME Ranges, load >= npe
  PROVE  FirstChunk \in Nat \ {0} /\ npe * FirstChunk <= load
  <1> DEFINE a == (npe - load) * virt + load * Denom
             b == npe * Denom
             f == a \div b
  <1>1. npe \in Nat \ {0} /\ load \in Nat /\ virt \in Nat /\ Denom \in Nat \ {0} /\ virt <= Denom
    BY DEF Ranges
  <1>2. a \in Int /\ b \in Nat \ {0}
    BY <1>1
  <1>3. (load - npe) * virt <= (load - npe) * Denom /\ (load - npe) * virt >= 0
    <2>1. load - npe \in Nat
      BY <1>1
    <2> DEFINE k == load - npe
    <2>2. k \in Nat
      BY <2>1
    <2> HIDE DEF k
    <2>3. k * virt <= k * Denom /\ k * virt >= 0
      BY <1>1, <2>2
    <2> QED BY <2>3 DEF k
  <1>4. a = load * Denom - (load - npe) * virt
    BY <1>1
  <1>5. a >= b /\ a <= load * Denom
    <2>1. (load - npe) * Denom = load * Denom - npe * Denom
      BY <1>1
    <2> QED BY <1>1, <1>3, <1>4, <2>1
  <1>6. f \in Int /\ f >= 1
    <2>1. b * 1 <= a
      BY <1>2, <1>5
    <2> HIDE DEF a, b
    <2> QED BY <1>2, <2>1, DivFacts, DivAtLeast
  <1>7. b * f <= load * Denom
    <2>1. b * f <= a
      <3> HIDE DEF a, b
      <3> QED BY <1>2, <1>6, DivAtLeast DEF f
    <2>2. load * Denom \in Int /\ b * f \in Int
      BY <1>1, <1>2, <1>6
    <2> HIDE DEF a, b, f
    <2> QED BY <1>2, <1>5, <2>1, <2>2
  <1> HIDE DEF a, f
  <1>8. npe * f <= load
    <2>1. b * f = Denom * (npe * f)
      BY <1>1, <1>6
    <2>2. Denom * (npe * f) <= Denom * load
      BY <1>1, <1>6, <1>7, <2>1
    <2> DEFINE x == npe * f
    <2>3. x \in Int
      BY <1>1, <1>6
    <2> HIDE DEF x
    <2>4. ASSUME x > load PROVE FALSE
      <3>1. Denom * (load + 1) <= Denom * x
        BY <1>1, <2>3, <2>4
      <3>2. Denom * (load + 1) = Denom * load + Denom
        BY <1>1
      <3> QED BY <1>1, <2>2, <2>3, <3>1, <3>2 DEF x
    <2> QED BY <1>1, <2>3, <2>4 DEF x
  <1> QED BY <1>6, <1>8 DEF FirstChunk, a, b, f

\* With less work than PEs the unit size is zero, or one for full virtualization.
LEMMA ChunkOfLittle ==
  ASSUME Ranges, load < npe
  PROVE  FirstChunk = IF virt < Denom THEN 0 ELSE 1
  <1> DEFINE a == (npe - load) * virt + load * Denom
             b == npe * Denom
             f == a \div b
             k == npe - load
             u == Denom - virt
  <1>1. /\ npe \in Nat \ {0} /\ load \in Nat /\ virt \in Nat /\ Denom \in Nat \ {0} /\ virt <= Denom
        /\ k \in Nat \ {0} /\ u \in Nat
    BY DEF Ranges
  <1>2. a \in Nat /\ b \in Nat \ {0}
    <2>1. k * virt \in Nat /\ load * Denom \in Nat
      BY <1>1
    <2> QED BY <1>1, <2>1
  <1>3. a = b - k * u
    <2>1. k * u = k * Denom - k * virt /\ k * Denom = npe * Denom - load * Denom
      BY <1>1
    <2> QED BY <1>1, <2>1
  <1>4. k * u \in Nat /\ (virt < Denom => k * u > 0) /\ (virt = Denom => k * u = 0)
    <2> HIDE DEF k
    <2>1. k * u \in Nat
      BY <1>1
    <2>2. ASSUME virt < Denom PROVE k * u > 0
      <3>1. u >= 1
        BY <1>1, <2>2
      <3> HIDE DEF u
      <3> QED BY <1>1, <3>1
    <2>3. ASSUME virt = Denom PROVE k * u = 0
      BY <1>1, <2>3
    <2> QED BY <2>1, <2>2, <2>3
  <1> HIDE DEF a, b, k, u
  <1>5. f \in Int /\ (f >= 0 <=> b * 0 <= a) /\ (f >= 1 <=> b * 1 <= a) /\ (f >= 2 <=> b * 2 <= a)
    <2>1. 0 \in Int /\ 1 \in Int /\ 2 \in Int /\ a \in Int
      BY <1>2
    <2> QED BY <1>2, <2>1, DivFacts, DivAtLeast
  <1>6. FirstChunk = f
    BY DEF FirstChunk, a, b
  <1> HIDE DEF f
  <1>7. f = IF virt < Denom THEN 0 ELSE 1
    BY <1>1, <1>2, <1>3, <1>4, <1>5
  <1> QED BY <1>6, <1>7

\* Units of a size that is not zero, nor more than the load, leave less than one each.
LEMMA Shared ==
  ASSUME load \in Nat, FirstChunk \in Nat \ {0}, FirstChunk <= load
  PROVE  /\ Units \in Nat \ {0} /\ Units * Chunk + Left = load /\ 0 <= Left /\ Left < Units
         /\ \A n \in Nat : n * FirstChunk <= load => Units >= n
  <1>1. Units \in Int /\ \A n \in Nat : FirstChunk * n <= load => Units >= n
    BY DivFacts, DivAtLeast DEF Units
  <1>2. \A n \in Nat : FirstChunk * n = n * FirstChunk
    OBVIOUS
  <1>3. Units \in Nat \ {0}
    <2>1. FirstChunk * 1 <= load
      OBVIOUS
    <2> QED BY <1>1, <2>1
  <1> DEFINE r == load - Units * FirstChunk
  <1>4. r \in Int
    BY <1>3
  <1>5. r \div Units \in Int /\ r % Units \in 0 .. (Units - 1) /\ r = Units * (r \div Units) + (r % Units)
    BY <1>3, <1>4, DivFacts
  <1> DEFINE q == r \div Units
             s == r % Units
  <1>6. Chunk = FirstChunk + q
    BY DEF Chunk
  <1> HIDE DEF q, s
  <1>7. Units * Chunk = Units * FirstChunk + Units * q
    BY <1>3, <1>5, <1>6 DEF q
  <1>8. Left = s
    BY <1>3, <1>5, <1>7 DEF Left, q, s
  <1>9. 0 <= Left /\ Left < Units
    BY <1>3, <1>5, <1>8 DEF s
  <1>10. Units * Chunk \in Int
    BY <1>3, <1>5, <1>6 DEF q
  <1> QED BY <1>1, <1>2, <1>3, <1>9, <1>10 DEF Left

\* linearLoadDistributor divides by zero exactly for less work than PEs and virtualization
\* below one; otherwise it loses no work and gives every PE a unit if there is one for each.
THEOREM WorkDistributed == Spec => []LoadDistributed
  <1>1. ASSUME Ranges, load > 0 PROVE LoadDistributed
    <2>1. npe \in Nat \ {0} /\ load \in Nat \ {0} /\ virt \in Nat /\ virt <= Denom /\ Denom \in Nat
      BY <1>1 DEF Ranges
    <2>2. CASE load >= npe
      <3>1. FirstChunk \in Nat \ {0} /\ npe * FirstChunk <= load
        BY <1>1, <2>2, ChunkBounds
      <3>2. FirstChunk <= npe * FirstChunk /\ npe * FirstChunk \in Nat
        BY <2>1, <3>1
      <3>3. FirstChunk <= load
        BY <2>1, <3>1, <3>2
      <3> QED BY <2>1, <2>2, <3>1, <3>3, Shared DEF LoadDistributed
    <2>3. CASE load < npe
      <3>1. FirstChunk = IF virt < Denom THEN 0 ELSE 1
        BY <1>1, <2>3, ChunkOfLittle
      <3>2. CASE virt < Denom
        BY <2>1, <2>3, <3>1, <3>2 DEF LoadDistributed
      <3>3. CASE ~ (virt < Denom)
        <4>1. FirstChunk = 1 /\ FirstChunk <= load
          BY <2>1, <3>1, <3>3
        <4> QED BY <2>1, <2>3, <3>3, <4>1, Shared DEF LoadDistributed
      <3> QED BY <3>2, <3>3
    <2> QED BY <2>1, <2>2, <2>3
  <1>2. Ranges => LoadDistributed
    BY <1>1 DEF LoadDistributed
  <1> QED BY <1>2, RangesHold, PTL

-----------------------------------------------------------------------------
\* A PE creates exactly the array elements that procNum() places on it.
THEOREM CreatedWhereSought == Spec => []CreatedAtHome
  <1>1. ASSUME Ranges PROVE CreatedAtHome
    <2> SUFFICES ASSUME NEW e \in 0 .. (load - 1), NEW p \in 0 .. (npe - 1)
                 PROVE  e \in Created(p) <=> ProcNum(e) = p
      BY DEF CreatedAtHome
    <2>1. npe \in Nat \ {0} /\ load \in Nat
      BY <1>1 DEF Ranges
    <2> DEFINE c == ChunkSize
               q == e \div c
               rest == load % npe
    <2>2. c \in Nat \ {0} /\ rest \in Nat
      <3>1. CASE load > npe
        BY <2>1, <3>1, DivFacts, DivAtLeast DEF ChunkSize
      <3>2. CASE load <= npe
        BY <2>1, <3>2, DivFacts DEF ChunkSize
      <3> QED BY <2>1, <3>1, <3>2
    <2>3. load <= npe * c + rest
      <3>1. CASE load > npe
        BY <2>1, <3>1, DivFacts DEF ChunkSize
      <3>2. CASE load <= npe
        BY <2>1, <2>2, <3>2 DEF ChunkSize
      <3> QED BY <2>1, <3>1, <3>2
    <2>4. q \in Int /\ (q >= p <=> c * p <= e) /\ (q >= p + 1 <=> c * (p + 1) <= e)
      <3>1. e \in Int /\ p \in Int /\ p + 1 \in Int
        BY <2>1
      <3> HIDE DEF c
      <3>2. q \in Int /\ (q >= p <=> c * p <= e)
        BY <2>2, <3>1, DivFacts, DivAtLeast
      <3>3. q >= p + 1 <=> c * (p + 1) <= e
        BY <2>2, <3>1, DivAtLeast
      <3> QED BY <3>2, <3>3
    <2>5. c * p = p * c /\ c * (p + 1) = p * c + c /\ p * c \in Int
      BY <2>1, <2>2
    <2>6. ProcNum(e) = IF q >= npe THEN npe - 1 ELSE q
      BY DEF ProcNum
    <2>7. e \in Created(p) <=>
            p * c <= e /\ e < p * c + c + (IF p = npe - 1 THEN rest ELSE 0)
      BY DEF Created
    <2> HIDE DEF c, q, rest
    <2>8. CASE p < npe - 1
      BY <2>1, <2>2, <2>4, <2>5, <2>6, <2>7, <2>8
    <2>9. CASE p = npe - 1
      <3>1. npe * c = p * c + c
        BY <2>1, <2>2, <2>9
      <3>2. e < p * c + c + rest
        BY <2>1, <2>2, <2>3, <2>5, <3>1
      <3>3. e \in Created(p) <=> q >= p
        BY <2>4, <2>5, <2>7, <2>9, <3>2
      <3> QED BY <2>1, <2>4, <2>6, <2>9, <3>3
    <2> QED BY <2>1, <2>8, <2>9
  <1> QED BY <1>1, RangesHold, PTL

-----------------------------------------------------------------------------
\* A set of naturals has a least one.
LEMMA LeastOf ==
  ASSUME NEW S, S \subseteq Nat, S # {}
  PROVE  \E m \in S : \A n \in S : m <= n
  <1> DEFINE below == {0 .. n : n \in S}
  <1>1. below \subseteq FiniteSubsetsOf(Nat)
    <2>1. ASSUME NEW n \in S PROVE 0 .. n \in SUBSET Nat /\ IsFiniteSet(0 .. n)
      BY FS_Interval
    <2> QED BY <2>1 DEF FiniteSubsetsOf
  <1>2. IsWellFoundedOn(StrictSubsetOrdering(Nat), FiniteSubsetsOf(Nat))
    BY FS_StrictSubsetOrderingWellFounded
  <1>3. PICK b \in below : \A c \in below : ~ (<<c, b>> \in StrictSubsetOrdering(Nat))
    <2> HIDE DEF below
    <2>1. below # {}
      BY DEF below
    <2> QED BY <1>1, <1>2, <2>1, WFMin
  <1>4. PICK m \in S : b = 0 .. m
    OBVIOUS
  <1>5. ASSUME NEW n \in S, n < m PROVE FALSE
    <2>1. 0 .. n \subseteq 0 .. m /\ 0 .. n # 0 .. m
      BY <1>5
    <2>2. <<0 .. n, 0 .. m>> \in StrictSubsetOrdering(Nat)
      BY <2>1 DEF StrictSubsetOrdering
    <2> QED BY <1>3, <1>4, <2>2
  <1> QED BY <1>5

\* Among finitely many PEs, one has the most, and the first of these is what Most
\* chooses.
LEMMA MostIs ==
  ASSUME NEW S, S \subseteq Nat, S # {}, NEW top \in Nat, NEW count \in [S -> 0 .. top]
  PROVE  /\ Most(count) \in S
         /\ \A q \in S : count[q] <= count[Most(count)]
  <1> DEFINE gaps == {top - count[p] : p \in S}
  <1>1. gaps \subseteq Nat /\ gaps # {}
    <2>1. \A p \in S : top - count[p] \in Nat
      OBVIOUS
    <2> QED BY <2>1
  <1>2. PICK g \in gaps : \A h \in gaps : g <= h
    <2> HIDE DEF gaps
    <2> QED BY <1>1, LeastOf
  <1> DEFINE best == {p \in S : top - count[p] = g}
  <1>3. best \subseteq Nat /\ best # {}
    BY <1>2
  <1>4. PICK p \in best : \A q \in best : p <= q
    <2> HIDE DEF best
    <2> QED BY <1>3, LeastOf
  <1>5. \A q \in S : count[p] > count[q] \/ (count[p] = count[q] /\ p <= q)
    <2> SUFFICES ASSUME NEW q \in S
                 PROVE  count[p] > count[q] \/ (count[p] = count[q] /\ p <= q)
      OBVIOUS
    <2>1. count[p] \in Nat /\ count[q] \in Nat /\ top - count[p] = g /\ top - count[p] <= top - count[q]
      BY <1>2, <1>4
    <2>2. CASE count[p] = count[q]
      BY <1>4, <2>1, <2>2
    <2> QED BY <2>1, <2>2
  <1>6. p \in S /\ DOMAIN count = S
    BY <1>4
  <1>7. /\ Most(count) \in S
        /\ \A q \in S : \/ count[Most(count)] > count[q]
                        \/ count[Most(count)] = count[q] /\ Most(count) <= q
    BY <1>5, <1>6 DEF Most
  <1>8. \A q \in S : count[q] \in Nat
    OBVIOUS
  <1> DEFINE chosen == Most(count)
  <1>9. chosen \in S /\ \A q \in S : count[chosen] > count[q] \/ count[chosen] = count[q]
    BY <1>7
  <1> HIDE DEF best, gaps, chosen
  <1>10. \A q \in S : count[q] <= count[chosen]
    BY <1>8, <1>9
  <1> QED BY <1>9, <1>10 DEF chosen

-----------------------------------------------------------------------------
\* The elements have points, of ids contiguous from zero.
Meshed == point \in [Element -> (SUBSET Points) \ {{}}] /\ IsMesh

\* fixPEs() has run through the PEs before next: elements are on these and on those
\* that had one before it started, and on no others, if all PEs exist.
Placed ==
  /\ npe \in Nat \ {0} /\ next \in 0 .. npe
  /\ \/ Element = {} /\ nkind = {} /\ next = 0
     \/ /\ \E n \in Nat : n >= npe /\ Element = 0 .. (n - 1)
        /\ Meshed
        /\ Beyond = {} => /\ pe \in [Element -> 0 .. (npe - 1)]
                          /\ {pe[e] : e \in Element} = nkind \cup 0 .. (next - 1)

\* A chunk holds at least a point.
LEMMA PointChunkIs ==
  ASSUME npe \in Nat \ {0}, Meshed
  PROVE  NPoint \in Nat /\ PointChunk \in Nat \ {0}
  <1>1. NPoint \in Nat
    <2>1. UNION {point[e] : e \in Element} \subseteq Points
      BY DEF Meshed
    <2>2. IsFiniteSet(UNION {point[e] : e \in Element})
      BY <2>1, FS_Subset
    <2> QED BY <2>2, FS_CardinalityType DEF NPoint
  <1>2. PointChunk \in Nat \ {0}
    BY <1>1, DivFacts, DivAtLeast DEF PointChunk
  <1> QED BY <1>1, <1>2

\* A point is on the PE of its chunk, or on the one before.
LEMMA PointPeIs ==
  ASSUME npe \in Nat \ {0}, Meshed, NEW k \in Nat
  PROVE  PointPe(k, PointChunk) \in Nat /\ (PointPe(k, PointChunk) >= npe => (npe + 1) * PointChunk <= k)
  <1> DEFINE c == PointChunk
             d == k \div c
  <1>1. c \in Nat \ {0} /\ k \in Int /\ c * 0 <= k
    BY PointChunkIs
  <1> HIDE DEF c
  <1>2. d \in Int /\ (d >= 0 <=> c * 0 <= k) /\ (d >= npe + 1 <=> c * (npe + 1) <= k)
    <2>1. 0 \in Int /\ npe + 1 \in Int
      OBVIOUS
    <2> QED BY <1>1, <2>1, DivFacts, DivAtLeast
  <1>3. PointPe(k, PointChunk) = IF d = npe THEN npe - 1 ELSE d
    BY DEF PointPe, c
  <1>4. c * (npe + 1) = (npe + 1) * c
    BY <1>1
  <1> HIDE DEF d
  <1>5. PointPe(k, PointChunk) \in Nat /\ (PointPe(k, PointChunk) >= npe => (npe + 1) * c <= k)
    BY <1>1, <1>2, <1>3, <1>4
  <1> QED BY <1>5 DEF c

\* An element is placed on the PE of one of its points.
LEMMA MostOwnedIs ==
  ASSUME npe \in Nat \ {0}, Meshed, NEW e \in Element
  PROVE  \E k \in point[e] : k \in Nat /\ MostOwned(PointChunk)[e] = PointPe(k, PointChunk)
  <1> DEFINE S == {PointPe(k, PointChunk) : k \in point[e]}
             own == [p \in S |-> Cardinality({k \in point[e] : PointPe(k, PointChunk) = p})]
  <1>1. point[e] \subseteq Points /\ point[e] # {} /\ point[e] \subseteq Nat
    BY DEF Meshed
  <1>2. S \subseteq Nat /\ S # {}
    BY <1>1, PointPeIs
  <1>3. IsFiniteSet(point[e]) /\ Cardinality(point[e]) \in Nat
    BY <1>1, FS_Subset, FS_CardinalityType
  <1>4. own \in [S -> 0 .. Cardinality(point[e])]
    <2>1. ASSUME NEW p \in S
          PROVE Cardinality({k \in point[e] : PointPe(k, PointChunk) = p}) \in 0 .. Cardinality(point[e])
      <3>1. {k \in point[e] : PointPe(k, PointChunk) = p} \in SUBSET point[e]
        OBVIOUS
      <3> QED BY <1>3, <3>1, FS_Subset, FS_CardinalityType
    <2> HIDE DEF S
    <2> QED BY <2>1
  <1>5. Most(own) \in S
    <2> HIDE DEF S, own
    <2> QED BY <1>2, <1>3, <1>4, MostIs
  <1>6. MostOwned(PointChunk)[e] = Most(own)
    BY DEF MostOwned
  <1> QED BY <1>1, <1>5, <1>6

\* An element is beyond all PEs only if more points are left over than a chunk has.
LEMMA LeftOver ==
  ASSUME npe \in Nat \ {0}, Meshed, Beyond # {}
  PROVE  NPoint - npe * PointChunk > PointChunk
  <1>1. PICK e \in Element : MostOwned(PointChunk)[e] >= npe
    BY DEF Beyond
  <1>2. PICK k \in point[e] : k \in Nat /\ MostOwned(PointChunk)[e] = PointPe(k, PointChunk)
    BY MostOwnedIs
  <1>3. (npe + 1) * PointChunk <= k
    BY <1>1, <1>2, PointPeIs
  <1>4. k \in UNION {point[d] : d \in Element}
    BY <1>2
  <1>5. NPoint \in Nat /\ PointChunk \in Nat \ {0} /\ k <= NPoint - 1
    <2>1. UNION {point[d] : d \in Element} = 0 .. (NPoint - 1)
      BY DEF Meshed, IsMesh, NPoint
    <2> QED BY <1>2, <1>4, <2>1, PointChunkIs
  <1>6. (npe + 1) * PointChunk = npe * PointChunk + PointChunk /\ npe * PointChunk \in Nat
    BY <1>5
  <1> QED BY <1>2, <1>3, <1>5, <1>6

LEMMA InitPlaced == Init => Placed
  <1> SUFFICES ASSUME Init PROVE Placed
    OBVIOUS
  <1>1. CASE InitLoad
    BY <1>1 DEF InitLoad, Placed, Element
  <1>2. CASE InitMesh
    <2>1. PICK n \in npe .. MaxChare : point \in [0 .. (n - 1) -> (SUBSET Points) \ {{}}]
      BY <1>2 DEF InitMesh
    <2>2. /\ npe \in Nat \ {0} /\ next = 0 /\ pe = MostOwned(PointChunk) /\ nkind = {pe[e] : e \in Element}
          /\ n \in Nat /\ n >= npe
      BY <1>2 DEF InitMesh
    <2>3. Element = 0 .. (n - 1)
      BY <2>1 DEF Element
    <2>4. Meshed
      BY <1>2, <2>1, <2>3 DEF InitMesh, Meshed
    <2>5. ASSUME Beyond = {}, NEW e \in Element PROVE pe[e] \in 0 .. (npe - 1)
      <3>1. MostOwned(PointChunk)[e] \in Nat
        BY <2>2, <2>4, MostOwnedIs, PointPeIs
      <3>2. ~ (MostOwned(PointChunk)[e] >= npe)
        BY <2>5 DEF Beyond
      <3> QED BY <2>2, <3>1, <3>2
    <2>6. Beyond = {} => pe \in [Element -> 0 .. (npe - 1)]
      BY <2>2, <2>5 DEF MostOwned
    <2> QED BY <2>2, <2>3, <2>4, <2>6 DEF Placed
  <1> QED BY <1>1, <1>2 DEF Init

\* There are k numbers below k.
LEMMA Below ==
  ASSUME NEW k \in Nat \ {0}
  PROVE  IsFiniteSet(0 .. (k - 1)) /\ Cardinality(0 .. (k - 1)) = k
  <1>1. 0 \in Int /\ k - 1 \in Int /\ ~ (0 > k - 1) /\ (k - 1) - 0 + 1 = k
    OBVIOUS
  <1> QED BY <1>1, FS_Interval

\* Two are two.
LEMMA TwoIn ==
  ASSUME NEW x, NEW y, x # y
  PROVE  Cardinality({x, y}) = 2
  <1>1. IsFiniteSet({x}) /\ Cardinality({x}) = 1
    BY FS_Singleton
  <1>2. y \notin {x} /\ {x, y} = {x} \cup {y}
    OBVIOUS
  <1> DEFINE one == {x}
  <1> HIDE DEF one
  <1>3. Cardinality(one \cup {y}) = Cardinality(one) + 1
    BY <1>1, <1>2, FS_AddElement DEF one
  <1>4. Cardinality(one) = 1 /\ {x, y} = one \cup {y}
    BY <1>1, <1>2 DEF one
  <1> QED BY <1>3, <1>4

\* The PE that fixPE takes an element from has another.
LEMMA TakenFromTwo ==
  ASSUME npe \in Nat \ {0}, NEW n \in Nat, n >= npe, Element = 0 .. (n - 1),
         pe \in [Element -> 0 .. (npe - 1)], NEW p \in 0 .. (npe - 1), p \notin {pe[e] : e \in Element}
  PROVE  \E first, other \in Element :
            /\ first # other /\ pe[first] = pe[other]
            /\ FixPE(p) => pe' = [pe EXCEPT ![first] = p]
  <1> DEFINE S == {pe[e] : e \in Element}
             count == [q \in S |-> Cardinality(Elements(q))]
             most == Most(count)
             first == CHOOSE e \in Elements(most) : \A d \in Elements(most) : e <= d
  <1>1. IsFiniteSet(Element) /\ Cardinality(Element) = n
    <2>1. n \in Nat \ {0}
      OBVIOUS
    <2> QED BY <2>1, Below
  <1>2. \A q : Elements(q) \subseteq Element /\ IsFiniteSet(Elements(q)) /\ Cardinality(Elements(q)) \in 0 .. n
    BY <1>1, FS_Subset, FS_CardinalityType DEF Elements
  <1>3. S \subseteq Nat /\ S # {} /\ count \in [S -> 0 .. n]
    BY <1>2
  <1>4. most \in S /\ \A q \in S : count[q] <= count[most]
    <2> HIDE DEF S, count
    <2> QED BY <1>3, MostIs
  <1> HIDE DEF most
  <1>5. Elements(most) # {} /\ Elements(most) \subseteq Nat
    <2>1. Element \subseteq Nat
      OBVIOUS
    <2>2. Elements(most) # {}
      BY <1>4 DEF Elements
    <2> QED BY <1>2, <2>1, <2>2
  <1>6. first \in Elements(most)
    BY <1>5, LeastOf
  <1>7. PICK x, y \in Element : x # y /\ pe[x] = pe[y]
    <2> DEFINE T == (0 .. (npe - 1)) \ {p}
    <2>1. IsFiniteSet(T) /\ Cardinality(T) = npe - 1
      <3>1. IsFiniteSet(0 .. (npe - 1)) /\ Cardinality(0 .. (npe - 1)) = npe
        BY Below
      <3>2. IsFiniteSet(T) /\ Cardinality(T) = (IF p \in 0 .. (npe - 1) THEN npe - 1 ELSE npe)
        <4> DEFINE R == 0 .. (npe - 1)
        <4> HIDE DEF R
        <4>1. IsFiniteSet(R \ {p}) /\ Cardinality(R \ {p}) = (IF p \in R THEN Cardinality(R) - 1 ELSE Cardinality(R))
          BY <3>1, FS_RemoveElement DEF R
        <4> QED BY <3>1, <4>1 DEF R
      <3> QED BY <3>2
    <2>2. pe \in [Element -> T]
      OBVIOUS
    <2>3. npe - 1 < n /\ Cardinality(T) < Cardinality(Element)
      BY <1>1, <2>1
    <2> HIDE DEF T
    <2> QED BY <1>1, <2>1, <2>2, <2>3, FS_PigeonHole
  <1>8. Cardinality(Elements(pe[x])) >= 2
    <2>1. {x, y} \in SUBSET Elements(pe[x])
      BY <1>7 DEF Elements
    <2>2. Cardinality({x, y}) = 2
      BY <1>7, TwoIn
    <2> QED BY <1>2, <2>1, <2>2, FS_Subset
  <1>9. Cardinality(Elements(most)) >= 2
    <2>1. pe[x] \in S /\ count[pe[x]] = Cardinality(Elements(pe[x])) /\ count[most] = Cardinality(Elements(most))
      BY <1>4, <1>7
    <2> HIDE DEF S, count
    <2> QED BY <1>2, <1>4, <1>8, <2>1
  <1>10. PICK other \in Elements(most) : other # first
    <2> HIDE DEF first
    <2>1. ASSUME Elements(most) = {first} PROVE FALSE
      <3>1. Cardinality({first}) = 1
        BY FS_Singleton
      <3> QED BY <1>9, <2>1, <3>1
    <2> QED BY <1>6, <2>1
  <1>11. first \in Element /\ other \in Element /\ pe[first] = pe[other]
    BY <1>6, <1>10 DEF Elements
  <1>12. FixPE(p) => pe' = [pe EXCEPT ![first] = p]
    BY DEF FixPE, most
  <1> HIDE DEF first
  <1> QED BY <1>10, <1>11, <1>12

\* The constructor places elements by points and PEs only.
LEMMA SameMesh ==
  ASSUME npe' = npe, point' = point
  PROVE  Element' = Element /\ (Meshed' <=> Meshed) /\ Beyond' = Beyond
  <1>1. Element' = Element
    BY DEF Element
  <1>2. NPoint' = NPoint /\ (Meshed' <=> Meshed)
    BY <1>1 DEF NPoint, Meshed, IsMesh
  <1>3. PointChunk' = PointChunk
    BY <1>2 DEF PointChunk
  <1>4. \A k : PointPe(k, PointChunk)' = PointPe(k, PointChunk)
    BY <1>3 DEF PointPe
  <1>5. MostOwned(PointChunk)' = MostOwned(PointChunk)
    BY <1>1, <1>4, Zenon DEF MostOwned
  <1>6. Beyond' = Beyond
    BY <1>1, <1>5 DEF Beyond
  <1> QED BY <1>1, <1>2, <1>6

LEMMA NextPlaced == Placed /\ [FixPEs]_vars => Placed'
  <1> SUFFICES ASSUME Placed, [FixPEs]_vars PROVE Placed'
    OBVIOUS
  <1>1. CASE UNCHANGED vars
    <2>1. UNCHANGED <<npe, point, pe, nkind, next>>
      BY <1>1 DEF vars
    <2>2. Element' = Element /\ (Meshed' <=> Meshed) /\ Beyond' = Beyond
      BY <2>1, SameMesh
    <2> QED BY <2>1, <2>2 DEF Placed
  <1>2. CASE FixPEs
    <2>1. Element # {} /\ next < npe /\ next' = next + 1 /\ npe' = npe /\ point' = point /\ nkind' = nkind
      BY <1>2 DEF FixPEs
    <2>2. npe \in Nat \ {0} /\ next \in 0 .. npe
      BY DEF Placed
    <2>3. PICK n \in Nat : n >= npe /\ Element = 0 .. (n - 1)
      BY <2>1 DEF Placed
    <2>4. Element' = Element /\ Meshed' /\ Beyond' = Beyond
      <3>1. Meshed
        BY <2>1 DEF Placed
      <3> QED BY <2>1, <3>1, SameMesh
    <2> DEFINE S == {pe[e] : e \in Element}
    <2>5. ASSUME Beyond = {}
          PROVE  pe' \in [Element -> 0 .. (npe - 1)] /\ {pe'[e] : e \in Element} = S \cup {next}
      <3>1. pe \in [Element -> 0 .. (npe - 1)] /\ S = nkind \cup 0 .. (next - 1)
        BY <2>1, <2>5 DEF Placed
      <3>2. next \in 0 .. (npe - 1)
        BY <2>1, <2>2
      <3>3. CASE next \in nkind
        BY <1>2, <3>1, <3>3 DEF FixPEs
      <3>4. CASE next \notin nkind
        <4>1. FixPE(next)
          BY <1>2, <3>4 DEF FixPEs
        <4>2. next \notin S
          BY <2>2, <3>1, <3>4
        <4>3. PICK first, other \in Element :
                 first # other /\ pe[first] = pe[other] /\ pe' = [pe EXCEPT ![first] = next]
          BY <2>2, <2>3, <3>1, <3>2, <4>1, <4>2, TakenFromTwo
        <4>4. pe' \in [Element -> 0 .. (npe - 1)]
          BY <3>1, <3>2, <4>3
        <4>5. pe'[first] = next /\ \A e \in Element \ {first} : pe'[e] = pe[e]
          BY <3>1, <4>3
        <4>6. {pe'[e] : e \in Element} \subseteq S \cup {next}
          BY <4>5
        <4>7. ASSUME NEW e \in Element PROVE pe[e] \in {pe'[d] : d \in Element}
          <5>1. CASE e # first
            BY <4>5, <5>1
          <5>2. CASE e = first
            BY <4>3, <4>5, <5>2
          <5> QED BY <5>1, <5>2
        <4>8. next \in {pe'[d] : d \in Element}
          BY <4>5
        <4> QED BY <4>4, <4>6, <4>7, <4>8
      <3> QED BY <3>3, <3>4
    <2>6. Beyond = {} => {pe'[e] : e \in Element} = nkind \cup 0 .. next
      <3> SUFFICES ASSUME Beyond = {} PROVE {pe'[e] : e \in Element} = nkind \cup 0 .. next
        OBVIOUS
      <3>1. S = nkind \cup 0 .. (next - 1)
        BY <2>1 DEF Placed
      <3>2. (0 .. (next - 1)) \cup {next} = 0 .. next
        BY <2>2
      <3> HIDE DEF S
      <3> QED BY <2>5, <3>1, <3>2
    <2>7. next' \in 0 .. npe /\ next' - 1 = next
      BY <2>1, <2>2
    <2>8. Element' = Element /\ npe' = npe /\ nkind' = nkind
      BY <2>1, <2>4
    <2>9. (Beyond = {})' => pe' \in [Element' -> 0 .. (npe' - 1)] /\ {pe'[e] : e \in Element'} = nkind' \cup 0 .. (next' - 1)
      BY <2>4, <2>5, <2>6, <2>7, <2>8
    <2> QED BY <2>2, <2>3, <2>4, <2>7, <2>8, <2>9 DEF Placed
  <1> QED BY <1>1, <1>2

\* Every PE has an element after fixPEs(), for every mesh of which no element was placed
\* on a PE that does not exist; and such an element there is only if more points are left
\* over than a chunk has (UnsMeshMap::UnsMeshMap, fixPEs).
THEOREM EveryPeServed == Spec => []EveryPeHasElement
  <1>1. ASSUME Placed, Fixed, Beyond = {}, NEW p \in 0 .. (npe - 1)
        PROVE  \E e \in Element : pe[e] = p
    <2>1. npe \in Nat \ {0} /\ next \in 0 .. npe
      BY <1>1 DEF Placed
    <2>2. CASE Element = {}
      <3>1. nkind = {} /\ next = 0
        BY <1>1, <2>1, <2>2 DEF Placed
      <3> QED BY <1>1, <2>1, <3>1, FS_EmptySet DEF Fixed
    <2>3. CASE Element # {}
      <3>1. pe \in [Element -> 0 .. (npe - 1)] /\ {pe[e] : e \in Element} = nkind \cup 0 .. (next - 1)
        BY <1>1, <2>3 DEF Placed
      <3>2. nkind \subseteq 0 .. (npe - 1)
        BY <3>1
      <3>3. CASE next = npe
        BY <3>1, <3>3
      <3>4. CASE Cardinality(nkind) = npe
        <4>1. IsFiniteSet(0 .. (npe - 1)) /\ Cardinality(0 .. (npe - 1)) = npe
          BY <2>1, Below
        <4>2. nkind = 0 .. (npe - 1)
          BY <3>2, <3>4, <4>1, FS_Subset
        <4> QED BY <3>1, <4>2
      <3> QED BY <1>1, <3>3, <3>4 DEF Fixed
    <2> QED BY <2>2, <2>3
  <1>2. ASSUME Placed, Beyond # {} PROVE NPoint - npe * PointChunk > PointChunk
    <2>1. npe \in Nat \ {0} /\ Element # {}
      BY <1>2 DEF Placed, Beyond
    <2>2. Meshed
      BY <1>2, <2>1 DEF Placed
    <2> QED BY <1>2, <2>1, <2>2, LeftOver
  <1>3. Placed => EveryPeHasElement
    BY <1>1, <1>2 DEF EveryPeHasElement
  <1> QED BY <1>3, InitPlaced, NextPlaced, PTL DEF Spec
=============================================================================
