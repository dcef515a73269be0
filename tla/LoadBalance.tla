----------------------------- MODULE LoadBalance -----------------------------
(***************************************************************************)
(* How work is spread over processing elements (PEs): the number and size  *)
(* of work units (src/Base/LoadDistributor.C) and the array maps that      *)
(* place chares (src/LoadBalance/LinearMap.C, UnsMeshMap.C).  Functions of *)
(* their arguments: a state is a choice of these.  Real numbers are exact  *)
(* here; virtualization is a fraction with denominator Denom.              *)
(***************************************************************************)
EXTENDS Integers, FiniteSets

CONSTANTS
  MaxLoad,    \* largest load
  MaxPe,      \* largest number of PEs
  Denom,      \* steps of the degree of virtualization between 0 and 1
  Points,     \* points of meshes
  MaxChare    \* largest number of chares with points

ASSUME LoadBalanceAssumption ==
  /\ MaxLoad \in Nat /\ MaxPe \in Nat \ {0} /\ Denom \in Nat \ {0} /\ MaxChare \in Nat
  /\ Points \subseteq Nat /\ IsFiniteSet(Points)

VARIABLES
  npe,        \* CkNumPes()
  load,       \* particles, cells or array elements
  virt,       \* degree of virtualization, times Denom
  point,      \* points of each array element of UnsMeshMap
  pe,         \* m_pe: the PE each element is placed on
  nkind,      \* PEs with elements when UnsMeshMap::fixPEs starts
  next        \* the next PE it looks at

vars == <<npe, load, virt, point, pe, nkind, next>>

-----------------------------------------------------------------------------
\* Mutant of FirstChunk: rounded up.
FirstChunkUp == ((npe - load) * virt + load * Denom + npe * Denom - 1) \div (npe * Denom)

\* linearLoadDistributor: the unit size from the linear formula (1-n)*v + n,
\* n = load/npe, rounded down.
FirstChunk == ((npe - load) * virt + load * Denom) \div (npe * Denom)

\* The number of work units.
Units == load \div FirstChunk

\* The unit size after redistributing what is left over.
Chunk == FirstChunk + (load - Units * FirstChunk) \div Units

\* What is left over then.
Left == load - Units * Chunk

-----------------------------------------------------------------------------
\* LinearMap: array elements per PE.
ChunkSize == IF load > npe THEN load \div npe ELSE 1

\* LinearMap::procNum
ProcNum(e) == IF e \div ChunkSize >= npe THEN npe - 1 ELSE e \div ChunkSize

\* Mutant of Created: the elements left over are not created.
CreatedNoRemainder(p) ==
  {e \in 0 .. (load - 1) : p * ChunkSize <= e /\ e < p * ChunkSize + ChunkSize}

\* LinearMap::populateInitial: array elements that PE p creates.
Created(p) ==
  LET lower == p * ChunkSize
      upper == lower + ChunkSize + (IF p = npe - 1 THEN load % npe ELSE 0)
  IN  {e \in 0 .. (load - 1) : lower <= e /\ e < upper}

-----------------------------------------------------------------------------
\* UnsMeshMap: array elements, and points per PE.
Element == DOMAIN point
NPoint == Cardinality(UNION {point[e] : e \in Element})
PointChunk == IF NPoint > npe THEN NPoint \div npe ELSE 1

\* The PE point p belongs to, as the constructor has it, with chunk points to each.
PointPe(p, chunk) == IF p \div chunk = npe THEN npe - 1 ELSE p \div chunk

\* The first PE with the most points, or elements, by count.
Most(count) ==
  CHOOSE p \in DOMAIN count : \A q \in DOMAIN count : count[p] > count[q] \/ (count[p] = count[q] /\ p <= q)

\* The PE each element has the most points on.
MostOwned(chunk) ==
  [e \in Element |->
     Most([p \in {PointPe(n, chunk) : n \in point[e]} |->
             Cardinality({n \in point[e] : PointPe(n, chunk) = p})])]

\* Mutant of FixPE: take the first element of all.
FixPEFirst(p) == pe' = [pe EXCEPT ![0] = p]

\* PE p gets the first element of the PE with the most.
Elements(q) == {e \in Element : pe[e] = q}
FixPE(p) ==
  LET most == Most([q \in {pe[e] : e \in Element} |-> Cardinality(Elements(q))])
      first == CHOOSE e \in Elements(most) : \A d \in Elements(most) : e <= d
  IN  pe' = [pe EXCEPT ![first] = p]

\* UnsMeshMap::fixPEs, one PE after the other, unless elements are on as many PEs
\* as there are.
FixPEs ==
  /\ Element # {} /\ next < npe /\ Cardinality(nkind) # npe
  /\ next' = next + 1
  /\ IF next \in nkind THEN UNCHANGED pe ELSE FixPE(next)
  /\ UNCHANGED <<npe, load, virt, point, nkind>>

Fixed == next = npe \/ Cardinality(nkind) = npe

-----------------------------------------------------------------------------
\* A mesh as used: every element has points and ids are contiguous from zero.
IsMesh == LET all == UNION {point[e] : e \in Element} IN all = 0 .. (Cardinality(all) - 1)

InitLoad ==
  /\ npe \in 1 .. MaxPe /\ load \in 1 .. MaxLoad /\ virt \in 0 .. Denom
  /\ point = <<>> /\ pe = <<>> /\ nkind = {} /\ next = 0

\* UnsMeshMap asserts that there are no fewer elements than PEs.
InitMesh ==
  /\ npe \in 1 .. MaxPe /\ load = 0 /\ virt = 0
  /\ \E n \in npe .. MaxChare : point \in [0 .. (n - 1) -> (SUBSET Points) \ {{}}]
  /\ IsMesh
  /\ \E chunk \in {PointChunk} : pe = MostOwned(chunk)
  /\ nkind = {pe[e] : e \in Element}
  /\ next = 0

Init == InitLoad \/ InitMesh
Spec == Init /\ [][FixPEs]_vars

\* linearLoadDistributor divides by zero exactly when there is less work than PEs and
\* virtualization is below one.  Otherwise no work is lost, what is left over is less
\* than one more for each unit, and there is a unit for each PE, which the Collector
\* branches of walker and the map of UnsMeshMap rely on, if there is work for each.
LoadDistributed ==
  load > 0 =>
    /\ FirstChunk = 0 <=> load < npe /\ virt < Denom
    /\ FirstChunk # 0 => /\ Units * Chunk + Left = load /\ 0 <= Left /\ Left < Units
                         /\ load >= npe => Units >= npe

\* Each array element is created on one PE, the one that procNum() later sends its
\* messages to.
CreatedAtHome == \A e \in 0 .. (load - 1) : \A p \in 0 .. (npe - 1) : e \in Created(p) <=> ProcNum(e) = p

\* Elements the constructor places on a PE that does not exist.
Beyond == LET most == MostOwned(PointChunk) IN {e \in Element : most[e] >= npe}

\* Every PE has an element after fixPEs, even if all points lie in the range of one,
\* unless the constructor has placed an element on a PE that does not exist (procNum
\* asserts that it has not).  It does so only if more points are left over, beyond the
\* chunks of all PEs, than a chunk has.
EveryPeHasElement ==
  /\ Fixed => \/ \A p \in 0 .. (npe - 1) : \E e \in Element : pe[e] = p
              \/ Beyond # {}
  /\ Beyond # {} => NPoint - npe * PointChunk > PointChunk
=============================================================================
