---------------------------- MODULE DerivedData ----------------------------
(***************************************************************************)
(* The data structures derived from the connectivity of a mesh:            *)
(* src/Mesh/DerivedData.C, Around.h, and FaceData of src/Inciter.          *)
(*                                                                         *)
(* Elements have nnpe nodes (4: tetrahedra, 3: triangles).  inpoel lists   *)
(* the nodes of all elements, one element after the other.  A vector is a  *)
(* function on 0 .. n-1, as its indices are used as ids.  A linked list is *)
(* the code's pair of vectors: the items of entry p are those of "first"   *)
(* at second[p]+1 .. second[p+1].  Sides of a list of nodes are triples.   *)
(***************************************************************************)
EXTENDS Integers, FiniteSets, SequencesExt

Ids(n) == 0 .. (n - 1)

\* npoin_in_graph(), and the number of elements.
NPoin(inpoel) == Max({inpoel[i] : i \in DOMAIN inpoel}) + 1
NElem(inpoel, nnpe) == Cardinality(DOMAIN inpoel) \div nnpe
Nodes(inpoel, nnpe, e) == {inpoel[e * nnpe + n] : n \in Ids(nnpe)}

\* tk::Around: the items of entry p, in order.
Around(list, p) ==
  [i \in 1 .. (list.second[p + 1] - list.second[p]) |-> list.first[list.second[p] + i]]

\* Items of each row as a linked list; the code puts a zero first.
Linked(rows) ==
  LET flat == FlattenSeq(rows)
  IN  [first |-> [j \in 0 .. Len(flat) |-> IF j = 0 THEN 0 ELSE flat[j]],
       second |-> [k \in 0 .. Len(rows) |-> Len(FlattenSeq(SubSeq(rows, 1, k)))]]

Ascending(S) ==
  [i \in 1 .. Cardinality(S) |-> CHOOSE x \in S : Cardinality({y \in S : y < x}) = i - 1]

-----------------------------------------------------------------------------
\* Mutant of GenEsup: the second reshuffling pass is forgotten.
GenEsupShifted(inpoel, nnpe) ==
  LET npoin == NPoin(inpoel)
      start == [p \in 0 .. npoin |-> Cardinality({i \in DOMAIN inpoel : inpoel[i] < p})]
      Store(s, i) ==
        LET j == s.second[inpoel[i]] + 1
        IN  [first |-> [s.first EXCEPT ![j] = i \div nnpe],
             second |-> [s.second EXCEPT ![inpoel[i]] = j]]
  IN  FoldLeft(Store, [first |-> [j \in 0 .. start[npoin] |-> 0], second |-> start],
               Ascending(DOMAIN inpoel))

\* genEsup: elements surrounding points.  second counts the elements of the points
\* before, each element is stored after the last of its point, which moves the index
\* to where the next point starts; the second pass shifts the indices back.
GenEsup(inpoel, nnpe) ==
  LET npoin == NPoin(inpoel)
      start == [p \in 0 .. npoin |-> Cardinality({i \in DOMAIN inpoel : inpoel[i] < p})]
      Store(s, i) ==
        LET j == s.second[inpoel[i]] + 1
        IN  [first |-> [s.first EXCEPT ![j] = i \div nnpe],
             second |-> [s.second EXCEPT ![inpoel[i]] = j]]
      stored == FoldLeft(Store, [first |-> [j \in 0 .. start[npoin] |-> 0], second |-> start],
                         Ascending(DOMAIN inpoel))
  IN  [first |-> stored.first,
       second |-> [p \in 0 .. npoin |-> IF p = 0 THEN 0 ELSE stored.second[p - 1]]]

\* Points that share an element with point p, in the order the code meets them;
\* lpoin lets each count once.
Met(inpoel, nnpe, esup, p) ==
  LET Meet(met, q) == IF q = p \/ Contains(met, q) THEN met ELSE Append(met, q)
      OfElement(e) == [n \in 1 .. nnpe |-> inpoel[e * nnpe + n - 1]]
      around == Around(esup, p)
  IN  FoldLeft(Meet, <<>>, FlattenSeq([i \in DOMAIN around |-> OfElement(around[i])]))

\* genPsup: points surrounding points.
GenPsup(inpoel, nnpe, esup) ==
  Linked([k \in 1 .. NPoin(inpoel) |-> Ascending(ToSet(Met(inpoel, nnpe, esup, k - 1)))])

\* The star of p: the points greater than p connected to it.
Star(inpoel, nnpe, esup, p) ==
  Ascending({q \in ToSet(Met(inpoel, nnpe, esup, p)) : p < q})

IsRow(row) == row # <<>>

\* genEdsup: edges surrounding points.  The stars are a map without entries for
\* points that have none; the indices are filled up at the end.
GenEdsup(inpoel, nnpe, esup) ==
  LET npoin == NPoin(inpoel)
      star == SelectSeq([k \in 1 .. npoin |-> Star(inpoel, nnpe, esup, k - 1)], IsRow)
  IN  Linked(star \o [i \in 1 .. (npoin - Len(star)) |-> <<>>])

\* genInpoed: the edges, each as a pair of points.
GenInpoed(inpoel, nnpe, esup) ==
  FlattenSeq([k \in 1 .. NPoin(inpoel) |->
    LET star == Star(inpoel, nnpe, esup, k - 1)
    IN  [i \in DOMAIN star |-> <<k - 1, star[i]>>]])

\* genInedel: the edges of element e, as positions in inpoed counted from zero.
\* The indices of the edges of a point are generated again, as in genEdsup().
GenInedel(inpoel, nnpe, esup, inpoed, e) ==
  LET edsup2 == GenEdsup(inpoel, nnpe, esup).second
      Of(p) == Ascending({i \in edsup2[p] .. (edsup2[p + 1] - 1) :
                            inpoed[i + 1][2] \in Nodes(inpoel, nnpe, e)})
  IN  FlattenSeq([n \in 1 .. nnpe |-> Of(inpoel[e * nnpe + n - 1])])

\* genEsued: elements surrounding edges, edges in the order the code meets them.
GenEsued(inpoel, nnpe, esup) ==
  Linked(FlattenSeq([k \in 1 .. NPoin(inpoel) |->
    LET p == k - 1
        Greater(q) == p < q
        spikes == SelectSeq(Met(inpoel, nnpe, esup, p), Greater)
        Has(q) == {e \in ToSet(Around(esup, p)) : {p, q} \subseteq Nodes(inpoel, nnpe, e)}
    IN  [i \in DOMAIN spikes |-> Ascending(Has(spikes[i]))]]))

\* genEsupel: elements surrounding the points of elements.
GenEsupel(inpoel, nnpe, esup) ==
  Linked([k \in 1 .. NElem(inpoel, nnpe) |->
    Ascending(UNION {ToSet(Around(esup, p)) : p \in Nodes(inpoel, nnpe, k - 1)} \ {k - 1})])

\* genEsuel: elements that share all nodes but one with an element.  The map they are
\* stored in has no entries for elements without any.
GenEsuel(inpoel, nnpe, esup) ==
  LET Adj(e) ==
        {d \in UNION {ToSet(Around(esup, p)) : p \in Nodes(inpoel, nnpe, e)} :
           Cardinality(Nodes(inpoel, nnpe, d) \cap Nodes(inpoel, nnpe, e)) = nnpe - 1}
  IN  Linked(SelectSeq([k \in 1 .. NElem(inpoel, nnpe) |-> Ascending(Adj(k - 1))], IsRow))

-----------------------------------------------------------------------------
\* The nodes of the faces of a tetrahedron, in the order that gives the normal.
lpofa == <<<<1, 2, 3>>, <<2, 0, 3>>, <<3, 0, 1>>, <<0, 2, 1>>>>

\* Face f of all: face f % 4 of element f \div 4.
FaceOf(inpoel, f) ==
  [i \in 1 .. 3 |-> inpoel[4 * (f \div 4) + lpofa[1 + (f % 4)][i]]]

\* Mutant of Opposite: marks of the face before are not reset, here those of the same
\* element.
OppositeMarked(inpoel, esup, f) ==
  LET e == f \div 4
      marked == UNION {ToSet(FaceOf(inpoel, g)) : g \in (4 * e) .. f}
  IN  {g \in UNION {(4 * d) .. (4 * d + 3) : d \in ToSet(Around(esup, FaceOf(inpoel, f)[1])) \ {e}} :
         ToSet(FaceOf(inpoel, g)) \subseteq marked}

\* The faces of other elements around the first point of face f that have its nodes.
Opposite(inpoel, esup, f) ==
  LET e == f \div 4
      around == ToSet(Around(esup, FaceOf(inpoel, f)[1])) \ {e}
  IN  {g \in UNION {(4 * d) .. (4 * d + 3) : d \in around} :
         ToSet(FaceOf(inpoel, g)) = ToSet(FaceOf(inpoel, f))}

\* genEsuelTet: the element behind each face of each tetrahedron, or -1.  The code
\* stores both sides whenever it finds a pair of faces.
GenEsuelTet(inpoel, esup) ==
  LET nface == Cardinality(DOMAIN inpoel)
      Store(esuel, f) ==
        LET other == Opposite(inpoel, esup, f)
        IN  [g \in DOMAIN esuel |->
               IF g = f /\ other # {} THEN Max(other) \div 4
               ELSE IF g \in other THEN f \div 4 ELSE esuel[g]]
  IN  FoldLeft(Store, [f \in Ids(nface) |-> -1], Ascending(Ids(nface)))

\* The faces between two elements, from the side of the one with the lower id.
Interior(esuel) == Ascending({f \in DOMAIN esuel : esuel[f] # -1 /\ f \div 4 < esuel[f]})

\* genNipfac: the number of interior and physical boundary faces.
GenNipfac(nbfac, esuel) == nbfac + Len(Interior(esuel))

\* genInpofaTet: the nodes of boundary and then of interior faces.
GenInpofaTet(inpoel, tri, esuel) ==
  LET inner == Interior(esuel)
  IN  [f \in Ids(GenNipfac(Len(tri), esuel)) |->
         IF f < Len(tri) THEN tri[f + 1] ELSE FaceOf(inpoel, inner[f - Len(tri) + 1])]

\* genBelemTet: the element a boundary face belongs to: the first of the elements
\* around its nodes that is around all three, or 0.
GenBelemTet(tri, esup) ==
  [f \in Ids(Len(tri)) |->
     LET host == {e \in ToSet(Around(esup, tri[f + 1][1])) :
                    \A i \in 2 .. 3 : Contains(Around(esup, tri[f + 1][i]), e)}
     IN  IF host = {} THEN 0 ELSE Min(host)]

\* genEsuf: the elements left and right of boundary and then of interior faces.
GenEsuf(nipfac, belem, esuel) ==
  LET nbfac == Cardinality(DOMAIN belem)
      inner == Interior(esuel)
  IN  [f \in Ids(nipfac) |->
         IF f < nbfac THEN <<belem[f], -1>>
         ELSE LET g == inner[f - nbfac + 1] IN <<g \div 4, esuel[g]>>]

\* FaceData::FaceData: the faces of a chare, with the boundary faces tri.
FaceData(inpoel, tri, esup, esuel) ==
  [inpofa |-> GenInpofaTet(inpoel, tri, esuel),
   esuf |-> GenEsuf(GenNipfac(Len(tri), esuel), GenBelemTet(tri, esup), esuel)]
=============================================================================
