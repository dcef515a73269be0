------------------------- MODULE MCSequentialParts -------------------------
(* Instances of LoadBalance and MeshFactory for TLC. *)
EXTENDS SequentialParts, SequencesExt

FivePoints == 0 .. 4

\* Tetrahedra of six points, with the nodes ascending or turned.
Corners == {<<a, b, c, d>> \in (0 .. 5) \X (0 .. 5) \X (0 .. 5) \X (0 .. 5) : a < b /\ b < c /\ c < d}
Turned(t) == <<t[3], t[1], t[2], t[4]>>

\* Elements one after the other, from zero.
Inpoel(elems) == LET flat == FlattenSeq(elems) IN [i \in 0 .. (Len(flat) - 1) |-> flat[i + 1]]

Sides(t) == {{t[1], t[2], t[3]}, {t[1], t[2], t[4]}, {t[1], t[3], t[4]}, {t[2], t[3], t[4]}}

\* At most two elements share a side, all ids up to the largest are used.
IsTetMesh(elems) ==
  /\ IsInjective([i \in DOMAIN elems |-> ToSet(elems[i])])
  /\ \A s \in UNION {Sides(elems[i]) : i \in DOMAIN elems} :
       Cardinality({i \in DOMAIN elems : s \in Sides(elems[i])}) <= 2
  /\ LET ids == UNION {ToSet(elems[i]) : i \in DOMAIN elems} IN ids = 0 .. (Cardinality(ids) - 1)

Few ==
  {e \in {<<a>> : a \in Corners} \cup {<<a, Turned(b)>> : a, b \in Corners}
         \cup {<<a, Turned(b), c>> : a \in {a \in Corners : a[1] = 0}, b, c \in Corners} : IsTetMesh(e)}

\* Two elements without a common node, and a ring of four around an edge.
Apart == {<<<<0, 1, 2, 3>>, <<4, 5, 6, 7>>>>}
Ring == {<<<<0, 1, 2, 3>>, <<0, 1, 3, 4>>, <<0, 1, 4, 5>>, <<0, 1, 5, 2>>>>}

\* Most files have no triangles, one has some of the outer faces.
FaceMeshes == {[tets |-> Inpoel(e), tris |-> <<>>] : e \in Few \cup Apart \cup Ring}
              \cup {[tets |-> Inpoel(e), tris |-> <<<<5, 1, 0>>, <<2, 3, 0>>>>] : e \in Ring}
\* Surfaces only.
Surfaces == {[tets |-> <<>>, tris |-> <<<<0, 1, 2>>, <<2, 1, 3>>, <<3, 1, 4>>>>],
             [tets |-> <<>>, tris |-> <<<<1, 3, 2>>, <<0, 3, 1>>>>]}

MeshFiles == FaceMeshes \cup Surfaces
=============================================================================
