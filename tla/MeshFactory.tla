---------------------------- MODULE MeshFactory ----------------------------
(***************************************************************************)
(* How meshconv writes a mesh: tk::writeUnsMesh of src/IO/MeshFactory.C    *)
(* with the reordering of src/Mesh/Reorder.C, called by                    *)
(* src/Main/MeshConvDriver.C.  The missing surface is generated, nodes are *)
(* renumbered from one front of points to the next, the mesh is written.   *)
(*                                                                         *)
(* A program that reads the mesh again derives its linked lists and faces. *)
(*                                                                         *)
(* The coordinates of a node are represented by the id it was read with.   *)
(***************************************************************************)
EXTENDS DerivedData

CONSTANT
  Meshes    \* meshes to read: records with their tetrahedra and triangles, as inpoel

VARIABLES
  stage,    \* "read", "renumber", "write", "written", "esup", "esuel", "derived"
  file,     \* the mesh as it was read
  inpoel,   \* mesh.tetinpoel()
  tri,      \* mesh.triinpoel(), as triples
  x,        \* coordinates of each node
  map,      \* new id of each node
  counted,  \* lpoin: nodes that have got a new id
  hpoin,    \* the front: nodes that got their ids last, in order
  num,      \* the next new id
  esup,     \* elements surrounding points
  psup,     \* points surrounding points
  esuel,    \* elements surrounding elements, of tetrahedra
  derived   \* the other linked lists, and the faces

newIds == <<map, counted, hpoin, num>>
lists == <<esup, psup, esuel, derived>>
meshVars == <<stage, file, inpoel, tri, x, newIds, lists>>

\* The elements the nodes are numbered by: tetrahedra if there are any.
nnpe == IF inpoel # <<>> THEN 4 ELSE 3
Graph ==
  IF inpoel # <<>> THEN inpoel ELSE [i \in Ids(3 * Len(tri)) |-> tri[1 + (i \div 3)][1 + (i % 3)]]

\* A mesh that was read.  What is derived from it is so where it is needed, but the
\* elements surrounding points, which all uses share.
MeshInit ==
  /\ stage = "read"
  /\ file \in Meshes
  /\ inpoel = file.tets /\ tri = file.tris
  /\ x = [p \in Ids(NPoin(Graph)) |-> p]
  /\ map = <<>> /\ counted = {} /\ hpoin = <<>> /\ num = 0
  /\ esup = GenEsup(Graph, nnpe) /\ psup = <<>> /\ esuel = <<>> /\ derived = <<>>

\* No mesh.
NoMesh ==
  /\ stage = "none" /\ file = <<>> /\ inpoel = <<>> /\ tri = <<>> /\ x = <<>>
  /\ map = <<>> /\ counted = {} /\ hpoin = <<>> /\ num = 0
  /\ esup = <<>> /\ psup = <<>> /\ esuel = <<>> /\ derived = <<>>

-----------------------------------------------------------------------------
\* The faces nothing is behind.
OuterIds(behind) == {f \in DOMAIN behind : behind[f] = -1}

\* The surface, generated if the file had tetrahedra but no triangles.
Surface ==
  LET outer == Ascending(OuterIds(GenEsuelTet(inpoel, esup)))
  IN  [i \in DOMAIN outer |-> FaceOf(inpoel, outer[i])]

\* writeUnsMesh: the surface, and whether to reorder; renumber() starts with node 0.
Read ==
  /\ stage = "read"
  /\ tri' = IF inpoel # <<>> /\ tri = <<>> THEN Surface ELSE tri
  /\ \/ stage' = "write" /\ UNCHANGED <<newIds, psup>>
     \/ /\ stage' = "renumber"
        /\ psup' = GenPsup(Graph, nnpe, esup)
        /\ map' = [p \in DOMAIN x |-> 0]
        /\ counted' = {0} /\ hpoin' = <<0>> /\ num' = 1
  /\ UNCHANGED <<file, inpoel, x, esup, esuel, derived>>

\* The next front: points around those of this one not counted yet, in order.
NextFront ==
  LET Meet(front, q) == IF q \in counted \/ Contains(front, q) THEN front ELSE Append(front, q)
  IN  FoldLeft(Meet, <<>>, FlattenSeq([i \in DOMAIN hpoin |-> Around(psup, hpoin[i])]))

\* The id of a point of the front.
Numbered(front, q) == num - 1 + (CHOOSE i \in DOMAIN front : front[i] = q)

\* renumber: one front.  Nothing changes once a front is empty: the loop does not end.
Renumber ==
  /\ stage = "renumber" /\ num < Cardinality(DOMAIN x)
  /\ LET front == NextFront
     IN  /\ hpoin' = front
         /\ num' = num + Len(front)
         /\ counted' = counted \cup ToSet(front)
         /\ map' = [q \in DOMAIN map |-> IF Contains(front, q) THEN Numbered(front, q) ELSE map[q]]
  /\ UNCHANGED <<stage, file, inpoel, tri, x, lists>>

\* Mutant of Moved: as if map were from new to old ids.
MovedBack(r) == [p \in DOMAIN r |-> r[map[p]]]

\* remap of a vector of coordinates.
Moved(r) == [p \in DOMAIN r |-> r[CHOOSE q \in DOMAIN map : map[q] = p]]

\* remap of elements, triangles and coordinates.
Remap ==
  /\ stage = "renumber" /\ num >= Cardinality(DOMAIN x)
  /\ stage' = "write"
  /\ inpoel' = [i \in DOMAIN inpoel |-> map[inpoel[i]]]
  /\ tri' = [t \in DOMAIN tri |-> [i \in 1 .. 3 |-> map[tri[t][i]]]]
  /\ x' = Moved(x)
  /\ UNCHANGED <<file, newIds, lists>>

Write ==
  /\ stage = "write" /\ stage' = "written"
  /\ UNCHANGED <<file, inpoel, tri, x, newIds, lists>>

\* Whoever reads the mesh derives elements surrounding points, then elements
\* surrounding elements, then the rest.
DeriveEsup ==
  /\ stage = "written" /\ stage' = "esup"
  /\ esup' = GenEsup(Graph, nnpe)
  /\ UNCHANGED <<file, inpoel, tri, x, newIds, psup, esuel, derived>>

DeriveEsuel ==
  /\ stage = "esup" /\ stage' = "esuel"
  /\ esuel' = IF nnpe = 4 THEN GenEsuelTet(inpoel, esup) ELSE <<>>
  /\ psup' = GenPsup(Graph, nnpe, esup)
  /\ UNCHANGED <<file, inpoel, tri, x, newIds, esup, derived>>

Derive ==
  /\ stage = "esuel" /\ stage' = "derived"
  /\ LET inpoed == GenInpoed(Graph, nnpe, esup)
     IN  derived' =
           [esupel |-> GenEsupel(Graph, nnpe, esup), esuel |-> GenEsuel(Graph, nnpe, esup),
            inpoed |-> inpoed, edsup |-> GenEdsup(Graph, nnpe, esup),
            esued |-> GenEsued(Graph, nnpe, esup),
            inedel |-> [e \in Ids(NElem(Graph, nnpe)) |-> GenInedel(Graph, nnpe, esup, inpoed, e)],
            faces |-> IF nnpe = 4 THEN FaceData(inpoel, tri, esup, esuel) ELSE <<>>]
  /\ UNCHANGED <<file, inpoel, tri, x, newIds, esup, psup, esuel>>

MeshNext == Read \/ Renumber \/ Remap \/ Write \/ DeriveEsup \/ DeriveEsuel \/ Derive

-----------------------------------------------------------------------------
Elems == Ids(NElem(Graph, nnpe))
Has(e) == Nodes(Graph, nnpe, e)

\* No subset of the nodes is without elements that lead out of it.
Connected ==
  \A S \in SUBSET DOMAIN x :
    S \in {{}, DOMAIN x} \/ \E e \in Elems : Has(e) \cap S # {} /\ ~ Has(e) \subseteq S

\* The faces that belong to one tetrahedron, with the order of their nodes.
OuterFaces ==
  {FaceOf(inpoel, f) : f \in
     {f \in DOMAIN inpoel : Cardinality({e \in Elems : ToSet(FaceOf(inpoel, f)) \subseteq Has(e)}) = 1}}

\* Elements behind the faces of elements, and FaceData with the triangles of the mesh
\* as its boundary: boundary faces come first, in order, each with the element it
\* belongs to and nothing on the other side; then every face that two elements share,
\* once, with its nodes, the element with the lower id on the left.
FacesFit ==
  stage = "derived" /\ nnpe = 4 =>
    LET inpofa == derived.faces.inpofa
        esuf == derived.faces.esuf
        shared == {s \in {Has(d) \cap Has(e) : d, e \in Elems} : Cardinality(s) = 3}
        inner == {f \in DOMAIN esuf : f >= Len(tri)}
        Face(f) == ToSet(inpofa[f])
        Behind(f) == {e \in Elems \ {f \div 4} : ToSet(FaceOf(inpoel, f)) \subseteq Has(e)}
    IN  /\ \A f \in DOMAIN esuel : IF Behind(f) = {} THEN esuel[f] = -1 ELSE esuel[f] \in Behind(f)
        /\ \A f \in Ids(Len(tri)) :
             inpofa[f] = tri[f + 1] /\ Face(f) \subseteq Has(esuf[f][1]) /\ esuf[f][2] = -1
        /\ \A f \in inner :
             esuf[f][1] < esuf[f][2] /\ Face(f) = Has(esuf[f][1]) \cap Has(esuf[f][2])
        /\ {Face(f) : f \in inner} = shared /\ Cardinality(inner) = Cardinality(shared)

\* The linked lists hold what their names say, in ascending order: elements surrounding
\* points, points surrounding points, elements around the points of elements, edges,
\* and, up to the order of edges, elements surrounding edges.  Edges surrounding
\* points and edges of elements do if no point without greater neighbours is followed
\* by one that has some, elements sharing sides if all elements share one: there the
\* code counts the entries of a map instead of points.
ListsExact ==
  stage = "derived" =>
    LET Joined(p) == UNION {Has(e) : e \in {e \in Elems : p \in Has(e)}} \ {p}
        Greater(p) == {q \in Joined(p) : p < q}
        Beside(e) == {d \in Elems : Cardinality(Has(d) \cap Has(e)) = nnpe - 1}
        edges == {<<p, q>> \in (DOMAIN x) \X (DOMAIN x) : q \in Greater(p)}
        At(edge) == {e \in Elems : {edge[1], edge[2]} \subseteq Has(e)}
        inpoed == derived.inpoed
    IN  /\ \A p \in DOMAIN x :
             /\ Around(esup, p) = Ascending({e \in Elems : p \in Has(e)})
             /\ Around(psup, p) = Ascending(Joined(p))
        /\ \A e \in Elems :
             Around(derived.esupel, e) = Ascending({d \in Elems \ {e} : Has(d) \cap Has(e) # {}})
        /\ ToSet(inpoed) = edges /\ Len(inpoed) = Cardinality(edges)
        /\ \A S \in SUBSET Elems :
             Cardinality({k \in Ids(Len(inpoed)) : Around(derived.esued, k) = Ascending(S)})
               = Cardinality({edge \in edges : At(edge) = S})
        /\ (\A p, q \in DOMAIN x : Greater(p) = {} /\ p < q => Greater(q) = {}) =>
             /\ \A p \in DOMAIN x : Around(derived.edsup, p) = Ascending(Greater(p))
             /\ \A e \in Elems :
                  LET of == derived.inedel[e]
                  IN  /\ IsInjective(of) /\ Len(of) = (nnpe * (nnpe - 1)) \div 2
                      /\ \A i \in DOMAIN of : e \in At(inpoed[of[i] + 1])
        /\ (\A e \in Elems : Beside(e) # {}) =>
             \A e \in Elems : Around(derived.esuel, e) = Ascending(Beside(e))

\* The mesh is the one that was read: its elements have the same coordinates in the
\* same order, so have its triangles, which, if there were none, are all faces of only
\* one tetrahedron.
SameMesh ==
  /\ {x[p] : p \in DOMAIN x} = DOMAIN x
  /\ [i \in DOMAIN inpoel |-> x[inpoel[i]]] = file.tets
  /\ IF file.tris # <<>>
     THEN [t \in DOMAIN tri |-> [i \in 1 .. 3 |-> x[tri[t][i]]]] = file.tris
     ELSE IsInjective(tri) /\ ToSet(tri) = OuterFaces

\* A mesh whose nodes are connected is written as it was read, whether nodes are
\* reordered or not (writeUnsMesh, renumber, remap); renumber() of any other runs forever.
Converted == (stage = "read" /\ Connected) ~> (stage = "written" /\ SameMesh)
=============================================================================
