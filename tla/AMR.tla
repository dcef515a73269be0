--------------------------------- MODULE AMR ---------------------------------
(***************************************************************************)
(* The mesh refinement library, src/Inciter/AMR: the tetrahedra and edges  *)
(* of one chare, the marking of edges until every tetrahedron can be       *)
(* refined (mark_refinement and its three compatibility classes), and the  *)
(* refinement.  Functions only; module Refiner keeps a mesh per chare.     *)
(*                                                                         *)
(* A mesh is a record: tet is the sequence of all tetrahedra ever made     *)
(* (tet_store and master_elements), active the ids of those that are       *)
(* leaves, lock the lock case of every edge of the edge store, needs the   *)
(* edges with needs_refining set, inter the intermediate_list, changed the *)
(* flag refinement_state_changed.  Coordinates are left out.  A node made  *)
(* in the middle of an edge is named by the edge: nodes are shared by      *)
(* chares by global id, which Refiner::newVolMesh hashes from those of the *)
(* end points; ids local to a chare only order the first two children.     *)
(***************************************************************************)
EXTENDS Integers, FiniteSets, Sequences
LOCAL INSTANCE SequencesExt

CONSTANT NNode    \* nodes of the mesh before refinement: 0 .. NNode - 1

ASSUME AMRAssumption == NNode \in Nat \ {0}

MaxLevel == 4     \* MAX_REFINEMENT_LEVEL
MaxRounds == 30   \* AMR_MAX_ROUNDS

\* Edge_Lock_Case
Unlocked == 0
Locked == 1
Intermediate == 2

\* The node in the middle of an edge: different for different edges.
Mid(a, b) ==
  LET lo == IF a < b THEN a ELSE b
      hi == IF a < b THEN b ELSE a
  IN  NNode + (hi * (hi - 1)) \div 2 + lo

\* Edges of a tetrahedron in the order of edge_store_t::generate_keys.
EdgeList(n) == << {n[1], n[2]}, {n[1], n[3]}, {n[1], n[4]}, {n[2], n[3]}, {n[2], n[4]}, {n[3], n[4]} >>
Edges(n) == {{n[j], n[k]} : <<j, k>> \in {p \in (1 .. 4) \X (1 .. 4) : p[1] < p[2]}}

\* Faces in the order of tet_store_t::generate_face_lists, each with the node
\* opposite to it; the edges of a face.
FaceList(n) == << <<n[1], n[2], n[3], n[4]>>, <<n[1], n[4], n[2], n[3]>>,
                  <<n[1], n[3], n[4], n[2]>>, <<n[2], n[4], n[3], n[1]>> >>
FaceEdges(f) == {{f[1], f[2]}, {f[1], f[3]}, {f[2], f[3]}}

Tet(n, c, lvl, p, mid) ==
  [node |-> n, case |-> c, level |-> lvl, parent |-> p, center |-> mid, normal |-> FALSE,
   mark |-> "absent"]

\* mesh_adapter_t::consume_tets, tet_store_t::generate_edges
Consume(nodes) ==
  [tet |-> [t \in DOMAIN nodes |-> Tet(nodes[t], "initial_grid", 0, 0, FALSE)],
   active |-> DOMAIN nodes,
   lock |-> [e \in UNION {Edges(nodes[t]) : t \in DOMAIN nodes} |-> Unlocked],
   needs |-> {}, inter |-> {}, changed |-> FALSE]

EdgesOf(m, t) == Edges(m.tet[t].node)
With(m, es, l) == {e \in es : m.lock[e] = l}

\* The children of a tetrahedron that was refined 1:2 or 1:4.
Children(m, p) == {t \in m.active : m.tet[t].parent = p}

-----------------------------------------------------------------------------
\* marked_refinements_store_t::add
Decide(m, t, c) ==
  [m EXCEPT !.tet[t].mark = c, !.changed = m.changed \/ m.tet[t].mark # c]

MarkedWith(m, es, t, c) == Decide([m EXCEPT !.needs = @ \cup es], t, c)

\* lock_tet_edges after deactivate_tet_edges, for the edges es
LockEdges(m, es) ==
  [m EXCEPT !.needs = @ \ es,
            !.lock = [e \in DOMAIN m.lock |-> IF e \in es /\ m.lock[e] = Unlocked THEN Locked ELSE m.lock[e]]]

\* Mutant of ClassOne: the rest of the face is not marked.
ClassOneFewer(m, t) ==
  LET all == EdgesOf(m, t)
      marked == all \cap m.needs
      face == {f \in 1 .. 4 : marked \subseteq FaceEdges(FaceList(m.tet[t].node)[f])}
  IN  CASE Cardinality(marked) = 1 -> Decide(m, t, "one_to_two")
        [] Cardinality(marked) > 1 /\ face # {} -> Decide(m, t, "one_to_four")
        [] OTHER -> MarkedWith(m, all, t, "one_to_eight")

\* refinement_class_one: no edge of t is locked.
ClassOne(m, t) ==
  LET all == EdgesOf(m, t)
      marked == all \cap m.needs
      face == {f \in 1 .. 4 : marked \subseteq FaceEdges(FaceList(m.tet[t].node)[f])}
      first == CHOOSE f \in face : \A g \in face : f <= g
  IN  CASE Cardinality(marked) = 1 -> Decide(m, t, "one_to_two")
        [] Cardinality(marked) > 1 /\ face # {} ->
             MarkedWith(m, FaceEdges(FaceList(m.tet[t].node)[first]), t, "one_to_four")
        [] OTHER -> MarkedWith(m, all, t, "one_to_eight")

\* refinement_class_two: some edge of t is locked.  A tetrahedron whose edges get
\* locked keeps the decision it has.
ClassTwo(m0, t) ==
  LET all == EdgesOf(m0, t)
      m == [m0 EXCEPT !.needs = @ \ {e \in all : m0.lock[e] # Unlocked}]
      face == {f \in 1 .. 4 : LET fe == FaceEdges(FaceList(m.tet[t].node)[f])
                              IN  Cardinality(fe \cap m.needs) >= 2 /\ fe = With(m, fe, Unlocked)}
      first == CHOOSE f \in face : \A g \in face : f <= g
  IN  CASE Cardinality(all \cap m.needs) = 1 -> Decide(m, t, "one_to_two")
        [] Cardinality(all \cap m.needs) # 1 /\ face # {} ->
             MarkedWith(m, FaceEdges(FaceList(m.tet[t].node)[first]), t, "one_to_four")
        [] OTHER -> LockEdges(m, all)

\* check_valid_refinement_case
Valid(m, t) ==
  LET marks == Cardinality(EdgesOf(m, t) \cap m.needs)
      inters == Cardinality(With(m, EdgesOf(m, t), Intermediate))
  IN  CASE m.tet[t].case = "one_to_two" -> inters = 3 /\ marks = 3
        [] m.tet[t].case = "one_to_four" /\ m.tet[t].center -> inters = 6 /\ marks = 0
        [] m.tet[t].case = "one_to_four" /\ ~m.tet[t].center -> inters = 5 /\ marks = 1
        [] OTHER -> TRUE

\* refinement_class_three: t came of a refinement 1:2 or 1:4, which becomes 1:8 if it can.
ClassThree(m0, t) ==
  LET kids == Children(m0, m0.tet[t].parent)
      all == UNION {EdgesOf(m0, k) : k \in kids}
      free == With(m0, all, Unlocked)
      m == [m0 EXCEPT !.needs = (@ \ all) \cup free]
      locked == LockEdges(m, all)
  IN  IF \A k \in kids : Valid(m, k)
      THEN Decide(m, t, IF m.tet[t].case = "one_to_two" THEN "two_to_eight" ELSE "four_to_eight")
      ELSE [locked EXCEPT !.tet = [k \in DOMAIN @ |-> [m.tet[k] EXCEPT !.normal = @ \/ k \in kids]]]

\* mark_refinement for one tetrahedron, detect_compatibility
MarkTet(m, t) ==
  LET all == EdgesOf(m, t)
      split == m.tet[t].case \in {"one_to_two", "one_to_four"}
  IN  CASE t \notin m.active -> m
        [] t \in m.active /\ With(m, all \cap m.needs, Unlocked) = {} -> Decide(m, t, "none")
        [] OTHER -> CASE split /\ ~m.tet[t].normal -> ClassThree(m, t)
                      [] ~split /\ all = With(m, all, Unlocked) -> ClassOne(m, t)
                      [] OTHER -> ClassTwo(m, t)

\* Mutant of MarkRefinement: a single round.
MarkRefinementOnce(m) == FoldLeft(MarkTet, [m EXCEPT !.changed = FALSE], [t \in DOMAIN m.tet |-> t])

\* mark_refinement: rounds over all tetrahedra until no decision changes
Ids(m) == [t \in DOMAIN m.tet |-> t]
Round(m) == FoldLeft(MarkTet, [m EXCEPT !.changed = FALSE], Ids(m))
MarkRefinement(m) ==
  LET after[k \in 1 .. MaxRounds] ==
        LET before == IF k = 1 THEN Round(m) ELSE after[k - 1]
        IN  IF k > 1 /\ before.changed THEN Round(before) ELSE before
  IN  after[MaxRounds]

\* mark_uniform_refinement, mark_error_refinement, and mark_error_refinement_corr
\* with needs_refining and lock case of the edges in DOMAIN lock
MarkUniform(m) == MarkRefinement([m EXCEPT !.needs = @ \cup With(m, DOMAIN m.lock, Unlocked)])
MarkError(m, es) ==
  MarkRefinement([m EXCEPT !.needs = (@ \ es) \cup With(m, es, Unlocked)])
MarkCorrected(m, needs, lock) ==
  MarkRefinement([m EXCEPT !.needs = (@ \ DOMAIN lock) \cup needs,
                           !.lock = [e \in DOMAIN @ |-> IF e \in DOMAIN lock THEN lock[e] ELSE m.lock[e]]])

-----------------------------------------------------------------------------
\* edge_store_t::generate: edges that exist stay as they are.
Generate(m, es, l) ==
  [m EXCEPT !.lock = [e \in DOMAIN m.lock \cup es |-> IF e \in DOMAIN m.lock THEN m.lock[e] ELSE l]]

\* The parent p is replaced by tetrahedra with the given nodes; the middle one of a
\* refinement 1:4 is its center.
Replace(m, p, c, nodes) ==
  LET n == Len(m.tet)
      kid(k) == Tet(nodes[k], c, m.tet[p].level + 1, p, c = "one_to_four" /\ k = 2)
  IN  [m EXCEPT !.tet = @ \o [k \in DOMAIN nodes |-> kid(k)],
                !.active = (@ \ {p}) \cup {n + k : k \in DOMAIN nodes}]

\* check_allowed_refinement
Allowed(m, t) == m.tet[t].level < MaxLevel

\* refine_one_to_two: splits the first edge that is marked (without one, an
\* assertion fails; the mesh stays as it is)
RefineOneToTwo(m, t) ==
  LET n == m.tet[t].node
      marked == {k \in 1 .. 6 : EdgeList(n)[k] \in m.needs}
      edge == EdgeList(n)[CHOOSE k \in marked : \A j \in marked : k <= j]
      a == CHOOSE x \in edge : \A y \in edge : x <= y
      b == CHOOSE x \in edge : x # a
      new(x) == [k \in 1 .. 4 |-> IF n[k] = x THEN Mid(a, b) ELSE n[k]]
      halved == Generate(m, {{a, Mid(a, b)}, {b, Mid(a, b)}}, Intermediate)
  IN  IF ~Allowed(m, t) \/ marked = {} THEN m
      ELSE [Replace(Generate(halved, Edges(new(a)), Unlocked), t, "one_to_two", <<new(a), new(b)>>)
              EXCEPT !.inter = @ \cup {Mid(a, b)}]

\* refine_one_to_four: splits the first face without locks that has two marked edges
RefineOneToFour(m, t) ==
  LET faces == FaceList(m.tet[t].node)
      ready == {f \in 1 .. 4 : LET fe == FaceEdges(faces[f])
                               IN  Cardinality(fe \cap m.needs) >= 2 /\ fe = With(m, fe, Unlocked)}
      f == faces[IF ready = {} THEN 1 ELSE CHOOSE j \in ready : \A k \in ready : j <= k]
      A == f[1]  B == f[2]  C == f[3]  D == f[4]
      AB == Mid(A, B)  AC == Mid(A, C)  BC == Mid(B, C)
      new == {{A, AB}, {B, AB}, {A, AC}, {C, AC}, {B, BC}, {C, BC},
              {D, AC}, {D, BC}, {D, AB}, {AC, BC}, {AC, AB}, {AB, BC}}
  IN  IF ~Allowed(m, t) THEN m
      ELSE [Replace(Generate(m, new, Intermediate), t, "one_to_four",
                    << <<A, AB, AC, D>>, <<AC, AB, BC, D>>, <<AC, BC, C, D>>, <<AB, B, BC, D>> >>)
              EXCEPT !.inter = @ \cup {AB, AC, BC}]

\* refine_one_to_eight
RefineOneToEight(m, t) ==
  LET n == m.tet[t].node
      A == n[1]  B == n[2]  C == n[3]  D == n[4]
      AB == Mid(A, B)  AC == Mid(A, C)  AD == Mid(A, D)
      BC == Mid(B, C)  BD == Mid(B, D)  CD == Mid(C, D)
      kids == << <<A, AB, AC, AD>>, <<B, BC, AB, BD>>, <<C, AC, BC, CD>>, <<D, AD, CD, BD>>,
                 <<BC, CD, AC, BD>>, <<AB, BD, AC, AD>>, <<AB, BC, AC, BD>>, <<AC, BD, CD, AD>> >>
  IN  IF ~Allowed(m, t) THEN m
      ELSE Replace(Generate(m, UNION {Edges(kids[k]) : k \in 1 .. 8}, Unlocked), t, "one_to_eight", kids)

\* The first loop of perform_refinement, for one tetrahedron.
Refine(m, t) ==
  CASE m.tet[t].mark = "one_to_two" -> RefineOneToTwo(m, t)
    [] m.tet[t].mark = "one_to_four" -> RefineOneToFour(m, t)
    [] m.tet[t].mark = "one_to_eight" -> RefineOneToEight(m, t)
    [] OTHER -> m

\* derefine_two_to_one or derefine_four_to_one, then refine_one_to_eight
RefineAgain(m, p) ==
  LET kids == Children(m, p)
      gone == With(m, UNION {EdgesOf(m, k) : k \in kids} \cap DOMAIN m.lock, Intermediate)
      back == [m EXCEPT !.active = (@ \ kids) \cup {p},
                        !.lock = [e \in DOMAIN m.lock \ gone |-> m.lock[e]],
                        !.needs = @ \ gone]
  IN  [RefineOneToEight(back, p) EXCEPT !.tet[p].case = "one_to_eight"]

\* lock_intermediates
LockIntermediates(m) ==
  LET at == {e \in DOMAIN m.lock : e \cap m.inter # {}}
  IN  [m EXCEPT !.needs = @ \ at,
                !.lock = [e \in DOMAIN @ |-> IF e \in at THEN Intermediate ELSE m.lock[e]]]

\* remove_edge_locks, remove_normals
RemoveLocks(m) ==
  LET all == UNION {EdgesOf(m, t) : t \in m.active}
  IN  [m EXCEPT !.lock = [e \in DOMAIN @ |-> IF e \in all THEN Unlocked ELSE m.lock[e]],
                !.tet = [t \in DOMAIN @ |-> [m.tet[t] EXCEPT !.normal = FALSE]]]

\* perform_refinement
PerformRefinement(m) ==
  LET once == FoldLeft(Refine, m, Ids(m))
      again == {m.tet[t].parent : t \in {k \in DOMAIN m.tet : m.tet[k].mark \in {"two_to_eight", "four_to_eight"}}}
      twice == FoldLeft(RefineAgain, once, SetToSortSeq(again, <))
      done == [twice EXCEPT !.tet = [t \in DOMAIN @ |->
                 IF twice.tet[t].mark = "absent" THEN twice.tet[t] ELSE [twice.tet[t] EXCEPT !.mark = "none"]]]
  IN  LockIntermediates(RemoveLocks(done))
=============================================================================
