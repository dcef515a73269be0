------------------------------ MODULE MCRefiner ------------------------------
(* Two chares that share a face of the one tetrahedron each has.  In the    *)
(* second and third refinement only one chare tags edges.                   *)
EXTENDS Refiner

MCMesh == [i \in Chare |-> << <<0, 1, 2, 3 + i>> >>]
MCInitRefs == {<<"error", "error", "error">>, <<"error", "uniform">>, <<"uniform", "error">>}
MCMaxTagged == [k \in 1 .. 3 |-> [i \in Chare |-> IF k = 1 THEN 2 - i ELSE 1 - i]]
=============================================================================
