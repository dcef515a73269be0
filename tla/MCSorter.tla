------------------------------ MODULE MCSorter ------------------------------
(* Instances of Sorter for TLC: meshes as the sets of node ids of the chares. *)
EXTENDS SorterInvariant, TLC

\* Three chares: a node common to all and one common to the upper two, so that
\* chare 2 needs ids from chares 0 and 1; a chain; a node each pair shares; upper
\* chares that own nothing; a chare that shares nothing.  The chain and the mesh with
\* owners of nothing have ids of refined meshes, beyond NPoin: Bin divides 7 and 8 by
\* the second chunk, 13 lies beyond that of the last chare.
Triples ==
  {0 :> {0} @@ 1 :> {0, 2} @@ 2 :> {0, 2, 4},
   0 :> {0, 1} @@ 1 :> {1, 13} @@ 2 :> {7, 13},
   0 :> {0, 2} @@ 1 :> {0, 3} @@ 2 :> {2, 3},
   0 :> {0, 7} @@ 1 :> {0, 7} @@ 2 :> {7, 8},
   0 :> {0} @@ 1 :> {2} @@ 2 :> {0, 3}}
=============================================================================
