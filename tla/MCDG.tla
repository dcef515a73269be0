-------------------------------- MODULE MCDG --------------------------------
(* Chares in a line: the ones in the middle have two neighbours. *)
EXTENDS DGInvariant

MCNbr == [i \in Chare |-> {j \in Chare : j = i + 1 \/ i = j + 1}]

(* Each refinement of a chare adds cells; that of the last chare is elsewhere. *)
MCNCell == [i \in Chare |-> [n \in 0 .. NStep |-> IF i = NChare - 1 THEN 2 ELSE 2 + 6 * n]]
MCNoFac == [i \in Chare |-> {}]
=============================================================================
