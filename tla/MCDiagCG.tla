------------------------------ MODULE MCDiagCG ------------------------------
(* Chares in a line: the ones in the middle have two neighbours. *)
EXTENDS DiagCGInvariant

MCNbr == [i \in Chare |-> {j \in Chare : j = i + 1 \/ i = j + 1}]
=============================================================================
