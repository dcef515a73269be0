------------------------------ MODULE MCALECG ------------------------------
(* Chares in a line: the ones in the middle have two neighbours. *)
EXTENDS ALECGInvariant

MCNbr == [i \in Chare |-> {j \in Chare : j = i + 1 \/ i = j + 1}]
=============================================================================
