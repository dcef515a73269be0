--------------------------- MODULE ALECGInvariant ---------------------------
(***************************************************************************)
(* What is true in every state of ALECG besides what is true of both       *)
(* schemes: the contributions last added to the left-hand side of a chare, *)
(* by how far it is.                                                       *)
(***************************************************************************)
EXTENDS ALECG, StepsInvariant

AddedShape == added = [i \in Chare |-> [x \in Kind |-> added[i][x]]]

\* What chare i got from its neighbours for mesh k.
AddedFor(i, k) == added[i]["lhs"] = PartsOf(Nbr[i], OfMesh(k))

Added(c) ==
  \A i \in Chare :
    /\ c.round = 0 /\ c.stage[i] = 17 => AddedFor(i, 0)
    /\ c.round > 0 => AddedFor(i, IF c.lhs[i] = 3 THEN Now(c) ELSE Base(c))

ALECGInv(c) == StepsInv(c) /\ AddedShape /\ Added(c)
=============================================================================
