--------------------------- MODULE DiagCGInvariant ---------------------------
(***************************************************************************)
(* What is true in every state of DiagCG besides what is true of both      *)
(* schemes: the contributions in the fields of a chare, by how far it is.  *)
(***************************************************************************)
EXTENDS DiagCG, StepsInvariant

SolShape ==
  /\ sol = [i \in Chare |-> sol[i]]
  /\ \A i \in Chare, x \in Kind : sol[i][x] \subseteq Parts

FieldsOf(c, i) ==
  /\ c.round > 0 /\ c.stage[i] \in 8 .. 10 => \A x \in StepKind :
       field[i][x] = IF c.stage[i] < StageOf[x] THEN {}
                     ELSE IF c.stage[i] = StageOf[x] THEN {PartOf(i, About(c, x))}
                     ELSE Full(i, About(c, x))
  /\ c.round = 0 => /\ c.stage[i] = 5 => field[i]["lhs"] = {PartOf(i, OfMesh(0))}
                    /\ c.stage[i] = 17 => field[i]["lhs"] = Full(i, OfMesh(0))
  /\ c.round > 0 => field[i]["lhs"] = IF c.lhs[i] <= 1 THEN Full(i, OfMesh(Base(c)))
                                      ELSE IF c.lhs[i] = 2 THEN {PartOf(i, OfMesh(Now(c)))}
                                      ELSE Full(i, OfMesh(Now(c)))

Fields(c) == \A i \in Chare : FieldsOf(c, i)

DiagCGInv(c) == StepsInv(c) /\ SolShape /\ Fields(c) /\ SolutionComplete
=============================================================================
