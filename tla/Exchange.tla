------------------------------ MODULE Exchange ------------------------------
(***************************************************************************)
(* What is true of the contributions of one kind chares send each other in *)
(* a time step or for a mesh: about p, the time step and mesh they are     *)
(* computed from, the chares S that have sent theirs, the chares O that    *)
(* take what arrives, and of those the chares B whose buffer was zeroed.   *)
(***************************************************************************)
EXTENDS Discretization

\* What the bookkeeping of the runtime, and the fields and buffers of the chares, look like.
CharmShape ==
  /\ trigger \in [Object -> [Trigger -> Int]]
  /\ contrib = [a \in Array |-> [i \in Chare |-> contrib[a][i]]]
  /\ posting \in [Object -> [Wait -> Int]] /\ waiting \in [Object -> [Wait -> Int]]

\* How often wait w of object o is posted or on its way to be.
Due(o, w) == posting[o][w] + waiting[o][w]

NodeShape ==
  /\ count \in [Chare -> [Kind -> Nat]]
  /\ buf = [i \in Chare |-> [x \in Kind |-> buf[i][x]]]
  /\ field = [i \in Chare |-> [x \in Kind |-> field[i][x]]]

\* The contribution of chare j, and of all chares in js.
PartOf(j, p) == [from |-> j, it |-> p.it, itr |-> p.itr]
PartsOf(js, p) == {PartOf(j, p) : j \in js}

\* The call that sends it to chare i.
ComCall(x, p, j, i) == [type |-> "com", kind |-> x, to |-> i, part |-> PartOf(j, p)]

\* The calls of a kind on their way.
OfKind(x) == {m \in msgs : m.type = "com" /\ m.kind = x}

\* The neighbours chare i has heard from.
Arrived(x, p, S, i) == {j \in Nbr[i] \cap S : ComCall(x, p, j, i) \notin msgs}

\* It has heard from all, or has none and is done with its own contributions.
Complete(x, p, S, i) == Arrived(x, p, S, i) = Nbr[i] /\ (Nbr[i] = {} => i \in S)

Exchange(x, S, O, B, p) ==
  /\ \A m \in OfKind(x) : \E i \in O : \E j \in Nbr[i] \cap S : m = ComCall(x, p, j, i)
  /\ \A i \in Chare : LET a == Arrived(x, p, S, i) IN
       count[i][x] = IF i \in O /\ a # Nbr[i] THEN Cardinality(a) ELSE 0
  /\ \A i \in B : buf[i][x] = PartsOf(Arrived(x, p, S, i), p)

\* The triggers of the wait that ends it.
Signalled(x, S, O, p) ==
  \A i \in Chare :
    /\ trigger[i][own(x)] \in {0, 1} /\ (trigger[i][own(x)] = 1 => i \in O \cap S)
    /\ trigger[i][com(x)] \in {0, 1} /\ (trigger[i][com(x)] = 1 => i \in O /\ Complete(x, p, S, i))
=============================================================================
