---------------------------- MODULE Renumbering -----------------------------
(***************************************************************************)
(* What the reordering of mesh nodes in Sorter promises (see the details of *)
(* Sorter::offset and Sorter::reorder): all chares end up with one and the *)
(* same numbering of the nodes, injective, with ids 0 .. (number of nodes  *)
(* of the whole mesh - 1); a chare is done when it knows the ids of all    *)
(* nodes of its chunk.                                                     *)
(***************************************************************************)
EXTENDS Integers, FiniteSets

CONSTANTS
  Chare,      \* the chares
  Node,       \* old ids
  Meshes      \* node set of each chare, for each mesh to start from

VARIABLES
  mesh,       \* nodes of each chare
  number,     \* new id of each old one
  known,      \* nodes whose new id the chare knows
  done        \* chares that know the ids of all their nodes

vars == <<mesh, number, known, done>>

None == -1
Total == Cardinality(UNION {mesh[c] : c \in Chare})

Init ==
  /\ mesh \in Meshes
  /\ number = [n \in Node |-> None]
  /\ known = [c \in Chare |-> {}]
  /\ done = {}

\* Chare c now knows the ids of S too.
Know(c, S) ==
  /\ known' = [known EXCEPT ![c] = @ \cup S]
  /\ done' = IF known[c] \cup S = mesh[c] THEN done \cup {c} ELSE done
  /\ UNCHANGED mesh

\* Chare c gives nodes S of its chunk ids that no node has.
Assign(c, S) ==
  /\ \A n \in S : number[n] = None
  /\ number' \in [Node -> {None} \cup 0 .. (Total - 1)]
  /\ \A n \in Node : IF n \in S THEN number'[n] # None ELSE number'[n] = number[n]
  /\ \A n, k \in Node : number'[n] = number'[k] /\ number'[n] # None => n = k
  /\ Know(c, S)

\* Chare c learns ids of nodes S of its chunk, assigned by others.
Learn(c, S) ==
  /\ \A n \in S : number[n] # None
  /\ Know(c, S)
  /\ UNCHANGED number

Next == \E c \in Chare : \E S \in SUBSET mesh[c] : Assign(c, S) \/ Learn(c, S)

\* Every chare gets to know all ids.
AllDone == <>[](done = Chare)

Spec == Init /\ [][Next]_vars /\ AllDone
=============================================================================
