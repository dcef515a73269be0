-------------------------------- MODULE Setup --------------------------------
(***************************************************************************)
(* From the mesh in the file to workers: the nodegroup Partitioner         *)
(* (src/Inciter/Partitioner.C, partitioner.ci) reads a chunk of the mesh   *)
(* on every compute node, has Zoltan assign its tetrahedra to chares,      *)
(* moves them to the nodes that own these chares and inserts a Refiner     *)
(* chare for each.  Refiner inserts Sorter, which runs as Sorter.tla has   *)
(* it, here without reordering.  The host is Transporter.                  *)
(*                                                                         *)
(* A mesh is a set of tetrahedra; coordinates and boundary data travel     *)
(* with these.  Calls are messages, delivered in any order; [exclusive]    *)
(* entry methods of a node do not overlap.                                 *)
(***************************************************************************)
EXTENDS Integers, FiniteSets, FiniteSetsExt

CONSTANTS
  NNode,        \* compute nodes, CkNumNodes()
  NPe,          \* PEs, CkNumPes()
  Nodes,        \* mesh nodes of each tetrahedron of the file, 0 first
  Virt, Denom,  \* tag::virtualization is Virt / Denom
  MaxId,        \* largest id of a mesh node
  Partitions    \* assignments of tetrahedra to chares Zoltan may answer with

Tet == DOMAIN Nodes
Node == 0 .. (NNode - 1)

\* linearLoadDistributor for the number of tetrahedra, as Transporter::load calls
\* it (LoadBalance.tla has all of it): the number of chares.
NChare ==
  LET load == Cardinality(Tet)
  IN  load \div (((NPe - load) * Virt + load * Denom) \div (NPe * Denom))
Chare == 0 .. (NChare - 1)

ASSUME SetupAssumption ==
  /\ NNode \in Nat \ {0} /\ NPe \in Nat /\ NPe >= NNode
  /\ Cardinality(Tet) >= NPe /\ Tet = 0 .. (Cardinality(Tet) - 1)
  /\ NChare >= NNode
  /\ MaxId >= NChare
  /\ \A t \in Tet : Nodes[t] # {} /\ Nodes[t] \subseteq 0 .. MaxId
  /\ Partitions \subseteq [Tet -> Chare]

VARIABLES
  \* Sorter.tla
  nodeset, ginpoel, refmesh, nbnd, chnode, msum, reordcomm, noffset, nextid,
  newnodes, reqnodes, waiting, owned, requested, msgs, contrib, reduced,
  \* Partitioner, Refiner, Transporter
  part,       \* what geomPartMesh answers
  nchare,     \* m_nchare of each node
  inside,     \* nodes in geomPartMesh, in partition()
  chinpoel,   \* m_chinpoel: node -> chare -> tetrahedra
  ndist,      \* m_ndist: chunks sent that are not acknowledged
  calls,      \* entry-method calls in flight
  sent,       \* nodes and chares that have contributed to each reduction
  refiner,    \* tetrahedra of each Refiner chare, empty before its constructor
  npoin,      \* m_npoin_larger
  host        \* what Transporter waits for

sorterVars == <<nodeset, ginpoel, refmesh, nbnd, chnode, msum, reordcomm, noffset,
                nextid, newnodes, reqnodes, waiting, owned, requested, msgs, contrib,
                reduced>>
setupVars == <<part, nchare, inside, chinpoel, ndist, calls, sent, refiner, npoin, host>>
vars == <<sorterVars, setupVars>>

Target == {"load", "distributed", "refinserted", "error", "refined"}
Contribute(x, target) == sent' = [sent EXCEPT ![target] = @ \cup {x}]

Sort(n) == INSTANCE Sorter WITH
  NChare <- NChare, NPoin <- n, MaxSize <- MaxId, Meshes <- {}, Reorder <- FALSE

\* Mesh nodes of a set of tetrahedra.
Points(tets) == UNION {Nodes[t] : t \in tets}

-----------------------------------------------------------------------------
\* Partitioner::distribution: chares per node, and on node n.
Dist(n) ==
  [size |-> NChare \div NNode,
   own |-> (NChare \div NNode) + (IF n = NNode - 1 THEN NChare % NNode ELSE 0)]

Own(n) == {n * Dist(n).size + i : i \in 0 .. (Dist(n).own - 1)}

\* Partitioner::node: the node that creates chare c.
NodeOf(c) ==
  LET p == c \div (NChare \div NNode) IN IF p >= NNode THEN NNode - 1 ELSE p

\* ExodusIIMeshReader::readMeshPart: the tetrahedra node n reads.
Chunk(n) ==
  LET chunk == Cardinality(Tet) \div NNode
      from == n * chunk
      till == from + chunk + (IF n = NNode - 1 THEN Cardinality(Tet) % NNode ELSE 0)
  IN  {t \in Tet : from <= t /\ t < till}

Init ==
  /\ part \in Partitions
  /\ nchare = [n \in Node |-> 0]
  /\ inside = {}
  /\ chinpoel = [n \in Node |-> [c \in Chare |-> {}]]
  /\ ndist = [n \in Node |-> 0]
  /\ calls = {[type |-> "Partitioner", to |-> n] : n \in Node}
  /\ sent = [t \in Target |-> {}]
  /\ refiner = [c \in Chare |-> {}]
  /\ npoin = NChare
  /\ host = "load"
  /\ nodeset = [c \in Chare |-> {}]
  /\ ginpoel = nodeset /\ refmesh = nodeset
  /\ nbnd = [c \in Chare |-> 0]
  /\ chnode = [c \in Chare |-> [d \in Chare |-> {}]]
  /\ msum = chnode /\ reordcomm = chnode
  /\ noffset = nbnd /\ nextid = nbnd
  /\ newnodes = [c \in Chare |-> [g \in 0 .. MaxId |-> -1]]
  /\ reqnodes = nodeset
  /\ waiting = nbnd /\ owned = nbnd /\ requested = nbnd
  /\ msgs = {}
  /\ contrib = [t \in {"queried", "responded", "discinserted", "workinserted"} |-> nbnd]
  /\ reduced = {}

-----------------------------------------------------------------------------
\* Partitioner's constructor: read a chunk of the mesh, announce its size.
Partitioner(n) ==
  LET m == [type |-> "Partitioner", to |-> n]
  IN  /\ m \in calls
      /\ calls' = calls \ {m}
      /\ Contribute(n, "load")
      /\ UNCHANGED <<sorterVars, part, nchare, inside, chinpoel, ndist, refiner, npoin, host>>

\* Transporter::load: all have read; partition the mesh into as many parts as
\* linearLoadDistributor says.
Load ==
  /\ host = "load" /\ sent["load"] = Node
  /\ host' = "distributed"
  /\ calls' = calls \cup {[type |-> "partition", to |-> n] : n \in Node}
  /\ UNCHANGED <<sorterVars, part, nchare, inside, chinpoel, ndist, sent, refiner, npoin>>

\* Partitioner::partition up to the call of Zoltan, which all ranks have to make.
Partition(n) ==
  LET m == [type |-> "partition", to |-> n]
  IN  /\ m \in calls
      /\ calls' = calls \ {m}
      /\ nchare' = [nchare EXCEPT ![n] = NChare]
      /\ inside' = inside \cup {n}
      /\ UNCHANGED <<sorterVars, part, chinpoel, ndist, sent, refiner, npoin, host>>

\* Mutant of Send: contribute without waiting for acknowledgements.
SendUnacked(n, exp) ==
  /\ Contribute(n, "distributed")
  /\ ndist' = [ndist EXCEPT ![n] = @ + Cardinality(exp)]
  /\ calls' = calls \cup exp

\* Mutant of Send: count the chares that are sent, not the nodes sent to.
SendCounting(n, exp) ==
  /\ IF exp = {} THEN Contribute(n, "distributed") ELSE UNCHANGED sent
  /\ ndist' = [ndist EXCEPT ![n] = @ + Cardinality({part[t] : t \in Chunk(n)} \ Own(n))]
  /\ calls' = calls \cup exp

\* The end of distribute(): send the meshes of others; if there are none, done.
Send(n, exp) ==
  /\ IF exp = {} THEN Contribute(n, "distributed") ELSE UNCHANGED sent
  /\ ndist' = [ndist EXCEPT ![n] = @ + Cardinality(exp)]
  /\ calls' = calls \cup exp

\* geomPartMesh returns, once all ranks have called it; categorize() the chunk,
\* and distribute() it: store what we own, send the rest to its owners.
Distribute(n) ==
  LET mesh == [c \in Chare |-> {t \in Chunk(n) : part[t] = c}]
      others == {c \in Chare \ Own(n) : mesh[c] # {}}
  IN  /\ n \in inside /\ \A p \in Node : nchare[p] > 0
      /\ inside' = inside \ {n}
      /\ chinpoel' = [chinpoel EXCEPT ![n] =
           [c \in Chare |-> IF c \in Own(n) THEN @[c] \cup mesh[c] ELSE @[c]]]
      /\ Send(n, {[type |-> "addMesh", to |-> p, from |-> n,
                   mesh |-> [c \in Chare |-> IF NodeOf(c) = p THEN mesh[c] ELSE {}]] :
                     p \in {NodeOf(c) : c \in others}})
      /\ UNCHANGED <<sorterVars, part, nchare, refiner, npoin, host>>

\* Partitioner::addMesh: add to what we have, acknowledge.
AddMesh(n) ==
  \E m \in calls :
    /\ m.type = "addMesh" /\ m.to = n /\ n \notin inside
    /\ chinpoel' = [chinpoel EXCEPT ![n] = [c \in Chare |-> @[c] \cup m.mesh[c]]]
    /\ calls' = (calls \ {m}) \cup {[type |-> "recvMesh", to |-> m.from, from |-> n]}
    /\ UNCHANGED <<sorterVars, part, nchare, inside, ndist, sent, refiner, npoin, host>>

\* Partitioner::recvMesh
RecvMesh(n) ==
  \E m \in calls :
    /\ m.type = "recvMesh" /\ m.to = n /\ n \notin inside
    /\ calls' = calls \ {m}
    /\ ndist' = [ndist EXCEPT ![n] = @ - 1]
    /\ IF ndist[n] - 1 = 0 THEN Contribute(n, "distributed") ELSE UNCHANGED sent
    /\ UNCHANGED <<sorterVars, part, nchare, inside, chinpoel, refiner, npoin, host>>

\* Transporter::distributed
Distributed ==
  /\ host = "distributed" /\ sent["distributed"] = Node
  /\ host' = "refinserted"
  /\ calls' = calls \cup {[type |-> "refine", to |-> n] : n \in Node}
  /\ UNCHANGED <<sorterVars, part, nchare, inside, chinpoel, ndist, sent, refiner, npoin>>

\* Fewer chares of node n have a mesh than it owns.
Short(n) == Cardinality({c \in Chare : chinpoel[n][c] # {}}) < Dist(n).own

\* Partitioner::refine: insert a Refiner for every own chare, or report an error
\* if one has no mesh; drop the meshes.
Refine(n) ==
  LET m == [type |-> "refine", to |-> n]
  IN  /\ m \in calls
      /\ \/ /\ Short(n)
            /\ sent' = [sent EXCEPT !["refinserted"] = @ \cup {n}, !["error"] = @ \cup {n}]
            /\ calls' = calls \ {m}
         \/ /\ ~Short(n)
            /\ Contribute(n, "refinserted")
            /\ calls' = (calls \ {m}) \cup
                 {[type |-> "Refiner", to |-> c, mesh |-> chinpoel[n][c]] : c \in Own(n)}
      /\ chinpoel' = [chinpoel EXCEPT ![n] = [c \in Chare |-> {}]]
      /\ UNCHANGED <<sorterVars, part, nchare, inside, ndist, refiner, npoin, host>>

\* Transporter::refinserted: stop if any node reported an error.
RefInserted ==
  /\ host = "refinserted" /\ sent["refinserted"] = Node
  /\ host' = IF sent["error"] # {} THEN "finish" ELSE "refined"
  /\ UNCHANGED <<sorterVars, part, nchare, inside, chinpoel, ndist, calls, sent, refiner, npoin>>

\* Refiner's constructor without initial refinement: endt0ref() inserts Sorter and
\* announces the size of the mesh.
Refiner(c) ==
  \E m \in calls :
    /\ m.type = "Refiner" /\ m.to = c
    /\ calls' = calls \ {m}
    /\ refiner' = [refiner EXCEPT ![c] = m.mesh]
    /\ Contribute(c, "refined")
    /\ UNCHANGED <<sorterVars, part, nchare, inside, chinpoel, ndist, npoin, host>>

\* Transporter::refined: doneInserting() was called on Refiner, so this reduction
\* is of all of its elements.  Sorter has the same ones; setup().
Refined ==
  /\ host = "refined"
  /\ \A m \in calls : m.type # "Refiner"
  /\ host' = "sorting"
  /\ npoin' = FoldSet(LAMBDA c, sum : sum + Cardinality(Points(refiner[c])), 0, Chare)
  /\ nodeset' = [c \in Chare |-> Points(refiner[c])]
  /\ ginpoel' = nodeset' /\ refmesh' = nodeset'
  /\ msgs' = {[type |-> "setup", to |-> c] : c \in Chare}
  /\ UNCHANGED <<nbnd, chnode, msum, reordcomm, noffset, nextid, newnodes, reqnodes,
       waiting, owned, requested, contrib, reduced, part, nchare, inside, chinpoel,
       ndist, calls, sent, refiner>>

\* A step of Sorter.
Sorting ==
  /\ host = "sorting"
  /\ \E n \in {npoin} :
       \/ \E c \in Chare : Sort(n)!ChareStep(c)
       \/ \E tag \in Sort(n)!Tag : Sort(n)!Reduced(tag)
  /\ UNCHANGED setupVars

\* The program has stopped, or its workers are there.
Exit ==
  /\ \/ host = "finish"
     \/ host = "sorting" /\ msgs = {} /\ "workinserted" \in reduced
  /\ UNCHANGED vars

PartitionerStep(n) ==
  \/ Partitioner(n) \/ Partition(n) \/ Distribute(n) \/ AddMesh(n) \/ RecvMesh(n) \/ Refine(n)

Next ==
  \/ \E n \in Node : PartitionerStep(n)
  \/ \E c \in Chare : Refiner(c)
  \/ Load \/ Distributed \/ RefInserted \/ Refined
  \/ Sorting
  \/ Exit

Spec == Init /\ [][Next]_vars

\* The Charm++ scheduler delivers a message as long as there is one.
FairSpec == Spec /\ WF_vars(Next)

-----------------------------------------------------------------------------
\* What Zoltan assigned to chare c.
Assigned(c) == {t \in Tet : part[t] = c}

\* However chunks, acknowledgements and the readers' own stores cross each other,
\* Sorter starts from exactly the meshes Zoltan assigned, none of them empty, and
\* its communication maps are those of these meshes (Partitioner::distribute,
\* addMesh, recvMesh, refine; Transporter::refinserted).  Also, no part of a mesh
\* reaches a node that does not know the number of chares yet (addMesh -> node()).
WholeMesh ==
  /\ host = "sorting" => \A c \in Chare : refiner[c] = Assigned(c) /\ refiner[c] # {}
  /\ "responded" \in reduced => \A c, d \in Chare :
       msum[c][d] = IF c = d THEN {} ELSE Points(Assigned(c)) \cap Points(Assigned(d))
  /\ \A m \in calls : m.type = "addMesh" => nchare[m.to] > 0

\* Either workers are created, or a chare without a mesh made the program stop.
Completes ==
  \/ <>[](host = "sorting" /\ "workinserted" \in reduced)
  \/ <>[](host = "finish" /\ \E c \in Chare : Assigned(c) = {})
=============================================================================
