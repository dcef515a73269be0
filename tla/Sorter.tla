------------------------------- MODULE Sorter -------------------------------
(***************************************************************************)
(* The Charm++ chare array Sorter (src/Inciter/Sorter.C, sorter.ci): every *)
(* chare holds a chunk of the mesh.  The array first builds the symmetric  *)
(* map of the nodes that each pair of chares shares, through a distributed *)
(* table (setup, query, response, bnd), then, if asked to, renumbers all   *)
(* nodes so that ids are contiguous (mask, offset, reorder, request,       *)
(* prepare, neworder, finish), and hands the mesh to Discretization.       *)
(*                                                                         *)
(* Entry-method calls on other chares are asynchronous: they are messages  *)
(* in the set msgs, delivered in any order.  A contribute() counts for the *)
(* reduction of its callback; the host (Transporter) reacts when all       *)
(* chares have contributed.  A `when a(), b()` of sorter.ci needs a posted *)
(* wait and one buffered trigger of each kind.                             *)
(***************************************************************************)
EXTENDS Integers, FiniteSets

CONSTANTS
  NChare,     \* number of chares, m_nchare
  NPoin,      \* number of nodes summed over the chares, argument of setup()
  MaxSize,    \* largest std::size_t
  Meshes,     \* partitioned meshes to start from: the node set of each chare
  Reorder     \* tag::discr, tag::reorder of the input deck

Chare == 0 .. (NChare - 1)
NodeId == 0 .. MaxSize

\* Every chare holds at least one tetrahedron (Partitioner stops otherwise), so
\* the sum of their node counts, NPoin, is never below the number of chares.
ASSUME SorterAssumption ==
  /\ NChare \in Nat \ {0}
  /\ NPoin \in Nat /\ NPoin >= NChare
  /\ MaxSize \in Nat /\ MaxSize >= NChare
  /\ Meshes \subseteq [Chare -> (SUBSET NodeId) \ {{}}]
  /\ Reorder \in BOOLEAN

VARIABLES
  nodeset,    \* m_nodeset: ids of the nodes of the chunk, as constructed
  ginpoel,    \* ids the element connectivity m_ginpoel refers to
  refmesh,    \* the same in the Refiner chare of this index
  nbnd,       \* m_nbnd: receipts still expected
  chnode,     \* m_chnode: chare -> its boundary nodes binned to us; m_nodech is its inverse
  msum,       \* m_msum: chare -> nodes shared with it
  reordcomm,  \* m_reordcomm: lower chare -> nodes it numbers for us
  noffset,    \* m_noffset: node counts received
  nextid,     \* m_start: next id to assign
  newnodes,   \* m_newnodes: old id -> new id
  reqnodes,   \* m_reqnodes: queued requests
  waiting,    \* posted wait4prep
  owned,      \* buffered reorderowned_complete triggers
  requested,  \* buffered nodes_requested_complete triggers
  msgs,       \* entry-method calls in flight
  contrib,    \* contributions of each chare to each reduction
  reduced     \* reductions the host has received

vars == <<nodeset, ginpoel, refmesh, nbnd, chnode, msum, reordcomm, noffset,
          nextid, newnodes, reqnodes, waiting, owned, requested, msgs, contrib,
          reduced>>

Unassigned == -1
Tag == {"queried", "responded", "discinserted", "workinserted"}

Contribute(c, tag) == contrib' = [contrib EXCEPT ![tag][c] = @ + 1]

\* The chare that keeps the part of the distributed table with node g.
Bin(g) ==
  LET first == g \div (NPoin \div NChare)
      second == g \div (MaxSize \div NChare)
  IN  IF first < NChare THEN first ELSE IF second < NChare THEN second ELSE NChare - 1

\* Nodes of c that other chares have too: all are on the boundary of the chunk.
Shared(c) == {n \in nodeset[c] : \E d \in Chare \ {c} : n \in nodeset[d]}

-----------------------------------------------------------------------------
Init ==
  /\ nodeset \in Meshes
  /\ ginpoel = nodeset
  /\ refmesh = nodeset
  /\ nbnd = [c \in Chare |-> 0]
  /\ chnode = [c \in Chare |-> [d \in Chare |-> {}]]
  /\ msum = [c \in Chare |-> [d \in Chare |-> {}]]
  /\ reordcomm = [c \in Chare |-> [d \in Chare |-> {}]]
  /\ noffset = [c \in Chare |-> 0]
  /\ nextid = [c \in Chare |-> 0]
  /\ newnodes = [c \in Chare |-> [n \in NodeId |-> Unassigned]]
  /\ reqnodes = [c \in Chare |-> {}]
  /\ waiting = [c \in Chare |-> 0]
  /\ owned = [c \in Chare |-> 0]
  /\ requested = [c \in Chare |-> 0]
  /\ msgs = {[type |-> "setup", to |-> c] : c \in Chare}
  /\ contrib = [t \in Tag |-> [c \in Chare |-> 0]]
  /\ reduced = {}

\* Sorter::setup: send the boundary nodes, binned, to the chares of the bins.
\* A chunk of tetrahedra has boundary nodes: all shared ones, and those on the
\* surface of the whole mesh.
Setup(c) ==
  LET m == [type |-> "setup", to |-> c]
  IN  /\ m \in msgs
      /\ \E bnodes \in (SUBSET nodeset[c]) \ {{}} :
           LET bins == {Bin(g) : g \in bnodes}
           IN  /\ Shared(c) \subseteq bnodes
               /\ nbnd' = [nbnd EXCEPT ![c] = Cardinality(bins)]
               /\ msgs' = (msgs \ {m}) \cup
                    {[type |-> "query", to |-> b, from |-> c,
                      nodes |-> {g \in bnodes : Bin(g) = b}] : b \in bins}
      /\ UNCHANGED <<nodeset, ginpoel, refmesh, chnode, msum, reordcomm, noffset,
           nextid, newnodes, reqnodes, waiting, owned, requested, contrib, reduced>>

\* Sorter::query: file the nodes of chare m.from and send it a receipt.
Query(c) ==
  \E m \in msgs :
    /\ m.type = "query" /\ m.to = c
    /\ chnode' = [chnode EXCEPT ![c][m.from] = @ \cup m.nodes]
    /\ msgs' = (msgs \ {m}) \cup {[type |-> "recvquery", to |-> m.from, from |-> c]}
    /\ UNCHANGED <<nodeset, ginpoel, refmesh, nbnd, msum, reordcomm, noffset,
         nextid, newnodes, reqnodes, waiting, owned, requested, contrib, reduced>>

\* Mutant of LastReceipt: contribute with a receipt missing.
LastReceiptEarly(c) == nbnd[c] - 1 <= 1

LastReceipt(c) == nbnd[c] - 1 = 0

\* Sorter::recvquery and Sorter::recvbnd: count a receipt, contribute at the last.
Receipt(c, type, tag) ==
  \E m \in msgs :
    /\ m.type = type /\ m.to = c
    /\ msgs' = msgs \ {m}
    /\ nbnd' = [nbnd EXCEPT ![c] = @ - 1]
    /\ IF LastReceipt(c) THEN Contribute(c, tag) ELSE UNCHANGED contrib
    /\ UNCHANGED <<nodeset, ginpoel, refmesh, chnode, msum, reordcomm, noffset,
         nextid, newnodes, reqnodes, waiting, owned, requested, reduced>>

RecvQuery(c) == Receipt(c, "recvquery", "queried")
RecvBnd(c) == Receipt(c, "recvbnd", "responded")

\* Mutant of Common: without `d != c.first`.
CommonWithAsker(c, d) == [e \in Chare |-> chnode[c][d] \cap chnode[c][e]]

\* The nodes asked about by d that chare e asked about as well, as c knows it.
Common(c, d) == [e \in Chare |-> IF e # d THEN chnode[c][d] \cap chnode[c][e] ELSE {}]

\* Sorter::response: answer every chare that queried us with the nodes it shares.
Response(c) ==
  LET m == [type |-> "response", to |-> c]
      askers == {d \in Chare : chnode[c][d] # {}}
  IN  /\ m \in msgs
      /\ nbnd' = [nbnd EXCEPT ![c] = Cardinality(askers)]
      /\ IF askers = {} THEN Contribute(c, "responded") ELSE UNCHANGED contrib
      /\ msgs' = (msgs \ {m}) \cup
           {[type |-> "bnd", to |-> d, from |-> c, msum |-> Common(c, d)] : d \in askers}
      /\ UNCHANGED <<nodeset, ginpoel, refmesh, chnode, msum, reordcomm, noffset,
           nextid, newnodes, reqnodes, waiting, owned, requested, reduced>>

\* Sorter::bnd: merge a part of the communication map and send a receipt.
Bnd(c) ==
  \E m \in msgs :
    /\ m.type = "bnd" /\ m.to = c
    /\ msum' = [msum EXCEPT ![c] = [d \in Chare |-> @[d] \cup m.msum[d]]]
    /\ msgs' = (msgs \ {m}) \cup {[type |-> "recvbnd", to |-> m.from, from |-> c]}
    /\ UNCHANGED <<nodeset, ginpoel, refmesh, nbnd, chnode, reordcomm, noffset,
         nextid, newnodes, reqnodes, waiting, owned, requested, contrib, reduced>>

\* Mutant of Mask: without the std::none_of over the lower chares.
MaskAllLower(c) == [d \in Chare |-> IF d < c THEN msum[c][d] ELSE {}]

\* Sorter::mask: the nodes chare d < c numbers for c are those c shares with d
\* and with no chare below d.
Mask(c) ==
  [d \in Chare |->
     {n \in NodeId : /\ d < c /\ n \in msum[c][d]
                     /\ \A e \in 0 .. (d - 1) : n \notin msum[c][e]}]

\* Mutant of Nuniq: count the nodes others number too.
NuniqAll(c, mask) == Cardinality(nodeset[c])

\* Number of ids c assigns; tk::sumvalsize adds the sizes of the sets of mask.
Nuniq(c, mask) ==
  Cardinality(nodeset[c]) - Cardinality({p \in Chare \X NodeId : p[2] \in mask[p[1]]})

\* Sorter::start: drop the table; mask() and announce how many ids we assign, or,
\* without reordering, createDiscWorkers() at once.
Start(c) ==
  LET m == [type |-> "start", to |-> c]
      mask == Mask(c)
  IN  /\ m \in msgs
      /\ chnode' = [chnode EXCEPT ![c] = [d \in Chare |-> {}]]
      /\ \/ /\ Reorder
            /\ reordcomm' = [reordcomm EXCEPT ![c] = mask]
            /\ msgs' = (msgs \ {m}) \cup
                 {[type |-> "offset", to |-> d, from |-> c, num |-> Nuniq(c, mask)] :
                    d \in Chare}
            /\ UNCHANGED contrib
         \/ /\ ~Reorder
            /\ Contribute(c, "discinserted")
            /\ msgs' = msgs \ {m}
            /\ UNCHANGED reordcomm
      /\ UNCHANGED <<nodeset, ginpoel, refmesh, nbnd, msum, noffset, nextid,
           newnodes, reqnodes, waiting, owned, requested, reduced>>

\* Mutant of Renumbered: keep the old ids.
RenumberedNot(c, new) == msum[c]

\* tk::cref_find in m_newnodes; the code throws where this is Unassigned.
CrefFind(new, n) == IF n \in NodeId THEN new[n] ELSE Unassigned

\* The communication map of c in the new ids.
Renumbered(c, new) == [d \in Chare |-> {CrefFind(new, n) : n \in msum[c][d]}]

\* Sorter::finish, called with the new ids: renumber the mesh and the shared
\* nodes, have Refiner fetch the mesh, createDiscWorkers().
Finish(c, new, others) ==
  /\ ginpoel' = [ginpoel EXCEPT ![c] = {CrefFind(new, n) : n \in @}]
  /\ msum' = [msum EXCEPT ![c] = Renumbered(c, new)]
  /\ msgs' = others \cup {[type |-> "reorderRefiner", to |-> c]}
  /\ Contribute(c, "discinserted")

\* The end of reorder() and neworder(): finish() once all nodes have new ids.
FinishIfNumbered(c, new, others) ==
  /\ newnodes' = [newnodes EXCEPT ![c] = new]
  /\ IF Cardinality({n \in NodeId : new[n] # Unassigned}) = Cardinality(nodeset[c])
     THEN Finish(c, new, others)
     ELSE msgs' = others /\ UNCHANGED <<ginpoel, msum, contrib>>

\* Mutant of Own: ignore the communication map.
OwnAll(c) == nodeset[c]

\* Nodes c numbers itself: ownnode() of reorder().
Own(c) == {n \in nodeset[c] : \A d \in Chare : n \notin reordcomm[c][d]}

\* The ways to number the nodes S from id first on: m_nodeset has no fixed order.
Numberings(S, first) ==
  {f \in [S -> first .. (first + Cardinality(S) - 1)] :
     \A n, k \in S : f[n] = f[k] => n = k}

\* Sorter::reorder: ask the lower chares for the ids they assign and assign ours.
\* The trigger reorderowned_complete() is only buffered: wait4prep is on its way.
ReorderOwn(c, first, others) ==
  LET lower == {d \in Chare : reordcomm[c][d] # {}}
  IN  \E f \in Numberings(Own(c), first) :
        /\ nextid' = [nextid EXCEPT ![c] = first + Cardinality(Own(c))]
        /\ owned' = [owned EXCEPT ![c] = @ + 1]
        /\ FinishIfNumbered(c,
             [n \in NodeId |-> IF n \in Own(c) THEN f[n] ELSE newnodes[c][n]],
             others \cup {[type |-> "wait4prep", to |-> c]} \cup
             {[type |-> "request", to |-> d, from |-> c, nodes |-> reordcomm[c][d]] :
                d \in lower})

\* Sorter::offset: add up what lower chares assign; reorder() when all have reported.
Offset(c) ==
  \E m \in msgs :
    LET first == nextid[c] + (IF m.from < c THEN m.num ELSE 0)
    IN  /\ m.type = "offset" /\ m.to = c
        /\ noffset' = [noffset EXCEPT ![c] = @ + 1]
        /\ \/ /\ noffset[c] + 1 = NChare
              /\ ReorderOwn(c, first, msgs \ {m})
           \/ /\ noffset[c] + 1 # NChare
              /\ nextid' = [nextid EXCEPT ![c] = first]
              /\ msgs' = msgs \ {m}
              /\ UNCHANGED <<owned, newnodes, ginpoel, msum, contrib>>
        /\ UNCHANGED <<nodeset, refmesh, nbnd, chnode, reordcomm, reqnodes,
             waiting, requested, reduced>>

\* What prepare() sends for a request of nodes.
Answer(c, nodes) ==
  [n \in NodeId |-> IF n \in nodes THEN newnodes[c][n] ELSE Unassigned]

\* Mutant of Prepare: wait4prep is not posted again.
PrepareOnce(c, queue, others) ==
  /\ reqnodes' = [reqnodes EXCEPT ![c] = {}]
  /\ msgs' = others \cup
       {[type |-> "neworder", to |-> r.from, from |-> c, nodes |-> r.nodes,
         ids |-> Answer(c, r.nodes)] : r \in queue}

\* Sorter::prepare: answer the queued requests, clear the queue, post wait4prep
\* again and re-trigger reorderowned_complete() (one consumed, one buffered).
Prepare(c, queue, others) ==
  /\ reqnodes' = [reqnodes EXCEPT ![c] = {}]
  /\ msgs' = others \cup {[type |-> "wait4prep", to |-> c]} \cup
       {[type |-> "neworder", to |-> r.from, from |-> c, nodes |-> r.nodes,
         ids |-> Answer(c, r.nodes)] : r \in queue}

\* wait4prep is posted and the trigger of our own nodes is buffered.
Prepared(c) == waiting[c] > 0 /\ owned[c] > 0

\* Sorter::request: queue it and trigger nodes_requested_complete(), which runs
\* prepare() if wait4prep is posted and our own nodes are numbered.
Request(c) ==
  \E m \in msgs :
    LET queue == reqnodes[c] \cup {[from |-> m.from, nodes |-> m.nodes]}
    IN  /\ m.type = "request" /\ m.to = c
        /\ \/ /\ Prepared(c)
              /\ waiting' = [waiting EXCEPT ![c] = @ - 1]
              /\ Prepare(c, queue, msgs \ {m})
              /\ UNCHANGED requested
           \/ /\ ~Prepared(c)
              /\ requested' = [requested EXCEPT ![c] = @ + 1]
              /\ reqnodes' = [reqnodes EXCEPT ![c] = queue]
              /\ msgs' = msgs \ {m}
              /\ UNCHANGED waiting
        /\ UNCHANGED <<nodeset, ginpoel, refmesh, nbnd, chnode, msum, reordcomm,
             noffset, nextid, newnodes, owned, contrib, reduced>>

\* sorter.ci, wait4prep: post the wait, or run prepare() if both triggers are there.
Wait4Prep(c) ==
  LET m == [type |-> "wait4prep", to |-> c]
  IN  /\ m \in msgs
      /\ \/ /\ owned[c] > 0 /\ requested[c] > 0
            /\ requested' = [requested EXCEPT ![c] = @ - 1]
            /\ Prepare(c, reqnodes[c], msgs \ {m})
            /\ UNCHANGED waiting
         \/ /\ ~(owned[c] > 0 /\ requested[c] > 0)
            /\ waiting' = [waiting EXCEPT ![c] = @ + 1]
            /\ msgs' = msgs \ {m}
            /\ UNCHANGED <<requested, reqnodes>>
      /\ UNCHANGED <<nodeset, ginpoel, refmesh, nbnd, chnode, msum, reordcomm,
           noffset, nextid, newnodes, owned, contrib, reduced>>

\* Sorter::neworder: store ids assigned by a lower chare.
NewOrder(c) ==
  \E m \in msgs :
    /\ m.type = "neworder" /\ m.to = c
    /\ FinishIfNumbered(c,
         [n \in NodeId |-> IF n \in m.nodes THEN m.ids[n] ELSE newnodes[c][n]],
         msgs \ {m})
    /\ UNCHANGED <<nodeset, refmesh, nbnd, chnode, reordcomm, noffset, nextid,
         reqnodes, waiting, owned, requested, reduced>>

\* Refiner::reorder, the callback of finish(): copy the mesh of Sorter, by mesh().
RefinerReorder(c) ==
  LET m == [type |-> "reorderRefiner", to |-> c]
  IN  /\ m \in msgs
      /\ msgs' = msgs \ {m}
      /\ refmesh' = [refmesh EXCEPT ![c] = ginpoel[c]]
      /\ UNCHANGED <<nodeset, ginpoel, nbnd, chnode, msum, reordcomm, noffset,
           nextid, newnodes, reqnodes, waiting, owned, requested, contrib, reduced>>

\* Sorter::createWorkers
CreateWorkers(c) ==
  LET m == [type |-> "createWorkers", to |-> c]
  IN  /\ m \in msgs
      /\ msgs' = msgs \ {m}
      /\ Contribute(c, "workinserted")
      /\ UNCHANGED <<nodeset, ginpoel, refmesh, nbnd, chnode, msum, reordcomm,
           noffset, nextid, newnodes, reqnodes, waiting, owned, requested, reduced>>

\* Transporter::queried, responded and discinserted: a completed reduction makes
\* the host broadcast the next call.  Between discinserted and createWorkers lie
\* the steps of Discretization, which do not touch Sorter.  workinserted ends the
\* work of Sorter.
FollowUp == [queried |-> "response", responded |-> "start",
              discinserted |-> "createWorkers"]
Reduced(tag) ==
  /\ tag \notin reduced
  /\ \A c \in Chare : contrib[tag][c] > 0
  /\ reduced' = reduced \cup {tag}
  /\ msgs' = IF tag \in DOMAIN FollowUp
             THEN msgs \cup {[type |-> FollowUp[tag], to |-> c] : c \in Chare}
             ELSE msgs
  /\ UNCHANGED <<nodeset, ginpoel, refmesh, nbnd, chnode, msum, reordcomm, noffset,
       nextid, newnodes, reqnodes, waiting, owned, requested, contrib>>

\* All calls delivered and all reductions received: nothing is left to happen.
Quiescent ==
  /\ msgs = {} /\ "workinserted" \in reduced
  /\ UNCHANGED vars

ChareStep(c) ==
  \/ Setup(c) \/ Query(c) \/ RecvQuery(c) \/ Response(c) \/ Bnd(c) \/ RecvBnd(c)
  \/ Start(c) \/ Offset(c) \/ Request(c) \/ Wait4Prep(c) \/ NewOrder(c)
  \/ RefinerReorder(c) \/ CreateWorkers(c)

Next ==
  \/ \E c \in Chare : ChareStep(c)
  \/ \E tag \in Tag : Reduced(tag)
  \/ Quiescent

Spec == Init /\ [][Next]_vars

\* The Charm++ scheduler delivers a message as long as there is one.
FairSpec == Spec /\ WF_vars(Next)

-----------------------------------------------------------------------------
Message ==
  [type : {"setup", "response", "start", "wait4prep", "reorderRefiner",
           "createWorkers"}, to : Chare]
  \cup [type : {"query", "request"}, to : Chare, from : Chare, nodes : SUBSET NodeId]
  \cup [type : {"recvquery", "recvbnd"}, to : Chare, from : Chare]
  \cup [type : {"bnd"}, to : Chare, from : Chare, msum : [Chare -> SUBSET NodeId]]
  \cup [type : {"offset"}, to : Chare, from : Chare, num : Int]
  \cup [type : {"neworder"}, to : Chare, from : Chare,
        nodes : SUBSET NodeId, ids : [NodeId -> Int]]

\* Types of the state.  Int and not Nat where the code could go wrong below zero.
TypeOK ==
  /\ nodeset \in [Chare -> SUBSET NodeId]
  /\ ginpoel \in [Chare -> SUBSET Int]
  /\ refmesh \in [Chare -> SUBSET Int]
  /\ nbnd \in [Chare -> Int]
  /\ chnode \in [Chare -> [Chare -> SUBSET NodeId]]
  /\ msum \in [Chare -> [Chare -> SUBSET Int]]
  /\ reordcomm \in [Chare -> [Chare -> SUBSET NodeId]]
  /\ noffset \in [Chare -> Nat]
  /\ nextid \in [Chare -> Int]
  /\ newnodes \in [Chare -> [NodeId -> Int]]
  /\ reqnodes \in [Chare -> SUBSET [from : Chare, nodes : SUBSET NodeId]]
  /\ waiting \in [Chare -> Nat] /\ owned \in [Chare -> Nat] /\ requested \in [Chare -> Nat]
  /\ msgs \subseteq Message
  /\ contrib \in [Tag -> [Chare -> Nat]]
  /\ reduced \subseteq Tag

\* Chares that have handed their mesh over to Discretization.
HandedOver(c) == contrib["discinserted"][c] > 0

\* The ids chare c uses for nodes S: the new ones once it has renumbered.
Ids(c, S) == IF Reorder /\ HandedOver(c) THEN {newnodes[c][n] : n \in S} ELSE S

\* When response() of all chares has been received, each chare knows exactly the
\* nodes it shares with each other chare, in spite of queries, answers and
\* receipts crossing each other, of the binning, and of the renumbering going on
\* in some chares already (Sorter::response, bnd, finish).
CommunicationMap ==
  "responded" \in reduced =>
    \A c, d \in Chare :
      msum[c][d] = IF c = d THEN {} ELSE Ids(c, nodeset[c] \cap nodeset[d])

\* Chares that know the new id of a node agree on it, whichever of them numbered
\* it and whichever way they got to know (Sorter::mask, reorder, prepare, neworder).
IdsAgree ==
  \A c, d \in Chare : \A n \in NodeId :
    newnodes[c][n] # Unassigned /\ newnodes[d][n] # Unassigned =>
      newnodes[c][n] = newnodes[d][n]

\* The lookup m_newnodes in prepare() never fails: a node is requested from the
\* chare that numbers it, and answered after it is numbered.
RequestsServed ==
  \A m \in msgs : m.type = "neworder" => \A n \in m.nodes : m.ids[n] # Unassigned

\* Each chare contributes once to each reduction, or the reductions of the array
\* would get out of step: receipts are not counted twice, finish() runs once.
ContributesOnce == \A t \in Tag : \A c \in Chare : contrib[t][c] <= 1

\* All chares finish renumbering, get their workers, and Refiner gets the same mesh.
Completes == <>[]("workinserted" \in reduced /\ refmesh = ginpoel)

\* The reordering implements the renumbering it promises.
NumberOf(n) ==
  IF \E c \in Chare : newnodes[c][n] # Unassigned
  THEN LET c == CHOOSE c \in Chare : newnodes[c][n] # Unassigned IN newnodes[c][n]
  ELSE Unassigned

Promise == INSTANCE Renumbering WITH
  Node <- NodeId,
  mesh <- nodeset,
  number <- [n \in NodeId |-> NumberOf(n)],
  known <- [c \in Chare |-> {n \in NodeId : newnodes[c][n] # Unassigned}],
  done <- {c \in Chare : HandedOver(c)}

\* Every step of Sorter is a step of Renumbering or leaves the numbering alone.
ImplementsRenumbering == Promise!Spec
=============================================================================
