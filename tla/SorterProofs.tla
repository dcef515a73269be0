---------------------------- MODULE SorterProofs ----------------------------
(***************************************************************************)
(* What Sorter does, for every mesh, number of chares and order of         *)
(* delivery: types, that all chares agree on the new ids of the nodes,     *)
(* that requests are answered with ids, that every chare contributes once  *)
(* to each reduction, and that the communication map is exact, in the ids  *)
(* each chare uses.  The invariant of SorterInvariant is inductive: one    *)
(* lemma per exchange and action that takes part in it.                    *)
(***************************************************************************)
EXTENDS SorterInvariant, FiniteSetTheorems, WellFoundedInduction, TLAPS

USE SorterAssumption

-----------------------------------------------------------------------------
(* The exchanges that build the communication map.                         *)

\* Sets of chares and of node ids are finite, so their cardinalities are numbers.
LEMMA FiniteChares ==
  /\ IsFiniteSet(Chare) /\ IsFiniteSet(NodeId)
  /\ \A S : S \subseteq Chare => IsFiniteSet(S) /\ Cardinality(S) \in Nat
  /\ \A S : S \subseteq NodeId => IsFiniteSet(S) /\ Cardinality(S) \in Nat
  /\ \A S : S \subseteq Chare \X NodeId => Cardinality(S) \in Nat
<1>1. IsFiniteSet(Chare) /\ IsFiniteSet(NodeId)
  BY FS_Interval DEF Chare, NodeId
<1>2. IsFiniteSet(Chare \X NodeId)
  BY <1>1, FS_Product
<1> QED
  BY <1>1, <1>2, FS_Subset, FS_CardinalityType

\* Every node is filed at a chare of the array, whatever its id (Sorter::setup).
LEMMA BinType == \A g \in NodeId : Bin(g) \in Chare
<1> SUFFICES ASSUME NEW g \in NodeId PROVE Bin(g) \in Chare
  OBVIOUS
<1>1. NPoin \div NChare \in Nat \ {0} /\ MaxSize \div NChare \in Nat \ {0}
  BY Z3
<1>2. g \div (NPoin \div NChare) \in Nat /\ g \div (MaxSize \div NChare) \in Nat
  <2>1. \A d \in Nat \ {0} : g \div d \in Nat
    BY Z3 DEF NodeId
  <2> QED BY <1>1, <2>1
<1> QED
  BY <1>2 DEF Bin, Chare

LEMMA InitTypeOK == Init => TypeOK
<1> SUFFICES ASSUME Init PROVE TypeOK
  OBVIOUS
<1>1. nodeset \in [Chare -> SUBSET NodeId] /\ NodeId \subseteq Int
  BY DEF Init, NodeId
<1>2. ginpoel \in [Chare -> SUBSET Int] /\ refmesh \in [Chare -> SUBSET Int]
  BY <1>1 DEF Init
<1>3. msgs \subseteq Message
  BY DEF Init, Message
<1> QED
  BY <1>1, <1>2, <1>3 DEF Init, TypeOK, Unassigned

\* The arguments of the calls in flight.
LEMMA Arguments ==
  ASSUME TypeOK, NEW m \in msgs
  PROVE  /\ m.type \in {"query", "request", "neworder"} =>
              m.from \in Chare /\ m.to \in Chare /\ m.nodes \subseteq NodeId
         /\ m.type \in {"recvquery", "recvbnd"} => m.from \in Chare /\ m.to \in Chare
         /\ m.type = "bnd" =>
              m.from \in Chare /\ m.to \in Chare /\ m.msum \in [Chare -> SUBSET NodeId]
         /\ m.type = "offset" => m.from \in Chare /\ m.to \in Chare /\ m.num \in Int
         /\ m.type = "neworder" => m.ids \in [NodeId -> Int]
  <1>1. m \in Message
    BY DEF TypeOK
  <1>2. CASE m \in [type : {"setup", "response", "start", "wait4prep", "reorderRefiner",
                            "createWorkers"}, to : Chare]
    BY <1>2
  <1>3. CASE m \in [type : {"query", "request"}, to : Chare, from : Chare,
                    nodes : SUBSET NodeId]
    BY <1>3
  <1>4. CASE m \in [type : {"recvquery", "recvbnd"}, to : Chare, from : Chare]
    BY <1>4
  <1>5. CASE m \in [type : {"bnd"}, to : Chare, from : Chare, msum : [Chare -> SUBSET NodeId]]
    BY <1>5
  <1>6. CASE m \in [type : {"offset"}, to : Chare, from : Chare, num : Int]
    BY <1>6
  <1>7. CASE m \in [type : {"neworder"}, to : Chare, from : Chare,
                    nodes : SUBSET NodeId, ids : [NodeId -> Int]]
    BY <1>7
  <1> QED BY <1>1, <1>2, <1>3, <1>4, <1>5, <1>6, <1>7 DEF Message

\* The calls that the entry methods make are messages.
LEMMA Calls ==
  ASSUME NEW c \in Chare, NEW d \in Chare, NEW nodes \in SUBSET NodeId
  PROVE  /\ [type |-> "response", to |-> c] \in Message
         /\ [type |-> "start", to |-> c] \in Message
         /\ [type |-> "wait4prep", to |-> c] \in Message
         /\ [type |-> "reorderRefiner", to |-> c] \in Message
         /\ [type |-> "createWorkers", to |-> c] \in Message
         /\ [type |-> "query", to |-> c, from |-> d, nodes |-> nodes] \in Message
         /\ [type |-> "request", to |-> c, from |-> d, nodes |-> nodes] \in Message
         /\ [type |-> "recvquery", to |-> c, from |-> d] \in Message
         /\ [type |-> "recvbnd", to |-> c, from |-> d] \in Message
         /\ \A f \in [Chare -> SUBSET NodeId] :
              [type |-> "bnd", to |-> c, from |-> d, msum |-> f] \in Message
         /\ \A i \in Int : [type |-> "offset", to |-> c, from |-> d, num |-> i] \in Message
         /\ \A f \in [NodeId -> Int] :
              [type |-> "neworder", to |-> c, from |-> d, nodes |-> nodes, ids |-> f] \in Message
  BY DEF Message

\* A contribution is counted.
LEMMA Contributions ==
  ASSUME TypeOK, NEW c \in Chare, NEW tag \in Tag, Contribute(c, tag) \/ UNCHANGED contrib
  PROVE  contrib' \in [Tag -> [Chare -> Nat]]
  <1>1. CASE Contribute(c, tag)
    <2>1. contrib[tag][c] + 1 \in Nat
      BY DEF TypeOK
    <2> QED BY <1>1, <2>1 DEF Contribute, TypeOK
  <1>2. CASE UNCHANGED contrib
    BY <1>2 DEF TypeOK
  <1> QED BY <1>1, <1>2

\* Cardinalities of the sets that setup(), response(), mask() and reorder() count.
LEMMA Counts ==
  ASSUME TypeOK, NEW c \in Chare
  PROVE  /\ \A S : Cardinality({Bin(g) : g \in S \cap NodeId}) \in Nat
         /\ \A d \in Chare : Common(c, d) \in [Chare -> SUBSET NodeId]
         /\ Nuniq(c, Mask(c)) \in Int
         /\ Cardinality(Own(c)) \in Nat /\ Own(c) \subseteq NodeId
  <1>1. \A S : {Bin(g) : g \in S \cap NodeId} \subseteq Chare
    BY BinType
  <1>2. \A d \in Chare : Common(c, d) \in [Chare -> SUBSET NodeId]
    BY DEF Common, TypeOK
  <1>3. Cardinality(nodeset[c]) \in Nat
    BY FiniteChares DEF TypeOK
  <1>4. Nuniq(c, Mask(c)) \in Int
    <2>1. {p \in Chare \X NodeId : p[2] \in Mask(c)[p[1]]} \subseteq Chare \X NodeId
      OBVIOUS
    <2> QED BY <1>3, <2>1, FiniteChares DEF Nuniq
  <1>5. Own(c) \subseteq NodeId
    BY DEF Own, TypeOK
  <1> QED BY <1>1, <1>2, <1>4, <1>5, FiniteChares

\* finish() keeps the types of what it renumbers, whatever the new ids.  The mesh and
\* the communication map it renumbers hold old ids, so the map must be typed too.
LEMMA FinishType ==
  ASSUME TypeOK, NEW c \in Chare, NEW new \in [NodeId -> Int],
         NEW others \in SUBSET Message, FinishIfNumbered(c, new, others)
  PROVE  /\ newnodes' \in [Chare -> [NodeId -> Int]] /\ ginpoel' \in [Chare -> SUBSET Int]
         /\ msum' \in [Chare -> [Chare -> SUBSET Int]] /\ msgs' \subseteq Message
         /\ contrib' \in [Tag -> [Chare -> Nat]]
  <1>1. newnodes' \in [Chare -> [NodeId -> Int]]
    BY DEF FinishIfNumbered, TypeOK
  <1>2. CASE Finish(c, new, others)
    <2>1. msgs' \subseteq Message
      BY <1>2 DEF Finish, Message
    <2>2. contrib' \in [Tag -> [Chare -> Nat]]
      BY <1>2 DEF Finish, Contribute, Tag, TypeOK
    <2>3. ginpoel' \in [Chare -> SUBSET Int]
      BY <1>2 DEF Finish, CrefFind, Unassigned, TypeOK
    <2>4. msum' \in [Chare -> [Chare -> SUBSET Int]]
      BY <1>2 DEF Finish, Renumbered, CrefFind, Unassigned, TypeOK
    <2> QED BY <1>1, <2>1, <2>2, <2>3, <2>4
  <1>3. CASE msgs' = others /\ UNCHANGED <<ginpoel, msum, contrib>>
    BY <1>1, <1>3 DEF TypeOK
  <1> QED BY <1>2, <1>3 DEF FinishIfNumbered

\* reorder() numbers with integers and sends well-formed requests.
LEMMA ReorderOwnType ==
  ASSUME TypeOK, NEW c \in Chare, NEW first \in Int, NEW m, ReorderOwn(c, first, msgs \ {m})
  PROVE  /\ nextid' \in [Chare -> Int] /\ newnodes' \in [Chare -> [NodeId -> Int]]
         /\ owned' \in [Chare -> Nat] /\ ginpoel' \in [Chare -> SUBSET Int]
         /\ msum' \in [Chare -> [Chare -> SUBSET Int]] /\ msgs' \subseteq Message
         /\ contrib' \in [Tag -> [Chare -> Nat]]
  <1> DEFINE lower == {d \in Chare : reordcomm[c][d] # {}}
             out == (msgs \ {m}) \cup {[type |-> "wait4prep", to |-> c]} \cup
               {[type |-> "request", to |-> d, from |-> c, nodes |-> reordcomm[c][d]] :
                  d \in lower}
  <1>1. Cardinality(Own(c)) \in Nat /\ Own(c) \subseteq NodeId
    BY Counts
  <1>2. PICK f \in Numberings(Own(c), first) :
          /\ nextid' = [nextid EXCEPT ![c] = first + Cardinality(Own(c))]
          /\ owned' = [owned EXCEPT ![c] = @ + 1]
          /\ FinishIfNumbered(c,
               [n \in NodeId |-> IF n \in Own(c) THEN f[n] ELSE newnodes[c][n]], out)
    BY DEF ReorderOwn
  <1>3. f \in [Own(c) -> Int]
    BY <1>1 DEF Numberings
  <1>4. [n \in NodeId |-> IF n \in Own(c) THEN f[n] ELSE newnodes[c][n]] \in [NodeId -> Int]
    BY <1>3 DEF TypeOK
  <1>5. out \in SUBSET Message
    <2>1. ASSUME NEW d \in Chare
          PROVE  [type |-> "request", to |-> d, from |-> c, nodes |-> reordcomm[c][d]] \in Message
      <3>1. reordcomm[c][d] \in SUBSET NodeId
        BY DEF TypeOK
      <3> QED BY <3>1, Calls
    <2>2. [type |-> "wait4prep", to |-> c] \in Message
      BY Calls
    <2> QED BY <2>1, <2>2 DEF TypeOK
  <1>6. nextid' \in [Chare -> Int] /\ owned' \in [Chare -> Nat]
    BY <1>1, <1>2 DEF TypeOK
  <1> HIDE DEF out
  <1> QED BY <1>2, <1>4, <1>5, <1>6, FinishType

LEMMA PrepareType ==
  ASSUME TypeOK, NEW c \in Chare, NEW m,
         NEW queue \in SUBSET [from : Chare, nodes : SUBSET NodeId],
         Prepare(c, queue, msgs \ {m})
  PROVE  /\ reqnodes' \in [Chare -> SUBSET [from : Chare, nodes : SUBSET NodeId]]
         /\ msgs' \subseteq Message
  <1>1. \A r \in queue : Answer(c, r.nodes) \in [NodeId -> Int]
    BY DEF Answer, TypeOK, Unassigned
  <1>2. msgs' \subseteq Message
    BY <1>1 DEF Prepare, TypeOK, Message
  <1> QED BY <1>2 DEF Prepare, TypeOK

LEMMA NextTypeOK == TypeOK /\ [Next]_vars => TypeOK'
<1> SUFFICES ASSUME TypeOK, [Next]_vars PROVE TypeOK'
  OBVIOUS
<1> USE DEF TypeOK
<1>0. NodeId \subseteq Int /\ Chare \subseteq Int
  BY DEF NodeId, Chare
<1>1. ASSUME NEW c \in Chare, Setup(c) PROVE TypeOK'
  <2>1. PICK bnodes \in SUBSET nodeset[c] :
          /\ nbnd' = [nbnd EXCEPT ![c] = Cardinality({Bin(g) : g \in bnodes})]
          /\ msgs' = (msgs \ {[type |-> "setup", to |-> c]}) \cup
               {[type |-> "query", to |-> b, from |-> c,
                 nodes |-> {g \in bnodes : Bin(g) = b}] : b \in {Bin(g) : g \in bnodes}}
    BY <1>1 DEF Setup
  <2>2. bnodes \cap NodeId = bnodes /\ {Bin(g) : g \in bnodes} \subseteq Chare
    BY BinType
  <2>3. nbnd' \in [Chare -> Int]
    BY <2>1, <2>2, FiniteChares
  <2>4. msgs' \subseteq Message
    <3>1. ASSUME NEW b \in Chare
          PROVE  [type |-> "query", to |-> b, from |-> c,
                  nodes |-> {g \in bnodes : Bin(g) = b}] \in Message
      <4>1. {g \in bnodes : Bin(g) = b} \in SUBSET NodeId
        BY <2>2
      <4> QED BY <4>1, Calls
    <3> QED BY <2>1, <2>2, <3>1
  <2> QED BY <1>1, <2>3, <2>4 DEF Setup
<1>2. ASSUME NEW c \in Chare, Query(c) PROVE TypeOK'
  <2>1. PICK m \in msgs :
          /\ m.type = "query" /\ m.to = c
          /\ chnode' = [chnode EXCEPT ![c][m.from] = @ \cup m.nodes]
          /\ msgs' = (msgs \ {m}) \cup {[type |-> "recvquery", to |-> m.from, from |-> c]}
    BY <1>2 DEF Query
  <2>2. m.from \in Chare /\ m.nodes \subseteq NodeId
    BY <2>1, Arguments
  <2>3. chnode' \in [Chare -> [Chare -> SUBSET NodeId]]
    BY <2>1, <2>2
  <2>4. msgs' \subseteq Message
    BY <2>1, <2>2, Calls
  <2> QED BY <1>2, <2>3, <2>4 DEF Query
<1>3. ASSUME NEW c \in Chare, RecvQuery(c) \/ RecvBnd(c) PROVE TypeOK'
  <2>1. contrib' \in [Tag -> [Chare -> Nat]]
    BY <1>3, Contributions DEF RecvQuery, RecvBnd, Receipt, Tag
  <2> QED BY <1>3, <2>1 DEF RecvQuery, RecvBnd, Receipt
<1>4. ASSUME NEW c \in Chare, Response(c) PROVE TypeOK'
  <2>1. msgs' \subseteq Message
    <3>1. ASSUME NEW d \in Chare
          PROVE  [type |-> "bnd", to |-> d, from |-> c, msum |-> Common(c, d)] \in Message
      BY Counts, Calls
    <3> QED BY <1>4, <3>1 DEF Response
  <2>2. {d \in Chare : chnode[c][d] # {}} \subseteq Chare
    OBVIOUS
  <2>3. nbnd' \in [Chare -> Int]
    BY <1>4, <2>2, FiniteChares DEF Response
  <2>4. contrib' \in [Tag -> [Chare -> Nat]]
    BY <1>4, Contributions DEF Response, Tag
  <2> QED BY <1>4, <2>1, <2>3, <2>4 DEF Response
<1>5. ASSUME NEW c \in Chare, Bnd(c) PROVE TypeOK'
  <2>1. PICK m \in msgs : /\ m.type = "bnd" /\ m.to = c
          /\ msum' = [msum EXCEPT ![c] = [d \in Chare |-> @[d] \cup m.msum[d]]]
          /\ msgs' = (msgs \ {m}) \cup {[type |-> "recvbnd", to |-> m.from, from |-> c]}
    BY <1>5 DEF Bnd
  <2>2. m.msum \in [Chare -> SUBSET NodeId] /\ m.from \in Chare
    BY <2>1, Arguments
  <2>3. msum' \in [Chare -> [Chare -> SUBSET Int]]
    BY <1>0, <2>1, <2>2
  <2>4. msgs' \subseteq Message
    BY <2>1, <2>2, Calls
  <2> QED BY <1>5, <2>3, <2>4 DEF Bnd
<1>6. ASSUME NEW c \in Chare, Start(c) PROVE TypeOK'
  <2>1. Mask(c) \in [Chare -> SUBSET NodeId]
    BY DEF Mask
  <2>2. msgs' \subseteq Message
    <3>1. CASE msgs' = msgs \ {[type |-> "start", to |-> c]}
      BY <3>1
    <3>2. CASE msgs' = (msgs \ {[type |-> "start", to |-> c]}) \cup
                 {[type |-> "offset", to |-> d, from |-> c, num |-> Nuniq(c, Mask(c))] :
                    d \in Chare}
      <4>1. ASSUME NEW d \in Chare
            PROVE  [type |-> "offset", to |-> d, from |-> c, num |-> Nuniq(c, Mask(c))] \in Message
        BY Counts, Calls
      <4> QED BY <3>2, <4>1
    <3> QED BY <1>6, <3>1, <3>2 DEF Start
  <2>3. contrib' \in [Tag -> [Chare -> Nat]]
    BY <1>6, Contributions DEF Start, Tag
  <2>4. reordcomm' \in [Chare -> [Chare -> SUBSET NodeId]]
    BY <1>6, <2>1 DEF Start
  <2>5. chnode' \in [Chare -> [Chare -> SUBSET NodeId]]
    BY <1>6 DEF Start
  <2> QED BY <1>6, <2>2, <2>3, <2>4, <2>5 DEF Start
<1>7. ASSUME NEW c \in Chare, Offset(c) PROVE TypeOK'
  <2>1. PICK m \in msgs :
          /\ m.type = "offset" /\ m.to = c
          /\ noffset' = [noffset EXCEPT ![c] = @ + 1]
          /\ \/ ReorderOwn(c, nextid[c] + (IF m.from < c THEN m.num ELSE 0), msgs \ {m})
             \/ /\ nextid' = [nextid EXCEPT ![c] = nextid[c] + (IF m.from < c THEN m.num ELSE 0)]
                /\ msgs' = msgs \ {m}
                /\ UNCHANGED <<owned, newnodes, ginpoel, msum, contrib>>
    BY <1>7 DEF Offset
  <2>2. m.num \in Int
    BY <2>1, Arguments
  <2> DEFINE first == nextid[c] + (IF m.from < c THEN m.num ELSE 0)
  <2>3. first \in Int
    BY <2>2
  <2>4. CASE ReorderOwn(c, first, msgs \ {m})
    <3>1. /\ nextid' \in [Chare -> Int] /\ newnodes' \in [Chare -> [NodeId -> Int]]
          /\ owned' \in [Chare -> Nat] /\ ginpoel' \in [Chare -> SUBSET Int]
          /\ msum' \in [Chare -> [Chare -> SUBSET Int]] /\ msgs' \subseteq Message
          /\ contrib' \in [Tag -> [Chare -> Nat]]
      BY <2>3, <2>4, ReorderOwnType
    <3>2. noffset' \in [Chare -> Nat]
      BY <2>1
    <3>3. UNCHANGED <<nodeset, refmesh, nbnd, chnode, reordcomm, reqnodes, waiting,
            requested, reduced>>
      BY <1>7 DEF Offset
    <3> QED BY <3>1, <3>2, <3>3
  <2>5. CASE /\ nextid' = [nextid EXCEPT ![c] = first] /\ msgs' = msgs \ {m}
             /\ UNCHANGED <<owned, newnodes, ginpoel, msum, contrib>>
    <3>1. nextid' \in [Chare -> Int]
      BY <2>3, <2>5
    <3> QED BY <1>7, <2>1, <2>5, <3>1 DEF Offset
  <2> QED BY <2>1, <2>4, <2>5
<1>8. ASSUME NEW c \in Chare, Request(c) PROVE TypeOK'
  <2>1. PICK m \in msgs :
          LET queue == reqnodes[c] \cup {[from |-> m.from, nodes |-> m.nodes]}
          IN  /\ m.type = "request" /\ m.to = c
              /\ \/ /\ waiting[c] > 0
                    /\ waiting' = [waiting EXCEPT ![c] = @ - 1]
                    /\ Prepare(c, queue, msgs \ {m})
                    /\ UNCHANGED requested
                 \/ /\ requested' = [requested EXCEPT ![c] = @ + 1]
                    /\ reqnodes' = [reqnodes EXCEPT ![c] = queue]
                    /\ msgs' = msgs \ {m}
                    /\ UNCHANGED waiting
    BY <1>8 DEF Request, Prepared
  <2> DEFINE queue == reqnodes[c] \cup {[from |-> m.from, nodes |-> m.nodes]}
  <2>2. queue \subseteq [from : Chare, nodes : SUBSET NodeId]
    <3>1. m.from \in Chare /\ m.nodes \subseteq NodeId
      BY <2>1, Arguments
    <3> QED BY <3>1
  <2>3. CASE /\ waiting[c] > 0 /\ waiting' = [waiting EXCEPT ![c] = @ - 1]
             /\ Prepare(c, queue, msgs \ {m}) /\ UNCHANGED requested
    <3>1. /\ reqnodes' \in [Chare -> SUBSET [from : Chare, nodes : SUBSET NodeId]]
          /\ msgs' \subseteq Message
      BY <2>2, <2>3, PrepareType
    <3>2. waiting' \in [Chare -> Nat]
      BY <2>3
    <3> QED BY <1>8, <2>3, <3>1, <3>2 DEF Request
  <2>4. CASE /\ requested' = [requested EXCEPT ![c] = @ + 1]
             /\ reqnodes' = [reqnodes EXCEPT ![c] = queue]
             /\ msgs' = msgs \ {m} /\ UNCHANGED waiting
    <3>1. reqnodes' \in [Chare -> SUBSET [from : Chare, nodes : SUBSET NodeId]]
      BY <2>2, <2>4
    <3> QED BY <1>8, <2>4, <3>1 DEF Request
  <2> QED BY <2>1, <2>3, <2>4
<1>9. ASSUME NEW c \in Chare, Wait4Prep(c) PROVE TypeOK'
  <2>1. UNCHANGED <<nodeset, ginpoel, refmesh, nbnd, chnode, msum, reordcomm, noffset,
          nextid, newnodes, owned, contrib, reduced>>
    BY <1>9 DEF Wait4Prep
  <2>2. CASE requested[c] > 0 /\ Prepare(c, reqnodes[c], msgs \ {[type |-> "wait4prep", to |-> c]})
             /\ requested' = [requested EXCEPT ![c] = @ - 1] /\ UNCHANGED waiting
    <3>1. /\ reqnodes' \in [Chare -> SUBSET [from : Chare, nodes : SUBSET NodeId]]
          /\ msgs' \subseteq Message
      BY <2>2, PrepareType
    <3>2. requested' \in [Chare -> Nat]
      BY <2>2
    <3> QED BY <2>1, <2>2, <3>1, <3>2
  <2>3. CASE waiting' = [waiting EXCEPT ![c] = @ + 1] /\ msgs' \subseteq msgs
             /\ UNCHANGED <<requested, reqnodes>>
    BY <2>1, <2>3
  <2> QED BY <1>9, <2>2, <2>3 DEF Wait4Prep
<1>10. ASSUME NEW c \in Chare, NewOrder(c) PROVE TypeOK'
  <2>1. PICK m \in msgs :
          /\ m.type = "neworder" /\ m.to = c
          /\ FinishIfNumbered(c,
               [n \in NodeId |-> IF n \in m.nodes THEN m.ids[n] ELSE newnodes[c][n]],
               msgs \ {m})
    BY <1>10 DEF NewOrder
  <2>2. [n \in NodeId |-> IF n \in m.nodes THEN m.ids[n] ELSE newnodes[c][n]]
          \in [NodeId -> Int]
    BY <2>1, Arguments
  <2>3. /\ newnodes' \in [Chare -> [NodeId -> Int]] /\ ginpoel' \in [Chare -> SUBSET Int]
        /\ msum' \in [Chare -> [Chare -> SUBSET Int]] /\ msgs' \subseteq Message
        /\ contrib' \in [Tag -> [Chare -> Nat]]
    <3>1. msgs \ {m} \in SUBSET Message
      OBVIOUS
    <3> QED BY <2>1, <2>2, <3>1, FinishType
  <2> QED BY <1>10, <2>3 DEF NewOrder
<1>11. ASSUME NEW c \in Chare, RefinerReorder(c) PROVE TypeOK'
  BY <1>11 DEF RefinerReorder
<1>12. ASSUME NEW c \in Chare, CreateWorkers(c) PROVE TypeOK'
  BY <1>12 DEF CreateWorkers, Contribute, Tag
<1>13. ASSUME NEW tag \in Tag, Reduced(tag) PROVE TypeOK'
  BY <1>13 DEF Reduced, FollowUp, Message, Tag
<1>14. CASE UNCHANGED vars
  BY <1>14 DEF vars
<1> QED
  BY <1>1, <1>2, <1>3, <1>4, <1>5, <1>6, <1>7, <1>8, <1>9, <1>10, <1>11, <1>12,
     <1>13, <1>14 DEF Next, ChareStep, Quiescent

\* Sorter keeps the types of its state: in particular no node is filed at, and no
\* call is sent to, a chare outside the array.
THEOREM TypeCorrect == Spec => []TypeOK
<1> QED BY InitTypeOK, NextTypeOK, PTL DEF Spec

HIDE SorterAssumption


-----------------------------------------------------------------------------
(* What the actions do to the calls in flight. *)

Exchanged == {"query", "recvquery", "bnd", "recvbnd", "offset", "request", "neworder"}
Broadcast == {"setup", "response", "start"}

\* Only calls of the kinds in T are made or received.
Only(T) == \A m : m.type \notin T => (m \in msgs' <=> m \in msgs)

SameSent(T) == \A t \in T : \A a, b \in Chare : Sent(t, a, b)' = Sent(t, a, b)
SameToCome(T) == \A t \in T : \A a \in Chare : ToCome(t, a)' <=> ToCome(t, a)

LEMMA Frame ==
  ASSUME NEW T, Only(T)
  PROVE  SameSent(Exchanged \ T) /\ SameToCome(Broadcast \ T)
  <1>1. \A t : t \notin T => \A a, b : Sent(t, a, b)' = Sent(t, a, b)
    BY DEF Sent, Only
  <1>2. \A t : t \notin T => \A a : ToCome(t, a)' <=> ToCome(t, a)
    <2>1. \A t, a : [type |-> t, to |-> a].type = t
      OBVIOUS
    <2> QED BY <2>1 DEF ToCome, Only
  <1> QED BY <1>1, <1>2 DEF SameSent, SameToCome

\* The kinds of calls each action makes or receives.
LEMMA Footprint ==
  ASSUME TypeOK, NEW c \in Chare
  PROVE  /\ Setup(c) => Only({"setup", "query"})
         /\ Query(c) => Only({"query", "recvquery"})
         /\ RecvQuery(c) => Only({"recvquery"})
         /\ Response(c) => Only({"response", "bnd"})
         /\ Bnd(c) => Only({"bnd", "recvbnd"})
         /\ RecvBnd(c) => Only({"recvbnd"})
         /\ Start(c) => Only({"start", "offset"})
         /\ Offset(c) => Only({"offset", "request", "wait4prep", "reorderRefiner"})
         /\ Request(c) => Only({"request", "wait4prep", "neworder"})
         /\ Wait4Prep(c) => Only({"wait4prep", "neworder"})
         /\ NewOrder(c) => Only({"neworder", "reorderRefiner"})
         /\ RefinerReorder(c) => Only({"reorderRefiner"})
         /\ CreateWorkers(c) => Only({"createWorkers"})
  <1>1. Setup(c) => Only({"setup", "query"})
    BY DEF Setup, Only
  <1>2. Query(c) => Only({"query", "recvquery"})
    BY DEF Query, Only
  <1>3. RecvQuery(c) => Only({"recvquery"})
    BY DEF RecvQuery, Receipt, Only
  <1>4. Response(c) => Only({"response", "bnd"})
    BY DEF Response, Only
  <1>5. Bnd(c) => Only({"bnd", "recvbnd"})
    BY DEF Bnd, Only
  <1>6. RecvBnd(c) => Only({"recvbnd"})
    BY DEF RecvBnd, Receipt, Only
  <1>7. Start(c) => Only({"start", "offset"})
    BY DEF Start, Only
  <1>8. Offset(c) => Only({"offset", "request", "wait4prep", "reorderRefiner"})
    <2> SUFFICES ASSUME Offset(c) PROVE Only({"offset", "request", "wait4prep", "reorderRefiner"})
      OBVIOUS
    <2>1. PICK m \in msgs :
            /\ m.type = "offset"
            /\ ReorderOwn(c, nextid[c] + (IF m.from < c THEN m.num ELSE 0), msgs \ {m})
               \/ msgs' = msgs \ {m}
      BY DEF Offset
    <2>2. CASE msgs' = msgs \ {m}
      BY <2>1, <2>2 DEF Only
    <2>3. CASE ReorderOwn(c, nextid[c] + (IF m.from < c THEN m.num ELSE 0), msgs \ {m})
      <3>1. PICK new :
              FinishIfNumbered(c, new,
                (msgs \ {m}) \cup {[type |-> "wait4prep", to |-> c]} \cup
                {[type |-> "request", to |-> d, from |-> c, nodes |-> reordcomm[c][d]] :
                   d \in {e \in Chare : reordcomm[c][e] # {}}})
        BY <2>3 DEF ReorderOwn
      <3> QED BY <2>1, <3>1 DEF FinishIfNumbered, Finish, Only
    <2> QED BY <2>1, <2>2, <2>3
  <1>9. Request(c) => Only({"request", "wait4prep", "neworder"})
    BY DEF Request, Prepare, Only
  <1>10. Wait4Prep(c) => Only({"wait4prep", "neworder"})
    BY DEF Wait4Prep, Prepare, Only
  <1>11. NewOrder(c) => Only({"neworder", "reorderRefiner"})
    BY DEF NewOrder, FinishIfNumbered, Finish, Only
  <1>12. RefinerReorder(c) => Only({"reorderRefiner"})
    BY DEF RefinerReorder, Only
  <1>13. CreateWorkers(c) => Only({"createWorkers"})
    BY DEF CreateWorkers, Only
  <1> QED BY <1>1, <1>2, <1>3, <1>4, <1>5, <1>6, <1>7, <1>8, <1>9, <1>10, <1>11,
             <1>12, <1>13

\* What each action leaves alone of the calls that the invariant is about.
LEMMA Untouched ==
  ASSUME TypeOK, NEW c \in Chare
  PROVE
    /\ Setup(c) => SameSent(Exchanged \ {"query"}) /\ SameToCome(Broadcast \ {"setup"})
    /\ Query(c) => SameSent(Exchanged \ {"query", "recvquery"}) /\ SameToCome(Broadcast)
    /\ RecvQuery(c) => SameSent(Exchanged \ {"recvquery"}) /\ SameToCome(Broadcast)
    /\ Response(c) => SameSent(Exchanged \ {"bnd"}) /\ SameToCome(Broadcast \ {"response"})
    /\ Bnd(c) => SameSent(Exchanged \ {"bnd", "recvbnd"}) /\ SameToCome(Broadcast)
    /\ RecvBnd(c) => SameSent(Exchanged \ {"recvbnd"}) /\ SameToCome(Broadcast)
    /\ Start(c) => SameSent(Exchanged \ {"offset"}) /\ SameToCome(Broadcast \ {"start"})
    /\ Offset(c) => SameSent(Exchanged \ {"offset", "request"}) /\ SameToCome(Broadcast)
    /\ Request(c) => SameSent(Exchanged \ {"request", "neworder"}) /\ SameToCome(Broadcast)
    /\ Wait4Prep(c) => SameSent(Exchanged \ {"neworder"}) /\ SameToCome(Broadcast)
    /\ NewOrder(c) => SameSent(Exchanged \ {"neworder"}) /\ SameToCome(Broadcast)
    /\ RefinerReorder(c) => SameSent(Exchanged) /\ SameToCome(Broadcast)
    /\ CreateWorkers(c) => SameSent(Exchanged) /\ SameToCome(Broadcast)
  <1>1. Setup(c) => SameSent(Exchanged \ {"query"}) /\ SameToCome(Broadcast \ {"setup"})
    <2>1. Setup(c) => SameSent(Exchanged \ {"setup", "query"}) /\ SameToCome(Broadcast \ {"setup", "query"})
      <3>1. Setup(c) => Only({"setup", "query"})
        BY Footprint
      <3> QED BY <3>1, Frame
    <2> QED BY <2>1 DEF SameSent, SameToCome, Exchanged, Broadcast
  <1>2. Query(c) => SameSent(Exchanged \ {"query", "recvquery"}) /\ SameToCome(Broadcast)
    <2>1. Query(c) => SameSent(Exchanged \ {"query", "recvquery"}) /\ SameToCome(Broadcast \ {"query", "recvquery"})
      <3>1. Query(c) => Only({"query", "recvquery"})
        BY Footprint
      <3> QED BY <3>1, Frame
    <2> QED BY <2>1 DEF SameSent, SameToCome, Exchanged, Broadcast
  <1>3. RecvQuery(c) => SameSent(Exchanged \ {"recvquery"}) /\ SameToCome(Broadcast)
    <2>1. RecvQuery(c) => SameSent(Exchanged \ {"recvquery"}) /\ SameToCome(Broadcast \ {"recvquery"})
      <3>1. RecvQuery(c) => Only({"recvquery"})
        BY Footprint
      <3> QED BY <3>1, Frame
    <2> QED BY <2>1 DEF SameSent, SameToCome, Exchanged, Broadcast
  <1>4. Response(c) => SameSent(Exchanged \ {"bnd"}) /\ SameToCome(Broadcast \ {"response"})
    <2>1. Response(c) => SameSent(Exchanged \ {"response", "bnd"}) /\ SameToCome(Broadcast \ {"response", "bnd"})
      <3>1. Response(c) => Only({"response", "bnd"})
        BY Footprint
      <3> QED BY <3>1, Frame
    <2> QED BY <2>1 DEF SameSent, SameToCome, Exchanged, Broadcast
  <1>5. Bnd(c) => SameSent(Exchanged \ {"bnd", "recvbnd"}) /\ SameToCome(Broadcast)
    <2>1. Bnd(c) => SameSent(Exchanged \ {"bnd", "recvbnd"}) /\ SameToCome(Broadcast \ {"bnd", "recvbnd"})
      <3>1. Bnd(c) => Only({"bnd", "recvbnd"})
        BY Footprint
      <3> QED BY <3>1, Frame
    <2> QED BY <2>1 DEF SameSent, SameToCome, Exchanged, Broadcast
  <1>6. RecvBnd(c) => SameSent(Exchanged \ {"recvbnd"}) /\ SameToCome(Broadcast)
    <2>1. RecvBnd(c) => SameSent(Exchanged \ {"recvbnd"}) /\ SameToCome(Broadcast \ {"recvbnd"})
      <3>1. RecvBnd(c) => Only({"recvbnd"})
        BY Footprint
      <3> QED BY <3>1, Frame
    <2> QED BY <2>1 DEF SameSent, SameToCome, Exchanged, Broadcast
  <1>7. Start(c) => SameSent(Exchanged \ {"offset"}) /\ SameToCome(Broadcast \ {"start"})
    <2>1. Start(c) => SameSent(Exchanged \ {"start", "offset"}) /\ SameToCome(Broadcast \ {"start", "offset"})
      <3>1. Start(c) => Only({"start", "offset"})
        BY Footprint
      <3> QED BY <3>1, Frame
    <2> QED BY <2>1 DEF SameSent, SameToCome, Exchanged, Broadcast
  <1>8. Offset(c) => SameSent(Exchanged \ {"offset", "request"}) /\ SameToCome(Broadcast)
    <2>1. Offset(c) => SameSent(Exchanged \ {"offset", "request", "wait4prep", "reorderRefiner"}) /\ SameToCome(Broadcast \ {"offset", "request", "wait4prep", "reorderRefiner"})
      <3>1. Offset(c) => Only({"offset", "request", "wait4prep", "reorderRefiner"})
        BY Footprint
      <3> QED BY <3>1, Frame
    <2> QED BY <2>1 DEF SameSent, SameToCome, Exchanged, Broadcast
  <1>9. Request(c) => SameSent(Exchanged \ {"request", "neworder"}) /\ SameToCome(Broadcast)
    <2>1. Request(c) => SameSent(Exchanged \ {"request", "wait4prep", "neworder"}) /\ SameToCome(Broadcast \ {"request", "wait4prep", "neworder"})
      <3>1. Request(c) => Only({"request", "wait4prep", "neworder"})
        BY Footprint
      <3> QED BY <3>1, Frame
    <2> QED BY <2>1 DEF SameSent, SameToCome, Exchanged, Broadcast
  <1>10. Wait4Prep(c) => SameSent(Exchanged \ {"neworder"}) /\ SameToCome(Broadcast)
    <2>1. Wait4Prep(c) => SameSent(Exchanged \ {"wait4prep", "neworder"}) /\ SameToCome(Broadcast \ {"wait4prep", "neworder"})
      <3>1. Wait4Prep(c) => Only({"wait4prep", "neworder"})
        BY Footprint
      <3> QED BY <3>1, Frame
    <2> QED BY <2>1 DEF SameSent, SameToCome, Exchanged, Broadcast
  <1>11. NewOrder(c) => SameSent(Exchanged \ {"neworder"}) /\ SameToCome(Broadcast)
    <2>1. NewOrder(c) => SameSent(Exchanged \ {"neworder", "reorderRefiner"}) /\ SameToCome(Broadcast \ {"neworder", "reorderRefiner"})
      <3>1. NewOrder(c) => Only({"neworder", "reorderRefiner"})
        BY Footprint
      <3> QED BY <3>1, Frame
    <2> QED BY <2>1 DEF SameSent, SameToCome, Exchanged, Broadcast
  <1>12. RefinerReorder(c) => SameSent(Exchanged) /\ SameToCome(Broadcast)
    <2>1. RefinerReorder(c) => SameSent(Exchanged \ {"reorderRefiner"}) /\ SameToCome(Broadcast \ {"reorderRefiner"})
      <3>1. RefinerReorder(c) => Only({"reorderRefiner"})
        BY Footprint
      <3> QED BY <3>1, Frame
    <2> QED BY <2>1 DEF SameSent, SameToCome, Exchanged, Broadcast
  <1>13. CreateWorkers(c) => SameSent(Exchanged) /\ SameToCome(Broadcast)
    <2>1. CreateWorkers(c) => SameSent(Exchanged \ {"createWorkers"}) /\ SameToCome(Broadcast \ {"createWorkers"})
      <3>1. CreateWorkers(c) => Only({"createWorkers"})
        BY Footprint
      <3> QED BY <3>1, Frame
    <2> QED BY <2>1 DEF SameSent, SameToCome, Exchanged, Broadcast
  <1> QED BY <1>1, <1>2, <1>3, <1>4, <1>5, <1>6, <1>7,
             <1>8, <1>9, <1>10, <1>11, <1>12, <1>13

-----------------------------------------------------------------------------
(* Calls that are answered by a receipt. *)

\* A call answered by a receipt is still awaited.
LEMMA Acknowledged ==
  ASSUME NEW type, NEW receipt, type # receipt,
         NEW c \in Chare, NEW d \in Chare, NEW m \in Sent(type, d, c),
         msgs' = (msgs \ {m}) \cup {[type |-> receipt, to |-> d, from |-> c]},
         \A a, b \in Chare : OneOf(type, receipt, a, b)
  PROVE  /\ \A a, b \in Chare : OneOf(type, receipt, a, b)'
         /\ \A a \in Chare : Awaited(type, receipt, a)' = Awaited(type, receipt, a)
  <1> DEFINE r == [type |-> receipt, to |-> d, from |-> c]
  <1>1. r.type = receipt /\ r.to = d /\ r.from = c
    OBVIOUS
  <1>2. m \in msgs /\ m.type = type /\ m.from = d /\ m.to = c
    BY DEF Sent
  <1> HIDE DEF r
  <1>3. \A a, b \in Chare :
          /\ Sent(type, a, b)' = IF a = d /\ b = c THEN {} ELSE Sent(type, a, b)
          /\ Sent(receipt, a, b)' = IF a = c /\ b = d THEN Sent(receipt, a, b) \cup {r}
                                    ELSE Sent(receipt, a, b)
    <2>1. \A k \in Sent(type, d, c) : k = m
      BY DEF OneOf
    <2>2. msgs' = (msgs \ {m}) \cup {r}
      BY DEF r
    <2>3. ASSUME NEW a \in Chare, NEW b \in Chare
          PROVE  Sent(type, a, b)' = IF a = d /\ b = c THEN {} ELSE Sent(type, a, b)
      BY <1>1, <1>2, <2>1, <2>2 DEF Sent
    <2>4. ASSUME NEW a \in Chare, NEW b \in Chare
          PROVE  Sent(receipt, a, b)' = IF a = c /\ b = d THEN Sent(receipt, a, b) \cup {r}
                                        ELSE Sent(receipt, a, b)
      BY <1>1, <1>2, <2>2 DEF Sent
    <2> QED BY <2>3, <2>4
  <1>4. Sent(type, d, c) # {} /\ Sent(receipt, c, d) = {}
    BY DEF OneOf
  <1>5. ASSUME NEW a \in Chare, NEW b \in Chare PROVE OneOf(type, receipt, a, b)'
    BY <1>3, <1>4 DEF OneOf
  <1>6. ASSUME NEW a \in Chare PROVE Awaited(type, receipt, a)' = Awaited(type, receipt, a)
    BY <1>3, <1>4 DEF Awaited
  <1> QED BY <1>5, <1>6

\* A receipt received is awaited no more.
LEMMA Received ==
  ASSUME NEW type, NEW receipt, type # receipt,
         NEW b \in Chare, NEW c \in Chare, NEW m \in Sent(receipt, b, c),
         msgs' = msgs \ {m},
         \A a, d \in Chare : OneOf(type, receipt, a, d),
         \A k \in Sent(receipt, b, c) : k = m
  PROVE  /\ \A a, d \in Chare : OneOf(type, receipt, a, d)'
         /\ b \in Awaited(type, receipt, c)
         /\ \A a \in Chare : Awaited(type, receipt, a)' =
              IF a = c THEN Awaited(type, receipt, a) \ {b} ELSE Awaited(type, receipt, a)
  <1>1. m \in msgs /\ m.type = receipt /\ m.from = b /\ m.to = c
    BY DEF Sent
  <1>2. \A a, d \in Chare :
          /\ Sent(type, a, d)' = Sent(type, a, d)
          /\ Sent(receipt, a, d)' = IF a = b /\ d = c THEN {} ELSE Sent(receipt, a, d)
    BY <1>1 DEF Sent
  <1>3. Sent(type, c, b) = {}
    BY DEF OneOf
  <1>4. ASSUME NEW a \in Chare, NEW d \in Chare PROVE OneOf(type, receipt, a, d)'
    BY <1>2 DEF OneOf
  <1>5. b \in Awaited(type, receipt, c)
    BY DEF Awaited
  <1>6. ASSUME NEW a \in Chare
        PROVE  Awaited(type, receipt, a)' =
                 IF a = c THEN Awaited(type, receipt, a) \ {b} ELSE Awaited(type, receipt, a)
    BY <1>2, <1>3 DEF Awaited
  <1> QED BY <1>4, <1>5, <1>6

\* Receipts carry nothing but their sender.
LEMMA SameReceipt ==
  ASSUME TypeOK, NEW receipt \in {"recvquery", "recvbnd"}, NEW b, NEW c,
         NEW m1 \in Sent(receipt, b, c), NEW m2 \in Sent(receipt, b, c)
  PROVE  m1 = m2
  <1>1. \A m \in Message : m.type = receipt =>
          m \in [type : {"recvquery", "recvbnd"}, to : Chare, from : Chare]
    BY DEF Message
  <1>2. m1 \in [type : {"recvquery", "recvbnd"}, to : Chare, from : Chare]
        /\ m2 \in [type : {"recvquery", "recvbnd"}, to : Chare, from : Chare]
    BY <1>1 DEF TypeOK, Sent
  <1> QED BY <1>2 DEF Sent

\* A contribution counts for its chare and reduction only.
LEMMA Counted ==
  ASSUME TypeOK, NEW c \in Chare, NEW tag \in Tag, Contribute(c, tag)
  PROVE  /\ contrib'[tag][c] = contrib[tag][c] + 1 /\ contrib'[tag][c] > 0
         /\ \A t \in Tag, d \in Chare : t # tag \/ d # c => contrib'[t][d] = contrib[t][d]
         /\ \A t \in Tag, d \in Chare : contrib[t][d] > 0 => contrib'[t][d] > 0
  <1>1. contrib[tag][c] \in Nat
    BY DEF TypeOK
  <1>2. contrib'[tag][c] = contrib[tag][c] + 1
    BY DEF TypeOK, Contribute
  <1>3. \A t \in Tag, d \in Chare : t # tag \/ d # c => contrib'[t][d] = contrib[t][d]
    BY DEF TypeOK, Contribute
  <1> QED BY <1>1, <1>2, <1>3

-----------------------------------------------------------------------------
(* setup() ... queried *)

\* What QueryReceipts is about.
LEMMA QueryReceiptsFrame ==
  ASSUME TypeOK, QueryReceipts, SameSent({"query", "recvquery"}), SameToCome({"setup"}),
         \A c \in Chare : contrib'["queried"][c] = contrib["queried"][c],
         \A c \in Chare : contrib["queried"][c] = 0 => nbnd'[c] = nbnd[c],
         "queried" \in reduced' =>
           "queried" \in reduced \/ \A c \in Chare : contrib["queried"][c] > 0
  PROVE  QueryReceipts'
  <1>1. \A a, b \in Chare : Sent("query", a, b)' = Sent("query", a, b)
                          /\ Sent("recvquery", a, b)' = Sent("recvquery", a, b)
    BY DEF SameSent
  <1>2. \A a \in Chare : ToCome("setup", a)' <=> ToCome("setup", a)
    BY DEF SameToCome
  <1>3. \A a \in Chare : Asked(a)' = Asked(a)
    BY <1>1 DEF Asked, Awaited
  <1>4. \A a, b \in Chare : OneOf("query", "recvquery", a, b)'
    BY <1>1 DEF QueryReceipts, OneOf
  <1> QED BY <1>2, <1>3, <1>4 DEF QueryReceipts

\* The calls that setup() makes.
LEMMA SetupCalls ==
  ASSUME TypeOK, QueryReceipts, NEW c \in Chare, Setup(c)
  PROVE  \E bnodes \in SUBSET nodeset[c] :
           /\ Shared(c) \subseteq bnodes
           /\ nbnd' = [nbnd EXCEPT ![c] = Cardinality({Bin(g) : g \in bnodes})]
           /\ \A a \in Chare : ToCome("setup", a)' <=> ToCome("setup", a) /\ a # c
           /\ \A a, b \in Chare : Sent("query", a, b)' =
                IF a # c THEN Sent("query", a, b)
                ELSE IF b \in {Bin(g) : g \in bnodes}
                THEN {[type |-> "query", to |-> b, from |-> c,
                       nodes |-> {g \in bnodes : Bin(g) = b}]}
                ELSE {}
  <1> DEFINE s == [type |-> "setup", to |-> c]
             q(bnodes, b) == [type |-> "query", to |-> b, from |-> c,
                              nodes |-> {g \in bnodes : Bin(g) = b}]
  <1>1. PICK bnodes \in SUBSET nodeset[c] :
          /\ Shared(c) \subseteq bnodes
          /\ nbnd' = [nbnd EXCEPT ![c] = Cardinality({Bin(g) : g \in bnodes})]
          /\ msgs' = (msgs \ {s}) \cup {q(bnodes, b) : b \in {Bin(g) : g \in bnodes}}
    BY DEF Setup
  <1>2. s \in msgs /\ s.type = "setup" /\ s.to = c
    BY DEF Setup
  <1>3. \A b : q(bnodes, b).type = "query" /\ q(bnodes, b).to = b /\ q(bnodes, b).from = c
    OBVIOUS
  <1>4. \A b \in Chare : Sent("query", c, b) = {}
    BY <1>2 DEF QueryReceipts, Asked, Awaited, ToCome
  <1>5. \A a \in Chare : ToCome("setup", a)' <=> ToCome("setup", a) /\ a # c
    <2>1. \A a \in Chare : [type |-> "setup", to |-> a].type = "setup"
                         /\ [type |-> "setup", to |-> a].to = a
      OBVIOUS
    <2> HIDE DEF q
    <2> QED BY <1>1, <1>3, <2>1 DEF ToCome
  <1>6. ASSUME NEW a \in Chare, NEW b \in Chare
        PROVE  Sent("query", a, b)' =
                 IF a # c THEN Sent("query", a, b)
                 ELSE IF b \in {Bin(g) : g \in bnodes} THEN {q(bnodes, b)} ELSE {}
    <2> HIDE DEF q, s
    <2>1. CASE a = c
      <3>1. \A m : m \in Sent("query", a, b)' <=>
                  m.type = "query" /\ m.from = a /\ m.to = b /\
                  \E k \in {Bin(g) : g \in bnodes} : m = q(bnodes, k)
        BY <1>1, <1>3, <1>4, <2>1 DEF Sent
      <3>2. \A m : m \in Sent("query", a, b)' <=>
                  b \in {Bin(g) : g \in bnodes} /\ m = q(bnodes, b)
        BY <1>3, <2>1, <3>1
      <3> QED BY <2>1, <3>2
    <2>2. CASE a # c
      BY <1>1, <1>2, <1>3, <2>2 DEF Sent
    <2> QED BY <2>1, <2>2
  <1> QED BY <1>1, <1>5, <1>6

LEMMA QueryReceiptsSetup ==
  ASSUME TypeOK, QueryReceipts, NEW c \in Chare, Setup(c)
  PROVE  QueryReceipts'
  <1>1. PICK bnodes \in SUBSET nodeset[c] :
          /\ nbnd' = [nbnd EXCEPT ![c] = Cardinality({Bin(g) : g \in bnodes})]
          /\ \A a \in Chare : ToCome("setup", a)' <=> ToCome("setup", a) /\ a # c
          /\ \A a, b \in Chare : Sent("query", a, b)' =
               IF a # c THEN Sent("query", a, b)
               ELSE IF b \in {Bin(g) : g \in bnodes}
               THEN {[type |-> "query", to |-> b, from |-> c,
                      nodes |-> {g \in bnodes : Bin(g) = b}]}
               ELSE {}
    BY SetupCalls
  <1>2. \A a, b \in Chare : Sent("recvquery", a, b)' = Sent("recvquery", a, b)
    <2>1. SameSent(Exchanged \ {"query"})
      BY Untouched
    <2> QED BY <2>1 DEF SameSent, Exchanged
  <1>3. UNCHANGED <<contrib, reduced>> /\ ToCome("setup", c)
    BY DEF Setup, ToCome
  <1>4. Asked(c) = {} /\ contrib["queried"][c] = 0
    BY <1>3 DEF QueryReceipts
  <1>5. {Bin(g) : g \in bnodes} \subseteq Chare
    BY BinType DEF TypeOK
  <1>6. Asked(c)' = {Bin(g) : g \in bnodes}
    <2>1. \A b \in Chare : Sent("recvquery", b, c)' = {}
      BY <1>2, <1>4 DEF Asked, Awaited
    <2>2. ASSUME NEW b \in Chare
          PROVE  Sent("query", c, b)' # {} <=> b \in {Bin(g) : g \in bnodes}
      BY <1>1
    <2> QED BY <1>5, <2>1, <2>2 DEF Asked, Awaited
  <1>7. \A a \in Chare : a # c => Asked(a)' = Asked(a)
    BY <1>1, <1>2 DEF Asked, Awaited
  <1>8. ASSUME NEW a \in Chare, NEW b \in Chare PROVE OneOf("query", "recvquery", a, b)'
    <2>1. CASE a = c
      <3>1. \A m1, m2 \in Sent("query", a, b)' : m1 = m2
        BY <1>1, <2>1
      <3>2. Sent("recvquery", b, a)' = {}
        BY <1>2, <1>4, <2>1 DEF Asked, Awaited
      <3> QED BY <3>1, <3>2 DEF OneOf
    <2>2. CASE a # c
      BY <1>1, <1>2, <2>2 DEF QueryReceipts, OneOf
    <2> QED BY <2>1, <2>2
  <1>9. nbnd'[c] = Cardinality(Asked(c)') /\ \A a \in Chare : a # c => nbnd'[a] = nbnd[a]
    BY <1>1, <1>6 DEF TypeOK
  <1>10. ASSUME NEW a \in Chare
         PROVE  /\ ToCome("setup", a)' => Asked(a)' = {} /\ contrib'["queried"][a] = 0
                /\ contrib'["queried"][a] = 0 /\ ~ToCome("setup", a)' =>
                     nbnd'[a] = Cardinality(Asked(a)')
                /\ contrib'["queried"][a] > 0 => Asked(a)' = {}
    <2>1. CASE a = c
      BY <1>1, <1>3, <1>4, <1>9, <2>1
    <2>2. CASE a # c
      BY <1>1, <1>3, <1>7, <1>9, <2>2 DEF QueryReceipts
    <2> QED BY <2>1, <2>2
  <1>11. "queried" \in reduced' => \A a \in Chare : contrib'["queried"][a] > 0
    BY <1>3 DEF QueryReceipts
  <1> QED BY <1>8, <1>10, <1>11 DEF QueryReceipts

LEMMA QueryReceiptsQuery ==
  ASSUME TypeOK, QueryReceipts, NEW c \in Chare, Query(c)
  PROVE  QueryReceipts'
  <1>1. PICK m \in msgs :
          /\ m.type = "query" /\ m.to = c
          /\ msgs' = (msgs \ {m}) \cup {[type |-> "recvquery", to |-> m.from, from |-> c]}
    BY DEF Query
  <1>2. m.from \in Chare /\ m \in Sent("query", m.from, c)
    BY <1>1, Arguments DEF Sent
  <1>3. \A a, b \in Chare : OneOf("query", "recvquery", a, b)
    BY DEF QueryReceipts
  <1>4. /\ \A a, b \in Chare : OneOf("query", "recvquery", a, b)'
        /\ \A a \in Chare : Asked(a)' = Asked(a)
    BY <1>1, <1>2, <1>3, Acknowledged DEF Asked
  <1>5. \A a \in Chare : ToCome("setup", a)' <=> ToCome("setup", a)
    <2>1. SameToCome(Broadcast)
      BY Untouched
    <2> QED BY <2>1 DEF SameToCome, Broadcast
  <1>6. UNCHANGED <<contrib, reduced, nbnd>>
    BY DEF Query
  <1> QED BY <1>4, <1>5, <1>6 DEF QueryReceipts

\* One of a set is gone, and with it one of its number.
LEMMA OneLess ==
  ASSUME NEW S, S \subseteq Chare, NEW b \in S, NEW n, n = Cardinality(S)
  PROVE  /\ n - 1 = Cardinality(S \ {b})
         /\ n - 1 = 0 <=> S \ {b} = {}
  <1>1. IsFiniteSet(S)
    BY FiniteChares
  <1>2. Cardinality(S \ {b}) = Cardinality(S) - 1 /\ IsFiniteSet(S \ {b})
    BY <1>1, FS_RemoveElement
  <1>3. Cardinality(S \ {b}) = 0 <=> S \ {b} = {}
    BY <1>2, FS_EmptySet
  <1> QED BY <1>2, <1>3

LEMMA QueryReceiptsRecvQuery ==
  ASSUME TypeOK, QueryReceipts, NEW c \in Chare, RecvQuery(c)
  PROVE  QueryReceipts'
  <1>1. PICK m \in msgs :
          /\ m.type = "recvquery" /\ m.to = c /\ msgs' = msgs \ {m}
          /\ nbnd' = [nbnd EXCEPT ![c] = @ - 1]
          /\ IF LastReceipt(c) THEN Contribute(c, "queried") ELSE UNCHANGED contrib
    BY DEF RecvQuery, Receipt
  <1> DEFINE b == m.from
  <1>2. b \in Chare /\ m \in Sent("recvquery", b, c)
    BY <1>1, Arguments DEF Sent
  <1>3. \A k \in Sent("recvquery", b, c) : k = m
    BY <1>2, SameReceipt
  <1>4. \A a, d \in Chare : OneOf("query", "recvquery", a, d)
    BY DEF QueryReceipts
  <1> HIDE DEF b
  <1>5. /\ \A a, d \in Chare : OneOf("query", "recvquery", a, d)'
        /\ b \in Asked(c)
        /\ \A a \in Chare : Asked(a)' = IF a = c THEN Asked(a) \ {b} ELSE Asked(a)
    <2>1. /\ \A a, d \in Chare : OneOf("query", "recvquery", a, d)'
          /\ b \in Awaited("query", "recvquery", c)
          /\ \A a \in Chare : Awaited("query", "recvquery", a)' =
               IF a = c THEN Awaited("query", "recvquery", a) \ {b}
               ELSE Awaited("query", "recvquery", a)
      <3>1. "query" # "recvquery" /\ msgs' = msgs \ {m}
        BY <1>1
      <3> QED BY <1>2, <1>3, <1>4, <3>1, Received, SMTT(60)
    <2> QED BY <2>1 DEF Asked
  <1>6. \A a \in Chare : ToCome("setup", a)' <=> ToCome("setup", a)
    <2>1. SameToCome(Broadcast)
      BY Untouched
    <2> QED BY <2>1 DEF SameToCome, Broadcast
  <1>7. contrib["queried"][c] = 0 /\ ~ToCome("setup", c) /\ nbnd[c] = Cardinality(Asked(c))
    <2>1. contrib["queried"][c] \in Nat
      BY DEF TypeOK, Tag
    <2>2. contrib["queried"][c] = 0 /\ ~ToCome("setup", c)
      BY <1>5, <2>1 DEF QueryReceipts
    <2> QED BY <2>2 DEF QueryReceipts
  <1>8. nbnd'[c] = nbnd[c] - 1 /\ \A a \in Chare : a # c => nbnd'[a] = nbnd[a]
    BY <1>1 DEF TypeOK
  <1>9. nbnd[c] - 1 = Cardinality(Asked(c)') /\ (nbnd[c] - 1 = 0 <=> Asked(c)' = {})
    <2>1. Asked(c) \subseteq Chare /\ b \in Asked(c) /\ nbnd[c] = Cardinality(Asked(c))
      BY <1>5, <1>7 DEF Asked, Awaited
    <2>2. /\ nbnd[c] - 1 = Cardinality(Asked(c) \ {b})
          /\ nbnd[c] - 1 = 0 <=> Asked(c) \ {b} = {}
      BY <2>1, OneLess
    <2> QED BY <1>5, <2>2
  <1>10. reduced' = reduced
    BY DEF RecvQuery, Receipt
  <1>11. CASE LastReceipt(c)
    <2>1. Contribute(c, "queried") /\ Asked(c)' = {}
      BY <1>1, <1>9, <1>11 DEF LastReceipt
    <2>2. /\ contrib'["queried"][c] > 0
          /\ \A a \in Chare : a # c => contrib'["queried"][a] = contrib["queried"][a]
      BY <2>1, Counted DEF Tag
    <2> QED BY <1>5, <1>6, <1>7, <1>8, <1>10, <2>1, <2>2 DEF QueryReceipts
  <1>12. CASE ~LastReceipt(c)
    <2>1. contrib' = contrib
      BY <1>1, <1>12
    <2> QED BY <1>5, <1>6, <1>7, <1>8, <1>9, <1>10, <2>1 DEF QueryReceipts
  <1> QED BY <1>11, <1>12

\* The steps that have no part in building the map.
LaterStep(c) ==
  \/ Start(c) \/ Offset(c) \/ Request(c) \/ Wait4Prep(c) \/ NewOrder(c)
  \/ RefinerReorder(c) \/ CreateWorkers(c)

LEMMA Later ==
  ASSUME TypeOK, NEW c \in Chare, LaterStep(c)
  PROVE  /\ SameSent({"query", "recvquery", "bnd", "recvbnd"})
         /\ SameToCome({"setup", "response"})
         /\ UNCHANGED <<nodeset, nbnd, reduced>>
         /\ \A t \in {"queried", "responded"} : \A a \in Chare : contrib'[t][a] = contrib[t][a]
  <1>3. SameSent({"query", "recvquery", "bnd", "recvbnd"}) /\ SameToCome({"setup", "response"})
    <2> DEFINE S == {"offset", "request", "neworder"}
    <2>1. SameSent(Exchanged \ S) /\ SameToCome(Broadcast \ {"start"})
      BY Untouched DEF LaterStep, SameSent, SameToCome
    <2> QED BY <2>1 DEF SameSent, SameToCome, Exchanged, Broadcast
  <1>4. UNCHANGED <<nodeset, nbnd, reduced>>
    BY DEF LaterStep, Start, Offset, Request, Wait4Prep, NewOrder, RefinerReorder, CreateWorkers
  <1>5. \A t \in {"queried", "responded"} : \A a \in Chare : contrib'[t][a] = contrib[t][a]
    <2>1. \/ Contribute(c, "discinserted") \/ Contribute(c, "workinserted")
          \/ UNCHANGED contrib
      BY DEF LaterStep, Start, Offset, Request, Wait4Prep, NewOrder, RefinerReorder,
             CreateWorkers, ReorderOwn, FinishIfNumbered, Finish
    <2> QED BY <2>1, Counted DEF Tag
  <1> QED BY <1>3, <1>4, <1>5

\* A completed reduction is followed by a broadcast.
LEMMA HostStep ==
  ASSUME TypeOK, NEW tag \in Tag, Reduced(tag)
  PROVE  /\ SameSent(Exchanged)
         /\ SameToCome({"setup"})
         /\ \A c \in Chare : ToCome("response", c)' <=> ToCome("response", c) \/ tag = "queried"
         /\ \A c \in Chare : ToCome("start", c)' <=> ToCome("start", c) \/ tag = "responded"
         /\ tag \notin reduced /\ reduced' = reduced \cup {tag}
         /\ \A c \in Chare : contrib[tag][c] > 0
         /\ UNCHANGED <<nodeset, nbnd, chnode, msum, reordcomm, noffset, newnodes,
                        reqnodes, contrib>>
  <1>1. UNCHANGED <<nodeset, nbnd, chnode, msum, reordcomm, noffset, newnodes, reqnodes, contrib>>
        /\ tag \notin reduced /\ reduced' = reduced \cup {tag}
        /\ \A c \in Chare : contrib[tag][c] > 0
    BY DEF Reduced
  <1>2. \A m : m \in msgs' <=>
          \/ m \in msgs
          \/ tag = "queried" /\ \E c \in Chare : m = [type |-> "response", to |-> c]
          \/ tag = "responded" /\ \E c \in Chare : m = [type |-> "start", to |-> c]
          \/ tag = "discinserted" /\ \E c \in Chare : m = [type |-> "createWorkers", to |-> c]
    BY DEF Reduced, FollowUp, Tag
  <1>3. Only({"response", "start", "createWorkers"})
    BY <1>2 DEF Only
  <1>4. SameSent(Exchanged \ {"response", "start", "createWorkers"})
        /\ SameToCome(Broadcast \ {"response", "start", "createWorkers"})
    BY <1>3, Frame
  <1>5. SameSent(Exchanged) /\ SameToCome({"setup"})
    BY <1>4 DEF SameSent, SameToCome, Exchanged, Broadcast
  <1>6. ASSUME NEW c \in Chare
        PROVE  /\ ToCome("response", c)' <=> ToCome("response", c) \/ tag = "queried"
               /\ ToCome("start", c)' <=> ToCome("start", c) \/ tag = "responded"
    BY <1>2 DEF ToCome
  <1> QED BY <1>1, <1>5, <1>6

\* The receipts of queries are counted right in every step.
LEMMA QueryReceiptsNext ==
  ASSUME TypeOK, QueryReceipts, ResponseReceipts, [Next]_vars
  PROVE  QueryReceipts'
  <1>1. ASSUME NEW c \in Chare, ChareStep(c) PROVE QueryReceipts'
    <2>1. CASE Setup(c)
      BY <2>1, QueryReceiptsSetup
    <2>2. CASE Query(c)
      BY <2>2, QueryReceiptsQuery
    <2>3. CASE RecvQuery(c)
      BY <2>3, QueryReceiptsRecvQuery
    <2>4. CASE Response(c)
      <3>1. SameSent(Exchanged \ {"bnd"}) /\ SameToCome(Broadcast \ {"response"})
        BY <2>4, Untouched
      <3>3. SameSent({"query", "recvquery"}) /\ SameToCome({"setup"})
        BY <3>1 DEF SameSent, SameToCome, Exchanged, Broadcast
      <3>4. contrib["queried"][c] > 0
        BY <2>4 DEF Response, ToCome, QueryReceipts, ResponseReceipts
      <3>5. \A a \in Chare : a # c => nbnd'[a] = nbnd[a]
        BY <2>4 DEF Response, TypeOK
      <3>6. reduced' = reduced /\ \A a \in Chare : contrib'["queried"][a] = contrib["queried"][a]
        BY <2>4, Counted DEF Response, Tag
      <3> QED BY <3>3, <3>4, <3>5, <3>6, QueryReceiptsFrame
    <2>5. CASE Bnd(c)
      <3>1. SameSent(Exchanged \ {"bnd", "recvbnd"}) /\ SameToCome(Broadcast)
        BY <2>5, Untouched
      <3>3. SameSent({"query", "recvquery"}) /\ SameToCome({"setup"})
        BY <3>1 DEF SameSent, SameToCome, Exchanged, Broadcast
      <3>4. UNCHANGED <<nbnd, contrib, reduced>>
        BY <2>5 DEF Bnd
      <3> QED BY <3>3, <3>4, QueryReceiptsFrame
    <2>6. CASE RecvBnd(c)
      <3>1. SameSent(Exchanged \ {"recvbnd"}) /\ SameToCome(Broadcast)
        BY <2>6, Untouched
      <3>3. SameSent({"query", "recvquery"}) /\ SameToCome({"setup"})
        BY <3>1 DEF SameSent, SameToCome, Exchanged, Broadcast
      <3>4. contrib["queried"][c] > 0
        <4>1. PICK m \in msgs : m.type = "recvbnd" /\ m.to = c
          BY <2>6 DEF RecvBnd, Receipt
        <4>2. m.from \in Chare
          BY <4>1, Arguments
        <4>3. m.from \in Told(c)
          BY <4>1, <4>2 DEF Told, Awaited, Sent
        <4> QED BY <4>3 DEF ResponseReceipts, Answered, QueryReceipts
      <3>5. \A a \in Chare : a # c => nbnd'[a] = nbnd[a]
        BY <2>6 DEF RecvBnd, Receipt, TypeOK
      <3>6. reduced' = reduced /\ (Contribute(c, "responded") \/ UNCHANGED contrib)
        BY <2>6 DEF RecvBnd, Receipt
      <3>7. \A a \in Chare : contrib'["queried"][a] = contrib["queried"][a]
        BY <3>6, Counted DEF Tag
      <3> QED BY <3>3, <3>4, <3>5, <3>6, <3>7, QueryReceiptsFrame
    <2>7. CASE LaterStep(c)
      <3>1. /\ SameSent({"query", "recvquery", "bnd", "recvbnd"})
            /\ SameToCome({"setup", "response"})
            /\ UNCHANGED <<nodeset, nbnd, reduced>>
            /\ \A t \in {"queried", "responded"} : \A a \in Chare : contrib'[t][a] = contrib[t][a]
        BY <2>7, Later
      <3>2. SameSent({"query", "recvquery"}) /\ SameToCome({"setup"})
        BY <3>1 DEF SameSent, SameToCome
      <3> QED BY <3>1, <3>2, QueryReceiptsFrame
    <2> QED BY <1>1, <2>1, <2>2, <2>3, <2>4, <2>5, <2>6, <2>7 DEF ChareStep, LaterStep
  <1>2. ASSUME NEW tag \in Tag, Reduced(tag) PROVE QueryReceipts'
    <2>1. /\ SameSent(Exchanged) /\ SameToCome({"setup"})
          /\ reduced' = reduced \cup {tag} /\ \A c \in Chare : contrib[tag][c] > 0
          /\ UNCHANGED <<nbnd, contrib>>
      BY <1>2, HostStep
    <2>2. SameSent({"query", "recvquery"})
      BY <2>1 DEF SameSent, Exchanged
    <2> QED BY <2>1, <2>2, QueryReceiptsFrame
  <1>3. CASE UNCHANGED vars
    <2>1. UNCHANGED <<msgs, nbnd, contrib, reduced>>
      BY <1>3 DEF vars
    <2>2. SameSent({"query", "recvquery"}) /\ SameToCome({"setup"})
      BY <2>1 DEF SameSent, SameToCome, Sent, ToCome
    <2> QED BY <2>1, <2>2, QueryReceiptsFrame
  <1> QED BY <1>1, <1>2, <1>3 DEF Next, Quiescent

-----------------------------------------------------------------------------
(* The distributed table of boundary nodes. *)

LEMMA TableFrame ==
  ASSUME TypeOK, Table, UNCHANGED nodeset, SameSent({"query"}), SameToCome({"setup"}),
         \A b, c \in Chare : chnode'[b][c] \subseteq chnode[b][c],
         "responded" \notin reduced' => "responded" \notin reduced /\ chnode' = chnode
  PROVE  Table'
  <1>1. \A a, b \in Chare : Sent("query", a, b)' = Sent("query", a, b)
    BY DEF SameSent
  <1>2. \A a \in Chare : ToCome("setup", a)' <=> ToCome("setup", a)
    BY DEF SameToCome
  <1>3. \A b, c \in Chare : \A m \in Sent("query", c, b)' : m.nodes \subseteq nodeset'[c]
    BY <1>1 DEF Table
  <1>4. \A b, c \in Chare : chnode'[b][c] \subseteq nodeset'[c]
    BY DEF Table
  <1>5. \A c \in Chare : \A n \in Shared(c) : Bin(n) \in Chare
    BY BinType DEF Shared, TypeOK
  <1>6. \A c \in Chare : Shared(c)' = Shared(c)
    BY DEF Shared
  <1>7. ASSUME "responded" \notin reduced', NEW c \in Chare, NEW n \in Shared(c)
        PROVE  \/ ToCome("setup", c)'
               \/ \E m \in Sent("query", c, Bin(n))' : n \in m.nodes
               \/ n \in chnode'[Bin(n)][c]
    BY <1>1, <1>2, <1>5, <1>7 DEF Table
  <1> QED BY <1>3, <1>4, <1>6, <1>7 DEF Table, Bin

LEMMA TableSetup ==
  ASSUME TypeOK, QueryReceipts, Table, NEW c \in Chare, Setup(c)
  PROVE  Table'
  <1>1. PICK bnodes \in SUBSET nodeset[c] :
          /\ Shared(c) \subseteq bnodes
          /\ \A a \in Chare : ToCome("setup", a)' <=> ToCome("setup", a) /\ a # c
          /\ \A a, b \in Chare : Sent("query", a, b)' =
               IF a # c THEN Sent("query", a, b)
               ELSE IF b \in {Bin(g) : g \in bnodes}
               THEN {[type |-> "query", to |-> b, from |-> c,
                      nodes |-> {g \in bnodes : Bin(g) = b}]}
               ELSE {}
    BY SetupCalls
  <1>2. UNCHANGED <<nodeset, chnode, reduced>>
    BY DEF Setup
  <1>3. ASSUME NEW b \in Chare, NEW a \in Chare, NEW m \in Sent("query", a, b)'
        PROVE  m.nodes \subseteq nodeset'[a]
    <2>1. CASE a = c
      <3>1. m = [type |-> "query", to |-> b, from |-> c, nodes |-> {g \in bnodes : Bin(g) = b}]
        BY <1>1, <1>3, <2>1
      <3>2. m.nodes = {g \in bnodes : Bin(g) = b}
        BY <3>1
      <3> QED BY <1>2, <2>1, <3>2
    <2>2. CASE a # c
      BY <1>1, <1>2, <1>3, <2>2 DEF Table
    <2> QED BY <2>1, <2>2
  <1>4. \A b, a \in Chare : chnode'[b][a] \subseteq nodeset'[a]
    BY <1>2 DEF Table
  <1>5. ASSUME "responded" \notin reduced', NEW a \in Chare, NEW n \in Shared(a)
        PROVE  \/ ToCome("setup", a)'
               \/ \E m \in Sent("query", a, Bin(n))' : n \in m.nodes
               \/ n \in chnode'[Bin(n)][a]
    <2>1. Bin(n) \in Chare
      BY BinType DEF Shared, TypeOK
    <2>2. CASE a = c
      <3> DEFINE m == [type |-> "query", to |-> Bin(n), from |-> c,
                       nodes |-> {g \in bnodes : Bin(g) = Bin(n)}]
      <3>1. n \in bnodes
        BY <1>1, <2>2
      <3>2. m \in Sent("query", a, Bin(n))'
        BY <1>1, <2>1, <2>2, <3>1
      <3>3. n \in m.nodes
        BY <3>1
      <3> QED BY <3>2, <3>3
    <2>3. CASE a # c
      BY <1>1, <1>2, <1>5, <2>1, <2>3 DEF Table
    <2> QED BY <2>2, <2>3
  <1>6. \A a \in Chare : Shared(a)' = Shared(a)
    BY <1>2 DEF Shared
  <1> QED BY <1>3, <1>4, <1>5, <1>6 DEF Table, Bin

LEMMA TableQuery ==
  ASSUME TypeOK, Table, NEW c \in Chare, Query(c)
  PROVE  Table'
  <1>1. PICK m \in msgs :
          /\ m.type = "query" /\ m.to = c
          /\ chnode' = [chnode EXCEPT ![c][m.from] = @ \cup m.nodes]
          /\ msgs' = (msgs \ {m}) \cup {[type |-> "recvquery", to |-> m.from, from |-> c]}
    BY DEF Query
  <1>2. UNCHANGED <<nodeset, reduced>>
    BY DEF Query
  <1>3. m.from \in Chare /\ m \in Sent("query", m.from, c)
    BY <1>1, Arguments DEF Sent
  <1>4. \A a, b \in Chare : Sent("query", a, b)' = Sent("query", a, b) \ {m}
    BY <1>1 DEF Sent
  <1>5. \A b, a \in Chare : chnode'[b][a] =
          IF b = c /\ a = m.from THEN chnode[b][a] \cup m.nodes ELSE chnode[b][a]
    BY <1>1, <1>3 DEF TypeOK
  <1>6. \A a \in Chare : ToCome("setup", a)' <=> ToCome("setup", a)
    <2>1. SameToCome(Broadcast)
      BY Untouched
    <2> QED BY <2>1 DEF SameToCome, Broadcast
  <1>7. \A b, a \in Chare : \A k \in Sent("query", a, b)' : k.nodes \subseteq nodeset'[a]
    BY <1>2, <1>4 DEF Table
  <1>8. \A b, a \in Chare : chnode'[b][a] \subseteq nodeset'[a]
    <2>1. m.nodes \subseteq nodeset[m.from]
      BY <1>3 DEF Table
    <2>2. \A b, a \in Chare : chnode[b][a] \subseteq nodeset[a]
      BY DEF Table
    <2>3. ASSUME NEW b \in Chare, NEW a \in Chare PROVE chnode'[b][a] \subseteq nodeset[a]
      <3>1. CASE b = c /\ a = m.from
        <4>1. chnode'[b][a] = chnode[b][a] \cup m.nodes
          BY <1>5, <3>1
        <4> QED BY <2>1, <2>2, <3>1, <4>1
      <3>2. CASE ~(b = c /\ a = m.from)
        BY <1>5, <2>2, <3>2
      <3> QED BY <3>1, <3>2
    <2> QED BY <1>2, <2>3
  <1>9. ASSUME "responded" \notin reduced', NEW a \in Chare, NEW n \in Shared(a)
        PROVE  \/ ToCome("setup", a)'
               \/ \E k \in Sent("query", a, Bin(n))' : n \in k.nodes
               \/ n \in chnode'[Bin(n)][a]
    <2>1. Bin(n) \in Chare
      BY BinType DEF Shared, TypeOK
    <2>2. \/ ToCome("setup", a)
          \/ \E k \in Sent("query", a, Bin(n)) : n \in k.nodes
          \/ n \in chnode[Bin(n)][a]
      BY <1>2, <1>9 DEF Table
    <2>3. ASSUME NEW k \in Sent("query", a, Bin(n)), n \in k.nodes
          PROVE  k \in Sent("query", a, Bin(n))' \/ n \in chnode'[Bin(n)][a]
      <3>1. CASE k = m
        <4>1. a = m.from /\ Bin(n) = c
          BY <1>1, <3>1 DEF Sent
        <4> QED BY <1>5, <2>1, <2>3, <3>1, <4>1
      <3>2. CASE k # m
        BY <1>4, <2>1, <3>2
      <3> QED BY <3>1, <3>2
    <2>4. n \in chnode[Bin(n)][a] => n \in chnode'[Bin(n)][a]
      BY <1>5, <2>1
    <2> QED BY <1>6, <2>2, <2>3, <2>4
  <1>10. \A a \in Chare : Shared(a)' = Shared(a)
    BY <1>2 DEF Shared
  <1> QED BY <1>7, <1>8, <1>9, <1>10 DEF Table, Bin

\* The table holds or is on its way to hold all shared nodes in every step.
LEMMA TableNext ==
  ASSUME TypeOK, QueryReceipts, Table, Offsets, [Next]_vars
  PROVE  Table'
  <1>1. ASSUME NEW c \in Chare, ChareStep(c) PROVE Table'
    <2>1. CASE Setup(c)
      BY <2>1, TableSetup
    <2>2. CASE Query(c)
      BY <2>2, TableQuery
    <2>3. CASE RecvQuery(c) \/ Response(c) \/ Bnd(c) \/ RecvBnd(c)
      <3>1. SameSent(Exchanged \ {"recvquery", "bnd", "recvbnd"})
            /\ SameToCome(Broadcast \ {"response"})
        BY <2>3, Untouched DEF SameSent, SameToCome
      <3>2. SameSent({"query"}) /\ SameToCome({"setup"})
        BY <3>1 DEF SameSent, SameToCome, Exchanged, Broadcast
      <3>3. UNCHANGED <<nodeset, chnode, reduced>>
        BY <2>3 DEF RecvQuery, Response, Bnd, RecvBnd, Receipt
      <3> QED BY <3>2, <3>3, TableFrame
    <2>4. CASE LaterStep(c)
      <3>1. /\ SameSent({"query", "recvquery", "bnd", "recvbnd"})
            /\ SameToCome({"setup", "response"}) /\ UNCHANGED <<nodeset, reduced>>
        BY <2>4, Later
      <3>2. SameSent({"query"}) /\ SameToCome({"setup"})
        BY <3>1 DEF SameSent, SameToCome
      <3>3. CASE Start(c)
        <4>1. "responded" \in reduced
          BY <3>3 DEF Start, ToCome, Offsets
        <4>2. chnode' = [chnode EXCEPT ![c] = [d \in Chare |-> {}]]
          BY <3>3 DEF Start
        <4>3. \A b, a \in Chare : chnode'[b][a] \subseteq chnode[b][a]
          BY <4>2 DEF TypeOK
        <4> QED BY <3>1, <3>2, <4>1, <4>3, TableFrame
      <3>4. CASE ~Start(c)
        <4>1. UNCHANGED chnode
          BY <2>4, <3>4 DEF LaterStep, Offset, Request, Wait4Prep, NewOrder,
             RefinerReorder, CreateWorkers
        <4> QED BY <3>1, <3>2, <4>1, TableFrame
      <3> QED BY <3>3, <3>4
    <2> QED BY <1>1, <2>1, <2>2, <2>3, <2>4 DEF ChareStep, LaterStep
  <1>2. ASSUME NEW tag \in Tag, Reduced(tag) PROVE Table'
    <2>1. /\ SameSent(Exchanged) /\ SameToCome({"setup"})
          /\ reduced' = reduced \cup {tag} /\ UNCHANGED <<nodeset, chnode>>
      BY <1>2, HostStep
    <2>2. SameSent({"query"})
      BY <2>1 DEF SameSent, Exchanged
    <2> QED BY <2>1, <2>2, TableFrame
  <1>3. CASE UNCHANGED vars
    <2>1. UNCHANGED <<msgs, nodeset, chnode, reduced>>
      BY <1>3 DEF vars
    <2>2. SameSent({"query"}) /\ SameToCome({"setup"})
      BY <2>1 DEF SameSent, SameToCome, Sent, ToCome
    <2> QED BY <2>1, <2>2, TableFrame
  <1> QED BY <1>1, <1>2, <1>3 DEF Next, Quiescent

-----------------------------------------------------------------------------
(* response() ... responded *)

LEMMA ResponseReceiptsFrame ==
  ASSUME TypeOK, ResponseReceipts,
         SameSent({"bnd", "recvbnd"}), SameToCome({"response"}),
         \A c \in Chare : contrib'["responded"][c] = contrib["responded"][c],
         \A c \in Chare : Answered(c) /\ contrib["responded"][c] = 0 => nbnd'[c] = nbnd[c],
         "queried" \in reduced' <=> "queried" \in reduced,
         "responded" \in reduced' =>
           "responded" \in reduced \/ \A c \in Chare : contrib["responded"][c] > 0
  PROVE  ResponseReceipts'
  <1>1. \A a, b \in Chare : Sent("bnd", a, b)' = Sent("bnd", a, b)
                          /\ Sent("recvbnd", a, b)' = Sent("recvbnd", a, b)
    BY DEF SameSent
  <1>2. \A a \in Chare : ToCome("response", a)' <=> ToCome("response", a)
    BY DEF SameToCome
  <1>3. \A a \in Chare : Told(a)' = Told(a) /\ (Answered(a)' <=> Answered(a))
    BY <1>1, <1>2 DEF Told, Awaited, Answered
  <1>4. \A a, b \in Chare : OneOf("bnd", "recvbnd", a, b)'
    BY <1>1 DEF ResponseReceipts, OneOf
  <1> QED BY <1>2, <1>3, <1>4 DEF ResponseReceipts

\* The calls that response() makes.
LEMMA ResponseCalls ==
  ASSUME TypeOK, ResponseReceipts, NEW c \in Chare, Response(c)
  PROVE  /\ \A a \in Chare : ToCome("response", a)' <=> ToCome("response", a) /\ a # c
         /\ \A a, b \in Chare : Sent("bnd", a, b)' =
              IF a # c THEN Sent("bnd", a, b)
              ELSE IF chnode[c][b] # {}
              THEN {[type |-> "bnd", to |-> b, from |-> c, msum |-> Common(c, b)]}
              ELSE {}
  <1> DEFINE s == [type |-> "response", to |-> c]
             q(b) == [type |-> "bnd", to |-> b, from |-> c, msum |-> Common(c, b)]
  <1>1. s \in msgs /\ msgs' = (msgs \ {s}) \cup {q(b) : b \in {d \in Chare : chnode[c][d] # {}}}
    BY DEF Response
  <1>2. s.type = "response" /\ s.to = c
    OBVIOUS
  <1>3. \A b : q(b).type = "bnd" /\ q(b).to = b /\ q(b).from = c
    OBVIOUS
  <1>4. \A b \in Chare : Sent("bnd", c, b) = {}
    BY <1>1 DEF ResponseReceipts, Told, Awaited, ToCome, Answered
  <1>5. \A a \in Chare : ToCome("response", a)' <=> ToCome("response", a) /\ a # c
    <2>1. \A a \in Chare : [type |-> "response", to |-> a].type = "response"
                         /\ [type |-> "response", to |-> a].to = a
      OBVIOUS
    <2> HIDE DEF q
    <2> QED BY <1>1, <1>3, <2>1 DEF ToCome
  <1>6. ASSUME NEW a \in Chare, NEW b \in Chare
        PROVE  Sent("bnd", a, b)' = IF a # c THEN Sent("bnd", a, b)
                                    ELSE IF chnode[c][b] # {} THEN {q(b)} ELSE {}
    <2> HIDE DEF q, s
    <2>1. CASE a = c
      <3>1. \A m : m \in Sent("bnd", a, b)' <=>
                  m.type = "bnd" /\ m.from = a /\ m.to = b /\
                  \E k \in {d \in Chare : chnode[c][d] # {}} : m = q(k)
        BY <1>1, <1>3, <1>4, <2>1 DEF Sent
      <3>2. \A m : m \in Sent("bnd", a, b)' <=> chnode[c][b] # {} /\ m = q(b)
        BY <1>3, <2>1, <3>1
      <3> QED BY <2>1, <3>2
    <2>2. CASE a # c
      BY <1>1, <1>2, <1>3, <2>2 DEF Sent
    <2> QED BY <2>1, <2>2
  <1> QED BY <1>5, <1>6

LEMMA ResponseReceiptsResponse ==
  ASSUME TypeOK, QueryReceipts, ResponseReceipts, NEW c \in Chare, Response(c)
  PROVE  ResponseReceipts'
  <1> DEFINE askers == {d \in Chare : chnode[c][d] # {}}
  <1>1. /\ \A a \in Chare : ToCome("response", a)' <=> ToCome("response", a) /\ a # c
        /\ \A a, b \in Chare : Sent("bnd", a, b)' =
             IF a # c THEN Sent("bnd", a, b)
             ELSE IF chnode[c][b] # {}
             THEN {[type |-> "bnd", to |-> b, from |-> c, msum |-> Common(c, b)]}
             ELSE {}
    BY ResponseCalls
  <1>2. \A a, b \in Chare : Sent("recvbnd", a, b)' = Sent("recvbnd", a, b)
    <2>1. SameSent(Exchanged \ {"bnd"})
      BY Untouched
    <2> QED BY <2>1 DEF SameSent, Exchanged
  <1>3. /\ reduced' = reduced /\ ToCome("response", c)
        /\ nbnd' = [nbnd EXCEPT ![c] = Cardinality(askers)]
        /\ IF askers = {} THEN Contribute(c, "responded") ELSE UNCHANGED contrib
    BY DEF Response, ToCome
  <1>4. Told(c) = {} /\ contrib["responded"][c] = 0 /\ "queried" \in reduced
    BY <1>3 DEF ResponseReceipts, Answered
  <1>5. Told(c)' = askers
    <2>1. \A b \in Chare : Sent("recvbnd", b, c)' = {}
      BY <1>2, <1>4 DEF Told, Awaited
    <2>2. \A b \in Chare : Sent("bnd", c, b)' # {} <=> chnode[c][b] # {}
      BY <1>1
    <2> QED BY <2>1, <2>2 DEF Told, Awaited
  <1>6. \A a \in Chare : a # c => Told(a)' = Told(a)
    BY <1>1, <1>2 DEF Told, Awaited
  <1>7. ASSUME NEW a \in Chare, NEW b \in Chare PROVE OneOf("bnd", "recvbnd", a, b)'
    <2>1. CASE a = c
      <3>1. \A m1, m2 \in Sent("bnd", a, b)' : m1 = m2
        BY <1>1, <2>1
      <3>2. Sent("recvbnd", b, a)' = {}
        BY <1>2, <1>4, <2>1 DEF Told, Awaited
      <3> QED BY <3>1, <3>2 DEF OneOf
    <2>2. CASE a # c
      BY <1>1, <1>2, <2>2 DEF ResponseReceipts, OneOf
    <2> QED BY <2>1, <2>2
  <1>8. /\ nbnd'[c] = Cardinality(Told(c)')
        /\ \A a \in Chare : a # c => nbnd'[a] = nbnd[a]
    BY <1>3, <1>5 DEF TypeOK
  <1>9. /\ contrib'["responded"][c] > 0 => Told(c)' = {}
        /\ \A a \in Chare : a # c => contrib'["responded"][a] = contrib["responded"][a]
    <2> HIDE DEF askers
    <2>1. CASE askers = {}
      BY <1>3, <1>5, <2>1, Counted DEF Tag
    <2>2. CASE askers # {}
      BY <1>3, <1>4, <2>2
    <2> QED BY <2>1, <2>2
  <1>10. \A a \in Chare : a # c => (Answered(a)' <=> Answered(a))
    BY <1>1, <1>3 DEF Answered
  <1>11. Answered(c)'
    BY <1>1, <1>3, <1>4 DEF Answered
  <1>12. "responded" \notin reduced'
    BY <1>3, <1>4 DEF ResponseReceipts
  <1>13. ASSUME NEW a \in Chare
         PROVE  /\ ToCome("response", a)' => "queried" \in reduced'
                /\ ~Answered(a)' => Told(a)' = {} /\ contrib'["responded"][a] = 0
                /\ Answered(a)' /\ contrib'["responded"][a] = 0 =>
                     nbnd'[a] = Cardinality(Told(a)')
                /\ contrib'["responded"][a] > 0 => Told(a)' = {}
    <2>1. CASE a = c
      BY <1>3, <1>4, <1>8, <1>9, <1>11, <2>1
    <2>2. CASE a # c
      BY <1>3, <1>4, <1>6, <1>8, <1>9, <1>10, <2>2 DEF ResponseReceipts
    <2> QED BY <2>1, <2>2
  <1> QED BY <1>7, <1>12, <1>13 DEF ResponseReceipts

LEMMA ResponseReceiptsBnd ==
  ASSUME TypeOK, ResponseReceipts, NEW c \in Chare, Bnd(c)
  PROVE  ResponseReceipts'
  <1>1. PICK m \in msgs :
          /\ m.type = "bnd" /\ m.to = c
          /\ msgs' = (msgs \ {m}) \cup {[type |-> "recvbnd", to |-> m.from, from |-> c]}
    BY DEF Bnd
  <1>2. m.from \in Chare /\ m \in Sent("bnd", m.from, c)
    BY <1>1, Arguments DEF Sent
  <1>3. \A a, b \in Chare : OneOf("bnd", "recvbnd", a, b)
    BY DEF ResponseReceipts
  <1>4. /\ \A a, b \in Chare : OneOf("bnd", "recvbnd", a, b)'
        /\ \A a \in Chare : Told(a)' = Told(a)
    BY <1>1, <1>2, <1>3, Acknowledged DEF Told
  <1>5. \A a \in Chare : ToCome("response", a)' <=> ToCome("response", a)
    <2>1. SameToCome(Broadcast)
      BY Untouched
    <2> QED BY <2>1 DEF SameToCome, Broadcast
  <1>6. UNCHANGED <<contrib, reduced, nbnd>>
    BY DEF Bnd
  <1>7. \A a \in Chare : Answered(a)' <=> Answered(a)
    BY <1>5, <1>6 DEF Answered
  <1> QED BY <1>4, <1>5, <1>6, <1>7 DEF ResponseReceipts

LEMMA ResponseReceiptsRecvBnd ==
  ASSUME TypeOK, ResponseReceipts, NEW c \in Chare, RecvBnd(c)
  PROVE  ResponseReceipts'
  <1>1. PICK m \in msgs :
          /\ m.type = "recvbnd" /\ m.to = c /\ msgs' = msgs \ {m}
          /\ nbnd' = [nbnd EXCEPT ![c] = @ - 1]
          /\ IF LastReceipt(c) THEN Contribute(c, "responded") ELSE UNCHANGED contrib
    BY DEF RecvBnd, Receipt
  <1> DEFINE b == m.from
  <1>2. b \in Chare /\ m \in Sent("recvbnd", b, c)
    BY <1>1, Arguments DEF Sent
  <1>3. \A k \in Sent("recvbnd", b, c) : k = m
    BY <1>2, SameReceipt
  <1>4. \A a, d \in Chare : OneOf("bnd", "recvbnd", a, d)
    BY DEF ResponseReceipts
  <1> HIDE DEF b
  <1>5. /\ \A a, d \in Chare : OneOf("bnd", "recvbnd", a, d)'
        /\ b \in Told(c)
        /\ \A a \in Chare : Told(a)' = IF a = c THEN Told(a) \ {b} ELSE Told(a)
    <2>1. /\ \A a, d \in Chare : OneOf("bnd", "recvbnd", a, d)'
          /\ b \in Awaited("bnd", "recvbnd", c)
          /\ \A a \in Chare : Awaited("bnd", "recvbnd", a)' =
               IF a = c THEN Awaited("bnd", "recvbnd", a) \ {b}
               ELSE Awaited("bnd", "recvbnd", a)
      <3>1. "bnd" # "recvbnd" /\ msgs' = msgs \ {m}
        BY <1>1
      <3> QED BY <1>2, <1>3, <1>4, <3>1, Received, SMTT(60)
    <2> QED BY <2>1 DEF Told
  <1>6. \A a \in Chare : ToCome("response", a)' <=> ToCome("response", a)
    <2>1. SameToCome(Broadcast)
      BY Untouched
    <2> QED BY <2>1 DEF SameToCome, Broadcast
  <1>7. reduced' = reduced
    BY DEF RecvBnd, Receipt
  <1>8. \A a \in Chare : Answered(a)' <=> Answered(a)
    BY <1>6, <1>7 DEF Answered
  <1>9. contrib["responded"][c] = 0 /\ Answered(c) /\ nbnd[c] = Cardinality(Told(c))
    <2>1. contrib["responded"][c] \in Nat
      BY DEF TypeOK, Tag
    <2>2. contrib["responded"][c] = 0 /\ Answered(c)
      BY <1>5, <2>1 DEF ResponseReceipts
    <2> QED BY <2>2 DEF ResponseReceipts
  <1>10. nbnd'[c] = nbnd[c] - 1 /\ \A a \in Chare : a # c => nbnd'[a] = nbnd[a]
    BY <1>1 DEF TypeOK
  <1>11. nbnd[c] - 1 = Cardinality(Told(c)') /\ (nbnd[c] - 1 = 0 <=> Told(c)' = {})
    <2>1. Told(c) \subseteq Chare /\ b \in Told(c) /\ nbnd[c] = Cardinality(Told(c))
      BY <1>5, <1>9 DEF Told, Awaited
    <2>2. /\ nbnd[c] - 1 = Cardinality(Told(c) \ {b})
          /\ nbnd[c] - 1 = 0 <=> Told(c) \ {b} = {}
      BY <2>1, OneLess
    <2> QED BY <1>5, <2>2
  <1>12. CASE LastReceipt(c)
    <2>1. Contribute(c, "responded") /\ Told(c)' = {}
      BY <1>1, <1>11, <1>12 DEF LastReceipt
    <2>2. /\ contrib'["responded"][c] > 0
          /\ \A a \in Chare : a # c => contrib'["responded"][a] = contrib["responded"][a]
      BY <2>1, Counted DEF Tag
    <2>3. "responded" \notin reduced'
      BY <1>7, <1>9 DEF ResponseReceipts
    <2> QED BY <1>5, <1>6, <1>7, <1>8, <1>9, <1>10, <2>1, <2>2, <2>3 DEF ResponseReceipts
  <1>13. CASE ~LastReceipt(c)
    <2>1. UNCHANGED contrib
      BY <1>1, <1>13
    <2> QED BY <1>5, <1>6, <1>7, <1>8, <1>9, <1>10, <1>11, <2>1 DEF ResponseReceipts
  <1> QED BY <1>12, <1>13

\* The receipts of answers are counted right in every step.
LEMMA ResponseReceiptsNext ==
  ASSUME TypeOK, QueryReceipts, ResponseReceipts, [Next]_vars
  PROVE  ResponseReceipts'
  <1>1. ASSUME NEW c \in Chare, ChareStep(c) PROVE ResponseReceipts'
    <2>1. CASE Setup(c) \/ Query(c) \/ RecvQuery(c)
      <3>1. SameSent(Exchanged \ {"query", "recvquery"}) /\ SameToCome(Broadcast \ {"setup"})
        BY <2>1, Untouched DEF SameSent, SameToCome
      <3>2. SameSent({"bnd", "recvbnd"}) /\ SameToCome({"response"})
        BY <3>1 DEF SameSent, SameToCome, Exchanged, Broadcast
      <3>3. nbnd' = nbnd \/ ~Answered(c)
        <4>1. CASE Setup(c)
          BY <4>1 DEF Setup, ToCome, QueryReceipts, Answered
        <4>2. CASE Query(c)
          BY <4>2 DEF Query
        <4>3. CASE RecvQuery(c)
          <5>1. PICK m \in msgs : m.type = "recvquery" /\ m.to = c
            BY <4>3 DEF RecvQuery, Receipt
          <5>2. m.from \in Chare
            BY <5>1, Arguments
          <5>3. m.from \in Asked(c)
            BY <5>1, <5>2 DEF Asked, Awaited, Sent
          <5> QED BY <5>3 DEF QueryReceipts, Answered
        <4> QED BY <2>1, <4>1, <4>2, <4>3
      <3>4. \A a \in Chare : a # c => nbnd'[a] = nbnd[a]
        BY <2>1 DEF Setup, Query, RecvQuery, Receipt, TypeOK
      <3>5. reduced' = reduced /\ (Contribute(c, "queried") \/ UNCHANGED contrib)
        BY <2>1 DEF Setup, Query, RecvQuery, Receipt
      <3>6. \A a \in Chare : contrib'["responded"][a] = contrib["responded"][a]
        BY <3>5, Counted DEF Tag
      <3>7. \A a \in Chare : Answered(a) => nbnd'[a] = nbnd[a]
        BY <3>3, <3>4
      <3> QED BY <3>2, <3>5, <3>6, <3>7, ResponseReceiptsFrame
    <2>2. CASE Response(c)
      BY <2>2, ResponseReceiptsResponse
    <2>3. CASE Bnd(c)
      BY <2>3, ResponseReceiptsBnd
    <2>4. CASE RecvBnd(c)
      BY <2>4, ResponseReceiptsRecvBnd
    <2>5. CASE LaterStep(c)
      <3>1. /\ SameSent({"query", "recvquery", "bnd", "recvbnd"})
            /\ SameToCome({"setup", "response"})
            /\ UNCHANGED <<nodeset, nbnd, reduced>>
            /\ \A t \in {"queried", "responded"} : \A a \in Chare : contrib'[t][a] = contrib[t][a]
        BY <2>5, Later
      <3>2. SameSent({"bnd", "recvbnd"}) /\ SameToCome({"response"})
        BY <3>1 DEF SameSent, SameToCome
      <3> QED BY <3>1, <3>2, ResponseReceiptsFrame
    <2> QED BY <1>1, <2>1, <2>2, <2>3, <2>4, <2>5 DEF ChareStep, LaterStep
  <1>2. ASSUME NEW tag \in Tag, Reduced(tag) PROVE ResponseReceipts'
    <2>1. /\ SameSent(Exchanged) /\ SameToCome({"setup"})
          /\ \A c \in Chare : ToCome("response", c)' <=> ToCome("response", c) \/ tag = "queried"
          /\ tag \notin reduced /\ reduced' = reduced \cup {tag}
          /\ \A c \in Chare : contrib[tag][c] > 0
          /\ UNCHANGED <<nbnd, contrib>>
      BY <1>2, HostStep
    <2>2. SameSent({"bnd", "recvbnd"})
      BY <2>1 DEF SameSent, Exchanged
    <2>3. CASE tag = "queried"
      <3>1. \A a \in Chare : ~Answered(a) /\ ~Answered(a)' /\ ToCome("response", a)'
        BY <2>1, <2>3 DEF Answered
      <3>2. \A a, b \in Chare : Sent("bnd", a, b)' = Sent("bnd", a, b)
                              /\ Sent("recvbnd", a, b)' = Sent("recvbnd", a, b)
        BY <2>2 DEF SameSent
      <3>3. \A a \in Chare : Told(a)' = Told(a)
        BY <3>2 DEF Told, Awaited
      <3>4. \A a, b \in Chare : OneOf("bnd", "recvbnd", a, b)'
        BY <3>2 DEF ResponseReceipts, OneOf
      <3> QED BY <2>1, <2>3, <3>1, <3>3, <3>4 DEF ResponseReceipts
    <2>4. CASE tag # "queried"
      <3>1. SameToCome({"response"})
        BY <2>1, <2>4 DEF SameToCome
      <3> QED BY <2>1, <2>2, <2>4, <3>1, ResponseReceiptsFrame
    <2> QED BY <2>3, <2>4
  <1>3. CASE UNCHANGED vars
    <2>1. UNCHANGED <<msgs, nbnd, contrib, reduced>>
      BY <1>3 DEF vars
    <2>2. SameSent({"bnd", "recvbnd"}) /\ SameToCome({"response"})
      BY <2>1 DEF SameSent, SameToCome, Sent, ToCome
    <2> QED BY <2>1, <2>2, ResponseReceiptsFrame
  <1> QED BY <1>1, <1>2, <1>3 DEF Next, Quiescent

-----------------------------------------------------------------------------
(* The map of shared nodes. *)

LEMMA MapFrame ==
  ASSUME TypeOK, Map, UNCHANGED nodeset, SameSent({"bnd"}),
         \A a \in Chare : Answered(a)' => Answered(a),
         \A c \in Chare : contrib'["discinserted"][c] = 0 \/ ~Reorder =>
           (contrib["discinserted"][c] = 0 \/ ~Reorder) /\ msum'[c] = msum[c]
  PROVE  Map'
  <1>1. \A a, b \in Chare : Sent("bnd", a, b)' = Sent("bnd", a, b)
    BY DEF SameSent
  <1>2. \A a, b \in Chare : Both(a, b)' = Both(a, b)
    BY DEF Both
  <1>3. \A b, c, d \in Chare : \A m \in Sent("bnd", b, c)' : m.msum[d] \subseteq Both(c, d)'
    BY <1>1, <1>2 DEF Map
  <1>4. ASSUME NEW c \in Chare, NEW d \in Chare,
               contrib'["discinserted"][c] = 0 \/ ~Reorder
        PROVE  /\ msum'[c][d] \subseteq Both(c, d)'
               /\ \A n \in Both(c, d)' : Answered(Bin(n))' =>
                    n \in msum'[c][d] \/ \E m \in Sent("bnd", Bin(n), c)' : n \in m.msum[d]
    <2>1. /\ msum[c][d] \subseteq Both(c, d)
          /\ \A n \in Both(c, d) : Answered(Bin(n)) =>
               n \in msum[c][d] \/ \E m \in Sent("bnd", Bin(n), c) : n \in m.msum[d]
      BY <1>4 DEF Map
    <2>2. \A n \in Both(c, d) : Bin(n) \in Chare
      BY BinType DEF Both, TypeOK
    <2> QED BY <1>1, <1>2, <1>4, <2>1, <2>2
  <1> QED BY <1>3, <1>4 DEF Map, Bin

LEMMA MapResponse ==
  ASSUME TypeOK, QueryReceipts, Table, ResponseReceipts, Map, NEW c \in Chare, Response(c)
  PROVE  Map'
  <1>1. /\ \A a \in Chare : ToCome("response", a)' <=> ToCome("response", a) /\ a # c
        /\ \A a, b \in Chare : Sent("bnd", a, b)' =
             IF a # c THEN Sent("bnd", a, b)
             ELSE IF chnode[c][b] # {}
             THEN {[type |-> "bnd", to |-> b, from |-> c, msum |-> Common(c, b)]}
             ELSE {}
    BY ResponseCalls
  <1>2. UNCHANGED <<nodeset, msum, reduced>> /\ ToCome("response", c)
    BY DEF Response, ToCome
  <1>3. \A a \in Chare : contrib'["discinserted"][a] = contrib["discinserted"][a]
    BY Counted DEF Response, Tag
  <1>4. \A a, b \in Chare : Both(a, b)' = Both(a, b)
    BY <1>2 DEF Both
  \* All queries were filed before the answers began.
  <1>5. \A a \in Chare : \A n \in Shared(a) : Bin(n) \in Chare /\ n \in chnode[Bin(n)][a]
    <2>1. "queried" \in reduced /\ "responded" \notin reduced
      BY <1>2 DEF ResponseReceipts, Answered
    <2>2. \A a \in Chare : ~ToCome("setup", a) /\ Asked(a) = {}
      BY <2>1 DEF QueryReceipts
    <2>3. \A a, b \in Chare : Sent("query", a, b) = {}
      BY <2>2 DEF Asked, Awaited
    <2>4. \A a \in Chare : \A n \in Shared(a) : Bin(n) \in Chare
      BY BinType DEF Shared, TypeOK
    <2> QED BY <2>1, <2>2, <2>3, <2>4 DEF Table
  <1>6. ASSUME NEW b \in Chare, NEW a \in Chare, NEW d \in Chare, NEW m \in Sent("bnd", b, a)'
        PROVE  m.msum[d] \subseteq Both(a, d)'
    <2>1. CASE b = c
      <3>1. m = [type |-> "bnd", to |-> a, from |-> c, msum |-> Common(c, a)]
        BY <1>1, <1>6, <2>1
      <3>2. m.msum[d] = IF d # a THEN chnode[c][a] \cap chnode[c][d] ELSE {}
        BY <3>1 DEF Common
      <3>3. chnode[c][a] \subseteq nodeset[a] /\ chnode[c][d] \subseteq nodeset[d]
        BY DEF Table
      <3>4. m.msum[d] \subseteq Both(a, d)
        BY <3>2, <3>3 DEF Both
      <3> QED BY <1>4, <3>4
    <2>2. CASE b # c
      BY <1>1, <1>4, <1>6, <2>2 DEF Map
    <2> QED BY <2>1, <2>2
  <1>7. ASSUME NEW a \in Chare, NEW d \in Chare,
               contrib'["discinserted"][a] = 0 \/ ~Reorder
        PROVE  /\ msum'[a][d] \subseteq Both(a, d)'
               /\ \A n \in Both(a, d)' : Answered(Bin(n))' =>
                    n \in msum'[a][d] \/ \E m \in Sent("bnd", Bin(n), a)' : n \in m.msum[d]
    <2>1. /\ msum[a][d] \subseteq Both(a, d)
          /\ \A n \in Both(a, d) : Answered(Bin(n)) =>
               n \in msum[a][d] \/ \E m \in Sent("bnd", Bin(n), a) : n \in m.msum[d]
      BY <1>3, <1>7 DEF Map
    <2>2. ASSUME NEW n \in Both(a, d), Answered(Bin(n))'
          PROVE  n \in msum'[a][d] \/ \E m \in Sent("bnd", Bin(n), a)' : n \in m.msum[d]
      <3>1. a # d /\ n \in Shared(a) /\ n \in Shared(d)
        BY DEF Both, Shared
      <3>2. Bin(n) \in Chare /\ n \in chnode[Bin(n)][a] /\ n \in chnode[Bin(n)][d]
        BY <1>5, <3>1
      <3>3. CASE Bin(n) = c
        <4> DEFINE m == [type |-> "bnd", to |-> a, from |-> c, msum |-> Common(c, a)]
        <4>1. m \in Sent("bnd", Bin(n), a)'
          BY <1>1, <3>2, <3>3
        <4>2. m.msum[d] = chnode[c][a] \cap chnode[c][d]
          BY <3>1 DEF Common
        <4> QED BY <3>2, <3>3, <4>1, <4>2
      <3>4. CASE Bin(n) # c
        <4>1. Answered(Bin(n))
          BY <1>1, <1>2, <2>2, <3>2, <3>4 DEF Answered
        <4> QED BY <1>1, <1>2, <2>1, <3>2, <3>4, <4>1
      <3> QED BY <3>3, <3>4
    <2> QED BY <1>2, <1>4, <2>1, <2>2
  <1> QED BY <1>6, <1>7 DEF Map, Bin

LEMMA MapBnd ==
  ASSUME TypeOK, Map, NEW c \in Chare, Bnd(c)
  PROVE  Map'
  <1>1. PICK m \in msgs :
          /\ m.type = "bnd" /\ m.to = c
          /\ msum' = [msum EXCEPT ![c] = [d \in Chare |-> @[d] \cup m.msum[d]]]
          /\ msgs' = (msgs \ {m}) \cup {[type |-> "recvbnd", to |-> m.from, from |-> c]}
    BY DEF Bnd
  <1>2. UNCHANGED <<nodeset, reduced, contrib>>
    BY DEF Bnd
  <1>3. m.from \in Chare /\ m \in Sent("bnd", m.from, c)
    BY <1>1, Arguments DEF Sent
  <1>4. \A a, b \in Chare : Sent("bnd", a, b)' = Sent("bnd", a, b) \ {m}
    BY <1>1 DEF Sent
  <1>5. \A a, d \in Chare : msum'[a][d] = IF a = c THEN msum[a][d] \cup m.msum[d] ELSE msum[a][d]
    BY <1>1 DEF TypeOK
  <1>6. \A a \in Chare : Answered(a)' <=> Answered(a)
    <2>1. SameToCome(Broadcast)
      BY Untouched
    <2> QED BY <1>2, <2>1 DEF SameToCome, Broadcast, Answered
  <1>7. \A a, b \in Chare : Both(a, b)' = Both(a, b)
    BY <1>2 DEF Both
  <1>8. \A b, a, d \in Chare : \A k \in Sent("bnd", b, a)' : k.msum[d] \subseteq Both(a, d)'
    BY <1>4, <1>7 DEF Map
  <1>9. ASSUME NEW a \in Chare, NEW d \in Chare,
               contrib'["discinserted"][a] = 0 \/ ~Reorder
        PROVE  /\ msum'[a][d] \subseteq Both(a, d)'
               /\ \A n \in Both(a, d)' : Answered(Bin(n))' =>
                    n \in msum'[a][d] \/ \E k \in Sent("bnd", Bin(n), a)' : n \in k.msum[d]
    <2>1. /\ msum[a][d] \subseteq Both(a, d)
          /\ \A n \in Both(a, d) : Answered(Bin(n)) =>
               n \in msum[a][d] \/ \E k \in Sent("bnd", Bin(n), a) : n \in k.msum[d]
      BY <1>2, <1>9 DEF Map
    <2>2. m.msum[d] \subseteq Both(c, d)
      BY <1>3 DEF Map
    <2>3. ASSUME NEW n \in Both(a, d), Answered(Bin(n))'
          PROVE  n \in msum'[a][d] \/ \E k \in Sent("bnd", Bin(n), a)' : n \in k.msum[d]
      <3>1. Bin(n) \in Chare
        BY BinType DEF Both, TypeOK
      <3>2. n \in msum[a][d] \/ \E k \in Sent("bnd", Bin(n), a) : n \in k.msum[d]
        BY <1>6, <2>1, <2>3, <3>1
      <3>3. ASSUME NEW k \in Sent("bnd", Bin(n), a), n \in k.msum[d]
            PROVE  k \in Sent("bnd", Bin(n), a)' \/ n \in msum'[a][d]
        <4>1. CASE k = m
          <5>1. a = c
            BY <1>1, <4>1 DEF Sent
          <5> QED BY <1>5, <3>3, <4>1, <5>1
        <4>2. CASE k # m
          BY <1>4, <3>1, <4>2
        <4> QED BY <4>1, <4>2
      <3> QED BY <1>5, <3>2, <3>3
    <2> QED BY <1>5, <1>7, <2>1, <2>2, <2>3
  <1> QED BY <1>8, <1>9 DEF Map, Bin

\* The last steps of reorder() and neworder(): only finish() touches the map.
LEMMA MapFinish ==
  ASSUME TypeOK, NEW c \in Chare, NEW new, NEW others, FinishIfNumbered(c, new, others), Reorder
  PROVE  \A a \in Chare : contrib'["discinserted"][a] = 0 \/ ~Reorder =>
           (contrib["discinserted"][a] = 0 \/ ~Reorder) /\ msum'[a] = msum[a]
  <1>1. CASE Finish(c, new, others)
    <2>1. Contribute(c, "discinserted") /\ \A a \in Chare : a # c => msum'[a] = msum[a]
      BY <1>1 DEF Finish, TypeOK
    <2>2. /\ contrib'["discinserted"][c] > 0
          /\ \A a \in Chare : a # c => contrib'["discinserted"][a] = contrib["discinserted"][a]
      BY <2>1, Counted DEF Tag
    <2> QED BY <2>1, <2>2
  <1>2. CASE UNCHANGED <<msum, contrib>>
    BY <1>2
  <1> QED BY <1>1, <1>2 DEF FinishIfNumbered

\* Nodes are renumbered only if that was asked for.
LEMMA OnlyIfAsked ==
  ASSUME TypeOK, Offsets, Requests, NEW c \in Chare, Offset(c) \/ NewOrder(c)
  PROVE  Reorder
  <1>1. CASE Offset(c)
    <2>1. PICK m \in msgs : m.type = "offset" /\ m.to = c
      BY <1>1 DEF Offset
    <2>2. m.from \in Chare /\ m \in Sent("offset", m.from, c)
      BY <2>1, Arguments DEF Sent
    <2> QED BY <2>2 DEF Offsets
  <1>2. CASE NewOrder(c)
    <2>1. PICK m \in msgs : m.type = "neworder" /\ m.to = c
      BY <1>2 DEF NewOrder
    <2>2. m.from \in Chare /\ m \in Sent("neworder", m.from, c)
      BY <2>1, Arguments DEF Sent
    <2>3. noffset[c] = NChare
      BY <2>2 DEF Requests, Numbered
    <2> QED BY <2>3, SorterAssumption DEF Offsets
  <1> QED BY <1>1, <1>2

\* The communication map is or will be complete in every step.
LEMMA MapNext ==
  ASSUME TypeOK, QueryReceipts, Table, ResponseReceipts, Map, Offsets, Requests, [Next]_vars
  PROVE  Map'
  <1> DEFINE Kept == \A a \in Chare : contrib'["discinserted"][a] = 0 \/ ~Reorder =>
                       (contrib["discinserted"][a] = 0 \/ ~Reorder) /\ msum'[a] = msum[a]
  <1>1. ASSUME NEW c \in Chare, ChareStep(c) PROVE Map'
    <2>1. CASE Setup(c) \/ Query(c) \/ RecvQuery(c) \/ RecvBnd(c)
      <3>1. SameSent(Exchanged \ {"query", "recvquery", "recvbnd"})
            /\ SameToCome(Broadcast \ {"setup"})
        BY <2>1, Untouched DEF SameSent, SameToCome
      <3>2. SameSent({"bnd"}) /\ SameToCome({"response"})
        BY <3>1 DEF SameSent, SameToCome, Exchanged, Broadcast
      <3>3. UNCHANGED <<nodeset, msum, reduced>>
            /\ (Contribute(c, "queried") \/ Contribute(c, "responded") \/ UNCHANGED contrib)
        BY <2>1 DEF Setup, Query, RecvQuery, RecvBnd, Receipt
      <3>4. Kept
        BY <3>3, Counted DEF Tag
      <3>5. \A a \in Chare : Answered(a)' => Answered(a)
        BY <3>2, <3>3 DEF Answered, SameToCome
      <3> QED BY <3>2, <3>3, <3>4, <3>5, MapFrame
    <2>2. CASE Response(c)
      BY <2>2, MapResponse
    <2>3. CASE Bnd(c)
      BY <2>3, MapBnd
    <2>4. CASE LaterStep(c)
      <3>1. /\ SameSent({"query", "recvquery", "bnd", "recvbnd"})
            /\ SameToCome({"setup", "response"}) /\ UNCHANGED <<nodeset, reduced>>
        BY <2>4, Later
      <3>2. SameSent({"bnd"}) /\ \A a \in Chare : Answered(a)' => Answered(a)
        BY <3>1 DEF SameSent, SameToCome, Answered
      <3>3. Kept
        <4>1. CASE Start(c)
          <5>1. UNCHANGED msum /\ (UNCHANGED contrib \/ Contribute(c, "discinserted"))
            BY <4>1 DEF Start
          <5>2. \A a \in Chare : contrib["discinserted"][a] > 0 => contrib'["discinserted"][a] > 0
            BY <5>1, Counted DEF Tag
          <5>3. \A a \in Chare : contrib["discinserted"][a] \in Nat
            BY DEF TypeOK, Tag
          <5> QED BY <5>1, <5>2, <5>3
        <4>2. CASE Offset(c)
          <5>1. Reorder
            BY <4>2, OnlyIfAsked
          <5>2. \/ UNCHANGED <<msum, contrib>>
                \/ \E new, others : FinishIfNumbered(c, new, others)
            BY <4>2 DEF Offset, ReorderOwn
          <5> QED BY <5>1, <5>2, MapFinish
        <4>3. CASE NewOrder(c)
          <5>1. Reorder
            BY <4>3, OnlyIfAsked
          <5>2. \E new, others : FinishIfNumbered(c, new, others)
            BY <4>3 DEF NewOrder
          <5> QED BY <5>1, <5>2, MapFinish
        <4>4. CASE Request(c) \/ Wait4Prep(c) \/ RefinerReorder(c) \/ CreateWorkers(c)
          <5>1. UNCHANGED msum /\ (UNCHANGED contrib \/ Contribute(c, "workinserted"))
            BY <4>4 DEF Request, Wait4Prep, RefinerReorder, CreateWorkers
          <5> QED BY <5>1, Counted DEF Tag
        <4> QED BY <2>4, <4>1, <4>2, <4>3, <4>4 DEF LaterStep
      <3> QED BY <3>1, <3>2, <3>3, MapFrame
    <2> QED BY <1>1, <2>1, <2>2, <2>3, <2>4 DEF ChareStep, LaterStep
  <1>2. ASSUME NEW tag \in Tag, Reduced(tag) PROVE Map'
    <2>1. /\ SameSent(Exchanged)
          /\ \A c \in Chare : ToCome("response", c)' <=> ToCome("response", c) \/ tag = "queried"
          /\ reduced' = reduced \cup {tag}
          /\ UNCHANGED <<nodeset, msum, contrib>>
      BY <1>2, HostStep
    <2>2. SameSent({"bnd"}) /\ \A a \in Chare : Answered(a)' => Answered(a)
      BY <2>1 DEF SameSent, Exchanged, Answered
    <2> QED BY <2>1, <2>2, MapFrame
  <1>3. CASE UNCHANGED vars
    <2>1. UNCHANGED <<msgs, nodeset, msum, contrib, reduced>>
      BY <1>3 DEF vars
    <2>2. SameSent({"bnd"}) /\ \A a \in Chare : Answered(a)' => Answered(a)
      BY <2>1 DEF SameSent, Sent, Answered, ToCome
    <2> QED BY <2>1, <2>2, MapFrame
  <1> QED BY <1>1, <1>2, <1>3 DEF Next, Quiescent

-----------------------------------------------------------------------------
(* The renumbering, and the agreement on the new ids.                      *)

USE SorterAssumption

\* A node of a chare has a lowest chare, which numbers it.
LEMMA LowestOwner ==
  ASSUME NEW c \in Chare, NEW n \in nodeset[c], \A d \in Chare : d < c => ~Owns(d, n)
  PROVE  Owns(c, n)
  <1> DEFINE T == {e \in Chare : e < c /\ n \in nodeset[e]}
  <1>1. T = {}
    <2> SUFFICES ASSUME T # {} PROVE FALSE
      OBVIOUS
    <2>1. T \subseteq Nat
      BY DEF Chare
    <2>2. PICK d \in T : \A e \in T : ~(<<e, d>> \in OpToRel(<, Nat))
      <3> HIDE DEF T
      <3> QED BY <2>1, NatLessThanWellFounded, WFMin
    <2>3. \A e \in T : ~(e < d)
      BY <2>1, <2>2 DEF OpToRel
    <2>4. Owns(d, n)
      BY <2>3 DEF Owns, Chare
    <2> QED BY <2>4
  <1> QED BY <1>1 DEF Owns, Chare

\* No two chares number the same node.
LEMMA OneOwner ==
  ASSUME NEW n, NEW c \in Chare, NEW d \in Chare, Owns(c, n), Owns(d, n)
  PROVE  c = d
  BY DEF Owns, Chare

\* When all numbers have arrived, all chares have started.
LEMMA AllHeard ==
  ASSUME TypeOK, Offsets, NEW c \in Chare, Numbered(c)
  PROVE  /\ Reorder
         /\ Heard(c) = Chare
         /\ \A d \in Chare : Started(d) /\ Sent("offset", d, c) = {}
  <1>1. Reorder /\ Cardinality(Heard(c)) = NChare
    BY DEF Offsets, Numbered
  <1>2. Cardinality(Chare) = NChare
    BY FS_Interval DEF Chare
  <1>3. Heard(c) \in SUBSET Chare
    BY DEF Heard
  <1>4. Heard(c) = Chare
    BY <1>1, <1>2, <1>3, FiniteChares, FS_Subset
  <1> QED BY <1>1, <1>4 DEF Heard

-----------------------------------------------------------------------------
(* start() ... reorder() *)

LEMMA OffsetsFrame ==
  ASSUME TypeOK, Offsets, UNCHANGED <<nodeset, reordcomm, noffset>>, SameSent({"offset"}),
         \A a \in Chare : Started(a)' <=> Started(a),
         \A a \in Chare : ToCome("start", a)' => "responded" \in reduced',
         \A a \in Chare : contrib'["discinserted"][a] > 0 =>
           \/ contrib["discinserted"][a] > 0
           \/ Started(a) /\ (Reorder => noffset[a] = NChare)
  PROVE  Offsets'
  <1>1. \A a, b \in Chare : Sent("offset", a, b)' = Sent("offset", a, b)
    BY DEF SameSent
  <1>2. \A a \in Chare : Heard(a)' = Heard(a)
    BY <1>1 DEF Heard
  <1>3. \A d \in Chare : \A n : Owns(d, n)' <=> Owns(d, n)
    BY DEF Owns
  <1>4. \A c, d \in Chare :
          /\ \A m1, m2 \in Sent("offset", c, d)' : m1 = m2
          /\ Sent("offset", c, d)' # {} => Reorder /\ Started(c)'
    <2>1. \A c, d \in Chare :
            /\ \A m1, m2 \in Sent("offset", c, d) : m1 = m2
            /\ Sent("offset", c, d) # {} => Reorder /\ Started(c)
      BY DEF Offsets
    <2> QED BY <1>1, <2>1
  <1>5. \A c, d \in Chare :
          reordcomm'[c][d] = IF Reorder /\ Started(c)'
                             THEN {n \in nodeset'[c] : d < c /\ Owns(d, n)'}
                             ELSE {}
    <2>1. \A c, d \in Chare :
            reordcomm[c][d] = IF Reorder /\ Started(c)
                              THEN {n \in nodeset[c] : d < c /\ Owns(d, n)}
                              ELSE {}
      BY DEF Offsets
    <2>2. \A c, d \in Chare :
            {n \in nodeset'[c] : d < c /\ Owns(d, n)'} = {n \in nodeset[c] : d < c /\ Owns(d, n)}
      BY <1>3
    <2> QED BY <2>1, <2>2
  <1>6. \A c \in Chare : noffset'[c] = IF Reorder THEN Cardinality(Heard(c)') ELSE 0
    BY <1>2 DEF Offsets
  <1>7. \A c \in Chare : contrib'["discinserted"][c] > 0 =>
          Started(c)' /\ (Reorder => noffset'[c] = NChare)
    BY DEF Offsets
  <1> QED BY <1>4, <1>5, <1>6, <1>7 DEF Offsets

\* The calls that start() makes.
LEMMA StartCalls ==
  ASSUME TypeOK, Offsets, NEW c \in Chare, Start(c)
  PROVE  /\ \A a \in Chare : ToCome("start", a)' <=> ToCome("start", a) /\ a # c
         /\ \A a, b \in Chare : Sent("offset", a, b)' =
              IF a # c THEN Sent("offset", a, b)
              ELSE IF Reorder
              THEN {[type |-> "offset", to |-> b, from |-> c, num |-> Nuniq(c, Mask(c))]}
              ELSE {}
  <1> DEFINE s == [type |-> "start", to |-> c]
             q(b) == [type |-> "offset", to |-> b, from |-> c, num |-> Nuniq(c, Mask(c))]
  <1>1. s \in msgs /\ msgs' = IF Reorder THEN (msgs \ {s}) \cup {q(b) : b \in Chare}
                              ELSE msgs \ {s}
    BY DEF Start
  <1>2. s.type = "start" /\ s.to = c
    OBVIOUS
  <1>3. \A b : q(b).type = "offset" /\ q(b).to = b /\ q(b).from = c
    OBVIOUS
  <1>4. \A b \in Chare : Sent("offset", c, b) = {}
    BY <1>1 DEF Offsets, Started, ToCome
  <1>5. \A a \in Chare : ToCome("start", a)' <=> ToCome("start", a) /\ a # c
    <2>1. \A a \in Chare : [type |-> "start", to |-> a].type = "start"
                         /\ [type |-> "start", to |-> a].to = a
      OBVIOUS
    <2> HIDE DEF q
    <2> QED BY <1>1, <1>3, <2>1 DEF ToCome
  <1>6. ASSUME NEW a \in Chare, NEW b \in Chare
        PROVE  Sent("offset", a, b)' = IF a # c THEN Sent("offset", a, b)
                                       ELSE IF Reorder THEN {q(b)} ELSE {}
    <2> HIDE DEF q, s
    <2>1. CASE a = c
      <3>1. \A m : m \in Sent("offset", a, b)' <=>
                  m.type = "offset" /\ m.from = a /\ m.to = b /\
                  Reorder /\ \E k \in Chare : m = q(k)
        BY <1>1, <1>3, <1>4, <2>1 DEF Sent
      <3>2. \A m : m \in Sent("offset", a, b)' <=> Reorder /\ m = q(b)
        BY <1>3, <2>1, <3>1
      <3> QED BY <2>1, <3>2
    <2>2. CASE a # c
      BY <1>1, <1>2, <1>3, <2>2 DEF Sent
    <2> QED BY <2>1, <2>2
  <1> QED BY <1>5, <1>6

\* mask() finds what the lower chares own.
LEMMA MaskOwned ==
  ASSUME TypeOK, ResponseReceipts, Map, Offsets, NEW c \in Chare, ToCome("start", c)
  PROVE  \A d \in Chare : Mask(c)[d] = {n \in nodeset[c] : d < c /\ Owns(d, n)}
  <1>1. "responded" \in reduced /\ contrib["discinserted"][c] = 0
    <2>1. contrib["discinserted"][c] \in Nat
      BY DEF TypeOK, Tag
    <2> QED BY <2>1 DEF Offsets, Started
  <1>2. \A a \in Chare : Answered(a) /\ \A b \in Chare : Sent("bnd", a, b) = {}
    <2>1. \A a \in Chare : contrib["responded"][a] > 0
      BY <1>1 DEF ResponseReceipts
    <2>2. \A a \in Chare : Answered(a) /\ Told(a) = {}
      BY <2>1 DEF ResponseReceipts
    <2> QED BY <2>2 DEF Told, Awaited
  <1>3. ASSUME NEW d \in Chare PROVE msum[c][d] = Both(c, d)
    <2>1. \A n \in Both(c, d) : Bin(n) \in Chare
      BY BinType DEF Both, TypeOK
    <2>2. /\ msum[c][d] \subseteq Both(c, d)
          /\ \A n \in Both(c, d) : Answered(Bin(n)) =>
               n \in msum[c][d] \/ \E m \in Sent("bnd", Bin(n), c) : n \in m.msum[d]
      BY <1>1 DEF Map
    <2>3. \A n \in Both(c, d) : n \in msum[c][d]
      BY <1>2, <2>1, <2>2
    <2> QED BY <2>2, <2>3
  <1>4. ASSUME NEW d \in Chare
        PROVE  Mask(c)[d] = {n \in nodeset[c] : d < c /\ Owns(d, n)}
    <2>1. Mask(c)[d] = {n \in NodeId : /\ d < c /\ n \in msum[c][d]
                                       /\ \A e \in 0 .. (d - 1) : n \notin msum[c][e]}
      BY DEF Mask
    <2>2. \A e : e \in 0 .. (d - 1) <=> e \in Chare /\ e < d
      BY DEF Chare
    <2>3. ASSUME d < c, NEW n
          PROVE  n \in Mask(c)[d] <=> n \in nodeset[c] /\ Owns(d, n)
      <3>1. \A e \in Chare : e <= d => msum[c][e] = nodeset[c] \cap nodeset[e]
        <4>1. \A e \in Chare : e <= d => e # c
          BY <2>3 DEF Chare
        <4> QED BY <1>3, <4>1 DEF Both
      <3>2. nodeset[c] \subseteq NodeId /\ d <= d
        BY DEF TypeOK, Chare
      <3>3. n \in Mask(c)[d] <=>
              /\ n \in nodeset[c] /\ n \in nodeset[d]
              /\ \A e \in Chare : e < d => n \notin msum[c][e]
        BY <2>1, <2>2, <2>3, <3>1, <3>2
      <3>4. \A e \in Chare : e < d => e <= d
        BY DEF Chare
      <3> QED BY <3>1, <3>3, <3>4 DEF Owns
    <2> QED BY <2>1, <2>3
  <1> QED BY <1>4

LEMMA OffsetsStart ==
  ASSUME TypeOK, ResponseReceipts, Map, Offsets, NEW c \in Chare, Start(c)
  PROVE  Offsets'
  <1>1. /\ \A a \in Chare : ToCome("start", a)' <=> ToCome("start", a) /\ a # c
        /\ \A a, b \in Chare : Sent("offset", a, b)' =
             IF a # c THEN Sent("offset", a, b)
             ELSE IF Reorder
             THEN {[type |-> "offset", to |-> b, from |-> c, num |-> Nuniq(c, Mask(c))]}
             ELSE {}
    BY StartCalls
  <1>2. UNCHANGED <<nodeset, noffset, reduced>> /\ ToCome("start", c) /\ "responded" \in reduced
    BY DEF Start, ToCome, Offsets
  <1>3. ~Started(c) /\ Started(c)' /\ \A a \in Chare : a # c => (Started(a)' <=> Started(a))
    BY <1>1, <1>2 DEF Started
  <1>4. \A d \in Chare : \A n : Owns(d, n)' <=> Owns(d, n)
    BY <1>2 DEF Owns
  <1>5. ASSUME Reorder, NEW a \in Chare PROVE Heard(a)' = Heard(a)
    <2>1. ASSUME NEW d \in Chare
          PROVE  Started(d)' /\ Sent("offset", d, a)' = {} <=>
                 Started(d) /\ Sent("offset", d, a) = {}
      <3>1. CASE d # c
        BY <1>1, <1>3, <3>1
      <3>2. CASE d = c
        <4>1. Sent("offset", d, a)' # {}
          BY <1>1, <1>5, <3>2
        <4> QED BY <1>3, <3>2, <4>1
      <3> QED BY <3>1, <3>2
    <2> QED BY <2>1 DEF Heard
  <1>6. ASSUME NEW a \in Chare, NEW b \in Chare
        PROVE  /\ \A m1, m2 \in Sent("offset", a, b)' : m1 = m2
               /\ Sent("offset", a, b)' # {} => Reorder /\ Started(a)'
    <2>1. CASE a = c
      BY <1>1, <1>3, <2>1
    <2>2. CASE a # c
      <3>1. /\ \A m1, m2 \in Sent("offset", a, b) : m1 = m2
            /\ Sent("offset", a, b) # {} => Reorder /\ Started(a)
        BY DEF Offsets
      <3> QED BY <1>1, <1>3, <2>2, <3>1
    <2> QED BY <2>1, <2>2
  <1>7. ASSUME NEW a \in Chare, NEW d \in Chare
        PROVE  reordcomm'[a][d] = IF Reorder /\ Started(a)'
                                  THEN {n \in nodeset'[a] : d < a /\ Owns(d, n)'}
                                  ELSE {}
    <2>1. reordcomm[a][d] = IF Reorder /\ Started(a)
                            THEN {n \in nodeset[a] : d < a /\ Owns(d, n)}
                            ELSE {}
      BY DEF Offsets
    <2>2. {n \in nodeset'[a] : d < a /\ Owns(d, n)'} = {n \in nodeset[a] : d < a /\ Owns(d, n)}
      BY <1>2, <1>4
    <2>3. CASE a = c /\ Reorder
      <3>1. reordcomm' = [reordcomm EXCEPT ![c] = Mask(c)]
        BY <2>3 DEF Start
      <3>2. reordcomm'[a][d] = Mask(c)[d]
        BY <2>3, <3>1 DEF TypeOK
      <3>3. Mask(c)[d] = {n \in nodeset[c] : d < c /\ Owns(d, n)}
        BY <1>2, MaskOwned
      <3> QED BY <1>3, <2>2, <2>3, <3>2, <3>3
    <2>4. CASE ~(a = c /\ Reorder)
      <3>1. reordcomm'[a] = reordcomm[a]
        BY <2>4 DEF Start, TypeOK
      <3> QED BY <1>3, <2>1, <2>2, <2>4, <3>1
    <2> QED BY <2>3, <2>4
  <1>8. \A a \in Chare : noffset'[a] = IF Reorder THEN Cardinality(Heard(a)') ELSE 0
    BY <1>2, <1>5 DEF Offsets
  <1>9. ASSUME NEW a \in Chare, contrib'["discinserted"][a] > 0
        PROVE  Started(a)' /\ (Reorder => noffset'[a] = NChare)
    <2>1. CASE Reorder
      <3>1. UNCHANGED contrib
        BY <2>1 DEF Start
      <3> QED BY <1>2, <1>3, <1>9, <3>1 DEF Offsets
    <2>2. CASE ~Reorder
      <3>1. Contribute(c, "discinserted")
        BY <2>2 DEF Start
      <3>2. a # c => contrib'["discinserted"][a] = contrib["discinserted"][a]
        BY <3>1, Counted DEF Tag
      <3>3. a # c => Started(a)
        BY <1>9, <3>2 DEF Offsets
      <3> QED BY <1>3, <2>2, <3>3
    <2> QED BY <2>1, <2>2
  <1>10. \A a \in Chare : ToCome("start", a)' => "responded" \in reduced'
    BY <1>2
  <1> QED BY <1>6, <1>7, <1>8, <1>9, <1>10 DEF Offsets

LEMMA OffsetsOffset ==
  ASSUME TypeOK, Offsets, NEW c \in Chare, Offset(c)
  PROVE  Offsets'
  <1>1. PICK m \in msgs :
          /\ m.type = "offset" /\ m.to = c
          /\ noffset' = [noffset EXCEPT ![c] = @ + 1]
          /\ \/ noffset[c] + 1 = NChare /\ \E first : ReorderOwn(c, first, msgs \ {m})
             \/ UNCHANGED contrib /\ msgs' = msgs \ {m}
    BY DEF Offset
  <1> DEFINE d == m.from
  <1>2. d \in Chare /\ m \in Sent("offset", d, c)
    BY <1>1, Arguments DEF Sent
  <1> HIDE DEF d
  <1>3. UNCHANGED <<nodeset, reordcomm, reduced>>
    BY DEF Offset
  <1>4. Reorder /\ Started(d) /\ d \notin Heard(c)
    BY <1>2 DEF Offsets, Heard
  <1>5. \A k : k.type = "offset" => (k \in msgs' <=> k \in msgs /\ k # m)
    <2>1. CASE msgs' = msgs \ {m}
      BY <2>1
    <2>2. CASE \E first : ReorderOwn(c, first, msgs \ {m})
      <3>1. PICK new :
              FinishIfNumbered(c, new,
                (msgs \ {m}) \cup {[type |-> "wait4prep", to |-> c]} \cup
                {[type |-> "request", to |-> e, from |-> c, nodes |-> reordcomm[c][e]] :
                   e \in {e \in Chare : reordcomm[c][e] # {}}})
        BY <2>2 DEF ReorderOwn
      <3> QED BY <3>1 DEF FinishIfNumbered, Finish
    <2> QED BY <1>1, <2>1, <2>2
  <1>6. \A a, b \in Chare : Sent("offset", a, b)' =
          IF a = d /\ b = c THEN {} ELSE Sent("offset", a, b)
    <2>1. \A k \in Sent("offset", d, c) : k = m
      BY <1>2 DEF Offsets
    <2>2. m.from = d /\ m.to = c
      BY <1>2 DEF Sent
    <2> QED BY <1>5, <2>1, <2>2 DEF Sent
  <1>7. \A a \in Chare : /\ ToCome("start", a)' <=> ToCome("start", a)
                         /\ Started(a)' <=> Started(a)
    <2>1. SameToCome(Broadcast)
      BY Untouched
    <2> QED BY <1>3, <2>1 DEF SameToCome, Broadcast, Started
  <1>8. \A a \in Chare : \A n : Owns(a, n)' <=> Owns(a, n)
    BY <1>3 DEF Owns
  <1>9. \A a \in Chare : Heard(a)' = IF a = c THEN Heard(a) \cup {d} ELSE Heard(a)
    <2>1. ASSUME NEW a \in Chare, NEW b \in Chare
          PROVE  Started(b)' /\ Sent("offset", b, a)' = {} <=>
                 \/ Started(b) /\ Sent("offset", b, a) = {}
                 \/ a = c /\ b = d
      BY <1>2, <1>4, <1>6, <1>7
    <2> QED BY <1>2, <2>1 DEF Heard
  <1>10. \A a \in Chare : noffset'[a] = Cardinality(Heard(a)')
    <2>1. Heard(c) \subseteq Chare
      BY DEF Heard
    <2>2. IsFiniteSet(Heard(c))
      BY <2>1, FiniteChares
    <2>3. Cardinality(Heard(c) \cup {d}) = Cardinality(Heard(c)) + 1
      BY <1>4, <2>2, FS_AddElement
    <2>4. \A a \in Chare : noffset[a] = Cardinality(Heard(a))
      BY <1>4 DEF Offsets
    <2>5. \A a \in Chare : noffset'[a] = IF a = c THEN noffset[a] + 1 ELSE noffset[a]
      BY <1>1 DEF TypeOK
    <2> QED BY <1>9, <2>3, <2>4, <2>5
  <1>11. ASSUME NEW a \in Chare, NEW b \in Chare
         PROVE  /\ \A m1, m2 \in Sent("offset", a, b)' : m1 = m2
                /\ Sent("offset", a, b)' # {} => Reorder /\ Started(a)'
    <2>1. /\ \A m1, m2 \in Sent("offset", a, b) : m1 = m2
          /\ Sent("offset", a, b) # {} => Reorder /\ Started(a)
      BY DEF Offsets
    <2> QED BY <1>6, <1>7, <2>1
  <1>12. ASSUME NEW a \in Chare, NEW b \in Chare
         PROVE  reordcomm'[a][b] = IF Reorder /\ Started(a)'
                                   THEN {n \in nodeset'[a] : b < a /\ Owns(b, n)'}
                                   ELSE {}
    <2>1. reordcomm[a][b] = IF Reorder /\ Started(a)
                            THEN {n \in nodeset[a] : b < a /\ Owns(b, n)}
                            ELSE {}
      BY DEF Offsets
    <2>2. {n \in nodeset'[a] : b < a /\ Owns(b, n)'} = {n \in nodeset[a] : b < a /\ Owns(b, n)}
      BY <1>3, <1>8
    <2>3. (Started(a)' <=> Started(a)) /\ reordcomm' = reordcomm
      BY <1>3, <1>7
    <2> QED BY <2>1, <2>2, <2>3
  \* finish() runs in the last call to offset() at the earliest.
  <1>13. ASSUME NEW a \in Chare, contrib'["discinserted"][a] > 0
         PROVE  Started(a)' /\ (Reorder => noffset'[a] = NChare)
    <2>1. CASE contrib["discinserted"][a] > 0
      <3>1. Started(a) /\ noffset[a] = NChare
        BY <1>4, <2>1 DEF Offsets
      <3>2. a # c
        BY <1>2, <1>4, <3>1, AllHeard DEF Numbered
      <3> QED BY <1>1, <1>7, <3>1, <3>2 DEF TypeOK
    <2>2. CASE ~(contrib["discinserted"][a] > 0)
      <3>1. Contribute(c, "discinserted") /\ noffset[c] + 1 = NChare
        <4>1. contrib' # contrib
          BY <1>13, <2>2
        <4> QED BY <1>1, <4>1 DEF ReorderOwn, FinishIfNumbered, Finish
      <3>2. a = c
        BY <1>13, <2>2, <3>1, Counted DEF Tag
      <3>3. noffset'[c] = NChare /\ Cardinality(Heard(c)') = NChare
        BY <1>1, <1>10, <3>1 DEF TypeOK
      <3>4. Heard(c)' \in SUBSET Chare
        BY DEF Heard
      <3>5. Cardinality(Chare) = NChare
        BY FS_Interval DEF Chare
      <3>6. c \in Heard(c)'
        BY <3>3, <3>4, <3>5, FiniteChares, FS_Subset
      <3> QED BY <3>2, <3>3, <3>6 DEF Heard
    <2> QED BY <2>1, <2>2
  <1>14. \A a \in Chare : ToCome("start", a)' => "responded" \in reduced'
    <2>1. \A a \in Chare : ToCome("start", a) => "responded" \in reduced
      BY DEF Offsets
    <2>2. reduced' = reduced /\ \A a \in Chare : ToCome("start", a)' <=> ToCome("start", a)
      BY <1>3, <1>7
    <2> QED BY <2>1, <2>2
  <1> QED BY <1>4, <1>10, <1>11, <1>12, <1>13, <1>14 DEF Offsets

\* Steps that build the map have no part in the renumbering.
EarlierStep(c) ==
  Setup(c) \/ Query(c) \/ RecvQuery(c) \/ Response(c) \/ Bnd(c) \/ RecvBnd(c)

LEMMA Earlier ==
  ASSUME TypeOK, NEW c \in Chare, EarlierStep(c)
  PROVE  /\ SameSent({"offset", "request", "neworder"}) /\ SameToCome({"start"})
         /\ UNCHANGED <<nodeset, reordcomm, noffset, newnodes, reqnodes, reduced>>
         /\ \A a \in Chare : contrib'["discinserted"][a] = contrib["discinserted"][a]
  <1>1. SameSent({"offset", "request", "neworder"}) /\ SameToCome({"start"})
    <2> DEFINE S == {"query", "recvquery", "bnd", "recvbnd"}
    <2>1. SameSent(Exchanged \ S) /\ SameToCome(Broadcast \ {"setup", "response"})
      BY Untouched DEF EarlierStep, SameSent, SameToCome
    <2> QED BY <2>1 DEF SameSent, SameToCome, Exchanged, Broadcast
  <1>2. UNCHANGED <<nodeset, reordcomm, noffset, newnodes, reqnodes, reduced>>
    BY DEF EarlierStep, Setup, Query, RecvQuery, Response, Bnd, RecvBnd, Receipt
  <1>3. Contribute(c, "queried") \/ Contribute(c, "responded") \/ UNCHANGED contrib
    BY DEF EarlierStep, Setup, Query, RecvQuery, Response, Bnd, RecvBnd, Receipt
  <1>4. \A a \in Chare : contrib'["discinserted"][a] = contrib["discinserted"][a]
    BY <1>3, Counted DEF Tag
  <1> QED BY <1>1, <1>2, <1>4

\* The offsets are or will be complete in every step.
LEMMA OffsetsNext ==
  ASSUME TypeOK, ResponseReceipts, Map, Offsets, Requests, [Next]_vars
  PROVE  Offsets'
  <1> DEFINE Completing == \A a \in Chare : contrib'["discinserted"][a] > 0 =>
               \/ contrib["discinserted"][a] > 0
               \/ Started(a) /\ (Reorder => noffset[a] = NChare)
  <1>1. \A a \in Chare : ToCome("start", a) => "responded" \in reduced
    BY DEF Offsets
  <1>2. ASSUME NEW c \in Chare, ChareStep(c) PROVE Offsets'
    <2>1. CASE EarlierStep(c)
      <3>1. /\ SameSent({"offset", "request", "neworder"}) /\ SameToCome({"start"})
            /\ UNCHANGED <<nodeset, reordcomm, noffset, reduced>>
            /\ \A a \in Chare : contrib'["discinserted"][a] = contrib["discinserted"][a]
        BY <2>1, Earlier
      <3>2. SameSent({"offset"}) /\ \A a \in Chare : ToCome("start", a)' <=> ToCome("start", a)
        BY <3>1 DEF SameSent, SameToCome
      <3>3. \A a \in Chare : Started(a)' <=> Started(a)
        BY <3>1, <3>2 DEF Started
      <3> QED BY <1>1, <3>1, <3>2, <3>3, OffsetsFrame
    <2>2. CASE Start(c)
      BY <2>2, OffsetsStart
    <2>3. CASE Offset(c)
      BY <2>3, OffsetsOffset
    <2>4. CASE Request(c) \/ Wait4Prep(c) \/ NewOrder(c) \/ RefinerReorder(c) \/ CreateWorkers(c)
      <3>1. SameSent(Exchanged \ {"request", "neworder"}) /\ SameToCome(Broadcast)
        BY <2>4, Untouched DEF SameSent, SameToCome
      <3>2. SameSent({"offset"}) /\ \A a \in Chare : ToCome("start", a)' <=> ToCome("start", a)
        BY <3>1 DEF SameSent, SameToCome, Exchanged, Broadcast
      <3>3. UNCHANGED <<nodeset, reordcomm, noffset, reduced>>
        BY <2>4 DEF Request, Wait4Prep, NewOrder, RefinerReorder, CreateWorkers
      <3>4. \A a \in Chare : Started(a)' <=> Started(a)
        BY <3>2, <3>3 DEF Started
      <3>5. Completing
        <4>1. CASE NewOrder(c)
          <5>1. PICK m \in msgs : m.type = "neworder" /\ m.to = c
            BY <4>1 DEF NewOrder
          <5>2. m.from \in Chare /\ m \in Sent("neworder", m.from, c)
            BY <5>1, Arguments DEF Sent
          <5>3. Numbered(c)
            BY <5>2 DEF Requests
          <5>4. Started(c) /\ noffset[c] = NChare
            BY <5>3, AllHeard DEF Numbered
          <5>5. UNCHANGED contrib \/ Contribute(c, "discinserted")
            BY <4>1 DEF NewOrder, FinishIfNumbered, Finish
          <5> QED BY <5>4, <5>5, Counted DEF Tag
        <4>2. CASE ~NewOrder(c)
          <5>1. UNCHANGED contrib \/ Contribute(c, "workinserted")
            BY <2>4, <4>2 DEF Request, Wait4Prep, RefinerReorder, CreateWorkers
          <5> QED BY <5>1, Counted DEF Tag
        <4> QED BY <4>1, <4>2
      <3> QED BY <1>1, <3>2, <3>3, <3>4, <3>5, OffsetsFrame
    <2> QED BY <1>2, <2>1, <2>2, <2>3, <2>4 DEF ChareStep, EarlierStep
  <1>3. ASSUME NEW tag \in Tag, Reduced(tag) PROVE Offsets'
    <2>1. /\ SameSent(Exchanged)
          /\ \A c \in Chare : ToCome("start", c)' <=> ToCome("start", c) \/ tag = "responded"
          /\ tag \notin reduced /\ reduced' = reduced \cup {tag}
          /\ UNCHANGED <<nodeset, reordcomm, noffset, contrib>>
      BY <1>3, HostStep
    <2>2. SameSent({"offset"}) /\ \A a \in Chare : Started(a)' <=> Started(a)
      BY <2>1 DEF SameSent, Exchanged, Started
    <2>3. \A a \in Chare : ToCome("start", a)' => "responded" \in reduced'
      BY <1>1, <2>1
    <2> QED BY <2>1, <2>2, <2>3, OffsetsFrame
  <1>4. CASE UNCHANGED vars
    <2>1. UNCHANGED <<msgs, nodeset, reordcomm, noffset, contrib, reduced>>
      BY <1>4 DEF vars
    <2>2. SameSent({"offset"}) /\ \A a \in Chare : Started(a)' <=> Started(a)
      BY <2>1 DEF SameSent, Sent, Started, ToCome
    <2>3. \A a \in Chare : ToCome("start", a)' => "responded" \in reduced'
      BY <1>1, <2>1 DEF ToCome
    <2> QED BY <2>1, <2>2, <2>3, OffsetsFrame
  <1> QED BY <1>2, <1>3, <1>4 DEF Next, Quiescent

-----------------------------------------------------------------------------
(* reorder(), request(), prepare() and neworder() *)

\* A chare with a request or its answer under way has started.
LEMMA NumberedStarted ==
  ASSUME TypeOK, Offsets, NEW c \in Chare, Numbered(c)
  PROVE  Started(c)
  BY AllHeard

LEMMA RequestsFrame ==
  ASSUME TypeOK, Requests, UNCHANGED <<noffset, newnodes, reqnodes>>,
         SameSent({"request", "neworder"}),
         \A c \in Chare : Numbered(c) => reordcomm'[c] = reordcomm[c]
  PROVE  Requests'
  <1>1. \A a, b \in Chare : /\ Sent("request", a, b)' = Sent("request", a, b)
                            /\ Sent("neworder", a, b)' = Sent("neworder", a, b)
    BY DEF SameSent
  <1>2. \A c \in Chare : Numbered(c)' <=> Numbered(c)
    BY DEF Numbered
  <1>3. \A d \in Chare : \A r \in reqnodes[d] : r.from \in Chare
    BY DEF TypeOK
  <1>4. \A c \in Chare : ~Numbered(c)' => \A n \in NodeId : newnodes'[c][n] = Unassigned
    BY <1>2 DEF Requests
  <1>5. \A c, d \in Chare : \A m \in Sent("request", c, d)' :
          Numbered(c)' /\ m.nodes \subseteq reordcomm'[c][d]
    BY <1>1, <1>2 DEF Requests
  <1>6. \A d \in Chare : \A r \in reqnodes'[d] :
          Numbered(r.from)' /\ r.nodes \subseteq reordcomm'[r.from][d]
    BY <1>2, <1>3 DEF Requests
  <1>7. \A c, d \in Chare : \A m \in Sent("neworder", d, c)' :
          Numbered(c)' /\ m.nodes \subseteq reordcomm'[c][d]
    BY <1>1, <1>2 DEF Requests
  <1> QED BY <1>4, <1>5, <1>6, <1>7 DEF Requests

\* What offset() does: only the last call numbers and requests nodes.
LEMMA OffsetEffect ==
  ASSUME TypeOK, Offsets, NEW c \in Chare, Offset(c)
  PROVE  /\ ~Numbered(c)
         /\ \A a \in Chare : a # c => (Numbered(a)' <=> Numbered(a)) /\ newnodes'[a] = newnodes[a]
         /\ \/ ~Numbered(c)' /\ newnodes' = newnodes /\ SameSent({"request"})
            \/ /\ Numbered(c)'
               /\ \A n \in NodeId : n \notin Own(c) => newnodes'[c][n] = newnodes[c][n]
               /\ \A a, b \in Chare : \A m \in Sent("request", a, b)' :
                    m \in Sent("request", a, b) \/ (a = c /\ m.nodes = reordcomm[c][b])
  <1>1. PICK m \in msgs :
          /\ m.type = "offset" /\ m.to = c
          /\ noffset' = [noffset EXCEPT ![c] = @ + 1]
          /\ \/ noffset[c] + 1 = NChare /\ \E first : ReorderOwn(c, first, msgs \ {m})
             \/ noffset[c] + 1 # NChare /\ UNCHANGED newnodes /\ msgs' = msgs \ {m}
    BY DEF Offset
  <1>2. m.from \in Chare /\ m \in Sent("offset", m.from, c)
    BY <1>1, Arguments DEF Sent
  <1>3. ~Numbered(c)
    BY <1>2, AllHeard
  <1>4. \A a \in Chare : noffset'[a] = IF a = c THEN noffset[a] + 1 ELSE noffset[a]
    BY <1>1 DEF TypeOK
  <1>5. CASE noffset[c] + 1 # NChare /\ UNCHANGED newnodes /\ msgs' = msgs \ {m}
    <2>1. SameSent({"request"})
      BY <1>1, <1>5 DEF SameSent, Sent
    <2> QED BY <1>3, <1>4, <1>5, <2>1 DEF Numbered
  <1>6. CASE noffset[c] + 1 = NChare /\ \E first : ReorderOwn(c, first, msgs \ {m})
    <2> DEFINE q(b) == [type |-> "request", to |-> b, from |-> c, nodes |-> reordcomm[c][b]]
    <2>1. PICK f :
            FinishIfNumbered(c,
              [n \in NodeId |-> IF n \in Own(c) THEN f[n] ELSE newnodes[c][n]],
              (msgs \ {m}) \cup {[type |-> "wait4prep", to |-> c]} \cup
              {q(b) : b \in {d \in Chare : reordcomm[c][d] # {}}})
      BY <1>6 DEF ReorderOwn
    <2>2. newnodes' = [newnodes EXCEPT ![c] =
            [n \in NodeId |-> IF n \in Own(c) THEN f[n] ELSE newnodes[c][n]]]
      BY <2>1 DEF FinishIfNumbered
    <2>3. /\ \A a \in Chare : a # c => newnodes'[a] = newnodes[a]
          /\ \A n \in NodeId : n \notin Own(c) => newnodes'[c][n] = newnodes[c][n]
      BY <2>2 DEF TypeOK
    <2>4. \A k \in msgs' : k.type = "request" => k \in msgs \/ \E b \in Chare : k = q(b)
      <3> HIDE DEF q
      <3> QED BY <2>1 DEF FinishIfNumbered, Finish
    <2>5. ASSUME NEW a \in Chare, NEW b \in Chare, NEW k \in Sent("request", a, b)'
          PROVE  k \in Sent("request", a, b) \/ (a = c /\ k.nodes = reordcomm[c][b])
      <3>1. k \in msgs' /\ k.type = "request" /\ k.from = a /\ k.to = b
        BY DEF Sent
      <3>2. CASE k \in msgs
        BY <3>1, <3>2 DEF Sent
      <3>3. CASE \E e \in Chare : k = q(e)
        BY <3>1, <3>3
      <3> QED BY <2>4, <3>1, <3>2, <3>3
    <2>6. Numbered(c)' /\ \A a \in Chare : a # c => (Numbered(a)' <=> Numbered(a))
      BY <1>4, <1>6 DEF Numbered
    <2> HIDE DEF q
    <2> QED BY <1>3, <2>3, <2>5, <2>6
  <1> QED BY <1>1, <1>5, <1>6

\* What prepare() does to the calls in flight.
LEMMA PrepareCalls ==
  ASSUME TypeOK, NEW c \in Chare, NEW queue, NEW m, Prepare(c, queue, msgs \ {m}),
         \A r \in queue : r.from \in Chare
  PROVE  /\ \A a, b \in Chare : Sent("request", a, b)' \subseteq Sent("request", a, b)
         /\ \A a, b \in Chare : \A k \in Sent("neworder", a, b)' :
              \/ k \in Sent("neworder", a, b)
              \/ a = c /\ \E r \in queue : /\ r.from = b /\ k.nodes = r.nodes
                                           /\ k.ids = Answer(c, r.nodes)
  <1> DEFINE q(r) == [type |-> "neworder", to |-> r.from, from |-> c, nodes |-> r.nodes,
                      ids |-> Answer(c, r.nodes)]
  <1>1. msgs' = (msgs \ {m}) \cup {[type |-> "wait4prep", to |-> c]} \cup {q(r) : r \in queue}
    BY DEF Prepare
  <1>2. \A r : /\ q(r).type = "neworder" /\ q(r).to = r.from /\ q(r).from = c
               /\ q(r).nodes = r.nodes /\ q(r).ids = Answer(c, r.nodes)
    OBVIOUS
  <1>3. [type |-> "wait4prep", to |-> c].type = "wait4prep"
    OBVIOUS
  <1> HIDE DEF q
  <1>4. \A k \in msgs' : k.type \in {"request", "neworder"} =>
          k \in msgs \/ \E r \in queue : k = q(r)
    BY <1>1, <1>3
  <1>5. \A a, b \in Chare : Sent("request", a, b)' \subseteq Sent("request", a, b)
    BY <1>2, <1>4 DEF Sent
  <1>6. ASSUME NEW a \in Chare, NEW b \in Chare, NEW k \in Sent("neworder", a, b)',
               k \notin Sent("neworder", a, b)
        PROVE  a = c /\ \E r \in queue : /\ r.from = b /\ k.nodes = r.nodes
                                         /\ k.ids = Answer(c, r.nodes)
    <2>1. k \in msgs' /\ k.type = "neworder" /\ k.from = a /\ k.to = b /\ k \notin msgs
      BY <1>6 DEF Sent
    <2>2. PICK r \in queue : k = q(r)
      BY <1>4, <2>1
    <2> QED BY <1>2, <2>1, <2>2
  <1> QED BY <1>5, <1>6

\* The requests prepare() answers, those queued and the one just received.
LEMMA PrepareEffect ==
  ASSUME TypeOK, Requests, NEW c \in Chare, Request(c) \/ Wait4Prep(c)
  PROVE  /\ \A a, b \in Chare : Sent("request", a, b)' \subseteq Sent("request", a, b)
         /\ \A d \in Chare : \A r \in reqnodes'[d] :
              \/ r \in reqnodes[d]
              \/ d = c /\ \E m \in Sent("request", r.from, c) : r.nodes = m.nodes
         /\ \A r \in reqnodes'[c] : r.from \in Chare
         /\ \A a, b \in Chare : \A k \in Sent("neworder", a, b)' :
              \/ k \in Sent("neworder", a, b)
              \/ /\ a = c /\ k.ids = Answer(c, k.nodes)
                 /\ \/ \E r \in reqnodes[c] : r.from = b /\ k.nodes = r.nodes
                    \/ \E m \in Sent("request", b, c) : k.nodes = m.nodes
  <1>1. \A r \in reqnodes[c] : r.from \in Chare
    BY DEF TypeOK
  <1>2. CASE Request(c)
    <2>1. PICK m \in msgs :
            /\ m.type = "request" /\ m.to = c
            /\ \/ Prepare(c, reqnodes[c] \cup {[from |-> m.from, nodes |-> m.nodes]}, msgs \ {m})
               \/ /\ reqnodes' = [reqnodes EXCEPT ![c] =
                        reqnodes[c] \cup {[from |-> m.from, nodes |-> m.nodes]}]
                  /\ msgs' = msgs \ {m}
      BY <1>2 DEF Request
    <2> DEFINE new == [from |-> m.from, nodes |-> m.nodes]
    <2>2. new.from = m.from /\ new.nodes = m.nodes
      OBVIOUS
    <2>3. m.from \in Chare /\ m \in Sent("request", m.from, c)
      BY <2>1, Arguments DEF Sent
    <2> HIDE DEF new
    <2>4. \A r \in reqnodes[c] \cup {new} :
            /\ r.from \in Chare
            /\ \/ r \in reqnodes[c]
               \/ \E k \in Sent("request", r.from, c) : r.nodes = k.nodes
      BY <1>1, <2>2, <2>3
    <2>5. CASE Prepare(c, reqnodes[c] \cup {new}, msgs \ {m})
      <3>1. /\ \A a, b \in Chare : Sent("request", a, b)' \subseteq Sent("request", a, b)
            /\ \A a, b \in Chare : \A k \in Sent("neworder", a, b)' :
                 \/ k \in Sent("neworder", a, b)
                 \/ a = c /\ \E r \in reqnodes[c] \cup {new} :
                      /\ r.from = b /\ k.nodes = r.nodes /\ k.ids = Answer(c, r.nodes)
        <4> DEFINE queue == reqnodes[c] \cup {new}
        <4>1. Prepare(c, queue, msgs \ {m}) /\ \A r \in queue : r.from \in Chare
          BY <2>4, <2>5
        <4> HIDE DEF queue
        <4>2. /\ \A a, b \in Chare : Sent("request", a, b)' \subseteq Sent("request", a, b)
              /\ \A a, b \in Chare : \A k \in Sent("neworder", a, b)' :
                   \/ k \in Sent("neworder", a, b)
                   \/ a = c /\ \E r \in queue :
                        /\ r.from = b /\ k.nodes = r.nodes /\ k.ids = Answer(c, r.nodes)
          BY <4>1, PrepareCalls
        <4> QED BY <4>2 DEF queue
      <3>2. reqnodes' = [reqnodes EXCEPT ![c] = {}]
        BY <2>5 DEF Prepare
      <3>3. \A d \in Chare : reqnodes'[d] \subseteq reqnodes[d]
        BY <3>2 DEF TypeOK
      <3> QED BY <1>1, <2>4, <3>1, <3>3
    <2>6. CASE /\ reqnodes' = [reqnodes EXCEPT ![c] = reqnodes[c] \cup {new}]
               /\ msgs' = msgs \ {m}
      <3>1. \A d \in Chare : reqnodes'[d] = IF d = c THEN reqnodes[c] \cup {new} ELSE reqnodes[d]
        BY <2>6 DEF TypeOK
      <3>2. \A t : \A a, b \in Chare : Sent(t, a, b)' \subseteq Sent(t, a, b)
        BY <2>6 DEF Sent
      <3> QED BY <2>4, <3>1, <3>2
    <2> QED BY <2>1, <2>5, <2>6 DEF new
  <1>3. CASE Wait4Prep(c)
    <2> DEFINE m == [type |-> "wait4prep", to |-> c]
    <2>1. \/ Prepare(c, reqnodes[c], msgs \ {m})
          \/ msgs' = msgs \ {m} /\ reqnodes' = reqnodes
      BY <1>3 DEF Wait4Prep
    <2> HIDE DEF m
    <2>2. CASE Prepare(c, reqnodes[c], msgs \ {m})
      <3>1. /\ \A a, b \in Chare : Sent("request", a, b)' \subseteq Sent("request", a, b)
            /\ \A a, b \in Chare : \A k \in Sent("neworder", a, b)' :
                 \/ k \in Sent("neworder", a, b)
                 \/ a = c /\ \E r \in reqnodes[c] :
                      /\ r.from = b /\ k.nodes = r.nodes /\ k.ids = Answer(c, r.nodes)
        BY <1>1, <2>2, PrepareCalls
      <3>2. reqnodes' = [reqnodes EXCEPT ![c] = {}]
        BY <2>2 DEF Prepare
      <3>3. \A d \in Chare : reqnodes'[d] \subseteq reqnodes[d]
        BY <3>2 DEF TypeOK
      <3> QED BY <1>1, <3>1, <3>3
    <2>3. CASE msgs' = msgs \ {m} /\ reqnodes' = reqnodes
      <3>1. \A t : \A a, b \in Chare : Sent(t, a, b)' \subseteq Sent(t, a, b)
        BY <2>3 DEF Sent
      <3> QED BY <1>1, <2>3, <3>1
    <2> QED BY <2>1, <2>2, <2>3
  <1> QED BY <1>2, <1>3

\* Requests and answers are about nodes the asked chare owns in every step.
LEMMA RequestsNext ==
  ASSUME TypeOK, Offsets, Requests, [Next]_vars
  PROVE  Requests'
  <1>1. ASSUME NEW c \in Chare, ChareStep(c) PROVE Requests'
    <2>1. CASE EarlierStep(c)
      <3>1. /\ SameSent({"offset", "request", "neworder"})
            /\ UNCHANGED <<reordcomm, noffset, newnodes, reqnodes>>
        BY <2>1, Earlier
      <3>2. SameSent({"request", "neworder"})
        BY <3>1 DEF SameSent
      <3> QED BY <3>1, <3>2, RequestsFrame
    <2>2. CASE Start(c)
      <3>1. ~Numbered(c)
        BY <2>2, NumberedStarted DEF Start, ToCome, Started
      <3>2. /\ UNCHANGED <<noffset, newnodes, reqnodes>>
            /\ \A a \in Chare : a # c => reordcomm'[a] = reordcomm[a]
        BY <2>2 DEF Start, TypeOK
      <3>3. SameSent(Exchanged \ {"offset"})
        BY <2>2, Untouched
      <3>4. SameSent({"request", "neworder"})
        BY <3>3 DEF SameSent, Exchanged
      <3>5. \A a \in Chare : Numbered(a) => reordcomm'[a] = reordcomm[a]
        BY <3>1, <3>2
      <3> QED BY <3>2, <3>4, <3>5, RequestsFrame
    <2>3. CASE Offset(c)
      <3>1. /\ ~Numbered(c)
            /\ \A a \in Chare : a # c => (Numbered(a)' <=> Numbered(a)) /\ newnodes'[a] = newnodes[a]
            /\ \/ ~Numbered(c)' /\ newnodes' = newnodes /\ SameSent({"request"})
               \/ /\ Numbered(c)'
                  /\ \A n \in NodeId : n \notin Own(c) => newnodes'[c][n] = newnodes[c][n]
                  /\ \A a, b \in Chare : \A m \in Sent("request", a, b)' :
                       m \in Sent("request", a, b) \/ (a = c /\ m.nodes = reordcomm[c][b])
        BY <2>3, OffsetEffect
      <3>2. UNCHANGED <<reordcomm, reqnodes>>
        BY <2>3 DEF Offset
      <3>3. \A a, b \in Chare : Sent("neworder", a, b)' = Sent("neworder", a, b)
        <4>1. SameSent(Exchanged \ {"offset", "request"})
          BY <2>3, Untouched
        <4> QED BY <4>1 DEF SameSent, Exchanged
      <3>4. \A a \in Chare : Numbered(a) => Numbered(a)'
        BY <3>1
      <3>5. ASSUME NEW a \in Chare, ~Numbered(a)', NEW n \in NodeId
            PROVE  newnodes'[a][n] = Unassigned
        <4>1. ~Numbered(a) /\ newnodes'[a] = newnodes[a]
          BY <3>1, <3>5
        <4> QED BY <4>1 DEF Requests
      <3>6. ASSUME NEW a \in Chare, NEW b \in Chare, NEW m \in Sent("request", a, b)'
            PROVE  Numbered(a)' /\ m.nodes \subseteq reordcomm'[a][b]
        <4>1. CASE m \in Sent("request", a, b)
          BY <3>2, <3>4, <4>1 DEF Requests
        <4>2. CASE m \notin Sent("request", a, b)
          BY <3>1, <3>2, <3>6, <4>2 DEF SameSent
        <4> QED BY <4>1, <4>2
      <3>7. \A d \in Chare : \A r \in reqnodes'[d] :
              Numbered(r.from)' /\ r.nodes \subseteq reordcomm'[r.from][d]
        <4>1. \A d \in Chare : \A r \in reqnodes[d] : r.from \in Chare
          BY DEF TypeOK
        <4> QED BY <3>2, <3>4, <4>1 DEF Requests
      <3>8. \A a, d \in Chare : \A m \in Sent("neworder", d, a)' :
              Numbered(a)' /\ m.nodes \subseteq reordcomm'[a][d]
        BY <3>2, <3>3, <3>4 DEF Requests
      <3> QED BY <3>5, <3>6, <3>7, <3>8 DEF Requests
    <2>4. CASE Request(c) \/ Wait4Prep(c)
      <3>1. /\ \A a, b \in Chare : Sent("request", a, b)' \subseteq Sent("request", a, b)
            /\ \A d \in Chare : \A r \in reqnodes'[d] :
                 \/ r \in reqnodes[d]
                 \/ d = c /\ \E m \in Sent("request", r.from, c) : r.nodes = m.nodes
            /\ \A r \in reqnodes'[c] : r.from \in Chare
            /\ \A a, b \in Chare : \A k \in Sent("neworder", a, b)' :
                 \/ k \in Sent("neworder", a, b)
                 \/ /\ a = c /\ k.ids = Answer(c, k.nodes)
                    /\ \/ \E r \in reqnodes[c] : r.from = b /\ k.nodes = r.nodes
                       \/ \E m \in Sent("request", b, c) : k.nodes = m.nodes
        BY <2>4, PrepareEffect
      <3>2. UNCHANGED <<noffset, newnodes, reordcomm>>
        BY <2>4 DEF Request, Wait4Prep
      <3>3. \A a : Numbered(a)' <=> Numbered(a)
        BY <3>2 DEF Numbered
      <3>4. \A a \in Chare : ~Numbered(a)' => \A n \in NodeId : newnodes'[a][n] = Unassigned
        BY <3>2, <3>3 DEF Requests
      <3>5. \A a, d \in Chare : \A m \in Sent("request", a, d)' :
              Numbered(a)' /\ m.nodes \subseteq reordcomm'[a][d]
        BY <3>1, <3>2, <3>3 DEF Requests
      <3>6. ASSUME NEW d \in Chare, NEW r \in reqnodes'[d]
            PROVE  Numbered(r.from)' /\ r.nodes \subseteq reordcomm'[r.from][d]
        <4>1. CASE r \in reqnodes[d]
          BY <3>2, <3>3, <4>1 DEF Requests
        <4>2. CASE r \notin reqnodes[d]
          <5>1. r.from \in Chare /\ d = c /\ \E m \in Sent("request", r.from, c) : r.nodes = m.nodes
            BY <3>1, <3>6, <4>2
          <5> QED BY <3>2, <3>3, <5>1 DEF Requests
        <4> QED BY <4>1, <4>2
      <3>7. ASSUME NEW a \in Chare, NEW d \in Chare, NEW k \in Sent("neworder", d, a)'
            PROVE  Numbered(a)' /\ k.nodes \subseteq reordcomm'[a][d]
        <4>1. CASE k \in Sent("neworder", d, a)
          BY <3>2, <3>3, <4>1 DEF Requests
        <4>2. CASE k \notin Sent("neworder", d, a)
          <5>1. d = c /\ \/ \E r \in reqnodes[c] : r.from = a /\ k.nodes = r.nodes
                         \/ \E m \in Sent("request", a, c) : k.nodes = m.nodes
            BY <3>1, <3>7, <4>2
          <5> QED BY <3>2, <3>3, <5>1 DEF Requests
        <4> QED BY <4>1, <4>2
      <3> QED BY <3>4, <3>5, <3>6, <3>7 DEF Requests
    <2>5. CASE NewOrder(c)
      <3>1. PICK m \in msgs : m.type = "neworder" /\ m.to = c
        BY <2>5 DEF NewOrder
      <3>2. m.from \in Chare /\ m \in Sent("neworder", m.from, c)
        BY <3>1, Arguments DEF Sent
      <3>3. Numbered(c)
        BY <3>2 DEF Requests
      <3>4. UNCHANGED <<noffset, reordcomm, reqnodes>>
        BY <2>5 DEF NewOrder
      <3>5. \A a \in Chare : a # c => newnodes'[a] = newnodes[a]
        BY <2>5 DEF NewOrder, FinishIfNumbered, TypeOK
      <3>6. \A a : Numbered(a)' <=> Numbered(a)
        BY <3>4 DEF Numbered
      <3>7. \A a, b \in Chare : /\ Sent("request", a, b)' = Sent("request", a, b)
                                /\ Sent("neworder", a, b)' \subseteq Sent("neworder", a, b)
        BY <2>5 DEF NewOrder, FinishIfNumbered, Finish, Sent
      <3>8. \A a \in Chare : ~Numbered(a)' => \A n \in NodeId : newnodes'[a][n] = Unassigned
        BY <3>3, <3>5, <3>6 DEF Requests
      <3> QED BY <3>4, <3>6, <3>7, <3>8 DEF Requests
    <2>6. CASE RefinerReorder(c) \/ CreateWorkers(c)
      <3>1. SameSent(Exchanged)
        BY <2>6, Untouched
      <3>2. SameSent({"request", "neworder"})
        BY <3>1 DEF SameSent, Exchanged
      <3>3. UNCHANGED <<reordcomm, noffset, newnodes, reqnodes>>
        BY <2>6 DEF RefinerReorder, CreateWorkers
      <3> QED BY <3>2, <3>3, RequestsFrame
    <2> QED BY <1>1, <2>1, <2>2, <2>3, <2>4, <2>5, <2>6 DEF ChareStep, EarlierStep
  <1>2. CASE (\E tag \in Tag : Reduced(tag)) \/ UNCHANGED vars
    <2>1. SameSent({"request", "neworder"}) /\ UNCHANGED <<reordcomm, noffset, newnodes, reqnodes>>
      <3>1. ASSUME NEW tag \in Tag, Reduced(tag)
            PROVE  SameSent(Exchanged) /\ UNCHANGED <<reordcomm, noffset, newnodes, reqnodes>>
        BY <3>1, HostStep
      <3>2. CASE UNCHANGED vars
        BY <3>2 DEF vars, SameSent, Sent
      <3> QED BY <1>2, <3>1, <3>2 DEF SameSent, Exchanged
    <2> QED BY <2>1, RequestsFrame
  <1> QED BY <1>1, <1>2 DEF Next, Quiescent

-----------------------------------------------------------------------------
(* The owner of a node knows the ids that others know. *)

LEMMA OwnersKnowFrame ==
  ASSUME TypeOK, OwnersKnow, UNCHANGED <<nodeset, newnodes>>, SameSent({"neworder"})
  PROVE  OwnersKnow'
  <1>1. \A a, b \in Chare : Sent("neworder", a, b)' = Sent("neworder", a, b)
    BY DEF SameSent
  <1>2. \A d \in Chare : \A n : Owns(d, n)' <=> Owns(d, n)
    BY DEF Owns
  <1>3. \A n, i : OwnerKnows(n, i) => OwnerKnows(n, i)'
    BY <1>2 DEF OwnerKnows
  <1>4. ASSUME NEW a \in Chare, NEW n \in NodeId, newnodes'[a][n] # Unassigned
        PROVE  OwnerKnows(n, newnodes[a][n])'
    <2>1. newnodes[a][n] # Unassigned => OwnerKnows(n, newnodes[a][n])
      BY DEF OwnersKnow
    <2> QED BY <1>2, <1>4, <2>1 DEF OwnerKnows
  <1>5. ASSUME NEW a \in Chare, NEW d \in Chare, NEW m \in Sent("neworder", d, a)',
               NEW n \in m.nodes, m.ids[n] # Unassigned
        PROVE  OwnerKnows(n, m.ids[n])'
    BY <1>1, <1>3, <1>5 DEF OwnersKnow
  <1> QED BY <1>4, <1>5 DEF OwnersKnow

\* What a chare numbers itself it owns.
LEMMA OwnOwned ==
  ASSUME TypeOK, Offsets, NEW c \in Chare, Reorder, Started(c), NEW n \in Own(c)
  PROVE  Owns(c, n)
  <1>1. n \in nodeset[c] /\ \A d \in Chare : n \notin reordcomm[c][d]
    BY DEF Own
  <1>2. \A d \in Chare : reordcomm[c][d] = {k \in nodeset[c] : d < c /\ Owns(d, k)}
    BY DEF Offsets
  <1>3. \A d \in Chare : d < c => ~Owns(d, n)
    BY <1>1, <1>2
  <1> QED BY <1>1, <1>3, LowestOwner

LEMMA OwnersKnowOffset ==
  ASSUME TypeOK, Offsets, Offsets', Requests, OwnersKnow, NEW c \in Chare, Offset(c)
  PROVE  OwnersKnow'
  <1>1. /\ ~Numbered(c)
        /\ \A a \in Chare : a # c => newnodes'[a] = newnodes[a]
        /\ \/ newnodes' = newnodes
           \/ /\ Numbered(c)'
              /\ \A n \in NodeId : n \notin Own(c) => newnodes'[c][n] = newnodes[c][n]
    BY OffsetEffect
  <1>2. UNCHANGED <<nodeset, reordcomm>>
    BY DEF Offset
  <1>3. \A a, b \in Chare : Sent("neworder", a, b)' = Sent("neworder", a, b)
    <2>1. SameSent(Exchanged \ {"offset", "request"})
      BY Untouched
    <2> QED BY <2>1 DEF SameSent, Exchanged
  <1>4. CASE newnodes' = newnodes
    <2>1. SameSent({"neworder"})
      BY <1>3 DEF SameSent
    <2> QED BY <1>2, <1>4, <2>1, OwnersKnowFrame
  <1>5. CASE /\ Numbered(c)'
             /\ \A n \in NodeId : n \notin Own(c) => newnodes'[c][n] = newnodes[c][n]
    <2>1. \A n \in NodeId : newnodes[c][n] = Unassigned
      BY <1>1 DEF Requests
    <2>2. \A d \in Chare : \A n : Owns(d, n)' <=> Owns(d, n)
      BY <1>2 DEF Owns
    \* Nobody knows an id of a node of c yet.
    <2>3. ASSUME NEW n \in NodeId, NEW i, i # Unassigned, OwnerKnows(n, i)
          PROVE  OwnerKnows(n, i)'
      <3>1. PICK d \in Chare : Owns(d, n) /\ newnodes[d][n] = i
        BY <2>3 DEF OwnerKnows
      <3>2. d # c
        BY <2>1, <2>3, <3>1
      <3> QED BY <1>1, <2>2, <3>1, <3>2 DEF OwnerKnows
    <2>4. \A n \in Own(c) : Owns(c, n)
      <3>1. Reorder /\ \E d \in Chare : Sent("offset", d, c) # {}
        <4>1. PICK m \in msgs : m.type = "offset" /\ m.to = c
          BY DEF Offset
        <4>2. m.from \in Chare /\ m \in Sent("offset", m.from, c)
          BY <4>1, Arguments DEF Sent
        <4> QED BY <4>2 DEF Offsets
      <3>2. Started(c)
        <4>1. Started(c)'
          <5>1. noffset'[c] = NChare /\ noffset'[c] = Cardinality(Heard(c)')
            BY <1>5, <3>1 DEF Offsets, Numbered
          <5>2. Heard(c)' \in SUBSET Chare
            BY DEF Heard
          <5>3. Cardinality(Chare) = NChare
            BY FS_Interval DEF Chare
          <5>4. c \in Heard(c)'
            BY <5>1, <5>2, <5>3, FiniteChares, FS_Subset
          <5> QED BY <5>4 DEF Heard
        <4>2. SameToCome(Broadcast)
          BY Untouched
        <4>3. reduced' = reduced
          BY DEF Offset
        <4> QED BY <4>1, <4>2, <4>3 DEF Started, SameToCome, Broadcast
      <3> QED BY <3>1, <3>2, OwnOwned
    <2>5. ASSUME NEW a \in Chare, NEW n \in NodeId, newnodes'[a][n] # Unassigned
          PROVE  OwnerKnows(n, newnodes[a][n])'
      <3>1. CASE a = c
        <4>1. n \in Own(c)
          BY <1>5, <2>1, <2>5, <3>1
        <4> QED BY <2>2, <2>4, <3>1, <4>1 DEF OwnerKnows
      <3>2. CASE a # c
        <4>1. newnodes'[a][n] = newnodes[a][n]
          BY <1>1, <3>2
        <4>2. OwnerKnows(n, newnodes[a][n])
          BY <2>5, <4>1 DEF OwnersKnow
        <4>3. PICK d \in Chare : Owns(d, n) /\ newnodes[d][n] = newnodes[a][n]
          BY <4>2 DEF OwnerKnows
        <4>4. d # c
          BY <2>1, <2>5, <4>1, <4>3
        <4> QED BY <1>1, <2>2, <4>1, <4>3, <4>4 DEF OwnerKnows
      <3> QED BY <3>1, <3>2
    <2>6. ASSUME NEW a \in Chare, NEW d \in Chare, NEW m \in Sent("neworder", d, a)',
                 NEW n \in m.nodes, m.ids[n] # Unassigned
          PROVE  OwnerKnows(n, m.ids[n])'
      <3>1. m \in Sent("neworder", d, a) /\ m \in msgs /\ m.type = "neworder"
        BY <1>3 DEF Sent
      <3>2. n \in NodeId
        BY <3>1, Arguments
      <3>3. OwnerKnows(n, m.ids[n])
        BY <2>6, <3>1 DEF OwnersKnow
      <3> QED BY <2>3, <2>6, <3>2, <3>3
    <2> QED BY <2>5, <2>6 DEF OwnersKnow
  <1> QED BY <1>1, <1>4, <1>5

LEMMA OwnersKnowNewOrder ==
  ASSUME TypeOK, Offsets, Requests, OwnersKnow, NEW c \in Chare, NewOrder(c)
  PROVE  OwnersKnow'
  <1>1. PICK m \in msgs :
          /\ m.type = "neworder" /\ m.to = c
          /\ FinishIfNumbered(c,
               [n \in NodeId |-> IF n \in m.nodes THEN m.ids[n] ELSE newnodes[c][n]],
               msgs \ {m})
    BY DEF NewOrder
  <1> DEFINE b == m.from
  <1>2. b \in Chare /\ m \in Sent("neworder", b, c)
    BY <1>1, Arguments DEF Sent
  <1>3. nodeset' = nodeset
    BY DEF NewOrder
  <1>4. \A d \in Chare : \A n : Owns(d, n)' <=> Owns(d, n)
    BY <1>3 DEF Owns
  <1>5. newnodes' = [newnodes EXCEPT ![c] =
          [n \in NodeId |-> IF n \in m.nodes THEN m.ids[n] ELSE newnodes[c][n]]]
    BY <1>1 DEF FinishIfNumbered
  <1>6. /\ \A a \in Chare : a # c => newnodes'[a] = newnodes[a]
        /\ \A n \in NodeId : newnodes'[c][n] =
             IF n \in m.nodes THEN m.ids[n] ELSE newnodes[c][n]
    BY <1>5 DEF TypeOK
  <1>7. \A a, d \in Chare : Sent("neworder", d, a)' \subseteq Sent("neworder", d, a)
    BY <1>1 DEF FinishIfNumbered, Finish, Sent
  <1> HIDE DEF b
  \* What c is told is not its own to number.
  <1>8. ASSUME NEW n \in m.nodes PROVE n \in NodeId /\ ~Owns(c, n)
    <2>1. n \in NodeId
      BY <1>1, Arguments
    <2>2. Numbered(c) /\ n \in reordcomm[c][b]
      BY <1>2 DEF Requests
    <2>3. Reorder /\ Started(c)
      BY <2>2, AllHeard
    <2>4. b < c /\ Owns(b, n)
      <3>1. reordcomm[c][b] = {k \in nodeset[c] : b < c /\ Owns(b, k)}
        BY <1>2, <2>3 DEF Offsets
      <3> QED BY <2>2, <3>1
    <2>5. b # c
      BY <1>2, <2>4 DEF Chare
    <2> QED BY <1>2, <2>1, <2>4, <2>5, OneOwner
  <1>9. ASSUME NEW n \in NodeId, NEW i, OwnerKnows(n, i)
        PROVE  OwnerKnows(n, i)'
    <2>1. PICK d \in Chare : Owns(d, n) /\ newnodes[d][n] = i
      BY <1>9 DEF OwnerKnows
    <2>2. newnodes'[d][n] = newnodes[d][n]
      BY <1>6, <1>8, <2>1
    <2> QED BY <1>4, <2>1, <2>2 DEF OwnerKnows
  <1>10. ASSUME NEW a \in Chare, NEW n \in NodeId, newnodes'[a][n] # Unassigned
         PROVE  OwnerKnows(n, newnodes[a][n])'
    <2>1. CASE a = c /\ n \in m.nodes
      <3>1. newnodes'[a][n] = m.ids[n]
        BY <1>6, <2>1
      <3>2. OwnerKnows(n, m.ids[n])
        BY <1>2, <1>10, <2>1, <3>1 DEF OwnersKnow
      <3>3. PICK d \in Chare : Owns(d, n) /\ newnodes[d][n] = m.ids[n]
        BY <3>2 DEF OwnerKnows
      <3>4. d # c
        BY <1>8, <2>1, <3>3
      <3> QED BY <1>4, <1>6, <3>1, <3>3, <3>4 DEF OwnerKnows
    <2>2. CASE ~(a = c /\ n \in m.nodes)
      <3>1. newnodes'[a][n] = newnodes[a][n]
        BY <1>6, <2>2
      <3>2. OwnerKnows(n, newnodes[a][n])
        BY <1>10, <3>1 DEF OwnersKnow
      <3>3. PICK d \in Chare : Owns(d, n) /\ newnodes[d][n] = newnodes[a][n]
        BY <3>2 DEF OwnerKnows
      <3>4. newnodes'[d][n] = newnodes[d][n]
        BY <1>6, <1>8, <3>3
      <3> QED BY <1>4, <3>1, <3>3, <3>4 DEF OwnerKnows
    <2> QED BY <2>1, <2>2
  <1>11. ASSUME NEW a \in Chare, NEW d \in Chare, NEW k \in Sent("neworder", d, a)',
                NEW n \in k.nodes, k.ids[n] # Unassigned
         PROVE  OwnerKnows(n, k.ids[n])'
    <2>1. k \in Sent("neworder", d, a) /\ k \in msgs /\ k.type = "neworder"
      BY <1>7 DEF Sent
    <2>2. n \in NodeId
      BY <2>1, Arguments
    <2>3. OwnerKnows(n, k.ids[n])
      BY <1>11, <2>1 DEF OwnersKnow
    <2> QED BY <1>9, <2>2, <2>3
  <1> QED BY <1>10, <1>11 DEF OwnersKnow

\* Owners know the ids others know after every step.
LEMMA OwnersKnowNext ==
  ASSUME TypeOK, Offsets, Offsets', Requests, OwnersKnow, [Next]_vars
  PROVE  OwnersKnow'
  <1>1. ASSUME NEW c \in Chare, ChareStep(c) PROVE OwnersKnow'
    <2>1. CASE EarlierStep(c)
      <3>1. SameSent({"offset", "request", "neworder"}) /\ UNCHANGED <<nodeset, newnodes>>
        BY <2>1, Earlier
      <3>2. SameSent({"neworder"})
        BY <3>1 DEF SameSent
      <3> QED BY <3>1, <3>2, OwnersKnowFrame
    <2>2. CASE Start(c) \/ RefinerReorder(c) \/ CreateWorkers(c)
      <3>1. SameSent(Exchanged \ {"offset"})
        BY <2>2, Untouched DEF SameSent
      <3>2. SameSent({"neworder"})
        BY <3>1 DEF SameSent, Exchanged
      <3>3. UNCHANGED <<nodeset, newnodes>>
        BY <2>2 DEF Start, RefinerReorder, CreateWorkers
      <3> QED BY <3>2, <3>3, OwnersKnowFrame
    <2>3. CASE Offset(c)
      BY <2>3, OwnersKnowOffset
    <2>4. CASE Request(c) \/ Wait4Prep(c)
      <3>1. \A a, b \in Chare : \A k \in Sent("neworder", a, b)' :
              k \in Sent("neworder", a, b) \/ (a = c /\ k.ids = Answer(c, k.nodes))
        <4>1. \A a, b \in Chare : \A k \in Sent("neworder", a, b)' :
                \/ k \in Sent("neworder", a, b)
                \/ /\ a = c /\ k.ids = Answer(c, k.nodes)
                   /\ \/ \E r \in reqnodes[c] : r.from = b /\ k.nodes = r.nodes
                      \/ \E m \in Sent("request", b, c) : k.nodes = m.nodes
          BY <2>4, PrepareEffect
        <4> QED BY <4>1
      <3>2. UNCHANGED <<nodeset, newnodes>>
        BY <2>4 DEF Request, Wait4Prep
      <3>3. \A d \in Chare : \A n : Owns(d, n)' <=> Owns(d, n)
        BY <3>2 DEF Owns
      <3>4. \A n, i : OwnerKnows(n, i) => OwnerKnows(n, i)'
        BY <3>2, <3>3 DEF OwnerKnows
      <3>5. \A a \in Chare : \A n \in NodeId :
              newnodes'[a][n] # Unassigned => OwnerKnows(n, newnodes[a][n])'
        BY <3>2, <3>4 DEF OwnersKnow
      <3>6. ASSUME NEW a \in Chare, NEW b \in Chare, NEW k \in Sent("neworder", a, b)',
                   NEW n \in k.nodes, k.ids[n] # Unassigned
            PROVE  OwnerKnows(n, k.ids[n])'
        <4>1. CASE k \in Sent("neworder", a, b)
          BY <3>4, <3>6, <4>1 DEF OwnersKnow
        <4>2. CASE k \notin Sent("neworder", a, b)
          <5>1. k.ids = Answer(c, k.nodes)
            BY <3>1, <3>6, <4>2
          <5>2. n \in NodeId
            <6>1. TypeOK'
              BY NextTypeOK
            <6>2. k \in msgs' /\ k.type = "neworder"
              BY <3>6 DEF Sent
            <6> QED BY <6>1, <6>2 DEF TypeOK, Message
          <5>3. k.ids[n] = newnodes[c][n]
            BY <5>1, <5>2 DEF Answer
          <5>4. OwnerKnows(n, newnodes[c][n])
            BY <3>6, <5>2, <5>3 DEF OwnersKnow
          <5> QED BY <3>4, <5>3, <5>4
        <4> QED BY <4>1, <4>2
      <3> QED BY <3>5, <3>6 DEF OwnersKnow
    <2>5. CASE NewOrder(c)
      BY <2>5, OwnersKnowNewOrder
    <2> QED BY <1>1, <2>1, <2>2, <2>3, <2>4, <2>5 DEF ChareStep, EarlierStep
  <1>2. CASE (\E tag \in Tag : Reduced(tag)) \/ UNCHANGED vars
    <2>1. SameSent({"neworder"}) /\ UNCHANGED <<nodeset, newnodes>>
      <3>1. ASSUME NEW tag \in Tag, Reduced(tag)
            PROVE  SameSent(Exchanged) /\ UNCHANGED <<nodeset, newnodes>>
        BY <3>1, HostStep
      <3>2. CASE UNCHANGED vars
        BY <3>2 DEF vars, SameSent, Sent
      <3> QED BY <1>2, <3>1, <3>2 DEF SameSent, Exchanged
    <2> QED BY <2>1, OwnersKnowFrame
  <1> QED BY <1>1, <1>2 DEF Next, Quiescent

-----------------------------------------------------------------------------
\* The exchanges are right before the first call.
LEMMA InitExchanges == Init => Exchanges
  <1> SUFFICES ASSUME Init PROVE Exchanges
    OBVIOUS
  <1>1. \A t \in Exchanged : \A a, b \in Chare : Sent(t, a, b) = {}
    BY DEF Init, Sent, Exchanged
  <1>2. \A a \in Chare : ToCome("setup", a) /\ ~ToCome("response", a) /\ ~ToCome("start", a)
    <2>1. \A a \in Chare : [type |-> "setup", to |-> a] \in msgs
      BY DEF Init
    <2>2. \A m \in msgs : m.type = "setup"
      BY DEF Init
    <2> QED BY <2>1, <2>2 DEF ToCome
  <1>3. \A a \in Chare : Asked(a) = {} /\ Told(a) = {}
    BY <1>1 DEF Asked, Told, Awaited, Exchanged
  <1>4. \A t \in Tag : \A a \in Chare : contrib[t][a] = 0
    BY DEF Init
  <1>5. reduced = {}
    BY DEF Init
  <1>6. QueryReceipts
    BY <1>1, <1>2, <1>3, <1>4, <1>5 DEF QueryReceipts, OneOf, Exchanged, Tag
  <1>7. Table
    BY <1>1, <1>2 DEF Table, Exchanged, Init
  <1>8. \A a \in Chare : ~Answered(a) /\ ~Started(a)
    BY <1>5 DEF Answered, Started
  <1>9. ResponseReceipts
    BY <1>1, <1>2, <1>3, <1>4, <1>5, <1>8 DEF ResponseReceipts, OneOf, Exchanged, Tag
  <1>10. Map
    <2>1. \A c, d \in Chare : msum[c][d] = {}
      BY DEF Init
    <2>2. \A c, d \in Chare : \A n \in Both(c, d) : ~Answered(Bin(n))
      BY <1>5 DEF Answered
    <2> QED BY <1>1, <2>1, <2>2 DEF Map, Exchanged
  <1>11. Offsets
    <2>1. \A c \in Chare : Heard(c) = {}
      BY <1>8 DEF Heard
    <2>2. Cardinality({}) = 0
      BY FS_EmptySet
    <2>3. \A c \in Chare : noffset[c] = 0
      BY DEF Init
    <2>4. \A c, d \in Chare : reordcomm[c][d] = {}
      BY DEF Init
    <2>5. \A c, d \in Chare : Sent("offset", c, d) = {}
      BY <1>1 DEF Exchanged
    <2>6. \A c \in Chare : contrib["discinserted"][c] = 0
      BY <1>4 DEF Tag
    <2>7. \A c, d \in Chare :
            reordcomm[c][d] = IF Reorder /\ Started(c)
                              THEN {n \in nodeset[c] : d < c /\ Owns(d, n)}
                              ELSE {}
      BY <1>8, <2>4
    <2>8. \A c \in Chare : noffset[c] = IF Reorder THEN Cardinality(Heard(c)) ELSE 0
      BY <2>1, <2>2, <2>3
    <2>9. \A c \in Chare : ~(contrib["discinserted"][c] > 0)
      BY <2>6
    <2> QED BY <1>2, <2>5, <2>7, <2>8, <2>9 DEF Offsets
  <1>12. \A c \in Chare : \A n \in NodeId : newnodes[c][n] = Unassigned
    BY DEF Init
  <1>13. Requests
    <2>1. \A c \in Chare : reqnodes[c] = {}
      BY DEF Init
    <2> QED BY <1>1, <1>12, <2>1 DEF Requests, Exchanged
  <1>14. OwnersKnow
    BY <1>1, <1>12 DEF OwnersKnow, Exchanged
  <1> QED BY <1>6, <1>7, <1>9, <1>10, <1>11, <1>13, <1>14 DEF Exchanges

\* Every step keeps the exchanges right.
LEMMA NextExchanges ==
  ASSUME TypeOK, Exchanges, [Next]_vars
  PROVE  Exchanges'
  <1>1. /\ QueryReceipts /\ Table /\ ResponseReceipts /\ Map
        /\ Offsets /\ Requests /\ OwnersKnow
    BY DEF Exchanges
  <1>2. QueryReceipts' /\ ResponseReceipts'
    BY <1>1, QueryReceiptsNext, ResponseReceiptsNext
  <1>3. Table'
    BY <1>1, TableNext
  <1>4. Map'
    BY <1>1, MapNext
  <1>5. Offsets'
    BY <1>1, OffsetsNext
  <1>6. Requests'
    BY <1>1, RequestsNext
  <1>7. OwnersKnow'
    BY <1>1, <1>5, OwnersKnowNext
  <1> QED BY <1>2, <1>3, <1>4, <1>5, <1>6, <1>7 DEF Exchanges

\* The invariant holds in every state, so that it says of every mesh and order of
\* delivery what the exchanges of Sorter have reached.
THEOREM ExchangesRight == Spec => []Exchanges
  <1>1. Init => TypeOK /\ Exchanges
    BY InitTypeOK, InitExchanges
  <1>2. TypeOK /\ Exchanges /\ [Next]_vars => TypeOK' /\ Exchanges'
    BY NextTypeOK, NextExchanges
  <1> QED BY <1>1, <1>2, PTL DEF Spec

\* Chares that know the new id of a node agree on it (Sorter::mask, reorder,
\* prepare, neworder): what any of them knows the one owner of the node knows.
THEOREM IdsAgreement == Spec => []IdsAgree
  <1>1. ASSUME Exchanges PROVE IdsAgree
    <2> SUFFICES ASSUME NEW c \in Chare, NEW d \in Chare, NEW n \in NodeId,
                        newnodes[c][n] # Unassigned, newnodes[d][n] # Unassigned
                 PROVE  newnodes[c][n] = newnodes[d][n]
      BY DEF IdsAgree
    <2>1. OwnerKnows(n, newnodes[c][n]) /\ OwnerKnows(n, newnodes[d][n])
      BY <1>1 DEF Exchanges, OwnersKnow
    <2>2. PICK a \in Chare : Owns(a, n) /\ newnodes[a][n] = newnodes[c][n]
      BY <2>1 DEF OwnerKnows
    <2>3. PICK b \in Chare : Owns(b, n) /\ newnodes[b][n] = newnodes[d][n]
      BY <2>1 DEF OwnerKnows
    <2>4. a = b
      BY <2>2, <2>3, OneOwner
    <2> QED BY <2>2, <2>3, <2>4
  <1> QED BY <1>1, ExchangesRight, PTL

-----------------------------------------------------------------------------
(* What is handed over.                                                    *)

-----------------------------------------------------------------------------
(* What the exchanges have reached when a chare takes part in the next. *)

\* When all answers are in, the communication map is exact until it is renumbered.
LEMMA MapExact ==
  ASSUME TypeOK, ResponseReceipts, Map, "responded" \in reduced, NEW c \in Chare,
         contrib["discinserted"][c] = 0 \/ ~Reorder, NEW d \in Chare
  PROVE  msum[c][d] = Both(c, d)
  <1>1. \A a \in Chare : Answered(a) /\ \A b \in Chare : Sent("bnd", a, b) = {}
    <2>1. \A a \in Chare : contrib["responded"][a] > 0
      BY DEF ResponseReceipts
    <2>2. \A a \in Chare : Answered(a) /\ Told(a) = {}
      BY <2>1 DEF ResponseReceipts
    <2> QED BY <2>2 DEF Told, Awaited
  <1>2. \A n \in Both(c, d) : Bin(n) \in Chare
    BY BinType DEF Both, TypeOK
  <1>3. /\ msum[c][d] \subseteq Both(c, d)
        /\ \A n \in Both(c, d) : Answered(Bin(n)) =>
             n \in msum[c][d] \/ \E m \in Sent("bnd", Bin(n), c) : n \in m.msum[d]
    BY DEF Map
  <1>4. \A n \in Both(c, d) : n \in msum[c][d]
    BY <1>1, <1>2, <1>3
  <1> QED BY <1>3, <1>4

\* An id is sent to a chare about nodes it has and the sender owns.
LEMMA LowerOwned ==
  ASSUME TypeOK, Offsets, NEW c \in Chare, NEW d \in Chare, NEW n \in reordcomm[c][d]
  PROVE  /\ Reorder /\ Started(c)
         /\ n \in nodeset[c] /\ n \in NodeId /\ d < c /\ Owns(d, n)
  <1>1. reordcomm[c][d] = IF Reorder /\ Started(c)
                          THEN {k \in nodeset[c] : d < c /\ Owns(d, k)} ELSE {}
    BY DEF Offsets
  <1>2. nodeset[c] \subseteq NodeId
    BY DEF TypeOK
  <1> QED BY <1>1, <1>2

\* A chare that has numbered its nodes stays so.
LEMMA NumberedKept ==
  ASSUME TypeOK, Offsets, Requests, [Next]_vars, NEW a \in Chare, Numbered(a)
  PROVE  Numbered(a)'
  <1>1. ASSUME NEW c \in Chare, ChareStep(c) PROVE Numbered(a)'
    <2>1. CASE Offset(c)
      BY <2>1, OffsetEffect
    <2>2. CASE ~Offset(c)
      <3>1. noffset' = noffset
        BY <1>1, <2>2 DEF ChareStep, Setup, Query, RecvQuery, Response, Bnd, RecvBnd,
           Receipt, Start, Request, Wait4Prep, NewOrder, RefinerReorder, CreateWorkers
      <3> QED BY <3>1 DEF Numbered
    <2> QED BY <2>1, <2>2
  <1>2. CASE (\E tag \in Tag : Reduced(tag)) \/ UNCHANGED vars
    <2>1. noffset' = noffset
      BY <1>2 DEF Reduced, vars
    <2> QED BY <2>1 DEF Numbered
  <1> QED BY <1>1, <1>2 DEF Next, Quiescent

-----------------------------------------------------------------------------
(* mask() and offset(): the numbers are not negative. *)

\* The nodes lower chares number for a chare are some of its own, each once.
LEMMA NuniqPositive ==
  ASSUME TypeOK, ResponseReceipts, Map, Offsets, NEW c \in Chare, ToCome("start", c)
  PROVE  Nuniq(c, Mask(c)) >= 0
  <1> DEFINE mask == Mask(c)
             P == {p \in Chare \X NodeId : p[2] \in mask[p[1]]}
             f == [p \in P |-> p[2]]
  <1>1. \A d \in Chare : mask[d] = {n \in nodeset[c] : d < c /\ Owns(d, n)}
    BY MaskOwned
  <1> HIDE DEF mask
  <1>2. \A p \in P : p[1] \in Chare /\ p[2] \in nodeset[c] /\ Owns(p[1], p[2])
    BY <1>1
  <1>3. ASSUME NEW p \in P, NEW q \in P, p[2] = q[2] PROVE p = q
    <2>1. p[1] = q[1]
      BY <1>2, <1>3, OneOwner
    <2>2. p = <<p[1], p[2]>> /\ q = <<q[1], q[2]>>
      OBVIOUS
    <2> QED BY <1>3, <2>1, <2>2
  <1>4. f \in [P -> nodeset[c]]
    BY <1>2
  <1>5. \A p \in P, q \in P : f[p] = f[q] => p = q
    BY <1>3
  <1>6. f \in Injection(P, nodeset[c])
    <2> HIDE DEF f, P
    <2> QED BY <1>4, <1>5 DEF Injection, IsInjective
  <1>7. IsFiniteSet(nodeset[c]) /\ Cardinality(nodeset[c]) \in Nat
    BY FiniteChares DEF TypeOK
  <1>8. Cardinality(P) \in Nat
    <2>1. P \subseteq Chare \X NodeId
      OBVIOUS
    <2> QED BY <2>1, FiniteChares
  <1>9. Cardinality(P) <= Cardinality(nodeset[c])
    <2> HIDE DEF f, P
    <2> QED BY <1>6, <1>7, FS_Injection
  <1> QED BY <1>7, <1>8, <1>9 DEF Nuniq, mask

LEMMA PositiveNext ==
  ASSUME TypeOK, ResponseReceipts, Map, Offsets, Positive, [Next]_vars
  PROVE  Positive'
  <1> DEFINE SameOffsets == \A m \in msgs' : m.type = "offset" => m \in msgs
  <1>1. ASSUME SameOffsets, nextid' = nextid PROVE Positive'
    BY <1>1 DEF Positive
  <1>2. ASSUME NEW c \in Chare, ChareStep(c) PROVE Positive'
    <2>1. CASE Start(c)
      <3>1. /\ [type |-> "start", to |-> c] \in msgs /\ nextid' = nextid
            /\ \/ msgs' = (msgs \ {[type |-> "start", to |-> c]}) \cup
                   {[type |-> "offset", to |-> d, from |-> c, num |-> Nuniq(c, Mask(c))] :
                      d \in Chare}
               \/ msgs' = msgs \ {[type |-> "start", to |-> c]}
        BY <2>1 DEF Start
      <3>2. Nuniq(c, Mask(c)) >= 0
        BY <3>1, NuniqPositive DEF ToCome
      <3> QED BY <3>1, <3>2 DEF Positive
    <2>2. CASE Offset(c)
      <3>1. PICK m \in msgs :
              /\ m.type = "offset"
              /\ \/ ReorderOwn(c, nextid[c] + (IF m.from < c THEN m.num ELSE 0), msgs \ {m})
                 \/ /\ nextid' = [nextid EXCEPT ![c] = nextid[c] + (IF m.from < c THEN m.num ELSE 0)]
                    /\ msgs' = msgs \ {m}
        BY <2>2 DEF Offset
      <3>2. m.num \in Int /\ m.num >= 0 /\ \A a \in Chare : nextid[a] \in Int /\ nextid[a] >= 0
        BY <3>1, Arguments DEF Positive, TypeOK
      <3> DEFINE first == nextid[c] + (IF m.from < c THEN m.num ELSE 0)
      <3>3. first \in Int /\ first >= 0
        BY <3>2
      <3>4. \/ ReorderOwn(c, first, msgs \ {m})
            \/ nextid' = [nextid EXCEPT ![c] = first] /\ msgs' = msgs \ {m}
        BY <3>1
      <3> HIDE DEF first
      <3>5. CASE ReorderOwn(c, first, msgs \ {m})
        <4>1. Cardinality(Own(c)) \in Nat
          BY Counts
        <4>2. nextid' = [nextid EXCEPT ![c] = first + Cardinality(Own(c))]
          BY <3>5 DEF ReorderOwn
        <4>3. \A a \in Chare : nextid'[a] >= 0
          BY <3>2, <3>3, <4>1, <4>2 DEF TypeOK
        <4>4. PICK new :
                FinishIfNumbered(c, new,
                  (msgs \ {m}) \cup {[type |-> "wait4prep", to |-> c]} \cup
                  {[type |-> "request", to |-> d, from |-> c, nodes |-> reordcomm[c][d]] :
                     d \in {e \in Chare : reordcomm[c][e] # {}}})
          BY <3>5 DEF ReorderOwn
        <4>5. SameOffsets
          BY <4>4 DEF FinishIfNumbered, Finish
        <4> QED BY <4>3, <4>5 DEF Positive
      <3>6. CASE nextid' = [nextid EXCEPT ![c] = first] /\ msgs' = msgs \ {m}
        <4>1. \A a \in Chare : nextid'[a] >= 0
          BY <3>2, <3>3, <3>6 DEF TypeOK
        <4> QED BY <3>6, <4>1 DEF Positive
      <3> QED BY <3>4, <3>5, <3>6
    <2>3. CASE ~Start(c) /\ ~Offset(c)
      <3>1. nextid' = nextid
        BY <1>2, <2>3 DEF ChareStep, Setup, Query, RecvQuery, Response, Bnd, RecvBnd,
           Receipt, Request, Wait4Prep, NewOrder, RefinerReorder, CreateWorkers
      <3>2. SameOffsets
        BY <1>2, <2>3, Footprint DEF ChareStep, Only
      <3> QED BY <1>1, <3>1, <3>2
    <2> QED BY <2>1, <2>2, <2>3
  <1>3. CASE (\E tag \in Tag : Reduced(tag)) \/ UNCHANGED vars
    <2>1. nextid' = nextid /\ SameOffsets
      BY <1>3 DEF Reduced, FollowUp, vars
    <2> QED BY <1>1, <2>1
  <1> QED BY <1>2, <1>3 DEF Next, Quiescent

-----------------------------------------------------------------------------
(* reorder() and prepare(): answers have ids. *)

\* What offset() does to the ids and requests of the chare that numbers its nodes.
LEMMA OffsetNumbers ==
  ASSUME TypeOK, Offsets, Positive, NEW c \in Chare, Offset(c), Numbered(c)'
  PROVE  \E new, others :
           /\ new \in [NodeId -> Int]
           /\ FinishIfNumbered(c, new, others)
           /\ \A n \in Own(c) : new[n] # Unassigned
           /\ \A n \in NodeId : n \notin Own(c) => new[n] = newnodes[c][n]
           /\ \A k \in others : k.type = "request" =>
                \/ k \in msgs
                \/ \E b \in Chare :
                     /\ reordcomm[c][b] # {}
                     /\ k = [type |-> "request", to |-> b, from |-> c, nodes |-> reordcomm[c][b]]
           /\ \A k \in msgs : k.type = "request" => k \in others
  <1>1. PICK m \in msgs :
          /\ m.type = "offset" /\ m.to = c
          /\ noffset' = [noffset EXCEPT ![c] = @ + 1]
          /\ \/ noffset[c] + 1 = NChare
                /\ ReorderOwn(c, nextid[c] + (IF m.from < c THEN m.num ELSE 0), msgs \ {m})
             \/ noffset[c] + 1 # NChare
    BY DEF Offset
  <1>2. noffset'[c] = noffset[c] + 1
    BY <1>1 DEF TypeOK
  <1> DEFINE first == nextid[c] + (IF m.from < c THEN m.num ELSE 0)
             out == (msgs \ {m}) \cup {[type |-> "wait4prep", to |-> c]} \cup
               {[type |-> "request", to |-> d, from |-> c, nodes |-> reordcomm[c][d]] :
                  d \in {e \in Chare : reordcomm[c][e] # {}}}
  <1>3. ReorderOwn(c, first, msgs \ {m})
    BY <1>1, <1>2 DEF Numbered
  <1>4. first \in Int /\ first >= 0
    BY <1>1, Arguments DEF Positive, TypeOK
  <1> HIDE DEF first
  <1>5. PICK f \in Numberings(Own(c), first) :
          FinishIfNumbered(c,
            [n \in NodeId |-> IF n \in Own(c) THEN f[n] ELSE newnodes[c][n]], out)
    BY <1>3 DEF ReorderOwn
  <1> DEFINE new == [n \in NodeId |-> IF n \in Own(c) THEN f[n] ELSE newnodes[c][n]]
  <1>6. Cardinality(Own(c)) \in Nat /\ Own(c) \subseteq NodeId
    BY Counts
  <1>7. \A n \in Own(c) : f[n] \in Int /\ f[n] >= 0
    BY <1>4, <1>6 DEF Numberings
  <1>8. new \in [NodeId -> Int]
    BY <1>6, <1>7 DEF TypeOK
  <1>9. /\ \A n \in Own(c) : new[n] # Unassigned
        /\ \A n \in NodeId : n \notin Own(c) => new[n] = newnodes[c][n]
    BY <1>6, <1>7 DEF Unassigned
  <1>10. \A k \in out : k.type = "request" =>
           \/ k \in msgs
           \/ \E b \in Chare :
                /\ reordcomm[c][b] # {}
                /\ k = [type |-> "request", to |-> b, from |-> c, nodes |-> reordcomm[c][b]]
    OBVIOUS
  <1>12. \A k \in msgs : k.type = "request" => k \in out
    BY <1>1
  <1> HIDE DEF out, new
  <1>11. FinishIfNumbered(c, new, out)
    BY <1>5 DEF new
  <1> QED BY <1>8, <1>9, <1>10, <1>11, <1>12

\* prepare() runs only when the chare has numbered its nodes.
LEMMA PrepareOwned ==
  ASSUME NEW c \in Chare, Request(c) \/ Wait4Prep(c), ~(owned[c] > 0)
  PROVE  \A k \in msgs' : k \in msgs
  BY DEF Request, Wait4Prep, Prepared

\* What is numbered is not what lower chares number.
LEMMA OwnOrLower ==
  ASSUME TypeOK, Offsets, NEW c \in Chare, NEW n \in NodeId, Owns(c, n)
  PROVE  n \in Own(c)
  <1>1. ASSUME NEW d \in Chare, n \in reordcomm[c][d] PROVE FALSE
    <2>1. d < c /\ Owns(d, n)
      BY <1>1, LowerOwned
    <2>2. d = c
      BY <2>1, OneOwner
    <2> QED BY <2>1, <2>2 DEF Chare
  <1> QED BY <1>1 DEF Own, Owns

LEMMA AnswersNext ==
  ASSUME TypeOK, Offsets, Requests, Positive, Answers, [Next]_vars
  PROVE  Answers'
  <1> DEFINE Owned == \A a \in Chare : owned'[a] > 0 => owned[a] > 0 \/ Numbered(a)'
             Known == \A a \in Chare : Numbered(a)' => \A n \in NodeId :
                        Owns(a, n)' => newnodes'[a][n] # Unassigned
             Told1 == \A a, d \in Chare : \A m \in Sent("neworder", d, a)' : \A n \in m.nodes :
                        m.ids[n] # Unassigned
  <1>1. nodeset' = nodeset
    BY DEF Next, ChareStep, Setup, Query, RecvQuery, Response, Bnd, RecvBnd, Receipt, Start,
       Offset, Request, Wait4Prep, NewOrder, RefinerReorder, CreateWorkers, Reduced, Quiescent, vars
  <1>2. \A a \in Chare : \A n : Owns(a, n)' <=> Owns(a, n)
    BY <1>1 DEF Owns
  <1>3. \A a \in Chare : Numbered(a) => Numbered(a)'
    BY NumberedKept
  <1>4. ASSUME UNCHANGED <<newnodes, noffset>> PROVE Known
    BY <1>2, <1>4 DEF Answers, Numbered
  <1>5. ASSUME SameSent({"neworder"}) PROVE Told1
    BY <1>5 DEF SameSent, Answers
  <1>6. ASSUME Owned, Known, Told1 PROVE Answers'
    BY <1>3, <1>6 DEF Answers
  <1>7. ASSUME NEW c \in Chare, ChareStep(c) PROVE Owned /\ Known /\ Told1
    <2>1. CASE Offset(c)
      <3>1. /\ ~Numbered(c)
            /\ \A a \in Chare : a # c => (Numbered(a)' <=> Numbered(a)) /\ newnodes'[a] = newnodes[a]
        BY <2>1, OffsetEffect
      <3>2. Owned
        <4>1. \/ owned' = owned
              \/ noffset[c] + 1 = NChare /\ owned' = [owned EXCEPT ![c] = @ + 1]
          BY <2>1 DEF Offset, ReorderOwn
        <4>2. noffset'[c] = noffset[c] + 1
          BY <2>1 DEF Offset, TypeOK
        <4> QED BY <4>1, <4>2 DEF Numbered, TypeOK
      <3>3. ASSUME Numbered(c)', NEW n \in NodeId, Owns(c, n) PROVE newnodes'[c][n] # Unassigned
        <4>1. PICK new, others :
                /\ new \in [NodeId -> Int]
                /\ FinishIfNumbered(c, new, others)
                /\ \A k \in Own(c) : new[k] # Unassigned
          BY <2>1, <3>3, OffsetNumbers
        <4>2. newnodes'[c] = new
          BY <4>1 DEF FinishIfNumbered, TypeOK
        <4> QED BY <3>3, <4>1, <4>2, OwnOrLower
      <3>4. Known
        BY <1>2, <3>1, <3>3 DEF Answers
      <3>5. SameSent(Exchanged \ {"offset", "request"})
        BY <2>1, Untouched
      <3>6. SameSent({"neworder"})
        BY <3>5 DEF SameSent, Exchanged
      <3> QED BY <1>5, <3>2, <3>4, <3>6
    <2>2. CASE Request(c) \/ Wait4Prep(c)
      <3>1. UNCHANGED <<newnodes, noffset, owned, reordcomm>>
        BY <2>2 DEF Request, Wait4Prep
      <3>2. ASSUME NEW a \in Chare, NEW d \in Chare, NEW k \in Sent("neworder", d, a)',
                   NEW n \in k.nodes
            PROVE  k.ids[n] # Unassigned
        <4>1. CASE k \in Sent("neworder", d, a)
          BY <4>1 DEF Answers
        <4>2. CASE k \notin Sent("neworder", d, a)
          <5>1. /\ d = c /\ k.ids = Answer(c, k.nodes)
                /\ \/ \E r \in reqnodes[c] : r.from = a /\ k.nodes = r.nodes
                   \/ \E m \in Sent("request", a, c) : k.nodes = m.nodes
            BY <2>2, <3>2, <4>2, PrepareEffect
          <5>2. n \in reordcomm[a][c]
            BY <5>1 DEF Requests
          <5>3. n \in NodeId /\ Owns(c, n)
            BY <5>2, LowerOwned
          <5>4. k \notin msgs /\ k \in msgs'
            BY <3>2, <4>2 DEF Sent
          <5>5. Numbered(c)
            BY <2>2, <5>4, PrepareOwned DEF Answers
          <5>6. newnodes[c][n] # Unassigned
            BY <5>3, <5>5 DEF Answers
          <5> QED BY <5>1, <5>3, <5>6 DEF Answer
        <4> QED BY <4>1, <4>2
      <3> QED BY <1>4, <3>1, <3>2
    <2>3. CASE NewOrder(c)
      <3>1. UNCHANGED <<noffset, owned>>
        BY <2>3 DEF NewOrder
      <3>2. PICK m \in msgs :
              /\ m.type = "neworder" /\ m.to = c
              /\ FinishIfNumbered(c,
                   [n \in NodeId |-> IF n \in m.nodes THEN m.ids[n] ELSE newnodes[c][n]],
                   msgs \ {m})
        BY <2>3 DEF NewOrder
      <3>3. m.from \in Chare /\ m \in Sent("neworder", m.from, c)
        BY <3>2, Arguments DEF Sent
      <3>4. /\ \A a \in Chare : a # c => newnodes'[a] = newnodes[a]
            /\ \A n \in NodeId : newnodes'[c][n] =
                 IF n \in m.nodes THEN m.ids[n] ELSE newnodes[c][n]
        BY <3>2 DEF FinishIfNumbered, TypeOK
      <3>5. \A n \in m.nodes : m.ids[n] # Unassigned
        BY <3>3 DEF Answers
      <3>6. \A a \in Chare : \A n \in NodeId :
              newnodes[a][n] # Unassigned => newnodes'[a][n] # Unassigned
        BY <3>4, <3>5
      <3>7. Known
        BY <1>2, <3>1, <3>6 DEF Answers, Numbered
      <3>8. \A a, d \in Chare : Sent("neworder", d, a)' \subseteq Sent("neworder", d, a)
        BY <3>2 DEF FinishIfNumbered, Finish, Sent
      <3>9. Told1
        BY <3>8 DEF Answers
      <3> QED BY <3>1, <3>7, <3>9
    <2>4. CASE ~Offset(c) /\ ~Request(c) /\ ~Wait4Prep(c) /\ ~NewOrder(c)
      <3>1. UNCHANGED <<newnodes, noffset, owned>>
        BY <1>7, <2>4 DEF ChareStep, Setup, Query, RecvQuery, Response, Bnd, RecvBnd, Receipt,
           Start, RefinerReorder, CreateWorkers
      <3>2. SameSent(Exchanged \ {"query", "recvquery", "bnd", "recvbnd", "offset"})
        BY <1>7, <2>4, Untouched DEF ChareStep, SameSent
      <3>3. SameSent({"neworder"})
        BY <3>2 DEF SameSent, Exchanged
      <3> QED BY <1>4, <1>5, <3>1, <3>3
    <2> QED BY <2>1, <2>2, <2>3, <2>4
  <1>8. CASE (\E tag \in Tag : Reduced(tag)) \/ UNCHANGED vars
    <2>1. UNCHANGED <<newnodes, noffset, owned>>
      BY <1>8 DEF Reduced, vars
    <2>2. SameSent({"neworder"})
      <3>1. ASSUME NEW tag \in Tag, Reduced(tag) PROVE SameSent(Exchanged)
        BY <3>1, HostStep
      <3>2. CASE UNCHANGED vars
        BY <3>2 DEF vars, SameSent, Sent
      <3> QED BY <1>8, <3>1, <3>2 DEF SameSent, Exchanged
    <2> QED BY <1>4, <1>5, <1>6, <2>1, <2>2
  <1> QED BY <1>6, <1>7, <1>8 DEF Next, Quiescent

-----------------------------------------------------------------------------
(* request() and neworder(): what is asked for is answered once. *)

\* The call that answers request r.
AnswerTo(c, r) ==
  [type |-> "neworder", to |-> r.from, from |-> c, nodes |-> r.nodes, ids |-> Answer(c, r.nodes)]

\* prepare() answers the requests it is given, and nothing else.
LEMMA PrepareAnswers ==
  ASSUME NEW c \in Chare, NEW queue, NEW m, Prepare(c, queue, msgs \ {m}),
         m.type # "neworder"
  PROVE  /\ \A a, b \in Chare : Sent("request", a, b)' = Sent("request", a, b) \ {m}
         /\ \A a, b \in Chare : \A k : k \in Sent("neworder", b, a)' <=>
              \/ k \in Sent("neworder", b, a)
              \/ b = c /\ \E r \in queue : r.from = a /\ k = AnswerTo(c, r)
  <1>1. msgs' = (msgs \ {m}) \cup {[type |-> "wait4prep", to |-> c]} \cup
                {AnswerTo(c, r) : r \in queue}
    BY DEF Prepare, AnswerTo
  <1>2. \A r : AnswerTo(c, r).type = "neworder" /\ AnswerTo(c, r).to = r.from
               /\ AnswerTo(c, r).from = c
    BY DEF AnswerTo
  <1>3. [type |-> "wait4prep", to |-> c].type = "wait4prep"
    OBVIOUS
  <1>4. ASSUME NEW a \in Chare, NEW b \in Chare
        PROVE  Sent("request", a, b)' = Sent("request", a, b) \ {m}
    BY <1>1, <1>2, <1>3 DEF Sent
  <1>5. ASSUME NEW a \in Chare, NEW b \in Chare, NEW k
        PROVE  k \in Sent("neworder", b, a)' <=>
                 \/ k \in Sent("neworder", b, a)
                 \/ b = c /\ \E r \in queue : r.from = a /\ k = AnswerTo(c, r)
    <2>1. k \in Sent("neworder", b, a)' <=> k \in msgs' /\ k.type = "neworder" /\ k.from = b /\ k.to = a
      BY DEF Sent
    <2>2. k \in Sent("neworder", b, a) <=> k \in msgs /\ k.type = "neworder" /\ k.from = b /\ k.to = a
      BY DEF Sent
    <2> QED BY <1>1, <1>2, <1>3, <2>1, <2>2
  <1> QED BY <1>4, <1>5

\* What Awaiting says of two chares.
AwaitingOf(c, d) ==
  /\ OnePlace(c, d)
  /\ Awaits(c, d) => \A n \in reordcomm[c][d] : newnodes[c][n] = Unassigned
  /\ \A m \in Sent("request", c, d) : m.nodes # {}
  /\ \A r \in Queued(c, d) : r.nodes # {}
  /\ \A m \in Sent("neworder", d, c) : m.nodes # {}

LEMMA AwaitingFrame ==
  ASSUME NEW c \in Chare, NEW d \in Chare, AwaitingOf(c, d),
         Sent("request", c, d)' = Sent("request", c, d),
         Queued(c, d)' = Queued(c, d),
         Sent("neworder", d, c)' = Sent("neworder", d, c),
         Awaits(c, d) =>
           /\ reordcomm'[c][d] = reordcomm[c][d]
           /\ \A n \in reordcomm[c][d] : newnodes'[c][n] = newnodes[c][n]
  PROVE  AwaitingOf(c, d)'
  BY DEF AwaitingOf, OnePlace, Awaits

\* A chare that has not numbered its nodes awaits nothing.
LEMMA AwaitsNumbered ==
  ASSUME TypeOK, Requests, NEW c \in Chare, NEW d \in Chare, Awaits(c, d)
  PROVE  Numbered(c)
  BY DEF Requests, Awaits, Queued

LEMMA AwaitingPrepare ==
  ASSUME TypeOK, Awaiting, NEW c \in Chare, Request(c) \/ Wait4Prep(c)
  PROVE  Awaiting'
  <1>1. \A a, d \in Chare : AwaitingOf(a, d)
    BY DEF Awaiting, AwaitingOf
  <1>2. UNCHANGED <<newnodes, reordcomm>>
    BY DEF Request, Wait4Prep
  <1>3. ASSUME NEW queue, NEW m, Prepare(c, queue, msgs \ {m}), m.type # "neworder",
               \A r \in queue : r.from \in Chare,
               \A r \in queue : r \in reqnodes[c] \/
                 (m \in Sent("request", r.from, c) /\ r.nodes = m.nodes
                  /\ \A q \in queue : q.from = r.from => q = r),
               \A a, b \in Chare : m \in Sent("request", a, b) =>
                 b = c /\ \E r \in queue : r.from = a,
               NEW a \in Chare, NEW d \in Chare
        PROVE  AwaitingOf(a, d)'
    <2>1. /\ Sent("request", a, d)' = Sent("request", a, d) \ {m}
          /\ \A k : k \in Sent("neworder", d, a)' <=>
               \/ k \in Sent("neworder", d, a)
               \/ d = c /\ \E r \in queue : r.from = a /\ k = AnswerTo(c, r)
      BY <1>3, PrepareAnswers
    <2>2. \A b \in Chare : reqnodes'[b] = IF b = c THEN {} ELSE reqnodes[b]
      BY <1>3 DEF Prepare, TypeOK
    <2>3. CASE d # c
      <3>1. m \notin Sent("request", a, d)
        BY <1>3, <2>3
      <3>2. /\ Sent("request", a, d)' = Sent("request", a, d)
            /\ Queued(a, d)' = Queued(a, d)
            /\ Sent("neworder", d, a)' = Sent("neworder", d, a)
        BY <2>1, <2>2, <2>3, <3>1 DEF Queued
      <3> QED BY <1>1, <1>2, <3>2, AwaitingFrame
    <2>4. CASE d = c
      <3>1. \A r : AnswerTo(c, r).nodes = r.nodes
        BY DEF AnswerTo
      <3>2. Queued(a, c)' = {}
        BY <2>2 DEF Queued
      <3>3. AwaitingOf(a, c)
        BY <1>1
      <3>4. CASE \E r \in queue : r.from = a
        <4>1. PICK r \in queue : r.from = a
          BY <3>4
        <4>2. /\ \A q \in queue : q.from = a => q = r
              /\ Sent("neworder", c, a) = {} /\ Sent("request", a, c) \ {m} = {}
              /\ r.nodes # {} /\ Awaits(a, c)
          <5>1. CASE m \in Sent("request", a, c)
            <6>1. /\ Sent("request", a, c) = {m} /\ Queued(a, c) = {}
                  /\ Sent("neworder", c, a) = {} /\ m.nodes # {} /\ Awaits(a, c)
              BY <3>3, <5>1 DEF AwaitingOf, OnePlace, Awaits
            <6>2. \A q \in queue : q.from = a => q \notin reqnodes[c]
              BY <6>1 DEF Queued
            <6> QED BY <1>3, <4>1, <6>1, <6>2
          <5>2. CASE m \notin Sent("request", a, c)
            <6>1. \A q \in queue : q.from = a => q \in Queued(a, c)
              BY <1>3, <5>2 DEF Queued
            <6> QED BY <3>3, <4>1, <6>1 DEF AwaitingOf, OnePlace, Awaits
          <5> QED BY <5>1, <5>2
        <4>3. \A k : k \in Sent("neworder", c, a)' <=> k = AnswerTo(c, r)
          BY <2>1, <2>4, <4>1, <4>2
        <4>4. Sent("request", a, c)' = {}
          BY <2>1, <2>4, <4>2
        <4>5. \A n \in reordcomm'[a][c] : newnodes'[a][n] = Unassigned
          BY <1>2, <3>3, <4>2 DEF AwaitingOf
        <4> QED BY <2>4, <3>1, <3>2, <4>2, <4>3, <4>4, <4>5 DEF AwaitingOf, OnePlace
      <3>5. CASE ~ \E r \in queue : r.from = a
        <4>1. m \notin Sent("request", a, c)
          BY <1>3, <3>5
        <4>2. /\ Sent("request", a, c)' = Sent("request", a, c)
              /\ Sent("neworder", c, a)' = Sent("neworder", c, a)
          BY <2>1, <2>4, <3>5, <4>1
        <4> QED BY <1>2, <2>4, <3>2, <3>3, <4>2 DEF AwaitingOf, OnePlace, Awaits
      <3> QED BY <3>4, <3>5
    <2> QED BY <2>3, <2>4
  <1>4. \A a \in Chare : \A r \in reqnodes[a] : r.from \in Chare
    BY DEF TypeOK
  <1>5. ASSUME NEW a \in Chare, NEW d \in Chare PROVE AwaitingOf(a, d)'
    <2>1. CASE Request(c)
      <3>1. PICK m \in msgs :
              /\ m.type = "request" /\ m.to = c
              /\ \/ Prepare(c, reqnodes[c] \cup {[from |-> m.from, nodes |-> m.nodes]}, msgs \ {m})
                 \/ /\ reqnodes' = [reqnodes EXCEPT ![c] =
                          reqnodes[c] \cup {[from |-> m.from, nodes |-> m.nodes]}]
                    /\ msgs' = msgs \ {m}
        BY <2>1 DEF Request
      <3> DEFINE new == [from |-> m.from, nodes |-> m.nodes]
      <3>2. new.from = m.from /\ new.nodes = m.nodes
        OBVIOUS
      <3> HIDE DEF new
      <3>3. m.from \in Chare /\ m \in Sent("request", m.from, c)
        BY <3>1, Arguments DEF Sent
      <3>4. Queued(m.from, c) = {}
        BY <1>1, <3>3 DEF AwaitingOf, OnePlace
      <3> DEFINE queue == reqnodes[c] \cup {new}
      <3>5. \A r \in queue :
              /\ r.from \in Chare
              /\ r \in reqnodes[c] \/
                  (m \in Sent("request", r.from, c) /\ r.nodes = m.nodes
                   /\ \A q \in queue : q.from = r.from => q = r)
        BY <1>4, <3>2, <3>3, <3>4 DEF Queued
      <3>6. \A x, y \in Chare : m \in Sent("request", x, y) => y = c /\ \E r \in queue : r.from = x
        BY <3>1, <3>2 DEF Sent
      <3>7. CASE Prepare(c, queue, msgs \ {m})
        <4> HIDE DEF queue
        <4> QED BY <1>3, <3>1, <3>5, <3>6, <3>7
      <3>8. CASE reqnodes' = [reqnodes EXCEPT ![c] = queue] /\ msgs' = msgs \ {m}
        <4>1. \A b \in Chare : reqnodes'[b] = IF b = c THEN queue ELSE reqnodes[b]
          BY <3>8 DEF TypeOK
        <4>2. /\ Sent("request", a, d)' = Sent("request", a, d) \ {m}
              /\ Sent("neworder", d, a)' = Sent("neworder", d, a)
          BY <3>1, <3>8 DEF Sent
        <4>3. CASE ~(a = m.from /\ d = c)
          <5>1. Queued(a, d)' = Queued(a, d)
            BY <3>2, <4>1, <4>3 DEF Queued
          <5>2. Sent("request", a, d)' = Sent("request", a, d)
            BY <3>1, <4>2, <4>3 DEF Sent
          <5> QED BY <1>1, <1>2, <4>2, <5>1, <5>2, AwaitingFrame
        <4>4. CASE a = m.from /\ d = c
          <5>1. /\ Sent("request", a, d) = {m} /\ Sent("neworder", d, a) = {}
                /\ m.nodes # {} /\ Awaits(a, d)
            BY <1>1, <3>3, <4>4 DEF AwaitingOf, OnePlace, Awaits
          <5>2. \A r : r \in Queued(a, d)' <=> r = new
            BY <3>2, <3>4, <4>1, <4>4 DEF Queued
          <5>3. \A n \in reordcomm'[a][d] : newnodes'[a][n] = Unassigned
            BY <1>1, <1>2, <5>1 DEF AwaitingOf
          <5> QED BY <3>2, <4>2, <5>1, <5>2, <5>3 DEF AwaitingOf, OnePlace
        <4> QED BY <4>3, <4>4
      <3> QED BY <3>1, <3>7, <3>8 DEF new
    <2>2. CASE Wait4Prep(c)
      <3> DEFINE m == [type |-> "wait4prep", to |-> c]
      <3>1. \/ Prepare(c, reqnodes[c], msgs \ {m})
            \/ msgs' = msgs \ {m} /\ reqnodes' = reqnodes
        BY <2>2 DEF Wait4Prep
      <3>2. m.type = "wait4prep"
        OBVIOUS
      <3> HIDE DEF m
      <3>3. \A x, y \in Chare : m \notin Sent("request", x, y)
        BY <3>2 DEF Sent
      <3>4. CASE Prepare(c, reqnodes[c], msgs \ {m})
        BY <1>3, <1>4, <3>2, <3>3, <3>4
      <3>5. CASE msgs' = msgs \ {m} /\ reqnodes' = reqnodes
        <4>1. /\ Sent("request", a, d)' = Sent("request", a, d)
              /\ Queued(a, d)' = Queued(a, d)
              /\ Sent("neworder", d, a)' = Sent("neworder", d, a)
          BY <3>2, <3>5 DEF Sent, Queued
        <4> QED BY <1>1, <1>2, <4>1, AwaitingFrame
      <3> QED BY <3>1, <3>4, <3>5
    <2> QED BY <2>1, <2>2
  <1> QED BY <1>5 DEF Awaiting, AwaitingOf

\* The requests of reorder() are the first a chare makes.
LEMMA AwaitingOffset ==
  ASSUME TypeOK, Offsets, Requests, Positive, Awaiting, NEW c \in Chare, Offset(c)
  PROVE  Awaiting'
  <1>1. \A a, d \in Chare : AwaitingOf(a, d)
    BY DEF Awaiting, AwaitingOf
  <1>2. UNCHANGED <<reordcomm, reqnodes>>
    BY DEF Offset
  <1>3. \A a, d \in Chare : Queued(a, d)' = Queued(a, d)
    BY <1>2 DEF Queued
  <1>4. \A a, d \in Chare : Sent("neworder", d, a)' = Sent("neworder", d, a)
    <2>1. SameSent(Exchanged \ {"offset", "request"})
      BY Untouched
    <2> QED BY <2>1 DEF SameSent, Exchanged
  <1>5. /\ ~Numbered(c)
        /\ \A a \in Chare : a # c => newnodes'[a] = newnodes[a]
        /\ \/ ~Numbered(c)' /\ newnodes' = newnodes /\ SameSent({"request"})
           \/ Numbered(c)'
    BY OffsetEffect
  <1>6. CASE ~Numbered(c)' /\ newnodes' = newnodes /\ SameSent({"request"})
    <2>1. \A a, d \in Chare : Sent("request", a, d)' = Sent("request", a, d)
      BY <1>6 DEF SameSent
    <2>2. ASSUME NEW a \in Chare, NEW d \in Chare PROVE AwaitingOf(a, d)'
      BY <1>1, <1>2, <1>3, <1>4, <1>6, <2>1, AwaitingFrame
    <2> QED BY <2>2 DEF Awaiting, AwaitingOf
  <1>7. CASE Numbered(c)'
    <2> DEFINE q(b) == [type |-> "request", to |-> b, from |-> c, nodes |-> reordcomm[c][b]]
    <2>1. PICK new, others :
            /\ new \in [NodeId -> Int]
            /\ FinishIfNumbered(c, new, others)
            /\ \A n \in NodeId : n \notin Own(c) => new[n] = newnodes[c][n]
            /\ \A k \in others : k.type = "request" =>
                 k \in msgs \/ \E b \in Chare : reordcomm[c][b] # {} /\ k = q(b)
            /\ \A k \in msgs : k.type = "request" => k \in others
      <3>1. PICK new, others :
              /\ new \in [NodeId -> Int]
              /\ FinishIfNumbered(c, new, others)
              /\ \A n \in NodeId : n \notin Own(c) => new[n] = newnodes[c][n]
              /\ \A k \in others : k.type = "request" =>
                   \/ k \in msgs
                   \/ \E b \in Chare :
                        /\ reordcomm[c][b] # {}
                        /\ k = [type |-> "request", to |-> b, from |-> c, nodes |-> reordcomm[c][b]]
              /\ \A k \in msgs : k.type = "request" => k \in others
        BY <1>7, OffsetNumbers
      <3> QED BY <3>1
    <2>2. \A b : q(b).from = c /\ q(b).to = b /\ q(b).nodes = reordcomm[c][b]
      OBVIOUS
    <2> HIDE DEF q
    <2>3. \A k \in msgs' : k.type = "request" =>
            k \in msgs \/ \E b \in Chare : reordcomm[c][b] # {} /\ k = q(b)
      BY <2>1 DEF FinishIfNumbered, Finish
    <2>4. newnodes'[c] = new
      BY <2>1 DEF FinishIfNumbered, TypeOK
    <2>5. \A a, d \in Chare : \A k \in Sent("request", a, d)' :
            k \in Sent("request", a, d) \/ (a = c /\ reordcomm[c][d] # {} /\ k = q(d))
      BY <2>2, <2>3 DEF Sent
    <2>6. \A k \in msgs : k.type = "request" => k \in msgs'
      BY <2>1 DEF FinishIfNumbered, Finish
    <2>7. ASSUME NEW a \in Chare, NEW d \in Chare PROVE AwaitingOf(a, d)'
      <3>1. CASE a # c
        <4>1. Sent("request", a, d)' = Sent("request", a, d)
          BY <2>5, <2>6, <3>1 DEF Sent
        <4> QED BY <1>1, <1>2, <1>3, <1>4, <1>5, <3>1, <4>1, AwaitingFrame
      <3>2. CASE a = c
        <4>1. ~Awaits(c, d)
          BY <1>5, AwaitsNumbered
        <4>2. /\ Sent("request", c, d) = {} /\ Queued(c, d) = {}
              /\ Sent("neworder", d, c) = {}
          BY <4>1 DEF Awaits
        <4>3. \A k \in Sent("request", c, d)' : reordcomm[c][d] # {} /\ k = q(d)
          BY <2>5, <4>2
        <4>4. ASSUME NEW n \in reordcomm[c][d] PROVE newnodes'[c][n] = Unassigned
          <5>1. n \in NodeId
            BY LowerOwned
          <5>2. n \notin Own(c)
            BY DEF Own
          <5> QED BY <1>5, <2>1, <2>4, <5>1, <5>2 DEF Requests
        <4> QED BY <1>2, <1>3, <1>4, <2>2, <3>2, <4>2, <4>3, <4>4 DEF AwaitingOf, OnePlace
      <3> QED BY <3>1, <3>2
    <2> QED BY <2>7 DEF Awaiting, AwaitingOf
  <1> QED BY <1>5, <1>6, <1>7

\* An answer ends the wait for it, and has nothing of what others are asked for.
LEMMA AwaitingNewOrder ==
  ASSUME TypeOK, Offsets, Requests, Awaiting, NEW c \in Chare, NewOrder(c)
  PROVE  Awaiting'
  <1>1. \A a, d \in Chare : AwaitingOf(a, d)
    BY DEF Awaiting, AwaitingOf
  <1>2. UNCHANGED <<reordcomm, reqnodes>>
    BY DEF NewOrder
  <1>3. PICK m \in msgs :
          /\ m.type = "neworder" /\ m.to = c
          /\ FinishIfNumbered(c,
               [n \in NodeId |-> IF n \in m.nodes THEN m.ids[n] ELSE newnodes[c][n]],
               msgs \ {m})
    BY DEF NewOrder
  <1> DEFINE b == m.from
  <1>4. b \in Chare /\ m \in Sent("neworder", b, c)
    BY <1>3, Arguments DEF Sent
  <1>5. /\ \A a \in Chare : a # c => newnodes'[a] = newnodes[a]
        /\ \A n \in NodeId : n \notin m.nodes => newnodes'[c][n] = newnodes[c][n]
    BY <1>3 DEF FinishIfNumbered, TypeOK
  <1>6. \A a, d \in Chare :
          /\ Queued(a, d)' = Queued(a, d)
          /\ Sent("request", a, d)' = Sent("request", a, d)
          /\ Sent("neworder", d, a)' = Sent("neworder", d, a) \ {m}
    BY <1>2, <1>3 DEF FinishIfNumbered, Finish, Sent, Queued
  <1>7. m.nodes \subseteq reordcomm[c][b]
    BY <1>4 DEF Requests
  <1>8. \A a, d \in Chare : m \in Sent("neworder", d, a) => a = c /\ d = b
    BY <1>3 DEF Sent
  <1> HIDE DEF b
  <1>9. ASSUME NEW a \in Chare, NEW d \in Chare PROVE AwaitingOf(a, d)'
    <2>1. CASE a = c /\ d = b
      <3>1. /\ Sent("request", c, b) = {} /\ Queued(c, b) = {}
            /\ Sent("neworder", b, c) \ {m} = {}
        BY <1>1, <1>4 DEF AwaitingOf, OnePlace
      <3> QED BY <1>6, <2>1, <3>1 DEF AwaitingOf, OnePlace, Awaits
    <2>2. CASE ~(a = c /\ d = b)
      <3>1. Sent("neworder", d, a)' = Sent("neworder", d, a)
        BY <1>6, <1>8, <2>2
      <3>2. ASSUME NEW n \in reordcomm[a][d] PROVE newnodes'[a][n] = newnodes[a][n]
        <4>1. CASE a # c
          BY <1>5, <4>1
        <4>2. CASE a = c
          <5>1. n \in NodeId /\ Owns(d, n)
            BY LowerOwned
          <5>2. n \notin m.nodes
            <6>1. ASSUME n \in m.nodes PROVE FALSE
              <7>1. Owns(b, n)
                BY <1>4, <1>7, <6>1, LowerOwned
              <7>2. b = d
                BY <1>4, <5>1, <7>1, OneOwner
              <7> QED BY <2>2, <4>2, <7>2
            <6> QED BY <6>1
          <5> QED BY <1>5, <4>2, <5>1, <5>2
        <4> QED BY <4>1, <4>2
      <3> QED BY <1>1, <1>2, <1>6, <3>1, <3>2, AwaitingFrame
    <2> QED BY <2>1, <2>2
  <1> QED BY <1>9 DEF Awaiting, AwaitingOf

LEMMA AwaitingNext ==
  ASSUME TypeOK, Offsets, Requests, Positive, Awaiting, [Next]_vars
  PROVE  Awaiting'
  <1>1. \A a, d \in Chare : AwaitingOf(a, d)
    BY DEF Awaiting, AwaitingOf
  <1>2. ASSUME UNCHANGED <<newnodes, reqnodes>>, SameSent({"request", "neworder"}),
               \A a \in Chare : Numbered(a) => reordcomm'[a] = reordcomm[a]
        PROVE  Awaiting'
    <2>1. ASSUME NEW a \in Chare, NEW d \in Chare PROVE AwaitingOf(a, d)'
      <3>1. /\ Sent("request", a, d)' = Sent("request", a, d)
            /\ Queued(a, d)' = Queued(a, d)
            /\ Sent("neworder", d, a)' = Sent("neworder", d, a)
        BY <1>2 DEF SameSent, Queued
      <3>2. Awaits(a, d) => reordcomm'[a] = reordcomm[a]
        BY <1>2, AwaitsNumbered
      <3> QED BY <1>1, <1>2, <3>1, <3>2, AwaitingFrame
    <2> QED BY <2>1 DEF Awaiting, AwaitingOf
  <1>3. ASSUME NEW c \in Chare, ChareStep(c) PROVE Awaiting'
    <2>1. CASE EarlierStep(c)
      <3>1. /\ SameSent({"offset", "request", "neworder"})
            /\ UNCHANGED <<reordcomm, newnodes, reqnodes>>
        BY <2>1, Earlier
      <3>2. SameSent({"request", "neworder"})
        BY <3>1 DEF SameSent
      <3> QED BY <1>2, <3>1, <3>2
    <2>2. CASE Start(c)
      <3>1. ~Numbered(c)
        BY <2>2, NumberedStarted DEF Start, ToCome, Started
      <3>2. /\ UNCHANGED <<newnodes, reqnodes>>
            /\ \A a \in Chare : a # c => reordcomm'[a] = reordcomm[a]
        BY <2>2 DEF Start, TypeOK
      <3>3. SameSent(Exchanged \ {"offset"})
        BY <2>2, Untouched
      <3>4. SameSent({"request", "neworder"})
        BY <3>3 DEF SameSent, Exchanged
      <3>5. \A a \in Chare : Numbered(a) => reordcomm'[a] = reordcomm[a]
        BY <3>1, <3>2
      <3> QED BY <1>2, <3>2, <3>4, <3>5
    <2>3. CASE Offset(c)
      BY <2>3, AwaitingOffset
    <2>4. CASE Request(c) \/ Wait4Prep(c)
      BY <2>4, AwaitingPrepare
    <2>5. CASE NewOrder(c)
      BY <2>5, AwaitingNewOrder
    <2>6. CASE RefinerReorder(c) \/ CreateWorkers(c)
      <3>1. SameSent(Exchanged)
        BY <2>6, Untouched
      <3>2. SameSent({"request", "neworder"})
        BY <3>1 DEF SameSent, Exchanged
      <3>3. UNCHANGED <<reordcomm, newnodes, reqnodes>>
        BY <2>6 DEF RefinerReorder, CreateWorkers
      <3> QED BY <1>2, <3>2, <3>3
    <2> QED BY <1>3, <2>1, <2>2, <2>3, <2>4, <2>5, <2>6 DEF ChareStep, EarlierStep
  <1>4. CASE (\E tag \in Tag : Reduced(tag)) \/ UNCHANGED vars
    <2>1. SameSent({"request", "neworder"}) /\ UNCHANGED <<reordcomm, newnodes, reqnodes>>
      <3>1. ASSUME NEW tag \in Tag, Reduced(tag)
            PROVE  SameSent(Exchanged) /\ UNCHANGED <<reordcomm, newnodes, reqnodes>>
        BY <3>1, HostStep
      <3>2. CASE UNCHANGED vars
        BY <3>2 DEF vars, SameSent, Sent
      <3> QED BY <1>4, <3>1, <3>2 DEF SameSent, Exchanged
    <2> QED BY <1>2, <2>1
  <1> QED BY <1>3, <1>4 DEF Next, Quiescent

-----------------------------------------------------------------------------
(* finish() *)

\* A chare with a node it has no id for has not handed over.
LEMMA NotYet ==
  ASSUME TypeOK, Finished, Reorder, NEW c \in Chare, NEW n \in nodeset[c],
         newnodes[c][n] = Unassigned
  PROVE  contrib["discinserted"][c] = 0
  <1>1. contrib["discinserted"][c] \in Nat
    BY DEF TypeOK, Tag
  <1>2. ~(contrib["discinserted"][c] > 0)
    BY DEF Finished
  <1> QED BY <1>1, <1>2

\* A chare that is about to number its nodes, or to get ids, has not handed over.
LEMMA NotYetNumbered ==
  ASSUME TypeOK, Offsets, Requests, Awaiting, Finished, NEW c \in Chare, Offset(c) \/ NewOrder(c)
  PROVE  contrib["discinserted"][c] = 0
  <1>1. CASE Offset(c)
    <2>1. Reorder
      BY <1>1, OnlyIfAsked
    <2>2. ~Numbered(c)
      BY <1>1, OffsetEffect
    <2>3. contrib["discinserted"][c] \in Nat
      BY DEF TypeOK, Tag
    <2> QED BY <2>1, <2>2, <2>3 DEF Offsets, Numbered
  <1>2. CASE NewOrder(c)
    <2>1. Reorder
      BY <1>2, OnlyIfAsked
    <2>2. PICK m \in msgs : m.type = "neworder" /\ m.to = c
      BY <1>2 DEF NewOrder
    <2>3. m.from \in Chare /\ m \in Sent("neworder", m.from, c)
      BY <2>2, Arguments DEF Sent
    <2>4. m.nodes # {} /\ \A n \in reordcomm[c][m.from] : newnodes[c][n] = Unassigned
      BY <2>3 DEF Awaiting, Awaits
    <2>5. m.nodes \subseteq reordcomm[c][m.from]
      BY <2>3 DEF Requests
    <2>6. PICK n \in m.nodes : n \in nodeset[c]
      BY <2>3, <2>4, <2>5, LowerOwned
    <2> QED BY <2>1, <2>4, <2>5, <2>6, NotYet
  <1> QED BY <1>1, <1>2

\* finish() is called when all nodes have ids, and renumbers the exact map.
LEMMA FinishEffect ==
  ASSUME TypeOK, ResponseReceipts, Map, "responded" \in reduced, NEW c \in Chare,
         contrib["discinserted"][c] = 0, NEW new \in [NodeId -> Int], NEW others,
         FinishIfNumbered(c, new, others), nodeset' = nodeset,
         \A n \in NodeId : new[n] # Unassigned => n \in nodeset[c]
  PROVE  /\ newnodes' = [newnodes EXCEPT ![c] = new]
         /\ \A a \in Chare : a # c => msum'[a] = msum[a]
         /\ \A a \in Chare : a # c => contrib'["discinserted"][a] = contrib["discinserted"][a]
         /\ contrib'["discinserted"][c] > 0 =>
              /\ \A n \in nodeset[c] : new[n] # Unassigned
              /\ \A d \in Chare : msum'[c][d] = {new[n] : n \in Both(c, d)}
  <1>1. newnodes' = [newnodes EXCEPT ![c] = new]
    BY DEF FinishIfNumbered
  <1> DEFINE S == {n \in NodeId : new[n] # Unassigned}
  <1>2. CASE Cardinality(S) = Cardinality(nodeset[c]) /\ Finish(c, new, others)
    <2>1. S \subseteq nodeset[c] /\ IsFiniteSet(nodeset[c]) /\ nodeset[c] \subseteq NodeId
      BY FiniteChares DEF TypeOK
    <2>2. S = nodeset[c]
      <3> HIDE DEF S
      <3> QED BY <1>2, <2>1, FS_Subset
    <2>3. \A n \in nodeset[c] : new[n] # Unassigned
      BY <2>2
    <2>4. Contribute(c, "discinserted") /\ msum' = [msum EXCEPT ![c] = Renumbered(c, new)]
      BY <1>2 DEF Finish
    <2>5. \A a \in Chare : a # c => /\ msum'[a] = msum[a]
                                    /\ contrib'["discinserted"][a] = contrib["discinserted"][a]
      BY <2>4, Counted DEF TypeOK, Tag
    <2>6. msum'[c] = Renumbered(c, new)
      BY <2>4 DEF TypeOK
    <2>7. ASSUME NEW d \in Chare PROVE msum'[c][d] = {new[n] : n \in Both(c, d)}
      <3>1. msum[c][d] = Both(c, d)
        BY MapExact
      <3>2. \A n \in Both(c, d) : CrefFind(new, n) = new[n]
        BY <2>1 DEF Both, CrefFind
      <3>3. msum'[c][d] = {CrefFind(new, n) : n \in msum[c][d]}
        BY <2>6 DEF Renumbered
      <3> QED BY <3>1, <3>2, <3>3
    <2> QED BY <1>1, <2>3, <2>5, <2>7
  <1>3. CASE UNCHANGED <<msum, contrib>>
    BY <1>1, <1>3
  <1> QED BY <1>2, <1>3 DEF FinishIfNumbered

LEMMA FinishedFrame ==
  ASSUME TypeOK, Finished, UNCHANGED <<nodeset, newnodes>>,
         \A a \in Chare : Reorder /\ contrib'["discinserted"][a] > 0 =>
           contrib["discinserted"][a] > 0 /\ msum'[a] = msum[a]
  PROVE  Finished'
  <1>1. \A c, d \in Chare : Both(c, d)' = Both(c, d)
    BY DEF Both
  <1>2. ASSUME NEW c \in Chare, Reorder, contrib'["discinserted"][c] > 0
        PROVE  /\ \A n \in nodeset'[c] : newnodes'[c][n] # Unassigned
               /\ \A d \in Chare : msum'[c][d] = {newnodes'[c][n] : n \in Both(c, d)'}
    <2>1. contrib["discinserted"][c] > 0 /\ msum'[c] = msum[c]
      BY <1>2
    <2>2. \A d \in Chare : {newnodes'[c][n] : n \in Both(c, d)'} = {newnodes[c][n] : n \in Both(c, d)}
      BY <1>1
    <2> QED BY <1>2, <2>1, <2>2 DEF Finished
  <1> QED BY <1>2 DEF Finished

\* What reorder() and neworder() do keeps Finished.
LEMMA FinishedNumber ==
  ASSUME TypeOK, ResponseReceipts, Map, Finished, "responded" \in reduced, NEW c \in Chare,
         contrib["discinserted"][c] = 0, NEW new \in [NodeId -> Int], NEW others,
         FinishIfNumbered(c, new, others), nodeset' = nodeset,
         \A n \in NodeId : new[n] # Unassigned => n \in nodeset[c]
  PROVE  Finished'
  <1>1. /\ newnodes' = [newnodes EXCEPT ![c] = new]
        /\ \A a \in Chare : a # c => msum'[a] = msum[a]
        /\ \A a \in Chare : a # c => contrib'["discinserted"][a] = contrib["discinserted"][a]
        /\ contrib'["discinserted"][c] > 0 =>
             /\ \A n \in nodeset[c] : new[n] # Unassigned
             /\ \A d \in Chare : msum'[c][d] = {new[n] : n \in Both(c, d)}
    BY FinishEffect
  <1>2. newnodes'[c] = new /\ \A a \in Chare : a # c => newnodes'[a] = newnodes[a]
    BY <1>1 DEF TypeOK
  <1>3. \A a, d \in Chare : Both(a, d)' = Both(a, d)
    BY DEF Both
  <1>4. \A a \in Chare : \A n \in NodeId : newnodes'[a][n] # Unassigned => n \in nodeset'[a]
    BY <1>2 DEF Finished
  <1>5. ASSUME NEW a \in Chare, Reorder, contrib'["discinserted"][a] > 0
        PROVE  /\ \A n \in nodeset'[a] : newnodes'[a][n] # Unassigned
               /\ \A d \in Chare : msum'[a][d] = {newnodes'[a][n] : n \in Both(a, d)'}
    <2>1. CASE a = c
      <3>1. /\ \A n \in nodeset[c] : new[n] # Unassigned
            /\ \A d \in Chare : msum'[c][d] = {new[n] : n \in Both(c, d)}
        BY <1>1, <1>5, <2>1
      <3>2. \A d \in Chare : {newnodes'[c][n] : n \in Both(c, d)'} = {new[n] : n \in Both(c, d)}
        BY <1>2, <1>3
      <3> QED BY <1>2, <2>1, <3>1, <3>2
    <2>2. CASE a # c
      <3>1. /\ \A n \in nodeset[a] : newnodes[a][n] # Unassigned
            /\ \A d \in Chare : msum[a][d] = {newnodes[a][n] : n \in Both(a, d)}
        BY <1>1, <1>5, <2>2 DEF Finished
      <3>2. \A d \in Chare : {newnodes'[a][n] : n \in Both(a, d)'} = {newnodes[a][n] : n \in Both(a, d)}
        BY <1>2, <1>3, <2>2
      <3> QED BY <1>1, <1>2, <2>2, <3>1, <3>2
    <2> QED BY <2>1, <2>2
  <1> QED BY <1>4, <1>5 DEF Finished

LEMMA FinishedNext ==
  ASSUME TypeOK, ResponseReceipts, Map, Offsets, Requests, Positive, Awaiting, Finished, [Next]_vars
  PROVE  Finished'
  <1> DEFINE Kept == \A a \in Chare : Reorder /\ contrib'["discinserted"][a] > 0 =>
                       contrib["discinserted"][a] > 0 /\ msum'[a] = msum[a]
  <1>1. ASSUME NEW c \in Chare, ChareStep(c) PROVE Finished'
    <2>1. CASE Bnd(c)
      <3>1. PICK m \in msgs :
              /\ m.type = "bnd" /\ m.to = c
              /\ msum' = [msum EXCEPT ![c] = [d \in Chare |-> @[d] \cup m.msum[d]]]
        BY <2>1 DEF Bnd
      <3>2. m.from \in Chare /\ m \in Sent("bnd", m.from, c)
        BY <3>1, Arguments DEF Sent
      <3>3. "responded" \notin reduced
        <4>1. c \in Told(m.from)
          BY <3>2 DEF Told, Awaited
        <4> QED BY <3>2, <4>1 DEF ResponseReceipts
      <3>4. ~(contrib["discinserted"][c] > 0)
        BY <3>3 DEF Offsets, Started
      <3>5. \A a \in Chare : a # c => msum'[a] = msum[a]
        BY <3>1 DEF TypeOK
      <3>6. UNCHANGED <<nodeset, newnodes, contrib>>
        BY <2>1 DEF Bnd
      <3> QED BY <3>4, <3>5, <3>6, FinishedFrame
    <2>2. CASE EarlierStep(c) /\ ~Bnd(c)
      <3>1. /\ UNCHANGED <<nodeset, newnodes>>
            /\ \A a \in Chare : contrib'["discinserted"][a] = contrib["discinserted"][a]
        BY <2>2, Earlier
      <3>2. msum' = msum
        BY <2>2 DEF EarlierStep, Setup, Query, RecvQuery, Response, RecvBnd, Receipt
      <3> QED BY <3>1, <3>2, FinishedFrame
    <2>3. CASE Start(c)
      <3>1. UNCHANGED <<nodeset, newnodes, msum>> /\ (Reorder => UNCHANGED contrib)
        BY <2>3 DEF Start
      <3> QED BY <3>1, FinishedFrame
    <2>4. CASE Offset(c)
      <3>1. nodeset' = nodeset /\ contrib["discinserted"][c] = 0
        BY <2>4, NotYetNumbered DEF Offset
      <3>2. CASE Numbered(c)'
        <4>1. PICK new, others :
                /\ new \in [NodeId -> Int]
                /\ FinishIfNumbered(c, new, others)
                /\ \A n \in NodeId : n \notin Own(c) => new[n] = newnodes[c][n]
          BY <2>4, <3>2, OffsetNumbers
        <4>2. \A n \in NodeId : new[n] # Unassigned => n \in nodeset[c]
          BY <4>1 DEF Own, Finished
        <4>3. "responded" \in reduced
          <5>1. PICK m \in msgs : m.type = "offset" /\ m.to = c
            BY <2>4 DEF Offset
          <5>2. m.from \in Chare /\ m \in Sent("offset", m.from, c)
            BY <5>1, Arguments DEF Sent
          <5>3. Started(m.from)
            BY <5>2 DEF Offsets
          <5> QED BY <5>3 DEF Started
        <4> QED BY <3>1, <4>1, <4>2, <4>3, FinishedNumber
      <3>3. CASE ~Numbered(c)'
        <4>1. UNCHANGED <<newnodes, msum, contrib>>
          <5>1. \/ UNCHANGED <<newnodes, msum, contrib>>
                \/ noffset[c] + 1 = NChare /\ noffset' = [noffset EXCEPT ![c] = @ + 1]
            BY <2>4 DEF Offset
          <5> QED BY <3>3, <5>1 DEF Numbered, TypeOK
        <4> QED BY <3>1, <4>1, FinishedFrame
      <3> QED BY <3>2, <3>3
    <2>5. CASE NewOrder(c)
      <3>1. nodeset' = nodeset /\ contrib["discinserted"][c] = 0
        BY <2>5, NotYetNumbered DEF NewOrder
      <3>2. PICK m \in msgs :
              /\ m.type = "neworder" /\ m.to = c
              /\ FinishIfNumbered(c,
                   [n \in NodeId |-> IF n \in m.nodes THEN m.ids[n] ELSE newnodes[c][n]],
                   msgs \ {m})
        BY <2>5 DEF NewOrder
      <3>3. m.from \in Chare /\ m \in Sent("neworder", m.from, c)
            /\ m.nodes \subseteq NodeId /\ m.ids \in [NodeId -> Int]
        BY <3>2, Arguments DEF Sent
      <3> DEFINE new == [n \in NodeId |-> IF n \in m.nodes THEN m.ids[n] ELSE newnodes[c][n]]
      <3>4. new \in [NodeId -> Int]
        BY <3>3 DEF TypeOK
      <3>5. \A n \in m.nodes : n \in nodeset[c]
        BY <3>3, LowerOwned DEF Requests
      <3>6. \A n \in NodeId : new[n] # Unassigned => n \in nodeset[c]
        BY <3>5 DEF Finished
      <3>7. "responded" \in reduced
        <4>1. Numbered(c)
          BY <3>3 DEF Requests
        <4> QED BY <4>1, NumberedStarted DEF Started
      <3>8. FinishIfNumbered(c, new, msgs \ {m})
        BY <3>2
      <3> HIDE DEF new
      <3> QED BY <3>1, <3>4, <3>6, <3>7, <3>8, FinishedNumber
    <2>6. CASE Request(c) \/ Wait4Prep(c) \/ RefinerReorder(c) \/ CreateWorkers(c)
      <3>1. UNCHANGED <<nodeset, newnodes, msum>>
            /\ (UNCHANGED contrib \/ Contribute(c, "workinserted"))
        BY <2>6 DEF Request, Wait4Prep, RefinerReorder, CreateWorkers
      <3>2. \A a \in Chare : contrib'["discinserted"][a] = contrib["discinserted"][a]
        BY <3>1, Counted DEF Tag
      <3> QED BY <3>1, <3>2, FinishedFrame
    <2> QED BY <1>1, <2>1, <2>2, <2>3, <2>4, <2>5, <2>6 DEF ChareStep, EarlierStep
  <1>2. CASE (\E tag \in Tag : Reduced(tag)) \/ UNCHANGED vars
    <2>1. UNCHANGED <<nodeset, newnodes, msum, contrib>>
      BY <1>2 DEF Reduced, vars
    <2> QED BY <2>1, FinishedFrame
  <1> QED BY <1>1, <1>2 DEF Next, Quiescent

-----------------------------------------------------------------------------
(* Contributions *)

\* A chare contributes to a reduction it has not contributed to.
LEMMA FirstContribution ==
  ASSUME TypeOK, QueryReceipts, ResponseReceipts, Offsets, Requests, Awaiting, Finished,
         Contributed, NEW c \in Chare, ChareStep(c)
  PROVE  UNCHANGED contrib \/ \E tag \in Tag : Contribute(c, tag) /\ contrib[tag][c] = 0
  <1>1. \A t \in Tag : contrib[t][c] \in Nat
    BY DEF TypeOK
  <1>2. CASE RecvQuery(c)
    <2>1. PICK m \in msgs : m.type = "recvquery" /\ m.to = c
      BY <1>2 DEF RecvQuery, Receipt
    <2>2. m.from \in Chare /\ m \in Sent("recvquery", m.from, c)
      BY <2>1, Arguments DEF Sent
    <2>3. m.from \in Asked(c)
      BY <2>2 DEF Asked, Awaited
    <2>4. contrib["queried"][c] = 0
      BY <1>1, <2>3 DEF QueryReceipts, Tag
    <2> QED BY <1>2, <2>4 DEF RecvQuery, Receipt, Tag
  <1>3. CASE Response(c)
    <2>1. ~Answered(c)
      BY <1>3 DEF Response, Answered, ToCome
    <2>2. contrib["responded"][c] = 0
      BY <2>1 DEF ResponseReceipts
    <2> QED BY <1>3, <2>2 DEF Response, Tag
  <1>4. CASE RecvBnd(c)
    <2>1. PICK m \in msgs : m.type = "recvbnd" /\ m.to = c
      BY <1>4 DEF RecvBnd, Receipt
    <2>2. m.from \in Chare /\ m \in Sent("recvbnd", m.from, c)
      BY <2>1, Arguments DEF Sent
    <2>3. m.from \in Told(c)
      BY <2>2 DEF Told, Awaited
    <2>4. contrib["responded"][c] = 0
      BY <1>1, <2>3 DEF ResponseReceipts, Tag
    <2> QED BY <1>4, <2>4 DEF RecvBnd, Receipt, Tag
  <1>5. CASE Start(c)
    <2>1. ~Started(c)
      BY <1>5 DEF Start, Started, ToCome
    <2>2. contrib["discinserted"][c] = 0
      BY <1>1, <2>1 DEF Offsets, Tag
    <2> QED BY <1>5, <2>2 DEF Start, Tag
  <1>6. CASE Offset(c) \/ NewOrder(c)
    <2>1. contrib["discinserted"][c] = 0
      BY <1>6, NotYetNumbered
    <2>2. UNCHANGED contrib \/ Contribute(c, "discinserted")
      BY <1>6 DEF Offset, NewOrder, ReorderOwn, FinishIfNumbered, Finish
    <2> QED BY <2>1, <2>2 DEF Tag
  <1>7. CASE CreateWorkers(c)
    <2>1. contrib["workinserted"][c] = 0
      BY <1>7 DEF CreateWorkers, Contributed, ToCome
    <2> QED BY <1>7, <2>1 DEF CreateWorkers, Tag
  <1>8. CASE Setup(c) \/ Query(c) \/ Bnd(c) \/ Request(c) \/ Wait4Prep(c) \/ RefinerReorder(c)
    BY <1>8 DEF Setup, Query, Bnd, Request, Wait4Prep, RefinerReorder
  <1> QED BY <1>2, <1>3, <1>4, <1>5, <1>6, <1>7, <1>8 DEF ChareStep

LEMMA ContributedNext ==
  ASSUME TypeOK, QueryReceipts, ResponseReceipts, Offsets, Requests, Awaiting, Finished,
         Contributed, [Next]_vars
  PROVE  Contributed'
  <1> DEFINE create(a) == [type |-> "createWorkers", to |-> a]
  <1>1. \A a : create(a).type = "createWorkers" /\ create(a).to = a
    OBVIOUS
  <1>2. /\ \A a \in Chare : create(a) \in msgs =>
             "discinserted" \in reduced /\ contrib["workinserted"][a] = 0
        /\ "discinserted" \notin reduced => \A a \in Chare : contrib["workinserted"][a] = 0
        /\ \A t \in Tag : \A a \in Chare : contrib[t][a] <= 1 /\ contrib[t][a] \in Nat
    BY DEF Contributed, ContributesOnce, ToCome, TypeOK
  <1>3. ASSUME NEW c \in Chare, ChareStep(c) PROVE Contributed'
    <2>1. reduced' = reduced
      BY <1>3 DEF ChareStep, Setup, Query, RecvQuery, Response, Bnd, RecvBnd, Receipt, Start,
         Offset, Request, Wait4Prep, NewOrder, RefinerReorder, CreateWorkers
    <2>2. \A t \in Tag : \A a \in Chare : contrib'[t][a] <= 1
      <3>1. UNCHANGED contrib \/ \E tag \in Tag : Contribute(c, tag) /\ contrib[tag][c] = 0
        BY <1>3, FirstContribution
      <3>2. ASSUME NEW tag \in Tag, Contribute(c, tag), contrib[tag][c] = 0,
                   NEW t \in Tag, NEW a \in Chare
            PROVE  contrib'[t][a] <= 1
        <4>1. /\ contrib'[tag][c] = contrib[tag][c] + 1
              /\ t # tag \/ a # c => contrib'[t][a] = contrib[t][a]
          BY <3>2, Counted
        <4> QED BY <1>2, <3>2, <4>1
      <3> QED BY <1>2, <3>1, <3>2
    <2>3. /\ \A a \in Chare : create(a) \in msgs' => create(a) \in msgs
          /\ CreateWorkers(c) => create(c) \notin msgs' /\ create(c) \in msgs
      <3>1. CASE CreateWorkers(c)
        BY <3>1 DEF CreateWorkers
      <3>2. CASE ~CreateWorkers(c)
        <4>1. \A m : m.type = "createWorkers" => (m \in msgs' <=> m \in msgs)
          BY <1>3, <3>2, Footprint DEF ChareStep, Only
        <4> HIDE DEF create
        <4> QED BY <1>1, <3>2, <4>1
      <3> QED BY <3>1, <3>2
    <2>4. \A a \in Chare : contrib'["workinserted"][a] = contrib["workinserted"][a]
                           \/ (a = c /\ CreateWorkers(c))
      <3>1. CASE CreateWorkers(c)
        <4>1. Contribute(c, "workinserted")
          BY <3>1 DEF CreateWorkers
        <4> QED BY <3>1, <4>1, Counted DEF Tag
      <3>2. CASE ~CreateWorkers(c)
        <4>1. \/ UNCHANGED contrib \/ Contribute(c, "queried") \/ Contribute(c, "responded")
              \/ Contribute(c, "discinserted")
          BY <1>3, <3>2 DEF ChareStep, Setup, Query, RecvQuery, Response, Bnd, RecvBnd, Receipt,
             Start, Offset, Request, Wait4Prep, NewOrder, RefinerReorder, ReorderOwn,
             FinishIfNumbered, Finish
        <4> QED BY <4>1, Counted DEF Tag
      <3> QED BY <3>1, <3>2
    <2> HIDE DEF create
    <2>5. \A a \in Chare : create(a) \in msgs' =>
            "discinserted" \in reduced' /\ contrib'["workinserted"][a] = 0
      BY <1>2, <2>1, <2>3, <2>4
    <2>6. "discinserted" \notin reduced' => \A a \in Chare : contrib'["workinserted"][a] = 0
      BY <1>2, <2>1, <2>3, <2>4
    <2> QED BY <2>2, <2>5, <2>6 DEF create, Contributed, ContributesOnce, ToCome
  <1>4. ASSUME NEW tag \in Tag, Reduced(tag) PROVE Contributed'
    <2>1. /\ tag \notin reduced /\ reduced' = reduced \cup {tag} /\ contrib' = contrib
          /\ \A a \in Chare : create(a) \in msgs' => create(a) \in msgs \/ tag = "discinserted"
      BY <1>4 DEF Reduced, FollowUp
    <2> HIDE DEF create
    <2>2. \A a \in Chare : create(a) \in msgs' =>
            "discinserted" \in reduced' /\ contrib'["workinserted"][a] = 0
      BY <1>2, <2>1
    <2>3. "discinserted" \notin reduced' => \A a \in Chare : contrib'["workinserted"][a] = 0
      BY <1>2, <2>1
    <2> QED BY <1>2, <2>1, <2>2, <2>3 DEF create, Contributed, ContributesOnce, ToCome
  <1>5. CASE UNCHANGED vars
    BY <1>5 DEF vars, Contributed, ContributesOnce, ToCome
  <1> QED BY <1>3, <1>4, <1>5 DEF Next, Quiescent

-----------------------------------------------------------------------------
LEMMA InitInv == Init => Inv
  <1> SUFFICES ASSUME Init PROVE Inv
    OBVIOUS
  <1>1. \A m \in msgs : m.type = "setup"
    BY DEF Init
  <1>2. Positive
    BY <1>1 DEF Positive, Init
  <1>3. \A t \in Exchanged : \A a, b \in Chare : Sent(t, a, b) = {}
    BY <1>1 DEF Sent, Exchanged
  <1>4. /\ \A a \in Chare : owned[a] = 0 /\ noffset[a] = 0 /\ reqnodes[a] = {}
        /\ \A a \in Chare : \A n \in NodeId : newnodes[a][n] = Unassigned
        /\ \A t \in Tag : \A a \in Chare : contrib[t][a] = 0
    BY DEF Init
  <1>5. Answers
    BY <1>3, <1>4 DEF Answers, Exchanged, Numbered
  <1>6. Awaiting
    BY <1>3, <1>4 DEF Awaiting, OnePlace, Awaits, Queued, Exchanged
  <1>7. Finished
    BY <1>4 DEF Finished, Tag
  <1>8. Contributed
    <2>1. \A a \in Chare : ~ToCome("createWorkers", a)
      <3>1. \A a : [type |-> "createWorkers", to |-> a].type = "createWorkers"
        OBVIOUS
      <3> QED BY <1>1, <3>1 DEF ToCome
    <2> QED BY <1>4, <2>1 DEF Contributed, ContributesOnce, Tag
  <1> QED BY <1>2, <1>5, <1>6, <1>7, <1>8, InitExchanges DEF Inv

\* Every step keeps the invariant.
LEMMA NextInv ==
  ASSUME TypeOK, Inv, [Next]_vars
  PROVE  Inv'
  <1>1. /\ Exchanges /\ Positive /\ Answers /\ Awaiting /\ Finished /\ Contributed
        /\ QueryReceipts /\ ResponseReceipts /\ Map /\ Offsets /\ Requests
    BY DEF Inv, Exchanges
  <1>2. Exchanges'
    BY <1>1, NextExchanges
  <1>3. Positive'
    BY <1>1, PositiveNext
  <1>4. Answers'
    BY <1>1, AnswersNext
  <1>5. Awaiting'
    BY <1>1, AwaitingNext
  <1>6. Finished'
    BY <1>1, FinishedNext
  <1>7. Contributed'
    BY <1>1, ContributedNext
  <1> QED BY <1>2, <1>3, <1>4, <1>5, <1>6, <1>7 DEF Inv

\* What the exchanges of Sorter have reached, and what is in flight, fit together in
\* every state, whatever the mesh and the order of delivery.
THEOREM Invariant == Spec => []Inv
  <1>1. Init => TypeOK /\ Inv
    BY InitTypeOK, InitInv
  <1>2. TypeOK /\ Inv /\ [Next]_vars => TypeOK' /\ Inv'
    BY NextTypeOK, NextInv
  <1> QED BY <1>1, <1>2, PTL DEF Spec

\* Each chare knows exactly the nodes it shares with each other chare, from the end of
\* the exchange on and through its own renumbering (Sorter::bnd, finish).
THEOREM MapCorrect == Spec => []CommunicationMap
  <1>1. ASSUME TypeOK, Inv PROVE CommunicationMap
    <2> SUFFICES ASSUME "responded" \in reduced, NEW c \in Chare, NEW d \in Chare
                 PROVE  msum[c][d] = IF c = d THEN {} ELSE Ids(c, nodeset[c] \cap nodeset[d])
      BY DEF CommunicationMap
    <2>1. CASE Reorder /\ HandedOver(c)
      <3>1. msum[c][d] = {newnodes[c][n] : n \in Both(c, d)}
        BY <1>1, <2>1 DEF Inv, Finished, HandedOver
      <3>2. CASE c = d
        <4>1. Both(c, d) = {}
          BY <3>2 DEF Both
        <4> QED BY <3>1, <3>2, <4>1
      <3>3. CASE c # d
        <4>1. Both(c, d) = nodeset[c] \cap nodeset[d]
          BY <3>3 DEF Both
        <4> QED BY <2>1, <3>1, <3>3, <4>1 DEF Ids
      <3> QED BY <3>2, <3>3
    <2>2. CASE ~(Reorder /\ HandedOver(c))
      <3>1. contrib["discinserted"][c] \in Nat
        BY <1>1 DEF TypeOK, Tag
      <3>2. contrib["discinserted"][c] = 0 \/ ~Reorder
        BY <2>2, <3>1 DEF HandedOver
      <3>3. msum[c][d] = Both(c, d)
        BY <1>1, <3>2, MapExact DEF Inv, Exchanges
      <3> QED BY <2>2, <3>3 DEF Both, Ids
    <2> QED BY <2>1, <2>2
  <1> QED BY <1>1, Invariant, TypeCorrect, PTL

\* prepare() never looks for an id that is not there: a node is asked for where it is
\* numbered, and answered after that (Sorter::mask, reorder, request, prepare).
THEOREM AllServed == Spec => []RequestsServed
  <1>1. ASSUME TypeOK, Inv PROVE RequestsServed
    <2> SUFFICES ASSUME NEW m \in msgs, m.type = "neworder", NEW n \in m.nodes
                 PROVE  m.ids[n] # Unassigned
      BY DEF RequestsServed
    <2>1. m.from \in Chare /\ m.to \in Chare /\ m \in Sent("neworder", m.from, m.to)
      BY <1>1, Arguments DEF Sent
    <2> QED BY <1>1, <2>1 DEF Inv, Answers
  <1> QED BY <1>1, Invariant, TypeCorrect, PTL

\* The reductions of the array stay in step: receipts are counted once, and finish()
\* runs once (Sorter::recvquery, response, recvbnd, finish, createWorkers).
THEOREM OneContribution == Spec => []ContributesOnce
  <1>1. Inv => ContributesOnce
    BY DEF Inv, Contributed
  <1> QED BY <1>1, Invariant, PTL
=============================================================================
