--------------------------- MODULE SorterInvariant ---------------------------
(***************************************************************************)
(* The inductive invariant behind the theorems of SorterProofs: what       *)
(* holds between the calls in flight and the maps of the chares in the     *)
(* middle of each exchange of Sorter.                                      *)
(***************************************************************************)
EXTENDS Sorter

\* The call of a kind broadcast by the host is still to reach c.
ToCome(type, c) == [type |-> type, to |-> c] \in msgs

\* Calls of a kind from chare c to chare d.
Sent(type, c, d) == {m \in msgs : m.type = type /\ m.from = c /\ m.to = d}

\* A call and its receipt are never both on the way, and neither is twice.
OneOf(type, receipt, c, d) ==
  /\ \A m1, m2 \in Sent(type, c, d) : m1 = m2
  /\ Sent(type, c, d) # {} => Sent(receipt, d, c) = {}

\* Chares whose receipt for a call of c still awaits.
Awaited(type, receipt, c) ==
  {d \in Chare : Sent(type, c, d) # {} \/ Sent(receipt, d, c) # {}}

-----------------------------------------------------------------------------
\* Chares whose receipt for a query c still awaits.
Asked(c) == Awaited("query", "recvquery", c)

\* setup() ... queried: m_nbnd counts the receipts of queries to come.
QueryReceipts ==
  /\ \A c, b \in Chare : OneOf("query", "recvquery", c, b)
  /\ \A c \in Chare :
       /\ ToCome("setup", c) => Asked(c) = {} /\ contrib["queried"][c] = 0
       /\ contrib["queried"][c] = 0 /\ ~ToCome("setup", c) =>
            nbnd[c] = Cardinality(Asked(c))
       /\ contrib["queried"][c] > 0 => Asked(c) = {}
  /\ "queried" \in reduced => \A c \in Chare : contrib["queried"][c] > 0

\* Every shared node is on its way to the chare of its bin or filed there, and
\* nothing but nodes of a chare is filed for it.
Table ==
  /\ \A b, c \in Chare : \A m \in Sent("query", c, b) : m.nodes \subseteq nodeset[c]
  /\ \A b, c \in Chare : chnode[b][c] \subseteq nodeset[c]
  /\ "responded" \notin reduced =>
       \A c \in Chare : \A n \in Shared(c) :
         \/ ToCome("setup", c)
         \/ \E m \in Sent("query", c, Bin(n)) : n \in m.nodes
         \/ n \in chnode[Bin(n)][c]

-----------------------------------------------------------------------------
\* Chare b has answered the queries filed with it.
Answered(b) == "queried" \in reduced /\ ~ToCome("response", b)

\* Chares whose receipt for a part of the communication map b still awaits.
Told(b) == Awaited("bnd", "recvbnd", b)

\* response() ... responded: m_nbnd counts the receipts of answers to come.
ResponseReceipts ==
  /\ \A b, c \in Chare : OneOf("bnd", "recvbnd", b, c)
  /\ \A b \in Chare :
       /\ ToCome("response", b) => "queried" \in reduced
       /\ ~Answered(b) => Told(b) = {} /\ contrib["responded"][b] = 0
       /\ Answered(b) /\ contrib["responded"][b] = 0 => nbnd[b] = Cardinality(Told(b))
       /\ contrib["responded"][b] > 0 => Told(b) = {}
  /\ "responded" \in reduced => \A b \in Chare : contrib["responded"][b] > 0

\* Nodes c and d share.
Both(c, d) == IF c = d THEN {} ELSE nodeset[c] \cap nodeset[d]

\* Every shared node an answer was given about is on its way or in m_msum, which
\* holds shared nodes only, until the chare renumbers it.
Map ==
  /\ \A b, c, d \in Chare : \A m \in Sent("bnd", b, c) : m.msum[d] \subseteq Both(c, d)
  /\ \A c, d \in Chare : contrib["discinserted"][c] = 0 \/ ~Reorder =>
       /\ msum[c][d] \subseteq Both(c, d)
       /\ \A n \in Both(c, d) :
            Answered(Bin(n)) =>
              n \in msum[c][d] \/ \E m \in Sent("bnd", Bin(n), c) : n \in m.msum[d]

-----------------------------------------------------------------------------
\* Chare c has computed what lower chares number for it.
Started(c) == "responded" \in reduced /\ ~ToCome("start", c)

\* Chare d is the lowest with node n: the one to number it.
Owns(d, n) == n \in nodeset[d] /\ \A e \in Chare : e < d => n \notin nodeset[e]

\* Chares whose number of ids has reached c.
Heard(c) == {d \in Chare : Started(d) /\ Sent("offset", d, c) = {}}

\* start() ... reorder(): the map of lower chares holds what they own, and all
\* chares have started when the last number arrives.
Offsets ==
  /\ \A c \in Chare : ToCome("start", c) => "responded" \in reduced
  /\ \A c, d \in Chare :
       /\ \A m1, m2 \in Sent("offset", c, d) : m1 = m2
       /\ Sent("offset", c, d) # {} => Reorder /\ Started(c)
       /\ reordcomm[c][d] = IF Reorder /\ Started(c)
                            THEN {n \in nodeset[c] : d < c /\ Owns(d, n)}
                            ELSE {}
  /\ \A c \in Chare : noffset[c] = IF Reorder THEN Cardinality(Heard(c)) ELSE 0
  /\ \A c \in Chare : contrib["discinserted"][c] > 0 =>
       Started(c) /\ (Reorder => noffset[c] = NChare)

\* Chare c has numbered its own nodes.
Numbered(c) == noffset[c] = NChare

\* A request and its answer are about nodes the asked chare owns.
Requests ==
  /\ \A c \in Chare : ~Numbered(c) => \A n \in NodeId : newnodes[c][n] = Unassigned
  /\ \A c, d \in Chare : \A m \in Sent("request", c, d) :
       Numbered(c) /\ m.nodes \subseteq reordcomm[c][d]
  /\ \A d \in Chare : \A r \in reqnodes[d] :
       Numbered(r.from) /\ r.nodes \subseteq reordcomm[r.from][d]
  /\ \A c, d \in Chare : \A m \in Sent("neworder", d, c) :
       Numbered(c) /\ m.nodes \subseteq reordcomm[c][d]

\* The owner of node n knows id i of it.
OwnerKnows(n, i) == \E d \in Chare : Owns(d, n) /\ newnodes[d][n] = i

\* Every id a chare knows, or is about to know, the owner of the node knows.
OwnersKnow ==
  /\ \A c \in Chare : \A n \in NodeId :
       newnodes[c][n] # Unassigned => OwnerKnows(n, newnodes[c][n])
  /\ \A c, d \in Chare : \A m \in Sent("neworder", d, c) : \A n \in m.nodes :
       m.ids[n] # Unassigned => OwnerKnows(n, m.ids[n])

\* The numbers chares announce, and what they add up to, are not negative: no id
\* is taken for Unassigned.
Positive ==
  /\ \A m \in msgs : m.type = "offset" => m.num >= 0
  /\ \A c \in Chare : nextid[c] >= 0

\* A chare that runs prepare() knows an id of every node it owns, and answers have
\* an id of every node asked for.
Answers ==
  /\ \A c \in Chare : owned[c] > 0 => Numbered(c)
  /\ \A c \in Chare : Numbered(c) =>
       \A n \in NodeId : Owns(c, n) => newnodes[c][n] # Unassigned
  /\ \A c, d \in Chare : \A m \in Sent("neworder", d, c) : \A n \in m.nodes :
       m.ids[n] # Unassigned

\* Requests of chare c queued at chare d.
Queued(c, d) == {r \in reqnodes[d] : r.from = c}

\* What chare c asks of chare d is in one place: on its way, queued, or answered.
OnePlace(c, d) ==
  /\ \A m1, m2 \in Sent("request", c, d) : m1 = m2
  /\ \A r1, r2 \in Queued(c, d) : r1 = r2
  /\ \A m1, m2 \in Sent("neworder", d, c) : m1 = m2
  /\ Sent("request", c, d) # {} => Queued(c, d) = {} /\ Sent("neworder", d, c) = {}
  /\ Queued(c, d) # {} => Sent("neworder", d, c) = {}

\* Chare c awaits ids from chare d.
Awaits(c, d) ==
  Sent("request", c, d) # {} \/ Queued(c, d) # {} \/ Sent("neworder", d, c) # {}

\* While a chare awaits ids it knows none of them, and there is at least one.
Awaiting ==
  \A c, d \in Chare :
    /\ OnePlace(c, d)
    /\ Awaits(c, d) => \A n \in reordcomm[c][d] : newnodes[c][n] = Unassigned
    /\ \A m \in Sent("request", c, d) : m.nodes # {}
    /\ \A r \in Queued(c, d) : r.nodes # {}
    /\ \A m \in Sent("neworder", d, c) : m.nodes # {}

\* A chare gets to know ids of its own nodes only; once it has handed over, it knows
\* all of them, and its communication map is in the new ids.
Finished ==
  /\ \A c \in Chare : \A n \in NodeId :
       newnodes[c][n] # Unassigned => n \in nodeset[c]
  /\ \A c \in Chare : Reorder /\ contrib["discinserted"][c] > 0 =>
       /\ \A n \in nodeset[c] : newnodes[c][n] # Unassigned
       /\ \A d \in Chare : msum[c][d] = {newnodes[c][n] : n \in Both(c, d)}

\* A chare contributes once to each reduction, to the last one when asked to.
Contributed ==
  /\ ContributesOnce
  /\ \A c \in Chare : ToCome("createWorkers", c) =>
       "discinserted" \in reduced /\ contrib["workinserted"][c] = 0
  /\ "discinserted" \notin reduced => \A c \in Chare : contrib["workinserted"][c] = 0

-----------------------------------------------------------------------------
\* The part of the invariant that shows that chares agree on ids.
Exchanges ==
  /\ QueryReceipts /\ Table /\ ResponseReceipts /\ Map
  /\ Offsets /\ Requests /\ OwnersKnow

\* Receipts are counted exactly, the distributed table, the communication map and
\* the map of lower chares' nodes are complete but for what is in flight, and ids
\* come from the lowest chare with a node; a request is in one place until it is
\* answered with ids, and a chare hands over and contributes with all of them known:
\* what relates the state of different chares in the middle of the exchanges (all
\* entry methods of Sorter.C from setup() to createWorkers()).
Inv ==
  /\ Exchanges
  /\ Positive /\ Answers /\ Awaiting /\ Finished /\ Contributed
=============================================================================
