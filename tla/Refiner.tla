------------------------------- MODULE Refiner -------------------------------
(***************************************************************************)
(* Refinement of a distributed mesh: src/Inciter/Refiner.C and the         *)
(* reduction targets of Transporter.C it uses.  Every chare marks edges of *)
(* its own mesh (module AMR); then chares that share edges exchange what   *)
(* they want, until nobody changes anything any more, and all refine.      *)
(*                                                                         *)
(* m_localEdgeData mirrors the edges of the refinement library whenever it *)
(* is used, so the mesh stands for both; m_intermediates does not.         *)
(* Execution starts where the boundary edges are first exchanged (start)   *)
(* and ends after the last refinement of the list.                         *)
(***************************************************************************)
EXTENDS AMR

CONSTANTS
  NChare,       \* number of chares
  Mesh,         \* the tetrahedra of each chare
  InitRefs,     \* the lists of refinements: each "uniform" or "error"
  MaxTagged     \* bound on the edges each chare tags for their error in each refinement

Chare == 0 .. (NChare - 1)

ASSUME RefinerAssumption ==
  /\ NChare \in Nat \ {0}
  /\ Mesh \in [Chare -> Seq(Seq(0 .. NNode - 1))]
  /\ InitRefs \subseteq Seq({"uniform", "error"}) \ {<<>>}
  /\ \A r \in InitRefs : \A k \in DOMAIN r : MaxTagged[k] \in [Chare -> Nat]

VARIABLES
  msgs,      \* calls on their way
  contrib,   \* contributions no reduction has taken yet, in order: target, and whether
             \* the chare changed anything
  mesh,      \* m_refiner
  ch,        \* m_ch: chares an edge is shared with
  inter,     \* m_intermediates: intermediate nodes to send
  remote,    \* m_remoteEdgeData: edges as others sent them
  heard,     \* m_nref
  initref,   \* m_initref: refinements to make
  step       \* refinements done

vars == <<msgs, contrib, mesh, ch, inter, remote, heard, initref, step>>

Broadcast(type) == {[type |-> type, to |-> i] : i \in Chare}
Is(m, type, i) == m \in msgs /\ m.type = type /\ m.to = i

Sends(m, ms) == msgs' = (msgs \ {m}) \cup ms
Contributes(i, target, changed) ==
  contrib' = [contrib EXCEPT ![i] = Append(@, [target |-> target, changed |-> changed])]

-----------------------------------------------------------------------------
\* Refiner::Refiner, t0ref
Init ==
  /\ msgs = Broadcast("start")
  /\ contrib = [i \in Chare |-> <<>>]
  /\ mesh = [i \in Chare |-> Consume(Mesh[i])]
  /\ ch = [i \in Chare |-> {}]
  /\ inter = [i \in Chare |-> {}]
  /\ remote = [i \in Chare |-> {}]
  /\ heard = [i \in Chare |-> 0]
  /\ \E r \in InitRefs : initref = [i \in Chare |-> r]
  /\ step = [i \in Chare |-> 0]

\* start, bndEdges
Start(i, m) ==
  /\ Is(m, "start", i)
  /\ ch' = [ch EXCEPT ![i] = {}]
  /\ remote' = [remote EXCEPT ![i] = {}]
  /\ inter' = [inter EXCEPT ![i] = mesh[i].inter]
  /\ Contributes(i, "bndEdges", FALSE)
  /\ Sends(m, {})
  /\ UNCHANGED <<mesh, heard, initref, step>>

\* Edges of the faces only one tetrahedron has.
BndEdges(m) ==
  LET Faces(t) == {{f[1], f[2], f[3]} : f \in {FaceList(m.tet[t].node)[k] : k \in 1 .. 4}}
      outer == {f \in UNION {Faces(t) : t \in m.active} : Cardinality({t \in m.active : f \in Faces(t)}) = 1}
  IN  {e \in DOMAIN m.lock : \E f \in outer : e \subseteq f}

\* addBndEdges
AddBndEdges(i, m) ==
  /\ Is(m, "addBndEdges", i)
  /\ ch' = [ch EXCEPT ![i] = {j \in Chare \ {i} : BndEdges(mesh[i]) \cap BndEdges(mesh[j]) # {}}]
  /\ Contributes(i, "edges", FALSE)
  /\ Sends(m, {})
  /\ UNCHANGED <<mesh, inter, remote, heard, initref, step>>

\* The edges chare i, whose mesh is me, has to correct: those not all agree on.  An
\* edge somebody locked is locked for all and not refined, otherwise it is refined if
\* anybody wants it.
Shared(i, me) == {e \in DOMAIN me.lock : \E r \in remote[i] : e \in DOMAIN r.lock}
LockOf(i, me, e) ==
  LET locks == {me.lock[e]} \cup {r.lock[e] : r \in {s \in remote[i] : e \in DOMAIN s.lock}}
  IN  CHOOSE l \in locks : \A k \in locks : k <= l
Wanted(i, me, e) == LockOf(i, me, e) = Unlocked /\ (e \in me.needs \/ \E r \in remote[i] : e \in r.needs)
Extra(i, me) ==
  {e \in Shared(i, me) :
     \E r \in {[needs |-> me.needs, lock |-> me.lock]} \cup remote[i] :
       e \in DOMAIN r.lock /\ ~(r.lock[e] = LockOf(i, me, e) /\ (e \in r.needs <=> Wanted(i, me, e)))}

\* Mutant of Correct: m_remoteEdgeData is not cleared.
CorrectKeeping(i, me) ==
  LET extra == Extra(i, me)
      new == IF extra = {} THEN me
             ELSE MarkCorrected(me, {e \in extra : Wanted(i, me, e)}, [e \in extra |-> LockOf(i, me, e)])
  IN  /\ mesh' = [mesh EXCEPT ![i] = new]
      /\ inter' = [inter EXCEPT ![i] = IF extra = {} THEN @ ELSE new.inter]
      /\ UNCHANGED remote
      /\ Contributes(i, "matched", extra # {})

\* correctref of chare i, whose mesh is me
Correct(i, me) ==
  LET extra == Extra(i, me)
      new == IF extra = {} THEN me
             ELSE MarkCorrected(me, {e \in extra : Wanted(i, me, e)}, [e \in extra |-> LockOf(i, me, e)])
  IN  /\ mesh' = [mesh EXCEPT ![i] = new]
      /\ inter' = [inter EXCEPT ![i] = IF extra = {} THEN @ ELSE new.inter]
      /\ remote' = [remote EXCEPT ![i] = {}]
      /\ Contributes(i, "matched", extra # {})

\* comExtra of chare i, whose mesh is me and whose intermediate nodes are known
ComExtra(i, m, me, known) ==
  IF ch[i] = {}
  THEN Correct(i, me) /\ Sends(m, {})
  ELSE /\ Sends(m, {[type |-> "addRefBndEdges", to |-> j, from |-> i,
                     needs |-> me.needs, lock |-> me.lock, inter |-> known] : j \in ch[i]})
       /\ mesh' = [mesh EXCEPT ![i] = me]
       /\ inter' = [inter EXCEPT ![i] = known]
       /\ UNCHANGED <<contrib, remote>>

\* refine, uniformRefine; refine, errorRefine: the edges the error is large at
MarkAndSend(i, m, new) ==
  /\ Is(m, "refine", i)
  /\ ComExtra(i, m, new, new.inter)
  /\ UNCHANGED <<ch, heard, initref, step>>
UniformRefine(i, m) == Head(initref[i]) = "uniform" /\ MarkAndSend(i, m, MarkUniform(mesh[i]))
ErrorRefine(i, m, tagged) ==
  /\ Head(initref[i]) = "error"
  /\ MarkAndSend(i, m, MarkError(mesh[i], tagged))

ComExtraAgain(i, m) ==
  /\ Is(m, "comExtra", i)
  /\ ComExtra(i, m, mesh[i], inter[i])
  /\ UNCHANGED <<ch, heard, initref, step>>

\* addRefBndEdges: whoever of the neighbours is heard last makes the chare mark again.
Nodes(m) == UNION {{m.tet[t].node[k] : k \in 1 .. 4} : t \in DOMAIN m.tet}
AddRefBndEdges(i, m) ==
  LET got == [mesh[i] EXCEPT !.inter = @ \cup (m.inter \cap Nodes(mesh[i]))]
      new == MarkRefinement(LockIntermediates(got))
      last == heard[i] + 1 = Cardinality(ch[i])
  IN  /\ Is(m, "addRefBndEdges", i)
      /\ remote' = [remote EXCEPT ![i] = @ \cup {[needs |-> m.needs, lock |-> m.lock]}]
      /\ heard' = [heard EXCEPT ![i] = IF last THEN 0 ELSE @ + 1]
      /\ mesh' = [mesh EXCEPT ![i] = IF last THEN new ELSE got]
      /\ IF last
         THEN /\ inter' = [inter EXCEPT ![i] = new.inter]
              /\ Contributes(i, "compatibility", <<new.needs, new.lock>> # <<mesh[i].needs, mesh[i].lock>>)
         ELSE UNCHANGED <<inter, contrib>>
      /\ Sends(m, {})
      /\ UNCHANGED <<ch, initref, step>>

CorrectRef(i, m) ==
  /\ Is(m, "correctref", i)
  /\ Correct(i, mesh[i])
  /\ Sends(m, {})
  /\ UNCHANGED <<ch, heard, initref, step>>

\* eval, next: refine, and start the next refinement of the list, if any.
Eval(i, m) ==
  /\ Is(m, "eval", i)
  /\ mesh' = [mesh EXCEPT ![i] = PerformRefinement(@)]
  /\ initref' = [initref EXCEPT ![i] = Tail(@)]
  /\ step' = [step EXCEPT ![i] = @ + 1]
  /\ Sends(m, IF Len(initref[i]) > 1 THEN {[type |-> "start", to |-> i]} ELSE {})
  /\ UNCHANGED <<contrib, ch, inter, remote, heard>>

\* Mutant of Follows: refine after the first correction.
FollowsAtOnce(target, changed) ==
  CASE target = "bndEdges" -> "addBndEdges"
    [] target = "edges" -> "refine"
    [] target = "compatibility" -> IF changed THEN "comExtra" ELSE "correctref"
    [] target = "matched" -> "eval"

\* What follows a reduction: Transporter::edges, compatibility, matched.
Follows(target, changed) ==
  CASE target = "bndEdges" -> "addBndEdges"
    [] target = "edges" -> "refine"
    [] target = "compatibility" -> IF changed THEN "comExtra" ELSE "correctref"
    [] target = "matched" -> IF changed THEN "comExtra" ELSE "eval"

\* All chares have contributed.
Reduction ==
  \E target \in {"bndEdges", "edges", "compatibility", "matched"} :
    /\ \A i \in Chare : contrib[i] # <<>> /\ Head(contrib[i]).target = target
    /\ contrib' = [i \in Chare |-> Tail(contrib[i])]
    /\ msgs' = msgs \cup Broadcast(Follows(target, \E i \in Chare : Head(contrib[i]).changed))
    /\ UNCHANGED <<mesh, ch, inter, remote, heard, initref, step>>

Exit == msgs = {} /\ (\A i \in Chare : contrib[i] = <<>>) /\ UNCHANGED vars

\* The sets of up to MaxTagged edges of the mesh of chare i.
ActiveEdges(m) == UNION {EdgesOf(m, t) : t \in m.active}
Taggable(i) ==
  LET n == MaxTagged[step[i] + 1][i]
  IN  {{}} \cup {{f[k] : k \in 1 .. n} : f \in [1 .. n -> ActiveEdges(mesh[i])]}

Next ==
  \/ \E m \in msgs :
       \/ Start(m.to, m)
       \/ AddBndEdges(m.to, m)
       \/ UniformRefine(m.to, m)
       \/ m.type = "refine" /\ \E tagged \in Taggable(m.to) : ErrorRefine(m.to, m, tagged)
       \/ ComExtraAgain(m.to, m)
       \/ AddRefBndEdges(m.to, m)
       \/ CorrectRef(m.to, m)
       \/ Eval(m.to, m)
  \/ Reduction
  \/ Exit

Spec == Init /\ [][Next]_vars

\* Weak fairness of Next, with its enabledness spelled out: calls are taken, and
\* reductions all have contributed to are made.
Work == msgs # {} \/ \A i \in Chare : contrib[i] # <<>>
FairSpec == Spec /\ (<>[]Work => []<><<TRUE>>_vars)

-----------------------------------------------------------------------------
\* About to refine: the reduction of matched has called eval.
Decided == {m.to : m \in {k \in msgs : k.type = "eval"}}

\* Chares that are about to refine agree on every edge they share: whether it is
\* split, and its lock.  (correctref: "until there is not a single edge that needs
\* correction for the whole distributed problem".)
EdgesAgree ==
  \A i, j \in Decided :
    \A e \in DOMAIN mesh[i].lock \cap DOMAIN mesh[j].lock :
      /\ mesh[i].lock[e] = mesh[j].lock[e]
      /\ e \in mesh[i].needs <=> e \in mesh[j].needs

\* The last decision on a tetrahedron was made with the edges as they are when it is
\* refined, whatever other tetrahedra and chares marked and locked since: what its
\* edges say is what refine_one_to_two and its like split (check_allowed_refinement,
\* find_single_refinement_nodes).
DecisionsFit ==
  \A i \in Decided : \A t \in mesh[i].active :
    LET m == mesh[i]
        marked == EdgesOf(m, t) \cap m.needs
        faces == {FaceEdges(FaceList(m.tet[t].node)[f]) : f \in 1 .. 4}
        split == m.tet[t].case \in {"one_to_two", "one_to_four"}
    IN  /\ marked = With(m, marked, Unlocked)
        /\ CASE m.tet[t].mark = "one_to_two" -> ~split /\ Cardinality(marked) = 1
             [] m.tet[t].mark = "one_to_four" -> ~split /\ marked \in faces
             [] m.tet[t].mark = "one_to_eight" -> ~split /\ marked = EdgesOf(m, t)
             [] m.tet[t].mark \in {"two_to_eight", "four_to_eight"} ->
                  \A k \in Children(m, m.tet[t].parent) : Valid(m, k)
             [] OTHER -> marked = {}

\* After a refinement no node of any chare hangs on an edge of another or of the same
\* chare ("yields a conforming mesh across chare boundaries").
Conforming ==
  LET ActiveNodes(m) == UNION {{m.tet[t].node[k] : k \in 1 .. 4} : t \in m.active}
      AllAt(n) == \A i \in Chare : step[i] = n
  IN  AllAt(step[0]) =>
        \A i, j \in Chare : \A e \in ActiveEdges(mesh[i]) :
          {Mid(a, b) : <<a, b>> \in {p \in e \X e : p[1] # p[2]}} \cap ActiveNodes(mesh[j]) = {}

\* The chares come to agree, and make all refinements.
Completes == <>[](\A i \in Chare : initref[i] = <<>>)
=============================================================================
