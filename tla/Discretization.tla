--------------------------- MODULE Discretization ---------------------------
(***************************************************************************)
(* What the workers of all discretization schemes share: the base class of *)
(* src/Inciter/Discretization.C with the time step, nodal volumes and      *)
(* field output of a mesh chunk, the targets of src/Inciter/Transporter.C  *)
(* during time stepping, and MeshWriter.C.                                 *)
(*                                                                         *)
(* The mesh nodes on the boundary between chares get contributions from    *)
(* each chare that holds them.  A contribution, whose value is left out,   *)
(* is known by the chare, time step and mesh it was computed from; a field *)
(* (m_vol, m_lhs, m_rhs, ...) and a communication buffer (m_volc, m_lhsc,  *)
(* m_rhsc, ...) is the set of contributions added to it.                   *)
(*                                                                         *)
(* Execution starts where the workers are created.  How the Refiner agrees *)
(* on a new mesh is left to module Refiner: here a refinement is a         *)
(* reduction followed by the new mesh on every chare.                      *)
(***************************************************************************)
EXTENDS Charm

CONSTANTS
  Kind,         \* the fields assembled at mesh nodes, "vol" among them
  Nbr,          \* keys of Msum(): the chares each chare shares mesh nodes with
  NStep,        \* nstep: number of time steps
  Dtref,        \* whether the mesh is refined during time stepping (amr dtref)
  DtFreq,       \* dtfreq: refine after every DtFreq-th step
  DiagFreq,     \* interval diag: diagnostics after every DiagFreq-th step
  FieldFreq,    \* interval field: field output after every FieldFreq-th step
  LbFreq,       \* lbfreq: load balancing after every LbFreq-th step
  Nonblocking   \* time stepping goes on during load balancing

ASSUME DiscretizationAssumption ==
  /\ "vol" \in Kind
  /\ Nbr \in [Chare -> SUBSET Chare]
  /\ \A i, j \in Chare : i \in Nbr[j] => j \in Nbr[i] /\ i # j
  /\ {NStep, DtFreq, DiagFreq, FieldFreq, LbFreq} \subseteq Nat \ {0}
  /\ {Dtref, Nonblocking} \subseteq BOOLEAN

VARIABLES
  it,           \* m_it: number of time steps done
  itr,          \* m_itr: number of meshes before this one
  itf,          \* m_itf: number of field outputs on this mesh
  lastDump,     \* m_lastDumpTime, as the number of time steps done then
  file,         \* what was written to the field output files of each chare
  refined,      \* m_refined: the mesh is refined after this step
  field,        \* contributions in each field
  buf,          \* contributions in each communication buffer
  count,        \* m_nvol, m_nlhs, ...: neighbours heard from
  finished      \* Transporter::finish was called

stepVars == <<it, itr, finished>>
fileVars == <<itf, lastDump, file>>
nodeVars == <<field, buf, count>>
discVars == <<charmVars, stepVars, fileVars, refined, nodeVars>>

own(x) == <<"own", x>>      \* own..._complete()
com(x) == <<"com", x>>      \* com..._complete()
done(x) == <<"done", x>>    \* diag_complete(), ref_complete(), ...

\* The wait of the Transporter for a new mesh.
ResizeNeeds == {done("disc"), done("work")}

\* The arrays bound to each other, and the one load balancing works on.
Array == {"disc", "worker", "refiner", "sync"}

\* The mesh is refined after step n.
Refines(n) == Dtref /\ n % DtFreq = 0

\* Number of meshes before the one that step n + 1 is made on.
MeshOf(n) == IF Dtref THEN n \div DtFreq ELSE 0

\* Call m is to chare i and of the given type.
Is(m, type, i) == m \in msgs /\ m.type = type /\ m.to = i

-----------------------------------------------------------------------------
\* What is computed again for each mesh only.
MeshKind == {"vol", "lhs"}

\* The contribution chare i computes to a field of kind x, now.
Part(i, x) ==
  [from |-> i, it |-> IF x \in MeshKind THEN itr[i] * DtFreq ELSE it[i], itr |-> itr[i]]

\* The calls com...() that send it to the neighbours.
ComCalls(i, x) ==
  {[type |-> "com", kind |-> x, to |-> j, part |-> Part(i, x)] : j \in Nbr[i]}

\* Own contributions are computed: sent to the neighbours, signalled.
Sends(i, x) ==
  Calls(ComCalls(i, x)) ++ Triggers({own(x)} \cup (IF Nbr[i] = {} THEN {com(x)} ELSE {}))

\* Fields of the kinds in xs hold the own contributions, and those of zs nothing yet.
Compute(f, i, xs) == [x \in Kind |-> IF x \in xs THEN {Part(i, x)} ELSE f[x]]
Accumulate(f, i, xs) == [x \in Kind |-> IF x \in xs THEN f[x] \cup {Part(i, x)} ELSE f[x]]
Zero(f, zs) == [x \in Kind |-> IF x \in zs THEN {} ELSE f[x]]

\* The buffers of the kinds in xs are added to the fields.
Combine(i, xs) == [x \in Kind |-> IF x \in xs THEN field[i][x] \cup buf[i][x] ELSE field[i][x]]

\* Mutant of Heard: the counter is not reset.
HeardCounting(i, x, m, n, e) ==
  /\ count' = [count EXCEPT ![i][x] = @ + 1]
  /\ Take(i, m, IF count'[i][x] = n THEN e ELSE Nothing)

\* The counter of kind x of chare i when call m comes from one of n chares; the last one
\* has effect e.
Heard(i, x, m, n, e) ==
  LET last == count[i][x] + 1 = n
  IN  /\ count' = [count EXCEPT ![i][x] = IF last THEN 0 ELSE @ + 1]
      /\ Take(i, m, IF last THEN e ELSE Nothing)

\* A contribution of kind x from a neighbour arrives: it is added to the buffer; the
\* last one has effect e.
Receive(i, x, m, e) ==
  /\ Is(m, "com", i) /\ m.kind = x
  /\ buf' = [buf EXCEPT ![i][x] = @ \cup {m.part}]
  /\ Heard(i, x, m, Cardinality(Nbr[i]), e)
  /\ UNCHANGED <<stepVars, fileVars, refined, field>>

-----------------------------------------------------------------------------
\* Discretization::vol
Vol(i, m) ==
  /\ Is(m, "vol", i)
  /\ field' = [field EXCEPT ![i] = Accumulate(@, i, {"vol"})]
  /\ Take(i, m, IF Nbr[i] = {} THEN Contributes("disc", "vol") ELSE Calls(ComCalls(i, "vol")))
  /\ UNCHANGED <<stepVars, fileVars, refined, buf, count>>

\* Mutant of Comvol: every neighbour's volumes are taken for the last ones.
ComvolEach(i, m) ==
  /\ Is(m, "com", i) /\ m.kind = "vol"
  /\ buf' = [buf EXCEPT ![i]["vol"] = @ \cup {m.part}]
  /\ Take(i, m, Contributes("disc", "vol"))
  /\ UNCHANGED <<stepVars, fileVars, refined, field, count>>

\* Discretization::comvol
Comvol(i, m) == Receive(i, "vol", m, Contributes("disc", "vol"))

\* Discretization::totalvol
TotalVol(i, m) ==
  /\ Is(m, "totalvol", i)
  /\ field' = [field EXCEPT ![i] = Combine(i, {"vol"})]
  /\ Take(i, m, Contributes("disc", "totalvol"))
  /\ UNCHANGED <<stepVars, fileVars, refined, buf, count>>

\* Mutant of Resize: the outputs on the new mesh are numbered on.
ResizeNumbering(i, zs) ==
  /\ itr' = [itr EXCEPT ![i] = @ + 1]
  /\ UNCHANGED itf
  /\ field' = [field EXCEPT ![i] = Zero(@, {"vol"})]
  /\ buf' = [buf EXCEPT ![i] = Zero(@, zs \cup {"vol"})]
  /\ count' = [count EXCEPT ![i]["vol"] = 0]

\* Discretization::resize: the new mesh of chare i; the communication buffers of the
\* kinds in zs are empty.
Resize(i, zs) ==
  /\ itr' = [itr EXCEPT ![i] = @ + 1]
  /\ itf' = [itf EXCEPT ![i] = 0]
  /\ field' = [field EXCEPT ![i] = Zero(@, {"vol"})]
  /\ buf' = [buf EXCEPT ![i] = Zero(@, zs \cup {"vol"})]
  /\ count' = [count EXCEPT ![i]["vol"] = 0]

\* Discretization::write: what is sent to the file writer, which then calls "then".
Dump(i, then) ==
  [type |-> "write", to |-> i, itr |-> itr[i], mesh |-> itf[i] = 0,
   itf |-> IF lastDump[i] # it[i] THEN itf[i] + 1 ELSE itf[i],
   field |-> lastDump[i] # it[i], then |-> then]
Dumped(i) ==
  /\ itf' = [itf EXCEPT ![i] = IF lastDump[i] # it[i] THEN @ + 1 ELSE @]
  /\ lastDump' = [lastDump EXCEPT ![i] = it[i]]
  /\ UNCHANGED file

\* MeshWriter::write
Write(i, m) ==
  /\ Is(m, "write", i)
  /\ file' = [file EXCEPT ![i] =
       Append(@, [itr |-> m.itr, itf |-> m.itf, mesh |-> m.mesh, field |-> m.field])]
  /\ Serve(m, {[type |-> m.then, to |-> i]})
  /\ UNCHANGED <<stepVars, itf, lastDump, refined, nodeVars>>

\* Diagnostics::compute: m_it has not been increased yet.
Diagnostics(i, array) ==
  IF (it[i] + 1) % DiagFreq = 0 THEN Contributes(array, "diagnostics")
                                ELSE Triggers({done("diag")})

\* A worker calls its trigger x.
Signal(i, m, type, x) ==
  /\ Is(m, type, i)
  /\ Take(i, m, Triggers({done(x)}))
  /\ UNCHANGED <<stepVars, fileVars, refined, nodeVars>>

\* The last handler of a time step: the end, the next step, or load balancing.
NextStep(i, array, next) ==
  IF it[i] = NStep THEN Contributes(array, "finish")
  ELSE IF it[i] % LbFreq # 0 THEN next
  ELSE Contributes("sync", "sync") ++ (IF Nonblocking THEN next ELSE Nothing)

\* Load balancing is done: ResumeFromSync of the workers.
Resume(i, m, next) ==
  /\ Is(m, "resume", i)
  /\ Take(i, m, IF Nonblocking THEN Nothing ELSE next)
  /\ UNCHANGED <<stepVars, fileVars, refined, nodeVars>>

-----------------------------------------------------------------------------
\* A reduction target of Transporter, with effect e.
Target(a, r, e) == Reduce(a, r, e) /\ UNCHANGED <<stepVars, fileVars, refined, nodeVars>>

\* Transporter::diagnostics
TransporterDiagnostics(a) == Target(a, "diagnostics", Calls(Broadcast("diag")))

\* Mutant of Matched: a chare gets its mesh once it has asked for it.
MatchedAlone ==
  /\ \E i \in Chare :
       /\ contrib["refiner"][i] # <<>> /\ Head(contrib["refiner"][i]) = "matched"
       /\ contrib' = [contrib EXCEPT !["refiner"][i] = Tail(@)]
       /\ msgs' = msgs \cup {[type |-> "eval", to |-> i]}
  /\ UNCHANGED <<posting, waiting, trigger, stepVars, fileVars, refined, nodeVars>>

\* Transporter::matched, once all chares agree on the refinement.
Matched == Target("refiner", "matched", Calls(Broadcast("eval")))

\* Transporter::discresized, workresized, vol, totalvol (not the initial mesh)
Discresized == Target("disc", "discresized", Triggers({done("disc")}))
Workresized == Target("worker", "workresized", Triggers({done("work")}))
TransporterVol == Target("disc", "vol", Calls(Broadcast("totalvol")))
TransporterTotalvol == Target("disc", "totalvol", Calls(Broadcast("resized")))

\* Transporter::resized, with the calls it makes.
TransporterResized(calls) ==
  Run(Host, "resize", Calls(calls)) /\ UNCHANGED <<stepVars, fileVars, refined, nodeVars>>

\* Load balancing is done when all workers have called AtSync().
Sync == Target("sync", "sync", Calls(Broadcast("resume")))

\* Transporter::finish
Finish(a) ==
  /\ Reduce(a, "finish", Nothing)
  /\ finished' = TRUE
  /\ UNCHANGED <<it, itr, fileVars, refined, nodeVars>>

\* The message that posts a wait.
Posting ==
  /\ \E o \in Object, w \in Wait : Post(o, w)
  /\ UNCHANGED <<stepVars, fileVars, refined, nodeVars>>

\* The program ends.
Exit == finished /\ Quiet /\ UNCHANGED discVars

DiscretizationInit ==
  /\ CharmInit(Array, Broadcast("create"), {})
  /\ it = [i \in Chare |-> 0] /\ itr = it /\ itf = it
  /\ lastDump = [i \in Chare |-> -1]
  /\ file = [i \in Chare |-> <<>>]
  /\ refined = [i \in Chare |-> FALSE]
  /\ buf = [i \in Chare |-> [x \in Kind |-> IF x = "vol" THEN {Part(j, x) : j \in Nbr[i]} ELSE {}]]
  /\ field = [i \in Chare |->
       [x \in Kind |-> IF x = "vol" THEN {Part(j, x) : j \in Nbr[i] \cup {i}} ELSE {}]]
  /\ count = [i \in Chare |-> [x \in Kind |-> 0]]
  /\ finished = FALSE

\* The calls and reductions all schemes have.
DiscretizationCall(i, m) == Vol(i, m) \/ Comvol(i, m) \/ TotalVol(i, m) \/ Write(i, m)
DiscretizationNext ==
  \/ \E m \in msgs : DiscretizationCall(m.to, m)
  \/ Matched \/ Discresized \/ Workresized \/ TransporterVol \/ TransporterTotalvol
  \/ Sync \/ Posting

-----------------------------------------------------------------------------
DiscretizationTypeOK ==
  /\ it \in [Chare -> 0 .. NStep] /\ itr \in [Chare -> 0 .. NStep]
  /\ itf \in [Chare -> 0 .. (NStep + 1)] /\ lastDump \in [Chare -> -1 .. NStep]
  /\ \A i \in Chare, x \in Kind :
       /\ field[i][x] \cup buf[i][x] \subseteq [from : Chare, it : 0 .. NStep, itr : 0 .. NStep]
       /\ count[i][x] \in Nat /\ (count[i][x] # 0 => count[i][x] < Cardinality(Nbr[i]))
  /\ refined \in [Chare -> BOOLEAN]
  /\ finished \in BOOLEAN

\* The contributions step n of chare i needs for kind x.
Needed(i, n, x) ==
  {[from |-> j, it |-> IF x \in MeshKind THEN MeshOf(n) * DtFreq ELSE n, itr |-> MeshOf(n)] :
     j \in Nbr[i] \cup {i}}

\* A contribution is about nodes of the mesh its receiver has: cref_find( d->Bid(), gid )
\* of the com...() functions finds them and none is counted for the wrong mesh.
MeshesAgree == \A m \in msgs : m.type = "com" => m.part.itr = itr[m.to]

\* What ends a step is signalled once for it (refine, lhsmerge, resized, diag of the
\* workers): no trigger is left for the next step, no wait of a step is posted twice.
SignalsOnce ==
  /\ \A o \in Object, t \in Trigger : trigger[o][t] <= 1
  /\ \A i \in Chare, w \in Wait : posting[i][w] + waiting[i][w] <= 1

\* A field output file can be read: what is written first is the mesh, once, and the
\* outputs on it are numbered 1, 2, ... (Discretization::write, resizeAfterRefined).
Readable(s) ==
  \A k \in DOMAIN s :
    LET first == k = 1 \/ s[k - 1].itr # s[k].itr
    IN  s[k].mesh = first /\ s[k].field /\ s[k].itf = IF first THEN 1 ELSE s[k - 1].itf + 1
FilesReadable == \A i \in Chare : Readable(file[i])

\* Chares make time steps and refine their meshes together, and the run ends
\* (Transporter::advance, matched, resized).
Bulk == INSTANCE BulkSteps
ImplementsBulkSteps == Bulk!Spec

\* All steps are made, in whatever order calls arrive.
Completes == <>finished
=============================================================================
