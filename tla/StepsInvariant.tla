--------------------------- MODULE StepsInvariant ---------------------------
(***************************************************************************)
(* What is true in every state of the schemes that assemble fields at mesh *)
(* nodes (DiagCG and ALECG), as a function of where the run is: c.round is *)
(* the number of time steps started, c.stage[i] how far chare i is,        *)
(*    0 to be created         6 -                      12 output           *)
(*    1 "comfinal"            7 to start the step      13 to end the step  *)
(*    2 to be set up          8 rhs, dif sent          14 "sync"           *)
(*    3 output                9 aec, alw sent          15 to resume        *)
(*    4 to be initialised    10 lim sent               16 "finish"         *)
(*    5 lhs sent             11 step made              17 "advance"        *)
(* where quoted targets have been contributed to; without flux correction  *)
(* a chare goes from 8 to 11.  In stage 11 what                            *)
(* is left of the step goes on side by side: diagnostics (c.diag[i]: 1     *)
(* contributed, 2 called back, 3 done), a new mesh (c.ref[i]: 1            *)
(* "matched", 2 to be evaluated, 3 done) and on it lhs (c.lhs[i]: 1 to be  *)
(* computed, 2 sent, 3 done) and volumes (c.vol[i]: 1 to be computed, 2    *)
(* sent, 3 to be added, 4 "totalvol", 5 to be resumed, 6 done).  c.mesh    *)
(* counts what all chares have done together: 1 "matched", 2 "resized",    *)
(* 3 "vol", 4 "totalvol"; the others are such reductions as well.          *)
(***************************************************************************)
EXTENDS Exchange

\* Fields of a time step, and the stage from which they are sent.
StepKind == Kind \ MeshKind
StageOf == [x \in {"rhs", "dif", "aec", "alw", "lim"} |->
              IF x \in {"rhs", "dif"} THEN 8 ELSE IF x \in {"aec", "alw"} THEN 9 ELSE 10]

\* The fields and buffers that are emptied where a step starts.
Emptied == {"aec", "alw", "lim"}

\* The waits for the exchanges of a step.
StepWait == {"rhs", "fct", "app"}

\* Fields and waits of these schemes.
ASSUME StepsAssumption ==
  /\ MeshKind \cup {"rhs"} \subseteq Kind /\ StepKind \subseteq DOMAIN StageOf
  /\ {"lhs", "rhs", "out", "resize"} \subseteq Wait /\ Wait \subseteq {"lhs", "out", "resize"} \cup StepWait
  /\ Needs["lhs"] = {own("lhs"), com("lhs")}
  /\ Needs["out"] = {done("diag"), done("ref"), done("lhs"), done("resize")}
  /\ Needs["resize"] = ResizeNeeds
  /\ UNION {Needs[w] : w \in Wait \cap StepWait} = {own(x) : x \in StepKind} \cup {com(x) : x \in StepKind}

Config ==
  [round : Nat, stage : [Chare -> 0 .. 17],
   diag : [Chare -> 0 .. 3], ref : [Chare -> 0 .. 3], lhs : [Chare -> 0 .. 3], vol : [Chare -> 0 .. 6],
   mesh : 0 .. 4, started : BOOLEAN, diagnosed : BOOLEAN, disc : BOOLEAN, work : BOOLEAN]

\* The mesh the round starts on, and the mesh lhs and vol are exchanged for in it.
Base(c) == IF c.round = 0 THEN 0 ELSE MeshOf(c.round - 1)
Now(c) == IF c.round = 0 THEN 0 ELSE Base(c) + 1
OfMesh(k) == [it |-> k * DtFreq, itr |-> k]
About(c, x) == IF x \in StepKind THEN [it |-> c.round - 1, itr |-> Base(c)] ELSE OfMesh(Now(c))

Senders(c, x) ==
  {j \in Chare :
     \/ x \in StepKind /\ c.round > 0 /\ c.stage[j] >= StageOf[x]
     \/ x = "lhs" /\ IF c.round = 0 THEN c.stage[j] >= 5 ELSE c.lhs[j] >= 2
     \/ x = "vol" /\ c.vol[j] >= 2}
Takers(c, x) ==
  {i \in Chare :
     \/ x \in StepKind /\ c.round > 0 /\ c.stage[i] \in 7 .. StageOf[x]
     \/ x = "lhs" /\ IF c.round = 0 THEN c.stage[i] <= 5 ELSE c.ref[i] = 3 /\ c.lhs[i] <= 2
     \/ x = "vol" /\ c.ref[i] = 3 /\ c.vol[i] <= 3}
Zeroed(c, x) == IF x \in Emptied THEN {i \in Takers(c, x) : c.stage[i] >= 8} ELSE Takers(c, x)
Past(c, x) ==
  {i \in Chare :
     \/ x \in StepKind /\ c.round > 0 /\ c.stage[i] > StageOf[x]
     \/ x = "lhs" /\ IF c.round = 0 THEN c.stage[i] > 5 ELSE c.lhs[i] = 3
     \/ x = "vol" /\ c.vol[i] >= 3}

\* The chares that have posted wait w, or have a message on its way that does.
Open(c, w) ==
  {i \in Chare :
     \/ w = "lhs" /\ IF c.round = 0 THEN c.stage[i] \in 1 .. 5 ELSE c.ref[i] = 3 /\ c.lhs[i] <= 2
     \/ w \in {"rhs", "out"} /\ c.stage[i] = 17
     \/ w = "rhs" /\ c.round > 0 /\ c.stage[i] \in 7 .. 8
     \/ w = "out" /\ c.round > 0 /\ c.stage[i] \in 7 .. 11
     \/ w = "fct" /\ c.round > 0 /\ c.stage[i] \in 8 .. 9
     \/ w = "app" /\ c.round > 0 /\ c.stage[i] \in 8 .. 10}

-----------------------------------------------------------------------------
Parts == [from : Chare, it : 0 .. NStep, itr : 0 .. NStep]

Shape ==
  /\ it \in [Chare -> Nat] /\ itr \in [Chare -> Nat] /\ finished \in BOOLEAN
  /\ CharmShape /\ NodeShape
  /\ \A i \in Chare, x \in Kind : field[i][x] \cup buf[i][x] \subseteq Parts

\* How the stages of the chares fit together.
Stages(c) ==
  /\ c.round <= NStep
  /\ c.round = 0 => \A i \in Chare : c.stage[i] \in IF c.started THEN {2, 3, 4, 5, 17} ELSE {0, 1}
  /\ c.round > 0 => c.started /\ \A i \in Chare : c.stage[i] \in 7 .. 17
  /\ \A i \in Chare :
       /\ c.stage[i] = 16 => c.round = NStep
       /\ c.stage[i] \in {14, 15, 17} => c.round < NStep
       /\ c.stage[i] \in {14, 15} => ~Nonblocking
  /\ finished => \A i \in Chare : c.stage[i] = 16

\* Chare i has made the step of the round.
Made(c, i) == c.round > 0 /\ c.stage[i] >= 11

\* Diagnostics of the round.
Diagnosing(c) ==
  /\ \A i \in Chare :
       c.diag[i] \in IF ~Made(c, i) THEN {0}
                     ELSE IF c.round % DiagFreq # 0 THEN {3}
                     ELSE IF c.diagnosed THEN {2, 3} ELSE {1}
  /\ c.diagnosed => \A i \in Chare : Made(c, i)
  /\ \A i \in Chare : c.round > 0 /\ c.stage[i] >= 12 => c.diag[i] = 3

\* The mesh of the round, if it is refined.
Remeshing(c) ==
  /\ \A i \in Chare :
       /\ c.ref[i] \in IF ~Made(c, i) \/ ~Refines(c.round) THEN {0} ELSE IF c.mesh = 0 THEN {1} ELSE {2, 3}
       /\ c.mesh >= 2 => c.ref[i] = 3
       /\ c.disc \/ c.work => c.ref[i] = 3
       /\ c.lhs[i] \in IF c.mesh < 2 THEN {0} ELSE {1, 2, 3}
       /\ c.vol[i] \in CASE c.mesh < 2 -> {0} [] c.mesh = 2 -> {1, 2} [] c.mesh = 3 -> {3, 4} [] OTHER -> {5, 6}
       /\ Made(c, i) /\ c.stage[i] >= 12 /\ Refines(c.round) => c.ref[i] = 3 /\ c.lhs[i] = 3 /\ c.vol[i] = 6
  /\ c.mesh > 0 => Refines(c.round) /\ \A i \in Chare : Made(c, i)
  /\ c.mesh >= 2 => c.disc /\ c.work
  /\ c.disc \/ c.work => c.mesh >= 1

\* Neighbours of those past an exchange have sent.
Ahead(c) == \A x \in Kind : \A i \in Past(c, x) : Nbr[i] \subseteq Senders(c, x)

Levels(c) == c \in Config /\ Stages(c) /\ Diagnosing(c) /\ Remeshing(c) /\ Ahead(c)

-----------------------------------------------------------------------------
Counters(c) ==
  \A i \in Chare :
    /\ it[i] = IF c.round > 0 /\ ~Made(c, i) THEN c.round - 1 ELSE c.round
    /\ itr[i] = IF c.ref[i] = 3 THEN Base(c) + 1 ELSE Base(c)

\* A call of the type to chare i is expected.
Expected(c, type, i) ==
  \/ type = "create" /\ c.stage[i] = 0
  \/ type = "setup" /\ c.stage[i] = 2
  \/ type = "init" /\ c.stage[i] = 4
  \/ type = "advance" /\ c.stage[i] = 7
  \/ type = "step" /\ c.stage[i] = 13
  \/ type = "resume" /\ (Nonblocking \/ c.stage[i] = 15)
  \/ type = "diag" /\ c.diag[i] = 2
  \/ type = "eval" /\ c.ref[i] = 2
  \/ type = "lhs" /\ c.lhs[i] = 1
  \/ type = "vol" /\ c.vol[i] = 1
  \/ type = "totalvol" /\ c.vol[i] = 3
  \/ type = "resized" /\ c.vol[i] = 5

Expects(c) ==
  /\ \A m \in msgs : m.type \notin {"com", "write"} =>
       m.to \in Chare /\ m = [type |-> m.type, to |-> m.to] /\ Expected(c, m.type, m.to)
  /\ \A m \in msgs : m.type = "write" =>
       /\ m.to \in Chare
       /\ (c.stage[m.to] = 3 /\ m.then = "init") \/ (c.stage[m.to] = 12 /\ m.then = "step")
       /\ \A n \in msgs : n.type = "write" /\ n.to = m.to => n = m
  /\ \A m \in msgs : m.type = "com" => m.kind \in Kind

\* What chare i has contributed to reductions that are not complete.
ContributedBy(c, i) ==
  /\ contrib["worker"][i] =
       IF c.stage[i] = 1 THEN <<"comfinal">>
       ELSE IF c.stage[i] = 17 THEN <<"advance">>
       ELSE IF c.ref[i] = 3 /\ ~c.work THEN <<"workresized">> ELSE <<>>
  /\ contrib["refiner"][i] =
       IF c.diag[i] = 1 THEN IF c.ref[i] = 1 THEN <<"diagnostics", "matched">> ELSE <<"diagnostics">>
                        ELSE IF c.ref[i] = 1 THEN <<"matched">> ELSE <<>>
  /\ contrib["disc"][i] \in
       IF c.stage[i] = 16 /\ ~finished THEN {<<"finish">>}
       ELSE IF c.ref[i] = 3 /\ ~c.disc THEN {<<"discresized">>}
       ELSE IF c.vol[i] \in {1, 2} THEN {<<>>, <<"vol">>}
       ELSE IF c.vol[i] = 4 THEN {<<"totalvol">>} ELSE {<<>>}
  /\ contrib["disc"][i] = <<"vol">> => Complete("vol", About(c, "vol"), Senders(c, "vol"), i)
  /\ contrib["sync"][i] \in Seq({"sync"})
  /\ ~Nonblocking => contrib["sync"][i] = IF c.stage[i] = 14 THEN <<"sync">> ELSE <<>>

Contributions(c) == \A i \in Chare : ContributedBy(c, i)

\* What signal y of the end of the step says is done on chare i.
Ended(c, i, y) ==
  /\ Made(c, i) /\ c.stage[i] = 11
  /\ y = "diag" => c.diag[i] = 3
  /\ y = "ref" /\ Refines(c.round) => c.ref[i] = 3
  /\ y = "lhs" /\ Refines(c.round) => c.lhs[i] = 3
  /\ y = "resize" /\ Refines(c.round) => c.vol[i] = 6

\* What ends the step.
Ends(c) ==
  /\ \A i \in Chare, y \in {"diag", "ref", "lhs", "resize"} :
       trigger[i][done(y)] \in {0, 1} /\ (trigger[i][done(y)] = 1 => Ended(c, i, y))
  /\ trigger[Host][done("disc")] = IF c.disc /\ c.mesh = 1 THEN 1 ELSE 0
  /\ trigger[Host][done("work")] = IF c.work /\ c.mesh = 1 THEN 1 ELSE 0

\* The exchange of a kind, and what signals it (the volumes, a reduction).
Traded(c, x) ==
  /\ Exchange(x, Senders(c, x), Takers(c, x), Zeroed(c, x), About(c, x))
  /\ x # "vol" => Signalled(x, Senders(c, x), Takers(c, x), About(c, x))

Exchanges(c) ==
  /\ \A x \in Kind : Traded(c, x)
  /\ \A x \in Kind \cap {"rhs", "dif"} : \A i \in Chare \ Takers(c, x) : buf[i][x] = {}
  /\ c.mesh >= 3 => OfKind("vol") = {}

\* The waits posted.
Waits(c) ==
  \A i \in Chare, w \in Wait : Due(i, w) = IF i \in Open(c, w) THEN 1 ELSE 0

\* Contributions of a chare and its neighbours.
Full(i, p) == PartsOf(Nbr[i] \cup {i}, p)

VolumesOf(c, i) ==
  field[i]["vol"] = IF c.ref[i] # 3 THEN Full(i, OfMesh(Base(c)))
                    ELSE IF c.vol[i] <= 1 THEN {}
                    ELSE IF c.vol[i] <= 3 THEN {PartOf(i, OfMesh(Now(c)))}
                    ELSE Full(i, OfMesh(Now(c)))
Volumes(c) == \A i \in Chare : VolumesOf(c, i)

\* A chare that has yet to end a step, or to be set up, has no output of it.
Outputs(c) ==
  /\ itf \in [Chare -> Nat] /\ lastDump \in [Chare -> Int] /\ refined \in [Chare -> BOOLEAN]
  /\ \A i \in Chare :
       /\ lastDump[i] \in -1 .. it[i] /\ itf[i] <= lastDump[i] + 1
       /\ lastDump[i] = it[i] => IF c.round = 0 THEN c.stage[i] >= 3 ELSE c.stage[i] # 11

StepsInv(c) ==
  /\ Shape /\ Levels(c) /\ Counters(c) /\ Expects(c) /\ Contributions(c) /\ Ends(c)
  /\ Exchanges(c) /\ Waits(c) /\ Volumes(c) /\ Outputs(c)

-----------------------------------------------------------------------------
\* Triggers that are never called: those of the Transporter on a chare, those of a chare on it.
Uncalled ==
  /\ \A i \in Chare, y \in {"disc", "work"} : trigger[i][done(y)] = 0
  /\ \A t \in Trigger \ ResizeNeeds : trigger[Host][t] = 0

\* The last output of chare i is the f-th on mesh r, or there is none on it.
EndsWith(i, r, f) ==
  LET last == file[i][Len(file[i])]
  IN  IF f = 0 THEN file[i] = <<>> \/ last.itr < r ELSE file[i] # <<>> /\ last.itr = r /\ last.itf = f

\* The output files and what is on its way to them.
FilesOf(i) ==
  /\ \A m \in msgs : m.type = "write" /\ m.to = i =>
       /\ m.itr = itr[i] /\ m.itf = itf[i] /\ m.field = TRUE /\ m.mesh = (itf[i] = 1)
       /\ itf[i] > 0 /\ EndsWith(i, itr[i], itf[i] - 1)
  /\ (\A m \in msgs : m.type = "write" => m.to # i) => EndsWith(i, itr[i], itf[i])
Files ==
  /\ file \in [Chare -> Seq([itr : Nat, itf : Nat, mesh : BOOLEAN, field : BOOLEAN])]
  /\ FilesReadable /\ \A i \in Chare : FilesOf(i)
=============================================================================
