----------------------------- MODULE DGInvariant -----------------------------
(***************************************************************************)
(* What is true in every state of DG, as a function of where the run is:   *)
(* stage c.st of step c.it + 1, of which each chare is at a point p,       *)
(*    0 to be created         8 to start          17 "comfinal" again      *)
(*    1 asks for ghosts       9 "advance"         18 lhs                   *)
(*    2 "comfinal"           10 to advance        19 output                *)
(*    3 to be set up         11 cells sent        20 to end the step       *)
(*    4 "sendinit"           12 limited           21 "sync"                *)
(*    5 to send cells        13 "solve"           22 "advance"             *)
(*    6 cells sent           14 to be updated     23 to resume             *)
(*    7 output               15 updated           24 "finish"              *)
(*                           16 asks for ghosts                            *)
(* where quoted targets have been contributed to.  Points 15 to 18 are of  *)
(* the last stage; at 15 what is left of the step goes on side by side:    *)
(* diagnostics (p.diag: 1 contributed, 2 called back, 3 done), a new mesh  *)
(* (p.ref: 1 "matched", 2 to be evaluated, 3 done), its volumes (p.vol: 1  *)
(* to be computed, 2 sent, 3 to be added, 4 "totalvol", 5 to be resumed, 6 *)
(* done).  For each mesh a chare asks for ghost data (p.req) and sends it  *)
(* (p.sent).  c.phase and c.mesh count what all chares have done together: *)
(* "comfinal", "sendinit", "advance" and "solve"; "matched", "resized",    *)
(* "vol", "totalvol" and "comfinal".                                       *)
(***************************************************************************)
EXTENDS DG

Point == [at : 0 .. 24, diag : 0 .. 3, ref : 0 .. 3, vol : 0 .. 6, req : BOOLEAN, sent : BOOLEAN]
Config ==
  [it : Nat, st : 0 .. 2, phase : 0 .. 4, mesh : 0 .. 5, disc : BOOLEAN, work : BOOLEAN,
   diagnosed : BOOLEAN, of : [Chare -> Point]]

\* The number of the step, the meshes before the one it is made on, and whether it ends with a new one.
Now(c) == c.it + 1
Base(c) == MeshOf(c.it)
Made(c, p) == c.phase = 4 /\ c.st = 2 /\ p.at >= 15
Renews(c) == Refines(Now(c))
Writes(c) == Now(c) % FieldFreq = 0 \/ Now(c) = NStep

\* What all chares have done together.
Together(c) ==
  /\ c.it < NStep
  /\ c.phase <= 2 => c.it = 0 /\ c.st = 0
  /\ c.mesh > 0 \/ c.diagnosed => c.phase = 4 /\ c.st = 2
  /\ c.mesh > 0 => Renews(c)
  /\ c.mesh >= 2 => c.disc /\ c.work
  /\ c.disc \/ c.work => c.mesh >= 1

\* A point a chare may be at.
Fits(c, p) ==
  /\ p.at \in CASE c.phase = 0 -> 0 .. 2 [] c.phase = 1 -> 3 .. 4 [] c.phase = 2 -> 5 .. 9
                [] c.phase = 3 -> 10 .. 13 [] OTHER -> IF c.st = 2 THEN 14 .. 24 ELSE {14, 22}
  /\ p.diag \in IF ~Made(c, p) THEN {0} ELSE IF Now(c) % DiagFreq # 0 THEN {3}
                ELSE IF c.diagnosed THEN {2, 3} ELSE {1}
  /\ p.ref \in IF ~Made(c, p) \/ ~Renews(c) THEN {0} ELSE IF c.mesh = 0 THEN {1} ELSE {2, 3}
  /\ p.vol \in CASE c.mesh < 2 -> {0} [] c.mesh = 2 -> {1, 2} [] c.mesh = 3 -> {3, 4} [] OTHER -> {5, 6}
  /\ c.mesh > 0 \/ c.diagnosed => Made(c, p)
  /\ c.mesh >= 2 \/ c.disc \/ c.work => p.ref = 3
  /\ c.disc => p.diag # 1
  /\ Made(c, p) /\ p.at >= 16 => p.diag = 3 /\ (Renews(c) => p.vol = 6)
  /\ p.at \in 16 .. 18 => Renews(c)
  /\ Made(c, p) /\ Renews(c) => (p.at >= 18 <=> c.mesh = 5)
  /\ p.at \in 19 .. 20 => Writes(c)
  /\ p.at = 24 => Now(c) = NStep
  /\ p.at \in 21 .. 23 /\ c.st = 2 => Now(c) < NStep
  /\ p.at \in {21, 23} => c.st = 2 /\ ~Nonblocking

Levels(c) == c \in Config /\ Together(c) /\ \A i \in Chare : Fits(c, c.of[i])

-----------------------------------------------------------------------------
(* The calls a chare waits for from others, of each kind. *)

CallOf ==
  [vol |-> "com", fac |-> "comfac", req |-> "reqGhost", ghost |-> "comGhost", init |-> "cominit",
   sol |-> "comsol", lim |-> "comlim"]

\* The chares they are from, and those that have sent them.
From(x, i) == IF x \in {"vol", "fac", "req"} THEN Nbr[i] ELSE Fac[i]
SentAt(c, p, x) ==
  CASE x = "vol" -> p.vol >= 2
    [] x = "fac" -> IF c.mesh = 0 THEN p.at >= 1 ELSE p.at >= 16
    [] x = "req" -> p.req
    [] x = "ghost" -> p.sent
    [] x = "init" -> c.phase = 2 /\ p.at >= 6
    [] x = "sol" -> c.phase = 3 /\ p.at >= 11
    [] x = "lim" -> c.phase = 3 /\ p.at >= 12 /\ Ndof > 1
Senders(c, x) == {j \in Chare : SentAt(c, c.of[j], x)}

\* Where a chare no longer waits for them.
OverAt(c, p, x) ==
  CASE x = "vol" -> p.vol >= 3
    [] x \in {"fac", "req", "ghost"} -> IF c.mesh = 0 THEN c.phase >= 1 ELSE c.mesh = 5
    [] x = "init" -> c.phase = 2 /\ p.at >= 7
    [] x = "sol" -> c.phase = 3 /\ p.at >= 12
    [] x = "lim" -> c.phase = 3 /\ p.at >= 13 /\ Ndof > 1

\* What a call says of its sender.
TagOf(c, x) ==
  IF x \in {"fac", "req", "ghost"} /\ c.mesh > 0 THEN [it |-> Now(c), stage |-> 2, itr |-> Base(c) + 1]
  ELSE [it |-> c.it, stage |-> c.st, itr |-> Base(c)]
Letter(c, x, j, i) ==
  IF x = "vol"
  THEN [type |-> "com", kind |-> "vol", to |-> i,
        part |-> [from |-> j, it |-> (Base(c) + 1) * DtFreq, itr |-> Base(c) + 1]]
  ELSE LET t == TagOf(c, x)
       IN  [type |-> CallOf[x], from |-> j, to |-> i, it |-> t.it, stage |-> t.stage, itr |-> t.itr]

Letters(x) == {m \in msgs : m.type = CallOf[x]}
Arrived(c, x, i) == {j \in From(x, i) \cap Senders(c, x) : Letter(c, x, j, i) \notin msgs}

Traded(c, x) ==
  /\ \A m \in Letters(x) : \E i \in Chare : \E j \in From(x, i) \cap Senders(c, x) : m = Letter(c, x, j, i)
  /\ \A i \in Chare : LET a == Arrived(c, x, i)
                      IN  count[i][x] = IF a = From(x, i) THEN 0 ELSE Cardinality(a)
  /\ \A i \in Chare : OverAt(c, c.of[i], x) => Arrived(c, x, i) = From(x, i)

-----------------------------------------------------------------------------
(* What is true of each chare. *)

Counters(c, i) ==
  LET p == c.of[i]
  IN  /\ it[i] = IF Made(c, p) THEN Now(c) ELSE c.it
      /\ itr[i] = IF p.ref = 3 THEN Base(c) + 1 ELSE Base(c)
      /\ stage[i] = IF p.at < 15 THEN c.st ELSE IF c.st < 2 THEN c.st + 1
                    ELSE IF p.at < 19 THEN 2 ELSE IF p.at < 21 THEN 3 ELSE 0
      /\ Made(c, p) => refined[i] = Renews(c)

\* What it has contributed to reductions that are not complete, in each array.
WorkerPart(c, p) ==
  CASE p.at \in {2, 17} -> <<"comfinal">> [] p.at = 4 -> <<"sendinit">> [] p.at = 9 -> <<"advance">>
    [] p.at = 13 -> <<"solve">> [] p.at = 24 -> <<"finish">>
    [] p.ref = 3 /\ ~c.work -> <<"workresized">> [] OTHER -> <<>>
DiscParts(c, p) ==
  IF p.at = 22 THEN {<<"advance">>}
  ELSE IF p.diag = 1 THEN IF p.ref = 3 THEN {<<"diagnostics", "discresized">>} ELSE {<<"diagnostics">>}
  ELSE IF p.ref = 3 /\ ~c.disc THEN {<<"discresized">>}
  ELSE IF p.vol \in {1, 2} THEN {<<>>, <<"vol">>}
  ELSE IF p.vol = 4 THEN {<<"totalvol">>} ELSE {<<>>}
Contribution(c, i) ==
  LET p == c.of[i]
  IN  /\ contrib["worker"][i] = IF finished THEN <<>> ELSE WorkerPart(c, p)
      /\ contrib["disc"][i] \in DiscParts(c, p)
      /\ p.vol \in {1, 2} /\ contrib["disc"][i] = <<"vol">> =>
           Arrived(c, "vol", i) = Nbr[i] /\ (Nbr[i] = {} => p.vol = 2)
      /\ contrib["refiner"][i] = IF p.ref = 1 THEN <<"matched">> ELSE <<>>
      /\ contrib["sync"][i] \in Seq({"sync"})
      /\ ~Nonblocking => contrib["sync"][i] = IF p.at = 21 THEN <<"sync">> ELSE <<>>

\* What a buffered trigger says.
Signalled(c, i) ==
  LET p == c.of[i]
      heard(x) == Arrived(c, x, i) = Fac[i]
      Says(t, b) == trigger[i][t] \in {0, 1} /\ (trigger[i][t] = 1 => b)
  IN  /\ Says(own("init"), p.at = 6)
      /\ Says(com("init"), p.at \in 5 .. 6 /\ heard("init") /\ (Fac[i] = {} => p.at = 6))
      /\ Says(own("sol"), p.at = 11)
      /\ Says(com("sol"), p.at \in 10 .. 11 /\ heard("sol") /\ (Fac[i] = {} => p.at = 11))
      /\ Says(own("lim"), p.at = 12)
      /\ Says(com("lim"), /\ p.at \in 10 .. 12 /\ (Ndof > 1 => heard("lim"))
                          /\ Fac[i] = {} \/ Ndof = 1 => p.at = 12)
      /\ Says(own("ghost"), p.req /\ ~p.sent)
      /\ Says(com("ghost"), Nbr[i] # {} /\ Arrived(c, "req", i) = Nbr[i] /\ ~p.sent)
      /\ Says(done("diag"), p.at = 15 /\ p.diag = 3)
      /\ Says(done("ref"), p.at = 15 /\ (Renews(c) => p.ref = 3))
      /\ Says(done("resize"), p.at = 15 /\ (Renews(c) => p.vol = 6))

\* Before it has the ghosts of its mesh.
Asking(c, p) == p.at \in 0 .. 1 \/ (p.ref = 3 /\ p.at \in 15 .. 16)
Maps(c, i) ==
  LET p == c.of[i]
      faces == Arrived(c, "fac", i)
  IN  /\ p.req <=> Nbr[i] # {} /\ faces = Nbr[i]
      /\ p.sent => p.req /\ Arrived(c, "req", i) = Nbr[i]
      /\ OverAt(c, p, "fac") => Nbr[i] = {} \/ p.sent
      /\ p.at \in {1, 16} => Nbr[i] # {}
      /\ p.at \in {2, 17} => Arrived(c, "ghost", i) = Fac[i] /\ (Nbr[i] # {} => Fac[i] # {})
      /\ IF Asking(c, p)
         THEN /\ bndFace[i] = faces \cap Fac[i]
              /\ ghostData[i] = IF faces = Nbr[i] THEN Fac[i] ELSE {}
              /\ DOMAIN ghost[i] = Arrived(c, "ghost", i)
         ELSE bndFace[i] = {} /\ ghostData[i] = Fac[i] /\ DOMAIN ghost[i] = Fac[i]

\* The cells of the chares in js, in the stage.
CellsOf(c, js) == {[from |-> j, it |-> c.it, stage |-> c.st, itr |-> Base(c)] : j \in js}
Ghosts(c, i) ==
  LET p == c.of[i]
      of(u, js) == {q \in u : q.from \in js}
  IN  /\ \A q \in usol[i] \cup ulim[i] : q.from \in Fac[i]
      /\ Ndof = 1 => ulim[i] = {}
      /\ p.at \in 10 .. 14 =>
           LET js == IF p.at <= 11 THEN Arrived(c, "sol", i) ELSE Fac[i] IN of(usol[i], js) = CellsOf(c, js)
      /\ p.at \in 10 .. 14 /\ Ndof > 1 =>
           LET js == IF p.at <= 12 THEN Arrived(c, "lim", i) ELSE Fac[i] IN of(ulim[i], js) = CellsOf(c, js)

\* What its last update used.
Updated(c, i) ==
  /\ \A s, t \in used[i] : s = t
  /\ \A s \in used[i] :
       /\ s.sol = Current(i, s) /\ s.itr = MeshOf(s.it) /\ s.lim = IF Ndof > 1 THEN Current(i, s) ELSE {}
       /\ IF c.of[i].at >= 15 THEN s.it = c.it /\ s.stage = c.st
          ELSE c.phase >= 3 /\ StageFollows(s, [it |-> c.it, stage |-> c.st])

Local(c, i) ==
  Counters(c, i) /\ Contribution(c, i) /\ Signalled(c, i) /\ Maps(c, i) /\ Ghosts(c, i) /\ Updated(c, i)

-----------------------------------------------------------------------------
\* A call that is not one of those above, to a chare at p.
Due(p, m) ==
  \/ m.type = "create" /\ p.at = 0
  \/ m.type = "setup" /\ p.at = 3
  \/ m.type = "sendinit" /\ p.at = 5
  \/ m.type = "start" /\ p.at = 8
  \/ m.type = "advance" /\ p.at = 10
  \/ m.type = "solve" /\ p.at = 14
  \/ m.type = "diag" /\ p.diag = 2
  \/ m.type = "eval" /\ p.ref = 2
  \/ m.type = "lhs" /\ p.at = 18
  \/ m.type = "step" /\ p.at = 20
  \/ m.type = "resume" /\ (Nonblocking \/ p.at = 23)
  \/ m.type = "vol" /\ p.vol = 1
  \/ m.type = "totalvol" /\ p.vol = 3
  \/ m.type = "resized" /\ p.vol = 5
Expects(c) ==
  \A m \in msgs :
    \/ \E x \in DGKind : m.type = CallOf[x]
    \/ m.to \in Chare /\ m = [type |-> m.type, to |-> m.to] /\ Due(c.of[m.to], m)
    \/ /\ m.type = "write" /\ m.to \in Chare
       /\ \/ c.of[m.to].at = 7 /\ m.then = "start"
          \/ c.of[m.to].at = 19 /\ m.then = "step"
       /\ \A n \in msgs : n.type = "write" /\ n.to = m.to => n = m

HostSignals(c) ==
  /\ trigger[Host][done("disc")] = IF c.disc /\ c.mesh = 1 THEN 1 ELSE 0
  /\ trigger[Host][done("work")] = IF c.work /\ c.mesh = 1 THEN 1 ELSE 0

Shape ==
  /\ it \in [Chare -> Nat] /\ itr \in [Chare -> Nat] /\ stage \in [Chare -> Nat] /\ finished \in BOOLEAN
  /\ refined \in [Chare -> BOOLEAN]
  /\ trigger \in [Object -> [Trigger -> Int]]
  /\ contrib = [a \in Array |-> [i \in Chare |-> contrib[a][i]]]
  /\ count \in [Chare -> [DGKind -> Nat]]
  /\ bndFace = [i \in Chare |-> bndFace[i]] /\ ghostData = [i \in Chare |-> ghostData[i]]
  /\ ghost = [i \in Chare |-> ghost[i]] /\ used = [i \in Chare |-> used[i]]
  /\ usol = [i \in Chare |-> usol[i]] /\ ulim = [i \in Chare |-> ulim[i]]

DGInv(c) ==
  /\ Shape /\ Levels(c) /\ Expects(c) /\ HostSignals(c)
  /\ finished => \A i \in Chare : c.of[i].at = 24
  /\ \A x \in DGKind : Traded(c, x)
  /\ \A i \in Chare : Local(c, i)
=============================================================================
