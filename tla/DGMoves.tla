------------------------------- MODULE DGMoves -------------------------------
(***************************************************************************)
(* How a run of DG goes from one configuration to the next: what the proof *)
(* that DGInv is an invariant says of steps.                               *)
(***************************************************************************)
EXTENDS DGInvariant

\* Short forms: what a reduction or a call leaves as it was, and calls without data.
Plain(n) == n = [type |-> n.type, to |-> n.to]
SameMail == \A x \in DGKind : Letters(x)' = Letters(x)
SameTargets(a, i) == contrib'[a][i] = contrib[a][i]
ContribIs == contrib' = [a \in Array |-> [i \in Chare |-> contrib'[a][i]]]
TriggerIs == trigger' \in [Object -> [Trigger -> Int]]

\* Calls of kind x are where they were.
Faces == {"fac", "req", "ghost"}
SameFace(c, d, i) == \A x \in Faces : Arrived(d, x, i)' = Arrived(c, x, i)
Keeps(c, d, x) == Traded(d, x)' /\ \A j \in Chare : Arrived(d, x, j)' = Arrived(c, x, j)

\* What a chare, its letters and its signals have been brought to.
Held(c, i, p) ==
  Shape /\ c \in Config /\ Fits(c, p) /\ Counters(c, i) /\ Contribution(c, i) /\ Signalled(c, i)
Kept(c, i) == Maps(c, i) /\ Ghosts(c, i) /\ Updated(c, i)
SameJobs(c, d) == d.disc = c.disc /\ d.work = c.work /\ d.diagnosed = c.diagnosed

\* The exchanges of volumes behind a chare, by how far the mesh is.
Vols(c) == CASE c.mesh < 2 -> {0} [] c.mesh = 2 -> {1, 2} [] c.mesh = 3 -> {3, 4} [] OTHER -> {5, 6}

\* The calls a step adds are due at their chares in d; are of type t.
NewDue(d) == \A n \in msgs' : n \notin msgs => /\ n.to \in Chare /\ n.type # "write"
                                              /\ Plain(n) /\ Due(d.of[n.to], n)
NewOf(t) == \A n \in msgs' : n \notin msgs => /\ n.to \in Chare /\ n.type # "write"
                                             /\ n.type = t /\ Plain(n)

\* What the runtime does when chare i acts with effect e, for which it needed the triggers ns.
Acts(i, ns, e) ==
  /\ TriggerIs
  /\ ContribIs
  /\ \A o \in Object \ {i} : trigger'[o] = trigger[o]
  /\ \A t \in Trigger : trigger'[i][t] = (IF t \in ns THEN trigger[i][t] - 1 ELSE trigger[i][t])
                                         + (IF t \in e.triggers THEN 1 ELSE 0)
  /\ \A a \in Array : /\ contrib'[a][i] = contrib[a][i] \o TargetsOn(a, e)
                      /\ \A j \in Chare \ {i} : contrib'[a][j] = contrib[a][j]

\* A reduction calls its target, or the body of the wait of the Transporter runs.
Reduces(a, ns, e) ==
  /\ TriggerIs
  /\ ContribIs
  /\ \A o \in Chare : trigger'[o] = trigger[o]
  /\ \A t \in Trigger : trigger'[Host][t] = (IF t \in ns THEN trigger[Host][t] - 1 ELSE trigger[Host][t])
                                            + (IF t \in e.triggers THEN 1 ELSE 0)
  /\ \A b \in Array, j \in Chare : contrib'[b][j] = IF b = a THEN Tail(contrib[b][j]) ELSE contrib[b][j]

\* Calls that say the same of their senders.
SameTags(c, d, x) == \A j, i : Letter(d, x, j, i) = Letter(c, x, j, i)

\* The run has come as far.
SameRun(c, d) ==
  /\ d.it = c.it /\ d.st = c.st /\ d.phase = c.phase /\ d.mesh = c.mesh
  /\ SameJobs(c, d)

\* Chare i is at another point, the others where they were.
Moves(c, d, i) == SameRun(c, d) /\ \A j \in Chare \ {i} : d.of[j] = c.of[j]

Put(c, i, q) == [c EXCEPT !.of[i] = q]

\* An action changes what is of chare i only.
Alone(i) ==
  /\ finished' = finished
  /\ \A j \in Chare \ {i} :
       /\ it'[j] = it[j] /\ itr'[j] = itr[j] /\ stage'[j] = stage[j] /\ refined'[j] = refined[j]
       /\ bndFace'[j] = bndFace[j] /\ ghostData'[j] = ghostData[j] /\ ghost'[j] = ghost[j]
       /\ usol'[j] = usol[j] /\ ulim'[j] = ulim[j] /\ used'[j] = used[j] /\ count'[j] = count[j]
  /\ \A o \in Object \ {i} : trigger'[o] = trigger[o]
  /\ \A a \in Array, j \in Chare \ {i} : contrib'[a][j] = contrib[a][j]

ArrayIs == "worker" \in Array /\ "disc" \in Array /\ "refiner" \in Array /\ "sync" \in Array

\* What is expected of a chare that moves to another point in the same step and mesh: all
\* that was, save what it was to do at its point.
AtCall(p) ==
  CASE p = 0 -> "create" [] p = 3 -> "setup" [] p = 5 -> "sendinit" [] p = 8 -> "start" [] p = 10 -> "advance"
    [] p = 14 -> "solve" [] p = 18 -> "lhs" [] p = 20 -> "step" [] p = 23 -> "resume" [] OTHER -> "none"

\* The members of the chares.
members == <<it, itr, finished, refined, count, stage, used, bndFace, ghostData, ghost, usol, ulim>>

\* A point of which one part differs.
SamePoint(p, q) == q.diag = p.diag /\ q.ref = p.ref /\ q.vol = p.vol /\ q.req = p.req /\ q.sent = p.sent

At(p, a) == [p EXCEPT !.at = a]

\* Chare i sends its cells of kind x, taking the calls M.
SendNeeds(x) == IF x = "lim" THEN {own("sol"), com("sol")} ELSE {}

Sending(c, i, x, M) ==
  LET p == c.of[i]
      e == SendCells(i, CallOf[x], x)
  IN  /\ \/ x = "init" /\ p.at = 5
         \/ x = "sol" /\ p.at = 10
         \/ x = "lim" /\ p.at = 11 /\ Ndof > 1
      /\ \A t \in SendNeeds(x) : trigger[i][t] > 0
      /\ \A m \in M : m.type = AtCall(p.at) /\ m.to = i
      /\ p.at # 11 => \A m \in msgs : m.type = AtCall(p.at) /\ m.to = i => m \in M
      /\ msgs' = (msgs \ M) \cup e.calls
      /\ Acts(i, SendNeeds(x), e) /\ UNCHANGED members

\* DG::lim without limiter functions, dt
Limiting(c, i, ns, e, b) ==
  \/ /\ c.of[i].at = 11 /\ b = 12 /\ Ndof = 1
     /\ ns = {own("sol"), com("sol")} /\ e = Triggers({own("lim"), com("lim")})
  \/ /\ c.of[i].at = 12 /\ b = 13
     /\ ns = {own("lim"), com("lim")} /\ e = Contributes("worker", "solve")

\* Chare i takes a call with cells of kind x.
Hearing(c, i, m, x) ==
  LET last == count[i][x] + 1 = Cardinality(Fac[i])
  IN  /\ m.type = CallOf[x]
      /\ count' = [count EXCEPT ![i][x] = IF last THEN 0 ELSE count[i][x] + 1]
      /\ Take(i, m, IF last THEN Triggers({com(x)}) ELSE Nothing)
      /\ usol' = IF x = "lim" THEN usol ELSE [usol EXCEPT ![i] = Cells(usol[i], m)]
      /\ ulim' = IF x = "lim" THEN [ulim EXCEPT ![i] = Cells(ulim[i], m)] ELSE ulim
      /\ UNCHANGED <<it, itr, finished, refined, stage, used, bndFace, ghostData, ghost>>

\* Where all chares are while they ask for ghost data: in the set up, or on a new mesh.
AskAt(c, i) ==
  LET p == c.of[i]
  IN  /\ c.mesh = 0 => /\ p.at \in 0 .. 2 /\ c.phase = 0 /\ p.ref = 0 /\ ~ Made(c, p)
                       /\ it[i] = c.it /\ stage[i] = c.st /\ itr[i] = Base(c)
      /\ c.mesh # 0 => /\ p.at \in 15 .. 17 /\ c.mesh = 4 /\ c.phase = 4 /\ c.st = 2 /\ p.ref = 3 /\ Made(c, p) /\ c.work
                       /\ it[i] = Now(c) /\ stage[i] = 2 /\ itr[i] = Base(c) + 1

\* What the triggers for ghost data say.
GhostSays(c, i) ==
  LET p == c.of[i]
      Says(t, b) == trigger[i][t] \in {0, 1} /\ (trigger[i][t] = 1 => b)
  IN  /\ Says(own("ghost"), p.req /\ ~p.sent)
      /\ Says(com("ghost"), Nbr[i] # {} /\ Arrived(c, "req", i) = Nbr[i] /\ ~p.sent)

\* Chare i stays where it is, at q but for what it asked for and sent of the ghosts.
SameAt(p, q) == q.at = p.at /\ q.diag = p.diag /\ q.ref = p.ref /\ q.vol = p.vol

Sits(c, d, i) ==
  /\ it'[i] = it[i] /\ itr'[i] = itr[i] /\ stage'[i] = stage[i] /\ refined'[i] = refined[i]
  /\ usol'[i] = usol[i] /\ ulim'[i] = ulim[i] /\ used'[i] = used[i]
  /\ \A a \in Array : contrib'[a][i] = contrib[a][i]
  /\ \A n \in msgs' \ msgs : \E x \in DGKind : n.type = CallOf[x]
  /\ \A x \in DGKind : Traded(d, x)' /\ \A j \in Chare \ {i} : Arrived(d, x, j)' = Arrived(c, x, j)
  /\ \A x \in {"vol", "init", "sol", "lim"} : Arrived(d, x, i)' = Arrived(c, x, i)
  /\ \A t \in Trigger : t # own("ghost") /\ t # com("ghost") => trigger'[i][t] = trigger[i][t]

\* Chare i takes call m of kind x, and makes the calls s of other kinds.
Hears(c, d, i, m, x, s) ==
  /\ m \in msgs /\ m.type = CallOf[x] /\ m.to = i
  /\ msgs' = (msgs \ {m}) \cup s /\ \A n \in s : n.type # CallOf[x]
  /\ count'[i][x] = IF count[i][x] + 1 = Cardinality(From(x, i)) THEN 0 ELSE count[i][x] + 1
  /\ \A j \in Chare \ {i} : count'[j][x] = count[j][x]
  /\ SentAt(c, d.of[i], x) <=> SentAt(c, c.of[i], x)
  /\ OverAt(c, d.of[i], x) => OverAt(c, c.of[i], x)

\* Chare i takes a ghost: what is left is whether it is the last one.
GhostCame(c, i, m) ==
  /\ i \in Chare /\ AskAt(c, i) /\ m.from \in Fac[i] /\ m.from \notin Arrived(c, "ghost", i)
  /\ c.of[i].req /\ Arrived(c, "fac", i) = Nbr[i] /\ c.of[i].at \in {1, 16} /\ Asking(c, c.of[i])
  /\ ghostData[i] = Fac[i] /\ bndFace[i] = Fac[i] /\ DOMAIN ghost[i] = Arrived(c, "ghost", i)

\* The end of a step has been signalled, and is taken up.
SpendsStep(i) ==
  LET ns == {done("diag"), done("ref"), done("resize")}
  IN  /\ \A t \in Trigger : trigger'[i][t] = (IF t \in ns THEN trigger[i][t] - 1 ELSE trigger[i][t]) + 0
      /\ \A t \in ns : trigger[i][t] > 0

\* Chare i begins to ask for ghost data, taking the calls M.
Asks(c, i, M, ns) ==
  LET p == c.of[i]
      e == AsksForFaces(i)
  IN  /\ \/ p.at = 0 /\ ns = {} /\ (\A m \in M : m = [type |-> "create", to |-> i]) /\ [type |-> "create", to |-> i] \in M
         \/ /\ p.at = 15 /\ M = {} /\ ns = {done("diag"), done("ref"), done("resize")}
            /\ (\A t \in ns : trigger[i][t] > 0) /\ Renews(c)
      /\ msgs' = (msgs \ M) \cup e.calls /\ Acts(i, ns, e) /\ ResizeComm(i)
      /\ UNCHANGED <<it, itr, finished, refined, count, stage, used, usol, ulim>>

\* What the triggers that end a step say.
EndSays(c, p, i) ==
  LET Says(t, b) == trigger[i][t] \in {0, 1} /\ (trigger[i][t] = 1 => b)
  IN  /\ Says(done("diag"), p.diag = 3)
      /\ Says(done("ref"), Renews(c) => p.ref = 3)
      /\ Says(done("resize"), Renews(c) => p.vol = 6)

\* Chare i stays at point 15, but for diagnostics, mesh and volumes.
Turns(c, d, i) ==
  /\ c.of[i].at = 15 /\ d.of[i].at = 15 /\ d.of[i].req = c.of[i].req /\ d.of[i].sent = c.of[i].sent
  /\ used'[i] = used[i]
  /\ \/ usol'[i] = usol[i] /\ ulim'[i] = ulim[i]
     \/ usol'[i] = {} /\ ulim'[i] = {}
  /\ \A x \in DGKind : Traded(d, x)' /\ \A j \in Chare \ {i} : Arrived(d, x, j)' = Arrived(c, x, j)
  /\ \A x \in DGKind \ {"vol"} : Arrived(d, x, i)' = Arrived(c, x, i)
  /\ \A t \in Trigger : t \notin {done("diag"), done("ref"), done("resize")} => trigger'[i][t] = trigger[i][t]

\* A point of another state of diagnostics, mesh and volumes.
Turned(p, dg, rf, vl) == [p EXCEPT !.diag = dg, !.ref = rf, !.vol = vl]

\* Chare i takes call m about the end of the step, which signals the end x of a part of it.
Ends(c, i, m, x) ==
  /\ m.to = i
  /\ \/ m.type = "diag" /\ x = "diag"
     \/ m.type = "resized" /\ x = "resize"
  /\ Take(i, m, Triggers({done(x)})) /\ UNCHANGED members

\* Chare i gets on with the volumes of its new mesh, taking call m with effect e.
Measures(c, d, i, m, e) ==
  LET p == c.of[i]
      q == d.of[i]
  IN  /\ p.vol \in 1 .. 3 /\ q.at = 15 /\ q.diag = p.diag /\ q.ref = 3 /\ q.req = p.req /\ q.sent = p.sent
      /\ IF p.vol = 3 THEN q.vol \in 3 .. 4 ELSE q.vol \in 1 .. 2
      /\ m.to = i /\ msgs' = (msgs \ {m}) \cup e.calls /\ Acts(i, {}, e)
      /\ \A n \in e.calls : n.type = CallOf["vol"]
      /\ e.triggers = {} /\ (\A a \in Array \ {"disc"} : TargetsOn(a, e) = <<>>)
      /\ UNCHANGED <<it, itr, finished, refined, stage, used, bndFace, ghostData, ghost, usol, ulim>>
      /\ (\A j \in Chare \ {i} : count'[j] = count[j]) /\ (\A y \in DGKind \ {"vol"} : count'[i][y] = count[i][y])
      /\ count' \in [Chare -> [DGKind -> Nat]]
      /\ m.type = "com" \/ m = [type |-> m.type, to |-> i]
      /\ \/ m.type = "com" /\ q.vol = p.vol
         \/ m.type = "vol" /\ p.vol = 1
         \/ m.type = "totalvol" /\ p.vol = 3
      /\ Traded(d, "vol")' /\ (\A j \in Chare \ {i} : Arrived(d, "vol", j)' = Arrived(c, "vol", j))
      /\ contrib'["disc"][i] \in IF q.vol = 4 THEN {<<"totalvol">>} ELSE IF q.vol = 3 THEN {<<>>} ELSE {<<>>, <<"vol">>}
      /\ q.vol \in {1, 2} /\ contrib'["disc"][i] = <<"vol">> =>
           Arrived(d, "vol", i)' = Nbr[i] /\ (Nbr[i] = {} => q.vol = 2)

\* Chare i updates its solution on call m, with effect e.
Solves(c, d, i, m, e) ==
  LET p == c.of[i]
      q == d.of[i]
  IN  /\ p.at = 14 /\ q.at \in {15, 22} /\ q.vol = 0 /\ q.req = p.req /\ q.sent = p.sent /\ q.ref \in 0 .. 1
      /\ m = [type |-> "solve", to |-> i] /\ msgs' = msgs \ {m} /\ Acts(i, {}, e) /\ Update(i)
      /\ UNCHANGED <<itr, finished, count, bndFace, ghostData, ghost, usol, ulim>>
      /\ it' \in [Chare -> Nat] /\ stage' \in [Chare -> Nat] /\ refined' \in [Chare -> BOOLEAN]
      /\ (\A j \in Chare \ {i} : it'[j] = it[j] /\ stage'[j] = stage[j] /\ refined'[j] = refined[j])
      /\ e.triggers \subseteq {done("diag"), done("ref"), done("resize")}
      /\ q.at = 22 => e.triggers = {}
      /\ done("diag") \in e.triggers => q.diag = 3
      /\ done("ref") \in e.triggers \/ done("resize") \in e.triggers => ~ Renews(c)

\* Chare i ends a step on calls M, with effect e, and is at b then.
Steps(c, i, M, ns, e, b) ==
  LET p == c.of[i]
  IN  /\ \/ /\ p.at = 15 /\ M = {} /\ ns = {done("diag"), done("ref"), done("resize")} /\ (\A t \in ns : trigger[i][t] > 0)
            /\ ~ Renews(c) /\ p.diag = 3
         \/ /\ p.at \in {18, 20, 23} /\ ns = {} /\ (\A m \in M : m = [type |-> AtCall(p.at), to |-> i])
            /\ [type |-> AtCall(p.at), to |-> i] \in M
      /\ msgs' = (msgs \ M) \cup e.calls /\ Acts(i, ns, e) /\ e.triggers = {}
      /\ UNCHANGED <<it, itr, finished, refined, count, used, bndFace, ghostData, ghost, usol, ulim>>
      /\ stage' = [stage EXCEPT ![i] = IF b = 19 THEN 3 ELSE 0]
      /\ TargetsOn("refiner", e) = <<>> /\ TargetsOn("worker", e) = IF b = 24 THEN <<"finish">> ELSE <<>>
      /\ TargetsOn("disc", e) = IF b = 22 THEN <<"advance">> ELSE <<>>
      /\ TargetsOn("sync", e) \in IF b = 21 THEN {<<"sync">>} ELSE IF b = 22 /\ Nonblocking THEN {<<>>, <<"sync">>} ELSE {<<>>}
      /\ \/ b = 19 /\ p.at < 19 /\ Writes(c) /\ e.calls = {Dump(i, "step")}
         \/ b = 24 /\ p.at # 23 /\ Now(c) = NStep /\ e.calls = {}
         \/ b = 21 /\ p.at # 23 /\ Now(c) # NStep /\ ~ Nonblocking /\ e.calls = {}
         \/ b = 22 /\ Now(c) # NStep /\ e.calls = {}

\* Where a chare is after step n.
NextAt(n) == IF n = NStep THEN 24 ELSE IF n % LbFreq # 0 \/ Nonblocking THEN 22 ELSE 21

\* What an effect e that ends a step at point b contributes to.
StepSays(e, b) ==
  /\ e.triggers = {}
  /\ TargetsOn("refiner", e) = <<>>
  /\ TargetsOn("worker", e) = IF b = 24 THEN <<"finish">> ELSE <<>>
  /\ TargetsOn("disc", e) = IF b = 22 THEN <<"advance">> ELSE <<>>
  /\ TargetsOn("sync", e) \in IF b = 21 THEN {<<"sync">>} ELSE IF b = 22 /\ Nonblocking THEN {<<>>, <<"sync">>} ELSE {<<>>}

\* The run is in the same stage of the same step.
SameStep(c, d) == d.it = c.it /\ d.st = c.st

\* Where a chare goes together with all others, such that what is true of its members and
\* triggers remains true.
Shifts(c, d, i) ==
  LET p == c.of[i]
      q == d.of[i]
  IN  /\ (q.ref = 3 <=> p.ref = 3) /\ (Made(d, q) <=> Made(c, p)) /\ q.req = p.req /\ q.sent = p.sent
      /\ (q.at < 15 <=> p.at < 15) /\ (q.at < 19 <=> p.at < 19) /\ (q.at < 21 <=> p.at < 21)
      /\ (Asking(c, q) <=> Asking(c, p)) /\ (q.at \in {1, 2, 16, 17} => q.at = p.at)
      /\ OverAt(d, q, "fac") => Nbr[i] = {} \/ p.sent
      /\ \/ p.at \notin {5, 6, 10, 11, 12, 15}
         \/ q.at = p.at /\ (p.diag = 3 => q.diag = 3) /\ (p.vol = 6 => q.vol = 6)
      /\ \/ q.at \notin 10 .. 14
         \/ p.at \in 10 .. 14 /\ (q.at <= 11 <=> p.at <= 11) /\ (q.at <= 12 <=> p.at <= 12)
      /\ c.phase >= 3 => d.phase >= 3
      /\ (\A n : Due(p, n) => Due(q, n)) /\ (p.at \in {7, 19} => q.at = p.at)

\* The members of the chares.
held == <<it, itr, refined, count, stage, used, bndFace, ghostData, ghost, usol, ulim>>

\* What is sent and counted, after all chares have moved: nothing of it has changed.
Trades(c, d) ==
  \A x \in DGKind :
    /\ SameTags(c, d, x)
    /\ \A j \in Chare : /\ SentAt(d, d.of[j], x) <=> SentAt(c, c.of[j], x)
                        /\ OverAt(d, d.of[j], x) => OverAt(c, c.of[j], x) \/ Arrived(c, x, j) = From(x, j)

\* All chares are at b then, in phase ph and with mesh ms.
AllAt(c, ph, ms, b) ==
  [c EXCEPT !.phase = ph, !.mesh = ms, !.of = [i \in Chare |-> At(c.of[i], b)]]

\* A target of the workers that does not end a step: of "comfinal", "sendinit".
Starting(c, ph, b, r) ==
  \/ r = "comfinal" /\ c.phase = 0 /\ ph = 1 /\ b = 3
  \/ r = "sendinit" /\ ph = 2 /\ b = 5

\* All chares go on with the end of the step.
AllTurn(c, ms, b, w, g, f) ==
  [c EXCEPT !.mesh = ms, !.disc = b, !.work = w, !.diagnosed = g, !.of = f]

MidPoint(c, i, p, q) ==
  /\ p.at = 15 /\ q.at = 15 /\ q.req = p.req /\ q.sent = p.sent
  /\ (q.ref = 3 <=> p.ref = 3) /\ (p.ref = 2 => q.ref = 2) /\ (p.diag = 3 => q.diag = 3) /\ (p.diag = 2 => q.diag = 2)
  /\ (p.vol \in {1, 3, 5, 6} => q.vol = p.vol) /\ (q.vol >= 2 <=> p.vol >= 2)
  /\ (q.vol >= 3 => p.vol >= 3 \/ Arrived(c, "vol", i) = Nbr[i])

Mid(c, d) ==
  /\ SameStep(c, d) /\ c.phase = 4 /\ d.phase = 4 /\ c.st = 2 /\ d.mesh # 5
  /\ (d.mesh > 0) <=> (c.mesh > 0)
  /\ \A i \in Chare : MidPoint(c, i, c.of[i], d.of[i])

\* The volumes of all chares.
Measured(r, t, vl, ms) ==
  \/ r = "vol" /\ t = "totalvol" /\ vl = 3 /\ ms = 3
  \/ r = "totalvol" /\ t = "resized" /\ vl = 5 /\ ms = 4

Noted(a, r, x) ==
  \/ a = "disc" /\ r = "discresized" /\ x = "disc"
  \/ a = "worker" /\ r = "workresized" /\ x = "work"

\* All chares get a new mesh.
Renewed(p) == [p EXCEPT !.ref = 2, !.req = FALSE, !.sent = FALSE]

\* All chares are done with a stage, the next one is s of step n + 1.
Ahead(c, n, s) ==
  \/ c.phase = 2 /\ n = c.it /\ s = c.st /\ \A i \in Chare : c.of[i].at = 9
  \/ /\ c.phase = 4 /\ \A i \in Chare : c.of[i].at = 22
     /\ \/ c.st < 2 /\ n = c.it /\ s = c.st + 1
        \/ c.st = 2 /\ n = Now(c) /\ s = 0

Ready(c, n, s, i) ==
  LET p == c.of[i]
  IN  /\ p.at \in {9, 22} /\ p.diag \in {0, 3} /\ p.ref \in {0, 3} /\ p.vol \in {0, 6}
      /\ (c.mesh = 0 \/ c.mesh = 5) /\ (c.mesh = 0 <=> p.vol = 0) /\ (p.ref = 3 => c.work)
      /\ it[i] = n /\ stage[i] = s /\ itr[i] = MeshOf(n) /\ ~ finished
      /\ \A u \in used[i] : StageFollows(u, [it |-> n, stage |-> s])
      /\ (Nbr[i] = {} \/ (p.req /\ p.sent)) /\ (Nbr[i] = {} => ~ p.req)

\* All chares start the next stage.
Restarted(p) == [p EXCEPT !.at = 10, !.diag = 0, !.ref = 0, !.vol = 0]

Onward(c, n, s, f) ==
  [it |-> n, st |-> s, phase |-> 3, mesh |-> 0, disc |-> FALSE, work |-> FALSE, diagnosed |-> FALSE, of |-> f]

Starts(d, n, s) ==
  d.it = n /\ d.st = s /\ d.phase = 3 /\ d.mesh = 0 /\ ~ d.disc /\ ~ d.work /\ ~ d.diagnosed

StartsAt(p, q) == q.at = 10 /\ q.diag = 0 /\ q.ref = 0 /\ q.vol = 0 /\ q.req = p.req /\ q.sent = p.sent

\* A reduction to advance() of the workers or their Discretizations completes.
Advances(c, a) ==
  \A i \in Chare : /\ contrib[a][i] # <<>> /\ Head(contrib[a][i]) = "advance"
                   /\ \A b \in Array : contrib'[b][i] = IF b = a THEN Tail(contrib[b][i]) ELSE contrib[b][i]

\* In some configuration.
Configured == \E c \in Config : DGInv(c)

\* Before any chare is created.
Outset(c) ==
  /\ c.it = 0 /\ c.st = 0 /\ c.phase = 0 /\ c.mesh = 0 /\ ~ c.disc /\ ~ c.work /\ ~ c.diagnosed
  /\ \A i \in Chare : LET p == c.of[i]
                      IN  p.at = 0 /\ p.diag = 0 /\ p.ref = 0 /\ p.vol = 0 /\ ~ p.req /\ ~ p.sent

Follows == \A i \in Chare : \A s \in used[i], t \in used'[i] : s # t => StageFollows(s, t)
==============================================================================
