--------------------------- MODULE WalkerInvariant ---------------------------
(***************************************************************************)
(* What is true in every state of Walker, as a function of a few facts     *)
(* about where the run is: which Integrators have still to do their part   *)
(* of the step (P), which estimates of the step Distributor has received   *)
(* (H), and whether central moments have been started (cen).               *)
(***************************************************************************)
EXTENDS Walker

\* The order in which a Collector branch contributes in every step.
Position == [x \in Estimate |->
  CASE x = "estimateOrd" -> 1 [] x = "estimateOrdPDF" -> 2 [] x = "estimateCen" -> 3 [] OTHER -> 4]

\* PDFs are summed in step n whatever the time is.
Due(n) == Pdf /\ (n = 0 \/ (n + 1) % PdfFreq = 0)

\* The moment the Integrators are summing, its PDFs, and a sample of one of them.
Current(cen) == IF cen THEN "estimateCen" ELSE "estimateOrd"
CurrentPdf(cen) == IF cen THEN "estimateCenPDF" ELSE "estimateOrdPDF"
Sample(cen, i) == IF cen THEN [of |-> i, age |-> it, about |-> All(it)] ELSE [of |-> i, age |-> it]

\* PE p has still to contribute, and what it has added up until then.
Busy(p, P) == On(p) \cap P # {}
Partial(p, P, cen) == SetToBag({Sample(cen, i) : i \in On(p) \ P})

StepMessage(i) ==
  [type |-> IF it = 0 THEN "setup" ELSE "advance", to |-> i, it |-> it, t |-> t, moments |-> moments]
CenMessage(i) == [type |-> "accumulateCen", to |-> i, it |-> it, t |-> t, ord |-> All(it)]

-----------------------------------------------------------------------------
\* A function on S, and a sequence.
IsOn(f, S) == f = [x \in S |-> f[x]]
IsSeq(s) == Len(s) \in Nat /\ s = [k \in 1 .. Len(s) |-> s[k]]

\* Variables are functions on the sets they are about.
Shape ==
  /\ inputdeck \in Deck /\ it \in Nat /\ t \in Nat /\ finished \in BOOLEAN
  /\ IsOn(est, Estimate) /\ IsOn(moments, Moment)
  /\ inflight \in [Wait -> Nat] /\ waiting \in [Wait -> Nat] /\ trigger \in [Estimate -> Nat]
  /\ IsOn(stat, Chare) /\ \A i \in Chare : IsOn(stat[i], Estimate)
  /\ IsOn(sums, Pe) /\ \A p \in Pe : IsOn(sums[p], Estimate)
  /\ IsOn(groupContrib, Pe) /\ \A p \in Pe : IsSeq(groupContrib[p])
  /\ nchare \in [Pe -> Nat] /\ ncall \in [Pe -> [Moment -> Nat]]
  /\ arrayContrib \in [Chare -> Seq({"registered", "nostat"})]
  /\ IsOn(heard, {"array", "group"})

\* The run stops at the first step that reaches the terminate time or number.
Time == ~finished => t = it * Dt /\ t < Term /\ it < NStep

-----------------------------------------------------------------------------
\* The Integrators in C exist; nothing else has happened but that waits were posted.
Starting(C) ==
  /\ C \subseteq Chare
  /\ it = 0 /\ ~finished
  /\ msgs = {[type |-> "create", to |-> i] : i \in Chare \ C}
  /\ arrayContrib = [i \in Chare |-> IF i \in C THEN <<"registered">> ELSE <<>>]
  /\ heard["array"] = {} /\ heard["group"] = {}
  /\ age = [i \in Chare |-> 0]
  /\ nchare = [p \in Pe |-> Cardinality(On(p) \cap C)]
  /\ ncall = [p \in Pe |-> [x \in Moment |-> 0]]
  /\ sums = [p \in Pe |-> [x \in Estimate |-> EmptyBag]]
  /\ groupContrib = [p \in Pe |-> <<>>]
  /\ est = [x \in Estimate |-> NoSum]
  /\ trigger = [x \in Estimate |-> 0]
  /\ \A w \in Wait : inflight[w] + waiting[w] = 1
  /\ pdffile = {}

\* Distributor, in a step with statistics: the triggers of what it has received,
\* but for the one that started central moments, and estimates e over all particles.
Estimates(H, cen, triggers, e) ==
  /\ H \subseteq Estimate /\ (cen => "estimateOrd" \in H)
  /\ triggers = [x \in Estimate |-> IF x \in H /\ ~(cen /\ x = "estimateOrd") THEN 1 ELSE 0]
  /\ IsOn(e, Estimate)
  /\ \A x \in Moment : e[x] = IF x \in H THEN EstimateOf(x, it) ELSE NoSum
  /\ \A x \in H : Due(it) => e[x] = EstimateOf(x, it)

\* Its waits: not posted while their triggers are there.
Waits(H, cen) ==
  /\ inflight["wait4ord"] + waiting["wait4ord"] = IF cen THEN 0 ELSE 1
  /\ inflight["wait4pdf"] + waiting["wait4pdf"] = 1
  /\ waiting["wait4ord"] > 0 => "estimateOrd" \notin H
  /\ waiting["wait4pdf"] > 0 => ~ (Estimate \ {"estimateOrd"} \subseteq H)

\* Collector branch of PE p: partial sums, and what it has contributed in the step.
Collected(p, P, cen) ==
  /\ nchare[p] = Cardinality(On(p))
  /\ \A x \in Moment : ncall[p][x] = IF x = Current(cen) /\ Busy(p, P) THEN Cardinality(On(p) \ P) ELSE 0
  /\ \A x \in Estimate : ~ (x \in {Current(cen), CurrentPdf(cen)} /\ Busy(p, P)) => sums[p][x] = EmptyBag
  /\ Busy(p, P) => /\ sums[p][Current(cen)] = Partial(p, P, cen)
                   /\ Due(it) => sums[p][CurrentPdf(cen)] = Partial(p, P, cen)
  /\ Len(groupContrib[p]) = 4 * it + (IF cen THEN 2 ELSE 0) + (IF Busy(p, P) THEN 0 ELSE 2)
  /\ \A x \in Estimate : 4 * it + Position[x] <= Len(groupContrib[p]) =>
       LET c == groupContrib[p][4 * it + Position[x]]
       IN  c.target = x /\ (x \in Moment \/ Due(it) => c.sum = EstimateOf(x, it)[p])

\* The Integrators in P have still to do their part of step it.
Running(P, H, cen) ==
  /\ Stat /\ ~finished /\ P \subseteq Chare /\ cen \in BOOLEAN
  /\ msgs = {IF cen THEN CenMessage(i) ELSE StepMessage(i) : i \in P}
  /\ arrayContrib = [i \in Chare |-> <<"registered">>]
  /\ heard["array"] = {1}
  /\ heard["group"] = 1 .. (4 * it) \cup {4 * it + Position[x] : x \in H}
  /\ age = [i \in Chare |-> IF i \in P /\ ~cen /\ it > 0 THEN it - 1 ELSE it]
  /\ Estimates(H, cen, trigger, est)
  /\ Waits(H, cen)
  /\ it > 0 => moments = [x \in Moment |-> EstimateOf(x, it - 1)]
  /\ \A p \in Pe : Collected(p, P, cen)
  /\ \A x \in H, p \in Pe : 4 * it + Position[x] <= Len(groupContrib[p])

\* All steps are taken, with statistics.
Done ==
  /\ Stat /\ finished
  /\ msgs = {}
  /\ arrayContrib = [i \in Chare |-> <<"registered">>]
  /\ heard["array"] = {1} /\ heard["group"] = 1 .. (4 * it)
  /\ \A p \in Pe : Len(groupContrib[p]) = 4 * it
  /\ trigger = [x \in Estimate |-> 0]
  /\ \A w \in Wait : inflight[w] = 0 /\ waiting[w] = 0

\* A run without statistics: contributions of the Integrators, of which those in P
\* have still to take the step.
Skipping(P) ==
  /\ ~Stat /\ P \subseteq Chare /\ (finished => P = {})
  /\ msgs = {StepMessage(i) : i \in P}
  /\ \A i \in Chare :
       /\ Len(arrayContrib[i]) = it + (IF i \in P \/ finished THEN 1 ELSE 2)
       /\ \A k \in 1 .. Len(arrayContrib[i]) : arrayContrib[i][k] = IF k = 1 THEN "registered" ELSE "nostat"
  /\ heard["array"] = 1 .. (it + 1)
  /\ groupContrib = [p \in Pe |-> <<>>]
  /\ trigger = [x \in Estimate |-> 0]
  /\ \A w \in Wait : inflight[w] + waiting[w] = 1
  /\ pdffile = {}

Phase ==
  \/ \E C \in SUBSET Chare : Starting(C)
  \/ \E P \in SUBSET Chare, H \in SUBSET Estimate, cen \in BOOLEAN : Running(P, H, cen)
  \/ Done
  \/ \E P \in SUBSET Chare : Skipping(P)

WalkerInv == Shape /\ Time /\ Phase /\ PdfFile
=============================================================================
