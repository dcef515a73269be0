------------------------------- MODULE Walker -------------------------------
(***************************************************************************)
(* The time stepping of walker: the chare array Integrator                 *)
(* (src/Walker/Integrator.C) advances particles and sums their statistics  *)
(* (src/Statistics/Statistics.C); a branch of the group Collector          *)
(* (src/Walker/Collector.C) on every PE adds up the sums of its            *)
(* Integrators, which call it directly; the chare Distributor              *)
(* (src/Walker/Distributor.C, distributor.ci) reduces them to estimates,   *)
(* writes files and starts the next step.                                  *)
(*                                                                         *)
(* Calls between chares are messages delivered in any order.  Contributions*)
(* to reductions match by their position in the sequence each contributor  *)
(* makes; a completed reduction is a message to Distributor as well.       *)
(*                                                                         *)
(* A sum over the particles of a PE is the bag of the samples added up: an *)
(* Integrator and the number of times it had been advanced.  A sum over all*)
(* PEs keeps the parts of the PEs apart.  The sums a central moment is     *)
(* about are part of its sample.  Time is in whole units.                  *)
(***************************************************************************)
EXTENDS Integers, Sequences, FiniteSets, Bags

CONSTANTS
  NChare,     \* number of Integrators
  NPe,        \* number of processing elements
  Home,       \* the PE of each Integrator
  NStep,      \* tag::discr, tag::nstep
  Term,       \* tag::discr, tag::term
  Dt,         \* tag::discr, tag::dt
  StatFreq,   \* tag::interval, tag::stat
  PdfFreq,    \* tag::interval, tag::pdf
  Deck        \* input decks: whether moments or PDFs, and PDFs, are requested

Chare == 0 .. (NChare - 1)
Pe == 0 .. (NPe - 1)

\* linearLoadDistributor() makes at least as many Integrators as there are PEs, and
\* the default array map leaves no PE without one.
ASSUME WalkerAssumption ==
  /\ NChare \in Nat \ {0} /\ NPe \in Nat \ {0}
  /\ Home \in [Chare -> Pe] /\ \A p \in Pe : \E i \in Chare : Home[i] = p
  /\ NStep \in Nat \ {0} /\ Term \in Nat \ {0} /\ Dt \in Nat \ {0}
  /\ StatFreq \in Nat \ {0} /\ PdfFreq \in Nat \ {0}
  /\ Deck \subseteq [stat : BOOLEAN, pdf : BOOLEAN] /\ \A d \in Deck : d.pdf => d.stat

VARIABLES
  inputdeck,    \* g_inputdeck
  it, t,        \* Distributor: m_it, m_t
  est,          \* m_ordinary, m_central, PDFs, by the call that estimates them
  moments,      \* m_moments: moments of the last step, for the equations
  inflight,     \* wait4ord and wait4pdf calls on their way
  waiting,      \* posted waits
  trigger,      \* buffered triggers of the waits
  statfile,     \* statistics file
  pdffile,      \* PDF files
  finished,     \* mainProxy.finalize() has been called
  age,          \* Integrator: how often its particles have been advanced
  stat,         \* m_stat: its accumulators
  nchare,       \* Collector: m_nchare
  ncall,        \* m_nord and m_ncen
  sums,         \* its accumulators
  msgs,         \* calls to Integrators in flight
  arrayContrib, \* contributions of each Integrator, in order
  groupContrib, \* contributions of each Collector branch, in order
  heard         \* positions of the reductions received by Distributor

vars == <<inputdeck, it, t, est, moments, inflight, waiting, trigger, statfile, pdffile,
          finished, age, stat, nchare, ncall, sums, msgs, arrayContrib,
          groupContrib, heard>>

hostVars == <<inputdeck, it, t, est, moments, inflight, waiting, trigger, statfile, pdffile, finished>>
collectorVars == <<nchare, ncall, sums, groupContrib>>

Wait == {"wait4ord", "wait4pdf"}
Moment == {"estimateOrd", "estimateCen"}
Estimate == Moment \cup {"estimateOrdPDF", "estimateCenPDF"}

\* No sum yet, on any PE, and the sum of two.
NoSum == [p \in Pe |-> EmptyBag]
Plus(s1, s2) == [p \in Pe |-> s1[p] (+) s2[p]]

Stat == inputdeck.stat    \* g_inputdeck.stat()
Pdf == inputdeck.pdf      \* g_inputdeck.pdf()

Init ==
  /\ inputdeck \in Deck
  /\ it = 0 /\ t = 0
  /\ est = [e \in Estimate |-> NoSum]
  /\ moments = [e \in Moment |-> NoSum]
  /\ inflight = [w \in Wait |-> 1]
  /\ waiting = [w \in Wait |-> 0]
  /\ trigger = [e \in Estimate |-> 0]
  /\ statfile = {} /\ pdffile = {} /\ finished = FALSE
  /\ age = [i \in Chare |-> 0]
  /\ stat = [i \in Chare |-> [e \in Estimate |-> EmptyBag]]
  /\ nchare = [p \in Pe |-> 0]
  /\ ncall = [p \in Pe |-> [e \in Moment |-> 0]]
  /\ sums = [p \in Pe |-> [e \in Estimate |-> EmptyBag]]
  /\ msgs = {[type |-> "create", to |-> i] : i \in Chare}
  /\ arrayContrib = [i \in Chare |-> <<>>]
  /\ groupContrib = [p \in Pe |-> <<>>]
  /\ heard = [by \in {"array", "group"} |-> {}]

-----------------------------------------------------------------------------
\* Integrator::Integrator: check in with the Collector branch of the PE.
Create(i) ==
  LET m == [type |-> "create", to |-> i]
  IN  /\ m \in msgs
      /\ msgs' = msgs \ {m}
      /\ nchare' = [nchare EXCEPT ![Home[i]] = @ + 1]
      /\ arrayContrib' = [arrayContrib EXCEPT ![i] = Append(@, "registered")]
      /\ UNCHANGED <<age, stat, ncall, sums, groupContrib, heard>> /\ UNCHANGED hostVars

\* All Integrators of the PE have called the Collector branch.
AllCalled(p, n) == n = nchare[p]

\* Mutant of Cleared: the sums are not zeroed.
ClearedNot(total, pdf) == total

\* Sums set back after they are contributed.
Cleared(total, pdf) == [total EXCEPT ![pdf[1]] = EmptyBag, ![pdf[2]] = EmptyBag]

\* Collector::chareOrd and Collector::chareCen, for a moment and its PDFs: add the
\* sums s of an Integrator; at the last one, contribute both totals, the moment
\* first, and start over.
Collect(p, moment, pdf, s) ==
  LET total == [sums[p] EXCEPT ![moment] = @ (+) s[moment], ![pdf] = @ (+) s[pdf]]
      n == ncall[p][moment] + 1
  IN  \/ /\ AllCalled(p, n)
         /\ groupContrib' = [groupContrib EXCEPT ![p] =
              @ \o <<[target |-> moment, sum |-> total[moment]],
                     [target |-> pdf, sum |-> total[pdf]]>>]
         /\ sums' = [sums EXCEPT ![p] = Cleared(total, <<moment, pdf>>)]
         /\ ncall' = [ncall EXCEPT ![p][moment] = 0]
         /\ UNCHANGED nchare
      \/ /\ ~AllCalled(p, n)
         /\ sums' = [sums EXCEPT ![p] = total]
         /\ ncall' = [ncall EXCEPT ![p][moment] = n]
         /\ UNCHANGED <<nchare, groupContrib>>

\* Integrators sum PDFs in the first step, every PdfFreq steps, and in a step that
\* is the last by its number and by its time.
PdfDue(n, time) ==
  /\ Pdf
  /\ n = 0 \/ (n + 1) % PdfFreq = 0 \/ (time + Dt = Term /\ n + 1 >= NStep)

\* Integrator::accumulateOrd, with particles advanced to the given age.  PDFs that
\* are not due stay as they were last summed.
AccumulateOrd(i, n, time, a) ==
  LET sample == SetToBag({[of |-> i, age |-> a]})
      s == [stat[i] EXCEPT
              !["estimateOrd"] = sample,
              !["estimateOrdPDF"] = IF PdfDue(n, time) THEN sample ELSE @]
  IN  /\ stat' = [stat EXCEPT ![i] = s]
      /\ Collect(Home[i], "estimateOrd", "estimateOrdPDF", s)

\* Integrator::advance: advance the particles, but in step 0; sum statistics, if any.
Advance(i, m) ==
  LET a == IF m.it > 0 THEN age[i] + 1 ELSE age[i]
  IN  /\ age' = [age EXCEPT ![i] = a]
      /\ \/ /\ Stat
            /\ AccumulateOrd(i, m.it, m.t, a)
            /\ UNCHANGED arrayContrib
         \/ /\ ~Stat
            /\ arrayContrib' = [arrayContrib EXCEPT ![i] = Append(@, "nostat")]
            /\ UNCHANGED <<stat, collectorVars>>

\* The calls Integrator::setup (initial conditions, then advance) and advance.
Step(i) ==
  \E m \in msgs :
    /\ m.type \in {"setup", "advance"} /\ m.to = i
    /\ msgs' = msgs \ {m}
    /\ Advance(i, m)
    /\ UNCHANGED heard /\ UNCHANGED hostVars

\* Integrator::accumulateCen: the same about the ordinary moments of all particles.
AccumulateCen(i) ==
  \E m \in msgs :
    LET sample == SetToBag({[of |-> i, age |-> age[i], about |-> m.ord]})
        s == [stat[i] EXCEPT
                !["estimateCen"] = sample,
                !["estimateCenPDF"] = IF PdfDue(m.it, m.t) THEN sample ELSE @]
    IN  /\ m.type = "accumulateCen" /\ m.to = i
        /\ msgs' = msgs \ {m}
        /\ stat' = [stat EXCEPT ![i] = s]
        /\ Collect(Home[i], "estimateCen", "estimateCenPDF", s)
        /\ UNCHANGED <<age, arrayContrib, heard>> /\ UNCHANGED hostVars

-----------------------------------------------------------------------------
\* Mutant of Restart: the moments are not set back.
RestartNot(e) == e

\* Moments set back for the next step.
Restart(e) == [x \in Estimate |-> IF x \in Moment THEN NoSum ELSE e[x]]

\* Mutant of End: the last step is not cut.
EndUncut == t + Dt

\* The time at the end of the step.
End == IF t + Dt > Term THEN Term ELSE t + Dt

\* Distributor::evaluateTime, with estimates e: start the next step, or finish.
EvaluateTime(e, posting) ==
  /\ it' = it + 1
  /\ t' = End
  /\ \/ /\ End # Term /\ it + 1 < NStep
        /\ moments' = IF Stat THEN [x \in Moment |-> e[x]] ELSE moments
        /\ est' = IF Stat THEN Restart(e) ELSE e
        /\ inflight' = IF Stat THEN [w \in Wait |-> posting[w] + 1] ELSE posting
        /\ msgs' = msgs \cup
             {[type |-> "advance", to |-> i, it |-> it + 1, t |-> End, moments |-> moments'] : i \in Chare}
        /\ UNCHANGED finished
     \/ /\ ~(End # Term /\ it + 1 < NStep)
        /\ finished' = TRUE /\ est' = e /\ inflight' = posting
        /\ UNCHANGED <<moments, msgs>>

\* outPDF writes in the first step, every PdfFreq steps, and in the last step.
PdfOut == it = 0 \/ (it + 1) % PdfFreq = 0 \/ t + Dt = Term \/ it + 1 >= NStep

\* The body of wait4pdf: Distributor::outStat and outPDF, then evaluateTime.
OutPDF(e, posting) ==
  /\ statfile' = IF (it + 1) % StatFreq = 0
                 THEN statfile \cup {[step |-> it, est |-> [x \in Moment |-> e[x]]]}
                 ELSE statfile
  /\ pdffile' = IF Pdf /\ PdfOut
                THEN pdffile \cup {[step |-> it, est |-> [x \in Estimate \ Moment |-> e[x]]]}
                ELSE pdffile
  /\ EvaluateTime(e, posting)

\* The body of wait4ord: the ordinary moments are known, sum central moments.
StartCen(e, posting) ==
  /\ msgs' = msgs \cup
       {[type |-> "accumulateCen", to |-> i, it |-> it, t |-> t, ord |-> e["estimateOrd"]] : i \in Chare}
  /\ est' = e /\ inflight' = posting
  /\ UNCHANGED <<it, t, moments, statfile, pdffile, finished>>

\* Mutant of Needs: wait4pdf does not wait for the central PDFs.
NeedsNoPDF(w) == IF w = "wait4ord" THEN {"estimateOrd"} ELSE {"estimateCen", "estimateOrdPDF"}

\* The triggers each wait of distributor.ci waits for, named by their estimate.
Needs(w) == IF w = "wait4ord" THEN {"estimateOrd"} ELSE Estimate \ {"estimateOrd"}

\* Run the body of wait w, all of whose triggers are buffered.
Run(w, triggers, e, posting) ==
  /\ \A x \in Needs(w) : triggers[x] > 0
  /\ trigger' = [x \in Estimate |-> IF x \in Needs(w) THEN triggers[x] - 1 ELSE triggers[x]]
  /\ \/ w = "wait4ord" /\ StartCen(e, posting)
     \/ w = "wait4pdf" /\ OutPDF(e, posting)

\* A wait is delivered: run it if its triggers are there, else post it.
PostWait(w) ==
  LET posting == [inflight EXCEPT ![w] = @ - 1]
  IN  /\ inflight[w] > 0
      /\ \/ Run(w, trigger, est, posting) /\ UNCHANGED waiting
         \/ /\ \E x \in Needs(w) : trigger[x] = 0
            /\ waiting' = [waiting EXCEPT ![w] = @ + 1]
            /\ inflight' = posting
            /\ UNCHANGED <<it, t, est, moments, trigger, statfile, pdffile, finished, msgs>>
      /\ UNCHANGED <<inputdeck, age, stat, arrayContrib, heard>> /\ UNCHANGED collectorVars

\* Distributor::estimateOrd, estimateCen, estimateOrdPDF, estimateCenPDF: add the
\* total to the moment, or replace the PDFs, and trigger the wait for it.
Estimated(target, total) ==
  LET e == [est EXCEPT ![target] = IF target \in Moment THEN Plus(@, total) ELSE total]
      triggers == [trigger EXCEPT ![target] = @ + 1]
      w == IF target = "estimateOrd" THEN "wait4ord" ELSE "wait4pdf"
      runs == waiting[w] > 0 /\ \A x \in Needs(w) : triggers[x] > 0
  IN  \/ /\ waiting[w] > 0 /\ Run(w, triggers, e, inflight)
         /\ waiting' = [waiting EXCEPT ![w] = @ - 1]
      \/ /\ ~runs
         /\ est' = e /\ trigger' = triggers
         /\ UNCHANGED <<it, t, moments, inflight, waiting, statfile, pdffile, finished, msgs>>

\* A reduction over the Collector branches is complete; it is for the target the
\* first of them named.  CkReduction::sum_double and mergePDF add the totals.
GroupReduction(k) ==
  /\ k \notin heard["group"]
  /\ \A p \in Pe : k <= Len(groupContrib[p])
  /\ heard' = [heard EXCEPT !["group"] = @ \cup {k}]
  /\ Estimated(groupContrib[0][k].target, [p \in Pe |-> groupContrib[p][k].sum])
  /\ UNCHANGED <<inputdeck, age, stat, arrayContrib>> /\ UNCHANGED collectorVars

\* A reduction over the Integrators is complete: Distributor::registered or nostat.
ArrayReduction(k) ==
  /\ k \notin heard["array"]
  /\ \A i \in Chare : k <= Len(arrayContrib[i])
  /\ heard' = [heard EXCEPT !["array"] = @ \cup {k}]
  /\ \/ /\ arrayContrib[0][k] = "registered"
        /\ msgs' = msgs \cup
             {[type |-> "setup", to |-> i, it |-> it, t |-> t, moments |-> moments] : i \in Chare}
        /\ UNCHANGED hostVars
     \/ /\ arrayContrib[0][k] = "nostat"
        /\ EvaluateTime(est, inflight)
        /\ UNCHANGED <<waiting, trigger, statfile, pdffile>>
  /\ UNCHANGED <<inputdeck, age, stat, arrayContrib>> /\ UNCHANGED collectorVars

\* The run has ended and no call is left.
Exit == finished /\ msgs = {} /\ UNCHANGED vars

Next ==
  \/ \E i \in Chare : Create(i) \/ Step(i) \/ AccumulateCen(i)
  \/ \E w \in Wait : PostWait(w)
  \/ \E k \in 1 .. Len(groupContrib[0]) : GroupReduction(k)
  \/ \E k \in 1 .. Len(arrayContrib[0]) : ArrayReduction(k)
  \/ Exit

Spec == Init /\ [][Next]_vars

\* Charm++ delivers messages as long as there are any.
FairSpec == Spec /\ WF_vars(Next)

-----------------------------------------------------------------------------
\* The Integrators of a PE.
On(p) == {i \in Chare : Home[i] = p}

\* The estimate over all particles in step n: an ordinary moment or PDF,
All(n) == [p \in Pe |-> SetToBag({[of |-> i, age |-> n] : i \in On(p)})]

\* and a central one.
AllCen(n) ==
  [p \in Pe |-> SetToBag({[of |-> i, age |-> n, about |-> All(n)] : i \in On(p)})]

EstimateOf(x, n) == IF x \in {"estimateOrd", "estimateOrdPDF"} THEN All(n) ELSE AllCen(n)

\* Central sums are started about ordinary moments of all particles at this very
\* step, once per Integrator and step, while no Integrator has moved on
\* (Collector::chareOrd, Distributor::estimateOrd, wait4ord).
CenAboutAll ==
  \A m \in msgs : m.type = "accumulateCen" =>
    m.it = it /\ m.ord = All(it) /\ \A i \in Chare : age[i] = it

\* Equations are advanced with the moments of all particles at the last step
\* (Distributor::evaluateTime, Integrator::advance).
MomentsOfLastStep ==
  \A m \in msgs : m.type = "advance" /\ Stat =>
    m.moments = [x \in Moment |-> EstimateOf(x, m.it - 1)]

\* PDFs written in the first step and at the interval are of all particles at that
\* step, both the ordinary and the central, though the latter overlap with the
\* rest of the step (wait4pdf, Integrator::accumulateOrd, accumulateCen).
PdfFile ==
  \A r \in pdffile : r.step = 0 \/ (r.step + 1) % PdfFreq = 0 =>
    r.est = [x \in Estimate \ Moment |-> EstimateOf(x, r.step)]

\* Each wait is posted once per step and each trigger consumed in its step: none is
\* left over to fire early in a later one (distributor.ci, evaluateTime).
WaitsMatch ==
  /\ \A w \in Wait : inflight[w] + waiting[w] <= 1
  /\ \A x \in Estimate : trigger[x] <= 1 /\ (finished => trigger[x] = 0)

\* All steps are taken, each with the statistics it owes.
NSteps == LET byTime == (Term + Dt - 1) \div Dt IN IF byTime < NStep THEN byTime ELSE NStep

Promise == INSTANCE TimeSteps WITH
  due <- {n \in 0 .. (NSteps - 1) : Stat /\ (n + 1) % StatFreq = 0},
  Estimate <- [n \in 0 .. (NSteps - 1) |-> [x \in Moment |-> EstimateOf(x, n)]],
  file <- statfile

\* The three chare classes implement the time stepping they promise, to its end.
ImplementsTimeSteps == Promise!Spec

\* "Accumulate sums for ordinary PDFs at first and last iterations and at select
\* times" (Integrator::accumulateOrd): PDFs written in the last step are of it.
PdfsOfLastStep ==
  \A r \in pdffile : r.est = [x \in Estimate \ Moment |-> EstimateOf(x, r.step)]
=============================================================================
