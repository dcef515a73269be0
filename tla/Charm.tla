-------------------------------- MODULE Charm --------------------------------
(***************************************************************************)
(* The part of the Charm++ runtime the chare arrays of Inciter rely on.    *)
(* An object is an element of the chare arrays that are bound to each      *)
(* other (a worker with its Discretization, DistFCT and Refiner) or the    *)
(* single chare Host, the Transporter.                                     *)
(*                                                                         *)
(* A call is a message; messages arrive in any order, once.  A wait of a   *)
(* .ci file ("when a(), b() serial ...") is posted by a message an object  *)
(* sends itself; its body runs within the call that delivers the last of   *)
(* the posting and the triggers, so an object whose body can run takes no  *)
(* other call before.  The n-th reduction of an array takes the n-th       *)
(* contribution of each of its elements, whatever those name as target.    *)
(*                                                                         *)
(* The calls on their way are a set: those of the models differ in         *)
(* receiver, sender, time step or mesh.                                    *)
(***************************************************************************)
EXTENDS Integers, FiniteSets, Sequences

CONSTANTS
  NChare,     \* number of elements of each chare array
  Needs,      \* the waits of the objects, and what triggers each needs
  Late        \* waits that may be posted late.  A late posting delays a body, as a
              \* late call of its last trigger does; a wait whose triggers are called
              \* by the handler that posts it is always late.

ASSUME CharmAssumption == NChare \in Nat \ {0} /\ Late \subseteq DOMAIN Needs

Chare == 0 .. (NChare - 1)
Host == NChare
Object == Chare \cup {Host}

Wait == DOMAIN Needs
Trigger == UNION {Needs[w] : w \in Wait}

VARIABLES
  msgs,       \* calls on their way
  posting,    \* how often each wait of an object is on its way to being posted
  waiting,    \* how often each wait of an object is posted
  trigger,    \* how often each trigger of an object is buffered
  contrib     \* targets of the contributions of each element of each array that
              \* no reduction has taken yet, in the order they were made

charmVars == <<msgs, posting, waiting, trigger, contrib>>

\* What a handler does besides changing members: waits it posts and triggers it
\* calls on its object, targets it contributes to in each array, calls it makes.
Nothing == [posts |-> {}, triggers |-> {}, parts |-> [a \in {} |-> <<>>], calls |-> {}]
Posts(ws) == [Nothing EXCEPT !.posts = ws]
Triggers(ts) == [Nothing EXCEPT !.triggers = ts]
Contributes(array, target) == [Nothing EXCEPT !.parts = [a \in {array} |-> <<target>>]]
Calls(cs) == [Nothing EXCEPT !.calls = cs]

\* The targets of an array contributed to.
TargetsOn(a, e) == IF a \in DOMAIN e.parts THEN e.parts[a] ELSE <<>>

\* One thing after the other.
a ++ b == [posts |-> a.posts \cup b.posts, triggers |-> a.triggers \cup b.triggers,
           parts |-> [x \in DOMAIN a.parts \cup DOMAIN b.parts |->
                       TargetsOn(x, a) \o TargetsOn(x, b)],
           calls |-> a.calls \cup b.calls]

\* A call of all elements of an array.
Broadcast(type) == {[type |-> type, to |-> i] : i \in Chare}

\* The counts f with those of the members of s increased by d.
Counted(f, s, d) == [x \in DOMAIN f |-> IF x \in s THEN f[x] + d ELSE f[x]]

-----------------------------------------------------------------------------
\* Initially the given calls are on their way, and each element posts a wait.
CharmInit(Array, calls, posted) ==
  /\ msgs = calls
  /\ posting = [o \in Object |-> [w \in Wait |-> IF o \in Chare /\ w \in posted THEN 1 ELSE 0]]
  /\ waiting = [o \in Object |-> [w \in Wait |-> 0]]
  /\ trigger = [o \in Object |-> [t \in Trigger |-> 0]]
  /\ contrib = [a \in Array |-> [i \in Chare |-> <<>>]]

\* The body of wait w of object o can run: posted, and a trigger of each kind.
Runnable(o, w) == waiting[o][w] > 0 /\ \A t \in Needs[w] : trigger[o][t] > 0

\* Object o takes a call: no body of it can run.
Idle(o) == \A w \in Wait : ~Runnable(o, w)

Posted(o, e) ==
  /\ posting' = [posting EXCEPT ![o] = Counted(@, e.posts \cap Late, 1)]
  /\ waiting' = [waiting EXCEPT ![o] = Counted(@, e.posts \ Late, 1)]

Contributed(o, e) ==
  contrib' = IF o \in Chare
             THEN [a \in DOMAIN contrib |-> [contrib[a] EXCEPT ![o] = @ \o TargetsOn(a, e)]]
             ELSE contrib

\* Object o takes call m, with effect e.
Take(o, m, e) ==
  /\ m \in msgs /\ Idle(o)
  /\ msgs' = (msgs \ {m}) \cup e.calls
  /\ Posted(o, e) /\ Contributed(o, e)
  /\ trigger' = [trigger EXCEPT ![o] = Counted(@, e.triggers, 1)]

\* The body of wait w of object o runs, with effect e.
Run(o, w, e) ==
  /\ Runnable(o, w)
  /\ msgs' = msgs \cup e.calls
  /\ posting' = [posting EXCEPT ![o] = Counted(@, e.posts \cap Late, 1)]
  /\ waiting' = [waiting EXCEPT ![o] = Counted(Counted(@, {w}, -1), e.posts \ Late, 1)]
  /\ Contributed(o, e)
  /\ trigger' = [trigger EXCEPT ![o] = Counted(Counted(@, Needs[w], -1), e.triggers, 1)]

\* The message that posts wait w of object o is delivered.
Post(o, w) ==
  /\ posting[o][w] > 0 /\ Idle(o)
  /\ posting' = [posting EXCEPT ![o][w] = @ - 1]
  /\ waiting' = [waiting EXCEPT ![o][w] = @ + 1]
  /\ UNCHANGED <<msgs, trigger, contrib>>

\* A group, which has no waits, takes call m and makes others.
Serve(m, calls) ==
  /\ m \in msgs
  /\ msgs' = (msgs \ {m}) \cup calls
  /\ UNCHANGED <<posting, waiting, trigger, contrib>>

\* The next reduction of an array is target r of all its elements: r is called, with
\* effect e on the Host.
Reduce(a, r, e) ==
  /\ \A i \in Chare : contrib[a][i] # <<>> /\ Head(contrib[a][i]) = r
  /\ Idle(Host)
  /\ contrib' = [contrib EXCEPT ![a] = [i \in Chare |-> Tail(@[i])]]
  /\ msgs' = msgs \cup e.calls
  /\ Posted(Host, e)
  /\ trigger' = [trigger EXCEPT ![Host] = Counted(@, e.triggers, 1)]

\* Nothing is on its way and nothing can happen.
Quiet ==
  /\ msgs = {}
  /\ \A o \in Object : Idle(o) /\ \A w \in Wait : posting[o][w] = 0
  /\ \A a \in DOMAIN contrib, i \in Chare : contrib[a][i] = <<>>

\* The elements of an array contribute to the same reductions in the same order.
SameReductions ==
  \A a \in DOMAIN contrib, i, j \in Chare :
    \A k \in DOMAIN contrib[a][i] \cap DOMAIN contrib[a][j] : contrib[a][i][k] = contrib[a][j][k]
=============================================================================
