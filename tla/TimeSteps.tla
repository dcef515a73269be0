------------------------------ MODULE TimeSteps ------------------------------
(***************************************************************************)
(* What a walker run promises: time steps one after the other, and in the  *)
(* statistics file, for every step that is due, the estimate over all      *)
(* particles at that step, once.                                           *)
(***************************************************************************)
EXTENDS Integers

CONSTANTS
  NSteps,     \* number of steps to take
  Estimate    \* the estimate of each step, over all particles

VARIABLES
  due,        \* steps whose estimate goes to the file
  it, file, finished

vars == <<due, it, file, finished>>

Init == due \subseteq 0 .. (NSteps - 1) /\ it = 0 /\ file = {} /\ finished = FALSE

Step ==
  /\ ~finished
  /\ it' = it + 1
  /\ file' = IF it \in due THEN file \cup {[step |-> it, est |-> Estimate[it]]} ELSE file
  /\ finished' = (it + 1 = NSteps)
  /\ UNCHANGED due

Spec == Init /\ [][Step]_vars /\ WF_vars(Step)
=============================================================================
