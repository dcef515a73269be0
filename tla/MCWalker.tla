------------------------------ MODULE MCWalker ------------------------------
(* Instances of Walker for TLC. *)
EXTENDS Walker, TLC

\* Two Integrators share a PE, the third has one of its own.
TwoPes == 0 :> 0 @@ 1 :> 0 @@ 2 :> 1

StatDeck == {[stat |-> TRUE, pdf |-> TRUE]}
AnyDeck == {[stat |-> TRUE, pdf |-> TRUE], [stat |-> TRUE, pdf |-> FALSE], [stat |-> FALSE, pdf |-> FALSE]}
=============================================================================
