---------------------------- MODULE MCTestSuites ----------------------------
(* Instance of TestSuites for TLC. *)
EXTENDS TestSuites, TLC

PValues == <<1, 3>>
OneMigrates == "migration" :> 1
=============================================================================
