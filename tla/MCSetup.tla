------------------------------ MODULE MCSetup ------------------------------
(* Instance of Setup for TLC. *)
EXTENDS Setup, TLC

\* Eight tetrahedra in a row; of their nodes one for each pair of neighbours' own.
Row == [t \in 0 .. 7 |-> {t \div 2, (t + 1) \div 2}]

\* As chares of the tetrahedra in turn: two each in the order of the file, and in no
\* order; sizes that differ; a chare without any on the first, on the last node.
SomePartitions ==
  {[t \in 0 .. 7 |-> s[t + 1]] :
     s \in {<<0, 0, 1, 1, 2, 2, 3, 3>>, <<3, 2, 1, 0, 3, 1, 2, 3>>,
            <<1, 1, 1, 1, 3, 3, 2, 0>>, <<1, 2, 3, 1, 2, 3, 1, 2>>,
            <<0, 0, 1, 1, 0, 1, 2, 2>>}}
=============================================================================
