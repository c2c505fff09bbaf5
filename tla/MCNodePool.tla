----------------------------- MODULE MCNodePool -----------------------------
EXTENDS NodePool, TLC

(* The threads that only free are interchangeable.                         *)
Symmetry == Permutations(Threads \ {Owner})
=============================================================================
