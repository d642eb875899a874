---------------------------- MODULE MCAlgorithm -----------------------------
(* TLC instance of Algorithm: every algorithm, both kinds of graph.        *)
EXTENDS Algorithm, TLC

EveryOption == {"ssspdyn", "sswpdyn", "ccdyn", "mcdyn", "mcfromscratch"} \X BOOLEAN
TwoThenOne == <<2, 1>>

Symmetry == Permutations(Threads)
=============================================================================
