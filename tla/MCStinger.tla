----------------------------- MODULE MCStinger ------------------------------
(* TLC instance of Stinger: the constants are set in the .cfg files.       *)
EXTENDS Stinger, TLC

Symmetry == Permutations(Threads)
=============================================================================
