------------------------------- MODULE DynMC --------------------------------
(***************************************************************************)
(* dyn_mc.h, incremental maximum value: a vertex starts with its own ID    *)
(* and pulls the largest value of its in-neighbours.                       *)
(***************************************************************************)
EXTENDS Integers

CONSTANT NumNodes

(* A float as well: exact for IDs up to 2^24.                              *)
Value == 0 .. NumNodes - 1

Start(n) == n
Base(n, old_val) == old_val
Extend(val, w) == val
Better(x, y) == x > y
FirstRoundTrigger(n, old_val) == old_val = n
BothWays(directed) == FALSE
Admits(w, w2) == TRUE
=============================================================================
