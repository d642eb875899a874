------------------------------- MODULE DynCC --------------------------------
(***************************************************************************)
(* dyn_cc.h, incremental connected components: a vertex starts as its own  *)
(* component and pulls the least component of its neighbours, in a         *)
(* directed graph along edges of either direction.                         *)
(***************************************************************************)
EXTENDS Integers

CONSTANT NumNodes

(* Component is a float: exact for IDs up to 2^24.                         *)
Value == 0 .. NumNodes - 1

Start(n) == n
Base(n, old_comp) == old_comp
Extend(comp, w) == comp
Better(x, y) == x < y
FirstRoundTrigger(n, old_comp) == old_comp = n
BothWays(directed) == directed
Admits(w, w2) == TRUE
=============================================================================
