------------------------------ MODULE DynSSSP -------------------------------
(***************************************************************************)
(* dyn_sssp.h, incremental single-source shortest paths: a vertex pulls    *)
(* the least of its in-neighbours' distances plus edge weights.            *)
(*                                                                         *)
(* Distances are floats there; kDistInf is half the largest one, so adding *)
(* an edge weight to it leaves it as it is.                                *)
(***************************************************************************)
EXTENDS Integers

CONSTANT DistInf    \* kDistInf: more than any distance in the model

Value == 0 .. DistInf

Start(source, n) == IF n = source THEN 0 ELSE DistInf
Base(n, x) == DistInf
Extend(x, w) == IF x + w < DistInf THEN x + w ELSE DistInf
(* new_path < old_path and new_path != kDistInf                            *)
Better(x, y) == x < y
FirstRoundTrigger(n, x) == FALSE
BothWays(directed) == FALSE
(* A road may only get shorter: values are never taken back.               *)
Admits(w, w2) == w2 <= w
=============================================================================
