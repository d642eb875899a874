------------------------------ MODULE DynSSWP -------------------------------
(***************************************************************************)
(* dyn_sswp.h, incremental single-source widest paths: a vertex pulls the  *)
(* widest of the paths its in-neighbours offer, each as wide as its        *)
(* narrowest edge.                                                         *)
(***************************************************************************)
EXTENDS Integers

CONSTANT DistInf    \* kDistInf, the width of the empty path

Value == 0 .. DistInf

Start(source, n) == IF n = source THEN DistInf ELSE 0
(* The maximum over no neighbours is not taken; 0 triggers nothing either. *)
Base(n, x) == 0
Extend(x, w) == IF x < w THEN x ELSE w
Better(x, y) == x > y
FirstRoundTrigger(n, x) == FALSE
BothWays(directed) == FALSE
(* A road may only get wider: values are never taken back.                 *)
Admits(w, w2) == w2 >= w
=============================================================================
