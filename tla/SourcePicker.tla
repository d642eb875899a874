---------------------------- MODULE SourcePicker ----------------------------
(***************************************************************************)
(* source_picker_dynamic.h: DynamicSourcePicker picks the source of a      *)
(* search at random.  It tries vertices until one has out-edges, at most   *)
(* as often as there are vertices, and has none to offer (-1) if it took   *)
(* that many trials, be the last one a success or not.                     *)
(***************************************************************************)
EXTENDS Integers

NoSource == -1

(* The results PickNext() may have.  A success before the last trial needs *)
(* two vertices at least; using up the trials needs a vertex without       *)
(* out-edges to fail with, or a single trial.                              *)
PickNext(num_nodes, out_degree) ==
    LET vertices == 0 .. num_nodes - 1
        success == {n \in vertices : num_nodes > 1 /\ out_degree[n] > 0}
        exhausted == num_nodes <= 1 \/ \E n \in vertices : out_degree[n] = 0
    IN  success \cup {n \in {NoSource} : exhausted}
=============================================================================
