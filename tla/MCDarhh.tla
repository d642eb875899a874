------------------------------ MODULE MCDarhh -------------------------------
(* TLC instance of Darhh: a directed graph with a partition for either     *)
(* side, and an undirected one with a single partition, where the tables   *)
(* fill twice as fast.  Weights are only ever copied and overwritten, so   *)
(* model values stand for them and may be exchanged.                       *)
EXTENDS Darhh, TLC

MCSetups == {<<TRUE, 2>>, <<FALSE, 1>>}

WeightSymmetry == Permutations(Weights)
=============================================================================
