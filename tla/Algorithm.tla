----------------------------- MODULE Algorithm ------------------------------
(***************************************************************************)
(* topAlg.h: performAlg() runs the algorithm that the command line names   *)
(* on the structure as each batch has left it: here, the four incremental  *)
(* algorithms that share the engine of PullEngine, and mcfromscratch, on   *)
(* directed and undirected graphs.  The option names and the kind of graph *)
(* are fixed at the start of the program.  The searches need a source,     *)
(* which is picked after the first batch that offers one and kept from     *)
(* then on; until then performAlg() returns without having done anything.  *)
(***************************************************************************)
EXTENDS ScratchMC

Sourceless == alg.name \in Searches /\ alg.source = NoSource

(* The engine starts in the same way for all.                              *)
PerformInit == alg \in {a \in Algs : a.source = NoSource} /\ NothingYet

out_degree == [n \in Known |-> Cardinality(OutOf(n))]

(* Mutant: the marks of a batch that is skipped are cleared.               *)
PickSourceClearing ==
    /\ Sourceless /\ phase = "updated"
    /\ \E s \in PickNext(num_nodes, out_degree) :
        /\ alg' = [alg EXCEPT !.source = s]
        /\ IF s = NoSource THEN phase' = "idle" /\ affected' = {}
                           ELSE UNCHANGED <<phase, affected>>
    /\ UNCHANGED <<num_nodes, edges, batches, property, curr, todo, next, visited,
                   lqueue, pc, job>>

(* Without a source the batch is skipped, and its marks stay.              *)
PickSource ==
    /\ Sourceless /\ phase = "updated"
    /\ \E s \in PickNext(num_nodes, out_degree) :
        /\ alg' = [alg EXCEPT !.source = s]
        /\ phase' = IF s = NoSource THEN "idle" ELSE phase
    /\ UNCHANGED <<num_nodes, edges, batches, affected, property, curr, todo, next,
                   visited, lqueue, pc, job>>

(* The algorithm, and the updates between two calls of performAlg().       *)
Step ==
    /\ Sourceless => phase = "idle"
    /\ IF alg.name = "mcfromscratch" THEN ScratchNext ELSE Next

PerformNext == PickSource \/ Step

PerformSpec == PerformInit /\ [][PerformNext]_vars

-----------------------------------------------------------------------------
(* After every batch the algorithm's result is that of a computation from  *)
(* scratch on the graph of that moment, and no vertex is without one; for  *)
(* a search, also if batches before the first one with a source were       *)
(* skipped.                                                                *)
ResultFromScratch == ~Sourceless => SameAsFromScratch

-----------------------------------------------------------------------------
(***************************************************************************)
(* The inductive invariant behind it: that of the engine, and that as long *)
(* as a search has no source no vertex has a value and the marks of all    *)
(* batches so far are kept.                                                *)
(***************************************************************************)
Skipping ==
    /\ phase \in {"idle", "updated"}
    /\ \A n \in NodeID : property[n] = Uninit
    /\ Known \subseteq affected

PerformInv ==
    /\ RoundsInv /\ InBounds
    /\ IF Sourceless THEN Skipping ELSE Converged
=============================================================================
