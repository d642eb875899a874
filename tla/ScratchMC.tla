----------------------------- MODULE ScratchMC ------------------------------
(***************************************************************************)
(* dyn_mc.h, MCStartFromScratch(): maximum values from scratch.  It goes   *)
(* through the same rounds as the incremental dynMCAlg(), but from new     *)
(* start values of all vertices, with all vertices in the first round, and *)
(* without regard to the marks of the updates.                             *)
(***************************************************************************)
EXTENDS PullEngine

BeginAll ==
    /\ phase = "updated"
    /\ property' = StartValuesForAll
    /\ phase' = "first"
    /\ BeginRound([i \in 1 .. num_nodes |-> i - 1])
    /\ UNCHANGED <<graph, affected, lqueue, job>>

EndUncleared ==
    /\ RoundOver
    /\ next = <<>>
    /\ phase' = "idle"
    /\ curr' = <<>>
    /\ UNCHANGED <<graph, affected, property, todo, next, visited, lqueue, pc, job>>

ScratchNext ==
    \/ NewBatch \/ BeginAll \/ Slide \/ EndUncleared
    \/ \E t \in Threads : Worker(t)
    \/ Finished
=============================================================================
