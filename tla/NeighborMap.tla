---------------------------- MODULE NeighborMap -----------------------------
(***************************************************************************)
(* What one vertex's neighbour list promises to the threads that insert    *)
(* into it: a map from neighbour to weight on which every insertion takes  *)
(* effect at one instant.                                                  *)
(***************************************************************************)
CONSTANTS Dests, Weights

VARIABLE content    \* a function from a subset of Dests to Weights

MapInit == content = [d \in {} |-> 0]

PutEdge(d, w) ==
    content' = [x \in DOMAIN content \cup {d} |-> IF x = d THEN w ELSE content[x]]

MapNext == \E d \in Dests, w \in Weights : PutEdge(d, w)

MapSpec == MapInit /\ [][MapNext]_content
=============================================================================
