----------------------------- MODULE EdgeStore ------------------------------
(***************************************************************************)
(* What a dynamic graph structure promises (dataStruc in                   *)
(* abstract_data_struc.h and what the compute phase reads through          *)
(* traversal.h): a map from ordered pairs of vertices to the weight last   *)
(* submitted for the pair, seen from the source (out) and, in a directed   *)
(* graph, from the destination (in), and two counters.                     *)
(***************************************************************************)
EXTENDS EdgeStream

CONSTANT Directions    \* the values the option directed may have

VARIABLES directed, out, in, num_nodes, num_edges

storeVars == <<directed, out, in, num_nodes, num_edges>>

Empty == [p \in {} |-> 0]

StoreInit ==
    /\ directed \in Directions
    /\ out = Empty /\ in = Empty
    /\ num_nodes = 0 /\ num_edges = 0

Updated(map, p, w) ==
    [x \in DOMAIN map \cup {p} |-> IF x = p THEN w ELSE map[x]]

(* An edge is inserted: it is visible from both ends at once, in an        *)
(* undirected graph as an out-edge of both.  num_edges counts two per      *)
(* submission, repeated or not.                                            *)
Insert(e) ==
    LET fwd == <<e.source, e.destination>>
        bwd == <<e.destination, e.source>>
    IN  /\ num_nodes' = num_nodes + NewVertices(e)
        /\ num_edges' = num_edges + 2
        /\ UNCHANGED directed
        /\ IF directed
           THEN out' = Updated(out, fwd, e.weight) /\ in' = Updated(in, bwd, e.weight)
           ELSE /\ out' = Updated(Updated(out, fwd, e.weight), bwd, e.weight)
                /\ UNCHANGED in

StoreNext == \E e \in Submittable(num_nodes) : Insert(e)

StoreSpec == StoreInit /\ [][StoreNext]_storeVars
=============================================================================
