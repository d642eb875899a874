----------------------------- MODULE EdgeStream -----------------------------
(***************************************************************************)
(* What the data structures receive: edges over logical vertex IDs, in     *)
(* file order.  fileReader.h replaces each vertex name by the next unused  *)
(* integer the first time it sees it and records in the edge whether each  *)
(* endpoint had been seen before, so an edge is only ever one of a few     *)
(* shapes relative to the number of IDs already given out.                 *)
(*                                                                         *)
(* The neighbour lists ("rows") that three of the four structures keep are *)
(* sequences of (node, weight) pairs; the operators that search and update *)
(* one of them are here too.                                               *)
(***************************************************************************)
EXTENDS Integers, Sequences

CONSTANTS
    NumNodes,   \* capacity of the structure, in vertices (option num_nodes)
    Weights     \* the edge weights of the input

ASSUME NumNodesAssumption == NumNodes \in Nat \ {0}
ASSUME WeightsAssumption == Weights # {}

NodeID == 0 .. NumNodes - 1

Edge == [source : NodeID, destination : NodeID, weight : Weights,
         sourceExists : BOOLEAN, destExists : BOOLEAN]

ReverseOf(e) ==
    [source |-> e.destination, destination |-> e.source, weight |-> e.weight,
     sourceExists |-> e.destExists, destExists |-> e.sourceExists]

(***************************************************************************)
(* The edges the reader can emit when `known' IDs (0 .. known - 1) have    *)
(* been given out: the source is looked up first and may take the next ID, *)
(* then the destination, for which the source is already known.            *)
(***************************************************************************)
KnownAfter(known, n) == IF n = known THEN known + 1 ELSE known

EdgeOf(known, s, d, w) ==
    [source |-> s, destination |-> d, weight |-> w,
     sourceExists |-> s < known, destExists |-> d < KnownAfter(known, s)]

Submittable(known) ==
    LET ends == {p \in NodeID \X NodeID :
                    p[1] <= known /\ p[2] <= KnownAfter(known, p[1])}
    IN  {EdgeOf(known, p[1], p[2], w) : p \in ends, w \in Weights}

(* How many endpoints of e had not been seen: what every update adds to    *)
(* num_nodes.                                                              *)
NewVertices(e) ==
    (IF e.sourceExists THEN 0 ELSE 1) + (IF e.destExists THEN 0 ELSE 1)

Neighbor == [node : NodeID, weight : Weights]

NeighborInfo(n, w) == [node |-> n, weight |-> w]

(* n occurs in the row first at position i.                                *)
FirstAt(row, n, i) ==
    /\ i \in DOMAIN row
    /\ row[i].node = n
    /\ \A j \in DOMAIN row : j < i => row[j].node # n

Holds(row, n) == \E i \in DOMAIN row : row[i].node = n

(* Mutants: a row is not searched before it grows; a repeated edge keeps   *)
(* its first weight.                                                       *)
PutUnsearched(row, n, w) == Append(row, NeighborInfo(n, w))
PutFirstWeight(row, n, w) ==
    IF Holds(row, n) THEN row ELSE Append(row, NeighborInfo(n, w))

(* Search, then overwrite the weight in place or append a new neighbour.   *)
Put(row, n, w) ==
    IF Holds(row, n)
    THEN [row EXCEPT ![CHOOSE i \in DOMAIN row : FirstAt(row, n, i)] =
              NeighborInfo(n, w)]
    ELSE Append(row, NeighborInfo(n, w))

(***************************************************************************)
(* Vocabulary of the properties of rows.                                   *)
(***************************************************************************)
NoDuplicates(row) ==
    \A i, j \in DOMAIN row : row[i].node = row[j].node => i = j

Content(row) == {row[i] : i \in DOMAIN row}
=============================================================================
