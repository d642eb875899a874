------------------------------- MODULE AdList -------------------------------
(***************************************************************************)
(* adList.h: the single-threaded adjacency list.  The whole object is the  *)
(* variable ds; its vectors are sequences, so vertex v is at index v + 1.  *)
(* property is only grown here (its values belong to the compute phase),   *)
(* so ds.property is its size.                                             *)
(***************************************************************************)
EXTENDS EdgeStream

CONSTANTS
    Directions, \* the values the option directed may have
    MaxEdges    \* bound on the edges submitted, repeated ones included

ASSUME DirectionsAssumption == Directions \subseteq BOOLEAN
ASSUME MaxEdgesAssumption == MaxEdges \in Nat

VARIABLE ds

DataStructure ==
    [directed : Directions,
     out_neighbors : Seq(Seq(Neighbor)), in_neighbors : Seq(Seq(Neighbor)),
     affected : Seq(BOOLEAN), property : Nat, num_nodes : Nat, num_edges : Nat]

Init ==
    \E directed \in Directions :
        ds = [directed |-> directed,
              out_neighbors |-> <<>>, in_neighbors |-> <<>>, affected |-> <<>>,
              property |-> 0, num_nodes |-> 0, num_edges |-> 0]

-----------------------------------------------------------------------------
(* An edge seen from its source (own = the source) or, mirrored, from its  *)
(* destination.  `exists' is the flag the reader put in the edge.          *)

CountVertex(d, own, exists) ==
    [d EXCEPT
        !.num_edges = @ + 1,
        !.num_nodes = IF exists THEN @ ELSE @ + 1,
        !.affected  = IF exists THEN [@ EXCEPT ![own + 1] = TRUE]
                                ELSE Append(@, TRUE)]

(* Mutant: a new vertex gets a row only on the side that has a neighbour.  *)
UpdateForNewVertexOneSide(d, other, w, intoOut) ==
    LET filled == <<NeighborInfo(other, w)>> IN
    IF intoOut
    THEN [d EXCEPT !.property = @ + 1, !.out_neighbors = Append(@, filled)]
    ELSE [d EXCEPT !.property = @ + 1, !.in_neighbors = Append(@, filled)]

(* A new vertex gets a row, wherever that row lands: at the end.           *)
UpdateForNewVertex(d, other, w, intoOut) ==
    LET filled == <<NeighborInfo(other, w)>> IN
    [d EXCEPT
        !.property      = @ + 1,
        !.out_neighbors = Append(@, IF intoOut THEN filled ELSE <<>>),
        !.in_neighbors  = IF d.directed
                          THEN Append(@, IF intoOut THEN <<>> ELSE filled)
                          ELSE @]

UpdateForExistingVertex(d, own, other, w, intoOut) ==
    IF intoOut
    THEN [d EXCEPT !.out_neighbors[own + 1] = Put(@, other, w)]
    ELSE [d EXCEPT !.in_neighbors[own + 1] = Put(@, other, w)]

Examine(d, own, other, w, exists, intoOut) ==
    LET counted == CountVertex(d, own, exists) IN
    IF exists THEN UpdateForExistingVertex(counted, own, other, w, intoOut)
              ELSE UpdateForNewVertex(counted, other, w, intoOut)

ExamineSource(d, e) ==
    Examine(d, e.source, e.destination, e.weight, e.sourceExists, TRUE)

ExamineDestination(d, e) ==
    Examine(d, e.destination, e.source, e.weight, e.destExists, ~d.directed)

(* One iteration of update().                                              *)
Update(e) == ds' = ExamineDestination(ExamineSource(ds, e), e)

(* The compute phase that follows a batch clears the marks it has used.    *)
ClearAffected ==
    ds' = [ds EXCEPT !.affected = [i \in DOMAIN ds.affected |-> FALSE]]

Next ==
    \/ /\ ds.num_edges < 2 * MaxEdges
       /\ \E e \in Submittable(ds.num_nodes) : Update(e)
    \/ ClearAffected

Spec == Init /\ [][Next]_ds

-----------------------------------------------------------------------------
(* Every component of the object has its type.                             *)
TypeOK == ds \in DataStructure

(* The rows, the marks and the properties of the vertices known are all    *)
(* there, and nothing else: push_back in updateForNewVertex puts vertex    *)
(* n's row at index n because logical IDs are given out densely.           *)
RowPerVertex ==
    /\ Len(ds.out_neighbors) = ds.num_nodes
    /\ Len(ds.in_neighbors) = IF ds.directed THEN ds.num_nodes ELSE 0
    /\ Len(ds.affected) = ds.num_nodes
    /\ ds.property = ds.num_nodes
    /\ ds.num_nodes <= NumNodes

(* No row lists a neighbour twice, so a degree is a number of distinct     *)
(* neighbours (in_degree and out_degree return row sizes).                 *)
NoDuplicateNeighbors ==
    /\ \A v \in DOMAIN ds.out_neighbors : NoDuplicates(ds.out_neighbors[v])
    /\ \A v \in DOMAIN ds.in_neighbors : NoDuplicates(ds.in_neighbors[v])

-----------------------------------------------------------------------------
(* The map from pairs to weights that a sequence of rows stands for.       *)
AsMap(rows) ==
    LET pairs == {<<v - 1, nb.node>> :
                     v \in DOMAIN rows, nb \in UNION {Content(rows[u]) : u \in DOMAIN rows}}
        present == {p \in pairs : Holds(rows[p[1] + 1], p[2])}
    IN  [p \in present |->
            (CHOOSE nb \in Content(rows[p[1] + 1]) : nb.node = p[2]).weight]

(* adList promises what EdgeStore promises: after each edge the rows hold  *)
(* the weight last submitted for each pair.  The second conjunct ties the  *)
(* abstract step to the edge that update() was called with.                *)
Store == INSTANCE EdgeStore WITH
             directed <- ds.directed,
             out <- AsMap(ds.out_neighbors), in <- AsMap(ds.in_neighbors),
             num_nodes <- ds.num_nodes, num_edges <- ds.num_edges
ImplementsEdgeStore ==
    /\ Store!StoreSpec
    /\ [][\A e \in Submittable(ds.num_nodes) : Update(e) => Store!Insert(e)]_ds
=============================================================================
