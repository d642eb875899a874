---------------------------- MODULE AdListShared ----------------------------
(***************************************************************************)
(* adListShared.h: adjacency lists that an OpenMP parallel loop updates,   *)
(* one edge per iteration, with a mutex per row.  Every iteration of a     *)
(* batch is a process here (the schedule the runtime picks is one of these *)
(* interleavings); the loop ends with a barrier.  The same loop, with its  *)
(* own rows (module Stinger), is the update() of stinger.cc.               *)
(***************************************************************************)
EXTENDS EdgeStream, FiniteSets

CONSTANTS
    Directions, \* the values the option directed may have
    BatchSize,  \* bound on the edges of a batch
    MaxEdges    \* bound on the edges submitted

ASSUME DirectionsAssumption == Directions \subseteq BOOLEAN
ASSUME BoundsAssumption == BatchSize \in Nat /\ MaxEdges \in Nat

Sides == {"out", "in"}

VARIABLES
    directed,   \* set by the constructor
    neighbors,  \* [Sides -> [NodeID -> row]]: out_neighbors, in_neighbors
    mutex,      \* [Sides -> [NodeID -> 0 or the iteration that holds it]]
    batch,      \* el: the batch that is read, then updated
    updating,   \* the parallel loop is running
    pc, slot,   \* per iteration: control point; where the search ended
    affected, num_nodes, num_edges,
    known,      \* IDs the reader has given out
    submitted,  \* edges it has read
    allowed     \* history: per pair, the weights it has in the last batch that
                \* contains it

vars == <<directed, neighbors, mutex, batch, updating, pc, slot, affected, num_nodes,
          num_edges, known, submitted, allowed>>
counters == <<affected, num_nodes, num_edges>>
input == <<directed, batch, updating, known, submitted, allowed>>

ControlPoints == {"meta", "lock", "search", "write", "done"}
(* An iteration handles the edge from its source, then from its            *)
(* destination.                                                            *)
Halves == {"source", "destination"}
Iterations == DOMAIN batch

TypeOK ==
    /\ directed \in BOOLEAN
    /\ neighbors \in [Sides -> [NodeID -> Seq(Neighbor)]]
    /\ mutex \in [Sides -> [NodeID -> 0 .. BatchSize]]
    /\ batch \in Seq(Edge) /\ Len(batch) <= BatchSize
    /\ updating \in BOOLEAN
    /\ pc \in IF updating THEN [Iterations -> Halves \X ControlPoints] ELSE {<<>>}
    /\ slot \in IF updating THEN [Iterations -> Nat] ELSE {<<>>}
    /\ affected \subseteq NodeID
    /\ num_nodes \in Nat /\ num_edges \in Nat /\ known \in 0 .. NumNodes
    /\ submitted \in 0 .. MaxEdges
    /\ allowed \in [NodeID \X NodeID -> SUBSET Weights]

Init ==
    /\ directed \in Directions
    /\ neighbors = [s \in Sides |-> [v \in NodeID |-> <<>>]]
    /\ mutex = [s \in Sides |-> [v \in NodeID |-> 0]]
    /\ batch = <<>>
    /\ updating = FALSE
    /\ pc = <<>> /\ slot = <<>>
    /\ affected = {}
    /\ num_nodes = 0 /\ num_edges = 0 /\ known = 0 /\ submitted = 0
    /\ allowed = [p \in NodeID \X NodeID |-> {}]

-----------------------------------------------------------------------------
(* readBatchFromCSV() adds an edge to the batch.                           *)
Read(e) ==
    /\ ~updating
    /\ Len(batch) < BatchSize
    /\ submitted < MaxEdges
    /\ batch' = Append(batch, e)
    /\ known' = known + NewVertices(e)
    /\ submitted' = submitted + 1
    /\ UNCHANGED <<directed, neighbors, mutex, updating, pc, slot, counters, allowed>>

(* The pairs of vertices that an edge links, in the direction of `out'.    *)
Pairs(e) == {<<e.source, e.destination>>}
                \cup IF directed THEN {} ELSE {<<e.destination, e.source>>}
BatchWeights(p) == {batch[k].weight : k \in {j \in Iterations : p \in Pairs(batch[j])}}

(* update() starts its parallel loop.                                      *)
StartUpdate ==
    /\ ~updating
    /\ batch # <<>>
    /\ updating' = TRUE
    /\ pc' = [k \in Iterations |-> <<"source", "meta">>]
    /\ slot' = [k \in Iterations |-> 0]
    /\ allowed' = [p \in NodeID \X NodeID |->
                      IF BatchWeights(p) # {} THEN BatchWeights(p) ELSE allowed[p]]
    /\ UNCHANGED <<directed, neighbors, mutex, batch, counters, known, submitted>>

AllDone == \A k \in Iterations : pc[k] = <<"destination", "done">>

(* The barrier at the end of the loop; the compute phase then clears the   *)
(* marks.                                                                  *)
EndUpdate ==
    /\ updating
    /\ AllDone
    /\ updating' = FALSE
    /\ batch' = <<>> /\ pc' = <<>> /\ slot' = <<>>
    /\ affected' = {}
    /\ UNCHANGED <<directed, neighbors, mutex, num_nodes, num_edges, known, submitted, allowed>>

-----------------------------------------------------------------------------
FromSource(k) == pc[k][1] = "source"
At(k, point) == updating /\ pc[k][2] = point
Goto(k, point) == pc' = [pc EXCEPT ![k][2] = point]

(* The row an iteration is working on, and the neighbour it puts there.    *)
Side(k) == IF FromSource(k) \/ ~directed THEN "out" ELSE "in"
Own(k) == IF FromSource(k) THEN batch[k].source ELSE batch[k].destination
Other(k) == IF FromSource(k) THEN batch[k].destination ELSE batch[k].source
Exists(k) == IF FromSource(k) THEN batch[k].sourceExists ELSE batch[k].destExists
Row(k) == neighbors[Side(k)][Own(k)]

(* Mutant: a vertex counts as new when it is not marked.                   *)
ProcessMetaDataByMark(k) ==
    /\ At(k, "meta")
    /\ affected' = affected \cup {Own(k)}
    /\ num_nodes' = IF Own(k) \in affected THEN num_nodes ELSE num_nodes + 1
    /\ num_edges' = num_edges + 1
    /\ Goto(k, "lock")
    /\ UNCHANGED <<neighbors, mutex, slot, input>>

(* The mark is only ever raised and the counters are only ever added to,   *)
(* each by an atomic instruction.                                          *)
ProcessMetaData(k) ==
    /\ At(k, "meta")
    /\ affected' = affected \cup {Own(k)}
    /\ num_nodes' = IF Exists(k) THEN num_nodes ELSE num_nodes + 1
    /\ num_edges' = num_edges + 1
    /\ Goto(k, "lock")
    /\ UNCHANGED <<neighbors, mutex, slot, input>>

(* Mutant: the mutex is not waited for.                                    *)
LockIgnored(k) ==
    /\ At(k, "lock")
    /\ Goto(k, "search")
    /\ UNCHANGED <<neighbors, mutex, slot, counters, input>>

(* updateForExistingVertex(): lock_guard on the row's mutex ...            *)
Lock(k) ==
    /\ At(k, "lock")
    /\ mutex[Side(k)][Own(k)] = 0
    /\ mutex' = [mutex EXCEPT ![Side(k)][Own(k)] = k]
    /\ Goto(k, "search")
    /\ UNCHANGED <<neighbors, slot, counters, input>>

(* ... search the row (rows hold no deleted slot: nothing deletes) ...     *)
Search(k) ==
    /\ At(k, "search")
    /\ slot' = [slot EXCEPT ![k] =
                   IF Holds(Row(k), Other(k))
                   THEN CHOOSE i \in DOMAIN Row(k) : FirstAt(Row(k), Other(k), i)
                   ELSE 0]
    /\ Goto(k, "write")
    /\ UNCHANGED <<neighbors, mutex, counters, input>>

(* Mutant: a repeated edge keeps its weight.                               *)
WriteNewOnly(k) ==
    /\ At(k, "write")
    /\ neighbors' = IF slot[k] # 0 THEN neighbors
                    ELSE [neighbors EXCEPT ![Side(k)][Own(k)] =
                             Append(@, NeighborInfo(Other(k), batch[k].weight))]
    /\ mutex' = [mutex EXCEPT ![Side(k)][Own(k)] = 0]
    /\ pc' = [pc EXCEPT ![k] = IF FromSource(k) THEN <<"destination", "meta">>
                                                ELSE <<"destination", "done">>]
    /\ UNCHANGED <<slot, counters, input>>

(* ... write what was found, or push_back, and unlock.                     *)
Write(k) ==
    /\ At(k, "write")
    /\ LET new == NeighborInfo(Other(k), batch[k].weight) IN
       neighbors' = [neighbors EXCEPT ![Side(k)][Own(k)] =
                        IF slot[k] = 0 THEN Append(@, new)
                                       ELSE [@ EXCEPT ![slot[k]] = new]]
    /\ mutex' = [mutex EXCEPT ![Side(k)][Own(k)] = 0]
    /\ pc' = [pc EXCEPT ![k] = IF FromSource(k) THEN <<"destination", "meta">>
                                                ELSE <<"destination", "done">>]
    /\ UNCHANGED <<slot, counters, input>>

Iteration(k) == ProcessMetaData(k) \/ Lock(k) \/ Search(k) \/ Write(k)

(* The input has been read and applied.                                    *)
Finished == submitted = MaxEdges /\ ~updating /\ batch = <<>> /\ UNCHANGED vars

Next ==
    \/ \E e \in Submittable(known) : Read(e)
    \/ StartUpdate \/ EndUpdate
    \/ \E k \in Iterations : Iteration(k)
    \/ Finished

Spec == Init /\ [][Next]_vars

-----------------------------------------------------------------------------
(* No row lists a neighbour twice, whatever the iterations race for.       *)
NoDuplicateNeighbors ==
    \A s \in Sides, v \in NodeID : NoDuplicates(neighbors[s][v])

(* When the loop is over the meta data is what adList's would be: every    *)
(* vertex counted once, every submission twice, and the endpoints of the   *)
(* batch, nothing else, marked for the compute phase.                      *)
MetaDataExact ==
    updating /\ AllDone =>
        /\ num_nodes = known
        /\ num_edges = 2 * submitted
        /\ affected = UNION {{batch[k].source, batch[k].destination} : k \in Iterations}

(* After a batch, each side of the structure holds exactly the pairs       *)
(* submitted so far, each with a weight its last batch gave it.  (If that  *)
(* batch gave it two, the two sides may settle on different ones.)         *)
NoEdgeLost ==
    ~updating =>
        \A u, v \in NodeID :
            LET fwd == neighbors["out"][u]
                bwd == neighbors[IF directed THEN "in" ELSE "out"][v]
                ws == allowed[<<u, v>>]
            IN  /\ \A nb \in Content(fwd) : nb.node = v => nb.weight \in ws
                /\ \A nb \in Content(bwd) : nb.node = u => nb.weight \in ws
                /\ ws # {} => Holds(fwd, v) /\ Holds(bwd, u)
=============================================================================
