--------------------------- MODULE AdListChunked ----------------------------
(***************************************************************************)
(* adListChunked.h and adListPerChunk.h: the vertices are dealt out over   *)
(* partitions, each with its own rows, its own queue of edges, a mutex for *)
(* the queue and, during an update, a thread of its own that drains the    *)
(* queue into the rows.  The main thread routes each edge to the partition *)
(* of its source and its reverse to the partition of its destination, sets *)
(* the shared flag `done' and joins the threads.                           *)
(*                                                                         *)
(* A batch is not built up front: the main thread takes its next edge from *)
(* the input when it reaches it (nobody else reads the EdgeList).          *)
(***************************************************************************)
EXTENDS EdgeStream, FiniteSets, SequencesExt

CONSTANTS
    Setups,     \* the pairs <<directed, _num_parts>> for the constructor
    MaxEdges    \* bound on the edges submitted, repeated ones included

\* One thread would leave no partition, and pt_hash would divide by zero.
ASSUME SetupsAssumption ==
    \A s \in Setups : s[1] \in BOOLEAN /\ s[2] \in Nat /\ s[2] >= 2
ASSUME MaxEdgesAssumption == MaxEdges \in Nat

None == [none |-> TRUE]

VARIABLES
    setup,      \* <<directed, _num_parts>>, fixed by the constructor
    neighbors,  \* [Part -> [LocalIndex -> row]], the partAdLists
    q,          \* [Part -> Seq(Edge)], the queues
    el,         \* [Part -> Seq(Edge)], what each thread has drained
    locked,     \* the partitions whose q_mutex a dequeue_loop holds
    pc,         \* [Part -> ...], the control point of each dequeue_loop
    done,       \* the flag that dequeue_loop polls
    main,       \* the control point of update()
    reverse,    \* e_reverse of the edge whose second enqueue is due
    affected, num_nodes, num_edges

vars == <<setup, neighbors, q, el, locked, pc, done, main, reverse,
          affected, num_nodes, num_edges>>
partVars == <<neighbors, q, el, locked, pc>>
counters == <<affected, num_nodes, num_edges>>

(* num_partitions is even; a directed graph splits it between out and in.  *)
directed == setup[1]
NumPartitions(s) == s[2] - (s[2] % 2)
PerSide == IF directed THEN NumPartitions(setup) \div 2 ELSE NumPartitions(setup)

OutPart(k) == <<"out", k>>
(* Where the reverse of an edge goes.                                      *)
MirrorPart(k) == <<IF directed THEN "in" ELSE "out", k>>

Part == {OutPart(k) : k \in 0 .. PerSide - 1}
            \cup {MirrorPart(k) : k \in 0 .. PerSide - 1}

(* The partitions of any setup.                                            *)
AnyPart == {"out", "in"} \X (0 .. Max({NumPartitions(s) : s \in Setups}) - 1)

PtHash(n) == n % PerSide
HashWithinChunk(n) == n \div PerSide
(* Mutant: rounded down.                                                   *)
RowsPerPartitionFloor == NumNodes \div PerSide

(* ceil(NumNodes / PerSide)                                                *)
RowsPerPartition == (NumNodes + PerSide - 1) \div PerSide
LocalIndex == 0 .. RowsPerPartition - 1

TypeOK ==
    /\ setup \in Setups
    /\ neighbors \in [Part -> [LocalIndex -> Seq(Neighbor)]]
    /\ q \in [Part -> Seq(Edge)]
    /\ el \in [Part -> Seq(Edge)]
    /\ locked \subseteq Part
    /\ pc \in [Part -> {"acquire", "test", "insert", "exit"}]
    /\ done \in BOOLEAN
    /\ main \in {"idle", "loop", "mirror", "join"}
    /\ reverse \in Edge \cup {None}
    /\ affected \in [NodeID -> BOOLEAN]
    /\ num_nodes \in Nat
    /\ num_edges \in Nat

Init ==
    /\ setup \in Setups
    /\ neighbors = [p \in Part |-> [i \in LocalIndex |-> <<>>]]
    /\ q = [p \in Part |-> <<>>]
    /\ el = [p \in Part |-> <<>>]
    /\ locked = {}
    /\ pc = [p \in Part |-> "exit"]
    /\ done = TRUE
    /\ main = "idle"
    /\ reverse = None
    /\ affected = [n \in NodeID |-> FALSE]
    /\ num_nodes = 0
    /\ num_edges = 0

-----------------------------------------------------------------------------
(* update(), on the main thread.                                           *)

Spawn ==
    /\ main = "idle"
    /\ main' = "loop"
    /\ done' = FALSE
    /\ pc' = [p \in Part |-> "acquire"]
    /\ UNCHANGED <<setup, neighbors, q, el, locked, reverse, counters>>

(* Mutant: the newest edge is served first.                                *)
EnqueueFirst(p, e) ==
    /\ p \notin locked
    /\ q' = [q EXCEPT ![p] = <<e>> \o @]

(* enqueue(): the critical section is a single push.                       *)
Enqueue(p, e) ==
    /\ p \notin locked
    /\ q' = [q EXCEPT ![p] = Append(@, e)]

(* An iteration up to the first enqueue ...                                *)
Submit(e) ==
    /\ main = "loop"
    /\ num_edges' = num_edges + 2
    /\ num_nodes' = num_nodes + NewVertices(e)
    /\ affected' = [affected EXCEPT ![e.source] = TRUE, ![e.destination] = TRUE]
    /\ Enqueue(OutPart(PtHash(e.source)), e)
    /\ reverse' = ReverseOf(e)
    /\ main' = "mirror"
    /\ UNCHANGED <<setup, neighbors, el, locked, pc, done>>

(* ... and its second enqueue.                                             *)
Mirror ==
    /\ main = "mirror"
    /\ Enqueue(MirrorPart(PtHash(reverse.source)), reverse)
    /\ reverse' = None
    /\ main' = "loop"
    /\ UNCHANGED <<setup, neighbors, el, locked, pc, done, counters>>

Finish ==
    /\ main = "loop"
    /\ done' = TRUE
    /\ main' = "join"
    /\ UNCHANGED <<setup, partVars, reverse, counters>>

Join ==
    /\ main = "join"
    /\ \A p \in Part : pc[p] = "exit"
    /\ main' = "idle"
    /\ UNCHANGED <<setup, partVars, done, reverse, counters>>

(* Between two updates the compute phase clears the marks it has used.     *)
ClearAffected ==
    /\ main = "idle"
    /\ affected' = [n \in NodeID |-> FALSE]
    /\ UNCHANGED <<setup, partVars, done, main, reverse, num_nodes, num_edges>>

-----------------------------------------------------------------------------
(* dequeue_loop(), one thread per partition.                               *)

Acquire(p) ==
    /\ pc[p] = "acquire"
    /\ p \notin locked
    /\ locked' = locked \cup {p}
    /\ pc' = [pc EXCEPT ![p] = "test"]
    /\ UNCHANGED <<setup, neighbors, q, el, done, main, reverse, counters>>

(* Mutant: `done' alone ends the loop.                                     *)
ContinuesUntilDone(p) == ~done

(* The loop condition, read with the mutex held.  Pushes need the mutex    *)
(* and done only rises, so reading done and the queue in one step loses no *)
(* behaviour.                                                              *)
Continues(p) == ~done \/ q[p] # <<>>

(* Mutant: the mutex is not released before the sleep.                     *)
WaitHoldingMutex(p) ==
    /\ pc[p] = "test" /\ Continues(p)
    /\ q[p] = <<>>
    /\ pc' = [pc EXCEPT ![p] = "acquire"]
    /\ UNCHANGED <<setup, neighbors, q, el, locked, done, main, reverse, counters>>

(* Nothing to do yet: release the mutex and sleep.                         *)
Wait(p) ==
    /\ pc[p] = "test" /\ Continues(p)
    /\ q[p] = <<>>
    /\ locked' = locked \ {p}
    /\ pc' = [pc EXCEPT ![p] = "acquire"]
    /\ UNCHANGED <<setup, neighbors, q, el, done, main, reverse, counters>>

(* Take everything that is queued, then release the mutex.                 *)
Drain(p) ==
    /\ pc[p] = "test" /\ Continues(p)
    /\ q[p] # <<>>
    /\ el' = [el EXCEPT ![p] = q[p]]
    /\ q' = [q EXCEPT ![p] = <<>>]
    /\ locked' = locked \ {p}
    /\ pc' = [pc EXCEPT ![p] = "insert"]
    /\ UNCHANGED <<setup, neighbors, done, main, reverse, counters>>

(* updateForExistingVertex() on the chunk, for the next drained edge; the  *)
(* partition's insert() has turned its source into a local index.  Rows    *)
(* never hold a deleted slot (nothing deletes edges), so the code's reuse  *)
(* of one cannot happen.                                                   *)
Insert(p) ==
    /\ pc[p] = "insert"
    /\ LET e == Head(el[p])
           row == HashWithinChunk(e.source)
       IN  neighbors' = [neighbors EXCEPT
                            ![p][row] = Put(@, e.destination, e.weight)]
    /\ el' = [el EXCEPT ![p] = Tail(@)]
    /\ pc' = [pc EXCEPT ![p] = IF Len(el[p]) = 1 THEN "acquire" ELSE "insert"]
    /\ UNCHANGED <<setup, q, locked, done, main, reverse, counters>>

Exit(p) ==
    /\ pc[p] = "test" /\ ~Continues(p)
    /\ locked' = locked \ {p}
    /\ pc' = [pc EXCEPT ![p] = "exit"]
    /\ UNCHANGED <<setup, neighbors, q, el, done, main, reverse, counters>>

DequeueLoop(p) ==
    /\ p \in Part
    /\ Acquire(p) \/ Wait(p) \/ Drain(p) \/ Insert(p) \/ Exit(p)

SubmitNext ==
    /\ num_edges < 2 * MaxEdges
    /\ \E e \in Submittable(num_nodes) : Submit(e)

UpdateLoop == SubmitNext \/ Mirror \/ Finish \/ Join

Next == Spawn \/ UpdateLoop \/ ClearAffected \/ \E p \in Part : DequeueLoop(p)

(* A std::mutex is not fair by itself, but whoever finds a queue empty     *)
(* sleeps a millisecond before it locks again: neither side can be shut    *)
(* out forever.  Whether another batch comes is the input's choice.        *)
Spec ==
    /\ Init /\ [][Next]_vars
    /\ SF_vars(UpdateLoop)
    /\ \A p \in AnyPart : SF_vars(DequeueLoop(p))

-----------------------------------------------------------------------------
InFlight(p) == el[p] \o q[p]

(* No thread ever indexes past its chunk: every edge that is routed to a   *)
(* partition has a local index below the ceil(N/P) rows allocated for it.  *)
WithinChunk ==
    \A p \in Part : \A i \in DOMAIN InFlight(p) :
        LET e == InFlight(p)[i] IN
        PtHash(e.source) = p[2] /\ HashWithinChunk(e.source) \in LocalIndex

(* When update() returns, no edge is left behind in a queue or in a        *)
(* thread's private list (done is set after the last push and is only      *)
(* believed together with an empty queue under the mutex).                 *)
NothingStranded ==
    /\ main = "idle" => \A p \in Part : InFlight(p) = <<>>
    /\ \A p \in Part : main = "join" /\ pc[p] = "exit" => InFlight(p) = <<>>

(* update() returns: no push and no join waits forever.                    *)
UpdateReturns == main # "idle" ~> main = "idle"

-----------------------------------------------------------------------------
(* The edges still to be put into the rows of p, in order.                 *)
Pending(p) ==
    InFlight(p) \o (IF main = "mirror" /\ p = MirrorPart(PtHash(reverse.source))
                    THEN <<reverse>> ELSE <<>>)

(* The row of v once every edge of which it is the source has been put     *)
(* into it, in order.                                                      *)
PutOwn(row, e, v) ==
    IF e.source = v THEN Put(row, e.destination, e.weight) ELSE row

Applied(row, edges, v) ==
    LET rows[i \in 0 .. Len(edges)] ==
            IF i = 0 THEN row ELSE PutOwn(rows[i - 1], edges[i], v)
    IN  rows[Len(edges)]

Settled(p, v) == Applied(neighbors[p][HashWithinChunk(v)], Pending(p), v)

(* The single list that the chunks make up.                                *)
AsOneList ==
    [directed |-> directed,
     out_neighbors |->
        [i \in 1 .. num_nodes |-> Settled(OutPart(PtHash(i - 1)), i - 1)],
     in_neighbors |->
        IF directed
        THEN [i \in 1 .. num_nodes |-> Settled(MirrorPart(PtHash(i - 1)), i - 1)]
        ELSE <<>>,
     affected |-> [i \in 1 .. num_nodes |-> affected[i - 1]],
     property |-> num_nodes,
     num_nodes |-> num_nodes,
     num_edges |-> num_edges]

(* adListChunked implements the single-threaded adList: every submission   *)
(* is an Update of adList, and the threads' work is invisible; the order   *)
(* of the partitions' steps does not show in the rows.  The second         *)
(* conjunct ties the abstract step to the edge submitted.                  *)
Sequential == INSTANCE AdList WITH
    Directions <- {s[1] : s \in Setups}, ds <- AsOneList
ImplementsAdList ==
    /\ Sequential!Spec
    /\ [][\A e \in Submittable(num_nodes) : Submit(e) => Sequential!Update(e)]_vars
=============================================================================
