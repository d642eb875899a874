------------------------------- MODULE Darhh --------------------------------
(***************************************************************************)
(* darhh.h, darhh_ld.h, darhh_hd.h and the part of traversal.h that reads  *)
(* them: degree-aware hashing.  Every partition has one Robin Hood table   *)
(* for the edges of its low-degree vertices, keyed by the whole edge, and  *)
(* one table per high-degree vertex, keyed by the neighbour.  A vertex     *)
(* moves from the first to the second when it is about to get its third    *)
(* edge.  Each partition has a queue and, during an update, a thread that  *)
(* takes one edge at a time from it.                                       *)
(***************************************************************************)
EXTENDS EdgeStream, RobinHood

CONSTANTS
    Setups,     \* the pairs <<directed, nt>> the constructor may be given
    LdCapacity, \* initial capacity of a low-degree table (2^20 in the code)
    EcCapacity, \* initial capacity of an edge chunk (2^5 in the code)
    MaxSubmitted \* bound on the edges submitted, repeated ones included

\* A directed graph needs a partition for either side, an undirected one a
\* single partition: pt_hash divides by their number.
ASSUME SetupsAssumption ==
    \A s \in Setups : /\ s[1] \in BOOLEAN
                      /\ s[2] \in Nat
                      /\ s[2] >= (IF s[1] THEN 2 ELSE 1)
ASSUME CapacityAssumption == IsCapacity(LdCapacity) /\ IsCapacity(EcCapacity)
ASSUME MaxSubmittedAssumption == MaxSubmitted \in Nat

None == [none |-> TRUE]

VARIABLES
    setup,      \* <<directed, nt>>, fixed by the constructor
    ld,         \* [Part -> table], keyed by <<source, destination>>
    hd,         \* [Part -> [vertices moved -> table keyed by <<neighbour>>]]
    q,          \* [Part -> Seq(Edge)], the queues
    held,       \* [Part -> Edge or None], the edge each thread has popped
    running,    \* the partitions whose dequeue_loop has not returned
    done,       \* the flag that dequeue_loop polls
    main,       \* the control point of update()
    reverse,    \* the reversed edge whose enqueue is due
    affected, num_nodes, num_edges

vars == <<setup, ld, hd, q, held, running, done, main, reverse,
          affected, num_nodes, num_edges>>
tables == <<ld, hd>>
threads == <<q, held, running>>
counters == <<affected, num_nodes, num_edges>>

directed == setup[1]
PerSide == IF directed THEN setup[2] \div 2 ELSE setup[2]
MirrorSide == IF directed THEN "in" ELSE "out"
Part == {"out", MirrorSide} \X (0 .. PerSide - 1)
PtHash(n) == n % PerSide

LdThreshold == 2

-----------------------------------------------------------------------------
(* ld_rhh: the edges of a vertex start at its home and end where the run   *)
(* of elements as far from home as the search ends.                        *)

Stops(t, origin, i) ==
    t.arr[i] = Vacant \/ ProbeDist(t, origin, i) > Displacement(t, i)

Reached(t, origin, i) ==
    \A d \in 0 .. ProbeDist(t, origin, i) : ~Stops(t, origin, At(t, origin, d))

(* The slots of n's edges that the iterator and the degree come across.    *)
LdSlots(t, n) ==
    {i \in Live(t) : t.arr[i].key[1] = n /\ Reached(t, n % t.capacity, i)}

LdDegree(t, n) == Cardinality(LdSlots(t, n))

(* hd_rhh: a table per vertex, made on demand.                             *)
Chunk(h, n) == IF n \in DOMAIN h THEN h[n] ELSE NewTable(EcCapacity)

WithChunk(h, n, t) ==
    [m \in DOMAIN h \cup {n} |-> IF m = n THEN t ELSE h[m]]

HdInsertElem(h, src, dst, w) ==
    WithChunk(h, src, InsertElem(Chunk(h, src), <<dst>>, w))

HdDegree(h, n) == IF n \in DOMAIN h THEN h[n].size ELSE 0

-----------------------------------------------------------------------------
(* partition::insert.  s is what the partition owns: its low-degree table  *)
(* and its chunks.                                                         *)

(* Mutant: the edges that move are left where they were, too.              *)
LeaveTombstonesNot(t, slots) == t

(* Marked deleted; the size of the table does not go down, because a       *)
(* tombstone still takes a slot.                                           *)
LeaveTombstones(t, slots) ==
    [t EXCEPT !.arr = [i \in DOMAIN @ |->
        IF i \in slots THEN [@[i] EXCEPT !.deleted = TRUE] ELSE @[i]]]

(* The iterator's walk, d slots from n's home.                             *)
TransferLowToHigh(s, n) ==
    LET slots == LdSlots(s.ld, n)
        at(d) == At(s.ld, n % s.ld.capacity, d)
        moved[d \in 0 .. s.ld.capacity] ==
            IF d = 0 THEN Chunk(s.hd, n)
            ELSE IF at(d - 1) \in slots
                 THEN LET elem == s.ld.arr[at(d - 1)] IN
                      InsertElem(moved[d - 1], <<elem.key[2]>>, elem.val)
                 ELSE moved[d - 1]
    IN  [ld |-> LeaveTombstones(s.ld, slots),
         hd |-> WithChunk(s.hd, n, moved[s.ld.capacity])]

InsertLow(s, edge) ==
    [s EXCEPT !.ld = InsertElem(@, <<edge.source, edge.destination>>, edge.weight)]

InsertHigh(s, edge) ==
    [s EXCEPT !.hd = HdInsertElem(@, edge.source, edge.destination, edge.weight)]

InsertEdge(s, edge) ==
    LET deg == LdDegree(s.ld, edge.source)
        low == \/ ~edge.sourceExists
               \/ deg > 0 /\ deg < LdThreshold
               \/ deg # LdThreshold /\ HdDegree(s.hd, edge.source) = 0
    IN  IF low THEN InsertLow(s, edge)
        ELSE InsertHigh(IF deg = LdThreshold
                        THEN TransferLowToHigh(s, edge.source) ELSE s, edge)

-----------------------------------------------------------------------------
DarhhInit ==
    /\ setup \in Setups
    /\ ld = [p \in Part |-> NewTable(LdCapacity)]
    /\ hd = [p \in Part |-> <<>>]
    /\ q = [p \in Part |-> <<>>]
    /\ held = [p \in Part |-> None]
    /\ running = {}
    /\ done = TRUE
    /\ main = "idle"
    /\ reverse = None
    /\ affected = [n \in NodeID |-> FALSE]
    /\ num_nodes = 0
    /\ num_edges = 0

(* update(), on the main thread.                                           *)

Spawn ==
    /\ main = "idle"
    /\ main' = "loop"
    /\ done' = FALSE
    /\ running' = Part
    /\ UNCHANGED <<setup, tables, q, held, reverse, counters>>

(* The critical sections are a push, and a test and a pop: one step each.  *)
Enqueue(p, edge) == q' = [q EXCEPT ![p] = Append(@, edge)]

Submit(edge) ==
    /\ main = "loop"
    /\ affected' = [affected EXCEPT ![edge.source] = TRUE,
                                    ![edge.destination] = TRUE]
    /\ num_nodes' = num_nodes + NewVertices(edge)
    /\ num_edges' = num_edges + 2
    /\ Enqueue(<<"out", PtHash(edge.source)>>, edge)
    /\ reverse' = ReverseOf(edge)
    /\ main' = "mirror"
    /\ UNCHANGED <<setup, tables, held, running, done>>

Mirror ==
    /\ main = "mirror"
    /\ Enqueue(<<MirrorSide, PtHash(reverse.source)>>, reverse)
    /\ reverse' = None
    /\ main' = "loop"
    /\ UNCHANGED <<setup, tables, held, running, done, counters>>

Finish ==
    /\ main = "loop"
    /\ done' = TRUE
    /\ main' = "join"
    /\ UNCHANGED <<setup, tables, threads, reverse, counters>>

Join ==
    /\ main = "join"
    /\ running = {}
    /\ main' = "idle"
    /\ UNCHANGED <<setup, tables, threads, done, reverse, counters>>

(* dequeue_loop(), one thread per partition.  Finding the queue empty and  *)
(* sleeping changes nothing.                                               *)

Pop(p) ==
    /\ p \in running /\ held[p] = None
    /\ q[p] # <<>>
    /\ held' = [held EXCEPT ![p] = Head(q[p])]
    /\ q' = [q EXCEPT ![p] = Tail(@)]
    /\ UNCHANGED <<setup, tables, running, done, main, reverse, counters>>

Insert(p) ==
    /\ held[p] # None
    /\ LET owned == InsertEdge([ld |-> ld[p], hd |-> hd[p]], held[p]) IN
       /\ ld' = [ld EXCEPT ![p] = owned.ld]
       /\ hd' = [hd EXCEPT ![p] = owned.hd]
    /\ held' = [held EXCEPT ![p] = None]
    /\ UNCHANGED <<setup, q, running, done, main, reverse, counters>>

(* Mutant: done alone ends the loop.                                       *)
ExitAtOnce(p) ==
    /\ p \in running /\ held[p] = None
    /\ done
    /\ running' = running \ {p}
    /\ UNCHANGED <<setup, tables, q, held, done, main, reverse, counters>>

Exit(p) ==
    /\ p \in running /\ held[p] = None
    /\ done /\ q[p] = <<>>
    /\ running' = running \ {p}
    /\ UNCHANGED <<setup, tables, q, held, done, main, reverse, counters>>

SubmitNext ==
    /\ num_edges < 2 * MaxSubmitted
    /\ \E edge \in Submittable(num_nodes) : Submit(edge)

DarhhNext ==
    \/ Spawn \/ SubmitNext \/ Mirror \/ Finish \/ Join
    \/ \E p \in Part : Pop(p) \/ Insert(p) \/ Exit(p)

DarhhSpec == DarhhInit /\ [][DarhhNext]_vars

-----------------------------------------------------------------------------
(* The neighbours of n that neighborhood_iter<darhh> visits on one side.   *)
Traversed(p, n) ==
    LET slots == LdSlots(ld[p], n)
        chunk == Chunk(hd[p], n)
    IN  IF slots # {}
        THEN {NeighborInfo(ld[p].arr[i].key[2], ld[p].arr[i].val) : i \in slots}
        ELSE {NeighborInfo(chunk.arr[i].key[1], chunk.arr[i].val) : i \in Live(chunk)}

(* out_degree and in_degree.                                               *)
Degree(p, n) ==
    IF LdDegree(ld[p], n) = 0 THEN HdDegree(hd[p], n) ELSE LdDegree(ld[p], n)

Tables(p) == {ld[p]} \cup {hd[p][n] : n \in DOMAIN hd[p]}

-----------------------------------------------------------------------------
(* The vertices given out so far that partition p is for.                  *)
Owned(p) == {n \in 0 .. num_nodes - 1 : PtHash(n) = p[2]}

(* Robin Hood order holds in every table, so that the degree and the       *)
(* iterator may stop early (rhh.h, ld_rhh::get_degree): neither the stale  *)
(* origin after a swap nor a tombstone taken over breaks it.               *)
ProbeOrder ==
    \A p \in Part : \A t \in Tables(p) : SortedByHome(t) /\ NoDuplicateKeys(t)

(* Every table keeps a vacant slot, without which an insertion or the walk *)
(* over a vertex' edges would never end.  Moving a vertex to its chunk     *)
(* does not free the slots it leaves: size must go on counting them.       *)
RoomLeft == \A p \in Part : \A t \in Tables(p) : HasRoom(t)

(* A degree is the number of neighbours that a traversal of the same       *)
(* vertex visits, and no live edge of the vertex is left where neither     *)
(* looks: a vertex never has edges in its partition's low-degree table and *)
(* in a chunk of its own.                                                  *)
DegreeExact ==
    \A p \in Part : \A n \in Owned(p) :
        LET shown == {nb.node : nb \in Traversed(p, n)}
            low == {i \in Live(ld[p]) : ld[p].arr[i].key[1] = n}
            chunk == Chunk(hd[p], n)
        IN  /\ Degree(p, n) = Cardinality(shown)
            /\ shown = {ld[p].arr[i].key[2] : i \in low} \cup
                       {chunk.arr[i].key[1] : i \in Live(chunk)}

(* The weights that the neighbours nbs show for m: one at most.            *)
WeightsOf(nbs, m) == {nb.weight : nb \in {nb \in nbs : nb.node = m}}

Pair(e) == <<e.source, e.destination>>

(* The same once the edges of s are inserted over `shown', in order.       *)
Over(s, x, shown) ==
    LET due == {i \in DOMAIN s : Pair(s[i]) = x} IN
    IF due = {} THEN shown ELSE {s[Max(due)].weight}

(* What the thread of p has still to insert, in order.                     *)
InFlight(p) ==
    IF p \notin running THEN <<>>
    ELSE (IF held[p] = None THEN <<>> ELSE <<held[p]>>) \o q[p] \o
         (IF main = "mirror" /\ p = <<MirrorSide, PtHash(reverse.source)>>
          THEN <<reverse>> ELSE <<>>)

(* One side of the graph.  A traversal looks for n's edges where pt_hash   *)
(* says.                                                                   *)
Side(name) ==
    LET nbs == [n \in NodeID |-> Traversed(<<name, PtHash(n)>>, n)]
        due == [h \in 0 .. PerSide - 1 |-> InFlight(<<name, h>>)]
        shown(x) == Over(due[PtHash(x[1])], x, WeightsOf(nbs[x[1]], x[2]))
        pairs == (UNION {{<<n, nb.node>> : nb \in nbs[n]} : n \in NodeID}) \cup
                 (UNION {{Pair(due[h][i]) : i \in DOMAIN due[h]} : h \in DOMAIN due})
    IN  [x \in {x \in pairs : shown(x) # {}} |-> CHOOSE w \in shown(x) : TRUE]

(* Degree-aware hashing promises what EdgeStore promises: a traversal      *)
(* shows every edge ever submitted, with the weight last given to it, from *)
(* both its ends, whichever table the edge is in and however the threads   *)
(* interleave.  The second conjunct ties the abstract step to the edge     *)
(* submitted.                                                              *)
Promised == INSTANCE EdgeStore WITH
                Directions <- {s[1] : s \in Setups}, directed <- directed,
                out <- Side("out"),
                in <- IF directed THEN Side("in") ELSE [x \in {} |-> 0],
                num_nodes <- num_nodes, num_edges <- num_edges
DarhhImplementsEdgeStore ==
    /\ Promised!StoreInit
    /\ [][\E edge \in Submittable(num_nodes) :
              Submit(edge) /\ Promised!Insert(edge)]_(Promised!storeVars)
=============================================================================
