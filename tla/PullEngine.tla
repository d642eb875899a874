----------------------------- MODULE PullEngine -----------------------------
(***************************************************************************)
(* The incremental compute phase shared by dyn_sssp.h, dyn_sswp.h,         *)
(* dyn_cc.h and dyn_mc.h: dynXAlg() gives new vertices a start value, then *)
(* works in rounds.  In the first round (XIter0) every affected vertex, in *)
(* the others every vertex of the sliding queue, pulls from its neighbours *)
(* and, if its value improves, stores it and puts the vertices that pull   *)
(* from it into the queue of the next round, each at most once (visited).  *)
(* Threads share the values without locks: a pull may read a neighbour     *)
(* before or after that neighbour's store of the same round.               *)
(*                                                                         *)
(* The algorithms differ in the operators of Algorithms.  Line numbers of  *)
(* the engine are those of dyn_sssp.h; the other three files repeat it.    *)
(***************************************************************************)
EXTENDS Integers, Sequences, FiniteSets, Functions, Algorithms

CONSTANTS
    Threads,
    LocalSize,      \* capacity of a QueueBuffer's local_queue (16384)
    BatchSizes      \* bounds: the most edges each batch may have

ASSUME LocalSizeAssumption == LocalSize \in Nat \ {0}
ASSUME ThreadsAssumption == Threads # {}

VARIABLES
    alg,        \* the algorithm, and the source it has
    num_nodes,
    edges,      \* the out-edges: a function from pairs of vertices to weights
    affected,   \* the vertices marked by the update phase
    property,   \* [NodeID -> Value(alg) or Uninit]
    phase,      \* "idle" (result ready), "updated", "first", "rounds"
    curr,       \* the vertices of this round
    todo,       \* the positions of curr that no thread has taken
    next,       \* the queue of the next round, as flushed so far
    visited,    \* the vertices some thread has claimed for the next round
    lqueue,     \* each thread's local queue
    pc, job,    \* each thread's control point and locals
    batches     \* batches so far

graph == <<alg, num_nodes, edges, batches>>
vars == <<graph, affected, property, phase, curr, todo, next, visited, lqueue,
          pc, job>>

OutOf(n) == {p \in DOMAIN edges : p[1] = n}
InTo(n) == {p \in DOMAIN edges : p[2] = n}

(* The pairs <<u, w>>: n pulls from u over an edge of weight w.            *)
PullFrom(n) ==
    {<<p[1], edges[p]>> : p \in InTo(n)}
        \cup IF BothWays(alg) THEN {<<p[2], edges[p]>> : p \in OutOf(n)} ELSE {}
(* The vertices n pushes into the queue: those that pull from it.          *)
PushTo(n) ==
    {p[2] : p \in OutOf(n)}
        \cup IF BothWays(alg) THEN {p[1] : p \in InTo(n)} ELSE {}

Job == [n : NodeID, old : Value(alg), acc : Value(alg),
        left : SUBSET (NodeID \X Weights(alg)), push : SUBSET NodeID]

TypeOK ==
    /\ alg \in Algs
    /\ num_nodes \in 0 .. NumNodes
    /\ DOMAIN edges \subseteq (0 .. num_nodes - 1) \X (0 .. num_nodes - 1)
    /\ edges \in [DOMAIN edges -> Weights(alg)]
    /\ affected \subseteq NodeID
    /\ property \in [NodeID -> Value(alg) \cup {Uninit}]
    /\ phase \in {"idle", "updated", "first", "rounds"}
    /\ curr \in Seq(NodeID)
    /\ todo \subseteq DOMAIN curr
    /\ next \in Seq(NodeID)
    /\ visited \subseteq NodeID
    /\ lqueue \in [Threads -> Seq(NodeID)]
    /\ pc \in [Threads -> {"take", "pull", "push", "flushed"}]
    /\ job = [t \in Threads |-> job[t]]
    /\ \A t \in Threads : pc[t] \in {"pull", "push"} => job[t] \in Job
    /\ batches \in Nat

NothingYet ==
    /\ num_nodes = 0
    /\ edges = [p \in {} |-> 0]
    /\ affected = {}
    /\ property = [n \in NodeID |-> Uninit]
    /\ phase = "idle"
    /\ curr = <<>> /\ todo = {} /\ next = <<>> /\ visited = {}
    /\ lqueue = [t \in Threads |-> <<>>]
    /\ pc = [t \in Threads |-> "flushed"]
    /\ job = [t \in Threads |-> <<>>]
    /\ batches = 0

(* The engine by itself: a search has its source from the start.           *)
Init ==
    /\ alg \in {a \in Algs : /\ a.name \in Incremental
                            /\ a.name \in Searches <=> a.source # NoSource}
    /\ NothingYet

-----------------------------------------------------------------------------
(* The update phase: ds->update() applies a batch of edges and marks their *)
(* endpoints.  Vertices numbered from num_nodes up are new.                *)

Endpoints(pairs) == {p[1] : p \in pairs} \cup {p[2] : p \in pairs}
Symmetric(pairs) ==
    pairs \cup IF alg.directed THEN {} ELSE {<<p[2], p[1]>> : p \in pairs}

Update(pairs, w) ==
    /\ phase = "idle"
    /\ batches' = batches + 1
    /\ \A p \in Symmetric(pairs) \cap DOMAIN edges : Admits(alg, edges[p], w[p])
    /\ \E m \in num_nodes .. NumNodes :
          /\ pairs \subseteq (0 .. m - 1) \X (0 .. m - 1)
          /\ num_nodes .. m - 1 \subseteq Endpoints(pairs)
          /\ num_nodes' = m
    /\ edges' = [p \in DOMAIN edges \cup Symmetric(pairs) |->
                    IF p \in Symmetric(pairs) THEN w[p] ELSE edges[p]]
    /\ affected' = affected \cup Endpoints(pairs)
    /\ phase' = "updated"
    /\ UNCHANGED <<alg, property, curr, todo, next, visited, lqueue, pc, job>>

-----------------------------------------------------------------------------
(* dynXAlg(), outside its parallel regions.                                *)

BeginRound(work) ==
    /\ curr' = work
    /\ todo' = DOMAIN work
    /\ next' = <<>>
    /\ visited' = {}
    /\ pc' = [t \in Threads |-> "take"]

(* All vertices start again (mcfromscratch; in the others, a mutant).      *)
StartValuesForAll ==
    [n \in NodeID |-> IF n < num_nodes THEN Start(alg, n) ELSE property[n]]

(* New vertices get their start value ...                                  *)
StartValues ==
    [n \in NodeID |-> IF n < num_nodes /\ property[n] = Uninit
                      THEN Start(alg, n) ELSE property[n]]

(* ... then the affected ones are visited.                                 *)
Begin ==
    /\ phase = "updated"
    /\ property' = StartValues
    /\ phase' = "first"
    /\ \E work \in [1 .. Cardinality(affected) -> affected] :
          /\ \A n \in affected : \E i \in DOMAIN work : work[i] = n
          /\ \A i, j \in DOMAIN work : i < j => work[i] < work[j]
          /\ BeginRound(work)
    /\ UNCHANGED <<graph, affected, lqueue, job>>

RoundOver == phase \in {"first", "rounds"} /\ \A t \in Threads : pc[t] = "flushed"

(* The barrier at the end of a round, then slide_window().                 *)
Slide ==
    /\ RoundOver
    /\ next # <<>>
    /\ BeginRound(next)
    /\ phase' = "rounds"
    /\ UNCHANGED <<graph, affected, property, lqueue, job>>

(* The queue stays empty: clear the marks.                                 *)
End ==
    /\ RoundOver
    /\ next = <<>>
    /\ affected' = {}
    /\ phase' = "idle"
    /\ curr' = <<>>
    /\ UNCHANGED <<graph, property, todo, next, visited, lqueue, pc, job>>

-----------------------------------------------------------------------------
(* An iteration of the parallel loop, on thread t.                         *)

(* Mutant: a vertex can be taken again.                                    *)
TakeAgain(t) ==
    /\ pc[t] = "take"
    /\ \E i \in todo :
        job' = [job EXCEPT ![t] =
                   [n |-> curr[i], old |-> property[curr[i]],
                    acc |-> Base(alg, curr[i], property[curr[i]]),
                    left |-> PullFrom(curr[i]), push |-> {}]]
    /\ pc' = [pc EXCEPT ![t] = "pull"]
    /\ UNCHANGED <<graph, affected, property, phase, curr, todo, next, visited, lqueue>>

(* Mutant: what the thread put together for its last vertex is kept.        *)
TakeUnreset(t) ==
    /\ pc[t] = "take"
    /\ \E i \in todo :
        LET n == curr[i] IN
        /\ todo' = todo \ {i}
        /\ job' = [job EXCEPT ![t] =
                      [n |-> n, old |-> property[n],
                       acc |-> IF job[t] = <<>> THEN Base(alg, n, property[n]) ELSE job[t].acc,
                       left |-> PullFrom(n), push |-> {}]]
    /\ pc' = [pc EXCEPT ![t] = "pull"]
    /\ UNCHANGED <<graph, affected, property, phase, curr, next, visited, lqueue>>

Take(t) ==
    /\ pc[t] = "take"
    /\ \E i \in todo :
        LET n == curr[i] IN
        /\ todo' = todo \ {i}
        /\ job' = [job EXCEPT ![t] =
                      [n |-> n, old |-> property[n], acc |-> Base(alg, n, property[n]),
                       left |-> PullFrom(n), push |-> {}]]
    /\ pc' = [pc EXCEPT ![t] = "pull"]
    /\ UNCHANGED <<graph, affected, property, phase, curr, next, visited, lqueue>>

(* The next neighbour's value, read while other threads may store it.      *)
Pull(t) ==
    /\ pc[t] = "pull"
    /\ \E e \in job[t].left :
        LET offer == Extend(alg, property[e[1]], e[2]) IN
        job' = [job EXCEPT
                   ![t].left = @ \ {e},
                   ![t].acc = IF Better(alg, offer, @) THEN offer ELSE @]
    /\ UNCHANGED <<graph, affected, property, phase, curr, todo, next, visited,
                   lqueue, pc>>

(* Mutant: every vertex triggers.                                          *)
TriggerAlways(t) == TRUE

Trigger(t) ==
    \/ Better(alg, job[t].acc, job[t].old)
    \/ phase = "first" /\ FirstRoundTrigger(alg, job[t].n, job[t].old)

(* All neighbours read: store an improvement.  (CC and MC also store a     *)
(* value that is not one, the one they read; nobody else stores to n in    *)
(* this round.)                                                            *)
Store(t) ==
    /\ pc[t] = "pull"
    /\ job[t].left = {}
    /\ property' = IF Better(alg, job[t].acc, job[t].old)
                   THEN [property EXCEPT ![job[t].n] = job[t].acc] ELSE property
    /\ IF Trigger(t)
       THEN /\ job' = [job EXCEPT ![t].push = PushTo(job[t].n)]
            /\ pc' = [pc EXCEPT ![t] = "push"]
       ELSE /\ pc' = [pc EXCEPT ![t] = "take"]
            /\ UNCHANGED job
    /\ UNCHANGED <<graph, affected, phase, curr, todo, next, visited, lqueue>>

(* Mutant: visited is not tested.                                          *)
PushUnmarked(t) ==
    /\ pc[t] = "push"
    /\ \E v \in job[t].push :
        /\ job' = [job EXCEPT ![t].push = @ \ {v}]
        /\ visited' = visited \cup {v}
        /\ lqueue' = [lqueue EXCEPT ![t] = Append(@, v)]
    /\ UNCHANGED <<graph, affected, property, phase, curr, todo, next, pc>>

(* The compare-and-swap on visited[v] decides who queues v.  A full local  *)
(* queue is flushed first.                                                 *)
Push(t) ==
    /\ pc[t] = "push"
    /\ \E v \in job[t].push :
        /\ job' = [job EXCEPT ![t].push = @ \ {v}]
        /\ IF v \in visited
           THEN UNCHANGED <<visited, lqueue, next>>
           ELSE /\ visited' = visited \cup {v}
                /\ IF Len(lqueue[t]) = LocalSize
                   THEN /\ next' = next \o lqueue[t]
                        /\ lqueue' = [lqueue EXCEPT ![t] = <<v>>]
                   ELSE /\ lqueue' = [lqueue EXCEPT ![t] = Append(@, v)]
                        /\ UNCHANGED next
    /\ UNCHANGED <<graph, affected, property, phase, curr, todo, pc>>

Pushed(t) ==
    /\ pc[t] = "push"
    /\ job[t].push = {}
    /\ pc' = [pc EXCEPT ![t] = "take"]
    /\ UNCHANGED <<graph, affected, property, phase, curr, todo, next, visited,
                   lqueue, job>>

(* Mutant: the local queue is dropped at the end of the loop.              *)
FlushForgotten(t) ==
    /\ pc[t] = "take"
    /\ todo = {}
    /\ lqueue' = [lqueue EXCEPT ![t] = <<>>]
    /\ pc' = [pc EXCEPT ![t] = "flushed"]
    /\ UNCHANGED <<graph, affected, property, phase, curr, todo, next, visited, job>>

(* No iterations left: lqueue.flush(), then wait at the barrier.           *)
Flush(t) ==
    /\ pc[t] = "take"
    /\ todo = {}
    /\ next' = next \o lqueue[t]
    /\ lqueue' = [lqueue EXCEPT ![t] = <<>>]
    /\ pc' = [pc EXCEPT ![t] = "flushed"]
    /\ UNCHANGED <<graph, affected, property, phase, curr, todo, visited, job>>

Worker(t) == Take(t) \/ Pull(t) \/ Store(t) \/ Push(t) \/ Pushed(t) \/ Flush(t)

NewBatch ==
    /\ batches < Len(BatchSizes)
    /\ \E pairs \in SUBSET (NodeID \X NodeID) :
        /\ Cardinality(pairs) \in 1 .. BatchSizes[batches + 1]
        /\ \E w \in [Symmetric(pairs) -> Weights(alg)] :
            /\ \A p \in pairs : ~alg.directed => w[<<p[2], p[1]>>] = w[p]
            /\ Update(pairs, w)

Finished == phase = "idle" /\ batches = Len(BatchSizes) /\ UNCHANGED vars

Next ==
    \/ NewBatch \/ Begin \/ Slide \/ End
    \/ \E t \in Threads : Worker(t)
    \/ Finished

(* The runtime runs every thread of a parallel region, and main between    *)
(* the regions.                                                            *)
Spec ==
    /\ Init /\ [][Next]_vars
    /\ WF_vars(Begin \/ Slide \/ End)
    /\ \A t \in Threads : WF_vars(Worker(t))

-----------------------------------------------------------------------------
(* n's value cannot be improved over the edge e = <<u, w>>.                *)
RelaxedFrom(n, e) == ~Better(alg, Extend(alg, property[e[1]], e[2]), property[n])

(* When a compute phase ends no vertex can be improved by any neighbour,   *)
(* whatever the threads' reads and stores were interleaved with.           *)
Converged ==
    phase = "idle" =>
        \A n \in 0 .. num_nodes - 1 :
            property[n] \in Value(alg) /\ \A e \in PullFrom(n) : RelaxedFrom(n, e)

(* No vertex is queued twice for one round, so the arrays of the sliding   *)
(* queue, allocated for num_nodes entries, cannot overflow.                *)
QueuedOnce ==
    /\ IsInjective(curr)
    /\ IsInjective(next)
    /\ \A t \in Threads : IsInjective(lqueue[t])
    /\ \A t \in Threads : Range(lqueue[t]) \cap Range(next) = {}
    /\ \A t, u \in Threads : t # u =>
          Range(lqueue[t]) \cap Range(lqueue[u]) = {}
QueueFits == Len(next) <= num_nodes /\ Len(curr) <= num_nodes

(* In a round at most one thread works on a vertex, and nobody else        *)
(* changes the value it has read for it.                                   *)
OneWriter ==
    /\ \A t, u \in Threads :
          pc[t] \in {"pull", "push"} /\ pc[u] \in {"pull", "push"} /\ t # u =>
              job[t].n # job[u].n
    /\ \A t \in Threads : pc[t] = "pull" => property[job[t].n] = job[t].old

(* A value only ever gets better, through all rounds and batches (the      *)
(* asserts on new_comp and new_val, and what reusing old values rests on). *)
OnlyImproves ==
    [][\A n \in NodeID :
          \/ property'[n] = property[n]
          \/ property[n] = Uninit
          \/ Better(alg, property'[n], property[n])]_vars

(* The values a from-scratch computation on the current graph would give:  *)
(* the start values, improved over every edge NumNodes times.              *)
Best(S) == CHOOSE x \in S : \A y \in S : ~Better(alg, y, x)
Scratch[k \in 0 .. NumNodes] ==
    IF k = 0 THEN [n \in NodeID |-> Start(alg, n)]
    ELSE [n \in NodeID |->
            Best({Scratch[k - 1][n]}
                    \cup {Extend(alg, Scratch[k - 1][e[1]], e[2]) : e \in PullFrom(n)})]

(* The result of the incremental computation is that of the computation    *)
(* from scratch.                                                           *)
SameAsFromScratch ==
    phase = "idle" =>
        \A n \in 0 .. num_nodes - 1 : property[n] = Scratch[NumNodes][n]

(* The rounds come to an end.                                              *)
ComputeTerminates == phase = "updated" ~> phase = "idle"

-----------------------------------------------------------------------------
(***************************************************************************)
(* The inductive invariant behind Converged.  While a compute phase runs,  *)
(* an edge over which n could still be improved is never forgotten: n is   *)
(* waiting in this round or queued for the next, or some thread will still *)
(* read the edge's value for n (or has read it and holds as good a value), *)
(* or the thread that improved the other end has yet to push n.            *)
(***************************************************************************)
Known == 0 .. num_nodes - 1
Busy(t) == pc[t] \in {"pull", "push"}
Untaken == {curr[i] : i \in todo}

Forthcoming(n, e) ==
    \E t \in Threads :
        /\ pc[t] = "pull" /\ job[t].n = n
        /\ e \in job[t].left \/ ~Better(alg, Extend(alg, property[e[1]], e[2]), job[t].acc)
ToBePushed(n, e) ==
    \E t \in Threads : pc[t] = "push" /\ job[t].n = e[1] /\ n \in job[t].push

Accounted(n, e) ==
    \/ RelaxedFrom(n, e)
    \/ n \in Untaken \/ n \in visited
    \/ Forthcoming(n, e) \/ ToBePushed(n, e)

(* Between compute phases the machinery is at rest.                        *)
AtRest ==
    phase \in {"idle", "updated"} =>
        /\ curr = <<>> /\ next = <<>> /\ visited = {}
        /\ \A t \in Threads : pc[t] = "flushed"

FlushedEmpty == \A t \in Threads : pc[t] = "flushed" => lqueue[t] = <<>> /\ todo = {}

(* The marks in visited are exactly the vertices queued.                   *)
VisitedQueued ==
    visited = Range(next) \cup UNION {Range(lqueue[t]) : t \in Threads}

(* The threads work on vertices of the graph, each taken once.             *)
WorkKnown ==
    /\ Range(curr) \subseteq Known
    /\ visited \subseteq Known
    /\ affected \subseteq Known
    /\ \A t \in Threads : Busy(t) =>
          /\ job[t].n \in Known /\ job[t].n \notin Untaken
          /\ job[t].left \subseteq Known \X Weights(alg)
          /\ job[t].push \subseteq Known

(* Every vertex of the graph has a value once the compute phase has begun. *)
Valued ==
    /\ phase \in {"first", "rounds"} => \A n \in Known : property[n] \in Value(alg)
    /\ phase = "updated" =>
          \A n \in Known : property[n] = Uninit => n \in affected

(* An update leaves nothing to improve except at the vertices it marks.    *)
MarkedOrRelaxed ==
    phase = "updated" =>
        \A n \in Known \ affected : \A e \in PullFrom(n) :
            property[e[1]] \in Value(alg) /\ RelaxedFrom(n, e)

AllAccounted ==
    phase \in {"first", "rounds"} =>
        \A n \in Known : \A e \in PullFrom(n) : Accounted(n, e)

RoundsInv ==
    /\ TypeOK /\ AtRest /\ FlushedEmpty /\ QueuedOnce /\ VisitedQueued
    /\ WorkKnown /\ OneWriter /\ Valued /\ MarkedOrRelaxed /\ AllAccounted

IInv == RoundsInv /\ Converged

(***************************************************************************)
(* What SameAsFromScratch takes besides: a value is never better than what *)
(* the computation from scratch comes to, not even one that a thread has   *)
(* put together and not stored, and never worse than the vertex' start.    *)
(***************************************************************************)
InBounds ==
    /\ \A n \in NodeID : property[n] # Uninit =>
          /\ ~Better(alg, property[n], Scratch[NumNodes][n])
          /\ ~Better(alg, Start(alg, n), property[n])
    /\ \A t \in Threads : pc[t] = "pull" =>
          /\ job[t].left \subseteq PullFrom(job[t].n)
          /\ ~Better(alg, job[t].acc, Scratch[NumNodes][job[t].n])
=============================================================================
