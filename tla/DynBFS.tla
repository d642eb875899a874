------------------------------- MODULE DynBFS -------------------------------
(***************************************************************************)
(* dyn_bfs.h, incremental breadth-first search.  Unlike the other          *)
(* incremental algorithms it pushes: a vertex whose depth is settled       *)
(* offers depth + 1 to its out-neighbours, with a compare-and-swap loop    *)
(* on each one's depth, so that several threads may store to one vertex.   *)
(* Only in the first round (BFSIter0) does an affected vertex also pull    *)
(* from its in-neighbours, and then it stores its depth with a plain       *)
(* assignment.                                                             *)
(*                                                                         *)
(* Each access to a depth that other threads may store is a step.          *)
(***************************************************************************)
EXTENDS Integers, Sequences, FiniteSets

CONSTANTS
    NumNodes,
    Threads,
    Teams,      \* the sets of threads the OpenMP runtime may work with
    Inputs,     \* sequences of batches, a batch being a set of edges <<u, v>>
    source,     \* the source picked in the first compute phase
    FloatMax    \* numeric_limits<float>::max()

ASSUME NumNodesAssumption == NumNodes \in Nat \ {0}
ASSUME ThreadsAssumption == IsFiniteSet(Threads)
ASSUME TeamsAssumption == Teams \subseteq (SUBSET Threads) \ {{}}
ASSUME InputsAssumption ==
    Inputs \subseteq Seq(SUBSET ((0 .. NumNodes - 1) \X (0 .. NumNodes - 1)))
ASSUME SourceAssumption == source \in 0 .. NumNodes - 1
(* A depth may exceed the number of vertices, but not twice that number.    *)
ASSUME FloatMaxAssumption == FloatMax \in Nat /\ FloatMax > 2 * NumNodes

NodeID == 0 .. NumNodes - 1
Unreached == -1
Depth == 0 .. FloatMax

VARIABLES
    team,       \* the threads of the parallel regions
    input,      \* the batches still to come
    edges,      \* the out-edges, a set of pairs
    affected, property,
    phase,      \* "idle" (result ready), "updated", "first", "rounds"
    todo,       \* the vertices of this round not yet taken by a thread
    next,       \* the queue of the next round
    visited,
    pc, job     \* each thread's control point and locals

vars == <<team, input, edges, affected, property, phase, todo, next, visited, pc, job>>

InNeigh(n) == {e[1] : e \in {x \in edges : x[2] = n}}
OutNeigh(n) == {e[2] : e \in {x \in edges : x[1] = n}}

Job == [n : NodeID, old : Depth \cup {Unreached}, new : Depth,
        left : SUBSET NodeID,   \* neighbours still to pull from or push to
        v : NodeID,             \* the out-neighbour being updated
        curr : Depth \cup {Unreached}, updated : Depth]

ControlPoints == {"take", "pull", "push", "own", "claim", "cas", "reload", "barrier"}

TypeOK ==
    /\ team \in Teams
    /\ input \in Seq(SUBSET (NodeID \X NodeID))
    /\ edges \subseteq NodeID \X NodeID
    /\ affected \subseteq NodeID
    /\ property \in [NodeID -> Depth \cup {Unreached}]
    /\ phase \in {"idle", "updated", "first", "rounds"}
    /\ todo \subseteq NodeID
    /\ next \in Seq(NodeID)
    /\ visited \subseteq NodeID
    /\ pc \in [Threads -> ControlPoints]
    /\ DOMAIN job = Threads
    /\ \A t \in Threads : pc[t] \notin {"take", "barrier"} => job[t] \in Job

Init ==
    /\ team \in Teams
    /\ input \in Inputs
    /\ edges = {} /\ affected = {}
    /\ property = [n \in NodeID |-> Unreached]
    /\ phase = "idle"
    /\ todo = {} /\ next = <<>> /\ visited = {}
    /\ pc = [t \in Threads |-> "barrier"]
    /\ job = [t \in Threads |-> <<>>]

-----------------------------------------------------------------------------
(* The update phase adds the edges of a batch and marks their endpoints.   *)
Update ==
    /\ phase = "idle"
    /\ input # <<>>
    /\ input' = Tail(input)
    /\ edges' = edges \cup Head(input)
    /\ affected' = affected \cup {e[1] : e \in Head(input)}
                            \cup {e[2] : e \in Head(input)}
    /\ phase' = "updated"
    /\ UNCHANGED <<team, property, todo, next, visited, pc, job>>

(* Mutant: the queue of the next round is not emptied.                     *)
BeginRoundKeeping(work) ==
    /\ todo' = work
    /\ visited' = {}
    /\ pc' = [t \in Threads |-> IF t \in team THEN "take" ELSE "barrier"]
    /\ UNCHANGED next

BeginRound(work) ==
    /\ todo' = work
    /\ next' = <<>>
    /\ visited' = {}
    /\ pc' = [t \in Threads |-> IF t \in team THEN "take" ELSE "barrier"]

Begin ==
    /\ phase = "updated"
    /\ property' = IF property[source] = Unreached
                   THEN [property EXCEPT ![source] = 0] ELSE property
    /\ phase' = "first"
    /\ BeginRound(affected)
    /\ UNCHANGED <<team, input, edges, affected, job>>

RoundOver ==
    phase \in {"first", "rounds"} /\ \A t \in Threads : pc[t] = "barrier"

(* slide_window()                                                          *)
Slide ==
    /\ RoundOver
    /\ next # <<>>
    /\ phase' = "rounds"
    /\ BeginRound({next[i] : i \in DOMAIN next})
    /\ UNCHANGED <<team, input, edges, affected, property, job>>

End ==
    /\ RoundOver
    /\ next = <<>>
    /\ affected' = {}
    /\ phase' = "idle"
    /\ UNCHANGED <<team, input, edges, property, todo, next, visited, pc, job>>

-----------------------------------------------------------------------------
Goto(t, label, locals) ==
    /\ pc' = [pc EXCEPT ![t] = label]
    /\ job' = [job EXCEPT ![t] = locals]
Fixed == UNCHANGED <<team, input, edges, affected, phase>>

(* An iteration: in the first round it pulls, in the others it pushes.     *)
Take(t) ==
    /\ pc[t] = "take"
    /\ \E n \in todo :
        LET locals == [n |-> n, old |-> property[n], new |-> FloatMax,
                       left |-> InNeigh(n), v |-> n, curr |-> Unreached,
                       updated |-> 0]
        IN  /\ todo' = todo \ {n}
            /\ IF phase = "first"
               THEN Goto(t, "pull", locals)
               ELSE Goto(t, "push", [locals EXCEPT !.left = OutNeigh(n)])
    /\ Fixed /\ UNCHANGED <<property, next, visited>>

(* Mutant: a neighbour that has not been reached offers -1 + 1.            *)
PullUnchecked(t) ==
    /\ pc[t] = "pull"
    /\ \E u \in job[t].left :
        LET offer == property[u] + 1 IN
        Goto(t, "pull", [job[t] EXCEPT
                            !.left = @ \ {u},
                            !.new = IF offer < @ THEN offer ELSE @])
    /\ Fixed /\ UNCHANGED <<property, todo, next, visited>>

Pull(t) ==
    /\ pc[t] = "pull"
    /\ \E u \in job[t].left :
        LET offer == IF property[u] = Unreached THEN FloatMax ELSE property[u] + 1 IN
        Goto(t, "pull", [job[t] EXCEPT
                            !.left = @ \ {u},
                            !.new = IF offer < @ THEN offer ELSE @])
    /\ Fixed /\ UNCHANGED <<property, todo, next, visited>>

(* Mutant: only new vertices trigger.                                     *)
TriggerNew(r) == r.old = Unreached /\ r.new # FloatMax

Trigger(r) == (r.new < r.old \/ r.old = Unreached) /\ r.new # FloatMax

(* ds->property[n] = new_depth, whatever has happened to it since it was   *)
(* read.                                                                   *)
Store(t) ==
    LET r == job[t] IN
    /\ pc[t] = "pull"
    /\ r.left = {}
    /\ IF Trigger(r)
       THEN /\ property' = [property EXCEPT ![r.n] = r.new]
            /\ Goto(t, "push", [r EXCEPT !.left = OutNeigh(r.n)])
       ELSE Goto(t, "take", <<>>) /\ UNCHANGED property
    /\ Fixed /\ UNCHANGED <<todo, next, visited>>

(* The next out-neighbour: read its depth, then our own.                   *)
ReadTarget(t) ==
    /\ pc[t] = "push"
    /\ \E v \in job[t].left :
        Goto(t, "own", [job[t] EXCEPT !.left = @ \ {v}, !.v = v,
                                      !.curr = property[v]])
    /\ Fixed /\ UNCHANGED <<property, todo, next, visited>>

ReadOwn(t) ==
    LET r == [job[t] EXCEPT !.updated = property[job[t].n] + 1] IN
    /\ pc[t] = "own"
    /\ IF r.updated < r.curr \/ r.curr = Unreached
       THEN Goto(t, "claim", r)
       ELSE Goto(t, "push", r)
    /\ Fixed /\ UNCHANGED <<property, todo, next, visited>>

(* Mutants: visited is not tested; the vertex is not queued.               *)
ClaimUntested(t) ==
    LET r == job[t] IN
    /\ pc[t] = "claim"
    /\ visited' = visited \cup {r.v}
    /\ next' = Append(next, r.v)
    /\ Goto(t, "cas", r)
    /\ Fixed /\ UNCHANGED <<property, todo>>
ClaimUnqueued(t) ==
    LET r == job[t] IN
    /\ pc[t] = "claim"
    /\ visited' = visited \cup {r.v}
    /\ Goto(t, "cas", r)
    /\ Fixed /\ UNCHANGED <<property, todo, next>>

(* Whoever sets visited[v] queues v.                                       *)
Claim(t) ==
    LET r == job[t] IN
    /\ pc[t] = "claim"
    /\ IF r.v \in visited
       THEN UNCHANGED <<visited, next>>
       ELSE /\ visited' = visited \cup {r.v}
            /\ next' = Append(next, r.v)
    /\ Goto(t, "cas", r)
    /\ Fixed /\ UNCHANGED <<property, todo>>

CompareAndSwap(t) ==
    LET r == job[t] IN
    /\ pc[t] = "cas"
    /\ IF property[r.v] = r.curr
       THEN /\ property' = [property EXCEPT ![r.v] = r.updated]
            /\ Goto(t, "push", r)
       ELSE Goto(t, "reload", r) /\ UNCHANGED property
    /\ Fixed /\ UNCHANGED <<todo, next, visited>>

(* Lost the race: try again unless the depth is now good enough.           *)
Reload(t) ==
    LET r == [job[t] EXCEPT !.curr = property[job[t].v]] IN
    /\ pc[t] = "reload"
    /\ Goto(t, IF r.curr <= r.updated THEN "push" ELSE "cas", r)
    /\ Fixed /\ UNCHANGED <<property, todo, next, visited>>

Pushed(t) ==
    /\ pc[t] = "push"
    /\ job[t].left = {}
    /\ Goto(t, "take", <<>>)
    /\ Fixed /\ UNCHANGED <<property, todo, next, visited>>

Barrier(t) ==
    /\ pc[t] = "take"
    /\ todo = {}
    /\ Goto(t, "barrier", <<>>)
    /\ Fixed /\ UNCHANGED <<property, todo, next, visited>>

Worker(t) ==
    \/ Take(t) \/ Pull(t) \/ Store(t) \/ ReadTarget(t) \/ ReadOwn(t) \/ Claim(t)
    \/ CompareAndSwap(t) \/ Reload(t) \/ Pushed(t) \/ Barrier(t)

Finished == phase = "idle" /\ input = <<>> /\ UNCHANGED vars

Next ==
    \/ Update \/ Begin \/ Slide \/ End
    \/ \E t \in Threads : Worker(t)
    \/ Finished

Spec ==
    /\ Init /\ [][Next]_vars
    /\ WF_vars(Begin \/ Slide \/ End)
    /\ \A t \in Threads : WF_vars(Worker(t))

-----------------------------------------------------------------------------
(* The vertices that at most k edges lead to from the source, and the      *)
(* length of a shortest walk to n, or FloatMax.                            *)
Within[k \in 0 .. NumNodes] ==
    IF k = 0 THEN {source}
    ELSE LET near == Within[k - 1] IN near \cup UNION {OutNeigh(u) : u \in near}
Distance(n) ==
    IF n \in Within[NumNodes]
    THEN CHOOSE k \in 0 .. NumNodes :
            n \in Within[k] /\ \A j \in 0 .. k - 1 : n \notin Within[j]
    ELSE FloatMax

(* The incremental computation ends with the depths that a search from     *)
(* scratch would assign (README.md:35: the two are "compute models for a   *)
(* specific algorithm").  This is not so: see DepthsAreShortestAlone.      *)
DepthsAreShortest ==
    phase = "idle" /\ edges # {} =>
        \A n \in NodeID :
            property[n] = IF Distance(n) = FloatMax THEN Unreached ELSE Distance(n)

(* With a single thread they are the depths of a search from scratch.      *)
DepthsAreShortestAlone == Cardinality(team) = 1 => DepthsAreShortest

(* What holds of the depths even so: at the end exactly the reachable      *)
(* vertices have one, and none is ever less than the distance.             *)
ReachableReached ==
    phase = "idle" /\ edges # {} =>
        \A n \in NodeID : property[n] = Unreached <=> Distance(n) = FloatMax
NeverTooShallow ==
    \A n \in NodeID : property[n] # Unreached => property[n] >= Distance(n)

(* No vertex is queued twice in a round, which the comment at line 54 is   *)
(* about: the arrays of the queue have room for each vertex once.          *)
QueuedOnce == \A i, j \in DOMAIN next : next[i] = next[j] => i = j

(* The rounds come to an end.                                              *)
ComputeTerminates == phase = "updated" ~> phase = "idle"
=============================================================================
