----------------------------- MODULE PushRounds -----------------------------
(***************************************************************************)
(* BFSStartFromScratch() of dyn_bfs.h and SSWPStartFromScratch() of        *)
(* dyn_sswp.h: rounds in which every vertex of the sliding queue offers a  *)
(* value to its out-neighbours and those that take it are queued for the   *)
(* next round.  Threads store values with compare-and-swap only.           *)
(*                                                                         *)
(* The two differ in the constants below and in who queues a vertex: in    *)
(* sswp whoever marks it as visited, before the value is stored; in bfs,   *)
(* which has no visited, whoever's compare-and-swap succeeds, and one that *)
(* fails is not repeated.                                                  *)
(***************************************************************************)
EXTENDS Integers, Sequences, FiniteSets, Functions

CONSTANTS
    NumNodes, Threads,
    Inputs,         \* the pairs <<directed, edges>> the program is run on
    Fresh,          \* the value every vertex starts with ...
    AtSource,       \* ... but for the source
    Extend(_, _),   \* what a vertex of value x offers over an edge of weight w
    Better(_, _),   \* the offer x is taken instead of the value y
    MarksFirst      \* sswp's way of queueing

VARIABLES
    directed, edges, source,    \* the input
    property,
    phase,      \* "start", "rounds", "done"
    todo,       \* the positions in the queue no thread has taken
    curr, next, \* the queues of this round and of the next
    visited,
    pc, job     \* each thread's control point and locals

input == <<directed, edges, source>>
vars == <<input, property, phase, todo, curr, next, visited, pc, job>>

NodeID == 0 .. NumNodes - 1
OutOf(u) == {e \in DOMAIN edges : e[1] = u}

NoJob == [u |-> 0, left |-> {}, e |-> <<0, 0>>, old |-> Fresh, new |-> Fresh]

BeginRound(queue) ==
    /\ curr' = queue
    /\ next' = <<>>
    /\ todo' = DOMAIN queue
    /\ visited' = {}
    /\ pc' = [t \in Threads |-> "take"]
    /\ phase' = "rounds"
    /\ UNCHANGED input

Start ==
    /\ phase = "start"
    /\ source \in NodeID
    /\ property' = [n \in NodeID |-> IF n = source THEN AtSource ELSE Fresh]
    /\ job' = [t \in Threads |-> NoJob]
    /\ BeginRound(<<source>>)

RoundOver == phase = "rounds" /\ \A t \in Threads : pc[t] = "barrier"

(* slide_window()                                                          *)
Slide ==
    /\ RoundOver
    /\ next # <<>>
    /\ BeginRound(next)
    /\ UNCHANGED <<property, job>>

End ==
    /\ RoundOver
    /\ next = <<>>
    /\ phase' = "done"
    /\ UNCHANGED <<input, property, todo, curr, next, visited, pc, job>>

-----------------------------------------------------------------------------
Goto(t, label, locals) ==
    /\ pc' = [pc EXCEPT ![t] = label]
    /\ job' = [job EXCEPT ![t] = locals]
Fixed == UNCHANGED <<input, phase, curr>>

Take(t) ==
    /\ pc[t] = "take"
    /\ \E i \in todo :
        /\ todo' = todo \ {i}
        /\ Goto(t, "edge", [NoJob EXCEPT !.u = curr[i], !.left = OutOf(curr[i])])
    /\ Fixed /\ UNCHANGED <<property, next, visited>>

(* The next out-neighbour: read its value, then our own.                   *)
ReadTarget(t) ==
    /\ pc[t] = "edge"
    /\ \E e \in job[t].left :
        Goto(t, "own", [job[t] EXCEPT !.left = @ \ {e}, !.e = e,
                                      !.old = property[e[2]]])
    /\ Fixed /\ UNCHANGED <<property, todo, next, visited>>

ReadOwn(t) ==
    LET r == [job[t] EXCEPT !.new = Extend(property[job[t].u], edges[job[t].e])] IN
    /\ pc[t] = "own"
    /\ Goto(t, CASE ~Better(r.new, r.old) -> "edge"
                 [] Better(r.new, r.old) /\ MarksFirst -> "mark"
                 [] OTHER -> "cas", r)
    /\ Fixed /\ UNCHANGED <<property, todo, next, visited>>

(* Mutant: visited is not tested.                                          *)
MarkUntested(t) ==
    /\ pc[t] = "mark"
    /\ visited' = visited \cup {job[t].e[2]}
    /\ next' = Append(next, job[t].e[2])
    /\ Goto(t, "cas", job[t])
    /\ Fixed /\ UNCHANGED <<property, todo>>

Mark(t) ==
    /\ pc[t] = "mark"
    /\ IF job[t].e[2] \in visited
       THEN UNCHANGED <<visited, next>>
       ELSE /\ visited' = visited \cup {job[t].e[2]}
            /\ next' = Append(next, job[t].e[2])
    /\ Goto(t, "cas", job[t])
    /\ Fixed /\ UNCHANGED <<property, todo>>

(* Mutant: the value is stored whatever has happened to it.                *)
StoreAnyway(t) ==
    LET v == job[t].e[2] IN
    /\ pc[t] = "cas"
    /\ property' = [property EXCEPT ![v] = job[t].new]
    /\ next' = IF MarksFirst THEN next ELSE Append(next, v)
    /\ Goto(t, "edge", job[t])
    /\ Fixed /\ UNCHANGED <<todo, visited>>

CompareAndSwap(t) ==
    LET v == job[t].e[2] IN
    /\ pc[t] = "cas"
    /\ IF property[v] = job[t].old
       THEN /\ property' = [property EXCEPT ![v] = job[t].new]
            /\ next' = IF MarksFirst THEN next ELSE Append(next, v)
            /\ Goto(t, "edge", job[t])
       ELSE /\ Goto(t, IF MarksFirst THEN "reload" ELSE "edge", job[t])
            /\ UNCHANGED <<property, next>>
    /\ Fixed /\ UNCHANGED <<todo, visited>>

(* Lost the race: try again unless the value is now good enough.           *)
Reload(t) ==
    LET r == [job[t] EXCEPT !.old = property[job[t].e[2]]] IN
    /\ pc[t] = "reload"
    /\ Goto(t, IF Better(r.new, r.old) THEN "cas" ELSE "edge", r)
    /\ Fixed /\ UNCHANGED <<property, todo, next, visited>>

NoEdgeLeft(t) ==
    /\ pc[t] = "edge"
    /\ job[t].left = {}
    /\ Goto(t, "take", NoJob)
    /\ Fixed /\ UNCHANGED <<property, todo, next, visited>>

(* lqueue.flush(): what a thread queued is in next already, in the order   *)
(* of the queueing instead of the flushing.                                *)
Barrier(t) ==
    /\ pc[t] = "take"
    /\ todo = {}
    /\ Goto(t, "barrier", NoJob)
    /\ Fixed /\ UNCHANGED <<property, todo, next, visited>>

Worker(t) ==
    \/ Take(t) \/ ReadTarget(t) \/ ReadOwn(t) \/ Mark(t) \/ CompareAndSwap(t)
    \/ Reload(t) \/ NoEdgeLeft(t) \/ Barrier(t)
Main == Start \/ Slide \/ End
Next == Main \/ \E t \in Threads : Worker(t)

-----------------------------------------------------------------------------
(* The values after k rounds of offers by everyone at once.                *)
Best(S) == CHOOSE x \in S : \A y \in S : ~Better(y, x)
Values[k \in 0 .. NumNodes] ==
    IF k = 0 THEN [n \in NodeID |-> IF n = source THEN AtSource ELSE Fresh]
    ELSE LET sofar == Values[k - 1]
             In(n) == {e \in DOMAIN edges : e[2] = n /\ sofar[e[1]] # Fresh}
             offers(n) == {x \in {Extend(sofar[e[1]], edges[e]) : e \in In(n)} :
                               Better(x, sofar[n])}
         IN  [n \in NodeID |-> IF offers(n) = {} THEN sofar[n] ELSE Best(offers(n))]

(* In the end every vertex has the value of the best path to it.           *)
Exact == phase = "done" /\ source \in NodeID => property = Values[NumNodes]

(* No vertex is queued twice in a round: the queue has room for each once. *)
QueueFits == IsInjective(next) /\ IsInjective(curr)
=============================================================================
