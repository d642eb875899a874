---------------------------- MODULE HookCompress ----------------------------
(***************************************************************************)
(* dyn_cc.h, CCStartFromScratch(): connected components by label           *)
(* propagation (Shiloach-Vishkin).  property[n] is n's parent in a forest. *)
(* A hooking loop over the vertices makes a root the child of the smaller  *)
(* label at the other end of an edge, a compressing loop hangs every       *)
(* vertex onto its root, and the two repeat until a hooking loop changes   *)
(* nothing.                                                                *)
(*                                                                         *)
(* The loops run on several threads that share the labels without locks:   *)
(* a label may change between its reading, the test that its owner is a    *)
(* root, and the hooking, and of two hookings of one root one is lost.     *)
(* Every access to a shared label is a step here.                          *)
(***************************************************************************)
EXTENDS Integers

CONSTANTS
    NumNodes,
    Threads,
    Inputs      \* the pairs <<directed, edges>> the program is run on; edges
                \* is a function from pairs of vertices to weights

NodeID == 0 .. NumNodes - 1
Uninit == -1

(* What the constants must satisfy (assumed by FromScratch, which          *)
(* instantiates this module): an undirected edge is stored in the rows of  *)
(* both its ends.                                                          *)
GoodInputs ==
    /\ NumNodes \in Nat \ {0} /\ Threads # {}
    /\ \A i \in Inputs :
        /\ i[1] \in BOOLEAN
        /\ DOMAIN i[2] \subseteq NodeID \X NodeID
        /\ ~i[1] => \A e \in DOMAIN i[2] : <<e[2], e[1]>> \in DOMAIN i[2]

VARIABLES
    directed, edges,    \* the input
    property,
    phase,      \* "start", "hook", "compress", "done"
    change,     \* some root has been hooked in this iteration
    todo,       \* the vertices no thread has taken in this loop
    pc, job     \* each thread's control point and locals

vars == <<directed, edges, property, phase, change, todo, pc, job>>

OutNeigh(u) == {v \in NodeID : <<u, v>> \in DOMAIN edges}

Job == [u : NodeID, left : SUBSET NodeID, v : NodeID, comp_u : NodeID,
        high : NodeID, low : NodeID]
NoJob == [u |-> 0, left |-> {}, v |-> 0, comp_u |-> 0, high |-> 0, low |-> 0]

TypeOK ==
    /\ \E i \in Inputs : directed = i[1] /\ edges = i[2]
    /\ property \in [NodeID -> IF phase = "start" THEN {Uninit} ELSE NodeID]
    /\ phase \in {"start", "hook", "compress", "done"}
    /\ change \in BOOLEAN
    /\ todo \subseteq NodeID
    /\ pc \in [Threads -> {"take", "edge", "other", "root", "hook", "compress", "barrier"}]
    /\ job \in [Threads -> Job]

Init ==
    /\ \E i \in Inputs : directed = i[1] /\ edges = i[2]
    /\ property = [n \in NodeID |-> Uninit]
    /\ phase = "start"
    /\ change = TRUE
    /\ todo = {}
    /\ pc = [t \in Threads |-> "barrier"]
    /\ job = [t \in Threads |-> NoJob]

-----------------------------------------------------------------------------
(* The main thread, between the parallel loops.                            *)
BeginLoop ==
    /\ todo' = NodeID
    /\ pc' = [t \in Threads |-> "take"]
    /\ UNCHANGED <<directed, edges, job>>

LoopOver(loop) == phase = loop /\ \A t \in Threads : pc[t] = "barrier"

(* Every vertex is its own root.                                           *)
Start ==
    /\ phase = "start"
    /\ property' = [n \in NodeID |-> n]
    /\ phase' = "hook"
    /\ change' = FALSE
    /\ BeginLoop

EndHooking ==
    /\ LoopOver("hook")
    /\ phase' = "compress"
    /\ BeginLoop
    /\ UNCHANGED <<property, change>>

(* Mutant: the loops are not repeated.                                     *)
EndCompressingOnce ==
    /\ LoopOver("compress")
    /\ phase' = "done"
    /\ UNCHANGED <<directed, edges, property, change, todo, pc, job>>

(* while (change)                                                          *)
EndCompressing ==
    /\ LoopOver("compress")
    /\ IF change
       THEN /\ phase' = "hook"
            /\ change' = FALSE
            /\ BeginLoop
       ELSE /\ phase' = "done"
            /\ UNCHANGED <<directed, edges, change, todo, pc, job>>
    /\ UNCHANGED property

-----------------------------------------------------------------------------
(* The threads.                                                            *)
Goto(t, label, locals) ==
    /\ pc' = [pc EXCEPT ![t] = label]
    /\ job' = [job EXCEPT ![t] = locals]
Shared == <<directed, edges, phase, change, property>>

(* An iteration of either loop; the undirected hooking loop reads u's      *)
(* label here, once for all the edges of u.                                *)
Take(t) ==
    /\ pc[t] = "take"
    /\ \E u \in todo :
        /\ todo' = todo \ {u}
        /\ IF phase = "hook"
           THEN Goto(t, "edge", [NoJob EXCEPT !.u = u, !.left = OutNeigh(u),
                                              !.comp_u = property[u]])
           ELSE Goto(t, "compress", [NoJob EXCEPT !.u = u])
    /\ UNCHANGED Shared

(* The next edge; the directed loop reads u's label again for each.        *)
NextEdge(t) ==
    /\ pc[t] = "edge"
    /\ \E v \in job[t].left :
        Goto(t, "other",
             [job[t] EXCEPT !.left = @ \ {v}, !.v = v,
                            !.comp_u = IF directed THEN property[job[t].u] ELSE @])
    /\ UNCHANGED <<Shared, todo>>

(* The label at the other end.  The lower label is to win; an undirected   *)
(* edge is hooked from its lower end only.                                 *)
ReadOther(t) ==
    LET comp_u == job[t].comp_u
        comp_v == property[job[t].v]
    IN  /\ pc[t] = "other"
        /\ IF comp_u < comp_v
           THEN Goto(t, "root", [job[t] EXCEPT !.high = comp_v, !.low = comp_u])
           ELSE IF directed /\ comp_v < comp_u
           THEN Goto(t, "root", [job[t] EXCEPT !.high = comp_u, !.low = comp_v])
           ELSE Goto(t, "edge", job[t])
        /\ UNCHANGED <<Shared, todo>>

(* Only a root is hooked.                                                  *)
TestRoot(t) ==
    /\ pc[t] = "root"
    /\ IF property[job[t].high] = job[t].high
       THEN change' = TRUE /\ Goto(t, "hook", job[t])
       ELSE Goto(t, "edge", job[t]) /\ UNCHANGED change
    /\ UNCHANGED <<directed, edges, phase, property, todo>>

Hook(t) ==
    /\ pc[t] = "hook"
    /\ property' = [property EXCEPT ![job[t].high] = job[t].low]
    /\ Goto(t, "edge", job[t])
    /\ UNCHANGED <<directed, edges, phase, change, todo>>

(* One iteration of the compressing while loop.  Another thread may change *)
(* the parent's label between the test and the assignment, but only to a   *)
(* label closer to the root, so that it is as if both came after that.     *)
Compress(t) ==
    LET n == job[t].u IN
    /\ pc[t] = "compress"
    /\ IF property[n] # property[property[n]]
       THEN /\ property' = [property EXCEPT ![n] = property[property[n]]]
            /\ UNCHANGED <<pc, job>>
       ELSE Goto(t, "take", NoJob) /\ UNCHANGED property
    /\ UNCHANGED <<directed, edges, phase, change, todo>>

NoEdgeLeft(t) ==
    /\ pc[t] = "edge"
    /\ job[t].left = {}
    /\ Goto(t, "take", NoJob)
    /\ UNCHANGED <<Shared, todo>>

Barrier(t) ==
    /\ pc[t] = "take"
    /\ todo = {}
    /\ Goto(t, "barrier", NoJob)
    /\ UNCHANGED <<Shared, todo>>

Worker(t) ==
    \/ Take(t) \/ NextEdge(t) \/ ReadOther(t) \/ TestRoot(t) \/ Hook(t)
    \/ Compress(t) \/ NoEdgeLeft(t) \/ Barrier(t)

Main == Start \/ EndHooking \/ EndCompressing

Next == Main \/ \E t \in Threads : Worker(t)

Spec == Init /\ [][Next]_vars

-----------------------------------------------------------------------------
(* Two vertices are connected if no set of vertices that no edge leaves or *)
(* enters tells them apart.                                                *)
Closed(S) == \A e \in DOMAIN edges : e[1] \in S <=> e[2] \in S
Connected(m, n) == \A S \in SUBSET NodeID : Closed(S) => (m \in S <=> n \in S)

(* Whatever hookings were lost to races, in the end two vertices have the  *)
(* same label exactly if they are connected.                               *)
ComponentLabels ==
    phase = "done" =>
        \A m, n \in NodeID : property[m] = property[n] <=> Connected(m, n)

(* Labels never lead upwards: concurrent hookings close no cycle, in which *)
(* the compressing loop would run forever.                                 *)
ParentsDescend == phase # "start" => \A n \in NodeID : property[n] <= n

-----------------------------------------------------------------------------
(***************************************************************************)
(* The inductive invariant behind ComponentLabels.                         *)
(***************************************************************************)
Hooking(t) == pc[t] \in {"edge", "other", "root", "hook"}

AtBarrier == \A t \in Threads :
    /\ Hooking(t) => phase = "hook"
    /\ pc[t] = "compress" => phase = "compress"
    /\ phase \in {"start", "done"} => pc[t] = "barrier"
    /\ pc[t] = "barrier" => todo = {}

(* Labels stay within a component, the ones that threads hold included.    *)
WithinComponent ==
    \A S \in SUBSET NodeID : Closed(S) =>
        /\ phase # "start" => \A n \in NodeID : n \in S <=> property[n] \in S
        /\ \A t \in Threads :
            /\ Hooking(t) => (job[t].u \in S <=> job[t].comp_u \in S)
            /\ pc[t] \in {"root", "hook"} => (job[t].high \in S <=> job[t].low \in S)

(* The edges a thread has yet to look at start from the vertex it holds;   *)
(* the label it will give is lower than the one it replaces.               *)
JobsMatch == \A t \in Threads :
    /\ Hooking(t) => job[t].left \subseteq OutNeigh(job[t].u)
    /\ pc[t] = "other" => job[t].v \in OutNeigh(job[t].u)
    /\ pc[t] \in {"root", "hook"} => job[t].low < job[t].high

(* n is a root or the child of one.                                        *)
Flat(n) == property[property[n]] = property[n]

(* The edge from u to v calls for no hooking from u's side.                *)
Agree(u, v) ==
    /\ property[v] <= property[u]
    /\ directed => property[u] <= property[v]

(* Some thread has yet to look at the edge.                                *)
Pending(u, v) ==
    \/ u \in todo
    \/ \E t \in Threads :
        /\ Hooking(t) /\ job[t].u = u
        /\ v \in job[t].left \/ (pc[t] \in {"other", "root"} /\ job[t].v = v)

(* As long as no root has been hooked in this iteration, the labels are    *)
(* those the compressing loop left, and the edges looked at agree.         *)
Unchanged ==
    ~change => \A u \in NodeID :
        /\ Flat(u)
        /\ phase = "hook" =>
              \A v \in OutNeigh(u) : Agree(u, v) \/ Pending(u, v)
        /\ phase \in {"compress", "done"} => \A v \in OutNeigh(u) : Agree(u, v)
(* What a thread has read is still so, and it will find a root to hook.    *)
ReadsCurrent ==
    ~change => \A t \in Threads :
        /\ Hooking(t) => job[t].comp_u = property[job[t].u]
        /\ pc[t] = "root" => property[job[t].high] = job[t].high
        /\ pc[t] # "hook"

(* A vertex the compressing loop is through with hangs onto a root.        *)
Compressed ==
    phase = "compress" => \A n \in NodeID :
        Flat(n) \/ n \in todo \/ \E t \in Threads : pc[t] = "compress" /\ job[t].u = n

IInv ==
    /\ TypeOK /\ AtBarrier /\ ParentsDescend /\ WithinComponent /\ JobsMatch
    /\ Unchanged /\ ReadsCurrent /\ Compressed /\ ComponentLabels
=============================================================================
