--------------------------- MODULE DeltaStepping ----------------------------
(***************************************************************************)
(* dyn_sssp.h, SSSPStartFromScratch(): shortest paths by delta-stepping,   *)
(* with delta = 1 as topAlg.h calls it.  Vertices wait in bins by their    *)
(* distance.  Every iteration settles the frontier, which is the lowest    *)
(* bin that is not empty: threads take its entries, offer distances to the *)
(* out-neighbours with compare-and-swap and put the neighbours into bins   *)
(* of their own.  Then they agree on the next lowest bin and copy their    *)
(* parts of it into the frontier.                                          *)
(*                                                                         *)
(* All this is one parallel region: shared_indexes[iter&1] and             *)
(* frontier_tails[iter&1] serve one iteration and are reset for the next   *)
(* but one by whichever thread first passes the first of two barriers.     *)
(***************************************************************************)
EXTENDS Integers, Sequences, FiniteSets

CONSTANTS
    NumNodes, Threads,
    Inputs,     \* the pairs <<directed, edges>> the program is run on
    DistInf,    \* kDistInf
    MaxBin      \* kMaxBin

VARIABLES
    directed, edges, source,    \* the input
    property,
    phase,      \* "start", "region", "done"
    shared_indexes, frontier_tails,     \* indexed by the parity of iter
    frontier,   \* the array, up to the last entry ever written
    todo,       \* the iterations of the parallel loop no thread has taken
    iter,       \* the number of the iteration, the same in all threads
    reset,      \* a thread has entered the single block of this iteration
    local_bins, \* each thread's bins
    pc, job

input == <<directed, edges, source>>
vars == <<input, property, phase, shared_indexes, frontier_tails, frontier, todo,
          iter, reset, local_bins, pc, job>>

NodeID == 0 .. NumNodes - 1
OutOf(u) == {e \in DOMAIN edges : e[1] = u}
Bin == 0 .. DistInf

(* Threads use iter for its parity alone.                                  *)
this == iter
other == 1 - iter

(* ds->num_edges counts two for every submission of an edge; every edge has *)
(* been submitted once at least.                                           *)
num_edges == 2 * Cardinality({e \in DOMAIN edges : directed \/ e[1] <= e[2]})
(* The length of the frontier array.                                       *)
num_edges_directed == IF directed THEN num_edges ELSE 2 * num_edges

NoJob == [u |-> 0, left |-> {}, e |-> <<0, 0>>, old |-> 0, new |-> 0]
NoBins == [b \in Bin |-> <<>>]

Start ==
    /\ phase = "start"
    /\ source \in NodeID
    /\ property' = [n \in NodeID |-> IF n = source THEN 0 ELSE DistInf]
    /\ shared_indexes' = [i \in {0, 1} |-> IF i = 0 THEN 0 ELSE MaxBin]
    /\ frontier_tails' = [i \in {0, 1} |-> IF i = 0 THEN 1 ELSE 0]
    /\ frontier' = <<source>>
    /\ todo' = {1}
    /\ iter' = 0
    /\ reset' = FALSE
    /\ local_bins' = [t \in Threads |-> NoBins]
    /\ pc' = [t \in Threads |-> "take"]
    /\ job' = [t \in Threads |-> NoJob]
    /\ phase' = "region"
    /\ UNCHANGED input

End ==
    /\ phase = "region"
    /\ \A t \in Threads : pc[t] = "end"
    /\ phase' = "done"
    /\ UNCHANGED <<input, property, shared_indexes, frontier_tails, frontier, todo,
                   iter, reset, local_bins, pc, job>>

-----------------------------------------------------------------------------
Goto(t, label, locals) ==
    /\ pc' = [pc EXCEPT ![t] = label]
    /\ job' = [job EXCEPT ![t] = locals]
Settings == <<input, phase, iter>>
Bookkeeping == <<shared_indexes, frontier_tails, frontier, reset>>

(* An entry of the frontier.  A vertex that has got nearer than the bin    *)
(* has been settled already.                                               *)
Take(t) ==
    /\ pc[t] = "take"
    /\ \E i \in todo :
        LET u == frontier[i] IN
        /\ todo' = todo \ {i}
        /\ IF property[u] >= shared_indexes[this]
           THEN Goto(t, "edge", [NoJob EXCEPT !.u = u, !.left = OutOf(u)])
           ELSE UNCHANGED <<pc, job>>
    /\ UNCHANGED <<Settings, Bookkeeping, property, local_bins>>

(* The next out-neighbour: read its distance, then our own.                *)
ReadTarget(t) ==
    /\ pc[t] = "edge"
    /\ \E e \in job[t].left :
        Goto(t, "own", [job[t] EXCEPT !.left = @ \ {e}, !.e = e,
                                      !.old = property[e[2]]])
    /\ UNCHANGED <<Settings, Bookkeeping, property, todo, local_bins>>

ReadOwn(t) ==
    LET r == [job[t] EXCEPT !.new = property[job[t].u] + edges[job[t].e]] IN
    /\ pc[t] = "own"
    /\ Goto(t, IF r.new < r.old THEN "cas" ELSE "edge", r)
    /\ UNCHANGED <<Settings, Bookkeeping, property, todo, local_bins>>

(* Mutant: the distance is stored whatever has happened to it.             *)
StoreAnyway(t) ==
    LET r == job[t] IN
    /\ pc[t] = "cas"
    /\ property' = [property EXCEPT ![r.e[2]] = r.new]
    /\ local_bins' = [local_bins EXCEPT ![t][r.new] = Append(@, r.e[2])]
    /\ Goto(t, "edge", r)
    /\ UNCHANGED <<Settings, Bookkeeping, todo>>

CompareAndSwap(t) ==
    LET r == job[t] IN
    /\ pc[t] = "cas"
    /\ IF property[r.e[2]] = r.old
       THEN /\ property' = [property EXCEPT ![r.e[2]] = r.new]
            /\ local_bins' = [local_bins EXCEPT ![t][r.new] = Append(@, r.e[2])]
            /\ Goto(t, "edge", r)
       ELSE /\ Goto(t, "reload", r)
            /\ UNCHANGED <<property, local_bins>>
    /\ UNCHANGED <<Settings, Bookkeeping, todo>>

Reload(t) ==
    LET r == [job[t] EXCEPT !.old = property[job[t].e[2]]] IN
    /\ pc[t] = "reload"
    /\ Goto(t, IF r.old <= r.new THEN "edge" ELSE "cas", r)
    /\ UNCHANGED <<Settings, Bookkeeping, property, todo, local_bins>>

NoEdgeLeft(t) ==
    /\ pc[t] = "edge"
    /\ job[t].left = {}
    /\ Goto(t, "take", NoJob)
    /\ UNCHANGED <<Settings, Bookkeeping, property, todo, local_bins>>

Waiting(t) == {b \in Bin : b >= shared_indexes[this] /\ local_bins[t][b] # <<>>}
Least(S) == CHOOSE x \in S : \A y \in S : x <= y

(* Mutant: a thread proposes the bin after the current one or later.       *)
VoteBeyond(t) ==
    LET bins == {b \in Waiting(t) : b > shared_indexes[this]} IN
    /\ pc[t] = "take"
    /\ todo = {}
    /\ shared_indexes' = IF bins = {} THEN shared_indexes
                         ELSE [shared_indexes EXCEPT ![other] = Least(bins \cup {@})]
    /\ Goto(t, "voted", NoJob)
    /\ UNCHANGED <<Settings, frontier_tails, frontier, reset, property, todo, local_bins>>

(* The loop is nowait: the thread that finds nothing more to take proposes *)
(* its lowest bin as the next one.                                         *)
Vote(t) ==
    /\ pc[t] = "take"
    /\ todo = {}
    /\ shared_indexes' = IF Waiting(t) = {} THEN shared_indexes
                         ELSE [shared_indexes EXCEPT ![other] = Least(Waiting(t) \cup {@})]
    /\ Goto(t, "voted", NoJob)
    /\ UNCHANGED <<Settings, frontier_tails, frontier, reset, property, todo, local_bins>>

(* Mutant: the index of the bin just settled is not reset.                 *)
SingleKeepingBin(t) ==
    /\ pc[t] = "voted"
    /\ \A u \in Threads : pc[u] \in {"voted", "copy", "copied"}
    /\ reset' = TRUE
    /\ frontier_tails' = IF reset THEN frontier_tails
                         ELSE [frontier_tails EXCEPT ![this] = 0]
    /\ Goto(t, "copy", NoJob)
    /\ UNCHANGED <<Settings, shared_indexes, frontier, property, todo, local_bins>>

(* Past the first barrier: the single block, then on without waiting.      *)
Single(t) ==
    /\ pc[t] = "voted"
    /\ \A u \in Threads : pc[u] \in {"voted", "copy", "copied"}
    /\ reset' = TRUE
    /\ IF reset THEN UNCHANGED <<shared_indexes, frontier_tails>>
       ELSE /\ shared_indexes' = [shared_indexes EXCEPT ![this] = MaxBin]
            /\ frontier_tails' = [frontier_tails EXCEPT ![this] = 0]
    /\ Goto(t, "copy", NoJob)
    /\ UNCHANGED <<Settings, frontier, property, todo, local_bins>>

(* The part of the next bin this thread holds, copied to a part of the     *)
(* frontier that fetch_and_add reserves.                                   *)
Copy(t) ==
    LET next == shared_indexes[other]
        part == local_bins[t][next]
        start == frontier_tails[other]
    IN  /\ pc[t] = "copy"
        /\ IF next \in Bin
           THEN /\ frontier_tails' = [frontier_tails EXCEPT ![other] = start + Len(part)]
                /\ frontier' = SubSeq(frontier, 1, start) \o part
                               \o SubSeq(frontier, start + Len(part) + 1, Len(frontier))
                /\ local_bins' = [local_bins EXCEPT ![t][next] = <<>>]
           ELSE UNCHANGED <<frontier_tails, frontier, local_bins>>
        /\ Goto(t, "copied", NoJob)
        /\ UNCHANGED <<Settings, shared_indexes, reset, property, todo>>

(* The second barrier, iter++ and the test of the loop.                    *)
NextIteration ==
    /\ phase = "region"
    /\ \A t \in Threads : pc[t] = "copied"
    /\ iter' = other
    /\ reset' = FALSE
    /\ IF shared_indexes[other] # MaxBin
       THEN /\ todo' = 1 .. frontier_tails[other]
            /\ pc' = [t \in Threads |-> "take"]
       ELSE /\ todo' = {}
            /\ pc' = [t \in Threads |-> "end"]
    /\ UNCHANGED <<input, phase, shared_indexes, frontier_tails, frontier, property,
                   local_bins, job>>

Worker(t) ==
    \/ Take(t) \/ ReadTarget(t) \/ ReadOwn(t) \/ CompareAndSwap(t) \/ Reload(t)
    \/ NoEdgeLeft(t) \/ Vote(t) \/ Single(t) \/ Copy(t)
Main == Start \/ NextIteration \/ End
Next == Main \/ \E t \in Threads : Worker(t)

-----------------------------------------------------------------------------
(* The lengths of the shortest walks of at most k edges from the source.   *)
Lengths[k \in 0 .. NumNodes] ==
    [n \in NodeID |->
        IF k = 0 THEN IF n = source THEN 0 ELSE DistInf
        ELSE LET sofar == Lengths[k - 1] IN
             Least({sofar[n]} \cup
                   {sofar[e[1]] + edges[e] : e \in {x \in DOMAIN edges : x[2] = n}})]

(* In the end every vertex has the length of a shortest path.              *)
Exact == phase = "done" /\ source \in NodeID => property = Lengths[NumNodes]

(* When a bin's turn has come, all shorter distances are final, so that    *)
(* skipping the entries that are nearer than the bin loses nothing.        *)
BinsInOrder ==
    phase = "region" /\ shared_indexes[this] # MaxBin =>
        \A n \in NodeID : Lengths[NumNodes][n] < shared_indexes[this] =>
            property[n] = Lengths[NumNodes][n]

(* The frontier has room for the entries of every bin.                     *)
FrontierFits == Len(frontier) <= num_edges_directed
=============================================================================
