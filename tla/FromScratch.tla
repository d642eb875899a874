----------------------------- MODULE FromScratch ----------------------------
(***************************************************************************)
(* topAlg.h: the calls of performAlg() that compute from scratch on the    *)
(* structure as the updates have left it.  One call is modelled: nothing   *)
(* but the source survives from one to the next, since each overwrites the *)
(* values of all vertices.  (mcfromscratch is a case of Algorithm.)        *)
(***************************************************************************)
EXTENDS Integers, Sequences, FiniteSets, SourcePicker

CONSTANTS
    NumNodes, Threads,
    Algs,           \* the algorithms of this instance
    Inputs,         \* the pairs <<directed, edges>> the program is run on
    DistInf,        \* kDistInf
    MaxBin          \* kMaxBin

NodeID == 0 .. NumNodes - 1

ASSUME AlgsAssumption ==
    Algs \subseteq {"bfsfromscratch", "sswpfromscratch", "ssspfromscratch", "ccfromscratch"}
ASSUME NumNodesAssumption == NumNodes \in Nat \ {0} /\ Threads # {}
ASSUME InputsAssumption ==
    \A i \in Inputs :
        /\ i[1] \in BOOLEAN
        /\ DOMAIN i[2] \subseteq NodeID \X NodeID
        /\ \A e \in DOMAIN i[2] : i[2][e] \in Nat
        /\ ~i[1] => \A e \in DOMAIN i[2] :
                        <<e[2], e[1]>> \in DOMAIN i[2] /\ i[2][<<e[2], e[1]>>] = i[2][e]
(* More than any length of a path, and wider than any road.                *)
ASSUME DistInfAssumption ==
    /\ DistInf \in Nat
    /\ \A i \in Inputs : \A e \in DOMAIN i[2] : DistInf > i[2][e] * NumNodes
ASSUME MaxBinAssumption == MaxBin \in Nat /\ MaxBin > DistInf

VARIABLES
    alg,
    directed, edges, source,
    property, phase, todo, pc, job,     \* of all algorithms
    curr, next, visited,                \* of bfs and sswp
    change,                             \* of cc
    shared_indexes, frontier_tails, frontier, iter, reset, local_bins   \* of sssp

pushVars == <<curr, next, visited>>
binVars == <<shared_indexes, frontier_tails, frontier, iter, reset, local_bins>>
vars == <<alg, directed, edges, source, property, phase, todo, pc, job,
          pushVars, change, binVars>>

BfsExtend(x, w) == x + 1
BfsBetter(x, y) == y < 0
SswpExtend(x, w) == IF x < w THEN x ELSE w
SswpBetter(x, y) == x > y

BFS == INSTANCE PushRounds
         WITH Fresh <- -1, AtSource <- 0, MarksFirst <- FALSE,
              Extend <- BfsExtend, Better <- BfsBetter
SSWP == INSTANCE PushRounds
          WITH Fresh <- 0, AtSource <- DistInf, MarksFirst <- TRUE,
               Extend <- SswpExtend, Better <- SswpBetter
SSSP == INSTANCE DeltaStepping
CC == INSTANCE HookCompress

Init ==
    /\ alg \in Algs
    /\ CC!Init
    /\ source = NoSource
    /\ curr = <<>> /\ next = <<>> /\ visited = {}
    /\ shared_indexes = <<>> /\ frontier_tails = <<>> /\ frontier = <<>>
    /\ iter = 0 /\ reset = FALSE /\ local_bins = <<>>

out_degree == [n \in NodeID |-> Cardinality({e \in DOMAIN edges : e[1] = n})]

(* The searches need a source and return without having done anything if   *)
(* there is none.                                                          *)
PickSource ==
    /\ phase = "start"
    /\ alg # "ccfromscratch"
    /\ source = NoSource
    /\ source' \in PickNext(NumNodes, out_degree)
    /\ phase' = IF source' = NoSource THEN "done" ELSE phase
    /\ UNCHANGED <<alg, directed, edges, property, todo, pc, job, pushVars, change, binVars>>

(* The algorithm's own steps: the main thread's, and those of thread t.    *)
Main ==
    /\ UNCHANGED alg
    /\ \/ alg = "bfsfromscratch"  /\ BFS!Main  /\ UNCHANGED <<change, binVars>>
       \/ alg = "sswpfromscratch" /\ SSWP!Main /\ UNCHANGED <<change, binVars>>
       \/ alg = "ssspfromscratch" /\ SSSP!Main /\ UNCHANGED <<change, pushVars>>
       \/ alg = "ccfromscratch"   /\ CC!Main   /\ UNCHANGED <<source, pushVars, binVars>>
Worker(t) ==
    /\ UNCHANGED alg
    /\ \/ alg = "bfsfromscratch"  /\ BFS!Worker(t)  /\ UNCHANGED <<change, binVars>>
       \/ alg = "sswpfromscratch" /\ SSWP!Worker(t) /\ UNCHANGED <<change, binVars>>
       \/ alg = "ssspfromscratch" /\ SSSP!Worker(t) /\ UNCHANGED <<change, pushVars>>
       \/ alg = "ccfromscratch"   /\ CC!Worker(t)   /\ UNCHANGED <<source, pushVars, binVars>>

Finished == phase = "done" /\ UNCHANGED vars

Next == PickSource \/ Main \/ (\E t \in Threads : Worker(t)) \/ Finished

(* The runtime runs every thread of a parallel region, and main between    *)
(* the regions.                                                            *)
Spec ==
    /\ Init /\ [][Next]_vars
    /\ WF_vars(PickSource \/ Main)
    /\ \A t \in Threads : WF_vars(Worker(t))

-----------------------------------------------------------------------------
(* Whatever the threads' reads, stores and queueings were interleaved      *)
(* with, a search ends with the depths, widths and lengths of the best     *)
(* paths from its source.                                                  *)
PathsExact ==
    /\ alg = "bfsfromscratch" => BFS!Exact
    /\ alg = "sswpfromscratch" => SSWP!Exact
    /\ alg = "ssspfromscratch" => SSSP!Exact

(* Equal labels exactly in equal components: see HookCompress.             *)
ComponentLabels == alg = "ccfromscratch" => CC!ComponentLabels

(* Bins are settled in order: see DeltaStepping.                           *)
BinsInOrder == alg = "ssspfromscratch" => SSSP!BinsInOrder

(* What is queued fits into the arrays allocated for it: num_nodes entries *)
(* for the sliding queue, num_edges_directed for the frontier.             *)
QueuesFit ==
    /\ alg = "bfsfromscratch" => BFS!QueueFits
    /\ alg = "sswpfromscratch" => SSWP!QueueFits
    /\ alg = "ssspfromscratch" => SSSP!FrontierFits

(* The call returns.                                                       *)
Terminates == <>(phase = "done")
=============================================================================
