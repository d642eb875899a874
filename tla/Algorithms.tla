----------------------------- MODULE Algorithms -----------------------------
(***************************************************************************)
(* The algorithms that the engine of PullEngine runs, and what each of     *)
(* them puts into it.  An algorithm here is what performAlg() of topAlg.h  *)
(* is called for: the name given on the command line, the kind of graph    *)
(* and the source of the search, once there is one.                        *)
(***************************************************************************)
EXTENDS Integers, SourcePicker

CONSTANTS
    NumNodes,
    Options,        \* the pairs <<name, directed>> the program is run with
    Lengths,        \* the weights that ssspdyn adds up
    Widths,         \* the weights that sswpdyn takes the least of
    DistInf

Searches == {"ssspdyn", "sswpdyn"}
Incremental == Searches \cup {"ccdyn", "mcdyn"}

ASSUME NumNodesAssumption == NumNodes \in Nat \ {0}
ASSUME OptionsAssumption ==
    Options \subseteq (Incremental \cup {"mcfromscratch"}) \X BOOLEAN
\* A cycle of negative length would keep the queue from becoming empty.
ASSUME LengthsAssumption == Lengths \subseteq Nat \ {0}
ASSUME WidthsAssumption == Widths \subseteq Nat
\* More than any length of a path, and wider than any road.
ASSUME DistInfAssumption ==
    DistInf \in Nat /\ \A w \in Lengths \union Widths : DistInf > w * (NumNodes - 1)

NodeID == 0 .. NumNodes - 1

Algs ==
    {[name |-> o[1], directed |-> o[2], source |-> s] :
        o \in Options, s \in NodeID \cup {NoSource}}

SSSP == INSTANCE DynSSSP
SSWP == INSTANCE DynSSWP
CC == INSTANCE DynCC
MC == INSTANCE DynMC

(* The choice between the four.  mcfromscratch shares all with mcdyn, but  *)
(* in its first round it goes through every vertex in any case.            *)
For(a, sssp, sswp, cc, mc) ==
    IF a.name = "ssspdyn" THEN sssp
    ELSE IF a.name = "sswpdyn" THEN sswp
    ELSE IF a.name = "ccdyn" THEN cc
    ELSE mc

(* The weights of the edges.  ccdyn and mcdyn do not read them: one is     *)
(* enough.                                                                 *)
Weights(a) == For(a, Lengths, Widths, {1}, {1})

(* The values of property, but for the mark of new vertices.               *)
Value(a) == For(a, SSSP!Value, SSWP!Value, CC!Value, MC!Value)
Uninit == -1

(* The value a new vertex starts from.                                     *)
Start(a, n) ==
    For(a, SSSP!Start(a.source, n), SSWP!Start(a.source, n), CC!Start(n), MC!Start(n))

(* What a pull by n, whose value is x, starts from.                        *)
Base(a, n, x) == For(a, SSSP!Base(n, x), SSWP!Base(n, x), CC!Base(n, x), MC!Base(n, x))

(* The value offered over an edge of weight w by a neighbour of value x.   *)
Extend(a, x, w) ==
    For(a, SSSP!Extend(x, w), SSWP!Extend(x, w), CC!Extend(x, w), MC!Extend(x, w))

(* The first value replaces the second.                                    *)
Better(a, x, y) ==
    For(a, SSSP!Better(x, y), SSWP!Better(x, y), CC!Better(x, y), MC!Better(x, y))

(* XIter0 also triggers for n if its value was x.                          *)
FirstRoundTrigger(a, n, x) ==
    /\ a.name # "mcfromscratch"
    /\ For(a, SSSP!FirstRoundTrigger(n, x), SSWP!FirstRoundTrigger(n, x),
              CC!FirstRoundTrigger(n, x), MC!FirstRoundTrigger(n, x))

(* Pull and push along out- and in-edges alike.                            *)
BothWays(a) ==
    For(a, SSSP!BothWays(a.directed), SSWP!BothWays(a.directed),
           CC!BothWays(a.directed), MC!BothWays(a.directed))

(* The input may give an edge of weight w the weight w2.                   *)
Admits(a, w, w2) ==
    For(a, SSSP!Admits(w, w2), SSWP!Admits(w, w2), CC!Admits(w, w2), MC!Admits(w, w2))
=============================================================================
