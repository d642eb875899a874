-------------------------- MODULE FromScratch_proofs ------------------------
(***************************************************************************)
(* Proofs about FromScratch: what the four algorithms of topAlg.h compute  *)
(* from scratch is right for every graph, every number of threads and      *)
(* every interleaving of their steps.  In this order: what all need, the   *)
(* shortest paths, the depths, the widest paths, the components.           *)
(***************************************************************************)
EXTENDS FromScratch, SequenceTheorems, FiniteSetTheorems, WellFoundedInduction, TLAPS

-----------------------------------------------------------------------------
(* Induction on natural numbers, for a set instead of a predicate.         *)
Less == {p \in Nat \X Nat : p[1] < p[2]}

LEMMA LeastNatural ==
    ASSUME NEW S \in SUBSET Nat, S # {}
    PROVE  \E m \in S : \A n \in S : m <= n
<1>1. IsWellFoundedOn(Less, Nat)
  BY Zenon, NatLessThanWellFounded DEF OpToRel, Less
<1>2. PICK m \in S : \A n \in S : <<n, m>> \notin Less
  BY <1>1, WFMin
<1>3. \A n \in S : n \in Nat /\ m \in Nat /\ ~(n < m)
  BY <1>2 DEF Less
<1> QED
  BY <1>3

LEMMA SetInduction ==
    ASSUME NEW S, 0 \in S, \A n \in Nat : n \in S => n + 1 \in S
    PROVE  Nat \subseteq S
<1> DEFINE T == Nat \ S
<1>1. SUFFICES ASSUME T # {} PROVE FALSE
  OBVIOUS
<1>2. PICK m \in T : \A n \in T : m <= n
  BY <1>1, LeastNatural
<1>3. m # 0 /\ m - 1 \in Nat /\ m = (m - 1) + 1
  OBVIOUS
<1>4. m - 1 \notin T
  BY <1>2, <1>3
<1> QED
  BY <1>3, <1>4

(* A step repeated any number of times.                                    *)
LEMMA StagesExist ==
    ASSUME NEW D, NEW first \in D, NEW step \in [D -> D]
    PROVE  \A m \in Nat : \E f \in [0 .. m -> D] :
              f = [k \in 0 .. m |-> IF k = 0 THEN first ELSE step[f[k - 1]]]
<1> DEFINE P(m) == \E f \in [0 .. m -> D] :
                      f = [k \in 0 .. m |-> IF k = 0 THEN first ELSE step[f[k - 1]]]
           S == {m \in Nat : P(m)}
<1>1. 0 \in S
  <2> DEFINE f == [k \in 0 .. 0 |-> first]
  <2>1. f \in [0 .. 0 -> D] /\ f = [k \in 0 .. 0 |-> IF k = 0 THEN first ELSE step[f[k - 1]]]
    OBVIOUS
  <2> HIDE DEF f
  <2> QED
    BY <2>1
<1>2. ASSUME NEW m \in Nat, m \in S PROVE m + 1 \in S
  <2>1. PICK f \in [0 .. m -> D] :
            f = [k \in 0 .. m |-> IF k = 0 THEN first ELSE step[f[k - 1]]]
    BY <1>2
  <2> DEFINE g == [k \in 0 .. m + 1 |-> IF k <= m THEN f[k] ELSE step[f[m]]]
  <2>2. g \in [0 .. m + 1 -> D]
    OBVIOUS
  <2>3. ASSUME NEW k \in 0 .. m + 1
        PROVE  g[k] = IF k = 0 THEN first ELSE step[g[k - 1]]
    <3>1. CASE k <= m
      <4>1. g[k] = f[k] /\ (k # 0 => g[k - 1] = f[k - 1]) /\ k \in 0 .. m
        BY <3>1
      <4>2. f[k] = IF k = 0 THEN first ELSE step[f[k - 1]]
        BY <2>1, <4>1
      <4> QED
        BY <4>1, <4>2
    <3>2. CASE k = m + 1
      BY <3>2
    <3> QED
      BY <3>1, <3>2
  <2>4. g = [k \in 0 .. m + 1 |-> g[k]]
    OBVIOUS
  <2> HIDE DEF g
  <2>5. g = [k \in 0 .. m + 1 |-> IF k = 0 THEN first ELSE step[g[k - 1]]]
    BY <2>3, <2>4
  <2>6. P(m + 1)
    BY <2>2, <2>5
  <2> HIDE DEF P
  <2> QED
    BY <2>6
<1>3. Nat \subseteq S
  <2> HIDE DEF S
  <2> QED
    BY <1>1, <1>2, SetInduction
<1> HIDE DEF P
<1>4. \A m \in Nat : P(m)
  BY <1>3
<1> QED
  BY <1>4 DEF P

LEMMA NodesFinite == IsFiniteSet(NodeID) /\ Cardinality(NodeID) = NumNodes
BY FS_Interval, NumNodesAssumption DEF NodeID

(* A set of vertices cannot grow more often than there are vertices.       *)
LEMMA StopsGrowing ==
    ASSUME NEW G, \A k \in 0 .. NumNodes : G[k] \in SUBSET NodeID, G[0] # {},
           \A k \in 0 .. NumNodes - 1 : G[k] \subseteq G[k + 1]
    PROVE  \E k \in 0 .. NumNodes - 1 : G[k] = G[k + 1]
<1> SUFFICES ASSUME \A k \in 0 .. NumNodes - 1 : G[k] # G[k + 1] PROVE FALSE
  OBVIOUS
<1>1. \A k \in 0 .. NumNodes : /\ IsFiniteSet(G[k]) /\ Cardinality(G[k]) \in Nat
                               /\ Cardinality(G[k]) <= NumNodes
  BY NodesFinite, FS_Subset, FS_CardinalityType
<1> DEFINE S == {k \in Nat : k <= NumNodes => Cardinality(G[k]) >= k + 1}
<1>2. 0 \in S
  <2>1. Cardinality(G[0]) # 0
    BY <1>1, NumNodesAssumption, FS_EmptySet
  <2> QED
    BY <1>1, <2>1, NumNodesAssumption
<1>3. ASSUME NEW k \in Nat, k \in S PROVE k + 1 \in S
  <2> SUFFICES ASSUME k + 1 <= NumNodes PROVE Cardinality(G[k + 1]) >= k + 2
    OBVIOUS
  <2>1. k \in 0 .. NumNodes - 1 /\ k \in 0 .. NumNodes /\ k + 1 \in 0 .. NumNodes
    BY NumNodesAssumption
  <2>2. /\ Cardinality(G[k]) <= Cardinality(G[k + 1])
        /\ Cardinality(G[k]) # Cardinality(G[k + 1])
    BY <1>1, <2>1, FS_Subset
  <2> QED
    BY <1>1, <1>3, <2>1, <2>2
<1>4. Nat \subseteq S
  <2> HIDE DEF S
  <2> QED
    BY <1>2, <1>3, SetInduction
<1> QED
  BY <1>1, <1>4, NumNodesAssumption

-----------------------------------------------------------------------------
(* SSSPStartFromScratch().  The bin being settled, the lowest bin voted    *)
(* for, and the part of the next frontier that has been copied.            *)
Cur == shared_indexes[iter]
Nxt == shared_indexes[1 - iter]
Copied == frontier_tails[1 - iter]

BinSet == 0 .. DistInf
Input == \E i \in Inputs : directed = i[1] /\ edges = i[2]
Shortest(n) == SSSP!Lengths[NumNodes][n]
Heads == {e[2] : e \in DOMAIN edges}

SJob == [u : NodeID, left : SUBSET (NodeID \X NodeID), e : NodeID \X NodeID,
         old : Nat, new : Nat]

SLabels == {"take", "edge", "own", "cas", "reload", "voted", "copy", "copied"}
Relaxing(t) == pc[t] \in {"edge", "own", "cas", "reload"}
OnEdge(t) == pc[t] \in {"own", "cas", "reload"}
Offered(t) == pc[t] \in {"cas", "reload"}
Voted(t) == pc[t] \in {"voted", "copy", "copied"}

RegionType ==
    /\ source \in NodeID
    /\ property \in [NodeID -> 0 .. DistInf]
    /\ iter \in {0, 1} /\ reset \in BOOLEAN
    /\ shared_indexes \in [{0, 1} -> BinSet \cup {MaxBin}]
    /\ frontier_tails \in [{0, 1} -> Nat]
    /\ frontier \in Seq(NodeID)
    /\ \A i \in {0, 1} : frontier_tails[i] <= Len(frontier)
    /\ todo \subseteq 1 .. frontier_tails[iter]
    /\ local_bins \in [Threads -> [BinSet -> Seq(NodeID)]]
    /\ pc \in [Threads -> SLabels]
    /\ job \in [Threads -> SJob]

(* The two barriers: until all have voted nothing is reset or copied, and  *)
(* nothing is relaxed afterwards.                                          *)
Barriers ==
    /\ \A t \in Threads : Voted(t) => todo = {}
    /\ \A t \in Threads : pc[t] \in {"copy", "copied"} => reset
    /\ reset => /\ \A t \in Threads : Voted(t)
                /\ Cur = MaxBin /\ frontier_tails[iter] = 0
    /\ ~reset => Cur \in BinSet /\ Copied = 0
    /\ Nxt \notin BinSet => Copied = 0

(* A bin holds vertices at its distance or nearer.  None is below the bin  *)
(* being settled, nor below the one voted for by whoever has voted.        *)
BinsAhead == \A t \in Threads : \A b \in BinSet :
    /\ \A i \in DOMAIN local_bins[t][b] :
          local_bins[t][b][i] \in Heads /\ property[local_bins[t][b][i]] <= b
    /\ local_bins[t][b] # <<>> =>
          /\ ~reset => b >= Cur
          /\ Voted(t) => b >= Nxt
          /\ pc[t] = "copied" => b # Nxt

(* No vertex is in a bin, or in it and the next frontier, twice.           *)
EntriesDistinct ==
    /\ \A t, s \in Threads : \A b \in BinSet :
          \A i \in DOMAIN local_bins[t][b], j \in DOMAIN local_bins[s][b] :
              local_bins[t][b][i] = local_bins[s][b][j] => t = s /\ i = j
    /\ \A i, j \in 1 .. Copied : frontier[i] = frontier[j] => i = j
    /\ \A i \in 1 .. Copied : \A t \in Threads : \A j \in DOMAIN local_bins[t][Nxt] :
          frontier[i] # local_bins[t][Nxt][j]
    /\ \A i \in 1 .. Copied : frontier[i] \in Heads

(* What a thread has read and is going to offer.                           *)
Offer(t) ==
    /\ Relaxing(t) => /\ ~reset /\ property[job[t].u] >= Cur
                      /\ job[t].left \subseteq SSSP!OutOf(job[t].u)
    /\ OnEdge(t) => job[t].e \in SSSP!OutOf(job[t].u)
    /\ pc[t] = "own" => job[t].old >= property[job[t].e[2]] /\ job[t].old <= DistInf
    /\ Offered(t) => /\ job[t].new \in Cur .. DistInf - 1
                     /\ job[t].new >= Shortest(job[t].e[2])
    /\ pc[t] = "cas" => job[t].new < job[t].old
Offers == \A t \in Threads : Offer(t)

(* Distances are lengths of paths, ...                                     *)
Sound ==
    /\ property[source] = 0
    /\ \A n \in NodeID : property[n] >= Shortest(n)

(* ... and an edge that would still shorten one will be looked at: its     *)
(* first vertex waits in a bin, in this frontier or the next, or a thread  *)
(* has it.                                                                 *)
Binned(u) ==
    \E t \in Threads : \E i \in DOMAIN local_bins[t][property[u]] :
        local_bins[t][property[u]][i] = u
InFrontier(u) == property[u] >= Cur /\ \E i \in todo : frontier[i] = u
InNextFrontier(u) == property[u] = Nxt /\ \E i \in 1 .. Copied : frontier[i] = u
InHand(t, e) ==
    /\ Relaxing(t) /\ job[t].u = e[1]
    /\ \/ e \in job[t].left
       \/ pc[t] = "own" /\ job[t].e = e
       \/ Offered(t) /\ job[t].e = e /\ job[t].new <= property[e[1]] + edges[e]
Waits(e) ==
    \/ Binned(e[1]) \/ InFrontier(e[1]) \/ InNextFrontier(e[1])
    \/ \E t \in Threads : InHand(t, e)
Relaxed(e) == property[e[2]] <= property[e[1]] + edges[e]
AllSeenTo == \A e \in DOMAIN edges : Relaxed(e) \/ Waits(e)

Settled == Cur \in BinSet =>
    \A n \in NodeID : Shortest(n) < Cur => property[n] = Shortest(n)

(* The end of the parallel region.                                         *)
RegionEnded ==
    /\ pc = [t \in Threads |-> "end"]
    /\ iter \in {0, 1} /\ Cur = MaxBin
    /\ property = SSSP!Lengths[NumNodes]

Region ==
    /\ RegionType /\ Barriers /\ BinsAhead /\ EntriesDistinct /\ Offers
    /\ Sound /\ AllSeenTo /\ Settled

SourceOK ==
    /\ Input
    /\ phase \in {"start", "region", "done"}
    /\ source \in NodeID \cup {NoSource}
    /\ source \in NodeID => \E e \in DOMAIN edges : e[1] = source

SsspInv ==
    /\ SourceOK
    /\ phase = "region" => Region \/ RegionEnded
    /\ phase # "region" => \A t \in Threads : pc[t] \notin SLabels
    /\ phase = "done" /\ source \in NodeID => property = SSSP!Lengths[NumNodes]
    /\ SSSP!FrontierFits

-----------------------------------------------------------------------------
(* Lengths of paths.                                                       *)
LEMMA Graph ==
    ASSUME Input
    PROVE  /\ DOMAIN edges \subseteq NodeID \X NodeID
           /\ \A e \in DOMAIN edges : /\ edges[e] \in Nat
                                      /\ e[1] \in NodeID /\ e[2] \in NodeID /\ e = <<e[1], e[2]>>
                                      /\ DistInf > edges[e] /\ DistInf \in Nat
           /\ ~directed => \A e \in DOMAIN edges : <<e[2], e[1]>> \in DOMAIN edges
<1>1. PICK i \in Inputs : directed = i[1] /\ edges = i[2]
  BY DEF Input
<1>2. /\ DOMAIN edges \subseteq NodeID \X NodeID
      /\ \A e \in DOMAIN edges : edges[e] \in Nat /\ DistInf > edges[e] * NumNodes
      /\ ~directed => \A e \in DOMAIN edges : <<e[2], e[1]>> \in DOMAIN edges
  BY <1>1, InputsAssumption, DistInfAssumption
<1>3. ASSUME NEW e \in DOMAIN edges PROVE DistInf > edges[e] /\ DistInf \in Nat
  <2>1. PICK w \in Nat : w = edges[e] /\ DistInf > w * NumNodes
    BY <1>2
  <2>2. w * NumNodes >= w
    <3>1. PICK k \in Nat : NumNodes = k + 1
      <4>1. NumNodes - 1 \in Nat /\ NumNodes = (NumNodes - 1) + 1
        BY NumNodesAssumption
      <4> QED
        BY <4>1
    <3>2. w * (k + 1) = w * k + w /\ w * k \in Nat
      OBVIOUS
    <3> QED
      BY <3>1, <3>2
  <2>3. w * NumNodes \in Nat
    BY NumNodesAssumption
  <2> QED
    BY <2>1, <2>2, <2>3, DistInfAssumption
<1> QED
  BY <1>2, <1>3

LEMMA LeastIs ==
    ASSUME NEW S \in SUBSET Nat, S # {}
    PROVE  SSSP!Least(S) \in S /\ \A y \in S : SSSP!Least(S) <= y
BY LeastNatural DEF SSSP!Least

Starting == [n \in NodeID |-> IF n = source THEN 0 ELSE DistInf]
Arriving(g, n) == {g[n]} \cup {g[e[1]] + edges[e] : e \in {x \in DOMAIN edges : x[2] = n}}
Lengthening(g) == [n \in NodeID |-> SSSP!Least(Arriving(g, n))]

LEMMA ArrivingTyped ==
    ASSUME Input, NEW g \in [NodeID -> Nat], NEW n \in NodeID
    PROVE  /\ Arriving(g, n) \in SUBSET Nat /\ Arriving(g, n) # {}
           /\ SSSP!Least(Arriving(g, n)) \in Arriving(g, n)
           /\ \A y \in Arriving(g, n) : SSSP!Least(Arriving(g, n)) <= y
<1>1. Arriving(g, n) \in SUBSET Nat /\ Arriving(g, n) # {}
  BY Graph DEF Arriving
<1> QED
  BY <1>1, LeastIs

LEMMA LengthsGrow ==
    ASSUME Input, source \in NodeID
    PROVE  /\ \A k \in 0 .. NumNodes : SSSP!Lengths[k] \in [NodeID -> Nat]
           /\ SSSP!Lengths[0] = Starting
           /\ \A k \in 0 .. NumNodes - 1 : SSSP!Lengths[k + 1] = Lengthening(SSSP!Lengths[k])
<1> DEFINE D == [NodeID -> Nat]
           step == [g \in D |-> Lengthening(g)]
<1>1. Starting \in D
  BY DistInfAssumption DEF Starting
<1>2. step \in [D -> D]
  <2> SUFFICES ASSUME NEW g \in D PROVE Lengthening(g) \in D
    OBVIOUS
  <2>1. \A n \in NodeID : SSSP!Least(Arriving(g, n)) \in Nat
    BY ArrivingTyped
  <2> QED
    BY <2>1 DEF Lengthening
<1> HIDE DEF step
<1>3. NumNodes \in Nat
  BY NumNodesAssumption
<1>4. PICK f \in [0 .. NumNodes -> D] :
          f = [k \in 0 .. NumNodes |-> IF k = 0 THEN Starting ELSE step[f[k - 1]]]
  <2> HIDE DEF D
  <2> QED
    BY SMTT(30), <1>1, <1>2, <1>3, StagesExist
<1>5. \A k \in 0 .. NumNodes : k # 0 => k - 1 \in 0 .. NumNodes
  BY <1>3
<1>6. \A k \in 0 .. NumNodes : k # 0 => step[f[k - 1]] = Lengthening(f[k - 1])
  BY <1>4, <1>5 DEF step
<1>7. f = [k \in 0 .. NumNodes |-> IF k = 0 THEN Starting ELSE Lengthening(f[k - 1])]
  <2>1. \A k \in 0 .. NumNodes :
            f[k] = IF k = 0 THEN Starting ELSE Lengthening(f[k - 1])
    <3> HIDE DEF D
    <3> QED
      BY <1>4, <1>6
  <2>2. f = [k \in 0 .. NumNodes |-> f[k]]
    BY <1>4
  <2> QED
    BY <2>1, <2>2
<1> DEFINE Body(g, k) == [n \in NodeID |->
              IF k = 0 THEN IF n = source THEN 0 ELSE DistInf
              ELSE LET sofar == g[k - 1] IN
                   SSSP!Least({sofar[n]} \cup
                         {sofar[e[1]] + edges[e] : e \in {x \in DOMAIN edges : x[2] = n}})]
<1>8. ASSUME NEW g, NEW k \in 0 .. NumNodes
      PROVE  Body(g, k) = IF k = 0 THEN Starting ELSE Lengthening(g[k - 1])
  BY Zenon DEF Starting, Lengthening, Arriving
<1> HIDE DEF Body
<1>9. SSSP!Lengths = [k \in 0 .. NumNodes |-> Body(SSSP!Lengths, k)]
  <2>1. SSSP!Lengths = CHOOSE g : g = [k \in 0 .. NumNodes |-> Body(g, k)]
    BY Zenon DEF SSSP!Lengths, SSSP!NodeID, NodeID, Body
  <2>2. f = [k \in 0 .. NumNodes |-> Body(f, k)]
    BY <1>7, <1>8
  <2> QED
    BY <2>1, <2>2
<1>10. \A k \in 0 .. NumNodes : SSSP!Lengths[k] =
          IF k = 0 THEN Starting ELSE Lengthening(SSSP!Lengths[k - 1])
  BY <1>8, <1>9
<1>11. /\ 0 \in 0 .. NumNodes
       /\ \A k \in 0 .. NumNodes - 1 : k + 1 \in 0 .. NumNodes /\ k + 1 # 0 /\ (k + 1) - 1 = k
  BY <1>3
<1>12. /\ SSSP!Lengths[0] = Starting
       /\ \A k \in 0 .. NumNodes - 1 : SSSP!Lengths[k + 1] = Lengthening(SSSP!Lengths[k])
  BY <1>10, <1>11
<1> DEFINE S == {k \in Nat : k <= NumNodes => SSSP!Lengths[k] \in D}
<1>13. 0 \in S
  BY <1>1, <1>12
<1>14. ASSUME NEW k \in Nat, k \in S PROVE k + 1 \in S
  <2> SUFFICES ASSUME k + 1 <= NumNodes PROVE SSSP!Lengths[k + 1] \in D
    OBVIOUS
  <2>1. k \in 0 .. NumNodes - 1 /\ k <= NumNodes
    BY <1>3
  <2>2. SSSP!Lengths[k] \in D /\ SSSP!Lengths[k + 1] = step[SSSP!Lengths[k]]
    BY <1>12, <1>14, <2>1 DEF step
  <2> QED
    BY <1>2, <2>2
<1>15. Nat \subseteq S
  <2> HIDE DEF S
  <2> QED
    BY <1>13, <1>14, SetInduction
<1> QED
  BY <1>12, <1>15, <1>3

LEMMA LengthRules ==
    ASSUME Input, source \in NodeID
    PROVE  /\ \A k \in 0 .. NumNodes : \A n \in NodeID : SSSP!Lengths[k][n] \in Nat
           /\ \A n \in NodeID : SSSP!Lengths[0][n] = IF n = source THEN 0 ELSE DistInf
           /\ \A k \in 0 .. NumNodes - 1 : \A n \in NodeID :
                  SSSP!Lengths[k + 1][n] <= SSSP!Lengths[k][n]
           /\ \A k \in 0 .. NumNodes - 1 : \A e \in DOMAIN edges :
                  SSSP!Lengths[k + 1][e[2]] <= SSSP!Lengths[k][e[1]] + edges[e]
           /\ \A k \in 0 .. NumNodes - 1 : \A n \in NodeID :
                  \/ SSSP!Lengths[k + 1][n] = SSSP!Lengths[k][n]
                  \/ \E e \in DOMAIN edges :
                        e[2] = n /\ SSSP!Lengths[k + 1][n] = SSSP!Lengths[k][e[1]] + edges[e]
<1>1. /\ \A k \in 0 .. NumNodes : \A n \in NodeID : SSSP!Lengths[k][n] \in Nat
      /\ \A n \in NodeID : SSSP!Lengths[0][n] = IF n = source THEN 0 ELSE DistInf
  BY LengthsGrow DEF Starting
<1>2. ASSUME NEW k \in 0 .. NumNodes - 1, NEW n \in NodeID
      PROVE  /\ SSSP!Lengths[k + 1][n] \in Arriving(SSSP!Lengths[k], n)
             /\ \A y \in Arriving(SSSP!Lengths[k], n) : SSSP!Lengths[k + 1][n] <= y
  <2>1. PICK g \in [NodeID -> Nat] : g = SSSP!Lengths[k]
    BY LengthsGrow, NumNodesAssumption
  <2>2. SSSP!Lengths[k + 1][n] = SSSP!Least(Arriving(g, n))
    BY LengthsGrow, <2>1 DEF Lengthening
  <2> QED
    BY <2>1, <2>2, ArrivingTyped
<1>3. ASSUME NEW k \in 0 .. NumNodes - 1, NEW e \in DOMAIN edges
      PROVE  SSSP!Lengths[k + 1][e[2]] <= SSSP!Lengths[k][e[1]] + edges[e]
  BY <1>2, Graph DEF Arriving
<1>4. ASSUME NEW k \in 0 .. NumNodes - 1, NEW n \in NodeID
      PROVE  /\ SSSP!Lengths[k + 1][n] <= SSSP!Lengths[k][n]
             /\ \/ SSSP!Lengths[k + 1][n] = SSSP!Lengths[k][n]
                \/ \E e \in DOMAIN edges :
                      e[2] = n /\ SSSP!Lengths[k + 1][n] = SSSP!Lengths[k][e[1]] + edges[e]
  BY <1>2 DEF Arriving
<1> QED
  BY <1>1, <1>3, <1>4

(* x is the length of a path to n.                                         *)
Follows(P) ==
    /\ <<source, 0>> \in P
    /\ \A e \in DOMAIN edges : \A x \in Nat :
          <<e[1], x>> \in P => <<e[2], x + edges[e]>> \in P
Attained(n, x) == \A P \in SUBSET (NodeID \X Nat) : Follows(P) => <<n, x>> \in P

LEMMA AttainedRules ==
    ASSUME Input, source \in NodeID
    PROVE  /\ Attained(source, 0)
           /\ \A e \in DOMAIN edges : \A x \in Nat :
                  Attained(e[1], x) => Attained(e[2], x + edges[e])
BY DEF Attained, Follows

(* As many rounds as there are vertices find the least lengths.            *)
LEMMA ShortestAttained ==
    ASSUME Input, source \in NodeID
    PROVE  /\ \A n \in NodeID : Shortest(n) \in 0 .. DistInf
           /\ Shortest(source) = 0
           /\ \A e \in DOMAIN edges : Shortest(e[2]) <= Shortest(e[1]) + edges[e]
           /\ \A n \in NodeID : Shortest(n) = DistInf \/ Attained(n, Shortest(n))
<1> DEFINE L(k, n) == SSSP!Lengths[k][n]
           Known(n) == {x \in Nat : x = DistInf \/ Attained(n, x)}
           F == [n \in NodeID |-> SSSP!Least(Known(n))]
<1>0. NumNodes \in Nat /\ NumNodes > 0 /\ DistInf \in Nat
  BY NumNodesAssumption, DistInfAssumption
<1>1. \A n \in NodeID : /\ F[n] \in Nat /\ F[n] <= DistInf
                        /\ F[n] = DistInf \/ Attained(n, F[n])
                        /\ \A x \in Nat : Attained(n, x) => F[n] <= x
  <2> SUFFICES ASSUME NEW n \in NodeID
               PROVE  /\ F[n] \in Nat /\ F[n] <= DistInf
                      /\ F[n] = DistInf \/ Attained(n, F[n])
                      /\ \A x \in Nat : Attained(n, x) => F[n] <= x
    OBVIOUS
  <2>1. Known(n) \in SUBSET Nat /\ DistInf \in Known(n)
    BY <1>0
  <2>2. F[n] \in Known(n) /\ \A y \in Known(n) : F[n] <= y
    <3> HIDE DEF Known
    <3> QED
      BY <2>1, LeastIs
  <2> HIDE DEF F
  <2> QED
    BY <2>1, <2>2
<1> HIDE DEF F
<1>2. F[source] = 0 /\ \A e \in DOMAIN edges : F[e[2]] <= F[e[1]] + edges[e]
  <2>1. F[source] = 0
    BY <1>1, AttainedRules
  <2>2. ASSUME NEW e \in DOMAIN edges PROVE F[e[2]] <= F[e[1]] + edges[e]
    <3>1. e[1] \in NodeID /\ e[2] \in NodeID /\ edges[e] \in Nat
      BY Graph
    <3>2. CASE F[e[1]] = DistInf
      BY <1>0, <1>1, <3>1, <3>2
    <3>3. CASE Attained(e[1], F[e[1]])
      <4>1. Attained(e[2], F[e[1]] + edges[e]) /\ F[e[1]] + edges[e] \in Nat
        BY <1>1, <3>1, <3>3, AttainedRules
      <4> QED
        BY <1>1, <3>1, <4>1
    <3> QED
      BY <1>1, <3>1, <3>2, <3>3
  <2> QED
    BY <2>1, <2>2
<1>3. \A k \in 0 .. NumNodes : \A n \in NodeID : L(k, n) \in Nat /\ L(k, n) >= F[n]
  <2> DEFINE S == {k \in Nat : k <= NumNodes => \A n \in NodeID : L(k, n) >= F[n]}
  <2>1. 0 \in S
    BY <1>0, <1>1, <1>2, LengthRules
  <2>2. ASSUME NEW k \in Nat, k \in S PROVE k + 1 \in S
    <3> SUFFICES ASSUME k + 1 <= NumNodes, NEW n \in NodeID PROVE L(k + 1, n) >= F[n]
      OBVIOUS
    <3>1. k \in 0 .. NumNodes - 1 /\ k \in 0 .. NumNodes /\ k <= NumNodes
      BY <1>0
    <3>2. CASE L(k + 1, n) = L(k, n)
      BY <2>2, <3>1, <3>2
    <3>3. CASE \E e \in DOMAIN edges : e[2] = n /\ L(k + 1, n) = L(k, e[1]) + edges[e]
      <4>1. PICK e \in DOMAIN edges : e[2] = n /\ L(k + 1, n) = L(k, e[1]) + edges[e]
        BY <3>3
      <4>2. e[1] \in NodeID /\ edges[e] \in Nat /\ L(k, e[1]) \in Nat /\ L(k, e[1]) >= F[e[1]]
        BY <2>2, <3>1, Graph, LengthRules
      <4>3. F[n] <= F[e[1]] + edges[e] /\ F[n] \in Nat /\ F[e[1]] \in Nat
        BY <1>1, <1>2, <4>1, <4>2
      <4> QED
        BY <4>1, <4>2, <4>3
    <3> QED
      BY <3>1, <3>2, <3>3, LengthRules
  <2>3. Nat \subseteq S
    <3> HIDE DEF S
    <3> QED
      BY <2>1, <2>2, SetInduction
  <2> QED
    BY <1>0, <2>3, LengthRules
<1> DEFINE G == [k \in 0 .. NumNodes |-> {n \in NodeID : L(k, n) = F[n]}]
<1>4. PICK k \in 0 .. NumNodes - 1 : G[k] = G[k + 1]
  <2>1. \A j \in 0 .. NumNodes : G[j] \in SUBSET NodeID
    OBVIOUS
  <2>2. source \in G[0]
    BY <1>0, <1>2, LengthRules
  <2>3. ASSUME NEW j \in 0 .. NumNodes - 1, NEW n \in G[j] PROVE n \in G[j + 1]
    <3>1. j \in 0 .. NumNodes /\ j + 1 \in 0 .. NumNodes /\ n \in NodeID /\ L(j, n) = F[n]
      BY <1>0, <2>3
    <3>2. L(j + 1, n) <= L(j, n) /\ L(j + 1, n) >= F[n] /\ L(j + 1, n) \in Nat /\ F[n] \in Nat
      BY <1>1, <1>3, <3>1, LengthRules
    <3> QED
      BY <3>1, <3>2
  <2> HIDE DEF G
  <2> QED
    BY <2>1, <2>2, <2>3, StopsGrowing
<1>5. k \in 0 .. NumNodes /\ k + 1 \in 0 .. NumNodes
  BY <1>0
<1>6. \A n \in NodeID : L(k, n) = F[n]
  <2> DEFINE P == {p \in NodeID \X Nat : p[2] > F[p[1]] \/ (p[2] = F[p[1]] /\ p[1] \in G[k])}
  <2>1. <<source, 0>> \in P
    <3>1. L(k, source) = 0
      <4>1. L(k, source) >= 0 /\ L(k, source) \in Nat
        BY <1>3, <1>5
      <4> DEFINE S == {j \in Nat : j <= NumNodes => L(j, source) = 0}
      <4>2. 0 \in S
        BY LengthRules
      <4>3. ASSUME NEW j \in Nat, j \in S PROVE j + 1 \in S
        <5> SUFFICES ASSUME j + 1 <= NumNodes PROVE L(j + 1, source) = 0
          OBVIOUS
        <5>1. /\ j \in 0 .. NumNodes - 1 /\ j + 1 \in 0 .. NumNodes /\ L(j, source) = 0
          BY <1>0, <4>3
        <5>2. L(j + 1, source) <= L(j, source) /\ L(j + 1, source) \in Nat
          BY <5>1, LengthRules
        <5> QED
          BY <5>1, <5>2
      <4>4. Nat \subseteq S
        <5> HIDE DEF S
        <5> QED
          BY <4>2, <4>3, SetInduction
      <4> QED
        BY <1>5, <4>4
    <3> QED
      BY <1>2, <1>5, <3>1
  <2>2. ASSUME NEW e \in DOMAIN edges, NEW x \in Nat, <<e[1], x>> \in P
        PROVE  <<e[2], x + edges[e]>> \in P
    <3>1. e[1] \in NodeID /\ e[2] \in NodeID /\ edges[e] \in Nat
      BY Graph
    <3>2. F[e[2]] <= F[e[1]] + edges[e] /\ F[e[1]] \in Nat /\ F[e[2]] \in Nat
      BY <1>1, <1>2, <3>1
    <3>3. CASE x > F[e[1]]
      BY <3>1, <3>2, <3>3
    <3>4. CASE x = F[e[1]] /\ e[1] \in G[k]
      <4>1. CASE x + edges[e] > F[e[2]]
        BY <3>1, <4>1
      <4>2. CASE x + edges[e] = F[e[2]]
        <5>1. L(k + 1, e[2]) <= L(k, e[1]) + edges[e] /\ L(k, e[1]) = F[e[1]]
          BY <1>5, <3>4, LengthRules
        <5>2. L(k + 1, e[2]) >= F[e[2]] /\ L(k + 1, e[2]) \in Nat
          BY <1>3, <1>5, <3>1
        <5>3. L(k + 1, e[2]) = F[e[2]]
          BY <3>2, <3>4, <4>2, <5>1, <5>2
        <5>4. e[2] \in G[k]
          BY <1>4, <1>5, <3>1, <5>3
        <5> HIDE DEF G
        <5> QED
          BY <3>1, <4>2, <5>4
      <4> QED
        BY <3>1, <3>2, <3>4, <4>1, <4>2
    <3> HIDE DEF G
    <3> QED
      BY <2>2, <3>1, <3>3, <3>4
  <2>3. Follows(P) /\ P \in SUBSET (NodeID \X Nat)
    <3>1. P \in SUBSET (NodeID \X Nat)
      OBVIOUS
    <3> HIDE DEF P
    <3> QED
      BY <2>1, <2>2, <3>1 DEF Follows
  <2> SUFFICES ASSUME NEW n \in NodeID PROVE L(k, n) = F[n]
    OBVIOUS
  <2>4. CASE Attained(n, F[n])
    <3>1. <<n, F[n]>> \in P
      <4> HIDE DEF P
      <4> QED
        BY <2>3, <2>4 DEF Attained
    <3>2. n \in G[k]
      <4> HIDE DEF G
      <4> QED
        BY <1>1, <3>1
    <3> QED
      BY <1>5, <3>2
  <2>5. CASE F[n] = DistInf
    <3> DEFINE S == {j \in Nat : j <= NumNodes => L(j, n) <= DistInf}
    <3>1. 0 \in S
      BY <1>0, LengthRules
    <3>2. ASSUME NEW j \in Nat, j \in S PROVE j + 1 \in S
      <4> SUFFICES ASSUME j + 1 <= NumNodes PROVE L(j + 1, n) <= DistInf
        OBVIOUS
      <4>1. j \in 0 .. NumNodes - 1 /\ j \in 0 .. NumNodes /\ j + 1 \in 0 .. NumNodes
        BY <1>0
      <4>2. /\ L(j, n) <= DistInf /\ L(j + 1, n) <= L(j, n)
            /\ L(j, n) \in Nat /\ L(j + 1, n) \in Nat
        BY <3>2, <4>1, LengthRules
      <4> QED
        BY <1>0, <4>2
    <3>3. Nat \subseteq S
      <4> HIDE DEF S
      <4> QED
        BY <3>1, <3>2, SetInduction
    <3>4. L(k, n) <= DistInf /\ L(k, n) >= F[n] /\ L(k, n) \in Nat
      BY <1>3, <1>5, <3>3
    <3> QED
      BY <1>0, <2>5, <3>4
  <2> QED
    BY <1>1, <2>4, <2>5
<1>7. \A n \in NodeID : L(NumNodes, n) = F[n]
  <2> DEFINE S == {j \in Nat : k + j <= NumNodes => \A n \in NodeID : L(k + j, n) = F[n]}
  <2>1. 0 \in S
    BY <1>5, <1>6
  <2>2. ASSUME NEW j \in Nat, j \in S PROVE j + 1 \in S
    <3> SUFFICES ASSUME k + (j + 1) <= NumNodes, NEW n \in NodeID PROVE L(k + (j + 1), n) = F[n]
      OBVIOUS
    <3>1. PICK m \in 0 .. NumNodes - 1 : m = k + j
      BY <1>0, <1>5
    <3>2. L(m, n) = F[n] /\ k + (j + 1) = m + 1 /\ m + 1 \in 0 .. NumNodes
      BY <1>0, <1>5, <2>2, <3>1
    <3>3. L(m + 1, n) <= L(m, n) /\ L(m + 1, n) >= F[n] /\ L(m + 1, n) \in Nat /\ F[n] \in Nat
      BY <1>1, <1>3, <3>2, LengthRules
    <3> QED
      BY <3>2, <3>3
  <2>3. Nat \subseteq S
    <3> HIDE DEF S
    <3> QED
      BY <2>1, <2>2, SetInduction
  <2>4. NumNodes - k \in Nat /\ k + (NumNodes - k) = NumNodes
    BY <1>0, <1>5
  <2> QED
    BY <1>0, <2>3, <2>4
<1> HIDE DEF Known
<1>8. \A n \in NodeID : Shortest(n) = F[n]
  BY <1>7 DEF Shortest
<1>9. \A e \in DOMAIN edges : Shortest(e[1]) = F[e[1]] /\ Shortest(e[2]) = F[e[2]]
  BY <1>8, Graph
<1> QED
  BY <1>0, <1>1, <1>2, <1>8, <1>9

LEMMA SameLengths ==
    ASSUME edges' = edges, source' = source
    PROVE  SSSP!Lengths' = SSSP!Lengths /\ \A n : Shortest(n)' = Shortest(n)
<1>1. SSSP!Lengths' = SSSP!Lengths
  BY DEF SSSP!Lengths
<1> QED
  BY <1>1 DEF Shortest

(* Where all edges out of the vertices nearer than c have been relaxed,    *)
(* the distances below c are final.                                        *)
LEMMA ShortestBelow ==
    ASSUME Input, source \in NodeID, NEW c \in 0 .. DistInf,
           property \in [NodeID -> 0 .. DistInf], property[source] = 0,
           \A e \in DOMAIN edges : property[e[1]] < c => Relaxed(e)
    PROVE  \A n \in NodeID : Shortest(n) < c => property[n] <= Shortest(n)
<1> DEFINE P == {p \in NodeID \X Nat : p[2] >= property[p[1]] \/ p[2] >= c}
<1>0. DistInf \in Nat /\ c \in Nat
  BY DistInfAssumption
<1>1. P \in SUBSET (NodeID \X Nat) /\ <<source, 0>> \in P
  OBVIOUS
<1>2. ASSUME NEW e \in DOMAIN edges, NEW x \in Nat, <<e[1], x>> \in P
      PROVE  <<e[2], x + edges[e]>> \in P
  <2>1. e[1] \in NodeID /\ e[2] \in NodeID /\ edges[e] \in Nat
    BY Graph
  <2>2. property[e[1]] \in Nat /\ property[e[2]] \in Nat
    BY <1>0, <2>1
  <2>3. CASE x >= c
    BY <1>0, <2>1, <2>3
  <2>4. CASE x < c
    <3>1. x >= property[e[1]]
      BY <1>0, <1>2, <2>4
    <3>2. property[e[2]] <= property[e[1]] + edges[e]
      BY <1>0, <2>2, <2>4, <3>1 DEF Relaxed
    <3> QED
      BY <2>1, <2>2, <3>1, <3>2
  <2> QED
    BY <1>0, <2>3, <2>4
<1>3. Follows(P)
  <2> HIDE DEF P
  <2> QED
    BY <1>1, <1>2 DEF Follows
<1>4. ASSUME NEW n \in NodeID, Shortest(n) < c PROVE property[n] <= Shortest(n)
  <2>1. Shortest(n) \in Nat /\ Attained(n, Shortest(n))
    BY <1>0, <1>4, ShortestAttained
  <2>2. <<n, Shortest(n)>> \in P
    <3> HIDE DEF P
    <3> QED
      BY <1>1, <1>3, <2>1 DEF Attained
  <2> QED
    BY <1>0, <1>4, <2>1, <2>2
<1> QED
  BY <1>4

-----------------------------------------------------------------------------
(* The steps of a thread.                                                  *)
LEMMA SNoJob == SSSP!NoJob \in SJob
BY NumNodesAssumption DEF SSSP!NoJob, SJob, NodeID

LEMMA SMoved ==
    ASSUME RegionType, NEW t \in Threads, NEW label \in SLabels, NEW locals \in SJob,
           SSSP!Goto(t, label, locals)
    PROVE  /\ pc'[t] = label /\ job'[t] = locals
           /\ \A s \in Threads : s # t => pc'[s] = pc[s] /\ job'[s] = job[s]
           /\ pc' \in [Threads -> SLabels] /\ job' \in [Threads -> SJob]
BY DEF RegionType, SSSP!Goto

LEMMA OutOfs ==
    ASSUME Input
    PROVE  \A u : \A e : e \in SSSP!OutOf(u) <=> e \in DOMAIN edges /\ e[1] = u
BY DEF SSSP!OutOf

(* A step with which a thread goes on relaxing and stores nothing.         *)
LEMMA QuietStep ==
    ASSUME SourceOK, Region, NEW t \in Threads, NEW label \in SLabels, NEW locals \in SJob,
           SSSP!Goto(t, label, locals), ~Voted(t),
           label \in {"take", "edge", "own", "cas", "reload"},
           UNCHANGED <<SSSP!Settings, SSSP!Bookkeeping, property, local_bins>>,
           todo' \subseteq todo,
           Offer(t)',
           \A e \in DOMAIN edges : ~Relaxed(e) /\ (InHand(t, e) \/ InFrontier(e[1])) =>
               InHand(t, e)' \/ InFrontier(e[1])'
    PROVE  Region'
<1> USE DEF Region
<1>1. /\ pc'[t] = label /\ job'[t] = locals
      /\ \A s \in Threads : s # t => pc'[s] = pc[s] /\ job'[s] = job[s]
      /\ pc' \in [Threads -> SLabels] /\ job' \in [Threads -> SJob]
  BY SMoved
<1>2. /\ UNCHANGED <<directed, edges, source, phase, iter, shared_indexes, frontier_tails>>
      /\ UNCHANGED <<frontier, reset, property, local_bins>>
  BY DEF SSSP!Settings, SSSP!Bookkeeping, SSSP!input
<1>3. /\ \A s \in Threads : Voted(s)' <=> Voted(s)
      /\ \A s \in Threads : pc'[s] \in {"copy", "copied"} <=> pc[s] \in {"copy", "copied"}
  BY <1>1 DEF Voted
<1>4. RegionType'
  BY <1>1, <1>2 DEF RegionType
<1>5. Barriers'
  BY <1>2, <1>3 DEF Barriers, Cur, Nxt, Copied
<1>6. BinsAhead'
  <2>1. \A s \in Threads : pc'[s] = "copied" <=> pc[s] = "copied"
    BY <1>1 DEF Voted
  <2> QED
    BY <1>2, <1>3, <2>1 DEF BinsAhead, Cur, Nxt, Heads
<1>7. EntriesDistinct'
  BY <1>2 DEF EntriesDistinct, Nxt, Copied, Heads
<1>8. Offers'
  <2>1. ASSUME NEW s \in Threads, s # t PROVE Offer(s)'
    <3>1. pc'[s] = pc[s] /\ job'[s] = job[s] /\ Offer(s)
      BY <1>1, <2>1 DEF Offers
    <3> QED
      BY <1>2, <3>1, SameLengths DEF Offer, Relaxing, OnEdge, Offered, Cur, SSSP!OutOf
  <2> QED
    BY <2>1 DEF Offers
<1>9. Sound' /\ Settled'
  BY <1>2, SameLengths DEF Sound, Settled, Cur
<1>10. AllSeenTo'
  <2> SUFFICES ASSUME NEW e \in DOMAIN edges, ~Relaxed(e) PROVE Waits(e)'
    BY <1>2 DEF AllSeenTo, Relaxed
  <2>1. CASE InHand(t, e) \/ InFrontier(e[1])
    BY <2>1 DEF Waits
  <2>2. CASE Binned(e[1])
    BY <1>2, <2>2 DEF Waits, Binned
  <2>3. CASE InNextFrontier(e[1])
    BY <1>2, <2>3 DEF Waits, InNextFrontier, Nxt, Copied
  <2>4. ASSUME NEW s \in Threads, s # t, InHand(s, e) PROVE Waits(e)'
    <3>1. InHand(s, e)'
      BY <1>1, <1>2, <2>4 DEF InHand, Relaxing, Offered
    <3> QED
      BY <3>1 DEF Waits
  <2> QED
    BY <2>1, <2>2, <2>3, <2>4 DEF AllSeenTo, Waits
<1> QED
  BY <1>4, <1>5, <1>6, <1>7, <1>8, <1>9, <1>10

LEMMA SJobs ==
    ASSUME SourceOK, Region, NEW t \in Threads
    PROVE  /\ job[t] \in SJob /\ job[t].u \in NodeID /\ job[t].left \subseteq NodeID \X NodeID
           /\ job[t].e \in NodeID \X NodeID /\ job[t].old \in Nat /\ job[t].new \in Nat
           /\ job[t].e[1] \in NodeID /\ job[t].e[2] \in NodeID
           /\ Offer(t) /\ Input /\ source \in NodeID
           /\ property \in [NodeID -> 0 .. DistInf] /\ DistInf \in Nat
           /\ OnEdge(t) => job[t].e \in DOMAIN edges /\ job[t].e[1] = job[t].u
           /\ ~reset => Cur \in 0 .. DistInf
<1>1. job[t] \in SJob
  BY DEF Region, RegionType
<1>2. Offer(t) /\ Input
  BY DEF Region, Offers, SourceOK
<1>3. OnEdge(t) => job[t].e \in DOMAIN edges /\ job[t].e[1] = job[t].u
  BY <1>2 DEF Offer, SSSP!OutOf
<1> QED
  BY <1>1, <1>2, <1>3, DistInfAssumption DEF Region, RegionType, SJob, Barriers, BinSet

LEMMA STakeStep ==
    ASSUME SourceOK, Region, NEW t \in Threads, SSSP!Take(t)
    PROVE  Region'
<1> USE DEF SSSP!Take
<1>0. pc[t] = "take" /\ ~Voted(t) /\ ~reset /\ ~Relaxing(t)
  BY DEF Voted, Region, Barriers, Relaxing
<1>1. PICK i \in todo :
        /\ todo' = todo \ {i}
        /\ IF property[frontier[i]] >= shared_indexes[SSSP!this]
           THEN SSSP!Goto(t, "edge", [SSSP!NoJob EXCEPT !.u = frontier[i],
                                                        !.left = SSSP!OutOf(frontier[i])])
           ELSE UNCHANGED <<pc, job>>
  OBVIOUS
<1>2. /\ UNCHANGED <<SSSP!Settings, SSSP!Bookkeeping, property, local_bins>>
      /\ UNCHANGED <<edges, source, iter, shared_indexes, frontier, frontier_tails, reset>>
  BY DEF SSSP!Settings, SSSP!Bookkeeping, SSSP!input
<1>3. i \in DOMAIN frontier /\ frontier[i] \in NodeID
  <2>1. i \in 1 .. frontier_tails[iter] /\ frontier_tails[iter] <= Len(frontier)
        /\ frontier_tails[iter] \in Nat /\ frontier \in Seq(NodeID)
    BY DEF Region, RegionType
  <2> QED
    BY <2>1
<1> DEFINE u == frontier[i]
<1>4. CASE property[u] >= Cur
  <2>1. PICK r : r = [SSSP!NoJob EXCEPT !.u = u, !.left = SSSP!OutOf(u)]
    OBVIOUS
  <2>2. r \in SJob /\ r.u = u /\ r.left = SSSP!OutOf(u)
    <3>1. SSSP!OutOf(u) \subseteq NodeID \X NodeID
      BY Graph DEF SSSP!OutOf, SourceOK
    <3> QED
      BY <1>3, <2>1, <3>1, SNoJob DEF SJob, SSSP!NoJob
  <2>3. SSSP!Goto(t, "edge", r)
    BY <1>1, <1>4, <2>1 DEF Cur, SSSP!this
  <2>4. pc'[t] = "edge" /\ job'[t] = r
    BY <2>2, <2>3, SMoved DEF SLabels, Region
  <2>5. Offer(t)'
    BY <1>0, <1>2, <1>4, <2>2, <2>4
    DEF Offer, Relaxing, OnEdge, Offered, Cur, SSSP!OutOf
  <2>6. ASSUME NEW e \in DOMAIN edges, InFrontier(e[1])
        PROVE  InHand(t, e)' \/ InFrontier(e[1])'
    <3>1. PICK k \in todo : frontier[k] = e[1]
      BY <2>6 DEF InFrontier
    <3>2. CASE k = i
      <4>1. e \in r.left /\ r.u = e[1]
        BY <2>2, <3>1, <3>2 DEF SSSP!OutOf
      <4> QED
        BY <2>4, <4>1 DEF InHand, Relaxing
    <3>3. CASE k # i
      BY <1>1, <1>2, <2>6, <3>1, <3>3 DEF InFrontier, Cur
    <3> QED
      BY <3>2, <3>3
  <2> HIDE DEF u
  <2> QED
    BY <1>0, <1>1, <1>2, <2>2, <2>3, <2>5, <2>6, QuietStep DEF SLabels, InHand
<1>5. CASE ~(property[u] >= Cur)
  <2>1. UNCHANGED <<pc, job>>
    BY <1>1, <1>5 DEF Cur, SSSP!this
  <2>2. SSSP!Goto(t, "take", job[t]) /\ job[t] \in SJob
    BY <1>0, <2>1 DEF SSSP!Goto, Region, RegionType
  <2>3. Offer(t)'
    BY <1>0, <2>1 DEF Offer, Relaxing, OnEdge, Offered
  <2>4. ASSUME NEW e \in DOMAIN edges, InFrontier(e[1])
        PROVE  InFrontier(e[1])'
    BY <1>1, <1>2, <1>5, <2>4 DEF InFrontier, Cur
  <2> QED
    BY <1>0, <1>1, <1>2, <2>2, <2>3, <2>4, QuietStep DEF SLabels, InHand
<1> QED
  BY <1>4, <1>5

LEMMA SReadTargetStep ==
    ASSUME SourceOK, Region, NEW t \in Threads, SSSP!ReadTarget(t)
    PROVE  Region'
<1> USE DEF SSSP!ReadTarget
<1>0. pc[t] = "edge" /\ ~Voted(t) /\ Relaxing(t) /\ ~OnEdge(t) /\ ~Offered(t)
  BY DEF Voted, Relaxing, OnEdge, Offered
<1>1. PICK e \in job[t].left :
        SSSP!Goto(t, "own", [job[t] EXCEPT !.left = @ \ {e}, !.e = e, !.old = property[e[2]]])
  OBVIOUS
<1>2. /\ UNCHANGED <<SSSP!Settings, SSSP!Bookkeeping, property, todo, local_bins>>
      /\ UNCHANGED <<edges, source, iter, shared_indexes, frontier, frontier_tails, reset>>
  BY DEF SSSP!Settings, SSSP!Bookkeeping, SSSP!input
<1>3. /\ job[t].left \subseteq SSSP!OutOf(job[t].u) /\ ~reset
      /\ property[job[t].u] >= Cur
  BY <1>0, SJobs DEF Offer
<1>4. /\ e \in NodeID \X NodeID /\ e[2] \in NodeID /\ property[e[2]] \in 0 .. DistInf
      /\ e \in SSSP!OutOf(job[t].u)
  BY <1>3, SJobs
<1> DEFINE r == [job[t] EXCEPT !.left = @ \ {e}, !.e = e, !.old = property[e[2]]]
<1>5. /\ r \in SJob /\ r.u = job[t].u /\ r.left = job[t].left \ {e} /\ r.e = e
      /\ r.old = property[e[2]]
  <2>1. PICK q \in SJob : q = job[t]
    BY SJobs
  <2>2. PICK rest, old : rest = q.left \ {e} /\ old = property[e[2]]
    OBVIOUS
  <2>3. rest \in SUBSET (NodeID \X NodeID) /\ old \in Nat
    BY <1>4, <2>2, DistInfAssumption DEF SJob
  <2>4. r = [q EXCEPT !.left = rest, !.e = e, !.old = old]
    BY <2>1, <2>2
  <2> HIDE DEF r
  <2> QED
    BY <1>4, <2>1, <2>2, <2>3, <2>4 DEF SJob
<1> HIDE DEF r
<1>6. SSSP!Goto(t, "own", r)
  BY <1>1 DEF r
<1>7. pc'[t] = "own" /\ job'[t] = r
  BY <1>5, <1>6, SMoved DEF SLabels, Region
<1>8. property[e[2]] >= property[e[2]] /\ property[e[2]] <= DistInf
  BY <1>4, SJobs
<1>9. Offer(t)'
  BY <1>2, <1>3, <1>4, <1>5, <1>7, <1>8 DEF Offer, Relaxing, OnEdge, Offered, Cur, SSSP!OutOf
<1>10. ASSUME NEW d \in DOMAIN edges PROVE InHand(t, d) => InHand(t, d)'
  BY <1>0, <1>5, <1>7 DEF InHand, Relaxing, Offered
<1>11. ASSUME NEW d \in DOMAIN edges PROVE InFrontier(d[1]) => InFrontier(d[1])'
  BY <1>2 DEF InFrontier, Cur
<1> QED
  BY <1>0, <1>2, <1>5, <1>6, <1>9, <1>10, <1>11, QuietStep DEF SLabels

LEMMA SReadOwnStep ==
    ASSUME SourceOK, Region, NEW t \in Threads, SSSP!ReadOwn(t)
    PROVE  Region'
<1> DEFINE r == [job[t] EXCEPT !.new = property[job[t].u] + edges[job[t].e]]
           w == edges[job[t].e]
           u == job[t].u
           v == job[t].e[2]
<1>0. pc[t] = "own" /\ ~Voted(t) /\ Relaxing(t) /\ OnEdge(t) /\ ~Offered(t)
  BY DEF SSSP!ReadOwn, Voted, Relaxing, OnEdge, Offered
<1>1. /\ UNCHANGED <<SSSP!Settings, SSSP!Bookkeeping, property, todo, local_bins>>
      /\ UNCHANGED <<edges, source, iter, shared_indexes, frontier, frontier_tails, reset>>
  BY DEF SSSP!ReadOwn, SSSP!Settings, SSSP!Bookkeeping, SSSP!input
<1>2. SSSP!Goto(t, IF r.new < r.old THEN "cas" ELSE "edge", r)
  BY DEF SSSP!ReadOwn
<1>3. /\ job[t].e \in DOMAIN edges /\ job[t].e[1] = u /\ u \in NodeID /\ v \in NodeID
      /\ w \in Nat /\ property[u] \in 0 .. DistInf /\ property[v] \in 0 .. DistInf
      /\ job[t].old \in Nat /\ job[t].old >= property[v] /\ job[t].old <= DistInf
      /\ property[u] >= Cur /\ Cur \in 0 .. DistInf /\ DistInf \in Nat /\ ~reset
      /\ job[t].left \subseteq SSSP!OutOf(u) /\ job[t].e \in SSSP!OutOf(u)
  BY <1>0, SJobs, Graph DEF Offer
<1>4. /\ r \in SJob /\ r.u = u /\ r.left = job[t].left /\ r.e = job[t].e
      /\ r.old = job[t].old /\ r.new = property[u] + w
  BY <1>3, SJobs DEF SJob
<1>5. property[u] + w >= Shortest(v) /\ property[u] + w \in Nat
  <2>1. Shortest(v) <= Shortest(u) + w /\ Shortest(u) \in Nat /\ Shortest(v) \in Nat
    BY <1>3, SJobs, ShortestAttained
  <2>2. property[u] >= Shortest(u)
    BY <1>3 DEF Region, Sound
  <2> QED
    BY <1>3, <2>1, <2>2
<1> HIDE DEF r, u, v, w
<1>6. ASSUME NEW d \in DOMAIN edges PROVE InFrontier(d[1]) => InFrontier(d[1])'
  BY <1>1 DEF InFrontier, Cur
<1>7. CASE r.new < r.old
  <2>1. SSSP!Goto(t, "cas", r)
    BY <1>2, <1>7
  <2>2. pc'[t] = "cas" /\ job'[t] = r
    BY <1>4, <2>1, SMoved DEF SLabels, Region
  <2>3. r.new \in Cur .. DistInf - 1 /\ r.new >= Shortest(v)
    BY <1>3, <1>4, <1>5, <1>7
  <2>4. Offer(t)'
    BY <1>1, <1>3, <1>4, <1>7, <2>2, <2>3, SameLengths
    DEF Offer, Relaxing, OnEdge, Offered, Cur, SSSP!OutOf, v
  <2>5. ASSUME NEW d \in DOMAIN edges PROVE InHand(t, d) => InHand(t, d)'
    <3>1. r.new <= property[u] + w
      BY <1>4, <1>5
    <3> QED
      BY <1>0, <1>1, <1>3, <1>4, <2>2, <3>1 DEF InHand, Relaxing, Offered, u, w
  <2> QED
    BY <1>0, <1>1, <1>4, <1>6, <2>1, <2>4, <2>5, QuietStep DEF SLabels
<1>8. CASE ~(r.new < r.old)
  <2>1. SSSP!Goto(t, "edge", r)
    BY <1>2, <1>8
  <2>2. pc'[t] = "edge" /\ job'[t] = r
    BY <1>4, <2>1, SMoved DEF SLabels, Region
  <2>4. Offer(t)'
    BY <1>1, <1>3, <1>4, <2>2 DEF Offer, Relaxing, OnEdge, Offered, Cur, SSSP!OutOf, v
  <2>5. ASSUME NEW d \in DOMAIN edges, ~Relaxed(d), InHand(t, d) PROVE InHand(t, d)'
    <3>1. Relaxed(job[t].e)
      BY <1>3, <1>4, <1>5, <1>8 DEF Relaxed, u, v, w
    <3> QED
      BY <1>0, <1>4, <2>2, <2>5, <3>1 DEF InHand, Relaxing, Offered, u
  <2> QED
    BY <1>0, <1>1, <1>4, <1>6, <2>1, <2>4, <2>5, QuietStep DEF SLabels
<1> QED
  BY <1>7, <1>8

LEMMA SReloadStep ==
    ASSUME SourceOK, Region, NEW t \in Threads, SSSP!Reload(t)
    PROVE  Region'
<1> DEFINE r == [job[t] EXCEPT !.old = property[job[t].e[2]]]
           u == job[t].u
           v == job[t].e[2]
<1>0. pc[t] = "reload" /\ ~Voted(t) /\ Relaxing(t) /\ OnEdge(t) /\ Offered(t)
  BY DEF SSSP!Reload, Voted, Relaxing, OnEdge, Offered
<1>1. /\ UNCHANGED <<SSSP!Settings, SSSP!Bookkeeping, property, todo, local_bins>>
      /\ UNCHANGED <<edges, source, iter, shared_indexes, frontier, frontier_tails, reset>>
  BY DEF SSSP!Reload, SSSP!Settings, SSSP!Bookkeeping, SSSP!input
<1>2. SSSP!Goto(t, IF r.old <= r.new THEN "edge" ELSE "cas", r)
  BY DEF SSSP!Reload
<1>3. /\ job[t].e \in DOMAIN edges /\ job[t].e[1] = u /\ u \in NodeID /\ v \in NodeID
      /\ edges[job[t].e] \in Nat
      /\ property[u] \in 0 .. DistInf /\ property[v] \in 0 .. DistInf
      /\ property[u] >= Cur /\ Cur \in 0 .. DistInf /\ DistInf \in Nat /\ ~reset
      /\ job[t].left \subseteq SSSP!OutOf(u) /\ job[t].e \in SSSP!OutOf(u)
      /\ job[t].new \in Cur .. DistInf - 1 /\ job[t].new >= Shortest(v)
  BY <1>0, SJobs, Graph DEF Offer
<1>4. /\ r \in SJob /\ r.u = u /\ r.left = job[t].left /\ r.e = job[t].e
      /\ r.old = property[v] /\ r.new = job[t].new
  BY <1>3, SJobs DEF SJob
<1> HIDE DEF r, u, v
<1>6. ASSUME NEW d \in DOMAIN edges PROVE InFrontier(d[1]) => InFrontier(d[1])'
  BY <1>1 DEF InFrontier, Cur
<1>7. CASE r.old <= r.new
  <2>1. SSSP!Goto(t, "edge", r)
    BY <1>2, <1>7
  <2>2. pc'[t] = "edge" /\ job'[t] = r
    BY <1>4, <2>1, SMoved DEF SLabels, Region
  <2>4. Offer(t)'
    BY <1>1, <1>3, <1>4, <2>2 DEF Offer, Relaxing, OnEdge, Offered, Cur, SSSP!OutOf
  <2>5. ASSUME NEW d \in DOMAIN edges, ~Relaxed(d), InHand(t, d) PROVE InHand(t, d)'
    <3>1. job[t].new <= property[u] + edges[job[t].e] => Relaxed(job[t].e)
      BY <1>3, <1>4, <1>7 DEF Relaxed, u, v
    <3> QED
      BY <1>0, <1>3, <1>4, <2>2, <2>5, <3>1 DEF InHand, Relaxing, Offered, u
  <2> QED
    BY <1>0, <1>1, <1>4, <1>6, <2>1, <2>4, <2>5, QuietStep DEF SLabels
<1>8. CASE ~(r.old <= r.new)
  <2>1. SSSP!Goto(t, "cas", r)
    BY <1>2, <1>8
  <2>2. pc'[t] = "cas" /\ job'[t] = r
    BY <1>4, <2>1, SMoved DEF SLabels, Region
  <2>3. r.new < r.old
    BY <1>3, <1>4, <1>8
  <2>4. Offer(t)'
    BY <1>1, <1>3, <1>4, <2>2, <2>3, SameLengths
    DEF Offer, Relaxing, OnEdge, Offered, Cur, SSSP!OutOf, v
  <2>5. ASSUME NEW d \in DOMAIN edges PROVE InHand(t, d) => InHand(t, d)'
    BY <1>0, <1>1, <1>3, <1>4, <2>2 DEF InHand, Relaxing, Offered, u
  <2> QED
    BY <1>0, <1>1, <1>4, <1>6, <2>1, <2>4, <2>5, QuietStep DEF SLabels
<1> QED
  BY <1>7, <1>8

LEMMA SNoEdgeLeftStep ==
    ASSUME SourceOK, Region, NEW t \in Threads, SSSP!NoEdgeLeft(t)
    PROVE  Region'
<1> USE DEF SSSP!NoEdgeLeft
<1>0. pc[t] = "edge" /\ ~Voted(t) /\ ~OnEdge(t) /\ ~Offered(t)
  BY DEF Voted, OnEdge, Offered
<1>1. /\ UNCHANGED <<SSSP!Settings, SSSP!Bookkeeping, property, todo, local_bins>>
      /\ UNCHANGED <<shared_indexes, frontier, iter>>
  BY DEF SSSP!Settings, SSSP!Bookkeeping
<1>2. pc'[t] = "take"
  BY SNoJob, SMoved DEF SLabels, Region
<1>3. Offer(t)'
  BY <1>2 DEF Offer, Relaxing, OnEdge, Offered
<1>4. ASSUME NEW d \in DOMAIN edges
      PROVE  ~InHand(t, d) /\ (InFrontier(d[1]) => InFrontier(d[1])')
  BY <1>0, <1>1 DEF InHand, InFrontier, Cur, Offered
<1> QED
  BY <1>0, <1>1, <1>3, <1>4, SNoJob, QuietStep DEF SLabels

(* A vertex that has got nearer goes into the bin of its new distance, in  *)
(* which it has not been before.                                           *)
LEMMA SStoreStep ==
    ASSUME SourceOK, Region, NEW t \in Threads, SSSP!CompareAndSwap(t),
           property[job[t].e[2]] = job[t].old
    PROVE  Region'
<1> USE DEF Region
<1> DEFINE v == job[t].e[2]
           new == job[t].new
<1>0. pc[t] = "cas" /\ ~Voted(t) /\ Relaxing(t) /\ OnEdge(t) /\ Offered(t)
  BY DEF SSSP!CompareAndSwap, Voted, Relaxing, OnEdge, Offered
<1>1. /\ UNCHANGED <<directed, edges, source, phase, iter, todo>>
      /\ UNCHANGED <<shared_indexes, frontier, frontier_tails, reset>>
  BY DEF SSSP!CompareAndSwap, SSSP!Settings, SSSP!Bookkeeping, SSSP!input
<1>2. /\ v \in NodeID /\ new \in Cur .. DistInf - 1 /\ new >= Shortest(v) /\ new < property[v]
      /\ property \in [NodeID -> 0 .. DistInf] /\ DistInf \in Nat /\ Cur \in 0 .. DistInf
      /\ ~reset /\ new \in Nat /\ new \in BinSet
      /\ job[t].e \in DOMAIN edges /\ job[t].e[1] = job[t].u /\ v \in Heads
      /\ job[t].u \in NodeID /\ source \in NodeID
  <2>1. /\ job[t].e \in DOMAIN edges /\ v \in Heads
    BY <1>0, SJobs DEF Heads
  <2> QED
    BY <1>0, <2>1, SJobs DEF Offer, BinSet
<1>3. /\ property' = [property EXCEPT ![v] = new]
      /\ local_bins' = [local_bins EXCEPT ![t][new] = Append(local_bins[t][new], v)]
      /\ SSSP!Goto(t, "edge", job[t])
  BY DEF SSSP!CompareAndSwap
<1>4. /\ property' \in [NodeID -> 0 .. DistInf] /\ property'[v] = new
      /\ \A n \in NodeID : n # v => property'[n] = property[n]
      /\ \A n \in NodeID : property'[n] <= property[n]
  BY <1>2, <1>3
<1>5. /\ pc'[t] = "edge" /\ job'[t] = job[t]
      /\ \A s \in Threads : s # t => pc'[s] = pc[s]
      /\ \A s \in Threads : job'[s] = job[s]
      /\ pc' \in [Threads -> SLabels] /\ job' \in [Threads -> SJob]
  BY <1>3, SJobs, SMoved DEF SLabels
<1> DEFINE lb == local_bins
<1>6. /\ lb \in [Threads -> [BinSet -> Seq(NodeID)]]
      /\ lb' \in [Threads -> [BinSet -> Seq(NodeID)]]
      /\ lb'[t][new] = Append(lb[t][new], v)
      /\ \A s \in Threads : \A b \in BinSet : s # t \/ b # new => lb'[s][b] = lb[s][b]
  <2>1. lb \in [Threads -> [BinSet -> Seq(NodeID)]]
    BY DEF RegionType
  <2>2. Append(lb[t][new], v) \in Seq(NodeID)
    BY <1>2, <2>1
  <2> QED
    BY <1>2, <1>3, <2>1, <2>2
<1> HIDE DEF lb
<1>7. \A s \in Threads : \A b \in BinSet :
          /\ lb[s][b] \in Seq(NodeID)
          /\ \A i \in DOMAIN lb[s][b] : lb[s][b][i] \in NodeID
  BY SMTT(30), <1>6
<1>8. /\ DOMAIN lb[t][new] = 1 .. Len(lb[t][new]) /\ Len(lb[t][new]) \in Nat
      /\ DOMAIN lb'[t][new] = 1 .. Len(lb[t][new]) + 1
      /\ lb'[t][new][Len(lb[t][new]) + 1] = v
      /\ \A i \in DOMAIN lb[t][new] : lb'[t][new][i] = lb[t][new][i]
  <2>1. PICK q \in Seq(NodeID) : q = lb[t][new]
    BY <1>2, <1>7
  <2>2. PICK p : p = Append(q, v)
    OBVIOUS
  <2>3. lb'[t][new] = p
    BY <1>6, <2>1, <2>2
  <2>4. /\ DOMAIN q = 1 .. Len(q) /\ Len(q) \in Nat
        /\ DOMAIN p = 1 .. Len(q) + 1 /\ p[Len(q) + 1] = v
        /\ \A i \in DOMAIN q : p[i] = q[i]
    BY SMTT(30), <1>2, <2>2
  <2> QED
    BY <2>1, <2>3, <2>4
<1>9. \A s \in Threads : \A b \in BinSet : \A i \in DOMAIN lb'[s][b] :
          \/ i \in DOMAIN lb[s][b] /\ lb'[s][b][i] = lb[s][b][i]
          \/ s = t /\ b = new /\ i = Len(lb[t][new]) + 1 /\ lb'[s][b][i] = v
  <2> SUFFICES ASSUME NEW s \in Threads, NEW b \in BinSet, NEW i \in DOMAIN lb'[s][b]
               PROVE  \/ i \in DOMAIN lb[s][b] /\ lb'[s][b][i] = lb[s][b][i]
                      \/ s = t /\ b = new /\ i = Len(lb[t][new]) + 1 /\ lb'[s][b][i] = v
    OBVIOUS
  <2>1. CASE s = t /\ b = new
    <3>1. PICK l \in Nat : l = Len(lb[t][new])
      BY <1>8
    <3>2. i \in 1 .. l + 1 /\ DOMAIN lb[t][new] = 1 .. l
      BY <1>8, <2>1, <3>1
    <3>3. i \in 1 .. l \/ i = l + 1
      BY <3>2
    <3> QED
      BY <1>8, <2>1, <3>1, <3>2, <3>3
  <2>2. CASE s # t \/ b # new
    BY <1>6, <2>2
  <2> QED
    BY <2>1, <2>2
<1>10. \A s \in Threads : \A b \in BinSet : \A i \in DOMAIN lb[s][b] :
          i \in DOMAIN lb'[s][b] /\ lb'[s][b][i] = lb[s][b][i]
  <2> SUFFICES ASSUME NEW s \in Threads, NEW b \in BinSet, NEW i \in DOMAIN lb[s][b]
               PROVE  i \in DOMAIN lb'[s][b] /\ lb'[s][b][i] = lb[s][b][i]
    OBVIOUS
  <2>1. CASE s = t /\ b = new
    <3>1. PICK l \in Nat : l = Len(lb[t][new])
      BY <1>8
    <3>2. i \in 1 .. l /\ DOMAIN lb'[t][new] = 1 .. l + 1
      BY <1>8, <2>1, <3>1
    <3>3. i \in 1 .. l + 1
      BY <3>2
    <3> QED
      BY <1>8, <2>1, <3>2, <3>3
  <2>2. CASE s # t \/ b # new
    BY <1>6, <2>2
  <2> QED
    BY <2>1, <2>2
<1>11. \A s \in Threads : \A i \in DOMAIN lb[s][new] : lb[s][new][i] # v
  <2> SUFFICES ASSUME NEW s \in Threads, NEW i \in DOMAIN lb[s][new] PROVE lb[s][new][i] # v
    OBVIOUS
  <2>1. property[lb[s][new][i]] <= new
    BY <1>2 DEF BinsAhead, lb
  <2> QED
    BY <1>2, <2>1
<1>12. \A s \in Threads : Voted(s)' <=> Voted(s)
  BY <1>0, <1>5 DEF Voted
<1>13. RegionType'
  BY <1>1, <1>4, <1>5, <1>6 DEF RegionType, lb
<1>14. Barriers'
  BY <1>0, <1>1, <1>5, <1>12 DEF Barriers, Cur, Nxt, Copied
<1>15. BinsAhead'
  <2> SUFFICES ASSUME NEW s \in Threads, NEW b \in BinSet
               PROVE  /\ \A i \in DOMAIN lb'[s][b] :
                            lb'[s][b][i] \in Heads /\ property'[lb'[s][b][i]] <= b
                      /\ lb'[s][b] # <<>> =>
                            /\ b >= Cur
                            /\ Voted(s) => b >= Nxt
                            /\ pc'[s] = "copied" => b # Nxt
    BY <1>1, <1>12 DEF BinsAhead, Cur, Nxt, Heads, lb
  <2>1. ASSUME NEW i \in DOMAIN lb'[s][b]
        PROVE  lb'[s][b][i] \in Heads /\ property'[lb'[s][b][i]] <= b
    <3>1. CASE i \in DOMAIN lb[s][b] /\ lb'[s][b][i] = lb[s][b][i]
      <4>1. lb[s][b][i] \in Heads /\ property[lb[s][b][i]] <= b /\ lb[s][b][i] \in NodeID
        BY <1>7, <3>1 DEF BinsAhead, lb
      <4>2. property'[lb[s][b][i]] <= property[lb[s][b][i]]
        BY <1>4, <4>1
      <4>3. property'[lb[s][b][i]] \in Int /\ property[lb[s][b][i]] \in Int /\ b \in Int
        BY <1>2, <1>4, <4>1 DEF BinSet
      <4> QED
        BY <3>1, <4>1, <4>2, <4>3
    <3>2. CASE s = t /\ b = new /\ lb'[s][b][i] = v
      BY <1>2, <1>4, <3>2
    <3> QED
      BY <1>9, <3>1, <3>2
  <2>2. CASE s = t /\ b = new
    <3>1. b >= Cur /\ ~Voted(s) /\ pc'[s] # "copied"
      BY <1>0, <1>2, <1>5, <2>2
    <3> QED
      BY <2>1, <3>1
  <2>3. CASE ~(s = t /\ b = new)
    <3>1. lb'[s][b] = lb[s][b] /\ (pc'[s] = "copied" => pc[s] = "copied")
      BY <1>5, <1>6, <2>3
    <3> QED
      BY <1>2, <2>1, <3>1 DEF BinsAhead, lb
  <2> QED
    BY <2>2, <2>3
<1>16. EntriesDistinct'
  <2>1. Copied = 0 /\ Copied' = 0
    BY <1>1, <1>2 DEF Barriers, Copied
  <2>2. ASSUME NEW s1 \in Threads, NEW s2 \in Threads, NEW b \in BinSet,
               NEW i \in DOMAIN lb'[s1][b], NEW j \in DOMAIN lb'[s2][b],
               lb'[s1][b][i] = lb'[s2][b][j]
        PROVE  s1 = s2 /\ i = j
    <3>1. CASE /\ i \in DOMAIN lb[s1][b] /\ lb'[s1][b][i] = lb[s1][b][i]
               /\ j \in DOMAIN lb[s2][b] /\ lb'[s2][b][j] = lb[s2][b][j]
      <4>1. lb[s1][b][i] = lb[s2][b][j]
        BY <2>2, <3>1
      <4> QED
        BY <3>1, <4>1 DEF EntriesDistinct, lb
    <3> QED
      BY <1>9, <1>11, <2>2, <3>1
  <2> QED
    BY <2>1, <2>2 DEF EntriesDistinct, lb
<1>17. Offers'
  <2> SUFFICES ASSUME NEW s \in Threads PROVE Offer(s)'
    BY DEF Offers
  <2>1. /\ job'[s] = job[s] /\ Offer(s) /\ job[s].u \in NodeID /\ job[s].e[2] \in NodeID
        /\ job[s].old \in Nat
    BY <1>5, SJobs
  <2>2. /\ property'[job[s].u] >= Cur \/ property'[job[s].u] = property[job[s].u]
        /\ property'[job[s].e[2]] <= property[job[s].e[2]]
        /\ property'[job[s].e[2]] \in Nat /\ property[job[s].e[2]] \in Nat
    BY <1>2, <1>4, <2>1
  <2>3. CASE s = t
    BY <1>0, <1>1, <1>2, <1>5, <2>1, <2>2, <2>3
    DEF Offer, Relaxing, OnEdge, Offered, Cur, SSSP!OutOf
  <2>4. CASE s # t
    <3>1. pc'[s] = pc[s]
      BY <1>5, <2>4
    <3>2. pc[s] = "own" => job[s].old >= property'[job[s].e[2]] /\ job[s].old <= DistInf
      BY <2>1, <2>2 DEF Offer
    <3> QED
      BY <1>1, <2>1, <2>2, <3>1, <3>2, SameLengths
      DEF Offer, Relaxing, OnEdge, Offered, Cur, SSSP!OutOf
  <2> QED
    BY <2>3, <2>4
<1>18. Sound'
  <2>1. source # v
    BY <1>2 DEF Sound
  <2>2. \A n \in NodeID : property'[n] >= Shortest(n)
    BY <1>2, <1>4 DEF Sound
  <2> QED
    BY <1>1, <1>2, <1>4, <2>1, <2>2, SameLengths DEF Sound
<1>19. Settled'
  <2>1. ASSUME NEW n \in NodeID, Shortest(n) < Cur PROVE property'[n] = Shortest(n)
    <3>1. property[n] = Shortest(n)
      BY <1>2, <2>1 DEF Settled, BinSet
    <3>2. n # v
      <4> SUFFICES ASSUME n = v PROVE FALSE
        OBVIOUS
      <4>1. property[v] = Shortest(v) /\ new >= Shortest(v) /\ new < property[v]
        BY <1>2, <3>1
      <4> QED
        BY <1>2, <4>1
    <3> QED
      BY <1>4, <3>1, <3>2
  <2> QED
    BY <1>1, <2>1, SameLengths DEF Settled, Cur
<1>20. AllSeenTo'
  <2> SUFFICES ASSUME NEW e \in DOMAIN edges PROVE Relaxed(e)' \/ Waits(e)'
    BY <1>1 DEF AllSeenTo
  <2>0. /\ e[1] \in NodeID /\ e[2] \in NodeID /\ edges[e] \in Nat /\ edges'[e] = edges[e]
        /\ property[e[1]] \in Nat /\ property[e[2]] \in Nat
        /\ property'[e[1]] \in Nat /\ property'[e[2]] \in Nat
        /\ property'[e[2]] <= property[e[2]]
    <3>1. e[1] \in NodeID /\ e[2] \in NodeID /\ edges[e] \in Nat
      BY Graph DEF SourceOK
    <3> QED
      BY <1>1, <1>2, <1>4, <3>1
  <2>1. CASE e[1] = v
    <3>1. property'[e[1]] = new
      BY <1>4, <2>1
    <3>2. Len(lb[t][new]) + 1 \in DOMAIN lb'[t][new] /\ lb'[t][new][Len(lb[t][new]) + 1] = e[1]
      BY SMTT(30), <1>8, <2>1
    <3> QED
      BY <3>1, <3>2 DEF Waits, Binned, lb
  <2>2. CASE e[1] # v
    <3>0. property'[e[1]] = property[e[1]]
      BY <1>4, <2>0, <2>2
    <3>1. CASE Relaxed(e)
      BY <2>0, <3>0, <3>1 DEF Relaxed
    <3>2. CASE Binned(e[1])
      <4>1. property[e[1]] \in BinSet
        BY <1>2, <2>0 DEF BinSet
      <4> QED
        BY <1>10, <3>0, <3>2, <4>1 DEF Waits, Binned, lb
    <3>3. CASE InFrontier(e[1]) \/ InNextFrontier(e[1])
      BY <1>1, <3>0, <3>3 DEF Waits, InFrontier, InNextFrontier, Cur, Nxt, Copied
    <3>4. ASSUME NEW s \in Threads, InHand(s, e) PROVE Relaxed(e)' \/ Waits(e)'
      <4>1. CASE s # t
        <5>1. InHand(s, e)'
          BY <1>1, <1>5, <3>0, <3>4, <4>1 DEF InHand, Relaxing, Offered
        <5> QED
          BY <5>1 DEF Waits
      <4>2. CASE s = t /\ e \in job[t].left
        <5>1. InHand(t, e)'
          BY <1>5, <3>4, <4>2 DEF InHand, Relaxing
        <5> QED
          BY <5>1 DEF Waits
      <4>3. CASE s = t /\ job[t].e = e /\ new <= property[e[1]] + edges[e]
        BY <1>4, <2>0, <3>0, <4>3 DEF Relaxed
      <4> QED
        BY <1>0, <3>4, <4>1, <4>2, <4>3 DEF InHand
    <3> QED
      BY <3>1, <3>2, <3>3, <3>4 DEF AllSeenTo, Waits
  <2> QED
    BY <2>1, <2>2
<1> QED
  BY <1>13, <1>14, <1>15, <1>16, <1>17, <1>18, <1>19, <1>20

LEMMA SCompareAndSwapStep ==
    ASSUME SourceOK, Region, NEW t \in Threads, SSSP!CompareAndSwap(t)
    PROVE  Region'
<1>0. pc[t] = "cas" /\ ~Voted(t) /\ Relaxing(t) /\ OnEdge(t) /\ Offered(t)
  BY DEF SSSP!CompareAndSwap, Voted, Relaxing, OnEdge, Offered
<1>1. CASE property[job[t].e[2]] # job[t].old
  <2>1. /\ UNCHANGED <<SSSP!Settings, SSSP!Bookkeeping, property, todo, local_bins>>
        /\ UNCHANGED <<edges, source, iter, shared_indexes, frontier, frontier_tails, reset>>
        /\ SSSP!Goto(t, "reload", job[t])
    BY <1>1 DEF SSSP!CompareAndSwap, SSSP!Settings, SSSP!Bookkeeping, SSSP!input
  <2>2. pc'[t] = "reload" /\ job'[t] = job[t] /\ job[t] \in SJob
    BY <2>1, SMoved, SJobs DEF SLabels, Region
  <2>3. Offer(t)'
    BY <1>0, <2>1, <2>2, SJobs, SameLengths
    DEF Offer, Relaxing, OnEdge, Offered, Cur, SSSP!OutOf
  <2>4. ASSUME NEW d \in DOMAIN edges
        PROVE  (InHand(t, d) => InHand(t, d)') /\ (InFrontier(d[1]) => InFrontier(d[1])')
    BY <1>0, <2>1, <2>2 DEF InHand, Relaxing, Offered, InFrontier, Cur
  <2> QED
    BY <1>0, <2>1, <2>2, <2>3, <2>4, QuietStep DEF SLabels
<1> QED
  BY <1>1, SStoreStep

-----------------------------------------------------------------------------
(* Room for the frontier.                                                  *)
LEMMA Joined ==
    ASSUME NEW S, NEW a \in Seq(S), NEW b \in Seq(S), NEW g, g = a \o b
    PROVE  /\ g \in Seq(S) /\ Len(g) = Len(a) + Len(b)
           /\ \A i \in 1 .. Len(a) + Len(b) :
                  g[i] = IF i <= Len(a) THEN a[i] ELSE b[i - Len(a)]
BY Zenon, ConcatProperties

LEMMA JoinedParts ==
    ASSUME NEW S, NEW a \in Seq(S), NEW b \in Seq(S), NEW g, g = a \o b,
           NEW l \in Nat, l = Len(a), NEW m \in Nat, m = Len(b)
    PROVE  /\ g \in Seq(S) /\ Len(g) = l + m
           /\ \A i \in 1 .. l : g[i] = a[i]
           /\ \A i \in 1 .. m : g[l + i] = b[i]
<1>1. /\ g \in Seq(S) /\ Len(g) = Len(a) + Len(b)
      /\ \A i \in 1 .. Len(a) + Len(b) : g[i] = IF i <= Len(a) THEN a[i] ELSE b[i - Len(a)]
  BY Joined
<1>2. /\ Len(g) = l + m
      /\ \A i \in 1 .. l + m : g[i] = IF i <= l THEN a[i] ELSE b[i - l]
  BY Zenon, <1>1
<1>3. \A i \in 1 .. l : i \in 1 .. l + m /\ i <= l
  OBVIOUS
<1>4. \A i \in 1 .. m : l + i \in 1 .. l + m /\ ~(l + i <= l) /\ (l + i) - l = i
  OBVIOUS
<1>5. \A i \in 1 .. l : g[i] = a[i]
  BY Zenon, <1>2, <1>3
<1>6. \A i \in 1 .. m : g[l + i] = b[i]
  BY Zenon, <1>2, <1>4
<1> QED
  BY Zenon, <1>1, <1>2, <1>5, <1>6

LEMMA JoinedThree ==
    ASSUME NEW S, NEW a \in Seq(S), NEW p \in Seq(S), NEW c \in Seq(S)
    PROVE  /\ a \o p \o c \in Seq(S) /\ Len(a \o p \o c) = Len(a) + Len(p) + Len(c)
           /\ \A i \in 1 .. Len(a) : (a \o p \o c)[i] = a[i]
           /\ \A i \in 1 .. Len(p) : (a \o p \o c)[Len(a) + i] = p[i]
<1>1. PICK l \in Nat, m \in Nat, n \in Nat : l = Len(a) /\ m = Len(p) /\ n = Len(c)
  BY LenProperties
<1>2. PICK ap : ap = a \o p
  OBVIOUS
<1>3. PICK g : g = ap \o c
  OBVIOUS
<1>4. l = Len(a)
  BY <1>1
<1>5. m = Len(p)
  BY <1>1
<1>6. n = Len(c)
  BY <1>1
<1>7. /\ ap \in Seq(S) /\ Len(ap) = l + m
      /\ \A i \in 1 .. l : ap[i] = a[i]
      /\ \A i \in 1 .. m : ap[l + i] = p[i]
  BY <1>2, <1>4, <1>5, JoinedParts
<1>8. PICK lm \in Nat : lm = l + m
  OBVIOUS
<1>9. lm = Len(ap)
  BY Zenon, <1>7, <1>8
<1>10. ap \in Seq(S)
  BY Zenon, <1>7
<1>11. /\ g \in Seq(S) /\ Len(g) = lm + n
       /\ \A i \in 1 .. lm : g[i] = ap[i]
  BY <1>3, <1>6, <1>9, <1>10, JoinedParts
<1>12. /\ \A i \in 1 .. l : i \in 1 .. lm
       /\ \A i \in 1 .. m : l + i \in 1 .. lm
  BY <1>8
<1>13. /\ \A i \in 1 .. l : g[i] = a[i]
       /\ \A i \in 1 .. m : g[l + i] = p[i]
  BY Zenon, <1>7, <1>11, <1>12
<1> QED
  BY Zenon, <1>1, <1>2, <1>3, <1>8, <1>11, <1>13

LEMMA SplicedAlike ==
    ASSUME NEW S, NEW f \in Seq(S), NEW a \in Seq(S), NEW p \in Seq(S), NEW c \in Seq(S)
    PROVE  /\ Len(a) <= Len(f)
           /\ \A i \in 1 .. Len(a) : a[i] = f[i]
           /\ Len(c) = IF Len(a) + Len(p) + 1 <= Len(f) THEN Len(f) - (Len(a) + Len(p)) ELSE 0
           => /\ a \o p \o c \in Seq(S)
              /\ Len(f) <= Len(a \o p \o c) /\ Len(a) + Len(p) <= Len(a \o p \o c)
              /\ Len(a \o p \o c) = Len(f) \/ Len(a \o p \o c) = Len(a) + Len(p)
              /\ \A i \in 1 .. Len(a) : (a \o p \o c)[i] = f[i]
              /\ \A i \in 1 .. Len(p) : (a \o p \o c)[Len(a) + i] = p[i]
<1>1. /\ a \o p \o c \in Seq(S) /\ Len(a \o p \o c) = Len(a) + Len(p) + Len(c)
      /\ \A i \in 1 .. Len(a) : (a \o p \o c)[i] = a[i]
      /\ \A i \in 1 .. Len(p) : (a \o p \o c)[Len(a) + i] = p[i]
  <2> DEFINE Q(g) ==
        /\ g \in Seq(S) /\ Len(g) = Len(a) + Len(p) + Len(c)
        /\ \A i \in 1 .. Len(a) : g[i] = a[i]
        /\ \A i \in 1 .. Len(p) : g[Len(a) + i] = p[i]
  <2>1. Q(a \o p \o c)
    BY JoinedThree
  <2> QED
    BY <2>1
<1>2. PICK k \in Nat, m \in Nat, n \in Nat, lf \in Nat :
          k = Len(a) /\ m = Len(p) /\ n = Len(c) /\ lf = Len(f)
  BY LenProperties
<1>3. PICK g : g = a \o p \o c
  OBVIOUS
<1>4. /\ g \in Seq(S) /\ Len(g) = k + m + n
      /\ \A i \in 1 .. k : g[i] = a[i]
      /\ \A i \in 1 .. m : g[k + i] = p[i]
  BY Zenon, <1>1, <1>2, <1>3
<1>5. ASSUME k <= lf, n = IF k + m + 1 <= lf THEN lf - (k + m) ELSE 0
      PROVE  /\ lf <= k + m + n /\ k + m <= k + m + n
             /\ k + m + n = lf \/ k + m + n = k + m
  BY <1>5
<1>6. ASSUME Len(a) <= Len(f), \A i \in 1 .. Len(a) : a[i] = f[i],
             Len(c) = IF Len(a) + Len(p) + 1 <= Len(f) THEN Len(f) - (Len(a) + Len(p)) ELSE 0
      PROVE  /\ g \in Seq(S)
             /\ Len(f) <= Len(g) /\ Len(a) + Len(p) <= Len(g)
             /\ Len(g) = Len(f) \/ Len(g) = Len(a) + Len(p)
             /\ \A i \in 1 .. Len(a) : g[i] = f[i]
             /\ \A i \in 1 .. Len(p) : g[Len(a) + i] = p[i]
  <2>1. k <= lf /\ n = IF k + m + 1 <= lf THEN lf - (k + m) ELSE 0
    BY Zenon, <1>2, <1>6
  <2>2. \A i \in 1 .. k : g[i] = f[i]
    BY Zenon, <1>2, <1>4, <1>6
  <2> QED
    BY Zenon, <1>2, <1>4, <1>5, <2>1, <2>2
<1> QED
  BY Zenon, <1>3, <1>6

Splice(f, p, k) == SubSeq(f, 1, k) \o p \o SubSeq(f, k + Len(p) + 1, Len(f))

SplicedAs(g, S, f, p, k) ==
    /\ g \in Seq(S)
    /\ Len(f) <= Len(g) /\ k + Len(p) <= Len(g)
    /\ Len(g) = Len(f) \/ Len(g) = k + Len(p)
    /\ \A i \in 1 .. k : g[i] = f[i]
    /\ \A i \in 1 .. Len(p) : g[k + i] = p[i]

LEMMA Spliced ==
    ASSUME NEW S, NEW f \in Seq(S), NEW p \in Seq(S), NEW k \in Nat, k <= Len(f)
    PROVE  SplicedAs(Splice(f, p, k), S, f, p, k)
<1>1. PICK a : a = SubSeq(f, 1, k)
  OBVIOUS
<1>2. PICK c : c = SubSeq(f, k + Len(p) + 1, Len(f))
  OBVIOUS
<1>3. a \in Seq(S) /\ Len(a) = k /\ \A i \in 1 .. k : a[i] = f[i]
  BY <1>1
<1>4. /\ c \in Seq(S)
      /\ Len(c) = IF k + Len(p) + 1 <= Len(f) THEN Len(f) - (k + Len(p)) ELSE 0
  BY <1>2
<1>5. /\ a \o p \o c \in Seq(S)
      /\ Len(f) <= Len(a \o p \o c) /\ Len(a) + Len(p) <= Len(a \o p \o c)
      /\ Len(a \o p \o c) = Len(f) \/ Len(a \o p \o c) = Len(a) + Len(p)
      /\ \A i \in 1 .. Len(a) : (a \o p \o c)[i] = f[i]
      /\ \A i \in 1 .. Len(p) : (a \o p \o c)[Len(a) + i] = p[i]
  <2>1. Len(a) <= Len(f)
    BY Zenon, <1>3
  <2>2. \A i \in 1 .. Len(a) : a[i] = f[i]
    BY Zenon, <1>3
  <2>3. Len(c) = IF Len(a) + Len(p) + 1 <= Len(f) THEN Len(f) - (Len(a) + Len(p)) ELSE 0
    BY Zenon, <1>3, <1>4
  <2>4. a \in Seq(S)
    BY <1>3
  <2>5. c \in Seq(S)
    BY <1>4
  <2> QED
    BY SMTT(30), <2>1, <2>2, <2>3, <2>4, <2>5, SplicedAlike
<1>6. Splice(f, p, k) = a \o p \o c
  BY Zenon, <1>1, <1>2 DEF Splice
<1> QED
  BY Zenon, <1>3, <1>5, <1>6 DEF SplicedAs

LEMMA DistinctFew ==
    ASSUME NEW S, IsFiniteSet(S), NEW f, NEW k \in Nat,
           \A i \in 1 .. k : f[i] \in S,
           \A i, j \in 1 .. k : f[i] = f[j] => i = j
    PROVE  k <= Cardinality(S)
<1> DEFINE h == [i \in 1 .. k |-> f[i]]
<1>1. h \in Injection(1 .. k, S)
  BY DEF Injection, IsInjective
<1>2. Cardinality(1 .. k) = k
  BY FS_Interval
<1> HIDE DEF h
<1> QED
  BY <1>1, <1>2, FS_Injection

LEMMA EdgesFinite ==
    ASSUME Input
    PROVE  IsFiniteSet(DOMAIN edges) /\ IsFiniteSet(Heads)
           /\ Cardinality(Heads) <= Cardinality(DOMAIN edges)
<1>1. IsFiniteSet(NodeID \X NodeID)
  BY NodesFinite, FS_Product
<1>2. IsFiniteSet(DOMAIN edges)
  BY <1>1, Graph, FS_Subset
<1> DEFINE h == [e \in DOMAIN edges |-> e[2]]
<1>3. h \in Surjection(DOMAIN edges, Heads)
  BY DEF Surjection, Heads
<1> HIDE DEF h
<1> QED
  BY <1>2, <1>3, FS_Surjection

LEMMA SameCount == ASSUME NEW S PROVE SSSP!Cardinality(S) = Cardinality(S)
BY Zenon DEF SSSP!Cardinality, Cardinality, SSSP!IsFiniteSet, IsFiniteSet

(* An undirected edge counts twice as often, but is stored in both rows.   *)
LEMMA Room ==
    ASSUME Input
    PROVE  /\ SSSP!num_edges_directed \in Nat
           /\ Cardinality(Heads) <= SSSP!num_edges_directed
           /\ DOMAIN edges # {} => 1 <= SSSP!num_edges_directed
<1> DEFINE E == DOMAIN edges
           Up == {e \in E : directed \/ e[1] <= e[2]}
           Down == {e \in E : e[2] <= e[1]}
<1>1. IsFiniteSet(E) /\ IsFiniteSet(Up) /\ IsFiniteSet(Down)
  BY EdgesFinite, FS_Subset
<1>2. Cardinality(E) \in Nat /\ Cardinality(Up) \in Nat /\ Cardinality(Down) \in Nat
  BY <1>1, FS_CardinalityType
<1>3. E # {} => Cardinality(E) >= 1
  BY <1>1, <1>2, FS_EmptySet
<1>4. SSSP!num_edges = 2 * Cardinality(Up)
  BY SameCount DEF SSSP!num_edges
<1>5. CASE directed
  <2>1. Up = E
    BY <1>5
  <2>2. SSSP!num_edges_directed = 2 * Cardinality(E)
    BY <1>4, <1>5, <2>1 DEF SSSP!num_edges_directed
  <2>3. Cardinality(Heads) <= Cardinality(E) /\ Cardinality(Heads) \in Nat
    BY EdgesFinite, FS_CardinalityType
  <2> HIDE DEF E
  <2> QED
    BY <1>2, <1>3, <2>2, <2>3 DEF E
<1>6. CASE ~directed
  <2>1. E = Up \cup Down
    BY <1>6, Graph DEF NodeID
  <2>2. Cardinality(Down) <= Cardinality(Up)
    <3> DEFINE flip == [e \in Down |-> <<e[2], e[1]>>]
    <3>1. flip \in Injection(Down, Up)
      <4>1. \A e \in Down : <<e[2], e[1]>> \in Up
        BY <1>6, Graph
      <4>2. \A e, d \in Down : <<e[2], e[1]>> = <<d[2], d[1]>> => e = d
        BY Graph
      <4> QED
        BY <4>1, <4>2 DEF Injection, IsInjective
    <3> HIDE DEF flip, Up, Down
    <3> QED
      BY <1>1, <3>1, FS_Injection
  <2>3. Cardinality(E) <= Cardinality(Up) + Cardinality(Down)
    <3>1. /\ Cardinality(Up \cup Down) =
                Cardinality(Up) + Cardinality(Down) - Cardinality(Up \cap Down)
          /\ IsFiniteSet(Up \cap Down)
      <4> HIDE DEF Up, Down
      <4> QED
        BY <1>1, FS_Union, FS_Intersection
    <3>2. Cardinality(Up \cap Down) \in Nat
      BY <3>1, FS_CardinalityType
    <3> HIDE DEF E, Up, Down
    <3> QED
      BY <1>2, <2>1, <3>1, <3>2
  <2>4. SSSP!num_edges_directed = 2 * (2 * Cardinality(Up))
    BY <1>4, <1>6 DEF SSSP!num_edges_directed
  <2>5. Cardinality(Heads) <= Cardinality(E) /\ Cardinality(Heads) \in Nat
    BY EdgesFinite, FS_CardinalityType
  <2> HIDE DEF E, Up, Down
  <2> QED
    BY <1>2, <1>3, <2>2, <2>3, <2>4, <2>5 DEF E
<1> QED
  BY <1>5, <1>6

-----------------------------------------------------------------------------
(* The vote on the next bin, and the two barriers.                         *)
LEMMA BinsNat == /\ DistInf \in Nat /\ MaxBin \in Nat /\ MaxBin > DistInf
                 /\ BinSet \subseteq Nat /\ MaxBin \notin BinSet /\ SSSP!Bin = BinSet
BY DistInfAssumption, MaxBinAssumption DEF BinSet, SSSP!Bin

LEMMA SVoteStep ==
    ASSUME SourceOK, Region, NEW t \in Threads, SSSP!Vote(t)
    PROVE  Region'
<1> USE DEF Region
<1>0. pc[t] = "take" /\ todo = {} /\ ~Voted(t) /\ ~Relaxing(t) /\ ~reset /\ Copied = 0
  BY DEF SSSP!Vote, Voted, Relaxing, Barriers
<1>1. /\ UNCHANGED <<directed, edges, source, phase, iter, todo, property>>
      /\ UNCHANGED <<frontier, frontier_tails, reset, local_bins>>
      /\ SSSP!Goto(t, "voted", SSSP!NoJob)
  BY DEF SSSP!Vote, SSSP!Settings, SSSP!input
<1>2. /\ pc'[t] = "voted" /\ job'[t] = SSSP!NoJob
      /\ \A s \in Threads : s # t => pc'[s] = pc[s] /\ job'[s] = job[s]
      /\ pc' \in [Threads -> SLabels] /\ job' \in [Threads -> SJob]
  BY <1>1, SNoJob, SMoved DEF SLabels
<1> DEFINE W == SSSP!Waiting(t)
<1>3. /\ iter \in {0, 1} /\ 1 - iter \in {0, 1} /\ 1 - iter # iter
      /\ shared_indexes \in [{0, 1} -> BinSet \cup {MaxBin}]
      /\ Nxt \in BinSet \cup {MaxBin} /\ Nxt \in Nat
  <2>1. iter \in {0, 1} /\ shared_indexes \in [{0, 1} -> BinSet \cup {MaxBin}]
    BY DEF RegionType
  <2>2. 1 - iter \in {0, 1} /\ 1 - iter # iter
    BY <2>1
  <2>3. Nxt \in BinSet \cup {MaxBin}
    BY <2>1, <2>2 DEF Nxt
  <2> QED
    BY <2>1, <2>2, <2>3, BinsNat
<1>4. /\ W \subseteq BinSet
      /\ \A b \in BinSet : local_bins[t][b] # <<>> => b \in W
  BY <1>0, BinsNat DEF SSSP!Waiting, SSSP!this, BinsAhead, Cur
<1>5. /\ shared_indexes' \in [{0, 1} -> BinSet \cup {MaxBin}]
      /\ Cur' = Cur /\ Nxt' \in Nat /\ Nxt' <= Nxt
      /\ \A b \in W : b >= Nxt'
  <2>1. CASE W = {}
    <3>1. shared_indexes' = shared_indexes
      BY <2>1 DEF SSSP!Vote
    <3> QED
      BY <1>1, <1>3, <2>1, <3>1 DEF Cur, Nxt
  <2>2. CASE W # {}
    <3> DEFINE least == SSSP!Least(W \cup {Nxt})
    <3>1. shared_indexes' = [shared_indexes EXCEPT ![1 - iter] = least]
      BY <2>2 DEF SSSP!Vote, SSSP!other, Nxt
    <3>2. W \cup {Nxt} \in SUBSET Nat
      BY <1>3, <1>4, BinsNat
    <3>3. least \in W \cup {Nxt} /\ \A b \in W \cup {Nxt} : least <= b
      <4> HIDE DEF W
      <4> QED
        BY <3>2, LeastIs
    <3>4. least \in BinSet \cup {MaxBin} /\ least \in Nat
      BY <1>3, <1>4, <3>3, BinsNat
    <3> HIDE DEF least, W
    <3>5. shared_indexes'[iter] = shared_indexes[iter] /\ shared_indexes'[1 - iter] = least
      BY <1>3, <3>1
    <3>6. Cur' = Cur /\ Nxt' = least
      BY <1>1, <3>5 DEF Cur, Nxt
    <3>7. shared_indexes' \in [{0, 1} -> BinSet \cup {MaxBin}]
      BY <1>3, <3>1, <3>4
    <3>8. \A b \in W : b >= least
      BY <3>2, <3>3, <3>4
    <3> QED
      BY <3>3, <3>4, <3>6, <3>7, <3>8
  <2> QED
    BY <2>1, <2>2
<1> HIDE DEF W
<1>6. Copied' = 0 /\ iter' = iter
  BY <1>0, <1>1 DEF Copied
<1>7. \A s \in Threads : Voted(s)' <=> Voted(s) \/ s = t
  BY <1>2 DEF Voted
<1>8. RegionType'
  BY <1>1, <1>2, <1>5 DEF RegionType
<1>9. Barriers'
  BY <1>0, <1>1, <1>2, <1>5, <1>6 DEF Barriers
<1>10. BinsAhead'
  <2> SUFFICES ASSUME NEW s \in Threads, NEW b \in BinSet, local_bins[s][b] # <<>>
               PROVE  /\ b >= Cur
                      /\ Voted(s)' => b >= Nxt'
                      /\ pc'[s] # "copied"
    BY <1>0, <1>1, <1>5 DEF BinsAhead, Heads
  <2>1. b >= Cur /\ (Voted(s) => b >= Nxt)
    BY <1>0 DEF BinsAhead
  <2>2. pc'[s] # "copied"
    BY <1>0, <1>2 DEF Barriers
  <2>3. s = t => b \in W
    BY <1>4
  <2>4. b \in Nat /\ Nxt \in Nat /\ Nxt' \in Nat /\ Nxt' <= Nxt
    BY <1>3, <1>5, BinsNat
  <2>5. Voted(s) => b >= Nxt'
    BY <2>1, <2>4
  <2> QED
    BY <1>5, <1>7, <2>1, <2>2, <2>3, <2>5
<1>11. EntriesDistinct'
  BY <1>1, <1>6 DEF EntriesDistinct
<1>12. Offers'
  <2>1. ASSUME NEW s \in Threads, s # t PROVE Offer(s)'
    <3>1. pc'[s] = pc[s] /\ job'[s] = job[s] /\ Offer(s)
      BY <1>2, <2>1 DEF Offers
    <3> QED
      BY <1>1, <1>5, <3>1, SameLengths DEF Offer, Relaxing, OnEdge, Offered, SSSP!OutOf
  <2>2. Offer(t)'
    BY <1>2 DEF Offer, Relaxing, OnEdge, Offered
  <2> QED
    BY <2>1, <2>2 DEF Offers
<1>13. Sound' /\ Settled'
  BY <1>1, <1>5, SameLengths DEF Sound, Settled
<1>14. AllSeenTo'
  <2> SUFFICES ASSUME NEW e \in DOMAIN edges, ~Relaxed(e) PROVE Waits(e)'
    BY <1>1 DEF AllSeenTo, Relaxed
  <2>1. CASE Binned(e[1])
    BY <1>1, <2>1 DEF Waits, Binned
  <2>2. ~InFrontier(e[1]) /\ ~InNextFrontier(e[1])
    BY <1>0 DEF InFrontier, InNextFrontier
  <2>3. ASSUME NEW s \in Threads, InHand(s, e) PROVE Waits(e)'
    <3>1. InHand(s, e)'
      BY <1>0, <1>1, <1>2, <2>3 DEF InHand, Relaxing, Offered
    <3> QED
      BY <3>1 DEF Waits
  <2> QED
    BY <2>1, <2>2, <2>3 DEF AllSeenTo, Waits
<1> QED
  BY <1>8, <1>9, <1>10, <1>11, <1>12, <1>13, <1>14

(* Whoever is first past the barrier resets the counters of this iteration,*)
(* which nobody reads any more.                                            *)
LEMMA SSingleStep ==
    ASSUME SourceOK, Region, NEW t \in Threads, SSSP!Single(t)
    PROVE  Region'
<1> USE DEF Region
<1>0. pc[t] = "voted" /\ todo = {} /\ \A s \in Threads : Voted(s)
  BY DEF SSSP!Single, Voted, Barriers
<1>1. /\ UNCHANGED <<directed, edges, source, phase, iter, todo, property>>
      /\ UNCHANGED <<frontier, local_bins>> /\ reset' = TRUE
      /\ SSSP!Goto(t, "copy", SSSP!NoJob)
  BY DEF SSSP!Single, SSSP!Settings, SSSP!input
<1>2. /\ pc'[t] = "copy" /\ job'[t] = SSSP!NoJob
      /\ \A s \in Threads : s # t => pc'[s] = pc[s] /\ job'[s] = job[s]
      /\ pc' \in [Threads -> SLabels] /\ job' \in [Threads -> SJob]
  BY <1>1, SNoJob, SMoved DEF SLabels
<1>3. /\ iter \in {0, 1} /\ 1 - iter \in {0, 1} /\ 1 - iter # iter
      /\ shared_indexes \in [{0, 1} -> BinSet \cup {MaxBin}]
      /\ frontier_tails \in [{0, 1} -> Nat]
      /\ \A i \in {0, 1} : frontier_tails[i] <= Len(frontier)
      /\ Len(frontier) \in Nat
  BY LenProperties DEF RegionType
<1>4. /\ shared_indexes' \in [{0, 1} -> BinSet \cup {MaxBin}]
      /\ frontier_tails' \in [{0, 1} -> Nat]
      /\ shared_indexes'[iter] = MaxBin /\ frontier_tails'[iter] = 0
      /\ shared_indexes'[1 - iter] = shared_indexes[1 - iter]
      /\ frontier_tails'[1 - iter] = frontier_tails[1 - iter]
  <2>1. CASE reset
    <3>1. shared_indexes' = shared_indexes /\ frontier_tails' = frontier_tails
      BY <2>1 DEF SSSP!Single
    <3>2. shared_indexes[iter] = MaxBin /\ frontier_tails[iter] = 0
      BY <2>1 DEF Barriers, Cur
    <3> QED
      BY <1>3, <3>1, <3>2
  <2>2. CASE ~reset
    <3>1. /\ shared_indexes' = [shared_indexes EXCEPT ![iter] = MaxBin]
          /\ frontier_tails' = [frontier_tails EXCEPT ![iter] = 0]
      BY <2>2 DEF SSSP!Single, SSSP!this
    <3> QED
      BY <1>3, <3>1
  <2> QED
    BY <2>1, <2>2
<1>5. Cur' = MaxBin /\ Nxt' = Nxt /\ Copied' = Copied
  BY <1>1, <1>4 DEF Cur, Nxt, Copied
<1>6. \A s \in Threads : Voted(s)' /\ Voted(s)
  BY <1>0, <1>2 DEF Voted
<1>7. RegionType'
  <2>1. \A i \in {0, 1} : frontier_tails'[i] <= Len(frontier')
    <3>1. \A i \in {0, 1} : i = iter \/ i = 1 - iter
      BY <1>3
    <3> QED
      BY <1>1, <1>3, <1>4, <3>1
  <2> QED
    BY <1>0, <1>1, <1>2, <1>4, <2>1 DEF RegionType
<1>8. Barriers'
  BY <1>0, <1>1, <1>4, <1>5, <1>6 DEF Barriers
<1>9. BinsAhead'
  <2>1. \A s \in Threads : pc'[s] = "copied" => pc[s] = "copied"
    BY <1>2
  <2> QED
    BY <1>1, <1>5, <1>6, <2>1 DEF BinsAhead, Heads
<1>10. EntriesDistinct'
  BY <1>1, <1>5 DEF EntriesDistinct, Heads
<1>11. Offers'
  BY <1>6 DEF Offers, Offer, Voted, Relaxing, OnEdge, Offered
<1>12. Sound' /\ Settled'
  BY <1>1, <1>5, BinsNat, SameLengths DEF Sound, Settled
<1>13. AllSeenTo'
  <2> SUFFICES ASSUME NEW e \in DOMAIN edges, ~Relaxed(e) PROVE Waits(e)'
    BY <1>1 DEF AllSeenTo, Relaxed
  <2>1. CASE Binned(e[1])
    BY <1>1, <2>1 DEF Waits, Binned
  <2>2. CASE InNextFrontier(e[1])
    BY <1>1, <1>5, <2>2 DEF Waits, InNextFrontier
  <2>3. ~InFrontier(e[1]) /\ \A s \in Threads : ~InHand(s, e)
    BY <1>0 DEF InFrontier, InHand, Voted, Relaxing
  <2> QED
    BY <2>1, <2>2, <2>3 DEF AllSeenTo, Waits
<1> QED
  BY <1>7, <1>8, <1>9, <1>10, <1>11, <1>12, <1>13

(* What a thread held of the next bin becomes a part of the next frontier. *)
LEMMA SCopyStep ==
    ASSUME SourceOK, Region, NEW t \in Threads, SSSP!Copy(t), SSSP!FrontierFits
    PROVE  Region' /\ SSSP!FrontierFits'
<1> USE DEF Region
<1>0. /\ pc[t] = "copy" /\ todo = {} /\ reset /\ \A s \in Threads : Voted(s)
      /\ Cur = MaxBin /\ frontier_tails[iter] = 0
  BY DEF SSSP!Copy, Voted, Barriers
<1>1. /\ UNCHANGED <<directed, edges, source, phase, iter, todo, property>>
      /\ UNCHANGED <<shared_indexes, reset>>
      /\ SSSP!Goto(t, "copied", SSSP!NoJob)
  BY DEF SSSP!Copy, SSSP!Settings, SSSP!input
<1>2. /\ pc'[t] = "copied" /\ job'[t] = SSSP!NoJob
      /\ \A s \in Threads : s # t => pc'[s] = pc[s] /\ job'[s] = job[s]
      /\ pc' \in [Threads -> SLabels] /\ job' \in [Threads -> SJob]
  BY <1>1, SNoJob, SMoved DEF SLabels
<1>3. /\ iter \in {0, 1} /\ 1 - iter \in {0, 1} /\ 1 - iter # iter
      /\ frontier \in Seq(NodeID) /\ Copied \in Nat /\ Copied <= Len(frontier)
      /\ Len(frontier) \in Nat
      /\ frontier_tails \in [{0, 1} -> Nat]
      /\ local_bins \in [Threads -> [BinSet -> Seq(NodeID)]]
  BY LenProperties DEF RegionType, Copied
<1>4. Cur' = Cur /\ Nxt' = Nxt
  BY <1>1 DEF Cur, Nxt
<1>5. \A s \in Threads : Voted(s)' /\ Voted(s)
  BY <1>0, <1>2 DEF Voted
<1>6. CASE Nxt \notin BinSet
  <2>1. UNCHANGED <<frontier_tails, frontier, local_bins>>
    BY <1>6, BinsNat DEF SSSP!Copy, Nxt, SSSP!other
  <2>2. Copied' = Copied
    BY <1>1, <2>1 DEF Copied
  <2>3. RegionType'
    BY <1>1, <1>2, <2>1 DEF RegionType
  <2>4. Barriers'
    BY <1>0, <1>1, <1>4, <1>5, <2>1, <2>2 DEF Barriers
  <2>5. BinsAhead'
    BY <1>1, <1>2, <1>4, <1>5, <1>6, <2>1 DEF BinsAhead, Heads
  <2>6. EntriesDistinct'
    BY <1>1, <1>4, <2>1, <2>2 DEF EntriesDistinct, Heads
  <2>7. Offers'
    BY <1>5 DEF Offers, Offer, Voted, Relaxing, OnEdge, Offered
  <2>8. Sound' /\ Settled'
    BY <1>1, <1>4, SameLengths DEF Sound, Settled
  <2>9. AllSeenTo'
    <3> SUFFICES ASSUME NEW e \in DOMAIN edges, ~Relaxed(e) PROVE Waits(e)'
      BY <1>1 DEF AllSeenTo, Relaxed
    <3>1. CASE Binned(e[1])
      BY <1>1, <2>1, <3>1 DEF Waits, Binned
    <3>2. CASE InNextFrontier(e[1])
      BY <1>1, <1>4, <2>1, <2>2, <3>2 DEF Waits, InNextFrontier
    <3>3. ~InFrontier(e[1]) /\ \A s \in Threads : ~InHand(s, e)
      BY <1>0 DEF InFrontier, InHand, Voted, Relaxing
    <3> QED
      BY <3>1, <3>2, <3>3 DEF AllSeenTo, Waits
  <2>10. SSSP!FrontierFits'
    <3>1. SSSP!num_edges_directed' = SSSP!num_edges_directed
      BY <1>1 DEF SSSP!num_edges_directed, SSSP!num_edges
    <3> QED
      BY <2>1, <3>1 DEF SSSP!FrontierFits
  <2> QED
    BY <2>3, <2>4, <2>5, <2>6, <2>7, <2>8, <2>9, <2>10
<1>7. CASE Nxt \in BinSet
  <2>1. PICK p : p = local_bins[t][Nxt]
    OBVIOUS
  <2>2. PICK k, f : k = Copied /\ f = frontier
    OBVIOUS
  <2>3. /\ p \in Seq(NodeID) /\ Len(p) \in Nat /\ DOMAIN p = 1 .. Len(p)
        /\ f \in Seq(NodeID) /\ k \in Nat /\ k \in 0 .. Len(f)
    BY <1>3, <1>7, <2>1, <2>2, LenProperties
  <2>4. /\ frontier_tails' = [frontier_tails EXCEPT ![1 - iter] = k + Len(p)]
        /\ frontier' = SubSeq(f, 1, k) \o p \o SubSeq(f, k + Len(p) + 1, Len(f))
        /\ local_bins' = [local_bins EXCEPT ![t][Nxt] = <<>>]
    BY <1>7, <2>1, <2>2, BinsNat DEF SSSP!Copy, Nxt, Copied, SSSP!other
  <2>5. /\ frontier' \in Seq(NodeID)
        /\ Len(f) <= Len(frontier') /\ k + Len(p) <= Len(frontier')
        /\ Len(frontier') = Len(f) \/ Len(frontier') = k + Len(p)
        /\ \A i \in 1 .. k : frontier'[i] = f[i]
        /\ \A i \in 1 .. Len(p) : frontier'[k + i] = p[i]
    <3>1. k \in Nat /\ f \in Seq(NodeID) /\ p \in Seq(NodeID)
      BY <2>3
    <3>2. k <= Len(f)
      BY <1>3, <2>2
    <3>3. SplicedAs(Splice(f, p, k), NodeID, f, p, k)
      BY Zenon, <3>1, <3>2, Spliced
    <3>4. frontier' = Splice(f, p, k)
      BY Zenon, <2>4 DEF Splice
    <3> QED
      BY Zenon, <3>3, <3>4 DEF SplicedAs
  <2>6. /\ Copied' = k + Len(p) /\ frontier_tails'[iter] = 0
        /\ frontier_tails' \in [{0, 1} -> Nat]
    BY <1>0, <1>1, <1>3, <2>3, <2>4 DEF Copied
  <2>7. /\ local_bins' \in [Threads -> [BinSet -> Seq(NodeID)]]
        /\ local_bins'[t][Nxt] = <<>>
        /\ \A s \in Threads : \A b \in BinSet :
              s # t \/ b # Nxt => local_bins'[s][b] = local_bins[s][b]
    <3>1. <<>> \in Seq(NodeID)
      OBVIOUS
    <3> QED
      BY <1>3, <1>7, <2>4, <3>1
  <2> DEFINE lb == local_bins
  <2>8. \A s \in Threads : \A b \in BinSet : \A i \in DOMAIN lb'[s][b] :
            /\ i \in DOMAIN lb[s][b] /\ lb'[s][b][i] = lb[s][b][i]
            /\ s # t \/ b # Nxt
    <3> SUFFICES ASSUME NEW s \in Threads, NEW b \in BinSet, NEW i \in DOMAIN lb'[s][b]
                 PROVE  /\ i \in DOMAIN lb[s][b] /\ lb'[s][b][i] = lb[s][b][i]
                        /\ s # t \/ b # Nxt
      OBVIOUS
    <3>1. s # t \/ b # Nxt
      BY <2>7
    <3> QED
      BY <2>7, <3>1
  <2>9. \A i \in 1 .. k + Len(p) :
            \/ i \in 1 .. k /\ frontier'[i] = f[i]
            \/ i \notin 1 .. k /\ i - k \in DOMAIN p /\ frontier'[i] = p[i - k]
    <3>1. PICK lp \in Nat : lp = Len(p)
      BY <2>3
    <3> SUFFICES ASSUME NEW i \in 1 .. k + lp, i \notin 1 .. k
                 PROVE  i - k \in DOMAIN p /\ frontier'[i] = p[i - k]
      BY <2>5, <3>1
    <3>2. i - k \in 1 .. lp /\ k + (i - k) = i
      BY <2>3
    <3> QED
      BY <2>3, <2>5, <3>1, <3>2
  <2>10. RegionType'
    <3>1. \A i \in {0, 1} : i = iter \/ i = 1 - iter
      BY <1>3
    <3>2. frontier_tails'[1 - iter] = k + Len(p)
      BY <1>1, <2>6 DEF Copied
    <3>3. \A i \in {0, 1} : frontier_tails'[i] <= Len(frontier')
      BY <2>3, <2>5, <2>6, <3>1, <3>2, LenProperties
    <3> QED
      BY <1>0, <1>1, <1>2, <2>5, <2>6, <2>7, <3>3 DEF RegionType
  <2>11. Barriers'
    BY <1>0, <1>1, <1>4, <1>5, <1>7, <2>6 DEF Barriers
  <2>12. BinsAhead'
    <3> SUFFICES ASSUME NEW s \in Threads, NEW b \in BinSet
                 PROVE  /\ \A i \in DOMAIN lb'[s][b] :
                              lb'[s][b][i] \in Heads /\ property[lb'[s][b][i]] <= b
                        /\ lb'[s][b] # <<>> =>
                              b >= Nxt /\ (pc'[s] = "copied" => b # Nxt)
      BY <1>0, <1>1, <1>4 DEF BinsAhead, Heads
    <3>1. ASSUME NEW i \in DOMAIN lb'[s][b]
          PROVE  lb'[s][b][i] \in Heads /\ property[lb'[s][b][i]] <= b
      BY <2>8, <3>1 DEF BinsAhead
    <3>2. ASSUME lb'[s][b] # <<>> PROVE b >= Nxt /\ (pc'[s] = "copied" => b # Nxt)
      <4>1. s # t \/ b # Nxt
        BY <2>7, <3>2
      <4>2. lb[s][b] # <<>>
        BY <2>7, <3>2, <4>1
      <4> QED
        BY <1>2, <1>5, <4>1, <4>2 DEF BinsAhead
    <3> QED
      BY <3>1, <3>2
  <2>13. EntriesDistinct'
    <3>1. ASSUME NEW s1 \in Threads, NEW s2 \in Threads, NEW b \in BinSet,
                 NEW i \in DOMAIN lb'[s1][b], NEW j \in DOMAIN lb'[s2][b],
                 lb'[s1][b][i] = lb'[s2][b][j]
          PROVE  s1 = s2 /\ i = j
      BY <2>8, <3>1 DEF EntriesDistinct
    <3>2. ASSUME NEW i \in 1 .. k + Len(p), NEW j \in 1 .. k + Len(p),
                 frontier'[i] = frontier'[j]
          PROVE  i = j
      <4>1. CASE i \in 1 .. k /\ j \in 1 .. k
        BY <2>2, <2>9, <3>2, <4>1 DEF EntriesDistinct
      <4>2. CASE i \notin 1 .. k /\ j \notin 1 .. k
        <5>1. i - k = j - k
          BY <1>7, <2>1, <2>9, <3>2, <4>2 DEF EntriesDistinct
        <5> QED
          BY <2>3, <5>1
      <4>3. CASE i \in 1 .. k /\ j \notin 1 .. k
        BY <1>7, <2>1, <2>2, <2>9, <3>2, <4>3 DEF EntriesDistinct
      <4>4. CASE i \notin 1 .. k /\ j \in 1 .. k
        BY <1>7, <2>1, <2>2, <2>9, <3>2, <4>4 DEF EntriesDistinct
      <4> QED
        BY <4>1, <4>2, <4>3, <4>4
    <3>3. ASSUME NEW i \in 1 .. k + Len(p), NEW s \in Threads, NEW j \in DOMAIN lb'[s][Nxt]
          PROVE  frontier'[i] # lb'[s][Nxt][j]
      <4>1. s # t /\ j \in DOMAIN lb[s][Nxt] /\ lb'[s][Nxt][j] = lb[s][Nxt][j]
        BY <1>7, <2>8
      <4>2. CASE i \in 1 .. k
        BY <2>2, <2>9, <4>1, <4>2 DEF EntriesDistinct
      <4>3. CASE i \notin 1 .. k
        BY <1>7, <2>1, <2>9, <4>1, <4>3 DEF EntriesDistinct
      <4> QED
        BY <4>2, <4>3
    <3>4. ASSUME NEW i \in 1 .. k + Len(p) PROVE frontier'[i] \in Heads
      <4>1. CASE i \in 1 .. k
        BY <2>2, <2>9, <4>1 DEF EntriesDistinct
      <4>2. CASE i \notin 1 .. k
        BY <1>7, <2>1, <2>9, <4>2 DEF BinsAhead
      <4> QED
        BY <4>1, <4>2
    <3>5. Heads' = Heads
      BY <1>1 DEF Heads
    <3> QED
      BY <1>4, <2>6, <3>1, <3>2, <3>3, <3>4, <3>5 DEF EntriesDistinct
  <2>14. Offers'
    BY <1>5 DEF Offers, Offer, Voted, Relaxing, OnEdge, Offered
  <2>15. Sound' /\ Settled'
    BY <1>1, <1>4, SameLengths DEF Sound, Settled
  <2>16. AllSeenTo'
    <3> SUFFICES ASSUME NEW e \in DOMAIN edges, ~Relaxed(e) PROVE Waits(e)'
      BY <1>1 DEF AllSeenTo, Relaxed
    <3> DEFINE u == e[1]
    <3>0. property[u] \in BinSet
      <4>1. u \in NodeID
        BY Graph DEF SourceOK
      <4> QED
        BY <4>1 DEF RegionType, BinSet
    <3>1. ASSUME NEW s \in Threads, NEW i \in DOMAIN lb[s][property[u]], lb[s][property[u]][i] = u
          PROVE  Waits(e)'
      <4>1. CASE s = t /\ property[u] = Nxt
        <5>1. i \in 1 .. Len(p) /\ p[i] = u
          BY <2>1, <2>3, <3>1, <4>1
        <5>2. k + i \in 1 .. k + Len(p)
          BY <2>3, <5>1
        <5>3. frontier'[k + i] = u
          BY <2>5, <5>1
        <5>4. InNextFrontier(u)'
          BY <1>1, <1>4, <2>6, <4>1, <5>2, <5>3 DEF InNextFrontier
        <5> QED
          BY <5>4 DEF Waits
      <4>2. CASE s # t \/ property[u] # Nxt
        <5>1. lb'[s][property[u]] = lb[s][property[u]]
          BY <2>7, <3>0, <4>2
        <5> QED
          BY <1>1, <3>1, <5>1 DEF Waits, Binned
      <4> QED
        BY <4>1, <4>2
    <3>2. CASE InNextFrontier(u)
      <4>1. PICK i \in 1 .. k : frontier[i] = u /\ property[u] = Nxt
        BY <2>2, <3>2 DEF InNextFrontier
      <4>2. i \in 1 .. k + Len(p) /\ frontier'[i] = u
        BY <2>2, <2>3, <2>5, <4>1
      <4>3. InNextFrontier(u)'
        BY <1>1, <1>4, <2>6, <4>1, <4>2 DEF InNextFrontier
      <4> QED
        BY <4>3 DEF Waits
    <3>3. ~InFrontier(u) /\ \A s \in Threads : ~InHand(s, e)
      BY <1>0 DEF InFrontier, InHand, Voted, Relaxing
    <3> QED
      BY <3>1, <3>2, <3>3 DEF AllSeenTo, Waits, Binned
  <2>17. SSSP!FrontierFits'
    <3>0. Input
      BY DEF SourceOK
    <3>1. /\ SSSP!num_edges_directed' = SSSP!num_edges_directed
          /\ Heads' = Heads
      BY <1>1 DEF SSSP!num_edges_directed, SSSP!num_edges, Heads
    <3>2. PICK kk : kk = k + Len(p)
      OBVIOUS
    <3>3. kk \in Nat /\ Copied' = kk
      BY <2>3, <2>6, <3>2
    <3>4. /\ \A i \in 1 .. kk : frontier'[i] \in Heads
          /\ \A i, j \in 1 .. kk : frontier'[i] = frontier'[j] => i = j
      BY <2>13, <3>1, <3>3 DEF EntriesDistinct
    <3>5. PICK ff : ff = frontier'
      OBVIOUS
    <3>6. IsFiniteSet(Heads)
      BY <3>0, EdgesFinite, FS_Surjection
    <3>7. kk <= Cardinality(Heads)
      BY <3>3, <3>4, <3>5, <3>6, DistinctFew
    <3>8. kk <= SSSP!num_edges_directed
      BY <3>0, <3>3, <3>6, <3>7, Room, FS_CardinalityType
    <3> QED
      BY <2>2, <2>5, <3>1, <3>2, <3>8 DEF SSSP!FrontierFits
  <2> QED
    BY <2>10, <2>11, <2>12, <2>13, <2>14, <2>15, <2>16, <2>17
<1> QED
  BY <1>6, <1>7

(* The next bin's turn: the edges out of all vertices that are nearer have *)
(* been relaxed, so that their distances are final.                        *)
LEMMA SNextIterationStep ==
    ASSUME SourceOK, Region, SSSP!NextIteration
    PROVE  Region' \/ RegionEnded'
<1> USE DEF Region
<1>0. /\ todo = {} /\ reset /\ \A s \in Threads : Voted(s) /\ pc[s] = "copied"
      /\ Cur = MaxBin /\ frontier_tails[iter] = 0
  <2>1. PICK t \in Threads : TRUE
    BY NumNodesAssumption
  <2> QED
    BY <2>1 DEF SSSP!NextIteration, Voted, Barriers
<1>1. /\ UNCHANGED <<directed, edges, source, phase, property, job>>
      /\ UNCHANGED <<shared_indexes, frontier_tails, frontier, local_bins>>
      /\ iter' = 1 - iter /\ reset' = FALSE
  BY DEF SSSP!NextIteration, SSSP!input, SSSP!other
<1>2. /\ iter \in {0, 1} /\ 1 - iter \in {0, 1} /\ 1 - (1 - iter) = iter
      /\ Nxt \in BinSet \cup {MaxBin}
      /\ property \in [NodeID -> 0 .. DistInf] /\ source \in NodeID
  BY DEF RegionType, Nxt
<1>3. Cur' = Nxt /\ Nxt' = MaxBin /\ Copied' = 0
  BY <1>0, <1>1, <1>2 DEF Cur, Nxt, Copied
<1>4. Input /\ property[source] = 0
  BY DEF SourceOK, Sound
<1>5. ASSUME NEW e \in DOMAIN edges
      PROVE  /\ e[1] \in NodeID /\ e[2] \in NodeID /\ property[e[1]] \in BinSet
             /\ Relaxed(e) \/ Binned(e[1]) \/ InNextFrontier(e[1])
  <2>1. e[1] \in NodeID /\ e[2] \in NodeID
    BY <1>4, Graph
  <2>2. ~InFrontier(e[1]) /\ \A s \in Threads : ~InHand(s, e)
    BY <1>0 DEF InFrontier, InHand, Relaxing
  <2> QED
    BY <1>2, <2>1, <2>2 DEF AllSeenTo, Waits, BinSet
<1>6. \A e \in DOMAIN edges : property[e[1]] < Nxt => Relaxed(e)
  <2> SUFFICES ASSUME NEW e \in DOMAIN edges, property[e[1]] < Nxt, ~Relaxed(e) PROVE FALSE
    OBVIOUS
  <2>1. property[e[1]] \in Nat /\ Nxt \in Nat
    BY <1>2, <1>5, BinsNat
  <2>2. CASE Binned(e[1])
    <3>1. \E s \in Threads : local_bins[s][property[e[1]]] # <<>>
      <4>1. PICK s \in Threads : \E i \in DOMAIN local_bins[s][property[e[1]]] : TRUE
        BY <2>2 DEF Binned
      <4> QED
        BY <4>1
    <3>2. property[e[1]] >= Nxt
      BY <1>0, <1>5, <3>1 DEF BinsAhead
    <3> QED
      BY <2>1, <3>2
  <2>3. CASE InNextFrontier(e[1])
    BY <2>1, <2>3 DEF InNextFrontier
  <2> QED
    BY <1>5, <2>2, <2>3
<1>7. ASSUME NEW n \in NodeID
      PROVE  /\ Shortest(n) \in 0 .. DistInf /\ property[n] \in 0 .. DistInf
             /\ property[n] >= Shortest(n)
  BY <1>2, <1>4, ShortestAttained DEF Sound
<1>8. CASE Nxt \in BinSet
  <2>1. /\ todo' = 1 .. Copied
        /\ pc' = [t \in Threads |-> "take"]
    BY <1>8, BinsNat DEF SSSP!NextIteration, SSSP!other, Nxt, Copied
  <2>2. RegionType'
    BY <1>1, <1>2, <2>1 DEF RegionType, SLabels, Copied
  <2>3. \A s \in Threads : ~Voted(s)' /\ pc'[s] = "take"
    BY <2>1 DEF Voted
  <2>4. Barriers'
    BY <1>1, <1>3, <1>8, <2>3 DEF Barriers
  <2>5. BinsAhead'
    BY <1>0, <1>1, <1>3, <2>3 DEF BinsAhead, Heads
  <2>6. EntriesDistinct'
    BY <1>1, <1>3 DEF EntriesDistinct
  <2>7. Offers'
    BY <2>3 DEF Offers, Offer, Relaxing, OnEdge, Offered
  <2>8. Sound'
    BY <1>1, SameLengths DEF Sound
  <2>9. AllSeenTo'
    <3> SUFFICES ASSUME NEW e \in DOMAIN edges, ~Relaxed(e) PROVE Waits(e)'
      BY <1>1 DEF AllSeenTo, Relaxed
    <3>1. CASE Binned(e[1])
      BY <1>1, <3>1 DEF Waits, Binned
    <3>2. CASE InNextFrontier(e[1])
      <4>1. property[e[1]] = Nxt /\ \E i \in todo' : frontier[i] = e[1]
        BY <2>1, <3>2 DEF InNextFrontier
      <4>2. property[e[1]] >= Nxt
        <5>1. Nxt \in Nat
          BY <1>2, BinsNat
        <5> QED
          BY <4>1, <5>1
      <4>3. InFrontier(e[1])'
        BY <1>1, <1>3, <4>1, <4>2 DEF InFrontier
      <4> QED
        BY <4>3 DEF Waits
    <3> QED
      BY <1>5, <3>1, <3>2
  <2>10. Settled'
    <3>1. Nxt \in 0 .. DistInf
      BY <1>8 DEF BinSet
    <3>2. \A n \in NodeID : Shortest(n) < Nxt => property[n] <= Shortest(n)
      BY <1>2, <1>4, <1>6, <3>1, ShortestBelow
    <3>3. ASSUME NEW n \in NodeID, Shortest(n) < Nxt PROVE property[n] = Shortest(n)
      BY <1>7, <3>2, <3>3, BinsNat
    <3> QED
      BY <1>1, <1>3, <3>3, SameLengths DEF Settled
  <2> QED
    BY <2>2, <2>4, <2>5, <2>6, <2>7, <2>8, <2>9, <2>10
<1>9. CASE Nxt = MaxBin
  <2>1. pc' = [t \in Threads |-> "end"]
    BY <1>9 DEF SSSP!NextIteration, SSSP!other, Nxt
  <2>2. \A e \in DOMAIN edges : property[e[1]] < DistInf => Relaxed(e)
    <3>1. \A e \in DOMAIN edges : property[e[1]] < MaxBin
      <4> SUFFICES ASSUME NEW e \in DOMAIN edges PROVE property[e[1]] < MaxBin
        OBVIOUS
      <4>1. property[e[1]] \in 0 .. DistInf
        BY <1>5 DEF BinSet
      <4> QED
        BY <4>1, BinsNat
    <3> QED
      BY <1>6, <1>9, <3>1
  <2>3. DistInf \in 0 .. DistInf
    BY BinsNat
  <2>4. \A n \in NodeID : Shortest(n) < DistInf => property[n] <= Shortest(n)
    BY <1>2, <1>4, <2>2, <2>3, ShortestBelow
  <2>5. ASSUME NEW n \in NodeID PROVE property[n] = Shortest(n)
    BY <1>7, <2>4, BinsNat
  <2>6. SSSP!Lengths[NumNodes] \in [NodeID -> Nat]
    BY <1>2, <1>4, LengthsGrow, NumNodesAssumption
  <2>7. property = SSSP!Lengths[NumNodes]
    BY <1>2, <2>5, <2>6 DEF Shortest
  <2>8. SSSP!Lengths' = SSSP!Lengths
    BY <1>1, SameLengths
  <2> QED
    BY <1>1, <1>2, <1>3, <1>9, <2>1, <2>7, <2>8 DEF RegionEnded
<1> QED
  BY <1>2, <1>8, <1>9

LEMMA SStartStep ==
    ASSUME SourceOK, SSSP!Start
    PROVE  Region' /\ SSSP!FrontierFits'
<1>0. /\ UNCHANGED <<directed, edges, source>> /\ Input /\ source \in NodeID
      /\ \E e \in DOMAIN edges : e[1] = source
  BY DEF SSSP!Start, SSSP!input, SourceOK, SSSP!NodeID, NodeID
<1>1. /\ property' = [n \in NodeID |-> IF n = source THEN 0 ELSE DistInf]
      /\ frontier' = <<source>> /\ todo' = {1} /\ iter' = 0 /\ reset' = FALSE
      /\ pc' = [t \in Threads |-> "take"] /\ job' = [t \in Threads |-> SSSP!NoJob]
      /\ local_bins' = [t \in Threads |-> SSSP!NoBins]
      /\ shared_indexes' = [i \in {0, 1} |-> IF i = 0 THEN 0 ELSE MaxBin]
      /\ frontier_tails' = [i \in {0, 1} |-> IF i = 0 THEN 1 ELSE 0]
  BY DEF SSSP!Start, SSSP!NodeID, NodeID
<1>2. /\ Cur' = 0 /\ Nxt' = MaxBin /\ Copied' = 0
      /\ shared_indexes' \in [{0, 1} -> BinSet \cup {MaxBin}]
      /\ frontier_tails' \in [{0, 1} -> Nat]
      /\ frontier_tails'[0] = 1 /\ frontier_tails'[1] = 0
  BY <1>1, BinsNat DEF Cur, Nxt, Copied, BinSet
<1>3. \A t \in Threads : /\ pc'[t] = "take" /\ job'[t] \in SJob
                         /\ \A b \in BinSet : local_bins'[t][b] = <<>>
  BY <1>1, SNoJob, BinsNat DEF SSSP!NoBins
<1>4. \A t \in Threads : ~Voted(t)' /\ ~Relaxing(t)' /\ ~OnEdge(t)' /\ ~Offered(t)'
  BY <1>3 DEF Voted, Relaxing, OnEdge, Offered
<1>5. frontier' \in Seq(NodeID) /\ Len(frontier') = 1 /\ frontier'[1] = source
  BY <1>0, <1>1
<1>6. /\ property' \in [NodeID -> 0 .. DistInf] /\ property'[source] = 0
      /\ \A n \in NodeID : n # source => property'[n] = DistInf
  BY <1>0, <1>1, BinsNat
<1>7. RegionType'
  <2>1. local_bins' \in [Threads -> [BinSet -> Seq(NodeID)]]
    <3>1. <<>> \in Seq(NodeID)
      OBVIOUS
    <3>2. SSSP!NoBins \in [BinSet -> Seq(NodeID)]
      BY <3>1, BinsNat DEF SSSP!NoBins
    <3> QED
      BY <1>1, <3>2
  <2>2. todo' \subseteq 1 .. frontier_tails'[iter']
    BY <1>1, <1>2
  <2>3. \A i \in {0, 1} : frontier_tails'[i] <= Len(frontier')
    BY <1>2, <1>5
  <2>4. pc' \in [Threads -> SLabels] /\ job' \in [Threads -> SJob]
    BY <1>1, SNoJob DEF SLabels
  <2> QED
    BY <1>0, <1>1, <1>2, <1>5, <1>6, <2>1, <2>2, <2>3, <2>4 DEF RegionType
<1>8. Barriers'
  BY <1>1, <1>2, <1>3, <1>4, BinsNat DEF Barriers, BinSet
<1>9. BinsAhead' /\ EntriesDistinct'
  <2>1. DOMAIN <<>> = {}
    OBVIOUS
  <2> QED
    BY <1>2, <1>3, <2>1 DEF BinsAhead, EntriesDistinct
<1>10. Offers'
  BY <1>3, <1>4 DEF Offers, Offer
<1>11. Sound' /\ Settled'
  <2>1. \A n \in NodeID : Shortest(n)' = Shortest(n)
    BY <1>0, SameLengths
  <2>2. Shortest(source) = 0 /\ \A n \in NodeID : Shortest(n) \in 0 .. DistInf
    BY <1>0, ShortestAttained
  <2>3. \A n \in NodeID : property'[n] >= Shortest(n)
    BY <1>6, <2>2, BinsNat
  <2>4. \A n \in NodeID : ~(Shortest(n) < 0)
    BY <2>2, BinsNat
  <2> QED
    BY <1>0, <1>2, <1>6, <2>1, <2>3, <2>4 DEF Sound, Settled
<1>12. AllSeenTo'
  <2> SUFFICES ASSUME NEW e \in DOMAIN edges PROVE Relaxed(e)' \/ Waits(e)'
    BY <1>0 DEF AllSeenTo
  <2>1. e[1] \in NodeID /\ e[2] \in NodeID /\ edges[e] \in Nat /\ edges'[e] = edges[e]
    BY <1>0, Graph
  <2>2. CASE e[1] = source
    <3>1. property'[e[1]] >= Cur' /\ 1 \in todo' /\ frontier'[1] = e[1]
      BY <1>1, <1>2, <1>5, <1>6, <2>2
    <3>2. InFrontier(e[1])'
      BY <3>1 DEF InFrontier
    <3> QED
      BY <3>2 DEF Waits
  <2>3. CASE e[1] # source
    <3>1. property'[e[1]] = DistInf /\ property'[e[2]] \in 0 .. DistInf
      BY <1>6, <2>1, <2>3
    <3> QED
      BY <2>1, <3>1, BinsNat DEF Relaxed
  <2> QED
    BY <2>2, <2>3
<1>13. SSSP!FrontierFits'
  <2>1. SSSP!num_edges_directed' = SSSP!num_edges_directed
    BY <1>0 DEF SSSP!num_edges_directed, SSSP!num_edges
  <2>2. 1 <= SSSP!num_edges_directed
    BY <1>0, Room
  <2> QED
    BY <1>5, <2>1, <2>2 DEF SSSP!FrontierFits
<1> QED
  BY <1>7, <1>8, <1>9, <1>10, <1>11, <1>12, <1>13 DEF Region

(* The step that is none of the program's, in any phase.                   *)
LEMMA SStuttering ==
    ASSUME SsspInv, UNCHANGED vars
    PROVE  SsspInv'
<1>1. /\ UNCHANGED <<directed, edges, source, property, phase, todo, pc, job>>
      /\ UNCHANGED <<shared_indexes, frontier_tails, frontier, iter, reset, local_bins>>
  BY DEF vars, binVars
<1>2. /\ SSSP!Lengths' = SSSP!Lengths /\ \A n : Shortest(n)' = Shortest(n)
      /\ Cur' = Cur /\ Nxt' = Nxt /\ Copied' = Copied /\ Heads' = Heads
  BY <1>1, SameLengths DEF Cur, Nxt, Copied, Heads
<1>3. SourceOK'
  BY <1>1 DEF SsspInv, SourceOK, Input
<1>4. Region => Region'
  <2>1. RegionType => RegionType'
    BY <1>1 DEF RegionType
  <2>2. \A t \in Threads : /\ Voted(t)' <=> Voted(t)
                           /\ Relaxing(t)' <=> Relaxing(t)
                           /\ OnEdge(t)' <=> OnEdge(t)
                           /\ Offered(t)' <=> Offered(t)
    BY <1>1 DEF Voted, Relaxing, OnEdge, Offered
  <2>3. Barriers => Barriers'
    BY <1>1, <1>2, <2>2 DEF Barriers
  <2>4. BinsAhead => BinsAhead'
    BY <1>1, <1>2, <2>2 DEF BinsAhead
  <2>5. EntriesDistinct => EntriesDistinct'
    BY <1>1, <1>2 DEF EntriesDistinct
  <2>6. Offers => Offers'
    BY <1>1, <1>2, <2>2 DEF Offers, Offer, SSSP!OutOf
  <2>7. (Sound => Sound') /\ (Settled => Settled')
    BY <1>1, <1>2 DEF Sound, Settled
  <2>8. AllSeenTo => AllSeenTo'
    <3> SUFFICES ASSUME AllSeenTo, NEW e \in DOMAIN edges, ~Relaxed(e) PROVE Waits(e)'
      BY <1>1 DEF AllSeenTo, Relaxed
    <3>1. Waits(e)
      BY DEF AllSeenTo
    <3>2. /\ Binned(e[1]) => Binned(e[1])'
          /\ InFrontier(e[1]) => InFrontier(e[1])'
          /\ InNextFrontier(e[1]) => InNextFrontier(e[1])'
      BY <1>1, <1>2 DEF Binned, InFrontier, InNextFrontier
    <3>3. \A t \in Threads : InHand(t, e) => InHand(t, e)'
      BY <1>1, <2>2 DEF InHand
    <3> QED
      BY <3>1, <3>2, <3>3 DEF Waits
  <2> QED
    BY <2>1, <2>3, <2>4, <2>5, <2>6, <2>7, <2>8 DEF Region
<1>5. RegionEnded => RegionEnded'
  BY <1>1, <1>2 DEF RegionEnded
<1>6. SSSP!FrontierFits'
  <2>1. SSSP!num_edges_directed' = SSSP!num_edges_directed
    BY <1>1 DEF SSSP!num_edges_directed, SSSP!num_edges
  <2> QED
    BY <1>1, <2>1 DEF SsspInv, SSSP!FrontierFits
<1> QED
  BY <1>1, <1>2, <1>3, <1>4, <1>5, <1>6 DEF SsspInv

(* Only vertices with out-edges are picked.                                *)
LEMMA PickedSource ==
    ASSUME PickSource
    PROVE  /\ source' \in NodeID \cup {NoSource}
           /\ source' \in NodeID => \E e \in DOMAIN edges : e[1] = source'
           /\ phase' \in {"start", "done"} /\ (phase' = "done" => source' = NoSource)
<1>1. source' \in PickNext(NumNodes, out_degree)
  BY DEF PickSource
<1>2. phase' = IF source' = NoSource THEN "done" ELSE "start"
  BY DEF PickSource
<1>3. CASE source' = NoSource
  <2>1. NoSource \notin NodeID
    BY NumNodesAssumption DEF NoSource, NodeID
  <2> QED
    BY <1>2, <1>3, <2>1
<1>4. CASE source' # NoSource
  <2>1. source' \in NodeID /\ out_degree[source'] > 0
    BY <1>1, <1>4 DEF PickNext, NodeID
  <2>2. out_degree[source'] = Cardinality({e \in DOMAIN edges : e[1] = source'})
    BY <2>1 DEF out_degree
  <2>3. {e \in DOMAIN edges : e[1] = source'} # {}
    BY <2>1, <2>2, FS_EmptySet
  <2> QED
    BY <1>2, <1>4, <2>1, <2>3
<1> QED
  BY <1>3, <1>4

LEMMA SWorkerStep ==
    ASSUME SourceOK, Region, NEW t \in Threads, SSSP!Worker(t), SSSP!FrontierFits
    PROVE  Region' /\ SSSP!FrontierFits'
<1>1. CASE SSSP!Copy(t)
  BY <1>1, SCopyStep
<1>2. CASE ~SSSP!Copy(t)
  <2>1. Region'
    BY <1>2, STakeStep, SReadTargetStep, SReadOwnStep, SCompareAndSwapStep, SReloadStep,
       SNoEdgeLeftStep, SVoteStep, SSingleStep
    DEF SSSP!Worker
  <2>2. UNCHANGED <<edges, directed, frontier>>
    BY <1>2
    DEF SSSP!Worker, SSSP!Take, SSSP!ReadTarget, SSSP!ReadOwn, SSSP!CompareAndSwap,
        SSSP!Reload, SSSP!NoEdgeLeft, SSSP!Vote, SSSP!Single,
        SSSP!Settings, SSSP!Bookkeeping, SSSP!input
  <2>3. SSSP!num_edges_directed' = SSSP!num_edges_directed
    BY <2>2 DEF SSSP!num_edges_directed, SSSP!num_edges
  <2> QED
    BY <2>1, <2>2, <2>3 DEF SSSP!FrontierFits
<1> QED
  BY <1>1, <1>2

LEMMA SWorkerLabel ==
    ASSUME NEW t \in Threads, SSSP!Worker(t)
    PROVE  pc[t] \in SLabels /\ UNCHANGED <<directed, edges, source, phase>>
BY DEF SLabels, SSSP!Worker, SSSP!Take, SSSP!ReadTarget, SSSP!ReadOwn, SSSP!CompareAndSwap,
       SSSP!Reload, SSSP!NoEdgeLeft, SSSP!Vote, SSSP!Single, SSSP!Copy,
       SSSP!Settings, SSSP!input

LEMMA SsspInvariant == Spec => [](alg = "ssspfromscratch" => SsspInv)
<1> DEFINE I == alg = "ssspfromscratch" => SsspInv
<1>1. Init => I
  <2> SUFFICES ASSUME Init PROVE SsspInv
    OBVIOUS
  <2>1. Input /\ phase = "start" /\ source = NoSource /\ frontier = <<>>
    BY DEF Init, CC!Init, Input
  <2>4. \A t \in Threads : pc[t] \notin SLabels
    BY DEF Init, CC!Init, SLabels
  <2>2. NoSource \notin NodeID
    BY NumNodesAssumption DEF NoSource, NodeID
  <2>3. SSSP!FrontierFits
    <3>1. SSSP!num_edges_directed \in Nat
      BY <2>1, Room
    <3> QED
      BY <2>1, <3>1 DEF SSSP!FrontierFits
  <2> QED
    BY <2>1, <2>2, <2>3, <2>4 DEF SsspInv, SourceOK
<1>2. I /\ [Next]_vars => I'
  <2> SUFFICES ASSUME I, [Next]_vars, alg' = "ssspfromscratch" PROVE SsspInv'
    OBVIOUS
  <2>1. alg = "ssspfromscratch" /\ SsspInv /\ SourceOK /\ SSSP!FrontierFits
    BY DEF Next, PickSource, Main, Worker, Finished, vars, SsspInv
  <2>2. CASE PickSource
    <3>1. /\ UNCHANGED <<directed, edges, property, frontier, pc>> /\ Input
          /\ phase = "start"
      BY <2>1, <2>2 DEF PickSource, binVars, SourceOK
    <3>2. SourceOK' /\ phase' # "region" /\ (phase' = "done" => source' \notin NodeID)
      BY <2>2, <3>1, PickedSource, NumNodesAssumption DEF SourceOK, Input, NoSource, NodeID
    <3>3. SSSP!FrontierFits'
      <4>1. SSSP!num_edges_directed' = SSSP!num_edges_directed
        BY <3>1 DEF SSSP!num_edges_directed, SSSP!num_edges
      <4> QED
        BY <2>1, <3>1, <4>1 DEF SSSP!FrontierFits
    <3> QED
      BY <2>1, <3>1, <3>2, <3>3 DEF SsspInv
  <2>3. CASE SSSP!Start
    <3>1. /\ UNCHANGED <<directed, edges, source>> /\ phase' = "region"
      BY <2>3 DEF SSSP!Start, SSSP!input
    <3>2. SourceOK'
      BY <2>1, <3>1 DEF SourceOK, Input
    <3> QED
      BY <2>1, <2>3, <3>1, <3>2, SStartStep DEF SsspInv
  <2>4. CASE SSSP!NextIteration
    <3>1. /\ UNCHANGED <<directed, edges, source, phase, frontier>> /\ phase = "region"
      BY <2>4 DEF SSSP!NextIteration, SSSP!input
    <3>2. ~RegionEnded
      <4>1. PICK t \in Threads : TRUE
        BY NumNodesAssumption
      <4> QED
        BY <2>4, <4>1 DEF SSSP!NextIteration, RegionEnded
    <3>3. Region' \/ RegionEnded'
      BY <2>1, <2>4, <3>1, <3>2, SNextIterationStep DEF SsspInv
    <3>4. SourceOK'
      BY <2>1, <3>1 DEF SourceOK, Input
    <3>5. SSSP!FrontierFits'
      <4>1. SSSP!num_edges_directed' = SSSP!num_edges_directed
        BY <3>1 DEF SSSP!num_edges_directed, SSSP!num_edges
      <4> QED
        BY <2>1, <3>1, <4>1 DEF SSSP!FrontierFits
    <3> QED
      BY <3>1, <3>3, <3>4, <3>5 DEF SsspInv
  <2>5. CASE SSSP!End
    <3>1. /\ UNCHANGED <<directed, edges, source, property, frontier>> /\ phase' = "done"
          /\ phase = "region" /\ \A t \in Threads : pc[t] = "end"
          /\ pc' = pc
      BY <2>5 DEF SSSP!End, SSSP!input
    <3>2. RegionEnded
      <4>1. PICK t \in Threads : TRUE
        BY NumNodesAssumption
      <4>2. ~Region
        BY <3>1, <4>1 DEF Region, RegionType, SLabels
      <4> QED
        BY <2>1, <3>1, <4>2 DEF SsspInv
    <3>3. property' = SSSP!Lengths'[NumNodes]
      BY <3>1, <3>2, SameLengths DEF RegionEnded
    <3>4. SourceOK'
      BY <2>1, <3>1 DEF SourceOK, Input
    <3>5. SSSP!FrontierFits'
      <4>1. SSSP!num_edges_directed' = SSSP!num_edges_directed
        BY <3>1 DEF SSSP!num_edges_directed, SSSP!num_edges
      <4> QED
        BY <2>1, <3>1, <4>1 DEF SSSP!FrontierFits
    <3> QED
      BY <3>1, <3>3, <3>4, <3>5 DEF SsspInv, SLabels
  <2>6. ASSUME NEW t \in Threads, SSSP!Worker(t) PROVE SsspInv'
    <3>1. pc[t] \in SLabels /\ UNCHANGED <<directed, edges, source, phase>>
      BY <2>6, SWorkerLabel
    <3>3. phase = "region" /\ ~RegionEnded
      BY <2>1, <3>1 DEF SsspInv, RegionEnded, SLabels
    <3>4. Region' /\ SSSP!FrontierFits'
      BY <2>1, <2>6, <3>3, SWorkerStep DEF SsspInv
    <3>2. SourceOK'
      BY <2>1, <3>1 DEF SourceOK, Input
    <3> QED
      BY <3>1, <3>2, <3>3, <3>4 DEF SsspInv
  <2>7. CASE Finished \/ UNCHANGED vars
    BY <2>1, <2>7, SStuttering DEF Finished
  <2> QED
    BY <2>1, <2>2, <2>3, <2>4, <2>5, <2>6, <2>7 DEF Next, Main, Worker, SSSP!Main
<1> QED
  BY <1>1, <1>2, PTL DEF Spec

(* SSSPStartFromScratch(): when a bin's turn has come, every distance      *)
(* below it is final.  A thread therefore loses nothing by skipping the    *)
(* entries of the frontier that are nearer than the bin, nor by voting for *)
(* its lowest bin that is not empty and leaving the others for later.      *)
THEOREM BinsSettledInOrder == Spec => []BinsInOrder
<1>1. (alg = "ssspfromscratch" => SsspInv) => BinsInOrder
  <2> SUFFICES ASSUME SsspInv PROVE SSSP!BinsInOrder
    BY DEF BinsInOrder
  <2>1. ASSUME Region, shared_indexes[iter] # MaxBin
        PROVE  Cur \in BinSet
    BY <2>1 DEF Region, RegionType, Cur
  <2> QED
    BY <2>1 DEF SsspInv, Region, RegionEnded, Settled, SSSP!BinsInOrder, SSSP!this, Cur,
       Shortest, SSSP!NodeID, NodeID
<1> QED
  BY <1>1, SsspInvariant, PTL

-----------------------------------------------------------------------------
(* BFSStartFromScratch().  All vertices of this round's queue are at one   *)
(* depth; the next queue has all those one deeper.                         *)
Round == property[curr[1]]

BLabels == {"take", "edge", "own", "cas", "barrier"}
BJob == [u : NodeID, left : SUBSET (NodeID \X NodeID), e : NodeID \X NodeID,
         old : Nat \cup {-1}, new : Nat \cup {-1}]

BHas(t) == pc[t] \in {"edge", "own", "cas"}

BTyped ==
    /\ Input /\ source \in NodeID
    /\ property \in [NodeID -> Nat \cup {-1}]
    /\ curr \in Seq(NodeID) /\ curr # <<>> /\ next \in Seq(NodeID)
    /\ todo \subseteq DOMAIN curr
    /\ pc \in [Threads -> BLabels]
    /\ job \in [Threads -> BJob]
    /\ \A t \in Threads : pc[t] = "barrier" => todo = {}

BQueues ==
    /\ Round \in Nat
    /\ \A i \in DOMAIN curr : property[curr[i]] = Round
    /\ \A i \in DOMAIN next : property[next[i]] = Round + 1
    /\ \A n \in NodeID : property[n] <= Round + 1
    /\ \A n \in NodeID : property[n] = Round + 1 => \E i \in DOMAIN next : next[i] = n
    /\ \A i, j \in DOMAIN curr : curr[i] = curr[j] => i = j
    /\ \A i, j \in DOMAIN next : next[i] = next[j] => i = j

(* Every vertex that has a depth has it from a predecessor.                *)
BTree ==
    /\ \A n \in NodeID : property[n] = 0 <=> n = source
    /\ \A n \in NodeID : property[n] > 0 =>
          \E e \in DOMAIN edges : e[2] = n /\ property[e[1]] = property[n] - 1

(* What a thread has read: a depth, once there is one, stays.              *)
BRead(t) ==
    /\ BHas(t) => /\ property[job[t].u] = Round
                  /\ job[t].left \subseteq BFS!OutOf(job[t].u)
    /\ pc[t] \in {"own", "cas"} => job[t].e \in BFS!OutOf(job[t].u)
    /\ pc[t] = "own" /\ job[t].old # -1 => property[job[t].e[2]] = job[t].old
    /\ pc[t] = "cas" => job[t].old = -1 /\ job[t].new = Round + 1

BDone(e) == property[e[2]] # -1 /\ property[e[2]] <= property[e[1]] + 1
BHolds(t, e) ==
    /\ BHas(t) /\ job[t].u = e[1]
    /\ e \in job[t].left \/ (pc[t] \in {"own", "cas"} /\ job[t].e = e)
BWaits(e) ==
    \/ \E i \in todo : curr[i] = e[1]
    \/ \E i \in DOMAIN next : next[i] = e[1]
    \/ \E t \in Threads : BHolds(t, e)
BAllSeenTo == \A e \in DOMAIN edges : property[e[1]] = -1 \/ BDone(e) \/ BWaits(e)

BRound == BTyped /\ BQueues /\ BTree /\ (\A t \in Threads : BRead(t)) /\ BAllSeenTo

BfsInv ==
    /\ Input
    /\ phase = "rounds" => BRound
    /\ phase # "rounds" => \A t \in Threads : pc[t] = "barrier"
    /\ phase = "done" /\ source \in NodeID => property = BFS!Values[NumNodes]
    /\ BFS!QueueFits

-----------------------------------------------------------------------------
(* The depths after k rounds of everyone at once.                          *)
Depth == Nat \cup {-1}
BOffered(g, n) ==
    {x \in {g[e[1]] + 1 : e \in {d \in DOMAIN edges : d[2] = n /\ g[d[1]] # -1}} : g[n] < 0}
BStarting == [n \in NodeID |-> IF n = source THEN 0 ELSE -1]
BOffering(g) ==
    [n \in NodeID |-> IF BOffered(g, n) = {} THEN g[n] ELSE BFS!Best(BOffered(g, n))]

LEMMA DepthOffered ==
    ASSUME Input, NEW g \in [NodeID -> Depth], NEW n \in NodeID
    PROVE  /\ BOffered(g, n) \subseteq Nat
           /\ BOffered(g, n) # {} => BFS!Best(BOffered(g, n)) \in BOffered(g, n)
<1>1. \A e \in DOMAIN edges : e[1] \in NodeID /\ g[e[1]] \in Depth
  BY Graph
<1>2. BOffered(g, n) \subseteq Nat
  BY <1>1 DEF BOffered, Depth
<1>3. ASSUME BOffered(g, n) # {} PROVE BFS!Best(BOffered(g, n)) \in BOffered(g, n)
  <2>1. PICK S : S = BOffered(g, n)
    OBVIOUS
  <2>2. \E x \in S : \A y \in S : ~(y < 0)
    BY <1>2, <1>3, <2>1
  <2>3. BFS!Best(S) = CHOOSE x \in S : \A y \in S : ~(y < 0)
    BY DEF BFS!Best, BfsBetter
  <2> QED
    BY <2>1, <2>2, <2>3
<1> QED
  BY <1>2, <1>3

LEMMA DepthsInRounds ==
    ASSUME Input, source \in NodeID
    PROVE  /\ \A k \in 0 .. NumNodes : BFS!Values[k] \in [NodeID -> Depth]
           /\ BFS!Values[0] = BStarting
           /\ \A k \in 0 .. NumNodes - 1 : BFS!Values[k + 1] = BOffering(BFS!Values[k])
<1> DEFINE D == [NodeID -> Depth]
           step == [g \in D |-> BOffering(g)]
<1>1. BStarting \in D
  BY DEF BStarting, Depth
<1>2. step \in [D -> D]
  <2> SUFFICES ASSUME NEW g \in D PROVE BOffering(g) \in D
    OBVIOUS
  <2>1. \A n \in NodeID : /\ BOffered(g, n) \subseteq Nat
                          /\ BOffered(g, n) # {} =>
                                BFS!Best(BOffered(g, n)) \in BOffered(g, n)
    BY DepthOffered
  <2>2. \A n \in NodeID :
            (IF BOffered(g, n) = {} THEN g[n] ELSE BFS!Best(BOffered(g, n))) \in Depth
    BY <2>1 DEF Depth
  <2> QED
    BY <2>2 DEF BOffering
<1> HIDE DEF step
<1>3. NumNodes \in Nat
  BY NumNodesAssumption
<1>4. PICK f \in [0 .. NumNodes -> D] :
          f = [k \in 0 .. NumNodes |-> IF k = 0 THEN BStarting ELSE step[f[k - 1]]]
  <2> HIDE DEF D
  <2> QED
    BY SMTT(30), <1>1, <1>2, <1>3, StagesExist
<1>5. \A k \in 0 .. NumNodes : k # 0 => k - 1 \in 0 .. NumNodes
  BY <1>3
<1>6. \A k \in 0 .. NumNodes : k # 0 => step[f[k - 1]] = BOffering(f[k - 1])
  BY <1>4, <1>5 DEF step
<1>7. f = [k \in 0 .. NumNodes |-> IF k = 0 THEN BStarting ELSE BOffering(f[k - 1])]
  <2>1. \A k \in 0 .. NumNodes :
            f[k] = IF k = 0 THEN BStarting ELSE BOffering(f[k - 1])
    <3> HIDE DEF D
    <3> QED
      BY <1>4, <1>6
  <2>2. f = [k \in 0 .. NumNodes |-> f[k]]
    BY <1>4
  <2> QED
    BY <2>1, <2>2
<1> DEFINE Body(g, k) ==
              IF k = 0 THEN [n \in NodeID |-> IF n = source THEN 0 ELSE -1]
              ELSE LET sofar == g[k - 1]
                       In(n) == {e \in DOMAIN edges : e[2] = n /\ sofar[e[1]] # -1}
                       offers(n) == {x \in {BfsExtend(sofar[e[1]], edges[e]) : e \in In(n)} :
                                         BfsBetter(x, sofar[n])}
                   IN  [n \in NodeID |-> IF offers(n) = {} THEN sofar[n]
                                         ELSE BFS!Best(offers(n))]
<1>8. ASSUME NEW g, NEW k \in 0 .. NumNodes
      PROVE  Body(g, k) = IF k = 0 THEN BStarting ELSE BOffering(g[k - 1])
  BY Zenon DEF BStarting, BOffering, BOffered, BfsExtend, BfsBetter
<1> HIDE DEF Body
<1>9. BFS!Values = [k \in 0 .. NumNodes |-> Body(BFS!Values, k)]
  <2>1. BFS!Values = CHOOSE g : g = [k \in 0 .. NumNodes |-> Body(g, k)]
    BY Zenon DEF BFS!Values, BFS!NodeID, NodeID, Body
  <2>2. f = [k \in 0 .. NumNodes |-> Body(f, k)]
    BY <1>7, <1>8
  <2> QED
    BY <2>1, <2>2
<1>10. \A k \in 0 .. NumNodes : BFS!Values[k] =
          IF k = 0 THEN BStarting ELSE BOffering(BFS!Values[k - 1])
  BY <1>8, <1>9
<1>11. /\ 0 \in 0 .. NumNodes
       /\ \A k \in 0 .. NumNodes - 1 : k + 1 \in 0 .. NumNodes /\ k + 1 # 0 /\ (k + 1) - 1 = k
  BY <1>3
<1>12. /\ BFS!Values[0] = BStarting
       /\ \A k \in 0 .. NumNodes - 1 : BFS!Values[k + 1] = BOffering(BFS!Values[k])
  BY <1>10, <1>11
<1> DEFINE S == {k \in Nat : k <= NumNodes => BFS!Values[k] \in D}
<1>13. 0 \in S
  BY <1>1, <1>12
<1>14. ASSUME NEW k \in Nat, k \in S PROVE k + 1 \in S
  <2> SUFFICES ASSUME k + 1 <= NumNodes PROVE BFS!Values[k + 1] \in D
    OBVIOUS
  <2>1. k \in 0 .. NumNodes - 1 /\ k <= NumNodes
    BY <1>3
  <2>2. BFS!Values[k] \in D /\ BFS!Values[k + 1] = step[BFS!Values[k]]
    BY <1>12, <1>14, <2>1 DEF step
  <2> QED
    BY <1>2, <2>2
<1>15. Nat \subseteq S
  <2> HIDE DEF S
  <2> QED
    BY <1>13, <1>14, SetInduction
<1> QED
  BY <1>12, <1>15, <1>3

(* There are no more depths than vertices.                                 *)
LEMMA DepthsFew ==
    ASSUME property \in [NodeID -> Depth], DOMAIN edges \subseteq NodeID \X NodeID, BTree,
           NEW n \in NodeID
    PROVE  property[n] <= NumNodes - 1
<1> DEFINE d == property[n]
<1> SUFFICES ASSUME d \in Nat PROVE d <= NumNodes - 1
  BY NumNodesAssumption DEF Depth
<1> DEFINE S == {k \in Nat : k <= d => \E m \in NodeID : property[m] = d - k}
<1>1. 0 \in S
  OBVIOUS
<1>2. ASSUME NEW k \in Nat, k \in S PROVE k + 1 \in S
  <2> SUFFICES ASSUME k + 1 <= d PROVE \E m \in NodeID : property[m] = d - (k + 1)
    OBVIOUS
  <2>1. PICK m \in NodeID : property[m] = d - k
    BY <1>2
  <2>2. property[m] > 0
    BY <2>1
  <2>3. PICK e \in DOMAIN edges : e[2] = m /\ property[e[1]] = property[m] - 1
    BY <2>2 DEF BTree
  <2>4. e[1] \in NodeID /\ property[e[1]] = d - (k + 1)
    BY <2>1, <2>3
  <2> QED
    BY <2>4
<1>3. Nat \subseteq S
  <2> HIDE DEF S
  <2> QED
    BY <1>1, <1>2, SetInduction
<1>4. \A l \in 0 .. d : \E m \in NodeID : property[m] = l
  <2> SUFFICES ASSUME NEW l \in 0 .. d PROVE \E m \in NodeID : property[m] = l
    OBVIOUS
  <2>1. d - l \in Nat /\ d - l <= d /\ d - (d - l) = l
    OBVIOUS
  <2> HIDE DEF d
  <2>2. d - l \in S
    BY <1>3, <2>1
  <2> QED
    BY <2>1, <2>2
<1> DEFINE h == [l \in 0 .. d |-> CHOOSE m \in NodeID : property[m] = l]
<1>5. h \in Injection(0 .. d, NodeID)
  <2>1. \A l \in 0 .. d : h[l] \in NodeID /\ property[h[l]] = l
    BY <1>4
  <2> HIDE DEF d
  <2>2. h \in [0 .. d -> NodeID]
    BY <2>1
  <2> HIDE DEF h
  <2> QED
    BY <2>1, <2>2 DEF Injection, IsInjective
<1>6. Cardinality(0 .. d) = d + 1 /\ IsFiniteSet(0 .. d)
  <2> HIDE DEF d
  <2> QED
    BY FS_Interval
<1> HIDE DEF h, d
<1>7. Cardinality(0 .. d) <= Cardinality(NodeID)
  BY <1>5, <1>6, NodesFinite, FS_Injection
<1> QED
  BY <1>6, <1>7, NodesFinite, NumNodesAssumption

(* A tree of depths, no edge of which would still shorten one.             *)
LEMMA TreeIsBest ==
    ASSUME Input, source \in NodeID, property \in [NodeID -> Depth], BTree,
           \A e \in DOMAIN edges : property[e[1]] = -1 \/ BDone(e)
    PROVE  property = BFS!Values[NumNodes]
<1>0. NumNodes \in Nat /\ \A e \in DOMAIN edges : e[1] \in NodeID /\ e[2] \in NodeID
  BY Graph, NumNodesAssumption
<1> DEFINE V(k, n) == IF property[n] \in 0 .. k THEN property[n] ELSE -1
           S == {k \in Nat : k <= NumNodes => \A n \in NodeID : BFS!Values[k][n] = V(k, n)}
<1>1. 0 \in S
  <2> SUFFICES ASSUME NEW n \in NodeID PROVE BFS!Values[0][n] = V(0, n)
    OBVIOUS
  <2>1. BFS!Values[0][n] = IF n = source THEN 0 ELSE -1
    BY DepthsInRounds DEF BStarting
  <2>2. property[n] = 0 <=> n = source
    BY DEF BTree
  <2>3. property[n] \in 0 .. 0 <=> property[n] = 0
    OBVIOUS
  <2> QED
    BY <2>1, <2>2, <2>3
<1>2. ASSUME NEW k \in Nat, k \in S PROVE k + 1 \in S
  <2> SUFFICES ASSUME k + 1 <= NumNodes, NEW n \in NodeID
               PROVE  BFS!Values[k + 1][n] = V(k + 1, n)
    OBVIOUS
  <2>1. k \in 0 .. NumNodes /\ k \in 0 .. NumNodes - 1 /\ k <= NumNodes
    BY <1>0
  <2>2. PICK g \in [NodeID -> Depth] : g = BFS!Values[k]
    BY <2>1, DepthsInRounds
  <2>3. \A m \in NodeID : g[m] = V(k, m)
    BY <1>2, <2>1, <2>2
  <2>4. BFS!Values[k + 1][n] =
            IF BOffered(g, n) = {} THEN g[n] ELSE BFS!Best(BOffered(g, n))
    BY <2>1, <2>2, DepthsInRounds DEF BOffering
  <2>5. property[n] \in Depth /\ k \in Nat
    OBVIOUS
  <2>6. CASE property[n] \in 0 .. k
    <3>1. g[n] = property[n] /\ ~(g[n] < 0)
      BY <2>3, <2>6
    <3>2. BOffered(g, n) = {}
      BY <3>1 DEF BOffered
    <3> QED
      BY <2>4, <2>6, <3>1, <3>2
  <2>7. ASSUME property[n] \notin 0 .. k, NEW x \in BOffered(g, n)
        PROVE  x = k + 1 /\ property[n] = k + 1
    <3>1. PICK e \in DOMAIN edges : e[2] = n /\ g[e[1]] # -1 /\ x = g[e[1]] + 1
      BY DEF BOffered
    <3>2. property[e[1]] \in 0 .. k /\ g[e[1]] = property[e[1]]
      BY <1>0, <2>3, <3>1
    <3>3. property[n] # -1 /\ property[n] <= property[e[1]] + 1
      BY <3>1, <3>2 DEF BDone
    <3> QED
      BY <2>5, <2>7, <3>1, <3>2, <3>3 DEF Depth
  <2>8. CASE property[n] = k + 1
    <3>1. PICK e \in DOMAIN edges : e[2] = n /\ property[e[1]] = k
      BY <2>8 DEF BTree
    <3>2. g[e[1]] = k /\ g[n] = -1
      BY <1>0, <2>3, <2>8, <3>1
    <3>3. k + 1 \in BOffered(g, n)
      BY <3>1, <3>2 DEF BOffered
    <3>4. BFS!Best(BOffered(g, n)) \in BOffered(g, n)
      BY <3>3, DepthOffered
    <3>5. BFS!Best(BOffered(g, n)) = k + 1
      BY <2>7, <2>8, <3>4
    <3> QED
      BY <2>4, <2>8, <3>3, <3>5
  <2>9. CASE property[n] \notin 0 .. k + 1
    <3>1. BOffered(g, n) = {}
      BY <2>7, <2>9
    <3>2. g[n] = -1
      BY <2>3, <2>9
    <3> QED
      BY <2>4, <2>9, <3>1, <3>2
  <2> QED
    BY <2>5, <2>6, <2>8, <2>9 DEF Depth
<1>3. Nat \subseteq S
  <2> HIDE DEF S
  <2> QED
    BY <1>1, <1>2, SetInduction
<1>4. \A n \in NodeID : BFS!Values[NumNodes][n] = property[n]
  <2> SUFFICES ASSUME NEW n \in NodeID PROVE BFS!Values[NumNodes][n] = property[n]
    OBVIOUS
  <2>1. property[n] <= NumNodes - 1 /\ property[n] \in Depth
    BY DepthsFew, Graph
  <2>2. V(NumNodes, n) = property[n]
    BY <1>0, <2>1 DEF Depth
  <2> QED
    BY <1>0, <1>3, <2>2
<1>5. BFS!Values[NumNodes] \in [NodeID -> Depth]
  BY <1>0, DepthsInRounds
<1> QED
  BY <1>4, <1>5

-----------------------------------------------------------------------------
(* The steps of a thread.                                                  *)
LEMMA BNoJob == BFS!NoJob \in BJob
BY NumNodesAssumption DEF BFS!NoJob, BJob, NodeID

LEMMA BMoved ==
    ASSUME BTyped, NEW t \in Threads, NEW label \in BLabels, NEW locals \in BJob,
           BFS!Goto(t, label, locals)
    PROVE  /\ pc'[t] = label /\ job'[t] = locals
           /\ \A s \in Threads : s # t => pc'[s] = pc[s] /\ job'[s] = job[s]
           /\ pc' \in [Threads -> BLabels] /\ job' \in [Threads -> BJob]
BY DEF BTyped, BFS!Goto

LEMMA BFacts ==
    ASSUME BRound
    PROVE  /\ Input /\ source \in NodeID /\ curr \in Seq(NodeID) /\ next \in Seq(NodeID)
           /\ Len(curr) \in Nat /\ Len(next) \in Nat
           /\ DOMAIN curr = 1 .. Len(curr) /\ DOMAIN next = 1 .. Len(next)
           /\ 1 \in DOMAIN curr /\ curr[1] \in NodeID
           /\ \A i \in DOMAIN curr : curr[i] \in NodeID
           /\ \A i \in DOMAIN next : next[i] \in NodeID
           /\ \A n \in NodeID : property[n] \in Nat \cup {-1} /\ property[n] \in Int
           /\ Round \in Nat
           /\ \A e \in DOMAIN edges : e[1] \in NodeID /\ e[2] \in NodeID
           /\ \A e : \A u : e \in BFS!OutOf(u) <=> e \in DOMAIN edges /\ e[1] = u
           /\ DOMAIN edges \subseteq NodeID \X NodeID
<1>1. Input /\ curr \in Seq(NodeID) /\ next \in Seq(NodeID) /\ curr # <<>> /\ source \in NodeID
      /\ property \in [NodeID -> Nat \cup {-1}] /\ Round \in Nat
  BY DEF BRound, BTyped, BQueues
<1>2. /\ Len(curr) \in Nat /\ Len(next) \in Nat /\ 1 \in DOMAIN curr
      /\ DOMAIN curr = 1 .. Len(curr) /\ DOMAIN next = 1 .. Len(next)
      /\ \A i \in DOMAIN curr : curr[i] \in NodeID
      /\ \A i \in DOMAIN next : next[i] \in NodeID
  BY <1>1
<1>3. \A e : \A u : e \in BFS!OutOf(u) <=> e \in DOMAIN edges /\ e[1] = u
  BY DEF BFS!OutOf
<1> QED
  BY <1>1, <1>2, <1>3, Graph

LEMMA BThread ==
    ASSUME BRound, NEW t \in Threads
    PROVE  /\ job[t] \in BJob /\ BRead(t)
           /\ job[t].u \in NodeID /\ job[t].left \subseteq NodeID \X NodeID
           /\ job[t].old \in Nat \cup {-1} /\ job[t].new \in Nat \cup {-1}
           /\ BHas(t) => /\ property[job[t].u] = Round
                         /\ \A e \in job[t].left : e \in DOMAIN edges /\ e[1] = job[t].u
           /\ pc[t] \in {"own", "cas"} =>
                 /\ job[t].e \in DOMAIN edges /\ job[t].e[1] = job[t].u
                 /\ job[t].e[2] \in NodeID
<1>1. job[t] \in BJob /\ BRead(t)
  BY DEF BRound, BTyped
<1> QED
  BY <1>1, BFacts DEF BRead, BJob

(* A step with which a thread goes on and stores nothing.                  *)
LEMMA BQuietStep ==
    ASSUME BRound, NEW t \in Threads, NEW label \in BLabels, NEW locals \in BJob,
           BFS!Goto(t, label, locals),
           BFS!Fixed, UNCHANGED <<property, next>>,
           todo' \subseteq todo, label = "barrier" => todo' = {},
           BRead(t)',
           \A e \in DOMAIN edges :
               ~BDone(e) /\ (BHolds(t, e) \/ \E i \in todo : curr[i] = e[1]) =>
               BHolds(t, e)' \/ \E i \in todo' : curr[i] = e[1]
    PROVE  BRound'
<1>1. /\ pc'[t] = label /\ job'[t] = locals
      /\ \A s \in Threads : s # t => pc'[s] = pc[s] /\ job'[s] = job[s]
      /\ pc' \in [Threads -> BLabels] /\ job' \in [Threads -> BJob]
  BY BMoved DEF BRound
<1>2. UNCHANGED <<directed, edges, source, phase, curr, property, next>>
  BY DEF BFS!Fixed, BFS!input
<1>3. BTyped'
  BY <1>1, <1>2 DEF BRound, BTyped, Input
<1>4. BQueues' /\ BTree'
  BY <1>2 DEF BRound, BQueues, BTree, Round
<1>5. \A s \in Threads : BRead(s)'
  <2>1. ASSUME NEW s \in Threads, s # t PROVE BRead(s)'
    <3>1. BRead(s) /\ pc'[s] = pc[s] /\ job'[s] = job[s]
      BY <1>1, <2>1 DEF BRound
    <3> QED
      BY <1>2, <3>1 DEF BRead, BHas, Round, BFS!OutOf
  <2> QED
    BY <2>1
<1>6. BAllSeenTo'
  <2> SUFFICES ASSUME NEW e \in DOMAIN edges, property[e[1]] # -1, ~BDone(e) PROVE BWaits(e)'
    BY <1>2 DEF BAllSeenTo, BDone
  <2>1. CASE BHolds(t, e) \/ \E i \in todo : curr[i] = e[1]
    BY <1>2, <2>1 DEF BWaits
  <2>2. CASE \E i \in DOMAIN next : next[i] = e[1]
    BY <1>2, <2>2 DEF BWaits
  <2>3. ASSUME NEW s \in Threads, s # t, BHolds(s, e) PROVE BWaits(e)'
    <3>1. BHolds(s, e)'
      BY <1>1, <2>3 DEF BHolds, BHas
    <3> QED
      BY <3>1 DEF BWaits
  <2> QED
    BY <2>1, <2>2, <2>3 DEF BRound, BAllSeenTo, BWaits
<1> QED
  BY <1>3, <1>4, <1>5, <1>6 DEF BRound

LEMMA BTakeStep ==
    ASSUME BRound, NEW t \in Threads, BFS!Take(t)
    PROVE  BRound'
<1>0. pc[t] = "take" /\ BFS!Fixed /\ UNCHANGED <<property, next>>
      /\ UNCHANGED <<directed, edges, source, curr>>
  BY DEF BFS!Take, BFS!Fixed, BFS!input
<1>1. PICK i \in todo :
        /\ todo' = todo \ {i}
        /\ BFS!Goto(t, "edge", [BFS!NoJob EXCEPT !.u = curr[i], !.left = BFS!OutOf(curr[i])])
  BY DEF BFS!Take
<1>2. i \in DOMAIN curr /\ curr[i] \in NodeID /\ property[curr[i]] = Round
  BY BFacts DEF BRound, BTyped, BQueues
<1>3. PICK r : r = [BFS!NoJob EXCEPT !.u = curr[i], !.left = BFS!OutOf(curr[i])]
  OBVIOUS
<1>4. r \in BJob /\ r.u = curr[i] /\ r.left = BFS!OutOf(curr[i])
  <2>1. BFS!OutOf(curr[i]) \subseteq NodeID \X NodeID
    BY BFacts
  <2> QED
    BY <1>2, <1>3, <2>1, BNoJob DEF BJob, BFS!NoJob
<1>5. pc'[t] = "edge" /\ job'[t] = r
  BY <1>1, <1>3, <1>4, BMoved DEF BLabels, BRound
<1>6. BRead(t)'
  BY <1>0, <1>2, <1>4, <1>5 DEF BRead, BHas, Round, BFS!OutOf
<1>7. ASSUME NEW e \in DOMAIN edges, BHolds(t, e) \/ \E k \in todo : curr[k] = e[1]
      PROVE  BHolds(t, e)' \/ \E k \in todo' : curr[k] = e[1]
  <2>1. PICK k \in todo : curr[k] = e[1]
    BY <1>0, <1>7 DEF BHolds, BHas
  <2>2. CASE k = i
    <3>1. e \in r.left /\ r.u = e[1]
      BY <1>4, <2>1, <2>2, BFacts
    <3> QED
      BY <1>5, <3>1 DEF BHolds, BHas
  <2>3. CASE k # i
    BY <1>1, <2>1, <2>3
  <2> QED
    BY <2>2, <2>3
<1> QED
  BY <1>0, <1>1, <1>3, <1>4, <1>6, <1>7, BQuietStep DEF BLabels

LEMMA BReadTargetStep ==
    ASSUME BRound, NEW t \in Threads, BFS!ReadTarget(t)
    PROVE  BRound'
<1>0. pc[t] = "edge" /\ BHas(t) /\ BFS!Fixed /\ UNCHANGED <<property, next, todo>>
      /\ UNCHANGED <<directed, edges, source, curr>>
  BY DEF BFS!ReadTarget, BFS!Fixed, BFS!input, BHas
<1>1. PICK e \in job[t].left :
        BFS!Goto(t, "own", [job[t] EXCEPT !.left = @ \ {e}, !.e = e, !.old = property[e[2]]])
  BY DEF BFS!ReadTarget
<1>2. e \in DOMAIN edges /\ e[1] = job[t].u /\ e[2] \in NodeID /\ e \in NodeID \X NodeID
      /\ property[e[2]] \in Nat \cup {-1} /\ property[job[t].u] = Round
      /\ e \in BFS!OutOf(job[t].u) /\ job[t].left \subseteq BFS!OutOf(job[t].u)
  BY <1>0, BThread, BFacts DEF BRead
<1>3. PICK r : r = [job[t] EXCEPT !.left = @ \ {e}, !.e = e, !.old = property[e[2]]]
  OBVIOUS
<1>4. /\ r \in BJob /\ r.u = job[t].u /\ r.left = job[t].left \ {e} /\ r.e = e
      /\ r.old = property[e[2]]
  <2>1. PICK q \in BJob : q = job[t]
    BY BThread
  <2>2. PICK rest, old : rest = q.left \ {e} /\ old = property[e[2]]
    OBVIOUS
  <2>3. rest \in SUBSET (NodeID \X NodeID) /\ old \in Nat \cup {-1}
    BY <1>2, <2>2 DEF BJob
  <2>4. r = [q EXCEPT !.left = rest, !.e = e, !.old = old]
    BY <1>3, <2>1, <2>2
  <2> QED
    BY <1>2, <2>1, <2>2, <2>3, <2>4 DEF BJob
<1>5. pc'[t] = "own" /\ job'[t] = r
  BY <1>1, <1>3, <1>4, BMoved DEF BLabels, BRound
<1>6. BRead(t)'
  BY <1>0, <1>2, <1>4, <1>5 DEF BRead, BHas, Round, BFS!OutOf
<1>7. ASSUME NEW d \in DOMAIN edges, BHolds(t, d) PROVE BHolds(t, d)'
  BY <1>0, <1>4, <1>5, <1>7 DEF BHolds, BHas
<1> QED
  BY <1>0, <1>1, <1>3, <1>4, <1>6, <1>7, BQuietStep DEF BLabels

LEMMA BReadOwnStep ==
    ASSUME BRound, NEW t \in Threads, BFS!ReadOwn(t)
    PROVE  BRound'
<1>0. pc[t] = "own" /\ BHas(t) /\ BFS!Fixed /\ UNCHANGED <<property, next, todo>>
      /\ UNCHANGED <<directed, edges, source, curr>>
  BY DEF BFS!ReadOwn, BFS!Fixed, BFS!input, BHas
<1>1. /\ job[t].e \in DOMAIN edges /\ job[t].e[1] = job[t].u /\ job[t].e[2] \in NodeID
      /\ property[job[t].u] = Round /\ job[t].old \in Nat \cup {-1} /\ Round \in Nat
      /\ job[t].left \subseteq BFS!OutOf(job[t].u) /\ job[t].e \in BFS!OutOf(job[t].u)
      /\ job[t].old # -1 => property[job[t].e[2]] = job[t].old
      /\ property[job[t].e[2]] <= Round + 1
  BY <1>0, BThread, BFacts DEF BRead, BRound, BQueues
<1>2. PICK r : r = [job[t] EXCEPT !.new = property[job[t].u] + 1]
  OBVIOUS
<1>3. /\ r \in BJob /\ r.u = job[t].u /\ r.left = job[t].left /\ r.e = job[t].e
      /\ r.old = job[t].old /\ r.new = Round + 1
  <2>1. PICK q \in BJob : q = job[t]
    BY BThread
  <2>2. r = [q EXCEPT !.new = Round + 1] /\ Round + 1 \in Nat \cup {-1}
    BY <1>1, <1>2, <2>1
  <2> QED
    BY <2>1, <2>2 DEF BJob
<1>4. /\ r.old < 0 => BFS!Goto(t, "cas", r)
      /\ ~(r.old < 0) => BFS!Goto(t, "edge", r)
  BY <1>2 DEF BFS!ReadOwn, BfsExtend, BfsBetter
<1>5. CASE r.old < 0
  <2>1. pc'[t] = "cas" /\ job'[t] = r
    BY <1>3, <1>4, <1>5, BMoved DEF BLabels, BRound
  <2>2. r.old = -1
    BY <1>1, <1>3, <1>5
  <2>3. BRead(t)'
    BY <1>0, <1>1, <1>3, <2>1, <2>2 DEF BRead, BHas, Round, BFS!OutOf
  <2>4. ASSUME NEW d \in DOMAIN edges, BHolds(t, d) PROVE BHolds(t, d)'
    BY <1>0, <1>3, <2>1, <2>4 DEF BHolds, BHas
  <2> QED
    BY <1>0, <1>3, <1>4, <1>5, <2>3, <2>4, BQuietStep DEF BLabels
<1>6. CASE ~(r.old < 0)
  <2>1. pc'[t] = "edge" /\ job'[t] = r
    BY <1>3, <1>4, <1>6, BMoved DEF BLabels, BRound
  <2>2. property[job[t].e[2]] # -1 /\ BDone(job[t].e)
    BY <1>1, <1>3, <1>6 DEF BDone
  <2>3. BRead(t)'
    BY <1>0, <1>1, <1>3, <2>1 DEF BRead, BHas, Round, BFS!OutOf
  <2>4. ASSUME NEW d \in DOMAIN edges, ~BDone(d), BHolds(t, d) PROVE BHolds(t, d)'
    BY <1>0, <1>3, <2>1, <2>2, <2>4 DEF BHolds, BHas
  <2> QED
    BY <1>0, <1>3, <1>4, <1>6, <2>3, <2>4, BQuietStep DEF BLabels
<1> QED
  BY <1>5, <1>6

LEMMA BNoEdgeLeftStep ==
    ASSUME BRound, NEW t \in Threads, BFS!NoEdgeLeft(t)
    PROVE  BRound'
<1>0. /\ pc[t] = "edge" /\ job[t].left = {} /\ BFS!Fixed /\ UNCHANGED <<property, next, todo, curr>>
      /\ BFS!Goto(t, "take", BFS!NoJob)
  BY DEF BFS!NoEdgeLeft, BFS!Fixed
<1>1. pc'[t] = "take"
  BY <1>0, BNoJob, BMoved DEF BLabels, BRound
<1>2. BRead(t)'
  BY <1>1 DEF BRead, BHas
<1>3. \A d : ~BHolds(t, d)
  BY <1>0 DEF BHolds
<1> QED
  BY <1>0, <1>2, <1>3, BNoJob, BQuietStep DEF BLabels

LEMMA BBarrierStep ==
    ASSUME BRound, NEW t \in Threads, BFS!Barrier(t)
    PROVE  BRound'
<1>0. /\ pc[t] = "take" /\ todo = {} /\ BFS!Fixed /\ UNCHANGED <<property, next, todo, curr>>
      /\ BFS!Goto(t, "barrier", BFS!NoJob)
  BY DEF BFS!Barrier, BFS!Fixed
<1>1. pc'[t] = "barrier"
  BY <1>0, BNoJob, BMoved DEF BLabels, BRound
<1>2. BRead(t)'
  BY <1>1 DEF BRead, BHas
<1>3. \A d : ~BHolds(t, d)
  BY <1>0 DEF BHolds, BHas
<1> QED
  BY <1>0, <1>2, <1>3, BNoJob, BQuietStep DEF BLabels

(* The first to store a depth queues the vertex.                           *)
LEMMA BStoreStep ==
    ASSUME BRound, NEW t \in Threads, BFS!CompareAndSwap(t),
           property[job[t].e[2]] = job[t].old
    PROVE  BRound'
<1> DEFINE v == job[t].e[2]
<1>0. pc[t] = "cas" /\ BHas(t)
      /\ UNCHANGED <<directed, edges, source, phase, curr, todo>>
  BY DEF BFS!CompareAndSwap, BFS!Fixed, BFS!input, BHas
<1>1. /\ job[t].e \in DOMAIN edges /\ job[t].e[1] = job[t].u /\ v \in NodeID
      /\ property[job[t].u] = Round /\ Round \in Nat /\ job[t].u \in NodeID
      /\ property[v] = -1 /\ job[t].new = Round + 1 /\ job[t].e \in BFS!OutOf(job[t].u)
  BY <1>0, BThread, BFacts DEF BRead
<1>2. /\ property' = [property EXCEPT ![v] = Round + 1]
      /\ next' = Append(next, v)
      /\ BFS!Goto(t, "edge", job[t])
  BY <1>1 DEF BFS!CompareAndSwap
<1> HIDE DEF v
<1>3. /\ pc'[t] = "edge" /\ job'[t] = job[t]
      /\ \A s \in Threads : s # t => pc'[s] = pc[s]
      /\ \A s \in Threads : job'[s] = job[s]
      /\ pc' \in [Threads -> BLabels] /\ job' \in [Threads -> BJob]
  BY <1>2, BThread, BMoved DEF BLabels, BRound
<1>4. /\ property \in [NodeID -> Nat \cup {-1}] /\ property' \in [NodeID -> Nat \cup {-1}]
      /\ property'[v] = Round + 1
      /\ \A n \in NodeID : n # v => property'[n] = property[n]
  BY <1>1, <1>2 DEF BRound, BTyped
<1>5. /\ \A n \in NodeID : property[n] # -1 => n # v /\ property'[n] = property[n]
      /\ \A n \in NodeID : property'[n] # -1 /\ n # v => property[n] # -1
  BY <1>1, <1>4
<1>6. curr[1] # v /\ Round' = Round /\ \A i \in DOMAIN curr : property'[curr[i]] = Round
  <2>1. \A i \in DOMAIN curr : curr[i] \in NodeID /\ property[curr[i]] = Round /\ Round # -1
    BY BFacts DEF BRound, BQueues
  <2>2. \A i \in DOMAIN curr : property'[curr[i]] = Round /\ curr[i] # v
    BY <1>5, <2>1
  <2> QED
    BY <1>0, <2>2, BFacts DEF Round
<1>7. PICK l \in Nat : l = Len(next)
  BY BFacts
<1>8. /\ DOMAIN next = 1 .. l /\ DOMAIN next' = 1 .. l + 1
      /\ next' \in Seq(NodeID) /\ next'[l + 1] = v
      /\ \A i \in 1 .. l : next'[i] = next[i]
      /\ \A i \in 1 .. l + 1 : i \in 1 .. l \/ i = l + 1
  <2>1. next \in Seq(NodeID) /\ v \in NodeID
    BY <1>1, BFacts
  <2> QED
    BY <1>2, <1>7, <2>1
<1>9. \A i \in 1 .. l : next[i] \in NodeID /\ property[next[i]] = Round + 1 /\ next[i] # v
  <2>1. \A i \in DOMAIN next : next[i] \in NodeID /\ property[next[i]] = Round + 1
    BY BFacts DEF BRound, BQueues
  <2>2. Round + 1 # -1
    BY <1>1
  <2> QED
    BY <1>1, <1>8, <2>1, <2>2
<1>10. BTyped'
  BY <1>0, <1>3, <1>4, <1>8 DEF BRound, BTyped, Input
<1>11. BQueues'
  <2>1. \A i \in DOMAIN next' : property'[next'[i]] = Round + 1
    BY <1>1, <1>4, <1>8, <1>9
  <2>2. \A n \in NodeID : property'[n] <= Round + 1
    BY <1>1, <1>4 DEF BRound, BQueues
  <2>3. ASSUME NEW n \in NodeID, property'[n] = Round + 1
        PROVE  \E i \in DOMAIN next' : next'[i] = n
    <3>1. CASE n = v
      <4>1. l + 1 \in 1 .. l + 1
        OBVIOUS
      <4> QED
        BY <1>8, <3>1, <4>1
    <3>2. CASE n # v
      <4>1. PICK i \in DOMAIN next : next[i] = n
        BY <1>4, <2>3, <3>2 DEF BRound, BQueues
      <4>2. i \in 1 .. l + 1
        BY <1>8, <4>1
      <4> QED
        BY <1>8, <4>1, <4>2
    <3> QED
      BY <3>1, <3>2
  <2>4. ASSUME NEW i \in DOMAIN next', NEW j \in DOMAIN next', next'[i] = next'[j] PROVE i = j
    <3>1. CASE i \in 1 .. l /\ j \in 1 .. l
      BY <1>8, <2>4, <3>1 DEF BRound, BQueues
    <3>2. CASE i = l + 1 \/ j = l + 1
      BY <1>8, <1>9, <2>4, <3>2
    <3> QED
      BY <1>8, <3>1, <3>2
  <2> QED
    BY <1>0, <1>1, <1>6, <2>1, <2>2, <2>3, <2>4 DEF BRound, BQueues
<1>12. BTree'
  <2>1. \A n \in NodeID : property'[n] = 0 <=> n = source
    <3>1. Round + 1 # 0 /\ v # source
      BY <1>1 DEF BRound, BTree
    <3> QED
      BY <1>4, <3>1 DEF BRound, BTree
  <2>2. ASSUME NEW n \in NodeID, property'[n] > 0
        PROVE  \E e \in DOMAIN edges : e[2] = n /\ property'[e[1]] = property'[n] - 1
    <3>1. CASE n = v
      <4>1. property'[job[t].u] = Round
        BY <1>1, <1>5
      <4>2. property'[n] - 1 = Round
        BY <1>1, <1>4, <3>1
      <4> QED
        BY <1>1, <3>1, <4>1, <4>2 DEF v
    <3>2. CASE n # v
      <4>1. property[n] > 0 /\ property'[n] = property[n]
        BY <1>4, <2>2, <3>2
      <4>2. PICK e \in DOMAIN edges : e[2] = n /\ property[e[1]] = property[n] - 1
        BY <4>1 DEF BRound, BTree
      <4>3. e[1] \in NodeID /\ property[e[1]] # -1
        BY <1>4, <4>1, <4>2, BFacts
      <4> QED
        BY <1>5, <4>1, <4>2, <4>3
    <3> QED
      BY <3>1, <3>2
  <2> QED
    BY <1>0, <2>1, <2>2 DEF BTree
<1>13. \A s \in Threads : BRead(s)'
  <2> SUFFICES ASSUME NEW s \in Threads PROVE BRead(s)'
    OBVIOUS
  <2>1. /\ BRead(s) /\ job'[s] = job[s] /\ job[s].u \in NodeID
        /\ pc[s] \in {"own", "cas"} => job[s].e[2] \in NodeID
    BY <1>3, BThread
  <2>2. BHas(s) => property'[job[s].u] = Round
    BY <1>1, <1>5, <2>1 DEF BRead
  <2>3. pc[s] = "own" /\ job[s].old # -1 => property'[job[s].e[2]] = job[s].old
    BY <1>5, <2>1 DEF BRead
  <2>4. CASE s = t
    BY <1>0, <1>3, <1>6, <2>1, <2>2, <2>4 DEF BRead, BHas, BFS!OutOf
  <2>5. CASE s # t
    BY <1>0, <1>3, <1>6, <2>1, <2>2, <2>3, <2>5 DEF BRead, BHas, BFS!OutOf
  <2> QED
    BY <2>4, <2>5
<1>14. BAllSeenTo'
  <2> SUFFICES ASSUME NEW e \in DOMAIN edges, property'[e[1]] # -1 PROVE BDone(e)' \/ BWaits(e)'
    BY <1>0 DEF BAllSeenTo
  <2>0. e[1] \in NodeID /\ e[2] \in NodeID
    BY BFacts
  <2>1. CASE e[1] = v
    <3>1. l + 1 \in DOMAIN next' /\ next'[l + 1] = e[1]
      BY <1>8, <2>1
    <3> QED
      BY <3>1 DEF BWaits
  <2>2. CASE e[1] # v
    <3>0. property[e[1]] # -1 /\ property'[e[1]] = property[e[1]]
      BY <1>4, <2>0, <2>2
    <3>1. CASE BDone(e)
      BY <1>5, <2>0, <3>0, <3>1 DEF BDone
    <3>2. CASE \E i \in todo : curr[i] = e[1]
      BY <1>0, <3>2 DEF BWaits
    <3>3. ASSUME NEW i \in DOMAIN next, next[i] = e[1] PROVE BWaits(e)'
      <4>1. i \in DOMAIN next' /\ next'[i] = e[1]
        BY <1>8, <3>3
      <4> QED
        BY <4>1 DEF BWaits
    <3>4. ASSUME NEW s \in Threads, BHolds(s, e) PROVE BDone(e)' \/ BWaits(e)'
      <4>1. CASE s # t \/ e \in job[t].left
        <5>1. BHolds(s, e)'
          BY <1>0, <1>3, <3>4, <4>1 DEF BHolds, BHas
        <5> QED
          BY <5>1 DEF BWaits
      <4>2. CASE s = t /\ e = job[t].e
        <5>1. property'[e[2]] = Round + 1 /\ property'[e[1]] = Round
          BY <1>1, <1>4, <3>0, <4>2 DEF v
        <5> QED
          BY <1>1, <5>1 DEF BDone
      <4> QED
        BY <3>4, <4>1, <4>2 DEF BHolds
    <3> QED
      BY <3>0, <3>1, <3>2, <3>3, <3>4 DEF BRound, BAllSeenTo, BWaits
  <2> QED
    BY <2>1, <2>2
<1> QED
  BY <1>10, <1>11, <1>12, <1>13, <1>14 DEF BRound

LEMMA BCompareAndSwapStep ==
    ASSUME BRound, NEW t \in Threads, BFS!CompareAndSwap(t)
    PROVE  BRound'
<1>0. pc[t] = "cas" /\ BHas(t) /\ BFS!Fixed
      /\ UNCHANGED <<directed, edges, source, phase, curr, todo>>
  BY DEF BFS!CompareAndSwap, BFS!Fixed, BFS!input, BHas
<1>1. CASE property[job[t].e[2]] # job[t].old
  <2>1. BFS!Goto(t, "edge", job[t]) /\ UNCHANGED <<property, next>>
    BY <1>1 DEF BFS!CompareAndSwap
  <2>2. pc'[t] = "edge" /\ job'[t] = job[t] /\ job[t] \in BJob
    BY <2>1, BThread, BMoved DEF BLabels, BRound
  <2>3. BDone(job[t].e)
    <3>1. /\ job[t].e \in DOMAIN edges /\ job[t].e[1] = job[t].u /\ job[t].e[2] \in NodeID
          /\ property[job[t].u] = Round /\ job[t].old = -1
      BY <1>0, BThread DEF BRead
    <3>2. property[job[t].e[2]] <= Round + 1
      BY <3>1 DEF BRound, BQueues
    <3> QED
      BY <1>1, <3>1, <3>2 DEF BDone
  <2>4. BRead(t)'
    BY <1>0, <2>1, <2>2, BThread DEF BRead, BHas, Round, BFS!OutOf
  <2>5. ASSUME NEW d \in DOMAIN edges, ~BDone(d), BHolds(t, d) PROVE BHolds(t, d)'
    BY <1>0, <2>2, <2>3, <2>5 DEF BHolds, BHas
  <2> QED
    BY <1>0, <2>1, <2>2, <2>4, <2>5, BQuietStep DEF BLabels
<1> QED
  BY <1>1, BStoreStep

(* The next round: the queued vertices become those to take.               *)
LEMMA BSlideStep ==
    ASSUME BRound, BFS!Slide
    PROVE  BRound'
<1>0. /\ \A t \in Threads : pc[t] = "barrier" /\ ~BHas(t)
      /\ next # <<>> /\ todo = {}
  <2>1. \A t \in Threads : pc[t] = "barrier"
    BY DEF BFS!Slide, BFS!RoundOver
  <2>2. PICK t \in Threads : TRUE
    BY NumNodesAssumption
  <2> QED
    BY <2>1, <2>2 DEF BFS!Slide, BRound, BTyped, BHas
<1>1. /\ UNCHANGED <<directed, edges, source, property, job>>
      /\ curr' = next /\ next' = <<>> /\ todo' = DOMAIN next
      /\ pc' = [t \in Threads |-> "take"]
  BY DEF BFS!Slide, BFS!BeginRound, BFS!input
<1>2. /\ next \in Seq(NodeID) /\ 1 \in DOMAIN next /\ <<>> \in Seq(NodeID)
      /\ DOMAIN <<>> = {}
  BY <1>0, BFacts
<1>3. \A t \in Threads : pc'[t] = "take" /\ ~BHas(t)'
  BY <1>1 DEF BHas
<1>4. Round' = Round + 1 /\ Round \in Nat
  BY <1>1, <1>2, BFacts DEF BRound, BQueues, Round
<1>5. BTyped'
  BY <1>0, <1>1, <1>2, <1>3 DEF BRound, BTyped, Input, BLabels
<1>6. BQueues'
  <2>1. \A n \in NodeID : property[n] <= (Round + 1) + 1 /\ property[n] # (Round + 1) + 1
    <3> SUFFICES ASSUME NEW n \in NodeID
                 PROVE  property[n] <= (Round + 1) + 1 /\ property[n] # (Round + 1) + 1
      OBVIOUS
    <3>1. property[n] <= Round + 1 /\ property[n] \in Int
      BY BFacts DEF BRound, BQueues
    <3> QED
      BY <1>4, <3>1
  <2> QED
    BY <1>1, <1>2, <1>4, <2>1 DEF BRound, BQueues
<1>7. BTree'
  BY <1>1 DEF BRound, BTree
<1>8. \A t \in Threads : BRead(t)'
  BY <1>3 DEF BRead
<1>9. BAllSeenTo'
  <2> SUFFICES ASSUME NEW e \in DOMAIN edges, property[e[1]] # -1, ~BDone(e) PROVE BWaits(e)'
    BY <1>1 DEF BAllSeenTo, BDone
  <2>1. \E i \in DOMAIN next : next[i] = e[1]
    BY <1>0 DEF BRound, BAllSeenTo, BWaits, BHolds
  <2> QED
    BY <1>1, <2>1 DEF BWaits
<1> QED
  BY <1>5, <1>6, <1>7, <1>8, <1>9 DEF BRound

LEMMA BStartStep ==
    ASSUME Input, BFS!Start
    PROVE  BRound'
<1>0. /\ UNCHANGED <<directed, edges, source>> /\ source \in NodeID
      /\ property' = [n \in NodeID |-> IF n = source THEN 0 ELSE -1]
      /\ curr' = <<source>> /\ next' = <<>> /\ todo' = DOMAIN <<source>>
      /\ pc' = [t \in Threads |-> "take"] /\ job' = [t \in Threads |-> BFS!NoJob]
  BY DEF BFS!Start, BFS!BeginRound, BFS!input, BFS!NodeID, NodeID
<1>1. /\ curr' \in Seq(NodeID) /\ next' \in Seq(NodeID) /\ curr' # <<>>
      /\ DOMAIN curr' = {1} /\ curr'[1] = source /\ DOMAIN next' = {} /\ todo' = {1}
  BY <1>0
<1>2. /\ property' \in [NodeID -> Nat \cup {-1}] /\ property'[source] = 0
      /\ \A n \in NodeID : n # source => property'[n] = -1
  BY <1>0
<1>3. \A t \in Threads : pc'[t] = "take" /\ job'[t] \in BJob /\ ~BHas(t)'
  BY <1>0, BNoJob DEF BHas
<1>4. Round' = 0
  BY <1>1, <1>2 DEF Round
<1>5. BTyped'
  BY <1>0, <1>1, <1>2, <1>3 DEF BTyped, Input, BLabels
<1>6. BQueues'
  <2>1. \A n \in NodeID : property'[n] <= 0 + 1 /\ property'[n] # 0 + 1
    BY <1>2
  <2> QED
    BY <1>1, <1>2, <1>4, <2>1 DEF BQueues
<1>7. BTree'
  BY <1>0, <1>2 DEF BTree
<1>8. \A t \in Threads : BRead(t)'
  BY <1>3 DEF BRead
<1>9. BAllSeenTo'
  <2> SUFFICES ASSUME NEW e \in DOMAIN edges, property'[e[1]] # -1 PROVE BWaits(e)'
    BY <1>0 DEF BAllSeenTo
  <2>1. e[1] = source
    BY <1>2, Graph
  <2> QED
    BY <1>1, <2>1 DEF BWaits
<1> QED
  BY <1>5, <1>6, <1>7, <1>8, <1>9 DEF BRound

(* Nothing queued: no edge is left that would shorten a depth.             *)
LEMMA BEndStep ==
    ASSUME BRound, BFS!End
    PROVE  property = BFS!Values[NumNodes]
<1>0. /\ \A t \in Threads : pc[t] = "barrier" /\ ~BHas(t)
      /\ next = <<>> /\ todo = {}
  <2>1. \A t \in Threads : pc[t] = "barrier"
    BY DEF BFS!End, BFS!RoundOver
  <2>2. PICK t \in Threads : TRUE
    BY NumNodesAssumption
  <2> QED
    BY <2>1, <2>2 DEF BFS!End, BRound, BTyped, BHas
<1>1. DOMAIN next = {}
  BY <1>0
<1>2. \A e \in DOMAIN edges : property[e[1]] = -1 \/ BDone(e)
  BY <1>0, <1>1 DEF BRound, BAllSeenTo, BWaits, BHolds
<1> QED
  BY <1>2, TreeIsBest DEF BRound, BTyped, Depth

LEMMA BStuttering ==
    ASSUME BfsInv, UNCHANGED vars
    PROVE  BfsInv'
<1>1. /\ UNCHANGED <<directed, edges, source, property, phase, todo, pc, job>>
      /\ UNCHANGED <<curr, next>>
  BY DEF vars, pushVars
<1>2. BFS!Values' = BFS!Values /\ Round' = Round
  BY <1>1 DEF BFS!Values, Round
<1>3. BRound => BRound'
  <2>1. BTyped => BTyped'
    BY <1>1 DEF BTyped, Input
  <2>2. (BQueues => BQueues') /\ (BTree => BTree')
    BY <1>1, <1>2 DEF BQueues, BTree
  <2>3. \A t \in Threads : BHas(t)' <=> BHas(t)
    BY <1>1 DEF BHas
  <2>4. \A t \in Threads : BRead(t) => BRead(t)'
    BY <1>1, <1>2, <2>3 DEF BRead, BFS!OutOf
  <2>5. \A e : (BWaits(e) => BWaits(e)') /\ (BDone(e) => BDone(e)')
    BY <1>1, <2>3 DEF BWaits, BHolds, BDone
  <2>6. BAllSeenTo => BAllSeenTo'
    BY <1>1, <2>5 DEF BAllSeenTo
  <2> QED
    BY <2>1, <2>2, <2>4, <2>6 DEF BRound
<1>4. Input' /\ BFS!QueueFits'
  BY <1>1 DEF BfsInv, Input, BFS!QueueFits, BFS!IsInjective
<1> QED
  BY <1>1, <1>2, <1>3, <1>4 DEF BfsInv

LEMMA BfsInvariant == Spec => [](alg = "bfsfromscratch" => BfsInv)
<1> DEFINE I == alg = "bfsfromscratch" => BfsInv
<1>1. Init => I
  <2> SUFFICES ASSUME Init PROVE BfsInv
    OBVIOUS
  <2>1. /\ Input /\ phase = "start" /\ source = NoSource /\ curr = <<>> /\ next = <<>>
        /\ \A t \in Threads : pc[t] = "barrier"
    BY DEF Init, CC!Init, Input
  <2>2. BFS!QueueFits
    BY <2>1 DEF BFS!QueueFits, BFS!IsInjective
  <2> QED
    BY <2>1, <2>2 DEF BfsInv
<1>2. I /\ [Next]_vars => I'
  <2> SUFFICES ASSUME I, [Next]_vars, alg' = "bfsfromscratch" PROVE BfsInv'
    OBVIOUS
  <2>1. alg = "bfsfromscratch" /\ BfsInv /\ Input
    BY DEF Next, PickSource, Main, Worker, Finished, vars, BfsInv
  <2>r. ASSUME BRound', phase' = "rounds" PROVE BfsInv'
    <3>1. BFS!QueueFits'
      BY <2>r DEF BRound, BQueues, BFS!QueueFits, BFS!IsInjective
    <3> QED
      BY <2>r, <3>1 DEF BfsInv, BRound, BTyped
  <2>2. CASE PickSource
    <3>1. UNCHANGED <<directed, edges, curr, next, pc>> /\ phase = "start"
      BY <2>2 DEF PickSource, pushVars
    <3>2. phase' # "rounds" /\ (phase' = "done" => source' \notin NodeID)
      BY <2>2, PickedSource, NumNodesAssumption DEF NoSource, NodeID
    <3>3. Input' /\ BFS!QueueFits'
      BY <2>1, <3>1 DEF BfsInv, Input, BFS!QueueFits, BFS!IsInjective
    <3> QED
      BY <2>1, <3>1, <3>2, <3>3 DEF BfsInv
  <2>3. CASE BFS!Start
    BY <2>1, <2>3, <2>r, BStartStep DEF BFS!Start, BFS!BeginRound
  <2>4. CASE BFS!Slide
    BY <2>1, <2>4, <2>r, BSlideStep DEF BFS!Slide, BFS!RoundOver, BFS!BeginRound, BfsInv
  <2>5. CASE BFS!End
    <3>1. /\ UNCHANGED <<directed, edges, source, property, curr, next, pc>>
          /\ phase' = "done" /\ phase = "rounds" /\ \A t \in Threads : pc[t] = "barrier"
      BY <2>5 DEF BFS!End, BFS!RoundOver, BFS!input
    <3>2. property = BFS!Values[NumNodes]
      BY <2>1, <2>5, <3>1, BEndStep DEF BfsInv
    <3>3. BFS!Values' = BFS!Values
      BY <3>1 DEF BFS!Values
    <3>4. Input' /\ BFS!QueueFits'
      BY <2>1, <3>1 DEF BfsInv, Input, BFS!QueueFits, BFS!IsInjective
    <3> QED
      BY <3>1, <3>2, <3>3, <3>4 DEF BfsInv
  <2>6. ASSUME NEW t \in Threads, BFS!Worker(t) PROVE BfsInv'
    <3>1. pc[t] # "barrier" /\ phase' = phase
      BY <2>6
      DEF BFS!Worker, BFS!Take, BFS!ReadTarget, BFS!ReadOwn, BFS!Mark, BFS!CompareAndSwap,
          BFS!Reload, BFS!NoEdgeLeft, BFS!Barrier, BFS!Fixed
    <3>2. phase = "rounds" /\ BRound
      BY <2>1, <3>1 DEF BfsInv
    <3>3. pc[t] # "mark" /\ pc[t] # "reload"
      BY <3>2 DEF BRound, BTyped, BLabels
    <3>4. BRound'
      BY <2>6, <3>2, <3>3, BTakeStep, BReadTargetStep, BReadOwnStep, BCompareAndSwapStep,
         BNoEdgeLeftStep, BBarrierStep
      DEF BFS!Worker, BFS!Mark, BFS!Reload
    <3> QED
      BY <2>r, <3>1, <3>2, <3>4
  <2>7. CASE Finished \/ UNCHANGED vars
    BY <2>1, <2>7, BStuttering DEF Finished
  <2> QED
    BY <2>1, <2>2, <2>3, <2>4, <2>5, <2>6, <2>7 DEF Next, Main, Worker, BFS!Main
<1> QED
  BY <1>1, <1>2, PTL DEF Spec

-----------------------------------------------------------------------------
(* SSWPStartFromScratch().                                                 *)
Widest(n) == SSWP!Values[NumNodes][n]
Narrower(x, w) == IF x < w THEN x ELSE w

WLabels == {"take", "edge", "own", "mark", "cas", "reload", "barrier"}
WJob == [u : NodeID, left : SUBSET (NodeID \X NodeID), e : NodeID \X NodeID,
         old : 0 .. DistInf, new : 0 .. DistInf]

WHas(t) == pc[t] \in {"edge", "own", "mark", "cas", "reload"}
WOnEdge(t) == pc[t] \in {"own", "mark", "cas", "reload"}
WOffers(t) == pc[t] \in {"mark", "cas", "reload"}

WTyped ==
    /\ Input /\ source \in NodeID
    /\ property \in [NodeID -> 0 .. DistInf]
    /\ curr \in Seq(NodeID) /\ next \in Seq(NodeID)
    /\ todo \subseteq DOMAIN curr
    /\ pc \in [Threads -> WLabels]
    /\ job \in [Threads -> WJob]
    /\ \A t \in Threads : pc[t] = "barrier" => todo = {}

(* Marked as visited is what is queued, once.                              *)
WQueues ==
    /\ visited = {next[i] : i \in DOMAIN next}
    /\ \A i, j \in DOMAIN curr : curr[i] = curr[j] => i = j
    /\ \A i, j \in DOMAIN next : next[i] = next[j] => i = j

WSound ==
    /\ property[source] = DistInf
    /\ \A n \in NodeID : property[n] <= Widest(n)

(* What a thread has read and is going to offer.  The target is queued     *)
(* before its value is stored.                                             *)
WOffer(t) ==
    /\ WHas(t) => job[t].left \subseteq SSWP!OutOf(job[t].u)
    /\ WOnEdge(t) => job[t].e \in SSWP!OutOf(job[t].u)
    /\ pc[t] = "own" => job[t].old <= property[job[t].e[2]]
    /\ WOffers(t) => job[t].new <= Widest(job[t].e[2])
    /\ pc[t] \in {"mark", "cas"} => job[t].old < job[t].new
    /\ pc[t] \in {"cas", "reload"} => job[t].e[2] \in visited

WDone(e) == property[e[2]] >= Narrower(property[e[1]], edges[e])
WHolds(t, e) ==
    /\ WHas(t) /\ job[t].u = e[1]
    /\ \/ e \in job[t].left
       \/ pc[t] = "own" /\ job[t].e = e
       \/ WOffers(t) /\ job[t].e = e /\ job[t].new >= Narrower(property[e[1]], edges[e])
WWaits(e) ==
    \/ \E i \in todo : curr[i] = e[1]
    \/ e[1] \in visited
    \/ \E t \in Threads : WHolds(t, e)
WAllSeenTo == \A e \in DOMAIN edges : WDone(e) \/ WWaits(e)

WRound == WTyped /\ WQueues /\ WSound /\ (\A t \in Threads : WOffer(t)) /\ WAllSeenTo

SswpInv ==
    /\ Input
    /\ phase = "rounds" => WRound
    /\ phase # "rounds" => \A t \in Threads : pc[t] = "barrier"
    /\ phase = "done" /\ source \in NodeID => property = SSWP!Values[NumNodes]
    /\ SSWP!QueueFits

-----------------------------------------------------------------------------
(* The widths after k rounds of everyone at once.                          *)
Width == 0 .. DistInf
WOffered(g, n) ==
    {x \in {Narrower(g[e[1]], edges[e]) : e \in {d \in DOMAIN edges : d[2] = n /\ g[d[1]] # 0}} :
        x > g[n]}
WStarting == [n \in NodeID |-> IF n = source THEN DistInf ELSE 0]
WOffering(g) ==
    [n \in NodeID |-> IF WOffered(g, n) = {} THEN g[n] ELSE SSWP!Best(WOffered(g, n))]

LEMMA NarrowerIs ==
    ASSUME NEW x \in Width, NEW w \in Nat
    PROVE  /\ Narrower(x, w) \in Width /\ Narrower(x, w) <= x /\ Narrower(x, w) <= w
           /\ \A y \in Nat : y <= x /\ y <= w => y <= Narrower(x, w)
BY DistInfAssumption DEF Narrower, Width

LEMMA WidestIs ==
    ASSUME NEW S \in SUBSET Width, S # {}
    PROVE  SSWP!Best(S) \in S /\ \A y \in S : y <= SSWP!Best(S)
<1> DEFINE T == {DistInf - y : y \in S}
<1>0. DistInf \in Nat /\ \A y \in Width : y \in Nat /\ DistInf - y \in Nat
  BY DistInfAssumption DEF Width
<1>1. T \in SUBSET Nat /\ T # {}
  BY <1>0
<1>2. PICK m \in T : \A n \in T : m <= n
  <2> HIDE DEF T
  <2> QED
    BY <1>1, LeastNatural
<1>3. PICK x \in S : m = DistInf - x
  OBVIOUS
<1>4. \A y \in S : ~(y > x)
  <2> SUFFICES ASSUME NEW y \in S PROVE ~(y > x)
    OBVIOUS
  <2>1. DistInf - y \in T /\ y \in Width /\ x \in Width
    OBVIOUS
  <2>2. DistInf - x <= DistInf - y
    BY <1>2, <1>3, <2>1
  <2> QED
    BY <2>1, <2>2, DistInfAssumption DEF Width
<1>5. SSWP!Best(S) = CHOOSE z \in S : \A y \in S : ~(y > z)
  BY DEF SSWP!Best, SswpBetter
<1>6. SSWP!Best(S) \in S /\ \A y \in S : ~(y > SSWP!Best(S))
  BY <1>4, <1>5
<1>7. SSWP!Best(S) \in Nat /\ \A y \in S : y \in Nat
  BY <1>0, <1>6
<1> QED
  BY <1>6, <1>7

LEMMA WidthOffered ==
    ASSUME Input, NEW g \in [NodeID -> Width], NEW n \in NodeID
    PROVE  /\ WOffered(g, n) \subseteq Width
           /\ WOffered(g, n) # {} =>
                 /\ SSWP!Best(WOffered(g, n)) \in WOffered(g, n)
                 /\ \A y \in WOffered(g, n) : y <= SSWP!Best(WOffered(g, n))
<1>1. \A e \in DOMAIN edges : e[1] \in NodeID /\ g[e[1]] \in Width /\ edges[e] \in Nat
  BY Graph
<1>2. WOffered(g, n) \subseteq Width
  BY <1>1, NarrowerIs DEF WOffered
<1> QED
  BY <1>2, WidestIs

LEMMA WidthsInRounds ==
    ASSUME Input, source \in NodeID
    PROVE  /\ \A k \in 0 .. NumNodes : SSWP!Values[k] \in [NodeID -> Width]
           /\ SSWP!Values[0] = WStarting
           /\ \A k \in 0 .. NumNodes - 1 : SSWP!Values[k + 1] = WOffering(SSWP!Values[k])
<1> DEFINE D == [NodeID -> Width]
           step == [g \in D |-> WOffering(g)]
<1>1. WStarting \in D
  BY DistInfAssumption DEF WStarting, Width
<1>2. step \in [D -> D]
  <2> SUFFICES ASSUME NEW g \in D PROVE WOffering(g) \in D
    OBVIOUS
  <2>1. \A n \in NodeID : /\ WOffered(g, n) \subseteq Width
                          /\ WOffered(g, n) # {} =>
                                SSWP!Best(WOffered(g, n)) \in WOffered(g, n)
    BY WidthOffered
  <2>2. \A n \in NodeID :
            (IF WOffered(g, n) = {} THEN g[n] ELSE SSWP!Best(WOffered(g, n))) \in Width
    BY <2>1 DEF Width
  <2> QED
    BY <2>2 DEF WOffering
<1> HIDE DEF step
<1>3. NumNodes \in Nat
  BY NumNodesAssumption
<1>4. PICK f \in [0 .. NumNodes -> D] :
          f = [k \in 0 .. NumNodes |-> IF k = 0 THEN WStarting ELSE step[f[k - 1]]]
  <2> HIDE DEF D
  <2> QED
    BY SMTT(30), <1>1, <1>2, <1>3, StagesExist
<1>5. \A k \in 0 .. NumNodes : k # 0 => k - 1 \in 0 .. NumNodes
  BY <1>3
<1>6. \A k \in 0 .. NumNodes : k # 0 => step[f[k - 1]] = WOffering(f[k - 1])
  BY <1>4, <1>5 DEF step
<1>7. f = [k \in 0 .. NumNodes |-> IF k = 0 THEN WStarting ELSE WOffering(f[k - 1])]
  <2>1. \A k \in 0 .. NumNodes :
            f[k] = IF k = 0 THEN WStarting ELSE WOffering(f[k - 1])
    <3> HIDE DEF D
    <3> QED
      BY <1>4, <1>6
  <2>2. f = [k \in 0 .. NumNodes |-> f[k]]
    BY <1>4
  <2> QED
    BY <2>1, <2>2
<1> DEFINE Body(g, k) ==
              IF k = 0 THEN [n \in NodeID |-> IF n = source THEN DistInf ELSE 0]
              ELSE LET sofar == g[k - 1]
                       In(n) == {e \in DOMAIN edges : e[2] = n /\ sofar[e[1]] # 0}
                       offers(n) == {x \in {SswpExtend(sofar[e[1]], edges[e]) : e \in In(n)} :
                                         SswpBetter(x, sofar[n])}
                   IN  [n \in NodeID |-> IF offers(n) = {} THEN sofar[n]
                                         ELSE SSWP!Best(offers(n))]
<1>8. ASSUME NEW g, NEW k \in 0 .. NumNodes
      PROVE  Body(g, k) = IF k = 0 THEN WStarting ELSE WOffering(g[k - 1])
  BY Zenon DEF WStarting, WOffering, WOffered, Narrower, SswpExtend, SswpBetter
<1> HIDE DEF Body
<1>9. SSWP!Values = [k \in 0 .. NumNodes |-> Body(SSWP!Values, k)]
  <2>1. SSWP!Values = CHOOSE g : g = [k \in 0 .. NumNodes |-> Body(g, k)]
    BY Zenon DEF SSWP!Values, SSWP!NodeID, NodeID, Body
  <2>2. f = [k \in 0 .. NumNodes |-> Body(f, k)]
    BY <1>7, <1>8
  <2> QED
    BY <2>1, <2>2
<1>10. \A k \in 0 .. NumNodes : SSWP!Values[k] =
          IF k = 0 THEN WStarting ELSE WOffering(SSWP!Values[k - 1])
  BY <1>8, <1>9
<1>11. /\ 0 \in 0 .. NumNodes
       /\ \A k \in 0 .. NumNodes - 1 : k + 1 \in 0 .. NumNodes /\ k + 1 # 0 /\ (k + 1) - 1 = k
  BY <1>3
<1>12. /\ SSWP!Values[0] = WStarting
       /\ \A k \in 0 .. NumNodes - 1 : SSWP!Values[k + 1] = WOffering(SSWP!Values[k])
  BY <1>10, <1>11
<1> DEFINE S == {k \in Nat : k <= NumNodes => SSWP!Values[k] \in D}
<1>13. 0 \in S
  BY <1>1, <1>12
<1>14. ASSUME NEW k \in Nat, k \in S PROVE k + 1 \in S
  <2> SUFFICES ASSUME k + 1 <= NumNodes PROVE SSWP!Values[k + 1] \in D
    OBVIOUS
  <2>1. k \in 0 .. NumNodes - 1 /\ k <= NumNodes
    BY <1>3
  <2>2. SSWP!Values[k] \in D /\ SSWP!Values[k + 1] = step[SSWP!Values[k]]
    BY <1>12, <1>14, <2>1 DEF step
  <2> QED
    BY <1>2, <2>2
<1>15. Nat \subseteq S
  <2> HIDE DEF S
  <2> QED
    BY <1>13, <1>14, SetInduction
<1> QED
  BY <1>12, <1>15, <1>3

LEMMA WidthRules ==
    ASSUME Input, source \in NodeID
    PROVE  /\ \A k \in 0 .. NumNodes : \A n \in NodeID : SSWP!Values[k][n] \in Width
           /\ \A n \in NodeID : SSWP!Values[0][n] = IF n = source THEN DistInf ELSE 0
           /\ \A k \in 0 .. NumNodes - 1 : \A n \in NodeID :
                  SSWP!Values[k][n] <= SSWP!Values[k + 1][n]
           /\ \A k \in 0 .. NumNodes - 1 : \A e \in DOMAIN edges :
                  Narrower(SSWP!Values[k][e[1]], edges[e]) <= SSWP!Values[k + 1][e[2]]
           /\ \A k \in 0 .. NumNodes - 1 : \A n \in NodeID :
                  \/ SSWP!Values[k + 1][n] = SSWP!Values[k][n]
                  \/ \E e \in DOMAIN edges :
                        /\ e[2] = n
                        /\ SSWP!Values[k + 1][n] = Narrower(SSWP!Values[k][e[1]], edges[e])
<1>0. /\ NumNodes \in Nat /\ DistInf \in Nat
      /\ \A e \in DOMAIN edges : e[1] \in NodeID /\ e[2] \in NodeID /\ edges[e] \in Nat
  BY Graph, NumNodesAssumption, DistInfAssumption
<1>1. /\ \A k \in 0 .. NumNodes : \A n \in NodeID : SSWP!Values[k][n] \in Width
      /\ \A n \in NodeID : SSWP!Values[0][n] = IF n = source THEN DistInf ELSE 0
  BY WidthsInRounds DEF WStarting
<1>2. ASSUME NEW k \in 0 .. NumNodes - 1, NEW n \in NodeID
      PROVE  /\ SSWP!Values[k][n] <= SSWP!Values[k + 1][n]
             /\ \A e \in DOMAIN edges :
                   e[2] = n => Narrower(SSWP!Values[k][e[1]], edges[e]) <= SSWP!Values[k + 1][n]
             /\ \/ SSWP!Values[k + 1][n] = SSWP!Values[k][n]
                \/ \E e \in DOMAIN edges :
                      /\ e[2] = n
                      /\ SSWP!Values[k + 1][n] = Narrower(SSWP!Values[k][e[1]], edges[e])
  <2>1. k \in 0 .. NumNodes /\ k + 1 \in 0 .. NumNodes
    BY <1>0
  <2>2. PICK g \in [NodeID -> Width] : g = SSWP!Values[k]
    BY <2>1, WidthsInRounds
  <2>3. PICK x : x = SSWP!Values[k + 1][n]
    OBVIOUS
  <2>4. x = IF WOffered(g, n) = {} THEN g[n] ELSE SSWP!Best(WOffered(g, n))
    BY <2>2, <2>3, WidthsInRounds DEF WOffering
  <2>5. x \in Width /\ g[n] \in Width
    BY <1>1, <2>1, <2>3
  <2>6. /\ WOffered(g, n) # {} => x \in WOffered(g, n)
        /\ \A y \in WOffered(g, n) : y <= x
    BY <2>4, WidthOffered
  <2>7. \A y \in WOffered(g, n) : y > g[n] /\ y \in Width
    BY WidthOffered DEF WOffered
  <2>8. g[n] <= x
    BY <1>0, <2>4, <2>5, <2>6, <2>7 DEF Width
  <2>9. ASSUME NEW e \in DOMAIN edges, e[2] = n PROVE Narrower(g[e[1]], edges[e]) <= x
    <3>1. PICK y : y = Narrower(g[e[1]], edges[e])
      OBVIOUS
    <3>2. g[e[1]] \in Width /\ edges[e] \in Nat
      BY <1>0
    <3>3. y \in Width /\ y <= g[e[1]]
      BY <3>1, <3>2, NarrowerIs
    <3>4. CASE y > g[n]
      <4>1. g[e[1]] # 0
        BY <1>0, <2>5, <3>2, <3>3, <3>4 DEF Width
      <4>2. y \in WOffered(g, n)
        BY <2>9, <3>1, <3>4, <4>1 DEF WOffered
      <4> QED
        BY <2>6, <3>1, <4>2
    <3>5. CASE ~(y > g[n])
      BY <1>0, <2>5, <2>8, <3>1, <3>3, <3>5 DEF Width
    <3> QED
      BY <3>4, <3>5
  <2>10. \/ x = g[n]
         \/ \E e \in DOMAIN edges : e[2] = n /\ x = Narrower(g[e[1]], edges[e])
    BY <2>4, <2>6 DEF WOffered
  <2> QED
    BY <2>2, <2>3, <2>8, <2>9, <2>10
<1> QED
  BY <1>0, <1>1, <1>2

(* As many rounds as there are vertices find the greatest widths.          *)
LEMMA WidestClosed ==
    ASSUME Input, source \in NodeID
    PROVE  /\ \A n \in NodeID : Widest(n) \in Width
           /\ Widest(source) = DistInf
           /\ \A e \in DOMAIN edges : Narrower(Widest(e[1]), edges[e]) <= Widest(e[2])
<1> DEFINE V(k, n) == SSWP!Values[k][n]
<1>0. /\ NumNodes \in Nat /\ NumNodes # 0 /\ DistInf \in Nat
      /\ 0 \in 0 .. NumNodes /\ NumNodes \in 0 .. NumNodes
      /\ \A e \in DOMAIN edges : e[1] \in NodeID /\ e[2] \in NodeID /\ edges[e] \in Nat
  BY Graph, NumNodesAssumption, DistInfAssumption
<1>1. \A k \in 0 .. NumNodes : \A n \in NodeID : V(k, n) \in Width /\ V(k, n) \in Nat
  BY WidthRules DEF Width
<1>2. Widest(source) = DistInf
  <2> DEFINE S == {k \in Nat : k <= NumNodes => V(k, source) = DistInf}
  <2>1. 0 \in S
    BY WidthRules
  <2>2. ASSUME NEW k \in Nat, k \in S PROVE k + 1 \in S
    <3> SUFFICES ASSUME k + 1 <= NumNodes PROVE V(k + 1, source) = DistInf
      OBVIOUS
    <3>1. k \in 0 .. NumNodes - 1 /\ k + 1 \in 0 .. NumNodes /\ k <= NumNodes
      BY <1>0
    <3>2. V(k, source) = DistInf /\ V(k, source) <= V(k + 1, source)
      BY <2>2, <3>1, WidthRules
    <3>3. V(k + 1, source) \in Width
      BY <1>1, <3>1
    <3> QED
      BY <1>0, <3>2, <3>3 DEF Width
  <2>3. Nat \subseteq S
    <3> HIDE DEF S
    <3> QED
      BY <2>1, <2>2, SetInduction
  <2> QED
    BY <1>0, <2>3 DEF Widest
<1>3. ASSUME NEW e \in DOMAIN edges PROVE Narrower(Widest(e[1]), edges[e]) <= Widest(e[2])
  <2> DEFINE x == Narrower(Widest(e[1]), edges[e])
             G == [k \in 0 .. NumNodes |-> {m \in NodeID : V(k, m) >= x}]
  <2>1. x \in Width /\ x <= Widest(e[1]) /\ x <= edges[e] /\ x \in Nat
    <3>1. PICK y \in Width : y = Widest(e[1])
      BY <1>0, <1>1 DEF Widest
    <3>2. PICK w \in Nat : w = edges[e]
      BY <1>0
    <3>3. Narrower(y, w) \in Width /\ Narrower(y, w) <= y /\ Narrower(y, w) <= w
      BY NarrowerIs
    <3> QED
      BY <3>1, <3>2, <3>3 DEF Width
  <2> HIDE DEF x
  <2>2. \A k \in 0 .. NumNodes : G[k] = {m \in NodeID : V(k, m) >= x}
    OBVIOUS
  <2> HIDE DEF G
  <2>3. G[0] # {}
    <3>1. V(0, source) = DistInf /\ DistInf >= x
      BY <1>0, <2>1, WidthRules DEF Width
    <3> QED
      BY <1>0, <2>2, <3>1
  <2>4. ASSUME NEW k \in 0 .. NumNodes - 1
        PROVE  /\ k \in 0 .. NumNodes /\ k + 1 \in 0 .. NumNodes
               /\ G[k] \subseteq G[k + 1]
    <3>1. k \in 0 .. NumNodes /\ k + 1 \in 0 .. NumNodes
      BY <1>0
    <3>2. \A m \in NodeID : V(k, m) >= x => V(k + 1, m) >= x
      <4> SUFFICES ASSUME NEW m \in NodeID, V(k, m) >= x PROVE V(k + 1, m) >= x
        OBVIOUS
      <4>1. V(k, m) <= V(k + 1, m) /\ V(k, m) \in Nat /\ V(k + 1, m) \in Nat
        BY <1>1, <3>1, WidthRules
      <4> HIDE DEF V
      <4> QED
        BY <2>1, <4>1
    <3> QED
      BY <2>2, <3>1, <3>2
  <2>5. ASSUME NEW k \in 0 .. NumNodes - 1, NEW m \in NodeID
        PROVE  m \in G[k + 1] <=>
                  \/ m \in G[k]
                  \/ \E d \in DOMAIN edges : d[2] = m /\ d[1] \in G[k] /\ edges[d] >= x
    <3>1. k \in 0 .. NumNodes /\ k + 1 \in 0 .. NumNodes
      BY <1>0
    <3>2. ASSUME m \in G[k + 1], m \notin G[k]
          PROVE  \E d \in DOMAIN edges : d[2] = m /\ d[1] \in G[k] /\ edges[d] >= x
      <4>1. V(k + 1, m) >= x /\ V(k + 1, m) # V(k, m)
        BY <2>2, <3>1, <3>2
      <4>2. PICK d \in DOMAIN edges : d[2] = m /\ V(k + 1, m) = Narrower(V(k, d[1]), edges[d])
        BY <4>1, WidthRules
      <4>3. PICK y \in Width : y = V(k, d[1])
        BY <1>0, <1>1, <3>1
      <4>4. Narrower(y, edges[d]) \in Width /\ Narrower(y, edges[d]) <= y
            /\ Narrower(y, edges[d]) <= edges[d]
        BY <1>0, NarrowerIs
      <4>5. y >= x /\ edges[d] >= x
        BY <1>0, <2>1, <4>1, <4>2, <4>3, <4>4 DEF Width
      <4> QED
        BY <1>0, <2>2, <3>1, <4>2, <4>3, <4>5
    <3>3. ASSUME NEW d \in DOMAIN edges, d[2] = m, d[1] \in G[k], edges[d] >= x
          PROVE  m \in G[k + 1]
      <4>1. PICK y \in Width : y = V(k, d[1])
        BY <1>0, <1>1, <3>1
      <4>2. y >= x
        BY <2>2, <3>1, <3>3, <4>1
      <4>3. Narrower(y, edges[d]) >= x /\ Narrower(y, edges[d]) \in Width
        BY <1>0, <2>1, <3>3, <4>2, NarrowerIs DEF Width
      <4>4. Narrower(y, edges[d]) <= V(k + 1, m) /\ V(k + 1, m) \in Width
        BY <1>0, <1>1, <3>1, <3>3, <4>1, WidthRules
      <4>5. V(k + 1, m) >= x
        BY <1>0, <2>1, <4>3, <4>4 DEF Width
      <4> QED
        BY <2>2, <3>1, <4>5
    <3> QED
      BY <2>4, <3>2, <3>3
  <2>6. PICK k \in 0 .. NumNodes - 1 : G[k] = G[k + 1]
    <3>1. \A j \in 0 .. NumNodes : G[j] \in SUBSET NodeID
      BY <2>2
    <3> QED
      BY <2>3, <2>4, <3>1, StopsGrowing
  <2> DEFINE S == {j \in Nat : k + j <= NumNodes => G[k + j] = G[k]}
  <2>7. 0 \in S
    OBVIOUS
  <2>8. ASSUME NEW j \in Nat, j \in S PROVE j + 1 \in S
    <3> SUFFICES ASSUME k + (j + 1) <= NumNodes PROVE G[k + (j + 1)] = G[k]
      OBVIOUS
    <3>1. PICK i \in 0 .. NumNodes - 1 : i = k + j
      BY <1>0
    <3>2. G[i] = G[k] /\ k + (j + 1) = i + 1
      BY <1>0, <2>8, <3>1
    <3>3. G[i] \subseteq NodeID /\ G[i + 1] \subseteq NodeID /\ G[k + 1] \subseteq NodeID
      BY <2>2, <2>4
    <3>4. \A m \in NodeID : m \in G[i + 1] <=> m \in G[k + 1]
      <4> SUFFICES ASSUME NEW m \in NodeID PROVE m \in G[i + 1] <=> m \in G[k + 1]
        OBVIOUS
      <4>1. m \in G[i + 1] <=>
                  \/ m \in G[i]
                  \/ \E d \in DOMAIN edges : d[2] = m /\ d[1] \in G[i] /\ edges[d] >= x
        BY <2>5
      <4>2. m \in G[k + 1] <=>
                  \/ m \in G[k]
                  \/ \E d \in DOMAIN edges : d[2] = m /\ d[1] \in G[k] /\ edges[d] >= x
        BY <2>5
      <4> QED
        BY <3>2, <4>1, <4>2
    <3>5. G[i + 1] = G[k + 1]
      BY <3>3, <3>4
    <3> QED
      BY <2>6, <3>2, <3>5
  <2>9. Nat \subseteq S
    <3> HIDE DEF S
    <3> QED
      BY <2>7, <2>8, SetInduction
  <2>10. G[NumNodes] = G[k]
    <3>1. PICK j \in Nat : k + j = NumNodes
      <4>1. NumNodes - k \in Nat /\ k + (NumNodes - k) = NumNodes
        BY <1>0
      <4> QED
        BY <4>1
    <3>2. j \in S
      <4> HIDE DEF S
      <4> QED
        BY <2>9
    <3>3. G[k + j] = G[k]
      BY <1>0, <3>1, <3>2
    <3> QED
      BY <3>1, <3>3
  <2>11. e[1] \in G[NumNodes]
    BY <1>0, <1>1, <2>1, <2>2 DEF Widest
  <2>12. e[2] \in G[k + 1]
    BY <1>0, <2>1, <2>5, <2>10, <2>11
  <2>13. Widest(e[2]) >= x
    BY <1>0, <2>2, <2>6, <2>10, <2>12 DEF Widest
  <2> QED
    BY <1>0, <1>1, <2>1, <2>13 DEF Widest, x
<1> QED
  BY <1>0, <1>1, <1>2, <1>3 DEF Widest

(* Widths that no edge would improve are no less.                          *)
LEMMA NoWider ==
    ASSUME Input, source \in NodeID, property \in [NodeID -> Width],
           property[source] = DistInf, \A e \in DOMAIN edges : WDone(e)
    PROVE  \A n \in NodeID : Widest(n) <= property[n]
<1> DEFINE V(k, n) == SSWP!Values[k][n]
           S == {k \in Nat : k <= NumNodes => \A n \in NodeID : V(k, n) <= property[n]}
<1>0. /\ NumNodes \in Nat /\ DistInf \in Nat /\ NumNodes \in 0 .. NumNodes
      /\ \A e \in DOMAIN edges : e[1] \in NodeID /\ e[2] \in NodeID /\ edges[e] \in Nat
  BY Graph, NumNodesAssumption, DistInfAssumption
<1>1. \A k \in 0 .. NumNodes : \A n \in NodeID : V(k, n) \in Width
  BY WidthRules
<1>2. 0 \in S
  <2>1. \A n \in NodeID : V(0, n) <= property[n]
    BY <1>0, WidthRules DEF Width
  <2> QED
    BY <2>1
<1>3. ASSUME NEW k \in Nat, k \in S PROVE k + 1 \in S
  <2> SUFFICES ASSUME k + 1 <= NumNodes, NEW n \in NodeID PROVE V(k + 1, n) <= property[n]
    OBVIOUS
  <2>1. k \in 0 .. NumNodes - 1 /\ k \in 0 .. NumNodes /\ k <= NumNodes
    BY <1>0
  <2>2. CASE V(k + 1, n) = V(k, n)
    BY <1>3, <2>1, <2>2
  <2>3. CASE V(k + 1, n) # V(k, n)
    <3>1. PICK e \in DOMAIN edges : e[2] = n /\ V(k + 1, n) = Narrower(V(k, e[1]), edges[e])
      BY <2>1, <2>3, WidthRules
    <3>2. V(k, e[1]) <= property[e[1]]
      BY <1>0, <1>3, <2>1
    <3>3. PICK v \in Width, p \in Width, q \in Width, w \in Nat :
              v = V(k, e[1]) /\ p = property[e[1]] /\ q = property[n] /\ w = edges[e]
      BY <1>0, <1>1, <2>1
    <3>4. Narrower(p, w) <= q
      BY <3>1, <3>3, NarrowerIs DEF WDone
    <3>5. Narrower(v, w) <= q
      BY <1>0, <3>2, <3>3, <3>4 DEF Narrower, Width
    <3> QED
      BY <3>1, <3>3, <3>5
  <2> QED
    BY <2>2, <2>3
<1>4. Nat \subseteq S
  <2> HIDE DEF S
  <2> QED
    BY <1>2, <1>3, SetInduction
<1> QED
  BY <1>0, <1>4 DEF Widest

-----------------------------------------------------------------------------
(* The steps of a thread.                                                  *)
LEMMA WNoJob == SSWP!NoJob \in WJob
BY NumNodesAssumption, DistInfAssumption DEF SSWP!NoJob, WJob, NodeID

LEMMA WMoved ==
    ASSUME WTyped, NEW t \in Threads, NEW label \in WLabels, NEW locals \in WJob,
           SSWP!Goto(t, label, locals)
    PROVE  /\ pc'[t] = label /\ job'[t] = locals
           /\ \A s \in Threads : s # t => pc'[s] = pc[s] /\ job'[s] = job[s]
           /\ pc' \in [Threads -> WLabels] /\ job' \in [Threads -> WJob]
BY DEF WTyped, SSWP!Goto

LEMMA WFacts ==
    ASSUME WRound
    PROVE  /\ Input /\ source \in NodeID /\ curr \in Seq(NodeID) /\ next \in Seq(NodeID)
           /\ Len(next) \in Nat /\ DOMAIN next = 1 .. Len(next)
           /\ \A i \in DOMAIN curr : curr[i] \in NodeID
           /\ \A i \in DOMAIN next : next[i] \in NodeID
           /\ property \in [NodeID -> Width]
           /\ \A n \in NodeID : property[n] \in Width /\ property[n] \in Nat
           /\ \A n \in NodeID : Widest(n) \in Width /\ Widest(n) \in Nat
           /\ \A e \in DOMAIN edges : /\ e[1] \in NodeID /\ e[2] \in NodeID
                                      /\ edges[e] \in Nat
           /\ \A e : \A u : e \in SSWP!OutOf(u) <=> e \in DOMAIN edges /\ e[1] = u
           /\ DOMAIN edges \subseteq NodeID \X NodeID
           /\ DistInf \in Nat /\ \A x \in Width : x \in Nat
<1>1. Input /\ curr \in Seq(NodeID) /\ next \in Seq(NodeID) /\ source \in NodeID
      /\ property \in [NodeID -> Width]
  BY DEF WRound, WTyped, Width
<1>2. /\ Len(next) \in Nat /\ DOMAIN next = 1 .. Len(next)
      /\ \A i \in DOMAIN curr : curr[i] \in NodeID
      /\ \A i \in DOMAIN next : next[i] \in NodeID
  BY <1>1
<1>3. \A e : \A u : e \in SSWP!OutOf(u) <=> e \in DOMAIN edges /\ e[1] = u
  BY DEF SSWP!OutOf
<1>4. DistInf \in Nat /\ \A x \in Width : x \in Nat
  BY DistInfAssumption DEF Width
<1>5. \A n \in NodeID : Widest(n) \in Width
  BY <1>1, WidestClosed
<1> QED
  BY <1>1, <1>2, <1>3, <1>4, <1>5, Graph

LEMMA WThread ==
    ASSUME WRound, NEW t \in Threads
    PROVE  /\ job[t] \in WJob /\ WOffer(t)
           /\ job[t].u \in NodeID /\ job[t].left \subseteq NodeID \X NodeID
           /\ job[t].old \in Width /\ job[t].new \in Width
           /\ job[t].old \in Nat /\ job[t].new \in Nat
           /\ WHas(t) => \A e \in job[t].left : e \in DOMAIN edges /\ e[1] = job[t].u
           /\ WOnEdge(t) =>
                 /\ job[t].e \in DOMAIN edges /\ job[t].e[1] = job[t].u
                 /\ job[t].e[2] \in NodeID
<1>1. job[t] \in WJob /\ WOffer(t)
  BY DEF WRound, WTyped
<1>2. /\ job[t].u \in NodeID /\ job[t].left \subseteq NodeID \X NodeID
      /\ job[t].old \in Width /\ job[t].new \in Width
  BY <1>1 DEF WJob, Width
<1> QED
  BY SMTT(30), <1>1, <1>2, WFacts DEF WOffer

(* A step with which a thread goes on and neither stores nor queues.       *)
LEMMA WQuietStep ==
    ASSUME WRound, NEW t \in Threads, NEW label \in WLabels, NEW locals \in WJob,
           SSWP!Goto(t, label, locals),
           SSWP!Fixed, UNCHANGED <<property, next, visited>>,
           todo' \subseteq todo, label = "barrier" => todo' = {},
           WOffer(t)',
           \A e \in DOMAIN edges :
               ~WDone(e) /\ (WHolds(t, e) \/ \E i \in todo : curr[i] = e[1]) =>
               WHolds(t, e)' \/ \E i \in todo' : curr[i] = e[1]
    PROVE  WRound'
<1>1. /\ pc'[t] = label /\ job'[t] = locals
      /\ \A s \in Threads : s # t => pc'[s] = pc[s] /\ job'[s] = job[s]
      /\ pc' \in [Threads -> WLabels] /\ job' \in [Threads -> WJob]
  BY WMoved DEF WRound
<1>2. UNCHANGED <<directed, edges, source, phase, curr, property, next, visited>>
  BY DEF SSWP!Fixed, SSWP!input
<1>3. WTyped'
  BY <1>1, <1>2 DEF WRound, WTyped, Input
<1>4. \A n : Widest(n)' = Widest(n)
  BY <1>2 DEF Widest, SSWP!Values
<1>5. WQueues' /\ WSound'
  BY <1>2, <1>4 DEF WRound, WQueues, WSound
<1>6. \A s \in Threads : WOffer(s)'
  <2>1. ASSUME NEW s \in Threads, s # t PROVE WOffer(s)'
    <3>1. WOffer(s) /\ pc'[s] = pc[s] /\ job'[s] = job[s]
      BY <1>1, <2>1 DEF WRound
    <3> QED
      BY <1>2, <1>4, <3>1 DEF WOffer, WHas, WOnEdge, WOffers, SSWP!OutOf
  <2> QED
    BY <2>1
<1>7. WAllSeenTo'
  <2> SUFFICES ASSUME NEW e \in DOMAIN edges, ~WDone(e) PROVE WWaits(e)'
    BY <1>2 DEF WAllSeenTo, WDone
  <2>1. CASE WHolds(t, e) \/ \E i \in todo : curr[i] = e[1]
    BY <1>2, <2>1 DEF WWaits
  <2>2. CASE e[1] \in visited
    BY <1>2, <2>2 DEF WWaits
  <2>3. ASSUME NEW s \in Threads, s # t, WHolds(s, e) PROVE WWaits(e)'
    <3>1. WHolds(s, e)'
      BY <1>1, <1>2, <2>3 DEF WHolds, WHas, WOffers
    <3> QED
      BY <3>1 DEF WWaits
  <2> QED
    BY <2>1, <2>2, <2>3 DEF WRound, WAllSeenTo, WWaits
<1> QED
  BY <1>3, <1>5, <1>6, <1>7 DEF WRound

LEMMA WTakeStep ==
    ASSUME WRound, NEW t \in Threads, SSWP!Take(t)
    PROVE  WRound'
<1>0. pc[t] = "take" /\ SSWP!Fixed /\ UNCHANGED <<property, next, visited>>
      /\ UNCHANGED <<directed, edges, source, curr>>
  BY DEF SSWP!Take, SSWP!Fixed, SSWP!input
<1>1. PICK i \in todo :
        /\ todo' = todo \ {i}
        /\ SSWP!Goto(t, "edge",
                     [SSWP!NoJob EXCEPT !.u = curr[i], !.left = SSWP!OutOf(curr[i])])
  BY DEF SSWP!Take
<1>2. i \in DOMAIN curr /\ curr[i] \in NodeID
  BY WFacts DEF WRound, WTyped
<1>3. PICK r : r = [SSWP!NoJob EXCEPT !.u = curr[i], !.left = SSWP!OutOf(curr[i])]
  OBVIOUS
<1>4. r \in WJob /\ r.u = curr[i] /\ r.left = SSWP!OutOf(curr[i])
  <2>1. SSWP!OutOf(curr[i]) \subseteq NodeID \X NodeID
    BY WFacts
  <2> QED
    BY <1>2, <1>3, <2>1, WNoJob DEF WJob, SSWP!NoJob
<1>5. pc'[t] = "edge" /\ job'[t] = r
  BY <1>1, <1>3, <1>4, WMoved DEF WLabels, WRound
<1>6. WOffer(t)'
  BY <1>0, <1>2, <1>4, <1>5 DEF WOffer, WHas, WOnEdge, WOffers, SSWP!OutOf
<1>7. ASSUME NEW e \in DOMAIN edges, WHolds(t, e) \/ \E k \in todo : curr[k] = e[1]
      PROVE  WHolds(t, e)' \/ \E k \in todo' : curr[k] = e[1]
  <2>1. PICK k \in todo : curr[k] = e[1]
    BY <1>0, <1>7 DEF WHolds, WHas
  <2>2. CASE k = i
    <3>1. e \in r.left /\ r.u = e[1]
      BY <1>4, <2>1, <2>2, WFacts
    <3> QED
      BY <1>5, <3>1 DEF WHolds, WHas
  <2>3. CASE k # i
    BY <1>1, <2>1, <2>3
  <2> QED
    BY <2>2, <2>3
<1> QED
  BY <1>0, <1>1, <1>3, <1>4, <1>6, <1>7, WQuietStep DEF WLabels

LEMMA WReadTargetStep ==
    ASSUME WRound, NEW t \in Threads, SSWP!ReadTarget(t)
    PROVE  WRound'
<1>0. pc[t] = "edge" /\ WHas(t) /\ SSWP!Fixed /\ UNCHANGED <<property, next, todo, visited>>
      /\ UNCHANGED <<directed, edges, source, curr>>
  BY DEF SSWP!ReadTarget, SSWP!Fixed, SSWP!input, WHas
<1>1. PICK e \in job[t].left :
        SSWP!Goto(t, "own", [job[t] EXCEPT !.left = @ \ {e}, !.e = e, !.old = property[e[2]]])
  BY DEF SSWP!ReadTarget
<1>2. e \in DOMAIN edges /\ e[1] = job[t].u /\ e[2] \in NodeID /\ e \in NodeID \X NodeID
      /\ property[e[2]] \in Width /\ property[e[2]] \in Nat
      /\ e \in SSWP!OutOf(job[t].u) /\ job[t].left \subseteq SSWP!OutOf(job[t].u)
  BY <1>0, WThread, WFacts DEF WOffer
<1>3. PICK r : r = [job[t] EXCEPT !.left = @ \ {e}, !.e = e, !.old = property[e[2]]]
  OBVIOUS
<1>4. /\ r \in WJob /\ r.u = job[t].u /\ r.left = job[t].left \ {e} /\ r.e = e
      /\ r.old = property[e[2]]
  <2>1. PICK q \in WJob : q = job[t]
    BY WThread
  <2>2. PICK rest, old : rest = q.left \ {e} /\ old = property[e[2]]
    OBVIOUS
  <2>3. rest \in SUBSET (NodeID \X NodeID) /\ old \in 0 .. DistInf
    BY <1>2, <2>2 DEF WJob, Width
  <2>4. r = [q EXCEPT !.left = rest, !.e = e, !.old = old]
    BY <1>3, <2>1, <2>2
  <2> QED
    BY <1>2, <2>1, <2>2, <2>3, <2>4 DEF WJob
<1>5. pc'[t] = "own" /\ job'[t] = r
  BY <1>1, <1>3, <1>4, WMoved DEF WLabels, WRound
<1>6. WOffer(t)'
  BY <1>0, <1>2, <1>4, <1>5 DEF WOffer, WHas, WOnEdge, WOffers, SSWP!OutOf
<1>7. ASSUME NEW d \in DOMAIN edges, WHolds(t, d) PROVE WHolds(t, d)'
  BY <1>0, <1>4, <1>5, <1>7 DEF WHolds, WHas, WOffers
<1> QED
  BY <1>0, <1>1, <1>3, <1>4, <1>6, <1>7, WQuietStep DEF WLabels

(* What is offered over an edge is no wider than the best path to its end. *)
LEMMA WReadOwnStep ==
    ASSUME WRound, NEW t \in Threads, SSWP!ReadOwn(t)
    PROVE  WRound'
<1>0. pc[t] = "own" /\ WHas(t) /\ WOnEdge(t) /\ ~WOffers(t)
      /\ SSWP!Fixed /\ UNCHANGED <<property, next, todo, visited>>
      /\ UNCHANGED <<directed, edges, source, curr>>
  BY DEF SSWP!ReadOwn, SSWP!Fixed, SSWP!input, WHas, WOnEdge, WOffers
<1>1. /\ job[t].e \in DOMAIN edges /\ job[t].e[1] = job[t].u /\ job[t].e[2] \in NodeID
      /\ job[t].old \in Nat /\ job[t].u \in NodeID
      /\ job[t].left \subseteq SSWP!OutOf(job[t].u) /\ job[t].e \in SSWP!OutOf(job[t].u)
      /\ job[t].old <= property[job[t].e[2]]
  BY <1>0, WThread DEF WOffer
<1>2. PICK p, w, x : /\ p \in Width /\ p = property[job[t].u]
                     /\ w \in Nat /\ w = edges[job[t].e]
                     /\ x = Narrower(p, w)
  BY <1>1, WFacts
<1>3. x \in Width /\ x \in Nat /\ x <= Widest(job[t].e[2])
  <2>1. x \in Width /\ x <= p /\ x <= w
    BY <1>2, NarrowerIs
  <2>2. PICK q \in Width : q = Widest(job[t].u)
    BY <1>1, WFacts
  <2>3. p <= q /\ x \in Nat
    BY <1>1, <1>2, <2>1, <2>2, WFacts DEF WRound, WSound
  <2>4. x <= Narrower(q, w) /\ Narrower(q, w) \in Nat
    <3>1. x <= q
      BY <1>2, <2>1, <2>3, WFacts
    <3>2. \A y \in Nat : y <= q /\ y <= w => y <= Narrower(q, w)
      BY <1>2, NarrowerIs
    <3>3. Narrower(q, w) \in Width
      BY <1>2, NarrowerIs
    <3> QED
      BY <2>1, <2>3, <3>1, <3>2, <3>3, WFacts
  <2>5. Narrower(q, w) <= Widest(job[t].e[2])
    <3>1. Input /\ source \in NodeID
      BY WFacts
    <3> QED
      BY <1>1, <1>2, <2>2, <3>1, WidestClosed
  <2>6. Widest(job[t].e[2]) \in Nat
    BY <1>1, WFacts
  <2> QED
    BY <2>1, <2>3, <2>4, <2>5, <2>6
<1>4. PICK r : r = [job[t] EXCEPT !.new = x]
  OBVIOUS
<1>5. /\ r \in WJob /\ r.u = job[t].u /\ r.left = job[t].left /\ r.e = job[t].e
      /\ r.old = job[t].old /\ r.new = x
  <2>1. PICK q \in WJob : q = job[t]
    BY WThread
  <2>2. r = [q EXCEPT !.new = x] /\ x \in 0 .. DistInf
    BY <1>3, <1>4, <2>1 DEF Width
  <2> QED
    BY <2>1, <2>2 DEF WJob
<1>6. r = [job[t] EXCEPT !.new = SswpExtend(property[job[t].u], edges[job[t].e])]
  BY <1>2, <1>4 DEF SswpExtend, Narrower
<1>7. /\ r.new > r.old => SSWP!Goto(t, "mark", r)
      /\ ~(r.new > r.old) => SSWP!Goto(t, "edge", r)
  BY <1>6 DEF SSWP!ReadOwn, SswpBetter
<1>8. CASE r.new > r.old
  <2>1. pc'[t] = "mark" /\ job'[t] = r
    BY <1>5, <1>7, <1>8, WMoved DEF WLabels, WRound
  <2>2. \A n : Widest(n)' = Widest(n)
    BY <1>0 DEF Widest, SSWP!Values
  <2>3. r.old < r.new
    BY <1>1, <1>3, <1>5, <1>8
  <2>4. WOffer(t)'
    BY <1>0, <1>1, <1>3, <1>5, <2>1, <2>2, <2>3
    DEF WOffer, WHas, WOnEdge, WOffers, SSWP!OutOf
  <2>5. ASSUME NEW d \in DOMAIN edges, WHolds(t, d) PROVE WHolds(t, d)'
    <3>1. job[t].u = d[1] /\ (d \in job[t].left \/ job[t].e = d)
      BY <1>0, <2>5 DEF WHolds
    <3>2. CASE d \in job[t].left
      BY <1>5, <2>1, <3>1, <3>2 DEF WHolds, WHas
    <3>3. CASE job[t].e = d
      <4>1. x >= Narrower(property[d[1]], edges[d])
        BY <1>2, <1>3, <3>1, <3>3
      <4> QED
        BY <1>0, <1>5, <2>1, <3>1, <3>3, <4>1 DEF WHolds, WHas, WOffers, Narrower
    <3> QED
      BY <3>1, <3>2, <3>3
  <2> QED
    BY <1>0, <1>5, <1>7, <1>8, <2>4, <2>5, WQuietStep DEF WLabels
<1>9. CASE ~(r.new > r.old)
  <2>1. pc'[t] = "edge" /\ job'[t] = r
    BY <1>5, <1>7, <1>9, WMoved DEF WLabels, WRound
  <2>2. WDone(job[t].e)
    <3>1. x <= job[t].old /\ property[job[t].e[2]] \in Nat
      BY <1>1, <1>3, <1>5, <1>9, WFacts
    <3>2. property[job[t].e[2]] >= x
      BY <1>1, <1>3, <3>1
    <3> QED
      BY <1>1, <1>2, <3>2 DEF WDone
  <2>3. WOffer(t)'
    BY <1>0, <1>1, <1>5, <2>1 DEF WOffer, WHas, WOnEdge, WOffers, SSWP!OutOf
  <2>4. ASSUME NEW d \in DOMAIN edges, ~WDone(d), WHolds(t, d) PROVE WHolds(t, d)'
    BY <1>0, <1>5, <2>1, <2>2, <2>4 DEF WHolds, WHas
  <2> QED
    BY <1>0, <1>5, <1>7, <1>9, <2>3, <2>4, WQuietStep DEF WLabels
<1> QED
  BY <1>8, <1>9

(* Lost the race: the value that won may do as well.                       *)
LEMMA WReloadStep ==
    ASSUME WRound, NEW t \in Threads, SSWP!Reload(t)
    PROVE  WRound'
<1>0. pc[t] = "reload" /\ WHas(t) /\ WOnEdge(t) /\ WOffers(t)
      /\ SSWP!Fixed /\ UNCHANGED <<property, next, todo, visited>>
      /\ UNCHANGED <<directed, edges, source, curr>>
  BY DEF SSWP!Reload, SSWP!Fixed, SSWP!input, WHas, WOnEdge, WOffers
<1>1. /\ job[t].e \in DOMAIN edges /\ job[t].e[1] = job[t].u /\ job[t].e[2] \in NodeID
      /\ job[t].new \in Nat /\ job[t].u \in NodeID
      /\ job[t].left \subseteq SSWP!OutOf(job[t].u) /\ job[t].e \in SSWP!OutOf(job[t].u)
      /\ job[t].new <= Widest(job[t].e[2]) /\ job[t].e[2] \in visited
  BY <1>0, WThread DEF WOffer
<1>2. PICK x \in Width : x = property[job[t].e[2]]
  BY <1>1, WFacts
<1>3. PICK r : r = [job[t] EXCEPT !.old = x]
  OBVIOUS
<1>4. /\ r \in WJob /\ r.u = job[t].u /\ r.left = job[t].left /\ r.e = job[t].e
      /\ r.old = x /\ r.new = job[t].new /\ x \in Nat
  <2>1. PICK q \in WJob : q = job[t]
    BY WThread
  <2>2. r = [q EXCEPT !.old = x] /\ x \in 0 .. DistInf /\ x \in Nat
    BY <1>3, <2>1, WFacts DEF Width
  <2> QED
    BY <2>1, <2>2 DEF WJob
<1>5. /\ r.new > r.old => SSWP!Goto(t, "cas", r)
      /\ ~(r.new > r.old) => SSWP!Goto(t, "edge", r)
  BY <1>2, <1>3 DEF SSWP!Reload, SswpBetter
<1>6. \A n : Widest(n)' = Widest(n)
  BY <1>0 DEF Widest, SSWP!Values
<1>7. CASE r.new > r.old
  <2>1. pc'[t] = "cas" /\ job'[t] = r
    BY <1>4, <1>5, <1>7, WMoved DEF WLabels, WRound
  <2>2. r.old < r.new
    BY <1>1, <1>4, <1>7
  <2>3. WOffer(t)'
    BY <1>0, <1>1, <1>4, <1>6, <2>1, <2>2 DEF WOffer, WHas, WOnEdge, WOffers, SSWP!OutOf
  <2>4. ASSUME NEW d \in DOMAIN edges, WHolds(t, d) PROVE WHolds(t, d)'
    BY <1>0, <1>4, <2>1, <2>4 DEF WHolds, WHas, WOffers
  <2> QED
    BY <1>0, <1>4, <1>5, <1>7, <2>3, <2>4, WQuietStep DEF WLabels
<1>8. CASE ~(r.new > r.old)
  <2>1. pc'[t] = "edge" /\ job'[t] = r
    BY <1>4, <1>5, <1>8, WMoved DEF WLabels, WRound
  <2>2. property[job[t].e[2]] >= job[t].new
    BY <1>1, <1>2, <1>4, <1>8
  <2>3. WOffer(t)'
    BY <1>0, <1>1, <1>4, <2>1 DEF WOffer, WHas, WOnEdge, WOffers, SSWP!OutOf
  <2>4. ASSUME NEW d \in DOMAIN edges, ~WDone(d), WHolds(t, d) PROVE WHolds(t, d)'
    <3>1. d \in job[t].left
      <4> SUFFICES ASSUME job[t].e = d, job[t].new >= Narrower(property[d[1]], edges[d])
                   PROVE  WDone(d)
        BY <1>0, <2>4 DEF WHolds
      <4>1. PICK y \in Nat : y = Narrower(property[d[1]], edges[d])
        BY WFacts, NarrowerIs
      <4>2. property[d[2]] \in Nat
        BY WFacts
      <4> QED
        BY <1>1, <2>2, <4>1, <4>2 DEF WDone
    <3> QED
      BY <1>4, <2>1, <2>4, <3>1 DEF WHolds, WHas
  <2> QED
    BY <1>0, <1>4, <1>5, <1>8, <2>3, <2>4, WQuietStep DEF WLabels
<1> QED
  BY <1>7, <1>8

LEMMA WNoEdgeLeftStep ==
    ASSUME WRound, NEW t \in Threads, SSWP!NoEdgeLeft(t)
    PROVE  WRound'
<1>0. /\ pc[t] = "edge" /\ job[t].left = {} /\ SSWP!Fixed
      /\ UNCHANGED <<property, next, todo, curr, visited>>
      /\ SSWP!Goto(t, "take", SSWP!NoJob)
  BY DEF SSWP!NoEdgeLeft, SSWP!Fixed
<1>1. pc'[t] = "take"
  BY <1>0, WNoJob, WMoved DEF WLabels, WRound
<1>2. WOffer(t)'
  BY <1>1 DEF WOffer, WHas, WOnEdge, WOffers
<1>3. \A d : ~WHolds(t, d)
  BY <1>0 DEF WHolds, WOffers
<1> QED
  BY <1>0, <1>2, <1>3, WNoJob, WQuietStep DEF WLabels

LEMMA WBarrierStep ==
    ASSUME WRound, NEW t \in Threads, SSWP!Barrier(t)
    PROVE  WRound'
<1>0. /\ pc[t] = "take" /\ todo = {} /\ SSWP!Fixed
      /\ UNCHANGED <<property, next, todo, curr, visited>>
      /\ SSWP!Goto(t, "barrier", SSWP!NoJob)
  BY DEF SSWP!Barrier, SSWP!Fixed
<1>1. pc'[t] = "barrier"
  BY <1>0, WNoJob, WMoved DEF WLabels, WRound
<1>2. WOffer(t)'
  BY <1>1 DEF WOffer, WHas, WOnEdge, WOffers
<1>3. \A d : ~WHolds(t, d)
  BY <1>0 DEF WHolds, WHas
<1> QED
  BY <1>0, <1>2, <1>3, WNoJob, WQuietStep DEF WLabels

(* Whoever marks a vertex as visited queues it, before it has its value.   *)
LEMMA WMarkStep ==
    ASSUME WRound, NEW t \in Threads, SSWP!Mark(t)
    PROVE  WRound'
<1> DEFINE v == job[t].e[2]
<1>0. pc[t] = "mark" /\ WHas(t) /\ WOnEdge(t) /\ WOffers(t)
      /\ UNCHANGED <<directed, edges, source, phase, curr, todo, property>>
      /\ SSWP!Goto(t, "cas", job[t])
  BY DEF SSWP!Mark, SSWP!Fixed, SSWP!input, WHas, WOnEdge, WOffers
<1>1. v \in NodeID /\ WOffer(t) /\ job[t] \in WJob
  BY <1>0, WThread
<1>2. /\ v \in visited => UNCHANGED <<visited, next>>
      /\ v \notin visited => visited' = visited \cup {v} /\ next' = Append(next, v)
  BY DEF SSWP!Mark
<1> HIDE DEF v
<1>3. /\ pc'[t] = "cas" /\ job'[t] = job[t]
      /\ \A s \in Threads : s # t => pc'[s] = pc[s]
      /\ \A s \in Threads : job'[s] = job[s]
      /\ pc' \in [Threads -> WLabels] /\ job' \in [Threads -> WJob]
  BY <1>0, <1>1, WMoved DEF WLabels, WRound
<1>4. visited' = visited \cup {v}
  BY <1>2
<1>5. next' \in Seq(NodeID) /\ WQueues'
  <2>1. CASE v \in visited
    BY <1>0, <1>2, <2>1, WFacts DEF WRound, WQueues
  <2>2. CASE v \notin visited
    <3>1. PICK l \in Nat : l = Len(next)
      BY WFacts
    <3>2. /\ DOMAIN next = 1 .. l /\ DOMAIN next' = 1 .. l + 1
          /\ next' \in Seq(NodeID) /\ next'[l + 1] = v
          /\ \A i \in 1 .. l : next'[i] = next[i]
          /\ \A i \in 1 .. l + 1 : i \in 1 .. l \/ i = l + 1
      <4>1. next \in Seq(NodeID) /\ v \in NodeID
        BY <1>1, WFacts
      <4> QED
        BY <1>2, <2>2, <3>1, <4>1
    <3>3. visited = {next[i] : i \in 1 .. l}
      BY <3>2 DEF WRound, WQueues
    <3>4. visited' = {next'[i] : i \in 1 .. l + 1}
      <4>1. \A n \in visited : \E i \in 1 .. l + 1 : n = next'[i]
        BY <3>2, <3>3
      <4>2. l + 1 \in 1 .. l + 1
        OBVIOUS
      <4>3. \A i \in 1 .. l + 1 : next'[i] \in visited \cup {v}
        BY <3>2, <3>3
      <4> QED
        BY <1>4, <3>2, <4>1, <4>2, <4>3
    <3>5. \A i \in 1 .. l : next[i] # v
      BY <2>2, <3>3
    <3>6. ASSUME NEW i \in 1 .. l + 1, NEW j \in 1 .. l + 1, next'[i] = next'[j] PROVE i = j
      <4>1. CASE i \in 1 .. l /\ j \in 1 .. l
        BY <3>2, <3>6, <4>1 DEF WRound, WQueues
      <4>2. CASE i = l + 1 \/ j = l + 1
        BY <3>2, <3>5, <3>6, <4>2
      <4> QED
        BY <3>2, <4>1, <4>2
    <3> QED
      BY <1>0, <3>2, <3>4, <3>6 DEF WRound, WQueues
  <2> QED
    BY <2>1, <2>2
<1>6. \A n : Widest(n)' = Widest(n)
  BY <1>0 DEF Widest, SSWP!Values
<1>7. WTyped' /\ WSound'
  BY <1>0, <1>3, <1>5, <1>6 DEF WRound, WTyped, WSound, Input
<1>8. \A s \in Threads : WOffer(s)'
  <2>1. WOffer(t)'
    BY <1>0, <1>1, <1>3, <1>4, <1>6
    DEF WOffer, WHas, WOnEdge, WOffers, SSWP!OutOf, v
  <2>2. ASSUME NEW s \in Threads, s # t PROVE WOffer(s)'
    <3>1. WOffer(s) /\ pc'[s] = pc[s] /\ job'[s] = job[s]
      BY <1>3, <2>2 DEF WRound
    <3> QED
      BY <1>0, <1>4, <1>6, <3>1 DEF WOffer, WHas, WOnEdge, WOffers, SSWP!OutOf
  <2> QED
    BY <2>1, <2>2
<1>9. WAllSeenTo'
  <2> SUFFICES ASSUME NEW e \in DOMAIN edges, ~WDone(e) PROVE WWaits(e)'
    BY <1>0 DEF WAllSeenTo, WDone
  <2>1. ASSUME NEW s \in Threads, WHolds(s, e) PROVE WHolds(s, e)'
    <3>1. CASE s = t
      BY <1>0, <1>3, <2>1, <3>1 DEF WHolds, WHas, WOffers
    <3>2. CASE s # t
      BY <1>0, <1>3, <2>1, <3>2 DEF WHolds, WHas, WOffers
    <3> QED
      BY <3>1, <3>2
  <2> QED
    BY <1>0, <1>4, <2>1 DEF WRound, WAllSeenTo, WWaits
<1> QED
  BY <1>5, <1>7, <1>8, <1>9 DEF WRound

(* A greater value is stored.  The vertex is queued already: its own edges *)
(* wait for the next round.                                                *)
LEMMA WStoreStep ==
    ASSUME WRound, NEW t \in Threads, SSWP!CompareAndSwap(t),
           property[job[t].e[2]] = job[t].old
    PROVE  WRound'
<1> DEFINE v == job[t].e[2]
<1>0. pc[t] = "cas" /\ WHas(t) /\ WOnEdge(t) /\ WOffers(t)
      /\ UNCHANGED <<directed, edges, source, phase, curr, todo, visited, next>>
      /\ SSWP!Goto(t, "edge", job[t])
      /\ property' = [property EXCEPT ![v] = job[t].new]
  BY DEF SSWP!CompareAndSwap, SSWP!Fixed, SSWP!input, WHas, WOnEdge, WOffers
<1>1. /\ v \in NodeID /\ job[t] \in WJob /\ WOffer(t)
      /\ job[t].new \in Width /\ job[t].new \in Nat /\ v \in visited
      /\ job[t].new <= Widest(v) /\ property[v] < job[t].new
  BY <1>0, WThread DEF WOffer
<1> HIDE DEF v
<1>2. /\ pc'[t] = "edge" /\ job'[t] = job[t]
      /\ \A s \in Threads : s # t => pc'[s] = pc[s]
      /\ \A s \in Threads : job'[s] = job[s]
      /\ pc' \in [Threads -> WLabels] /\ job' \in [Threads -> WJob]
  BY <1>0, <1>1, WMoved DEF WLabels, WRound
<1>3. /\ property' \in [NodeID -> Width] /\ property'[v] = job[t].new
      /\ \A n \in NodeID : n # v => property'[n] = property[n]
      /\ \A n \in NodeID : property[n] <= property'[n] /\ property'[n] \in Nat
  <2>1. /\ property' \in [NodeID -> Width] /\ property'[v] = job[t].new
        /\ \A n \in NodeID : n # v => property'[n] = property[n]
    BY <1>0, <1>1, WFacts
  <2>2. \A n \in NodeID : property[n] <= property'[n] /\ property'[n] \in Nat
    <3> SUFFICES ASSUME NEW n \in NodeID
                 PROVE  property[n] <= property'[n] /\ property'[n] \in Nat
      OBVIOUS
    <3>1. property[n] \in Nat /\ property'[n] \in Width
      BY <2>1, WFacts
    <3>2. property'[n] \in Nat
      BY <3>1, WFacts
    <3>3. property[v] <= job[t].new
      BY <1>1, WFacts
    <3> QED
      BY <2>1, <3>1, <3>2, <3>3
  <2> QED
    BY <2>1, <2>2
<1>4. \A n : Widest(n)' = Widest(n)
  BY <1>0 DEF Widest, SSWP!Values
<1>5. WTyped'
  BY <1>0, <1>2, <1>3 DEF WRound, WTyped, Width, Input
<1>6. WQueues'
  BY <1>0 DEF WRound, WQueues
<1>7. WSound'
  <2>1. \A n \in NodeID : property'[n] <= Widest(n)
    BY <1>1, <1>3 DEF WRound, WSound
  <2>2. property'[source] = DistInf
    <3>1. property'[source] \in Width /\ property[source] = DistInf
          /\ property[source] <= property'[source]
      BY <1>3, WFacts DEF WRound, WSound
    <3> QED
      BY <3>1, DistInfAssumption DEF Width
  <2> QED
    BY <1>0, <1>4, <2>1, <2>2 DEF WSound
<1>8. \A s \in Threads : WOffer(s)'
  <2> SUFFICES ASSUME NEW s \in Threads PROVE WOffer(s)'
    OBVIOUS
  <2>1. WOffer(s) /\ job'[s] = job[s] /\ job[s].old \in Nat
    BY <1>2, WThread
  <2>2. CASE s = t
    BY <1>0, <1>2, <2>1, <2>2 DEF WOffer, WHas, WOnEdge, WOffers, SSWP!OutOf
  <2>3. CASE s # t
    <3>1. pc'[s] = pc[s]
      BY <1>2, <2>3
    <3>2. pc[s] = "own" => job[s].old <= property'[job[s].e[2]]
      <4> SUFFICES ASSUME pc[s] = "own" PROVE job[s].old <= property'[job[s].e[2]]
        OBVIOUS
      <4>1. job[s].e[2] \in NodeID /\ job[s].old <= property[job[s].e[2]]
        BY WThread DEF WOnEdge, WOffer
      <4>2. PICK n \in NodeID : n = job[s].e[2]
        BY <4>1
      <4>3. /\ property[n] \in Nat /\ property'[n] \in Nat
            /\ property[n] <= property'[n] /\ job[s].old <= property[n]
        BY <1>3, <4>1, <4>2, WFacts
      <4> QED
        BY <2>1, <4>2, <4>3
    <3> QED
      BY <1>0, <1>4, <2>1, <3>1, <3>2 DEF WOffer, WHas, WOnEdge, WOffers, SSWP!OutOf
  <2> QED
    BY <2>2, <2>3
<1>9. WAllSeenTo'
  <2> SUFFICES ASSUME NEW e \in DOMAIN edges PROVE WDone(e)' \/ WWaits(e)'
    BY <1>0 DEF WAllSeenTo
  <2>0. e[1] \in NodeID /\ e[2] \in NodeID /\ edges[e] \in Nat /\ edges' = edges
    BY <1>0, WFacts
  <2>1. CASE e[1] = v
    BY <1>0, <1>1, <2>1 DEF WWaits
  <2>2. CASE e[1] # v
    <3>0. PICK x \in Nat : /\ x = Narrower(property[e[1]], edges[e])
                           /\ x = Narrower(property'[e[1]], edges[e])
      <4>1. property'[e[1]] = property[e[1]] /\ property[e[1]] \in Width
        BY <1>3, <2>0, <2>2, WFacts
      <4>2. Narrower(property[e[1]], edges[e]) \in Width
        BY <2>0, <4>1, NarrowerIs
      <4> QED
        BY <4>1, <4>2, WFacts
    <3>1. CASE WDone(e)
      <4>1. property[e[2]] >= x
        BY <3>0, <3>1 DEF WDone
      <4>2. property'[e[2]] >= x
        BY <1>3, <2>0, <4>1, WFacts
      <4> QED
        BY <2>0, <3>0, <4>2 DEF WDone, Narrower
    <3>2. CASE (\E i \in todo : curr[i] = e[1]) \/ e[1] \in visited
      BY <1>0, <3>2 DEF WWaits
    <3>3. ASSUME NEW s \in Threads, WHolds(s, e) PROVE WDone(e)' \/ WWaits(e)'
      <4>1. CASE s # t
        <5>1. WHolds(s, e)'
          BY <1>2, <2>0, <3>0, <3>3, <4>1 DEF WHolds, WHas, WOffers, Narrower
        <5> QED
          BY <5>1 DEF WWaits
      <4>2. CASE s = t /\ e \in job[t].left
        <5>1. WHolds(t, e)'
          BY <1>2, <3>3, <4>2 DEF WHolds, WHas
        <5> QED
          BY <5>1 DEF WWaits
      <4>3. CASE s = t /\ e \notin job[t].left
        <5>1. job[t].e = e /\ job[t].new >= x
          BY <1>0, <3>0, <3>3, <4>3 DEF WHolds
        <5>2. property'[e[2]] >= x
          BY <1>3, <5>1 DEF v
        <5> QED
          BY <2>0, <3>0, <5>2 DEF WDone, Narrower
      <4> QED
        BY <4>1, <4>2, <4>3
    <3> QED
      BY <3>1, <3>2, <3>3 DEF WRound, WAllSeenTo, WWaits
  <2> QED
    BY <2>1, <2>2
<1> QED
  BY <1>5, <1>6, <1>7, <1>8, <1>9 DEF WRound

LEMMA WCompareAndSwapStep ==
    ASSUME WRound, NEW t \in Threads, SSWP!CompareAndSwap(t)
    PROVE  WRound'
<1>1. CASE property[job[t].e[2]] # job[t].old
  <2>0. pc[t] = "cas" /\ WHas(t) /\ WOnEdge(t) /\ WOffers(t) /\ SSWP!Fixed
        /\ UNCHANGED <<directed, edges, source, phase, curr, todo, visited, property, next>>
        /\ SSWP!Goto(t, "reload", job[t])
    BY <1>1 DEF SSWP!CompareAndSwap, SSWP!Fixed, SSWP!input, WHas, WOnEdge, WOffers
  <2>1. pc'[t] = "reload" /\ job'[t] = job[t] /\ job[t] \in WJob /\ WOffer(t)
    BY <2>0, WThread, WMoved DEF WLabels, WRound
  <2>2. \A n : Widest(n)' = Widest(n)
    BY <2>0 DEF Widest, SSWP!Values
  <2>3. WOffer(t)'
    BY <2>0, <2>1, <2>2 DEF WOffer, WHas, WOnEdge, WOffers, SSWP!OutOf
  <2>4. ASSUME NEW d \in DOMAIN edges, WHolds(t, d) PROVE WHolds(t, d)'
    BY <2>0, <2>1, <2>4 DEF WHolds, WHas, WOffers
  <2> QED
    BY <2>0, <2>1, <2>3, <2>4, WQuietStep DEF WLabels
<1> QED
  BY <1>1, WStoreStep

LEMMA WSlideStep ==
    ASSUME WRound, SSWP!Slide
    PROVE  WRound'
<1>0. /\ \A t \in Threads : pc[t] = "barrier" /\ ~WHas(t)
      /\ todo = {}
  <2>1. \A t \in Threads : pc[t] = "barrier"
    BY DEF SSWP!Slide, SSWP!RoundOver
  <2>2. PICK t \in Threads : TRUE
    BY NumNodesAssumption
  <2> QED
    BY <2>1, <2>2 DEF WRound, WTyped, WHas
<1>1. /\ UNCHANGED <<directed, edges, source, property, job>>
      /\ curr' = next /\ next' = <<>> /\ todo' = DOMAIN next /\ visited' = {}
      /\ pc' = [t \in Threads |-> "take"]
  BY DEF SSWP!Slide, SSWP!BeginRound, SSWP!input
<1>2. next \in Seq(NodeID) /\ <<>> \in Seq(NodeID) /\ DOMAIN <<>> = {}
  BY WFacts
<1>3. \A t \in Threads : pc'[t] = "take"
  BY <1>1
<1>4. \A n : Widest(n)' = Widest(n)
  BY <1>1 DEF Widest, SSWP!Values
<1>5. WTyped'
  BY <1>1, <1>2, <1>3 DEF WRound, WTyped, Input, WLabels
<1>6. WQueues' /\ WSound'
  BY <1>1, <1>2, <1>4 DEF WRound, WQueues, WSound
<1>7. \A t \in Threads : WOffer(t)'
  BY <1>3 DEF WOffer, WHas, WOnEdge, WOffers
<1>8. WAllSeenTo'
  <2> SUFFICES ASSUME NEW e \in DOMAIN edges, ~WDone(e) PROVE WWaits(e)'
    BY <1>1 DEF WAllSeenTo, WDone
  <2>1. e[1] \in visited
    BY <1>0 DEF WRound, WAllSeenTo, WWaits, WHolds
  <2>2. \E i \in DOMAIN next : next[i] = e[1]
    BY <2>1 DEF WRound, WQueues
  <2> QED
    BY <1>1, <2>2 DEF WWaits
<1> QED
  BY <1>5, <1>6, <1>7, <1>8 DEF WRound

LEMMA WStartStep ==
    ASSUME Input, SSWP!Start
    PROVE  WRound'
<1>0. /\ UNCHANGED <<directed, edges, source>> /\ source \in NodeID
      /\ property' = [n \in NodeID |-> IF n = source THEN DistInf ELSE 0]
      /\ curr' = <<source>> /\ next' = <<>> /\ todo' = DOMAIN <<source>> /\ visited' = {}
      /\ pc' = [t \in Threads |-> "take"] /\ job' = [t \in Threads |-> SSWP!NoJob]
  BY DEF SSWP!Start, SSWP!BeginRound, SSWP!input, SSWP!NodeID, NodeID
<1>1. /\ curr' \in Seq(NodeID) /\ next' \in Seq(NodeID)
      /\ DOMAIN curr' = {1} /\ curr'[1] = source /\ DOMAIN next' = {} /\ todo' = {1}
  BY <1>0
<1>2. /\ property' \in [NodeID -> Width] /\ property'[source] = DistInf
      /\ \A n \in NodeID : n # source => property'[n] = 0
  BY <1>0, DistInfAssumption DEF Width
<1>3. \A t \in Threads : pc'[t] = "take" /\ job'[t] \in WJob
  BY <1>0, WNoJob
<1>4. \A n : Widest(n)' = Widest(n)
  BY <1>0 DEF Widest, SSWP!Values
<1>5. WTyped'
  BY <1>0, <1>1, <1>2, <1>3 DEF WTyped, Input, WLabels, Width
<1>6. WQueues'
  BY <1>0, <1>1 DEF WQueues
<1>7. WSound'
  <2>1. ASSUME NEW n \in NodeID PROVE property'[n] <= Widest(n)
    <3>1. Widest(n) \in Width /\ Widest(source) = DistInf
      BY <1>0, WidestClosed
    <3> QED
      BY <1>0, <1>2, <3>1, DistInfAssumption DEF Width
  <2> QED
    BY <1>0, <1>2, <1>4, <2>1 DEF WSound
<1>8. \A t \in Threads : WOffer(t)'
  BY <1>3 DEF WOffer, WHas, WOnEdge, WOffers
<1>9. WAllSeenTo'
  <2> SUFFICES ASSUME NEW e \in DOMAIN edges PROVE WDone(e)' \/ WWaits(e)'
    BY <1>0 DEF WAllSeenTo
  <2>0. e[1] \in NodeID /\ e[2] \in NodeID /\ edges[e] \in Nat
    BY Graph
  <2>1. CASE e[1] = source
    BY <1>1, <2>1 DEF WWaits
  <2>2. CASE e[1] # source
    <3>1. property'[e[1]] = 0 /\ property'[e[2]] \in Width
      BY <1>2, <2>0, <2>2
    <3>2. Narrower(0, edges[e]) = 0
      BY <2>0 DEF Narrower
    <3>3. property'[e[2]] >= 0
      BY <3>1, DistInfAssumption DEF Width
    <3> QED
      BY <1>0, <3>1, <3>2, <3>3 DEF WDone, Narrower
  <2> QED
    BY <2>1, <2>2
<1> QED
  BY <1>5, <1>6, <1>7, <1>8, <1>9 DEF WRound

(* Nothing queued: no edge is left that would widen a path.                *)
LEMMA WEndStep ==
    ASSUME WRound, SSWP!End
    PROVE  property = SSWP!Values[NumNodes]
<1>0. /\ \A t \in Threads : pc[t] = "barrier" /\ ~WHas(t)
      /\ next = <<>> /\ todo = {}
  <2>1. \A t \in Threads : pc[t] = "barrier"
    BY DEF SSWP!End, SSWP!RoundOver
  <2>2. PICK t \in Threads : TRUE
    BY NumNodesAssumption
  <2> QED
    BY <2>1, <2>2 DEF SSWP!End, WRound, WTyped, WHas
<1>1. DOMAIN next = {}
  BY <1>0
<1>2. visited = {}
  BY <1>1 DEF WRound, WQueues
<1>3. \A e \in DOMAIN edges : WDone(e)
  BY <1>0, <1>2 DEF WRound, WAllSeenTo, WWaits, WHolds
<1>4. property[source] = DistInf /\ \A n \in NodeID : property[n] <= Widest(n)
  BY DEF WRound, WSound
<1>5. Input /\ source \in NodeID /\ property \in [NodeID -> Width]
  BY WFacts
<1>6. \A n \in NodeID : Widest(n) <= property[n]
  BY <1>3, <1>4, <1>5, NoWider
<1>7. \A n \in NodeID : property[n] = Widest(n)
  BY <1>4, <1>6, WFacts
<1>8. SSWP!Values[NumNodes] \in [NodeID -> Width]
  <2>1. NumNodes \in 0 .. NumNodes
    BY NumNodesAssumption
  <2> QED
    BY <1>5, <2>1, WidthsInRounds
<1> QED
  BY <1>5, <1>7, <1>8 DEF Widest

LEMMA WStuttering ==
    ASSUME SswpInv, UNCHANGED vars
    PROVE  SswpInv'
<1>1. /\ UNCHANGED <<directed, edges, source, property, phase, todo, pc, job>>
      /\ UNCHANGED <<curr, next, visited>>
  BY DEF vars, pushVars
<1>2. SSWP!Values' = SSWP!Values /\ \A n : Widest(n)' = Widest(n)
  BY <1>1 DEF SSWP!Values, Widest
<1>3. WRound => WRound'
  <2>1. WTyped => WTyped'
    BY <1>1 DEF WTyped, Input
  <2>2. (WQueues => WQueues') /\ (WSound => WSound')
    BY <1>1, <1>2 DEF WQueues, WSound
  <2>3. \A t \in Threads : /\ WHas(t)' <=> WHas(t)
                           /\ WOnEdge(t)' <=> WOnEdge(t)
                           /\ WOffers(t)' <=> WOffers(t)
    BY <1>1 DEF WHas, WOnEdge, WOffers
  <2>4. \A t \in Threads : WOffer(t) => WOffer(t)'
    BY <1>1, <1>2, <2>3 DEF WOffer, SSWP!OutOf
  <2>5. \A e : (WWaits(e) => WWaits(e)') /\ (WDone(e) => WDone(e)')
    BY <1>1, <2>3 DEF WWaits, WHolds, WDone
  <2>6. WAllSeenTo => WAllSeenTo'
    BY <1>1, <2>5 DEF WAllSeenTo
  <2> QED
    BY <2>1, <2>2, <2>4, <2>6 DEF WRound
<1>4. Input' /\ SSWP!QueueFits'
  BY <1>1 DEF SswpInv, Input, SSWP!QueueFits, SSWP!IsInjective
<1> QED
  BY <1>1, <1>2, <1>3, <1>4 DEF SswpInv

LEMMA SswpInvariant == Spec => [](alg = "sswpfromscratch" => SswpInv)
<1> DEFINE I == alg = "sswpfromscratch" => SswpInv
<1>1. Init => I
  <2> SUFFICES ASSUME Init PROVE SswpInv
    OBVIOUS
  <2>1. /\ Input /\ phase = "start" /\ source = NoSource /\ curr = <<>> /\ next = <<>>
        /\ \A t \in Threads : pc[t] = "barrier"
    BY DEF Init, CC!Init, Input
  <2>2. SSWP!QueueFits
    BY <2>1 DEF SSWP!QueueFits, SSWP!IsInjective
  <2> QED
    BY <2>1, <2>2 DEF SswpInv
<1>2. I /\ [Next]_vars => I'
  <2> SUFFICES ASSUME I, [Next]_vars, alg' = "sswpfromscratch" PROVE SswpInv'
    OBVIOUS
  <2>1. alg = "sswpfromscratch" /\ SswpInv /\ Input
    BY DEF Next, PickSource, Main, Worker, Finished, vars, SswpInv
  <2>r. ASSUME WRound', phase' = "rounds" PROVE SswpInv'
    <3>1. SSWP!QueueFits'
      BY <2>r DEF WRound, WQueues, SSWP!QueueFits, SSWP!IsInjective
    <3> QED
      BY <2>r, <3>1 DEF SswpInv, WRound, WTyped
  <2>2. CASE PickSource
    <3>1. UNCHANGED <<directed, edges, curr, next, pc>> /\ phase = "start"
      BY <2>2 DEF PickSource, pushVars
    <3>2. phase' # "rounds" /\ (phase' = "done" => source' \notin NodeID)
      BY <2>2, PickedSource, NumNodesAssumption DEF NoSource, NodeID
    <3>3. Input' /\ SSWP!QueueFits'
      BY <2>1, <3>1 DEF SswpInv, Input, SSWP!QueueFits, SSWP!IsInjective
    <3> QED
      BY <2>1, <3>1, <3>2, <3>3 DEF SswpInv
  <2>3. CASE SSWP!Start
    BY <2>1, <2>3, <2>r, WStartStep DEF SSWP!Start, SSWP!BeginRound
  <2>4. CASE SSWP!Slide
    BY <2>1, <2>4, <2>r, WSlideStep DEF SSWP!Slide, SSWP!RoundOver, SSWP!BeginRound, SswpInv
  <2>5. CASE SSWP!End
    <3>1. /\ UNCHANGED <<directed, edges, source, property, curr, next, pc>>
          /\ phase' = "done" /\ phase = "rounds" /\ \A t \in Threads : pc[t] = "barrier"
      BY <2>5 DEF SSWP!End, SSWP!RoundOver, SSWP!input
    <3>2. property = SSWP!Values[NumNodes]
      BY <2>1, <2>5, <3>1, WEndStep DEF SswpInv
    <3>3. SSWP!Values' = SSWP!Values
      BY <3>1 DEF SSWP!Values
    <3>4. Input' /\ SSWP!QueueFits'
      BY <2>1, <3>1 DEF SswpInv, Input, SSWP!QueueFits, SSWP!IsInjective
    <3> QED
      BY <3>1, <3>2, <3>3, <3>4 DEF SswpInv
  <2>6. ASSUME NEW t \in Threads, SSWP!Worker(t) PROVE SswpInv'
    <3>1. pc[t] # "barrier" /\ phase' = phase
      BY <2>6
      DEF SSWP!Worker, SSWP!Take, SSWP!ReadTarget, SSWP!ReadOwn, SSWP!Mark,
          SSWP!CompareAndSwap, SSWP!Reload, SSWP!NoEdgeLeft, SSWP!Barrier, SSWP!Fixed
    <3>2. phase = "rounds" /\ WRound
      BY <2>1, <3>1 DEF SswpInv
    <3>3. WRound'
      BY <2>6, <3>2, WTakeStep, WReadTargetStep, WReadOwnStep, WMarkStep,
         WCompareAndSwapStep, WReloadStep, WNoEdgeLeftStep, WBarrierStep
      DEF SSWP!Worker
    <3> QED
      BY <2>r, <3>1, <3>2, <3>3
  <2>7. CASE Finished \/ UNCHANGED vars
    BY <2>1, <2>7, WStuttering DEF Finished
  <2> QED
    BY <2>1, <2>2, <2>3, <2>4, <2>5, <2>6, <2>7 DEF Next, Main, Worker, SSWP!Main
<1> QED
  BY <1>1, <1>2, PTL DEF Spec

-----------------------------------------------------------------------------
(* CCStartFromScratch(): the invariant is stated with HookCompress.        *)
LEMMA CCInitially == ASSUME CC!GoodInputs, CC!Init PROVE CC!IInv
<1> USE DEF CC!GoodInputs, CC!Init
<1>1. CC!TypeOK
  BY DEF CC!TypeOK, CC!NodeID, CC!Uninit, CC!NoJob, CC!Job
<1>2. CC!AtBarrier /\ CC!ParentsDescend /\ CC!WithinComponent /\ CC!JobsMatch
  BY DEF CC!AtBarrier, CC!ParentsDescend, CC!WithinComponent, CC!JobsMatch, CC!Hooking
<1>3. CC!Unchanged /\ CC!ReadsCurrent /\ CC!Compressed /\ CC!ComponentLabels
  BY DEF CC!Unchanged, CC!ReadsCurrent, CC!Compressed, CC!ComponentLabels, CC!Hooking
<1> QED
  BY <1>1, <1>2, <1>3 DEF CC!IInv

(* The main thread's steps find every thread at the barrier.               *)
LEMMA CCNobodyBusy ==
    ASSUME CC!GoodInputs, CC!IInv, NEW loop, CC!LoopOver(loop)
    PROVE  todo = {} /\ \A t \in Threads : ~CC!Hooking(t) /\ pc[t] # "compress"
BY DEF CC!GoodInputs, CC!IInv, CC!AtBarrier, CC!LoopOver, CC!Hooking

(* Beginning a loop leaves nothing in the hands of the threads.            *)
LEMMA CCLoopBegun ==
    ASSUME CC!GoodInputs, CC!IInv, CC!BeginLoop,
           phase' \in {"hook", "compress"}, change' \in BOOLEAN,
           property' \in [CC!NodeID -> CC!NodeID]
    PROVE  CC!TypeOK' /\ CC!AtBarrier' /\ CC!JobsMatch' /\ CC!ReadsCurrent' /\ CC!Compressed'
           /\ CC!ComponentLabels'
<1> USE DEF CC!GoodInputs, CC!BeginLoop
<1>1. CC!TypeOK'
  BY DEF CC!IInv, CC!TypeOK
<1>2. \A t \in Threads : pc'[t] = "take"
  OBVIOUS
<1>3. CC!AtBarrier' /\ CC!JobsMatch' /\ CC!ReadsCurrent'
  BY <1>2 DEF CC!AtBarrier, CC!JobsMatch, CC!ReadsCurrent, CC!Hooking
<1>4. CC!Compressed'
      /\ CC!ComponentLabels'
  BY DEF CC!Compressed, CC!ComponentLabels
<1> QED
  BY <1>1, <1>3, <1>4

LEMMA CCStartStep == ASSUME CC!GoodInputs, CC!IInv, CC!Start PROVE CC!IInv'
<1> USE DEF CC!GoodInputs, CC!Start
<1>1. property' \in [CC!NodeID -> CC!NodeID] /\ \A n \in CC!NodeID : property'[n] = n
  OBVIOUS
<1>2. CC!TypeOK' /\ CC!AtBarrier' /\ CC!JobsMatch' /\ CC!ReadsCurrent' /\ CC!Compressed'
      /\ CC!ComponentLabels'
  BY <1>1, CCLoopBegun
<1>3. CC!ParentsDescend'
  BY <1>1 DEF CC!ParentsDescend, CC!NodeID
<1>4. CC!WithinComponent'
  BY <1>1 DEF CC!WithinComponent, CC!BeginLoop, CC!Hooking
<1>5. CC!Unchanged'
  BY <1>1 DEF CC!Unchanged, CC!Flat, CC!Pending, CC!BeginLoop, CC!OutNeigh
<1> QED
  BY <1>2, <1>3, <1>4, <1>5 DEF CC!IInv

LEMMA CCEndHookingStep == ASSUME CC!GoodInputs, CC!IInv, CC!EndHooking PROVE CC!IInv'
<1> USE DEF CC!GoodInputs, CC!EndHooking
<1>1. phase = "hook" /\ property \in [CC!NodeID -> CC!NodeID] /\ change \in BOOLEAN
  BY DEF CC!LoopOver, CC!IInv, CC!TypeOK
<1>2. CC!TypeOK' /\ CC!AtBarrier' /\ CC!JobsMatch' /\ CC!ReadsCurrent' /\ CC!Compressed'
      /\ CC!ComponentLabels'
  BY <1>1, CCLoopBegun
<1>3. CC!ParentsDescend'
  BY <1>1 DEF CC!IInv, CC!ParentsDescend
<1>4. CC!WithinComponent'
  BY <1>1 DEF CC!IInv, CC!WithinComponent, CC!BeginLoop, CC!Hooking, CC!Closed
<1>5. CC!Unchanged'
  <2>1. \A u, v \in CC!NodeID : ~CC!Pending(u, v)
    BY CCNobodyBusy DEF CC!Pending
  <2>2. ~change => \A u \in CC!NodeID : CC!Flat(u) /\ \A v \in CC!OutNeigh(u) : CC!Agree(u, v)
    BY <1>1, <2>1 DEF CC!IInv, CC!Unchanged, CC!OutNeigh
  <2> QED
    BY <2>2 DEF CC!Unchanged, CC!Flat, CC!Agree, CC!OutNeigh, CC!BeginLoop
<1> QED
  BY <1>2, <1>3, <1>4, <1>5 DEF CC!IInv

LEMMA CCEndCompressingStep == ASSUME CC!GoodInputs, CC!IInv, CC!EndCompressing PROVE CC!IInv'
<1> USE DEF CC!GoodInputs, CC!EndCompressing
<1>1. /\ phase = "compress" /\ property \in [CC!NodeID -> CC!NodeID] /\ change \in BOOLEAN
      /\ property' = property /\ directed' = directed /\ edges' = edges
  BY DEF CC!LoopOver, CC!IInv, CC!TypeOK, CC!BeginLoop
<1>2. CC!ParentsDescend'
  BY <1>1 DEF CC!IInv, CC!ParentsDescend
<1>3. CASE change
  <2>1. CC!BeginLoop /\ phase' = "hook" /\ change' = FALSE
    BY <1>3
  <2>2. CC!TypeOK' /\ CC!AtBarrier' /\ CC!JobsMatch' /\ CC!ReadsCurrent' /\ CC!Compressed'
      /\ CC!ComponentLabels'
    BY <1>1, <2>1, CCLoopBegun
  <2>3. CC!WithinComponent'
    BY <1>1, <2>1 DEF CC!IInv, CC!WithinComponent, CC!BeginLoop, CC!Hooking, CC!Closed
  <2>4. CC!Unchanged'
    <3>1. \A n \in CC!NodeID : CC!Flat(n)
      BY <1>1, CCNobodyBusy DEF CC!IInv, CC!Compressed
    <3> QED
      BY <1>1, <2>1, <3>1 DEF CC!Unchanged, CC!Flat, CC!Pending, CC!BeginLoop
  <2> QED
    BY <1>2, <2>2, <2>3, <2>4 DEF CC!IInv
<1>4. CASE ~change
  <2>1. phase' = "done" /\ UNCHANGED <<directed, edges, change, todo, pc, job, property>>
    BY <1>4
  <2>2. CC!TypeOK' /\ CC!AtBarrier' /\ CC!JobsMatch' /\ CC!WithinComponent' /\ CC!Compressed'
    <3>1. CC!TypeOK'
      BY <1>1, <2>1 DEF CC!IInv, CC!TypeOK
    <3>2. CC!AtBarrier'
      BY <2>1 DEF CC!IInv, CC!AtBarrier, CC!Hooking, CC!LoopOver
    <3>3. CC!JobsMatch' /\ CC!WithinComponent' /\ CC!Compressed'
      BY <1>1, <2>1
      DEF CC!IInv, CC!JobsMatch, CC!WithinComponent, CC!Compressed, CC!Hooking, CC!OutNeigh,
          CC!Closed
    <3> QED
      BY <3>1, <3>2, <3>3
  <2>3. CC!Unchanged' /\ CC!ReadsCurrent'
    BY <1>1, <2>1
    DEF CC!IInv, CC!Unchanged, CC!ReadsCurrent, CC!Flat, CC!Agree, CC!OutNeigh, CC!Hooking
  <2>4. CC!ComponentLabels'
    <3>1. ASSUME NEW m \in CC!NodeID, NEW n \in CC!NodeID, property[m] = property[n]
          PROVE  CC!Connected(m, n)
      BY <1>1, <3>1 DEF CC!IInv, CC!WithinComponent, CC!Connected
    <3>2. \A e \in DOMAIN edges : property[e[1]] = property[e[2]]
      <4> SUFFICES ASSUME NEW e \in DOMAIN edges PROVE property[e[1]] = property[e[2]]
        OBVIOUS
      <4>1. /\ \E i \in Inputs : directed = i[1] /\ edges = i[2]
            /\ \A u \in CC!NodeID : \A v \in CC!OutNeigh(u) : CC!Agree(u, v)
        BY <1>1, <1>4 DEF CC!IInv, CC!TypeOK, CC!Unchanged
      <4>2. /\ e[1] \in CC!NodeID /\ e[2] \in CC!NodeID /\ e = <<e[1], e[2]>>
            /\ ~directed => <<e[2], e[1]>> \in DOMAIN edges
        BY <4>1
      <4>3. CC!Agree(e[1], e[2]) /\ (~directed => CC!Agree(e[2], e[1]))
        BY <4>1, <4>2 DEF CC!OutNeigh
      <4>4. property[e[1]] \in Int /\ property[e[2]] \in Int
        BY <1>1, <4>2 DEF CC!NodeID
      <4>5. /\ property[e[2]] <= property[e[1]]
            /\ property[e[1]] <= property[e[2]]
        BY <4>3 DEF CC!Agree
      <4> QED
        BY <4>4, <4>5
    <3>3. ASSUME NEW m \in CC!NodeID, NEW n \in CC!NodeID, CC!Connected(m, n)
          PROVE  property[m] = property[n]
      <4> DEFINE S == {x \in CC!NodeID : property[x] = property[m]}
      <4>1. \A e \in DOMAIN edges : e[1] \in CC!NodeID /\ e[2] \in CC!NodeID
        BY DEF CC!IInv, CC!TypeOK
      <4>2. CC!Closed(S)
        BY <3>2, <4>1 DEF CC!Closed
      <4> QED
        BY <3>3, <4>2 DEF CC!Connected
    <3> QED
      BY <1>1, <2>1, <3>1, <3>3 DEF CC!ComponentLabels, CC!Connected, CC!Closed
  <2> QED
    BY <1>2, <2>2, <2>3, <2>4 DEF CC!IInv
<1> QED
  BY <1>1, <1>3, <1>4
-----------------------------------------------------------------------------
(* A thread works only while a loop runs.                                  *)
LEMMA CCRunning ==
    ASSUME CC!IInv, NEW t \in Threads, pc[t] # "barrier"
    PROVE  /\ phase \in {"hook", "compress"}
           /\ property \in [CC!NodeID -> CC!NodeID]
           /\ job[t] \in CC!Job
           /\ CC!Hooking(t) => phase = "hook"
           /\ pc[t] = "compress" => phase = "compress"
<1>1. phase \in {"hook", "compress"} /\ (CC!Hooking(t) => phase = "hook")
      /\ (pc[t] = "compress" => phase = "compress")
  BY DEF CC!IInv, CC!TypeOK, CC!AtBarrier
<1> QED
  BY <1>1 DEF CC!IInv, CC!TypeOK

(* While a loop runs nothing is claimed of the end.                        *)
LEMMA CCNotDone ==
    ASSUME phase' \in {"hook", "compress"}
    PROVE  CC!ComponentLabels'
BY DEF CC!ComponentLabels

LEMMA CCNoJobTyped == ASSUME CC!GoodInputs PROVE CC!NoJob \in CC!Job
BY DEF CC!NoJob, CC!Job, CC!NodeID, CC!GoodInputs

LEMMA CCTakeStep ==
    ASSUME CC!GoodInputs, CC!IInv, NEW t \in Threads, CC!Take(t)
    PROVE  CC!IInv'
<1> USE DEF CC!Take, CC!Shared
<1>1. /\ phase \in {"hook", "compress"} /\ property \in [CC!NodeID -> CC!NodeID]
      /\ UNCHANGED <<directed, edges, phase, change, property>>
  BY CCRunning
<1>2. PICK u \in todo :
        /\ todo' = todo \ {u}
        /\ IF phase = "hook"
           THEN CC!Goto(t, "edge", [CC!NoJob EXCEPT !.u = u, !.left = CC!OutNeigh(u),
                                              !.comp_u = property[u]])
           ELSE CC!Goto(t, "compress", [CC!NoJob EXCEPT !.u = u])
  OBVIOUS
<1>3. /\ u \in CC!NodeID /\ 0 \in CC!NodeID /\ CC!OutNeigh(u) \subseteq CC!NodeID
      /\ pc \in [Threads -> {"take", "edge", "other", "root", "hook", "compress", "barrier"}]
      /\ job \in [Threads -> CC!Job]
  BY DEF CC!IInv, CC!TypeOK, CC!OutNeigh, CC!NodeID, CC!GoodInputs
<1>4. \A s \in Threads : s # t => pc'[s] = pc[s] /\ job'[s] = job[s]
  BY <1>2, <1>3 DEF CC!Goto
<1>5. CASE phase = "hook"
  <2> DEFINE j == [CC!NoJob EXCEPT !.u = u, !.left = CC!OutNeigh(u), !.comp_u = property[u]]
  <2>2. /\ pc' = [pc EXCEPT ![t] = "edge"] /\ job' = [job EXCEPT ![t] = j]
        /\ pc'[t] = "edge" /\ job'[t] = j
    BY <1>2, <1>3, <1>5 DEF CC!Goto
  <2>3. j \in CC!Job /\ j.u = u /\ j.left = CC!OutNeigh(u) /\ j.comp_u = property[u]
    <3>1. j = [CC!NoJob EXCEPT !.u = u, !.left = CC!OutNeigh(u), !.comp_u = property[u]]
      OBVIOUS
    <3> HIDE DEF j
    <3> QED
      BY <1>1, <1>3, <3>1, CCNoJobTyped DEF CC!Job
  <2> HIDE DEF j
  <2>4. CC!TypeOK'
    BY <1>1, <1>2, <1>3, <2>2, <2>3 DEF CC!IInv, CC!TypeOK
  <2>5. CC!AtBarrier' /\ CC!ParentsDescend' /\ CC!JobsMatch'
    BY <1>1, <1>2, <1>3, <1>4, <1>5, <2>2, <2>3
    DEF CC!IInv, CC!AtBarrier, CC!ParentsDescend, CC!JobsMatch, CC!Hooking, CC!OutNeigh
  <2>6. CC!WithinComponent'
    <3> SUFFICES ASSUME NEW S \in SUBSET CC!NodeID, CC!Closed(S),
                        NEW s \in Threads
                 PROVE  /\ \A n \in CC!NodeID : n \in S <=> property[n] \in S
                        /\ CC!Hooking(s)' => (job'[s].u \in S <=> job'[s].comp_u \in S)
                        /\ pc'[s] \in {"root", "hook"} =>
                              (job'[s].high \in S <=> job'[s].low \in S)
      BY <1>1 DEF CC!WithinComponent, CC!Closed, CC!Hooking
    <3>1. \A n \in CC!NodeID : n \in S <=> property[n] \in S
      BY <1>5 DEF CC!IInv, CC!WithinComponent
    <3>2. CASE s = t
      BY <1>3, <2>2, <2>3, <3>1, <3>2
    <3>3. CASE s # t
      BY <1>4, <3>1, <3>3 DEF CC!IInv, CC!WithinComponent, CC!Hooking
    <3> QED
      BY <3>2, <3>3
  <2>7. CC!Unchanged'
    <3>1. \A w, v \in CC!NodeID : v \in CC!OutNeigh(w) /\ CC!Pending(w, v) => CC!Pending(w, v)'
      BY <1>2, <1>4, <2>2, <2>3 DEF CC!Pending, CC!Hooking
    <3> QED
      BY <1>1, <1>5, <3>1 DEF CC!IInv, CC!Unchanged, CC!Flat, CC!Agree, CC!OutNeigh
  <2>8. CC!ReadsCurrent' /\ CC!Compressed'
    BY <1>1, <1>3, <1>4, <1>5, <2>2, <2>3
    DEF CC!IInv, CC!ReadsCurrent, CC!Compressed, CC!Hooking
  <2> QED
    BY <1>1, <2>4, <2>5, <2>6, <2>7, <2>8, CCNotDone DEF CC!IInv
<1>6. CASE phase = "compress"
  <2> DEFINE j == [CC!NoJob EXCEPT !.u = u]
  <2>1. j = [u |-> u, left |-> {}, v |-> 0, comp_u |-> 0, high |-> 0, low |-> 0]
    BY DEF CC!NoJob
  <2>2. /\ pc' = [pc EXCEPT ![t] = "compress"] /\ job' = [job EXCEPT ![t] = j]
        /\ pc'[t] = "compress" /\ job'[t] = j
    BY <1>2, <1>3, <1>6 DEF CC!Goto
  <2>3. j \in CC!Job /\ j.u = u
    BY <1>3, <2>1 DEF CC!Job
  <2> HIDE DEF j
  <2>4. CC!TypeOK'
    BY <1>1, <1>2, <1>3, <2>2, <2>3 DEF CC!IInv, CC!TypeOK
  <2>5. CC!AtBarrier' /\ CC!ParentsDescend' /\ CC!JobsMatch'
    BY <1>1, <1>2, <1>3, <1>4, <1>6, <2>2, <2>3
    DEF CC!IInv, CC!AtBarrier, CC!ParentsDescend, CC!JobsMatch, CC!Hooking, CC!OutNeigh
  <2>6. CC!WithinComponent'
    BY <1>1, <1>3, <1>4, <1>6, <2>2, <2>3
    DEF CC!IInv, CC!WithinComponent, CC!Hooking, CC!Closed
  <2>7. CC!Unchanged' /\ CC!ReadsCurrent'
    BY <1>1, <1>4, <1>6, <2>2
    DEF CC!IInv, CC!Unchanged, CC!ReadsCurrent, CC!Flat, CC!Agree, CC!OutNeigh, CC!Hooking
  <2>8. CC!Compressed'
    BY <1>1, <1>2, <1>3, <1>4, <1>6, <2>2, <2>3 DEF CC!IInv, CC!Compressed, CC!Flat
  <2> QED
    BY <1>1, <2>4, <2>5, <2>6, <2>7, <2>8, CCNotDone DEF CC!IInv
<1> QED
  BY <1>1, <1>5, <1>6

LEMMA CCNextEdgeStep ==
    ASSUME CC!GoodInputs, CC!IInv, NEW t \in Threads, CC!NextEdge(t)
    PROVE  CC!IInv'
<1> USE DEF CC!NextEdge, CC!Shared
<1>1. /\ phase = "hook" /\ property \in [CC!NodeID -> CC!NodeID]
      /\ UNCHANGED <<directed, edges, phase, change, property, todo>>
  BY CCRunning DEF CC!Hooking
<1>2. /\ pc \in [Threads -> {"take", "edge", "other", "root", "hook", "compress", "barrier"}]
      /\ job \in [Threads -> CC!Job] /\ job[t] \in CC!Job
  BY DEF CC!IInv, CC!TypeOK
<1> DEFINE j(v) == [job[t] EXCEPT !.left = @ \ {v}, !.v = v,
                                  !.comp_u = IF directed THEN property[job[t].u] ELSE @]
<1>3. PICK v \in job[t].left : CC!Goto(t, "other", j(v))
  OBVIOUS
<1>4. v \in CC!NodeID /\ v \in CC!OutNeigh(job[t].u)
  BY <1>2 DEF CC!Job, CC!IInv, CC!JobsMatch, CC!Hooking
<1>5. /\ j(v) \in CC!Job /\ j(v).u = job[t].u /\ j(v).v = v /\ j(v).left = job[t].left \ {v}
      /\ j(v).comp_u \in {property[job[t].u], job[t].comp_u}
  <2>1. PICK r \in CC!Job : r = job[t]
    BY <1>2
  <2>2. PICK c : c = IF directed THEN property[r.u] ELSE r.comp_u
    OBVIOUS
  <2>3. r.u \in CC!NodeID /\ r.comp_u \in CC!NodeID /\ r.left \ {v} \in SUBSET CC!NodeID
    BY DEF CC!Job
  <2>4. c \in {property[r.u], r.comp_u} /\ c \in CC!NodeID
    BY <1>1, <2>2, <2>3
  <2>5. j(v) = [r EXCEPT !.left = r.left \ {v}, !.v = v, !.comp_u = c]
    BY <2>1, <2>2
  <2> HIDE DEF j
  <2> QED
    BY <1>4, <2>1, <2>3, <2>4, <2>5 DEF CC!Job
<1>6. /\ pc' = [pc EXCEPT ![t] = "other"] /\ job' = [job EXCEPT ![t] = j(v)]
      /\ pc'[t] = "other" /\ job'[t] = j(v)
      /\ \A s \in Threads : s # t => pc'[s] = pc[s] /\ job'[s] = job[s]
  BY <1>2, <1>3 DEF CC!Goto
<1> HIDE DEF j
<1>7. CC!TypeOK'
  BY <1>1, <1>2, <1>5, <1>6 DEF CC!IInv, CC!TypeOK
<1>8. CC!AtBarrier' /\ CC!ParentsDescend' /\ CC!JobsMatch'
  BY <1>1, <1>2, <1>4, <1>5, <1>6
  DEF CC!IInv, CC!AtBarrier, CC!ParentsDescend, CC!JobsMatch, CC!Hooking, CC!OutNeigh
<1>9. CC!WithinComponent'
  <2> SUFFICES ASSUME NEW S \in SUBSET CC!NodeID, CC!Closed(S),
                      NEW s \in Threads
               PROVE  /\ \A n \in CC!NodeID : n \in S <=> property[n] \in S
                      /\ CC!Hooking(s)' => (job'[s].u \in S <=> job'[s].comp_u \in S)
                      /\ pc'[s] \in {"root", "hook"} =>
                            (job'[s].high \in S <=> job'[s].low \in S)
    BY <1>1 DEF CC!WithinComponent, CC!Closed, CC!Hooking
  <2>1. \A n \in CC!NodeID : n \in S <=> property[n] \in S
    BY <1>1 DEF CC!IInv, CC!WithinComponent
  <2>2. job[t].u \in CC!NodeID /\ (job[t].u \in S <=> job[t].comp_u \in S)
    BY <1>2 DEF CC!IInv, CC!WithinComponent, CC!Hooking, CC!Job
  <2>3. CASE s = t
    BY <1>5, <1>6, <2>1, <2>2, <2>3
  <2>4. CASE s # t
    BY <1>6, <2>1, <2>4 DEF CC!IInv, CC!WithinComponent, CC!Hooking
  <2> QED
    BY <2>3, <2>4
<1>10. CC!Unchanged'
  <2>1. \A x, y \in CC!NodeID : CC!Pending(x, y) => CC!Pending(x, y)'
    BY <1>1, <1>2, <1>5, <1>6 DEF CC!Pending, CC!Hooking
  <2> QED
    BY <1>1, <2>1 DEF CC!IInv, CC!Unchanged, CC!Flat, CC!Agree, CC!OutNeigh
<1>11. CC!ReadsCurrent' /\ CC!Compressed'
  BY <1>1, <1>2, <1>5, <1>6 DEF CC!IInv, CC!ReadsCurrent, CC!Compressed, CC!Hooking
<1> QED
  BY <1>1, <1>7, <1>8, <1>9, <1>10, <1>11, CCNotDone DEF CC!IInv

LEMMA CCReadOtherStep ==
    ASSUME CC!GoodInputs, CC!IInv, NEW t \in Threads, CC!ReadOther(t)
    PROVE  CC!IInv'
<1> DEFINE u == job[t].u
           v == job[t].v
           comp_u == job[t].comp_u
           comp_v == property[v]
<1>1. /\ phase = "hook" /\ property \in [CC!NodeID -> CC!NodeID] /\ pc[t] = "other"
      /\ UNCHANGED <<directed, edges, phase, change, property, todo>>
  BY CCRunning DEF CC!ReadOther, CC!Shared, CC!Hooking
<1>2. /\ pc \in [Threads -> {"take", "edge", "other", "root", "hook", "compress", "barrier"}]
      /\ job \in [Threads -> CC!Job] /\ job[t] \in CC!Job
      /\ u \in CC!NodeID /\ v \in CC!NodeID /\ comp_u \in CC!NodeID /\ comp_v \in CC!NodeID
  BY <1>1 DEF CC!IInv, CC!TypeOK, CC!Job
<1>3. v \in CC!OutNeigh(u)
  BY <1>1 DEF CC!IInv, CC!JobsMatch
<1>4. \A S \in SUBSET CC!NodeID : CC!Closed(S) =>
        (u \in S <=> v \in S) /\ (u \in S <=> comp_u \in S) /\ (v \in S <=> comp_v \in S)
  <2> SUFFICES ASSUME NEW S \in SUBSET CC!NodeID, CC!Closed(S)
               PROVE  (u \in S <=> v \in S) /\ (u \in S <=> comp_u \in S) /\ (v \in S <=> comp_v \in S)
    OBVIOUS
  <2>1. u \in S <=> v \in S
    BY <1>3 DEF CC!Closed, CC!OutNeigh
  <2> QED
    BY <1>1, <1>2, <2>1 DEF CC!IInv, CC!WithinComponent, CC!Hooking
<1>5. ~change => comp_u = property[u] /\ CC!Flat(u) /\ CC!Flat(v)
  BY <1>1, <1>2 DEF CC!IInv, CC!Unchanged, CC!ReadsCurrent, CC!Hooking
<1>6. ASSUME NEW high \in CC!NodeID, NEW low \in CC!NodeID, low < high,
             high \in {comp_u, comp_v}, low \in {comp_u, comp_v},
             CC!Goto(t, "root", [job[t] EXCEPT !.high = high, !.low = low])
      PROVE  CC!IInv'
  <2> DEFINE j == [job[t] EXCEPT !.high = high, !.low = low]
  <2>1. /\ pc' = [pc EXCEPT ![t] = "root"] /\ job' = [job EXCEPT ![t] = j]
        /\ pc'[t] = "root" /\ job'[t] = j
        /\ \A s \in Threads : s # t => pc'[s] = pc[s] /\ job'[s] = job[s]
    BY <1>2, <1>6 DEF CC!Goto
  <2>2. j = [job[t] EXCEPT !.high = high, !.low = low]
    OBVIOUS
  <2> HIDE DEF j
  <2>3. /\ j \in CC!Job /\ j.u = u /\ j.v = v /\ j.left = job[t].left /\ j.comp_u = comp_u
        /\ j.high = high /\ j.low = low
    BY <1>2, <2>2 DEF CC!Job
  <2> HIDE DEF u, v, comp_u, comp_v
  <2>4. CC!TypeOK'
    BY <1>1, <1>2, <2>1, <2>3 DEF CC!IInv, CC!TypeOK
  <2>5. CC!AtBarrier' /\ CC!ParentsDescend'
    BY <1>1, <1>2, <2>1 DEF CC!IInv, CC!AtBarrier, CC!ParentsDescend, CC!Hooking
  <2>6. CC!JobsMatch'
    BY <1>1, <1>2, <1>6, <2>1, <2>3 DEF CC!IInv, CC!JobsMatch, CC!Hooking, CC!OutNeigh, u
  <2>7. CC!WithinComponent'
    <3> SUFFICES ASSUME NEW S \in SUBSET CC!NodeID, CC!Closed(S),
                        NEW s \in Threads
                 PROVE  /\ \A n \in CC!NodeID : n \in S <=> property[n] \in S
                        /\ CC!Hooking(s)' => (job'[s].u \in S <=> job'[s].comp_u \in S)
                        /\ pc'[s] \in {"root", "hook"} =>
                              (job'[s].high \in S <=> job'[s].low \in S)
      BY <1>1 DEF CC!WithinComponent, CC!Closed, CC!Hooking
    <3>1. \A n \in CC!NodeID : n \in S <=> property[n] \in S
      BY <1>1 DEF CC!IInv, CC!WithinComponent
    <3>2. CASE s = t
      BY <1>4, <1>6, <2>1, <2>3, <3>1, <3>2
    <3>3. CASE s # t
      BY <2>1, <3>1, <3>3 DEF CC!IInv, CC!WithinComponent, CC!Hooking
    <3> QED
      BY <3>2, <3>3
  <2>8. CC!Unchanged'
    <3>1. \A x, y \in CC!NodeID : CC!Pending(x, y) => CC!Pending(x, y)'
      BY <1>1, <1>2, <2>1, <2>3 DEF CC!Pending, CC!Hooking, u, v
    <3> QED
      BY <1>1, <3>1 DEF CC!IInv, CC!Unchanged, CC!Flat, CC!Agree, CC!OutNeigh
  <2>9. CC!ReadsCurrent'
    <3>1. ~change => property[high] = high
      BY <1>5, <1>6 DEF CC!Flat, comp_v
    <3> QED
      BY <1>1, <1>2, <1>5, <2>1, <2>3, <3>1 DEF CC!IInv, CC!ReadsCurrent, CC!Hooking
  <2>10. CC!Compressed'
    BY <1>1 DEF CC!Compressed
  <2> QED
    BY <1>1, <2>4, <2>5, <2>6, <2>7, <2>8, <2>9, <2>10, CCNotDone DEF CC!IInv
<1>7. ASSUME ~(comp_u < comp_v), ~(directed /\ comp_v < comp_u), CC!Goto(t, "edge", job[t])
      PROVE  CC!IInv'
  <2>1. /\ pc' = [pc EXCEPT ![t] = "edge"] /\ job' = job /\ pc'[t] = "edge"
        /\ \A s \in Threads : s # t => pc'[s] = pc[s]
    BY <1>2, <1>7 DEF CC!Goto
  <2>2. CC!TypeOK' /\ CC!AtBarrier' /\ CC!ParentsDescend' /\ CC!Compressed'
    BY <1>1, <1>2, <2>1
    DEF CC!IInv, CC!TypeOK, CC!AtBarrier, CC!ParentsDescend, CC!Compressed, CC!Hooking
  <2>3. CC!JobsMatch' /\ CC!ReadsCurrent'
    BY <1>1, <1>2, <2>1 DEF CC!IInv, CC!JobsMatch, CC!ReadsCurrent, CC!Hooking, CC!OutNeigh
  <2>4. CC!WithinComponent'
    BY <1>1, <1>2, <2>1 DEF CC!IInv, CC!WithinComponent, CC!Hooking, CC!Closed
  <2>5. CC!Unchanged'
    <3> SUFFICES ASSUME ~change PROVE CC!Unchanged'
      BY <1>1 DEF CC!Unchanged
    <3>1. CC!Agree(u, v)
      BY <1>2, <1>5, <1>7 DEF CC!Agree, CC!NodeID
    <3>2. \A x, y \in CC!NodeID : CC!Pending(x, y) => CC!Pending(x, y)' \/ (x = u /\ y = v)
      BY <1>1, <1>2, <2>1 DEF CC!Pending, CC!Hooking
    <3> HIDE DEF u, v
    <3> QED
      BY <1>1, <3>1, <3>2 DEF CC!IInv, CC!Unchanged, CC!Flat, CC!Agree, CC!OutNeigh
  <2> QED
    BY <1>1, <2>2, <2>3, <2>4, <2>5, CCNotDone DEF CC!IInv
<1>8. CASE comp_u < comp_v
  <2>1. CC!Goto(t, "root", [job[t] EXCEPT !.high = comp_v, !.low = comp_u])
    BY <1>8 DEF CC!ReadOther
  <2> HIDE DEF comp_u, comp_v
  <2> QED
    BY <1>2, <1>6, <1>8, <2>1
<1>9. CASE ~(comp_u < comp_v) /\ directed /\ comp_v < comp_u
  <2>1. CC!Goto(t, "root", [job[t] EXCEPT !.high = comp_u, !.low = comp_v])
    BY <1>9 DEF CC!ReadOther
  <2> HIDE DEF comp_u, comp_v
  <2> QED
    BY <1>2, <1>6, <1>9, <2>1
<1>10. CASE ~(comp_u < comp_v) /\ ~(directed /\ comp_v < comp_u)
  <2>1. CC!Goto(t, "edge", job[t])
    BY <1>10 DEF CC!ReadOther
  <2> QED
    BY <1>7, <1>10, <2>1
<1> QED
  BY <1>8, <1>9, <1>10

(* Who finds a root has a change to report, and who does not find one has  *)
(* been overtaken by a change.                                             *)
LEMMA CCTestRootStep ==
    ASSUME CC!GoodInputs, CC!IInv, NEW t \in Threads, CC!TestRoot(t)
    PROVE  CC!IInv'
<1>1. /\ phase = "hook" /\ property \in [CC!NodeID -> CC!NodeID] /\ pc[t] = "root"
      /\ UNCHANGED <<directed, edges, phase, property, todo>>
  BY CCRunning DEF CC!TestRoot, CC!Hooking
<1>2. /\ pc \in [Threads -> {"take", "edge", "other", "root", "hook", "compress", "barrier"}]
      /\ job \in [Threads -> CC!Job] /\ change \in BOOLEAN
  BY DEF CC!IInv, CC!TypeOK
<1>3. change' = TRUE
  BY <1>2 DEF CC!TestRoot, CC!IInv, CC!ReadsCurrent
<1>4. PICK label \in {"hook", "edge"} : CC!Goto(t, label, job[t])
  BY DEF CC!TestRoot
<1>5. /\ pc' = [pc EXCEPT ![t] = label] /\ job' = job /\ pc'[t] = label
      /\ \A s \in Threads : s # t => pc'[s] = pc[s]
  BY <1>2, <1>4 DEF CC!Goto
<1>6. CC!TypeOK' /\ CC!AtBarrier' /\ CC!ParentsDescend' /\ CC!Compressed'
  BY <1>1, <1>2, <1>3, <1>5
  DEF CC!IInv, CC!TypeOK, CC!AtBarrier, CC!ParentsDescend, CC!Compressed, CC!Hooking
<1>7. CC!JobsMatch' /\ CC!ReadsCurrent' /\ CC!Unchanged'
  BY <1>1, <1>2, <1>3, <1>5
  DEF CC!IInv, CC!JobsMatch, CC!ReadsCurrent, CC!Unchanged, CC!Hooking, CC!OutNeigh
<1>8. CC!WithinComponent'
  BY <1>1, <1>2, <1>5 DEF CC!IInv, CC!WithinComponent, CC!Hooking, CC!Closed
<1> QED
  BY <1>1, <1>6, <1>7, <1>8, CCNotDone DEF CC!IInv

LEMMA CCHookStep ==
    ASSUME CC!GoodInputs, CC!IInv, NEW t \in Threads, CC!Hook(t)
    PROVE  CC!IInv'
<1> DEFINE high == job[t].high
           low == job[t].low
<1>1. /\ phase = "hook" /\ property \in [CC!NodeID -> CC!NodeID] /\ pc[t] = "hook"
      /\ UNCHANGED <<directed, edges, phase, change, todo>>
  BY CCRunning DEF CC!Hook, CC!Hooking
<1>2. /\ pc \in [Threads -> {"take", "edge", "other", "root", "hook", "compress", "barrier"}]
      /\ job \in [Threads -> CC!Job] /\ change = TRUE
      /\ high \in CC!NodeID /\ low \in CC!NodeID /\ low < high
  BY <1>1 DEF CC!IInv, CC!TypeOK, CC!ReadsCurrent, CC!JobsMatch, CC!Job
<1>3. /\ property' = [property EXCEPT ![high] = low]
      /\ property' \in [CC!NodeID -> CC!NodeID] /\ property'[high] = low
      /\ \A n \in CC!NodeID : n # high => property'[n] = property[n]
  BY <1>1, <1>2 DEF CC!Hook
<1>4. /\ pc' = [pc EXCEPT ![t] = "edge"] /\ job' = job /\ pc'[t] = "edge"
      /\ \A s \in Threads : s # t => pc'[s] = pc[s]
  BY <1>2 DEF CC!Hook, CC!Goto
<1>5. CC!TypeOK' /\ CC!AtBarrier' /\ CC!Compressed'
  BY <1>1, <1>2, <1>3, <1>4 DEF CC!IInv, CC!TypeOK, CC!AtBarrier, CC!Compressed, CC!Hooking
<1>6. CC!ParentsDescend'
  BY <1>1, <1>2, <1>3 DEF CC!IInv, CC!ParentsDescend, CC!NodeID
<1>7. CC!JobsMatch' /\ CC!ReadsCurrent' /\ CC!Unchanged'
  BY <1>1, <1>2, <1>4
  DEF CC!IInv, CC!JobsMatch, CC!ReadsCurrent, CC!Unchanged, CC!Hooking, CC!OutNeigh
<1>8. CC!WithinComponent'
  <2> SUFFICES ASSUME NEW S \in SUBSET CC!NodeID, CC!Closed(S)
               PROVE  /\ \A n \in CC!NodeID : n \in S <=> property'[n] \in S
                      /\ \A s \in Threads :
                          /\ CC!Hooking(s) => (job[s].u \in S <=> job[s].comp_u \in S)
                          /\ pc[s] \in {"root", "hook"} => (job[s].high \in S <=> job[s].low \in S)
    BY <1>1, <1>2, <1>4 DEF CC!WithinComponent, CC!Closed, CC!Hooking
  <2>1. /\ \A n \in CC!NodeID : n \in S <=> property[n] \in S
        /\ \A s \in Threads :
            /\ CC!Hooking(s) => (job[s].u \in S <=> job[s].comp_u \in S)
            /\ pc[s] \in {"root", "hook"} => (job[s].high \in S <=> job[s].low \in S)
    BY <1>1 DEF CC!IInv, CC!WithinComponent
  <2>2. high \in S <=> low \in S
    BY <1>1, <2>1
  <2> QED
    BY <1>2, <1>3, <2>1, <2>2
<1> QED
  BY <1>1, <1>5, <1>6, <1>7, <1>8, CCNotDone DEF CC!IInv

LEMMA CCCompressStep ==
    ASSUME CC!GoodInputs, CC!IInv, NEW t \in Threads, CC!Compress(t)
    PROVE  CC!IInv'
<1> DEFINE n == job[t].u
<1>1. /\ phase = "compress" /\ property \in [CC!NodeID -> CC!NodeID] /\ pc[t] = "compress"
      /\ UNCHANGED <<directed, edges, phase, change, todo>>
  BY CCRunning DEF CC!Compress
<1>2. /\ pc \in [Threads -> {"take", "edge", "other", "root", "hook", "compress", "barrier"}]
      /\ job \in [Threads -> CC!Job] /\ change \in BOOLEAN
      /\ n \in CC!NodeID /\ property[n] \in CC!NodeID /\ property[property[n]] \in CC!NodeID
  BY <1>1 DEF CC!IInv, CC!TypeOK, CC!Job
<1>3. \A s \in Threads : ~CC!Hooking(s)
  BY <1>1 DEF CC!IInv, CC!AtBarrier
<1>4. CASE property[n] # property[property[n]]
  <2>1. /\ property' = [property EXCEPT ![n] = property[property[n]]]
        /\ UNCHANGED <<pc, job>>
    BY <1>4 DEF CC!Compress
  <2>2. /\ property' \in [CC!NodeID -> CC!NodeID] /\ property'[n] = property[property[n]]
        /\ \A m \in CC!NodeID : m # n => property'[m] = property[m]
    BY <1>1, <1>2, <2>1
  <2>3. change
    BY <1>2, <1>4 DEF CC!IInv, CC!Unchanged, CC!Flat
  <2>4. CC!TypeOK' /\ CC!AtBarrier' /\ CC!JobsMatch'
    BY <1>1, <1>2, <2>1, <2>2
    DEF CC!IInv, CC!TypeOK, CC!AtBarrier, CC!JobsMatch, CC!Hooking, CC!OutNeigh
  <2>5. CC!Unchanged' /\ CC!ReadsCurrent'
    BY <1>1, <2>3 DEF CC!Unchanged, CC!ReadsCurrent
  <2> HIDE DEF n
  <2>6. CC!ParentsDescend'
    <3>1. property[n] <= n /\ property[property[n]] <= property[n]
      BY <1>1, <1>2 DEF CC!IInv, CC!ParentsDescend
    <3> QED
      BY <1>1, <1>2, <2>2, <3>1 DEF CC!IInv, CC!ParentsDescend, CC!NodeID
  <2>7. CC!WithinComponent'
    <3> SUFFICES ASSUME NEW S \in SUBSET CC!NodeID, CC!Closed(S)
                 PROVE  \A m \in CC!NodeID : m \in S <=> property'[m] \in S
      BY <1>1, <1>2, <1>3, <2>1 DEF CC!WithinComponent, CC!Closed, CC!Hooking
    <3>1. \A m \in CC!NodeID : m \in S <=> property[m] \in S
      BY <1>1 DEF CC!IInv, CC!WithinComponent
    <3> QED
      BY <1>2, <2>2, <3>1
  <2>8. CC!Compressed'
    <3> SUFFICES ASSUME NEW m \in CC!NodeID
                 PROVE  CC!Flat(m)' \/ m \in todo \/ \E s \in Threads : pc[s] = "compress" /\ job[s].u = m
      BY <1>1, <2>1 DEF CC!Compressed
    <3>1. CASE m = n
      BY <1>1, <3>1 DEF n
    <3>2. CASE m # n /\ CC!Flat(m)
      <4>1. property[m] # n
        BY <1>4, <3>2 DEF CC!Flat
      <4>2. property'[m] = property[m] /\ property[m] \in CC!NodeID
        BY <1>1, <2>2, <3>2
      <4> QED
        BY <2>2, <3>2, <4>1, <4>2 DEF CC!Flat
    <3> QED
      BY <1>1, <3>1, <3>2 DEF CC!IInv, CC!Compressed
  <2> QED
    BY <1>1, <2>4, <2>5, <2>6, <2>7, <2>8, CCNotDone DEF CC!IInv
<1>5. CASE property[n] = property[property[n]]
  <2>1. CC!Goto(t, "take", CC!NoJob) /\ property' = property
    BY <1>5 DEF CC!Compress
  <2>2. /\ pc' = [pc EXCEPT ![t] = "take"] /\ job' = [job EXCEPT ![t] = CC!NoJob]
        /\ pc'[t] = "take"
        /\ \A s \in Threads : s # t => pc'[s] = pc[s] /\ job'[s] = job[s]
    BY <1>2, <2>1 DEF CC!Goto
  <2>3. CC!TypeOK' /\ CC!AtBarrier' /\ CC!ParentsDescend' /\ CC!JobsMatch'
    BY <1>1, <1>2, <1>3, <2>1, <2>2, CCNoJobTyped
    DEF CC!IInv, CC!TypeOK, CC!AtBarrier, CC!ParentsDescend, CC!JobsMatch, CC!Hooking,
        CC!OutNeigh
  <2>4. CC!WithinComponent' /\ CC!ReadsCurrent' /\ CC!Unchanged'
    <3>1. CC!WithinComponent'
      BY <1>1, <1>3, <2>1, <2>2 DEF CC!IInv, CC!WithinComponent, CC!Hooking, CC!Closed
    <3>2. CC!ReadsCurrent'
      BY <1>1, <1>3, <2>1, <2>2 DEF CC!IInv, CC!ReadsCurrent, CC!Hooking
    <3>3. CC!Unchanged'
      BY <1>1, <2>1 DEF CC!IInv, CC!Unchanged, CC!Flat, CC!Agree, CC!OutNeigh
    <3> QED
      BY <3>1, <3>2, <3>3
  <2>5. CC!Compressed'
    BY <1>1, <1>2, <1>5, <2>1, <2>2 DEF CC!IInv, CC!Compressed, CC!Flat
  <2> QED
    BY <1>1, <2>3, <2>4, <2>5, CCNotDone DEF CC!IInv
<1> QED
  BY <1>4, <1>5

(* A thread that is through with a vertex, or with the loop.               *)
LEMMA CCNoEdgeLeftStep ==
    ASSUME CC!GoodInputs, CC!IInv, NEW t \in Threads, CC!NoEdgeLeft(t)
    PROVE  CC!IInv'
<1>1. /\ phase = "hook" /\ property \in [CC!NodeID -> CC!NodeID] /\ pc[t] = "edge"
      /\ job[t].left = {}
      /\ UNCHANGED <<directed, edges, phase, change, property, todo>>
  BY CCRunning DEF CC!NoEdgeLeft, CC!Shared, CC!Hooking
<1>2. /\ pc \in [Threads -> {"take", "edge", "other", "root", "hook", "compress", "barrier"}]
      /\ job \in [Threads -> CC!Job]
  BY DEF CC!IInv, CC!TypeOK
<1>3. /\ pc' = [pc EXCEPT ![t] = "take"] /\ job' = [job EXCEPT ![t] = CC!NoJob]
      /\ pc'[t] = "take"
      /\ \A s \in Threads : s # t => pc'[s] = pc[s] /\ job'[s] = job[s]
  BY <1>2 DEF CC!NoEdgeLeft, CC!Goto
<1>4. CC!TypeOK' /\ CC!AtBarrier' /\ CC!ParentsDescend' /\ CC!JobsMatch' /\ CC!Compressed'
  BY <1>1, <1>2, <1>3, CCNoJobTyped
  DEF CC!IInv, CC!TypeOK, CC!AtBarrier, CC!ParentsDescend, CC!JobsMatch, CC!Compressed,
      CC!Hooking, CC!OutNeigh
<1>5. CC!WithinComponent'
  BY <1>1, <1>3 DEF CC!IInv, CC!WithinComponent, CC!Hooking, CC!Closed
<1>6. CC!Unchanged' /\ CC!ReadsCurrent'
  <2>1. \A x, y \in CC!NodeID : CC!Pending(x, y) => CC!Pending(x, y)'
    BY <1>1, <1>3 DEF CC!Pending, CC!Hooking
  <2> QED
    BY <1>1, <1>3, <2>1
    DEF CC!IInv, CC!Unchanged, CC!ReadsCurrent, CC!Hooking, CC!Flat, CC!Agree, CC!OutNeigh
<1> QED
  BY <1>1, <1>4, <1>5, <1>6, CCNotDone DEF CC!IInv

LEMMA CCBarrierStep ==
    ASSUME CC!GoodInputs, CC!IInv, NEW t \in Threads, CC!Barrier(t)
    PROVE  CC!IInv'
<1>1. /\ phase \in {"hook", "compress"} /\ property \in [CC!NodeID -> CC!NodeID]
      /\ pc[t] = "take" /\ todo = {}
      /\ UNCHANGED <<directed, edges, phase, change, property, todo>>
  BY CCRunning DEF CC!Barrier, CC!Shared
<1>2. /\ pc \in [Threads -> {"take", "edge", "other", "root", "hook", "compress", "barrier"}]
      /\ job \in [Threads -> CC!Job]
  BY DEF CC!IInv, CC!TypeOK
<1>3. /\ pc' = [pc EXCEPT ![t] = "barrier"] /\ job' = [job EXCEPT ![t] = CC!NoJob]
      /\ pc'[t] = "barrier"
      /\ \A s \in Threads : s # t => pc'[s] = pc[s] /\ job'[s] = job[s]
  BY <1>2 DEF CC!Barrier, CC!Goto
<1>4. CC!TypeOK' /\ CC!AtBarrier' /\ CC!ParentsDescend' /\ CC!JobsMatch'
  BY <1>1, <1>2, <1>3, CCNoJobTyped
  DEF CC!IInv, CC!TypeOK, CC!AtBarrier, CC!ParentsDescend, CC!JobsMatch, CC!Hooking,
      CC!OutNeigh
<1>5. CC!WithinComponent' /\ CC!Compressed'
  <2>1. \A s \in Threads :
            /\ CC!Hooking(s)' => CC!Hooking(s) /\ job'[s] = job[s]
            /\ pc'[s] \in {"root", "hook"} => pc[s] \in {"root", "hook"} /\ job'[s] = job[s]
    BY <1>3 DEF CC!Hooking
  <2>2. CC!WithinComponent'
    BY <1>1, <2>1 DEF CC!IInv, CC!WithinComponent, CC!Closed
  <2>3. \A s \in Threads : pc[s] = "compress" => pc'[s] = "compress" /\ job'[s] = job[s]
    BY <1>1, <1>3
  <2>4. CC!Compressed'
    BY <1>1, <2>3 DEF CC!IInv, CC!Compressed, CC!Flat
  <2> QED
    BY <2>2, <2>4
<1>6. CC!Unchanged' /\ CC!ReadsCurrent'
  <2>1. \A x, y \in CC!NodeID : CC!Pending(x, y) => CC!Pending(x, y)'
    BY <1>1, <1>3 DEF CC!Pending, CC!Hooking
  <2> QED
    BY <1>1, <1>3, <2>1
    DEF CC!IInv, CC!Unchanged, CC!ReadsCurrent, CC!Hooking, CC!Flat, CC!Agree, CC!OutNeigh
<1> QED
  BY <1>1, <1>4, <1>5, <1>6, CCNotDone DEF CC!IInv

-----------------------------------------------------------------------------
LEMMA CCStuttering == ASSUME CC!IInv, UNCHANGED CC!vars PROVE CC!IInv'
<1> USE DEF CC!vars, CC!IInv
<1>1. CC!TypeOK' /\ CC!AtBarrier' /\ CC!ParentsDescend' /\ CC!JobsMatch' /\ CC!Compressed'
  BY DEF CC!TypeOK, CC!AtBarrier, CC!ParentsDescend, CC!JobsMatch, CC!Compressed, CC!Hooking,
         CC!OutNeigh, CC!Flat
<1>2. CC!WithinComponent' /\ CC!ComponentLabels'
  BY DEF CC!WithinComponent, CC!ComponentLabels, CC!Connected, CC!Closed, CC!Hooking
<1>3. CC!Unchanged' /\ CC!ReadsCurrent'
  BY DEF CC!Unchanged, CC!ReadsCurrent, CC!Pending, CC!Hooking, CC!Flat, CC!Agree, CC!OutNeigh
<1> QED
  BY <1>1, <1>2, <1>3

(* The component search starts without a source and keeps it so.           *)
LEMMA CCGood == CC!GoodInputs
BY NumNodesAssumption, InputsAssumption DEF CC!GoodInputs, CC!NodeID, NodeID

LEMMA CCInvariant == Spec => [](alg = "ccfromscratch" => CC!IInv)
<1> DEFINE I == alg = "ccfromscratch" => CC!IInv
<1>1. Init => I
  BY CCGood, CCInitially DEF Init
<1>2. I /\ [Next]_vars => I'
  <2> SUFFICES ASSUME I, [Next]_vars, alg' = "ccfromscratch" PROVE CC!IInv'
    OBVIOUS
  <2>1. alg = "ccfromscratch" /\ CC!IInv
    BY DEF Next, PickSource, Main, Worker, Finished, vars
  <2>2. CASE PickSource
    BY <2>1, <2>2 DEF PickSource
  <2>3. CASE Main
    BY <2>1, <2>3, CCGood, CCStartStep, CCEndHookingStep, CCEndCompressingStep
    DEF Main, CC!Main
  <2>4. CASE \E t \in Threads : Worker(t)
    BY <2>1, <2>4, CCGood, CCTakeStep, CCNextEdgeStep, CCReadOtherStep, CCTestRootStep,
       CCHookStep,
       CCCompressStep, CCNoEdgeLeftStep, CCBarrierStep
    DEF Worker, CC!Worker
  <2>5. CASE Finished \/ UNCHANGED vars
    BY <2>1, <2>5, CCStuttering DEF Finished, vars, CC!vars
  <2> QED
    BY <2>2, <2>3, <2>4, <2>5 DEF Next
<1> QED
  BY <1>1, <1>2, PTL DEF Spec

(* CCStartFromScratch() ends with equal labels exactly in equal            *)
(* components, on every graph, with every number of threads and every      *)
(* interleaving of their reads and stores.                                 *)
THEOREM LabelsAreComponents == Spec => []ComponentLabels
<1>1. (alg = "ccfromscratch" => CC!IInv) => ComponentLabels
  BY DEF CC!IInv, ComponentLabels
<1> QED
  BY <1>1, CCInvariant, PTL

(* Hookings close no cycle: the while loop of the compressing loop walks   *)
(* down a chain of ever lower labels.                                      *)
THEOREM LabelsDescend == Spec => [](alg = "ccfromscratch" => CC!ParentsDescend)
<1>1. (alg = "ccfromscratch" => CC!IInv) => (alg = "ccfromscratch" => CC!ParentsDescend)
  BY DEF CC!IInv
<1> QED
  BY <1>1, CCInvariant, PTL

-----------------------------------------------------------------------------
(* The searches together.  CCStartFromScratch() queues nothing.            *)

(* No vertex enters the sliding queue twice in a round of                  *)
(* BFSStartFromScratch() or SSWPStartFromScratch(), and what the threads   *)
(* of SSSPStartFromScratch() copy from their bins into one frontier is not *)
(* more than the graph has edges: the writes of QueueBuffer::flush() and   *)
(* of the copying at frontier_tails stay inside the arrays.                *)
THEOREM NothingOverflows == Spec => []QueuesFit
<1>1. /\ alg = "bfsfromscratch" => BfsInv
      /\ alg = "sswpfromscratch" => SswpInv
      /\ alg = "ssspfromscratch" => SsspInv
      => QueuesFit
  BY DEF QueuesFit, BfsInv, SswpInv, SsspInv
<1> QED
  BY <1>1, BfsInvariant, SswpInvariant, SsspInvariant, PTL

(* The three searches from scratch return the depths, widths and lengths   *)
(* of the best paths from the source, however the threads' reads, stores   *)
(* and queueings interleave: a lost compare-and-swap, a value read too     *)
(* early or a vertex queued before it has its value costs a path nothing.  *)
THEOREM BestPathsFound == Spec => []PathsExact
<1>1. (alg = "bfsfromscratch" => BfsInv) => (alg = "bfsfromscratch" => BFS!Exact)
  BY DEF BfsInv, BFS!Exact, BFS!NodeID, NodeID
<1>2. (alg = "sswpfromscratch" => SswpInv) => (alg = "sswpfromscratch" => SSWP!Exact)
  BY DEF SswpInv, SSWP!Exact, SSWP!NodeID, NodeID
<1>3. (alg = "ssspfromscratch" => SsspInv) => (alg = "ssspfromscratch" => SSSP!Exact)
  BY DEF SsspInv, SSSP!Exact, SSSP!NodeID, NodeID
<1>4. /\ alg = "bfsfromscratch" => BFS!Exact
      /\ alg = "sswpfromscratch" => SSWP!Exact
      /\ alg = "ssspfromscratch" => SSSP!Exact
      => PathsExact
  BY DEF PathsExact
<1> QED
  BY <1>1, <1>2, <1>3, <1>4, BfsInvariant, SswpInvariant, SsspInvariant, PTL
=============================================================================
