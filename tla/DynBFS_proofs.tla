--------------------------- MODULE DynBFS_proofs ----------------------------
(***************************************************************************)
(* The invariant IInv of DynBFS is inductive, for every number of vertices *)
(* and threads and every sequence of batches.                              *)
(*                                                                         *)
(* The distance of a vertex is a recursive function: what holds of it is   *)
(* proved by induction over a set of natural numbers (SetInduction), which *)
(* the well-founded order of the natural numbers gives.                    *)
(***************************************************************************)
EXTENDS DynBFS, FiniteSetTheorems, WellFoundedInduction, TLAPS

-----------------------------------------------------------------------------
(* The inductive invariant.  How far the threads are:                      *)
Computing == phase \in {"first", "rounds"}
Alone == \E t \in Threads : team = {t}
Reached == {n \in NodeID : property[n] # Unreached}

Pulling(t) == pc[t] = "pull"
Pushing(t) == pc[t] \in {"push", "own", "claim", "cas", "reload"}
Busy(t) == Pulling(t) \/ Pushing(t)
AtTarget(t) == pc[t] \in {"own", "claim", "cas", "reload"}
Offering(t) == pc[t] \in {"claim", "cas", "reload"}

(* A round begins and ends with every thread at the barrier; each vertex   *)
(* is taken by one thread.                                                 *)
Rounds ==
    /\ \A t \in Threads : pc[t] # "barrier" => Computing /\ t \in team
    /\ \A t \in Threads : Pulling(t) => phase = "first"
    /\ \A t \in team : Computing /\ pc[t] = "barrier" => todo = {}
    /\ \A t \in Threads : Busy(t) => job[t].n \notin todo
    /\ \A t, u \in Threads : t # u /\ Busy(t) /\ Busy(u) => job[t].n # job[u].n

(* What is marked is queued, once, and has a depth or is about to get one. *)
Queued ==
    /\ visited = {next[i] : i \in DOMAIN next}
    /\ QueuedOnce
    /\ \A v \in visited : v \in Reached \/ \E t \in Threads : pc[t] = "cas" /\ job[t].v = v
    /\ phase = "rounds" => todo \subseteq Reached

(* The source has depth 0.                                                 *)
SourceFirst ==
    /\ source \in Reached => property[source] = 0
    /\ Computing => source \in Reached

(* A vertex may come to be deeper than the number of vertices, along a     *)
(* cycle, when the store of a pull puts a greater depth over the one that  *)
(* another thread has just given it.  This happens to it once.             *)
Rising == {n \in NodeID : \E t \in Threads :
               Pulling(t) /\ job[t].n = n /\ job[t].old = Unreached}
Deepest == 2 * Cardinality(Reached) - Cardinality(Reached \cap Rising) - 1
Bounded == \A n \in Reached : property[n] <= Deepest

(* What a thread knows: of the vertex it has taken and the one it pushes   *)
(* to, ...                                                                 *)
Targets(t) ==
    /\ Pulling(t) => job[t].left \subseteq InNeigh(job[t].n)
    /\ Pulling(t) /\ job[t].old # Unreached => job[t].n \in Reached
    /\ Pushing(t) => job[t].n \in Reached /\ job[t].left \subseteq OutNeigh(job[t].n)
    /\ AtTarget(t) => /\ job[t].v \in OutNeigh(job[t].n)
                      /\ job[t].curr # Unreached => job[t].v \in Reached
    /\ pc[t] \in {"cas", "reload"} => job[t].v \in visited
    /\ pc[t] = "reload" => job[t].v \in Reached
(* ... and of the depths it has read and is going to give.                 *)
Depths(t) ==
    /\ Pulling(t) /\ job[t].n = source => job[t].old = 0
    /\ AtTarget(t) /\ job[t].v = source => job[t].curr = 0
    /\ Pulling(t) => /\ job[t].old <= Deepest \/ job[t].old = Unreached
                     /\ job[t].new <= Deepest + 1 \/ job[t].new = FloatMax
                     /\ job[t].new > 0 /\ job[t].new >= Distance(job[t].n)
    /\ AtTarget(t) => job[t].curr <= Deepest \/ job[t].curr = Unreached
    /\ Offering(t) => /\ job[t].updated <= Deepest + 1
                      /\ job[t].updated > 0 /\ job[t].updated >= Distance(job[t].v)
    /\ pc[t] \in {"claim", "cas"} => job[t].curr = Unreached \/ job[t].updated < job[t].curr
(* A single thread finds the depths as it has read them.                   *)
Current(t) == Alone =>
    /\ Pulling(t) => job[t].old = property[job[t].n]
    /\ AtTarget(t) => job[t].curr = property[job[t].v]
    /\ Offering(t) => job[t].updated = property[job[t].n] + 1
    /\ pc[t] # "reload"

(* v could still get a depth from u, or with a single thread a smaller one. *)
Improvable(u, v) ==
    /\ u \in Reached
    /\ v \in Reached => Alone /\ property[v] > property[u] + 1

(* Somebody will see to it.                                                *)
PullIn(t, u, v) ==
    /\ Pulling(t) /\ job[t].n = v
    /\ \/ u \in job[t].left
       \/ job[t].new # FloatMax /\ (Alone => job[t].new <= property[u] + 1)
PushOut(t, u, v) ==
    /\ Pushing(t) /\ job[t].n = u
    /\ v \in job[t].left \/ (pc[t] \in {"own", "claim", "cas"} /\ job[t].v = v)
Pending(u, v) ==
    \/ phase = "first" /\ v \in todo
    \/ phase = "rounds" /\ u \in todo
    \/ u \in visited
    \/ \E t \in Threads : PullIn(t, u, v) \/ PushOut(t, u, v)

(* In the end nobody need; between the phases the batch has marked v.      *)
Accounted == \A u, v \in NodeID : <<u, v>> \in edges =>
    /\ phase = "idle" => source \in Reached /\ ~Improvable(u, v)
    /\ phase = "updated" /\ (Improvable(u, v) \/ source \notin Reached) => v \in affected
    /\ Computing /\ Improvable(u, v) => Pending(u, v)

IInv ==
    /\ TypeOK /\ Rounds /\ Queued /\ SourceFirst /\ Bounded /\ NeverTooShallow /\ Accounted
    /\ \A t \in Threads : Targets(t) /\ Depths(t) /\ Current(t)

-----------------------------------------------------------------------------
(* Induction on natural numbers, for a set instead of a predicate.         *)
Less == {p \in Nat \X Nat : p[1] < p[2]}

LEMMA LeastNatural ==
    ASSUME NEW S \in SUBSET Nat, S # {}
    PROVE  \E m \in S : \A n \in S : m <= n
<1>1. IsWellFoundedOn(Less, Nat)
  BY Zenon, NatLessThanWellFounded DEF OpToRel, Less
<1>2. PICK m \in S : \A n \in S : <<n, m>> \notin Less
  BY <1>1, WFMin
<1>3. \A n \in S : n \in Nat /\ m \in Nat /\ ~(n < m)
  BY <1>2 DEF Less
<1> QED
  BY <1>3

LEMMA SetInduction ==
    ASSUME NEW S, 0 \in S, \A n \in Nat : n \in S => n + 1 \in S
    PROVE  Nat \subseteq S
<1> DEFINE T == Nat \ S
<1>1. SUFFICES ASSUME T # {} PROVE FALSE
  OBVIOUS
<1>2. PICK m \in T : \A n \in T : m <= n
  BY <1>1, LeastNatural
<1>3. m # 0 /\ m - 1 \in Nat /\ m = (m - 1) + 1
  OBVIOUS
<1>4. m - 1 \notin T
  BY <1>2, <1>3
<1> QED
  BY <1>3, <1>4

-----------------------------------------------------------------------------
(* Distances.  Within satisfies its recursive definition.                  *)
Grown(S) == S \cup UNION {OutNeigh(u) : u \in S}
Stages(f, m) == f = [k \in 0 .. m |-> IF k = 0 THEN {source} ELSE Grown(f[k - 1])]

LEMMA StagesExist == \A m \in Nat : \E f : Stages(f, m)
<1> DEFINE S == {m \in Nat : \E f : Stages(f, m)}
<1>1. 0 \in S
  <2> DEFINE f == [k \in 0 .. 0 |-> IF k = 0 THEN {source} ELSE Grown({})]
  <2>1. f = [k \in 0 .. 0 |-> IF k = 0 THEN {source} ELSE Grown(f[k - 1])]
    OBVIOUS
  <2> HIDE DEF f
  <2> QED
    BY <2>1 DEF Stages
<1>2. ASSUME NEW m \in Nat, m \in S PROVE m + 1 \in S
  <2>1. PICK f : f = [k \in 0 .. m |-> IF k = 0 THEN {source} ELSE Grown(f[k - 1])]
    BY <1>2 DEF Stages
  <2> DEFINE g == [k \in 0 .. m + 1 |-> IF k <= m THEN f[k] ELSE Grown(f[m])]
  <2>2. g = [k \in 0 .. m + 1 |-> IF k = 0 THEN {source} ELSE Grown(g[k - 1])]
    <3>1. ASSUME NEW k \in 0 .. m + 1
          PROVE  g[k] = IF k = 0 THEN {source} ELSE Grown(g[k - 1])
      <4>1. CASE k <= m
        <5>1. g[k] = f[k] /\ (k # 0 => g[k - 1] = f[k - 1])
          BY <4>1
        <5>2. f[k] = IF k = 0 THEN {source} ELSE Grown(f[k - 1])
          <6>1. k \in 0 .. m
            BY <4>1
          <6> QED
            BY <2>1, <6>1
        <5> QED
          BY <5>1, <5>2
      <4>2. CASE k = m + 1
        BY <4>2
      <4> QED
        BY <4>1, <4>2
    <3>2. g = [k \in 0 .. m + 1 |-> g[k]]
      OBVIOUS
    <3> HIDE DEF g
    <3> QED
      BY <3>1, <3>2
  <2> HIDE DEF g
  <2> QED
    BY <2>2 DEF Stages
<1> QED
  BY <1>1, <1>2, SetInduction

LEMMA WithinStages == Stages(Within, NumNodes)
<1>1. PICK f : Stages(f, NumNodes)
  BY StagesExist, NumNodesAssumption
<1> QED
  BY <1>1 DEF Stages, Within, Grown

LEMMA WithinGrows ==
    /\ Within[0] = {source}
    /\ \A k \in 0 .. NumNodes - 1 : Within[k + 1] = Grown(Within[k])
<1> DEFINE W(k) == IF k = 0 THEN {source} ELSE Grown(Within[k - 1])
<1>1. Within = [k \in 0 .. NumNodes |-> W(k)]
  BY WithinStages DEF Stages
<1>2. \A k \in 0 .. NumNodes : Within[k] = W(k)
  <2> HIDE DEF W
  <2> QED
    BY <1>1
<1>3. 0 \in 0 .. NumNodes /\ \A k \in 0 .. NumNodes - 1 : k + 1 \in 0 .. NumNodes
  BY NumNodesAssumption
<1>4. \A k \in 0 .. NumNodes - 1 : k + 1 # 0 /\ (k + 1) - 1 = k
  BY NumNodesAssumption
<1> QED
  BY <1>2, <1>3, <1>4

GraphOK == edges \subseteq NodeID \X NodeID

LEMMA Neighbors ==
    ASSUME GraphOK
    PROVE  /\ \A u, v : v \in OutNeigh(u) <=> <<u, v>> \in edges
           /\ \A u, v : u \in InNeigh(v) <=> <<u, v>> \in edges
           /\ \A u, v : <<u, v>> \in edges => u \in NodeID /\ v \in NodeID
           /\ \A e \in edges : e = <<e[1], e[2]>>
<1>1. \A e \in edges : e = <<e[1], e[2]>> /\ e[1] \in NodeID /\ e[2] \in NodeID
  BY DEF GraphOK
<1>2. ASSUME NEW u, NEW v PROVE v \in OutNeigh(u) <=> <<u, v>> \in edges
  BY <1>1 DEF OutNeigh
<1>3. ASSUME NEW u, NEW v PROVE u \in InNeigh(v) <=> <<u, v>> \in edges
  BY <1>1 DEF InNeigh
<1>4. \A u, v : <<u, v>> \in edges => u \in NodeID /\ v \in NodeID
  BY DEF GraphOK
<1> QED
  BY <1>1, <1>2, <1>3, <1>4

LEMMA WithinMember ==
    ASSUME GraphOK, NEW k \in 0 .. NumNodes - 1, NEW v
    PROVE  v \in Within[k + 1] <=>
              v \in Within[k] \/ \E u \in Within[k] : <<u, v>> \in edges
<1>1. Within[k + 1] = Grown(Within[k])
  BY WithinGrows
<1>2. v \in Grown(Within[k]) <=> v \in Within[k] \/ \E u \in Within[k] : v \in OutNeigh(u)
  BY DEF Grown
<1> QED
  BY <1>1, <1>2, Neighbors

LEMMA WithinNodes ==
    ASSUME GraphOK
    PROVE  \A k \in 0 .. NumNodes :
              /\ Within[k] \subseteq NodeID /\ source \in Within[k]
              /\ \A j \in 0 .. k : Within[j] \subseteq Within[k]
<1> DEFINE P(k) == /\ Within[k] \subseteq NodeID /\ source \in Within[k]
                   /\ \A j \in 0 .. k : Within[j] \subseteq Within[k]
           S == {k \in Nat : k <= NumNodes => P(k)}
<1>1. 0 \in S
  BY WithinGrows, SourceAssumption DEF NodeID
<1>2. ASSUME NEW k \in Nat, k \in S PROVE k + 1 \in S
  <2> SUFFICES ASSUME k + 1 <= NumNodes PROVE P(k + 1)
    OBVIOUS
  <2>1. k \in 0 .. NumNodes - 1 /\ P(k)
    BY <1>2, NumNodesAssumption
  <2>2. \A v : v \in Within[k + 1] <=>
              v \in Within[k] \/ \E u \in Within[k] : <<u, v>> \in edges
    BY <2>1, WithinMember
  <2>3. Within[k + 1] \subseteq NodeID /\ source \in Within[k + 1]
    BY <2>1, <2>2, Neighbors
  <2>4. ASSUME NEW j \in 0 .. k + 1 PROVE Within[j] \subseteq Within[k + 1]
    <3>1. CASE j = k + 1
      BY <3>1
    <3>2. CASE j # k + 1
      BY <2>1, <2>2, <3>2
    <3> QED
      BY <3>1, <3>2
  <2> QED
    BY <2>3, <2>4
<1>3. Nat \subseteq S
  <2> HIDE DEF S
  <2> QED
    BY <1>1, <1>2, SetInduction
<1> QED
  BY <1>3, NumNodesAssumption

LEMMA NodesFinite == IsFiniteSet(NodeID) /\ Cardinality(NodeID) = NumNodes
BY FS_Interval, NumNodesAssumption DEF NodeID

(* As many edges as there are vertices lead wherever any number does: the  *)
(* set either stops growing or has more than k vertices after k edges.     *)
LEMMA WithinClosed ==
    ASSUME GraphOK, NEW u \in Within[NumNodes], NEW v, <<u, v>> \in edges
    PROVE  v \in Within[NumNodes]
<1> DEFINE Still(k) == \A x, y : x \in Within[k] /\ <<x, y>> \in edges => y \in Within[k]
           S == {k \in Nat : k <= NumNodes => Still(k) \/ Cardinality(Within[k]) >= k + 1}
<1>0. \A k \in 0 .. NumNodes : /\ Within[k] \subseteq NodeID /\ IsFiniteSet(Within[k])
                               /\ Cardinality(Within[k]) \in Nat
                               /\ Cardinality(Within[k]) <= NumNodes
  BY WithinNodes, NodesFinite, FS_Subset, FS_CardinalityType
<1>1. 0 \in S
  <2>1. Cardinality(Within[0]) = 1
    BY WithinGrows, FS_Singleton
  <2> QED
    BY <2>1
<1>2. ASSUME NEW k \in Nat, k \in S PROVE k + 1 \in S
  <2> SUFFICES ASSUME k + 1 <= NumNodes
               PROVE  Still(k + 1) \/ Cardinality(Within[k + 1]) >= k + 2
    OBVIOUS
  <2>1. k \in 0 .. NumNodes - 1 /\ k \in 0 .. NumNodes /\ k + 1 \in 0 .. NumNodes
    BY NumNodesAssumption
  <2>2. \A y : y \in Within[k + 1] <=>
              y \in Within[k] \/ \E x \in Within[k] : <<x, y>> \in edges
    BY <2>1, WithinMember
  <2>3. CASE Still(k)
    <3>1. Within[k + 1] = Within[k]
      BY <2>2, <2>3
    <3> QED
      BY <2>3, <3>1
  <2>4. CASE ~Still(k)
    <3>1. Within[k + 1] # Within[k] /\ Within[k] \subseteq Within[k + 1]
      BY <2>2, <2>4
    <3>2. Cardinality(Within[k]) <= Cardinality(Within[k + 1])
          /\ Cardinality(Within[k]) # Cardinality(Within[k + 1])
      BY <1>0, <2>1, <3>1, FS_Subset
    <3>3. Cardinality(Within[k]) >= k + 1
      BY <1>2, <2>1, <2>4
    <3> QED
      BY <1>0, <2>1, <3>2, <3>3
  <2> QED
    BY <2>3, <2>4
<1>3. Nat \subseteq S
  <2> HIDE DEF S
  <2> QED
    BY <1>1, <1>2, SetInduction
<1>4. Still(NumNodes)
  BY <1>0, <1>3, NumNodesAssumption
<1> QED
  BY <1>4

LEMMA DistanceIs ==
    ASSUME NEW n
    PROVE  /\ n \in Within[NumNodes] =>
                /\ Distance(n) \in 0 .. NumNodes
                /\ n \in Within[Distance(n)]
                /\ \A j \in 0 .. Distance(n) - 1 : n \notin Within[j]
           /\ n \notin Within[NumNodes] => Distance(n) = FloatMax
<1>1. ASSUME n \in Within[NumNodes]
      PROVE  \E k \in 0 .. NumNodes : n \in Within[k] /\ \A j \in 0 .. k - 1 : n \notin Within[j]
  <2> DEFINE S == {k \in 0 .. NumNodes : n \in Within[k]}
  <2>1. NumNodes \in S /\ S \in SUBSET Nat
    BY <1>1, NumNodesAssumption
  <2>2. PICK k \in S : \A j \in S : k <= j
    <3> HIDE DEF S
    <3> QED
      BY <2>1, LeastNatural
  <2>3. ASSUME NEW j \in 0 .. k - 1, n \in Within[j] PROVE FALSE
    <3>1. j \in S
      BY <2>3, NumNodesAssumption
    <3> QED
      BY <2>2, <3>1, NumNodesAssumption
  <2> QED
    BY <2>2, <2>3
<1> QED
  BY <1>1 DEF Distance

LEMMA DistanceRange ==
    /\ \A n : Distance(n) \in 0 .. FloatMax
    /\ \A n : Distance(n) # FloatMax <=> n \in Within[NumNodes]
BY DistanceIs, NumNodesAssumption, FloatMaxAssumption

LEMMA DistanceAtMost ==
    ASSUME GraphOK, NEW n, NEW k \in 0 .. NumNodes
    PROVE  n \in Within[k] <=> Distance(n) <= k
<1>1. \A j \in 0 .. NumNodes : \A i \in 0 .. j : Within[i] \subseteq Within[j]
  BY WithinNodes
<1>2. NumNodes \in 0 .. NumNodes /\ NumNodes < FloatMax /\ FloatMax \in Nat
  BY NumNodesAssumption, FloatMaxAssumption
<1>3. CASE n \in Within[NumNodes]
  <2>1. /\ Distance(n) \in 0 .. NumNodes /\ n \in Within[Distance(n)]
        /\ \A j \in 0 .. Distance(n) - 1 : n \notin Within[j]
    BY <1>3, DistanceIs
  <2>2. Distance(n) <= k => n \in Within[k]
    BY <1>1, <2>1
  <2>3. Distance(n) > k => n \notin Within[k]
    BY <2>1
  <2> QED
    BY <2>1, <2>2, <2>3
<1>4. CASE n \notin Within[NumNodes]
  <2>1. n \notin Within[k]
    BY <1>1, <1>2, <1>4
  <2> QED
    BY <1>2, <1>4, <2>1, DistanceIs
<1> QED
  BY <1>3, <1>4

LEMMA DistanceOfSource == GraphOK => Distance(source) = 0
<1>1. 0 \in 0 .. NumNodes /\ source \in Within[0]
  BY WithinGrows, NumNodesAssumption
<1>2. Distance(source) \in Nat
  BY DistanceRange
<1> QED
  BY <1>1, <1>2, DistanceAtMost

LEMMA DistanceAcross ==
    ASSUME GraphOK, NEW u, NEW v, <<u, v>> \in edges
    PROVE  Distance(v) <= Distance(u) + 1
<1>1. /\ Distance(u) \in 0 .. FloatMax /\ Distance(v) \in 0 .. FloatMax
      /\ FloatMax \in Nat /\ NumNodes \in Nat
  BY DistanceRange, FloatMaxAssumption, NumNodesAssumption
<1>2. CASE u \notin Within[NumNodes]
  BY <1>1, <1>2, DistanceRange
<1>3. CASE u \in Within[NumNodes]
  <2>1. Distance(u) \in 0 .. NumNodes /\ u \in Within[Distance(u)]
    BY <1>3, DistanceIs
  <2>2. CASE Distance(u) = NumNodes
    <3>1. v \in Within[NumNodes]
      BY <1>3, WithinClosed
    <3> QED
      BY <1>1, <2>2, <3>1, DistanceIs
  <2>3. CASE Distance(u) # NumNodes
    <3>1. Distance(u) \in 0 .. NumNodes - 1 /\ Distance(u) + 1 \in 0 .. NumNodes
      BY <1>1, <2>1, <2>3
    <3>2. v \in Within[Distance(u) + 1]
      BY <2>1, <3>1, WithinMember
    <3> QED
      BY <3>1, <3>2, DistanceAtMost
  <2> QED
    BY <2>2, <2>3
<1> QED
  BY <1>2, <1>3

(* More edges never make a vertex more distant.                            *)
WithinLaw ==
    /\ Within[0] = {source}
    /\ \A k \in 0 .. NumNodes - 1 : \A v :
          v \in Within[k + 1] <=> v \in Within[k] \/ \E u \in Within[k] : <<u, v>> \in edges
    /\ \A n : \A k \in 0 .. NumNodes : n \in Within[k] <=> Distance(n) <= k
    /\ \A n : Distance(n) \in 0 .. FloatMax
    /\ \A n : Distance(n) # FloatMax => Distance(n) \in 0 .. NumNodes

LEMMA WithinLawHolds == GraphOK => WithinLaw
<1> SUFFICES ASSUME GraphOK PROVE WithinLaw
  OBVIOUS
<1>1. \A n : Distance(n) # FloatMax => Distance(n) \in 0 .. NumNodes
  BY DistanceRange, DistanceIs
<1> QED
  BY <1>1, WithinGrows, WithinMember, DistanceAtMost, DistanceRange DEF WithinLaw

LEMMA DistanceShrinks ==
    ASSUME GraphOK, GraphOK', edges \subseteq edges'
    PROVE  \A n : Distance(n)' <= Distance(n)
<1> DEFINE S == {k \in Nat : k <= NumNodes => Within[k] \subseteq Within'[k]}
<1>0. WithinLaw /\ WithinLaw'
  BY WithinLawHolds, PTL
<1>1. 0 \in S
  BY <1>0 DEF WithinLaw
<1>2. ASSUME NEW k \in Nat, k \in S PROVE k + 1 \in S
  <2> SUFFICES ASSUME k + 1 <= NumNodes PROVE Within[k + 1] \subseteq Within'[k + 1]
    OBVIOUS
  <2>1. k \in 0 .. NumNodes - 1 /\ Within[k] \subseteq Within'[k]
    BY <1>2, NumNodesAssumption
  <2> QED
    BY <1>0, <2>1 DEF WithinLaw
<1>3. Nat \subseteq S
  <2> HIDE DEF S
  <2> QED
    BY <1>1, <1>2, SetInduction
<1>4. \A k \in 0 .. NumNodes : Within[k] \subseteq Within'[k]
  BY <1>3, NumNodesAssumption
<1>5. ASSUME NEW n PROVE Distance(n)' <= Distance(n)
  <2>1. CASE Distance(n) = FloatMax
    BY <1>0, <2>1, FloatMaxAssumption DEF WithinLaw
  <2>2. CASE Distance(n) # FloatMax
    <3>1. Distance(n) \in 0 .. NumNodes /\ n \in Within[Distance(n)]
      BY <1>0, <2>2, NumNodesAssumption DEF WithinLaw
    <3> QED
      BY <1>0, <1>4, <3>1 DEF WithinLaw
  <2> QED
    BY <2>1, <2>2
<1> QED
  BY <1>5

-----------------------------------------------------------------------------
(* The greatest depth there can be.                                        *)
LEMMA NodeSets ==
    ASSUME NEW S \in SUBSET NodeID
    PROVE  IsFiniteSet(S) /\ Cardinality(S) \in Nat /\ Cardinality(S) <= NumNodes
BY NodesFinite, FS_Subset, FS_CardinalityType

(* A depth is never FloatMax, nor is one more.                             *)
DeepestOK == Deepest \in Int /\ Deepest + 1 < FloatMax
LEMMA DeepestRange == DeepestOK
<1>1. Reached \in SUBSET NodeID /\ Reached \cap Rising \in SUBSET NodeID
  BY DEF Reached
<1>2. /\ Cardinality(Reached) \in Nat /\ Cardinality(Reached) <= NumNodes
      /\ Cardinality(Reached \cap Rising) \in Nat
  BY <1>1, NodeSets
<1> QED
  BY <1>2, NumNodesAssumption, FloatMaxAssumption DEF Deepest, DeepestOK

(* It grows by at least one with a vertex reached, or with one that is no  *)
(* longer rising.                                                          *)
LEMMA DeepestRises ==
    ASSUME Reached \subseteq Reached',
           Reached' \cap Rising' \subseteq (Reached \cap Rising) \cup (Reached' \ Reached)
    PROVE  /\ Deepest \in Int /\ Deepest' \in Int /\ Deepest <= Deepest'
           /\ Reached' # Reached => Deepest + 1 <= Deepest'
           /\ (\E n \in Reached \cap Rising : n \notin Rising') => Deepest + 1 <= Deepest'
<1> DEFINE New == Reached' \ Reached
           a == Cardinality(Reached)  b == Cardinality(Reached \cap Rising)
           c == Cardinality(Reached') d == Cardinality(Reached' \cap Rising')
           e == Cardinality(New)
           f == Cardinality((Reached' \cap Rising') \cap Reached)
           g == Cardinality((Reached' \cap Rising') \ Reached)
<1>1. /\ Reached \in SUBSET NodeID /\ Reached \cap Rising \in SUBSET NodeID
      /\ Reached' \in SUBSET NodeID /\ Reached' \cap Rising' \in SUBSET NodeID
      /\ New \in SUBSET NodeID
      /\ (Reached' \cap Rising') \cap Reached \in SUBSET NodeID
      /\ (Reached' \cap Rising') \ Reached \in SUBSET NodeID
  BY DEF Reached
<1>2. a \in Nat /\ b \in Nat /\ c \in Nat /\ d \in Nat /\ e \in Nat /\ f \in Nat /\ g \in Nat
  BY <1>1, NodeSets
<1>3. c = a + e
  <2>1. Reached' \cap Reached = Reached /\ IsFiniteSet(Reached') /\ IsFiniteSet(Reached)
    BY <1>1, NodeSets
  <2>2. e = c - a
    BY <2>1, FS_Difference
  <2> QED
    BY <1>2, <2>2
<1>4. d = f + g
  <2>1. IsFiniteSet(Reached' \cap Rising')
    BY <1>1, NodeSets
  <2>2. g = d - f
    BY <2>1, FS_Difference
  <2> QED
    BY <1>2, <2>2
<1>5. g <= e
  <2>1. (Reached' \cap Rising') \ Reached \in SUBSET New /\ IsFiniteSet(New)
    BY <1>1, NodeSets
  <2> QED
    BY <2>1, FS_Subset
<1>6. f <= b /\ (f = b => (Reached' \cap Rising') \cap Reached = Reached \cap Rising)
  <2>1. /\ (Reached' \cap Rising') \cap Reached \in SUBSET (Reached \cap Rising)
        /\ IsFiniteSet(Reached \cap Rising)
    BY <1>1, NodeSets
  <2> QED
    BY <2>1, FS_Subset
<1>7. New # {} => e > 0
  BY <1>1, <1>2, NodeSets, FS_EmptySet
<1>8. Deepest = 2 * a - b - 1 /\ Deepest' = 2 * c - d - 1
  BY DEF Deepest
<1>9. (\E n \in Reached \cap Rising : n \notin Rising') => f < b
  <2>1. ASSUME NEW n \in Reached \cap Rising, n \notin Rising'
        PROVE  (Reached' \cap Rising') \cap Reached # Reached \cap Rising
    BY <2>1
  <2>2. f \in Int /\ b \in Int
    BY <1>2
  <2> HIDE DEF f, b
  <2> QED
    BY <1>6, <2>1, <2>2
<1> HIDE DEF a, b, c, d, e, f, g
<1>10. Reached' # Reached => e > 0
  BY <1>7
<1> QED
  BY <1>2, <1>3, <1>4, <1>5, <1>6, <1>8, <1>9, <1>10

-----------------------------------------------------------------------------
(* A step of one thread, as the others see it.                             *)
LEMMA Moved ==
    ASSUME TypeOK, NEW t \in Threads, NEW label \in ControlPoints, NEW locals,
           Goto(t, label, locals)
    PROVE  /\ pc'[t] = label /\ job'[t] = locals
           /\ \A u \in Threads : u # t => pc'[u] = pc[u] /\ job'[u] = job[u]
           /\ pc' \in [Threads -> ControlPoints] /\ DOMAIN job' = Threads
BY DEF TypeOK, Goto

LEMMA SameGraph ==
    ASSUME edges' = edges
    PROVE  /\ \A n : OutNeigh(n)' = OutNeigh(n) /\ InNeigh(n)' = InNeigh(n)
           /\ \A n : Distance(n)' = Distance(n)
BY DEF OutNeigh, InNeigh, Distance, Within

Steps(t) ==
    /\ Fixed
    /\ \A u \in Threads : u # t => pc'[u] = pc[u] /\ job'[u] = job[u]
    /\ Reached \subseteq Reached' /\ visited \subseteq visited'
    /\ todo' \subseteq todo
    /\ Deepest <= Deepest'

(* What the other threads know stays true: with a single thread there are  *)
(* none.                                                                   *)
LEMMA OthersKnow ==
    ASSUME IInv, NEW t \in Threads, Steps(t), NEW u \in Threads, u # t,
           pc[t] # "barrier" \/ property' = property
    PROVE  Targets(u)' /\ Depths(u)' /\ Current(u)'
<1>1. Targets(u) /\ Depths(u) /\ Current(u) /\ TypeOK /\ Rounds
  BY DEF IInv
<1>2. pc'[u] = pc[u] /\ job'[u] = job[u]
  BY DEF Steps
<1>3. edges' = edges /\ team' = team
  BY DEF Steps, Fixed
<1>4. Targets(u)'
  BY <1>1, <1>2, <1>3, SameGraph DEF Targets, Steps, Pulling, Pushing, AtTarget
<1>5. Depths(u)'
  <2>1. Deepest \in Int /\ Deepest' \in Int /\ Deepest <= Deepest'
    <3>1. DeepestOK /\ DeepestOK'
      BY DeepestRange, PTL
    <3> QED
      BY <3>1 DEF DeepestOK, Steps
  <2>2. Busy(u) => job[u] \in Job
    BY <1>1 DEF TypeOK, Busy, Pulling, Pushing
  <2>3. Busy(u) => /\ job[u].old \in Int /\ job[u].new \in Int /\ job[u].curr \in Int
                   /\ job[u].updated \in Int
    BY <2>2, FloatMaxAssumption DEF Job, Depth, Unreached
  <2> QED
    BY <1>1, <1>2, <1>3, <2>1, <2>3, SameGraph
       DEF Depths, Pulling, Pushing, AtTarget, Offering, Busy
<1>6. Current(u)'
  <2>1. CASE pc[t] # "barrier"
    <3>1. t \in team
      BY <1>1, <2>1 DEF Rounds
    <3>2. Alone => pc[u] = "barrier"
      BY <1>1, <3>1 DEF Rounds, Alone
    <3> QED
      BY <1>2, <1>3, <3>2 DEF Current, Alone, Pulling, AtTarget, Offering
  <2>2. CASE property' = property
    BY <1>1, <1>2, <1>3, <2>2 DEF Current, Alone, Pulling, AtTarget, Offering
  <2> QED
    BY <2>1, <2>2
<1> QED
  BY <1>4, <1>5, <1>6

(* Whatever the thread itself was to see to is done, or is still to be     *)
(* done.                                                                   *)
Own(t, u, v) ==
    \/ PullIn(t, u, v) \/ PushOut(t, u, v)
    \/ phase = "first" /\ v \in todo \ todo'
    \/ phase = "rounds" /\ u \in todo \ todo'
Handled(t) == \A u, v \in NodeID : <<u, v>> \in edges /\ Improvable(u, v)' =>
    \/ Improvable(u, v) /\ ~Own(t, u, v)
    \/ Pending(u, v)'

(* What the others were to see to they still are.                          *)
LEMMA AccountedStep ==
    ASSUME IInv, NEW t \in Threads, pc[t] # "barrier", Steps(t), Handled(t)
    PROVE  Accounted'
<1>1. /\ phase' = phase /\ edges' = edges /\ team' = team /\ Computing
      /\ todo' \subseteq todo /\ visited \subseteq visited'
  BY DEF IInv, Rounds, Steps, Fixed
<1>2. SUFFICES ASSUME NEW u \in NodeID, NEW v \in NodeID, <<u, v>> \in edges,
                      Improvable(u, v)'
               PROVE  Pending(u, v)'
  BY <1>1 DEF Accounted, Computing
<1>3. CASE ~(Improvable(u, v) /\ ~Own(t, u, v))
  BY <1>2, <1>3 DEF Handled
<1>4. CASE Improvable(u, v) /\ ~Own(t, u, v)
  <2>1. Pending(u, v)
    BY <1>1, <1>2, <1>4 DEF IInv, Accounted
  <2>2. CASE \/ phase = "first" /\ v \in todo
             \/ phase = "rounds" /\ u \in todo
             \/ u \in visited
    BY <1>1, <1>4, <2>2 DEF Own, Pending
  <2>3. CASE \E x \in Threads : PullIn(x, u, v) \/ PushOut(x, u, v)
    <3>1. PICK x \in Threads : PullIn(x, u, v) \/ PushOut(x, u, v)
      BY <2>3
    <3>2. x # t
      BY <1>4, <3>1 DEF Own
    <3>3. pc'[x] = pc[x] /\ job'[x] = job[x]
      BY <3>2 DEF Steps
    <3>4. t \in team /\ x \in team
      BY <3>1 DEF IInv, Rounds, PullIn, PushOut, Pulling, Pushing
    <3>5. ~Alone /\ ~Alone'
      BY <1>1, <3>2, <3>4 DEF Alone
    <3>6. PullIn(x, u, v)' \/ PushOut(x, u, v)'
      BY <3>1, <3>3, <3>5 DEF PullIn, PushOut, Pulling, Pushing
    <3> QED
      BY <3>6 DEF Pending
  <2> QED
    BY <2>1, <2>2, <2>3 DEF Pending
<1> QED
  BY <1>3, <1>4

(* A thread goes on with its vertex, or takes one of those left.           *)
LEMMA RoundsStep ==
    ASSUME IInv, NEW t \in Threads, pc[t] # "barrier", Steps(t),
           pc'[t] = "barrier" => todo = {},
           pc'[t] = "pull" => phase = "first",
           Busy(t)' => \/ Busy(t) /\ job'[t].n = job[t].n
                       \/ job'[t].n \in todo \ todo'
    PROVE  Rounds'
<1>1. /\ phase' = phase /\ team' = team /\ todo' \subseteq todo
      /\ \A u \in Threads : u # t => pc'[u] = pc[u] /\ job'[u] = job[u]
      /\ team \subseteq Threads
  BY TeamsAssumption DEF IInv, TypeOK, Steps, Fixed
<1>2. \A u \in Threads : pc'[u] # "barrier" => Computing' /\ u \in team'
  BY <1>1 DEF IInv, Rounds, Computing
<1>3. \A u \in Threads : Pulling(u)' => phase' = "first"
  BY <1>1 DEF IInv, Rounds, Pulling
<1>4. \A u \in team' : Computing' /\ pc'[u] = "barrier" => todo' = {}
  BY <1>1 DEF IInv, Rounds, Computing
<1>5. \A u \in Threads : u # t => (Busy(u)' <=> Busy(u))
  BY <1>1 DEF Busy, Pulling, Pushing
<1>6. \A u \in Threads : Busy(u)' => job'[u].n \notin todo'
  BY <1>1, <1>5 DEF IInv, Rounds
<1>7. \A u, w \in Threads : u # w /\ Busy(u)' /\ Busy(w)' => job'[u].n # job'[w].n
  <2>1. \A w \in Threads : w # t /\ Busy(t)' /\ Busy(w)' => job'[t].n # job'[w].n
    BY <1>1, <1>5 DEF IInv, Rounds
  <2>2. \A u, w \in Threads : u # w /\ u # t /\ w # t /\ Busy(u)' /\ Busy(w)'
                                  => job'[u].n # job'[w].n
    BY <1>1, <1>5 DEF IInv, Rounds
  <2> QED
    BY <2>1, <2>2
<1> QED
  BY <1>2, <1>3, <1>4, <1>6, <1>7 DEF Rounds

(* Most steps leave the queue alone, ...                                   *)
LEMMA QueuedStep ==
    ASSUME IInv, NEW t \in Threads, pc[t] # "barrier", Steps(t), next' = next, visited' = visited,
           pc[t] = "cas" => job[t].v \in Reached'
    PROVE  Queued'
<1>1. /\ phase' = phase /\ todo' \subseteq todo /\ Reached \subseteq Reached'
      /\ \A u \in Threads : u # t => pc'[u] = pc[u] /\ job'[u] = job[u]
  BY DEF Steps, Fixed
<1>2. visited' = {next'[i] : i \in DOMAIN next'} /\ QueuedOnce'
  BY DEF IInv, Queued, QueuedOnce
<1>3. \A v \in visited' : v \in Reached' \/ \E x \in Threads : pc'[x] = "cas" /\ job'[x].v = v
  BY <1>1 DEF IInv, Queued
<1>4. phase' = "rounds" => todo' \subseteq Reached'
  BY <1>1 DEF IInv, Queued
<1> QED
  BY <1>2, <1>3, <1>4 DEF Queued

(* ... and the depths.                                                     *)
LEMMA SameDepths ==
    ASSUME IInv, NEW t \in Threads, Steps(t), property' = property
    PROVE  SourceFirst' /\ Bounded' /\ NeverTooShallow'
<1>1. Reached' = Reached /\ phase' = phase /\ edges' = edges
  BY DEF Reached, Steps, Fixed
<1>2. DeepestOK /\ DeepestOK'
  BY DeepestRange, PTL
<1>3. \A n \in NodeID : property[n] \in Int
  BY FloatMaxAssumption DEF IInv, TypeOK, Depth, Unreached
<1>4. SourceFirst'
  BY <1>1 DEF IInv, SourceFirst, Computing
<1>5. Bounded'
  BY <1>1, <1>2, <1>3 DEF IInv, Bounded, Steps, DeepestOK, Reached
<1>6. NeverTooShallow'
  BY <1>1, SameGraph DEF IInv, NeverTooShallow
<1> QED
  BY <1>4, <1>5, <1>6

(* All that remains to be shown of a step.                                 *)
LEMMA WorkerStep ==
    ASSUME IInv, NEW t \in Threads, pc[t] # "barrier", Steps(t), Handled(t),
           TypeOK', Queued', SourceFirst', Bounded', NeverTooShallow',
           pc'[t] = "barrier" => todo = {},
           pc'[t] = "pull" => phase = "first",
           Busy(t)' => \/ Busy(t) /\ job'[t].n = job[t].n
                       \/ job'[t].n \in todo \ todo',
           Targets(t)', Depths(t)', Current(t)'
    PROVE  IInv'
<1>1. Accounted' /\ Rounds'
  BY AccountedStep, RoundsStep
<1>2. \A u \in Threads : Targets(u)' /\ Depths(u)' /\ Current(u)'
  BY OthersKnow
<1> QED
  BY <1>1, <1>2 DEF IInv

(* A step that reads.                                                      *)
LEMMA ReadingStep ==
    ASSUME IInv, NEW t \in Threads, Busy(t), pc[t] # "cas",
           NEW label \in ControlPoints \ {"barrier"}, NEW r, Goto(t, label, r), Fixed,
           UNCHANGED <<property, todo, next, visited>>,
           label # "take" => r \in Job /\ r.n = job[t].n,
           Pulling(t) => label = "pull" /\ r.old = job[t].old,
           label = "pull" => Pulling(t),
           Targets(t)', Depths(t)', Current(t)', Handled(t)
    PROVE  IInv'
<1>0. TypeOK /\ Rounds
  BY DEF IInv
<1>1. /\ pc'[t] = label /\ job'[t] = r
      /\ \A u \in Threads : u # t => pc'[u] = pc[u] /\ job'[u] = job[u]
      /\ pc' \in [Threads -> ControlPoints] /\ DOMAIN job' = Threads
  BY <1>0, Moved
<1>2. Reached' = Reached /\ pc[t] # "barrier"
  BY DEF Reached, Busy, Pulling, Pushing
<1>3. Rising' = Rising
  BY <1>1 DEF Rising, Pulling, Busy, Pushing
<1>4. Steps(t)
  <2>1. Deepest <= Deepest'
    BY <1>2, <1>3, DeepestRises
  <2> QED
    BY <1>1, <1>2, <2>1 DEF Steps
<1>5. TypeOK'
  BY <1>0, <1>1 DEF TypeOK, Fixed
<1>6. Queued' /\ SourceFirst' /\ Bounded' /\ NeverTooShallow'
  BY <1>2, <1>4, QueuedStep, SameDepths
<1>7. pc'[t] = "pull" => phase = "first"
  BY <1>0, <1>1 DEF Rounds
<1>8. Busy(t)' => Busy(t) /\ job'[t].n = job[t].n
  BY <1>1 DEF Busy, Pulling, Pushing
<1> QED
  BY <1>1, <1>2, <1>4, <1>5, <1>6, <1>7, <1>8, WorkerStep

-----------------------------------------------------------------------------
(* What is known of a thread at work.                                      *)
LEMMA AtWork ==
    ASSUME IInv, NEW t \in Threads, Busy(t)
    PROVE  /\ job[t] \in Job /\ job[t].n \in NodeID /\ GraphOK /\ t \in team /\ Computing
           /\ job[t].new \in Int /\ job[t].curr \in Int /\ job[t].updated \in Int
           /\ Targets(t) /\ Depths(t) /\ Current(t)
           /\ \A n \in NodeID : property[n] \in Int
           /\ DeepestOK /\ FloatMax \in Nat /\ WithinLaw
<1>1. job[t] \in Job /\ GraphOK
  BY DEF IInv, TypeOK, Busy, Pulling, Pushing, GraphOK
<1>2. job[t].new \in Int /\ job[t].curr \in Int /\ job[t].updated \in Int
  BY <1>1, FloatMaxAssumption DEF Job, Depth, Unreached
<1>3. \A n \in NodeID : property[n] \in Int
  BY FloatMaxAssumption DEF IInv, TypeOK, Depth, Unreached
<1>4. job[t].n \in NodeID
  BY <1>1 DEF Job
<1>5. t \in team /\ Computing
  BY DEF IInv, Rounds, Busy, Pulling, Pushing
<1> QED
  BY <1>1, <1>2, <1>3, <1>4, <1>5, DeepestRange, FloatMaxAssumption, WithinLawHolds DEF IInv

(* Every depth is one of the values of Depth, and more than the distance.  *)
LEMMA KnownDepth ==
    ASSUME IInv, NEW n \in NodeID, property[n] # Unreached
    PROVE  /\ n \in Reached /\ property[n] \in Nat /\ property[n] <= Deepest
           /\ property[n] + 1 \in Depth /\ property[n] + 1 < FloatMax
           /\ property[n] >= Distance(n)
<1>1. n \in Reached /\ property[n] \in Nat
  BY FloatMaxAssumption DEF IInv, TypeOK, Reached, Depth, Unreached
<1>2. property[n] <= Deepest /\ Deepest \in Int /\ Deepest + 1 < FloatMax
  BY <1>1, DeepestRange DEF IInv, Bounded, DeepestOK
<1> QED
  BY <1>1, <1>2, FloatMaxAssumption DEF IInv, NeverTooShallow, Depth

(* One lemma for each step of a thread.                                    *)
LEMMA PullStep == ASSUME IInv, NEW t \in Threads, Pull(t) PROVE IInv'
<1>1. Busy(t) /\ Pulling(t) /\ pc[t] = "pull"
  BY DEF Pull, Busy, Pulling
<1>2. PICK u, offer, r :
        /\ u \in job[t].left
        /\ offer = IF property[u] = Unreached THEN FloatMax ELSE property[u] + 1
        /\ r = [job[t] EXCEPT !.left = @ \ {u}, !.new = IF offer < @ THEN offer ELSE @]
        /\ Goto(t, "pull", r)
  BY DEF Pull
<1>3. /\ Fixed /\ UNCHANGED <<property, todo, next, visited>>
  BY DEF Pull
<1>4. /\ job[t] \in Job /\ GraphOK /\ job[t].n \in NodeID
      /\ job[t].new \in Int /\ job[t].old \in Depth \cup {Unreached}
      /\ job[t].new \in Depth /\ job[t].left \in SUBSET NodeID
      /\ Targets(t) /\ Depths(t) /\ Current(t) /\ DeepestOK /\ FloatMax \in Nat
  BY <1>1, AtWork DEF Job
<1>5. u \in NodeID /\ <<u, job[t].n>> \in edges
  BY <1>1, <1>2, <1>4, Neighbors DEF Targets
<1>6. /\ offer \in Depth /\ offer \in Nat /\ offer > 0 /\ offer >= Distance(job[t].n)
      /\ offer <= Deepest + 1 \/ offer = FloatMax
  <2>1. CASE property[u] = Unreached
    <3>1. Distance(job[t].n) \in 0 .. FloatMax
      BY <1>1, AtWork DEF WithinLaw
    <3>2. FloatMax \in Nat /\ FloatMax > 0
      BY FloatMaxAssumption, NumNodesAssumption
    <3> QED
      BY <1>2, <2>1, <3>1, <3>2 DEF Depth
  <2>2. CASE property[u] # Unreached
    <3>1. /\ property[u] \in Nat /\ property[u] <= Deepest /\ property[u] + 1 \in Depth
          /\ property[u] >= Distance(u)
      BY <1>5, <2>2, KnownDepth
    <3>2. Distance(job[t].n) <= Distance(u) + 1
      BY <1>4, <1>5, DistanceAcross
    <3>3. Distance(u) \in Int /\ Distance(job[t].n) \in Int
      BY <1>1, AtWork DEF WithinLaw
    <3> QED
      BY <1>2, <1>4, <2>2, <3>1, <3>2, <3>3 DEF DeepestOK
  <2> QED
    BY <2>1, <2>2
<1>7. /\ r \in Job /\ r.n = job[t].n /\ r.old = job[t].old /\ r.left = job[t].left \ {u}
      /\ r.new = IF offer < job[t].new THEN offer ELSE job[t].new
  BY <1>2, <1>4, <1>6 DEF Job
<1>8. /\ pc'[t] = "pull" /\ job'[t] = r
  BY <1>2, Moved DEF IInv, ControlPoints
<1>9. Reached' = Reached /\ Rising' = Rising /\ edges' = edges /\ team' = team /\ phase' = phase
  <2>1. \A x \in Threads : x # t => pc'[x] = pc[x] /\ job'[x] = job[x]
    BY <1>2, Moved DEF IInv, ControlPoints
  <2> QED
    BY <1>1, <1>3, <1>7, <1>8, <2>1 DEF Reached, Rising, Pulling, Fixed
<1>10. Deepest' = Deepest
  BY <1>9 DEF Deepest
<1>11. Targets(t)'
  BY <1>1, <1>4, <1>7, <1>8, <1>9, SameGraph DEF Targets, Pulling, Pushing, AtTarget
<1>12. Depths(t)'
  <2>1. \A n : Distance(n)' = Distance(n)
    BY <1>9, SameGraph
  <2>2. /\ job'[t].n = job[t].n /\ job'[t].old = job[t].old
        /\ job'[t].new = offer \/ job'[t].new = job[t].new
    BY <1>7, <1>8
  <2>3. /\ job[t].n = source => job[t].old = 0
        /\ job[t].old <= Deepest \/ job[t].old = Unreached
        /\ job[t].new <= Deepest + 1 \/ job[t].new = FloatMax
        /\ job[t].new > 0 /\ job[t].new >= Distance(job[t].n)
    BY <1>1, <1>4 DEF Depths
  <2> QED
    BY <1>6, <1>8, <1>10, <2>1, <2>2, <2>3 DEF Depths, Pulling, AtTarget, Offering
<1>13. Current(t)'
  BY <1>1, <1>3, <1>4, <1>7, <1>8, <1>9 DEF Current, Pulling, AtTarget, Offering, Alone
<1>14. Handled(t)
  <2> SUFFICES ASSUME NEW x \in NodeID, NEW v \in NodeID, <<x, v>> \in edges,
                      Improvable(x, v)', Own(t, x, v)
               PROVE  PullIn(t, x, v)'
    BY <1>3, <1>9 DEF Handled, Improvable, Pending, Alone
  <2>1. PullIn(t, x, v)
    BY <1>1, <1>3 DEF Own, PushOut, Pushing
  <2>2. property[x] # Unreached
    BY <1>9 DEF Improvable, Reached
  <2>3. property[x] \in Nat /\ property[x] + 1 < FloatMax
    BY <2>2, KnownDepth
  <2>4. v = job[t].n /\ Alone' = Alone
    BY <1>9, <2>1 DEF PullIn, Alone
  <2>5. CASE x = u
    <3>1. r.new <= property[x] + 1 /\ r.new # FloatMax
      BY <1>2, <1>4, <1>7, <2>2, <2>3, <2>5
    <3> QED
      BY <1>3, <1>7, <1>8, <2>4, <3>1 DEF PullIn, Pulling
  <2>6. CASE x # u
    <3>1. x \in job[t].left \/ (job[t].new # FloatMax /\ (Alone => job[t].new <= property[x] + 1))
      BY <2>1 DEF PullIn
    <3>2. r.new <= job[t].new /\ (job[t].new # FloatMax => r.new # FloatMax)
      BY <1>4, <1>6, <1>7 DEF Depth
    <3>3. r.new \in Int /\ job[t].new \in Int
      BY <1>4, <1>6, <1>7 DEF Depth
    <3> QED
      BY <1>3, <1>7, <1>8, <2>3, <2>4, <2>6, <3>1, <3>2, <3>3 DEF PullIn, Pulling
  <2> QED
    BY <2>5, <2>6
<1> QED
  BY <1>1, <1>2, <1>3, <1>7, <1>11, <1>12, <1>13, <1>14, ReadingStep
     DEF ControlPoints


LEMMA TakeStep == ASSUME IInv, NEW t \in Threads, Take(t) PROVE IInv'
<1>0. /\ TypeOK /\ Rounds /\ Queued /\ SourceFirst /\ Bounded /\ GraphOK /\ WithinLaw
      /\ DeepestOK /\ FloatMax \in Nat /\ FloatMax > 0
  BY DeepestRange, WithinLawHolds, FloatMaxAssumption, NumNodesAssumption
     DEF IInv, TypeOK, GraphOK
<1>1. /\ pc[t] = "take" /\ Computing /\ phase \in {"first", "rounds"}
      /\ ~Busy(t) /\ ~Pulling(t) /\ ~Pushing(t)
  BY <1>0 DEF Take, Rounds, Computing, Busy, Pulling, Pushing
<1>2. PICK n, label, r :
        /\ n \in todo
        /\ r = [n |-> n, old |-> property[n], new |-> FloatMax,
                left |-> IF phase = "first" THEN InNeigh(n) ELSE OutNeigh(n),
                v |-> n, curr |-> Unreached, updated |-> 0]
        /\ label = IF phase = "first" THEN "pull" ELSE "push"
        /\ Goto(t, label, r) /\ todo' = todo \ {n}
  BY DEF Take
<1>3. /\ Fixed /\ UNCHANGED <<property, next, visited>>
  BY DEF Take
<1>4. /\ pc'[t] = label /\ job'[t] = r /\ label \in {"pull", "push"}
      /\ \A u \in Threads : u # t => pc'[u] = pc[u] /\ job'[u] = job[u]
      /\ pc' \in [Threads -> ControlPoints] /\ DOMAIN job' = Threads
  BY <1>0, <1>2, Moved DEF ControlPoints
<1>5. /\ n \in NodeID /\ property[n] \in Depth \cup {Unreached}
      /\ InNeigh(n) \in SUBSET NodeID /\ OutNeigh(n) \in SUBSET NodeID
  BY <1>0, <1>2, Neighbors DEF TypeOK
<1>6. /\ r \in Job /\ r.n = n /\ r.old = property[n] /\ r.new = FloatMax
      /\ phase = "first" => r.left = InNeigh(n)
      /\ phase # "first" => r.left = OutNeigh(n)
  BY <1>0, <1>2, <1>5 DEF Job, Depth
<1>7. Reached' = Reached /\ edges' = edges /\ team' = team /\ phase' = phase
  BY <1>3 DEF Reached, Fixed
<1>8. Reached' \cap Rising' \subseteq Reached \cap Rising
  BY <1>1, <1>4, <1>6, <1>7 DEF Reached, Rising, Pulling
<1>9. Steps(t) /\ Deepest <= Deepest' /\ Deepest \in Int /\ Deepest' \in Int
  <2>1. Deepest <= Deepest' /\ Deepest \in Int /\ Deepest' \in Int
    BY <1>7, <1>8, DeepestRises
  <2> QED
    BY <1>2, <1>3, <1>4, <1>7, <2>1 DEF Steps
<1>10. TypeOK'
  BY <1>0, <1>2, <1>3, <1>4, <1>6 DEF TypeOK, Fixed
<1>11. Queued' /\ SourceFirst' /\ Bounded' /\ NeverTooShallow'
  BY <1>1, <1>3, <1>9, QueuedStep, SameDepths
<1>12. Busy(t)' => job'[t].n \in todo \ todo'
  BY <1>2, <1>4, <1>6
<1>13. Targets(t)'
  <2>1. phase = "first" \/ n \in Reached
    BY <1>0, <1>1, <1>2 DEF Queued
  <2>2. \A x : InNeigh(x)' = InNeigh(x) /\ OutNeigh(x)' = OutNeigh(x)
    BY <1>7, SameGraph
  <2>3. property[n] # Unreached => n \in Reached
    BY <1>5 DEF Reached
  <2> QED
    BY <1>2, <1>4, <1>6, <1>7, <2>1, <2>2, <2>3 DEF Targets, Pulling, Pushing, AtTarget
<1>14. Depths(t)'
  <2>1. \A x : Distance(x)' = Distance(x)
    BY <1>7, SameGraph
  <2>2. n = source => property[n] = 0
    BY <1>0, <1>1 DEF SourceFirst
  <2>3. property[n] = Unreached \/ property[n] <= Deepest'
    BY <1>5, <1>7, <1>11, <1>3 DEF Bounded, Reached
  <2>4. FloatMax >= Distance(n)
    BY <1>0 DEF WithinLaw
  <2> QED
    BY <1>0, <1>4, <1>6, <2>1, <2>2, <2>3, <2>4 DEF Depths, Pulling, AtTarget, Offering
<1>15. Current(t)'
  BY <1>3, <1>4, <1>6 DEF Current, Pulling, AtTarget, Offering, Alone
<1>16. Handled(t)
  <2> SUFFICES ASSUME NEW u \in NodeID, NEW v \in NodeID, <<u, v>> \in edges,
                      Improvable(u, v)', Own(t, u, v)
               PROVE  Pending(u, v)'
    BY <1>3, <1>7 DEF Handled, Improvable, Alone
  <2>1. (phase = "first" /\ v = n) \/ (phase = "rounds" /\ u = n)
    BY <1>1, <1>2 DEF Own, PullIn, PushOut
  <2>2. CASE phase = "first" /\ v = n
    <3>1. u \in InNeigh(n)
      BY <1>0, <2>2, Neighbors
    <3>2. PullIn(t, u, v)'
      BY <1>2, <1>4, <1>6, <2>2, <3>1 DEF PullIn, Pulling
    <3> QED
      BY <3>2 DEF Pending
  <2>3. CASE phase = "rounds" /\ u = n
    <3>1. v \in OutNeigh(n)
      BY <1>0, <2>3, Neighbors
    <3>2. PushOut(t, u, v)'
      BY <1>2, <1>4, <1>6, <2>3, <3>1 DEF PushOut, Pushing
    <3> QED
      BY <3>2 DEF Pending
  <2> QED
    BY <2>1, <2>2, <2>3
<1>17. (pc'[t] = "barrier" => todo = {}) /\ (pc'[t] = "pull" => phase = "first")
  BY <1>2, <1>4
<1> QED
  BY <1>1, <1>9, <1>10, <1>11, <1>12, <1>13, <1>14, <1>15, <1>16, <1>17, WorkerStep

(* The store of a pull.                                                    *)
LEMMA StoreStep == ASSUME IInv, NEW t \in Threads, Store(t) PROVE IInv'
<1>0. TypeOK /\ Rounds /\ SourceFirst /\ Bounded /\ NeverTooShallow
  BY DEF IInv
<1>1. Busy(t) /\ Pulling(t) /\ pc[t] = "pull" /\ phase = "first" /\ ~Pushing(t)
  BY <1>0 DEF Store, Busy, Pulling, Pushing, Rounds
<1>2. /\ job[t] \in Job /\ GraphOK /\ job[t].n \in NodeID
      /\ job[t].new \in Int /\ job[t].old \in Depth \cup {Unreached} /\ job[t].old \in Int
      /\ job[t].new \in Depth /\ job[t].new # Unreached
      /\ Targets(t) /\ Depths(t) /\ Current(t) /\ DeepestOK /\ FloatMax \in Nat
      /\ \A n \in NodeID : property[n] \in Int
  BY <1>1, AtWork DEF Job, Depth, Unreached
<1>3. /\ Fixed /\ UNCHANGED <<todo, next, visited>> /\ job[t].left = {}
  BY DEF Store
<1>4. edges' = edges /\ team' = team /\ phase' = phase /\ (Alone <=> Alone')
  BY <1>3 DEF Fixed, Alone
<1>5. \A u \in Threads : u # t /\ Pulling(u) => job[u].n # job[t].n
  BY <1>0, <1>1 DEF Rounds, Busy
<1>6. CASE Trigger(job[t])
  <2> DEFINE r == [job[t] EXCEPT !.left = OutNeigh(job[t].n)]
             n == job[t].n
  <2>1. /\ property' = [property EXCEPT ![n] = job[t].new]
        /\ Goto(t, "push", r)
    BY <1>6 DEF Store
  <2>2. OutNeigh(n) \in SUBSET NodeID
    BY <1>2, Neighbors
  <2>3. r \in Job /\ r.n = n /\ r.left = OutNeigh(n)
    BY <1>2, <2>2 DEF Job
  <2> HIDE DEF r
  <2>4. /\ pc'[t] = "push" /\ job'[t] = r
        /\ \A u \in Threads : u # t => pc'[u] = pc[u] /\ job'[u] = job[u]
        /\ pc' \in [Threads -> ControlPoints] /\ DOMAIN job' = Threads
    BY <1>0, <2>1, Moved DEF ControlPoints
  <2>5. /\ property' \in [NodeID -> Depth \cup {Unreached}]
        /\ property'[n] = job[t].new
        /\ \A x \in NodeID : x # n => property'[x] = property[x]
    BY <1>0, <1>2, <2>1 DEF TypeOK
  <2>6. Reached' = Reached \cup {n}
    BY <1>2, <2>5 DEF Reached
  <2>7. Rising' \subseteq Rising /\ n \notin Rising'
    BY <1>5, <2>4 DEF Rising, Pulling
  <2>8. /\ Deepest \in Int /\ Deepest' \in Int /\ Deepest <= Deepest'
        /\ n \notin Reached => Deepest + 1 <= Deepest'
        /\ n \in Reached \cap Rising => Deepest + 1 <= Deepest'
    BY <2>6, <2>7, DeepestRises
  <2>9. job[t].new <= Deepest'
    <3>1. CASE job[t].old = Unreached
      <4>1. n \in Rising
        BY <1>1, <1>2, <3>1 DEF Rising
      <4>2. job[t].new <= Deepest + 1
        BY <1>1, <1>2, <1>6 DEF Depths, Trigger
      <4> QED
        BY <1>2, <2>8, <4>1, <4>2
    <3>2. CASE job[t].old # Unreached
      <4>1. job[t].new < job[t].old /\ job[t].old <= Deepest
        BY <1>1, <1>2, <1>6, <3>2 DEF Depths, Trigger
      <4> QED
        BY <1>2, <2>8, <4>1
    <3> QED
      BY <3>1, <3>2
  <2>10. n # source
    <3>1. n = source => job[t].old = 0 /\ job[t].new > 0
      BY <1>1, <1>2 DEF Depths
    <3> QED
      BY <1>2, <1>6, <3>1 DEF Trigger, Unreached
  <2>11. Steps(t)
    BY <1>3, <2>4, <2>6, <2>8 DEF Steps
  <2>12. TypeOK'
    BY <1>0, <1>3, <2>3, <2>4, <2>5 DEF TypeOK, Fixed
  <2>13. Queued'
    BY <1>1, <1>3, <2>11, QueuedStep
  <2>14. SourceFirst'
    BY <1>0, <1>4, <2>5, <2>6, <2>10, SourceAssumption DEF SourceFirst, Computing, NodeID
  <2>15. Bounded'
    BY <1>0, <1>2, <2>5, <2>6, <2>8, <2>9 DEF Bounded, Reached
  <2>16. NeverTooShallow'
    <3>1. \A x : Distance(x)' = Distance(x)
      BY <1>4, SameGraph
    <3>2. job[t].new >= Distance(n)
      BY <1>1, <1>2 DEF Depths
    <3> QED
      BY <1>0, <2>5, <3>1, <3>2 DEF NeverTooShallow
  <2>17. Targets(t)'
    <3>1. \A x : OutNeigh(x)' = OutNeigh(x)
      BY <1>4, SameGraph
    <3> QED
      BY <2>3, <2>4, <2>6, <3>1 DEF Targets, Pulling, Pushing, AtTarget
  <2>18. Depths(t)' /\ Current(t)'
    BY <2>4 DEF Depths, Current, Pulling, AtTarget, Offering
  <2>19. Handled(t)
    <3> SUFFICES ASSUME NEW u \in NodeID, NEW v \in NodeID, <<u, v>> \in edges,
                        Improvable(u, v)', u # n
                 PROVE  Improvable(u, v) /\ ~Own(t, u, v)
      <4>1. ASSUME NEW u \in NodeID, NEW v \in NodeID, <<u, v>> \in edges, u = n
            PROVE  Pending(u, v)'
        <5>1. v \in OutNeigh(n)
          BY <1>2, <4>1, Neighbors
        <5>2. PushOut(t, u, v)'
          BY <2>3, <2>4, <4>1, <5>1 DEF PushOut, Pushing
        <5> QED
          BY <5>2 DEF Pending
      <4> QED
        BY <1>2, <4>1 DEF Handled
    <3>1. /\ u \in Reached /\ property'[u] = property[u]
          /\ v \in Reached' => Alone /\ property'[v] > property[u] + 1
      BY <1>4, <2>5, <2>6 DEF Improvable
    <3>2. Own(t, u, v) => v = n /\ (Alone => job[t].new <= property[u] + 1)
      BY <1>1, <1>3 DEF Own, PullIn, PushOut
    <3>3. CASE v # n
      BY <1>4, <2>5, <2>6, <3>1, <3>2, <3>3 DEF Improvable
    <3>4. CASE v = n
      <4>1. Alone /\ job[t].new > property[u] + 1
        BY <2>5, <2>6, <3>1, <3>4
      <4>2. job[t].old = property[n]
        BY <1>1, <1>2, <4>1 DEF Current
      <4>3. n \in Reached => property[n] > job[t].new
        BY <1>2, <1>6, <4>2 DEF Trigger, Reached
      <4> QED
        BY <1>2, <3>1, <3>2, <3>4, <4>1, <4>3 DEF Improvable
    <3> QED
      BY <3>3, <3>4
  <2> QED
    BY <1>1, <2>3, <2>4, <2>11, <2>12, <2>13, <2>14, <2>15, <2>16, <2>17, <2>18, <2>19, WorkerStep
<1>7. CASE ~Trigger(job[t])
  <2>1. property' = property /\ Goto(t, "take", <<>>)
    BY <1>7 DEF Store
  <2>2. /\ pc'[t] = "take"
        /\ \A u \in Threads : u # t => pc'[u] = pc[u] /\ job'[u] = job[u]
        /\ pc' \in [Threads -> ControlPoints] /\ DOMAIN job' = Threads
    BY <1>0, <2>1, Moved DEF ControlPoints
  <2>3. Reached' = Reached /\ Rising' \subseteq Rising
    BY <2>1, <2>2 DEF Reached, Rising, Pulling
  <2>4. Steps(t)
    <3>1. Deepest <= Deepest'
      BY <2>3, DeepestRises
    <3> QED
      BY <1>3, <2>2, <2>3, <3>1 DEF Steps
  <2>5. TypeOK'
    BY <1>0, <1>3, <2>1, <2>2 DEF TypeOK, Fixed
  <2>6. Queued' /\ SourceFirst' /\ Bounded' /\ NeverTooShallow'
    BY <1>1, <1>3, <2>1, <2>4, QueuedStep, SameDepths
  <2>7. ~Busy(t)' /\ Targets(t)' /\ Depths(t)' /\ Current(t)'
    BY <2>2 DEF Targets, Depths, Current, Busy, Pulling, Pushing, AtTarget, Offering
  <2>8. Handled(t)
    <3> SUFFICES ASSUME NEW u \in NodeID, NEW v \in NodeID, <<u, v>> \in edges,
                        Improvable(u, v), Own(t, u, v)
                 PROVE  FALSE
      BY <1>4, <2>1, <2>3 DEF Handled, Improvable
    <3>1. v = job[t].n /\ job[t].new # FloatMax /\ (Alone => job[t].new <= property[u] + 1)
      BY <1>1, <1>3 DEF Own, PullIn, PushOut
    <3>2. job[t].old # Unreached /\ job[t].old <= job[t].new
      BY <1>2, <1>7, <3>1 DEF Trigger
    <3>3. Alone /\ property[v] > property[u] + 1
      BY <1>1, <1>2, <3>1, <3>2 DEF Targets, Improvable
    <3>4. job[t].old = property[v]
      BY <1>1, <1>2, <3>1, <3>3 DEF Current
    <3> QED
      BY <1>2, <3>1, <3>2, <3>3, <3>4
  <2> QED
    BY <1>1, <2>2, <2>4, <2>5, <2>6, <2>7, <2>8, WorkerStep
<1> QED
  BY <1>6, <1>7

LEMMA ReadTargetStep == ASSUME IInv, NEW t \in Threads, ReadTarget(t) PROVE IInv'
<1>1. Busy(t) /\ ~Pulling(t) /\ Pushing(t) /\ pc[t] = "push"
  BY DEF ReadTarget, Busy, Pulling, Pushing
<1>2. PICK v, r :
        /\ v \in job[t].left
        /\ r = [job[t] EXCEPT !.left = @ \ {v}, !.v = v, !.curr = property[v]]
        /\ Goto(t, "own", r)
  BY DEF ReadTarget
<1>3. Fixed /\ UNCHANGED <<property, todo, next, visited>>
  BY DEF ReadTarget
<1>4. /\ job[t] \in Job /\ GraphOK /\ job[t].n \in NodeID /\ Computing
      /\ job[t].left \in SUBSET NodeID /\ Targets(t) /\ TypeOK /\ SourceFirst
  BY <1>1, AtWork DEF Job, IInv
<1>5. v \in NodeID /\ v \in OutNeigh(job[t].n) /\ property[v] \in Depth \cup {Unreached}
  BY <1>1, <1>2, <1>4 DEF Targets, TypeOK
<1>6. /\ r \in Job /\ r.n = job[t].n /\ r.left = job[t].left \ {v} /\ r.v = v
      /\ r.curr = property[v]
  BY <1>2, <1>4, <1>5 DEF Job
<1>7. /\ pc'[t] = "own" /\ job'[t] = r
      /\ \A u \in Threads : u # t => pc'[u] = pc[u] /\ job'[u] = job[u]
  BY <1>2, <1>4, Moved DEF ControlPoints
<1>8. /\ Reached' = Reached /\ Rising' = Rising /\ edges' = edges /\ Deepest' = Deepest
  BY <1>1, <1>3, <1>7 DEF Reached, Rising, Pulling, Fixed, Deepest
<1>9. \A x : OutNeigh(x)' = OutNeigh(x)
  BY <1>8, SameGraph
<1>10. Targets(t)'
  BY <1>1, <1>4, <1>5, <1>6, <1>7, <1>8, <1>9 DEF Targets, Pulling, Pushing, AtTarget, Reached
<1>11. Depths(t)'
  <2>1. v = source => property[v] = 0
    BY <1>4 DEF SourceFirst
  <2>2. property[v] # Unreached => property[v] <= Deepest
    BY <1>5, KnownDepth
  <2> QED
    BY <1>6, <1>7, <1>8, <2>1, <2>2 DEF Depths, Pulling, AtTarget, Offering
<1>12. Current(t)'
  BY <1>3, <1>6, <1>7 DEF Current, Pulling, AtTarget, Offering
<1>13. Handled(t)
  <2> SUFFICES ASSUME NEW x \in NodeID, NEW y \in NodeID, Improvable(x, y)', Own(t, x, y)
               PROVE  PushOut(t, x, y)'
    BY <1>3, <1>8 DEF Handled, Improvable, Pending, Alone, Fixed
  <2>1. x = job[t].n /\ y \in job[t].left
    BY <1>1, <1>3 DEF Own, PullIn, PushOut
  <2> QED
    BY <1>6, <1>7, <2>1 DEF PushOut, Pushing
<1>14. "own" \in ControlPoints \ {"barrier"}
  BY DEF ControlPoints
<1> QED
  BY <1>1, <1>2, <1>3, <1>6, <1>10, <1>11, <1>12, <1>13, <1>14, ReadingStep

LEMMA ReadOwnStep == ASSUME IInv, NEW t \in Threads, ReadOwn(t) PROVE IInv'
<1>1. Busy(t) /\ ~Pulling(t) /\ Pushing(t) /\ pc[t] = "own" /\ AtTarget(t)
  BY DEF ReadOwn, Busy, Pulling, Pushing, AtTarget
<1>2. PICK label, r :
        /\ r = [job[t] EXCEPT !.updated = property[job[t].n] + 1]
        /\ label = IF r.updated < r.curr \/ r.curr = Unreached THEN "claim" ELSE "push"
        /\ Goto(t, label, r)
  BY DEF ReadOwn
<1>3. Fixed /\ UNCHANGED <<property, todo, next, visited>>
  BY DEF ReadOwn
<1>4. /\ job[t] \in Job /\ GraphOK /\ job[t].n \in NodeID /\ Computing /\ WithinLaw
      /\ Targets(t) /\ Depths(t) /\ Current(t) /\ TypeOK /\ job[t].v \in NodeID
      /\ job[t].curr \in Int /\ Deepest \in Int /\ FloatMax \in Nat
  BY <1>1, AtWork DEF Job, IInv, DeepestOK
<1>5. /\ job[t].n \in Reached /\ job[t].v \in OutNeigh(job[t].n)
      /\ property[job[t].n] \in Nat /\ property[job[t].n] <= Deepest
      /\ property[job[t].n] + 1 \in Depth
      /\ property[job[t].n] >= Distance(job[t].n)
  BY <1>1, <1>4, KnownDepth DEF Targets, Reached
<1>6. /\ r \in Job /\ r.n = job[t].n /\ r.left = job[t].left /\ r.v = job[t].v
      /\ r.curr = job[t].curr /\ r.updated = property[job[t].n] + 1
  BY <1>2, <1>4, <1>5 DEF Job
<1>7. /\ pc'[t] = label /\ job'[t] = r /\ label \in {"claim", "push"}
      /\ \A u \in Threads : u # t => pc'[u] = pc[u] /\ job'[u] = job[u]
  BY <1>2, <1>4, Moved DEF ControlPoints
<1>8. /\ Reached' = Reached /\ Rising' = Rising /\ edges' = edges /\ Deepest' = Deepest
      /\ (Alone' <=> Alone)
  BY <1>1, <1>3, <1>7 DEF Reached, Rising, Pulling, Fixed, Deepest, Alone
<1>9. \A x : OutNeigh(x)' = OutNeigh(x) /\ Distance(x)' = Distance(x)
  BY <1>8, SameGraph
<1>10. Targets(t)'
  BY <1>1, <1>4, <1>6, <1>7, <1>8, <1>9 DEF Targets, Pulling, Pushing, AtTarget, Reached
<1>11. Depths(t)'
  <2>1. <<job[t].n, job[t].v>> \in edges
    BY <1>4, <1>5, Neighbors
  <2>2. Distance(job[t].v) <= Distance(job[t].n) + 1
    BY <1>4, <2>1, DistanceAcross
  <2>3. Distance(job[t].n) \in Int /\ Distance(job[t].v) \in Int
    BY <1>4 DEF WithinLaw
  <2>4. r.updated <= Deepest + 1 /\ r.updated > 0 /\ r.updated >= Distance(job[t].v)
    BY <1>4, <1>5, <1>6, <2>2, <2>3
  <2>5. /\ job[t].v = source => job[t].curr = 0
        /\ job[t].curr <= Deepest \/ job[t].curr = Unreached
    BY <1>1, <1>4 DEF Depths
  <2> QED
    BY <1>2, <1>6, <1>7, <1>8, <1>9, <2>4, <2>5 DEF Depths, Pulling, AtTarget, Offering
<1>12. Current(t)'
  BY <1>1, <1>3, <1>4, <1>6, <1>7, <1>8 DEF Current, Pulling, AtTarget, Offering
<1>13. Handled(t)
  <2> SUFFICES ASSUME NEW x \in NodeID, NEW y \in NodeID, Improvable(x, y), Own(t, x, y)
               PROVE  PushOut(t, x, y)'
    BY <1>3, <1>8 DEF Handled, Improvable, Pending, Alone, Fixed
  <2>1. x = job[t].n /\ (y \in job[t].left \/ y = job[t].v)
    BY <1>1, <1>3 DEF Own, PullIn, PushOut
  <2>2. ASSUME y = job[t].v PROVE label = "claim"
    <3>1. ASSUME label = "push" PROVE FALSE
      <4>1. /\ job[t].curr # Unreached /\ property[x] + 1 >= job[t].curr
        BY <1>2, <1>4, <1>5, <1>6, <2>1, <3>1
      <4>2. y \in Reached
        BY <1>1, <1>4, <2>2, <4>1 DEF Targets
      <4>3. Alone /\ property[y] > property[x] + 1
        BY <4>2 DEF Improvable
      <4>4. job[t].curr = property[y]
        BY <1>1, <1>4, <2>2, <4>3 DEF Current
      <4> QED
        BY <1>4, <1>5, <2>1, <4>1, <4>3, <4>4
    <3> QED
      BY <1>7, <3>1
  <2> QED
    BY <1>6, <1>7, <2>1, <2>2 DEF PushOut, Pushing
<1>14. label \in ControlPoints \ {"barrier"} /\ label # "pull"
  BY <1>7 DEF ControlPoints
<1> QED
  BY <1>1, <1>2, <1>3, <1>6, <1>10, <1>11, <1>12, <1>13, <1>14, ReadingStep

LEMMA ReloadStep == ASSUME IInv, NEW t \in Threads, Reload(t) PROVE IInv'
<1>1. /\ Busy(t) /\ ~Pulling(t) /\ Pushing(t) /\ pc[t] = "reload"
      /\ AtTarget(t) /\ Offering(t)
  BY DEF Reload, Busy, Pulling, Pushing, AtTarget, Offering
<1>2. PICK label, r :
        /\ r = [job[t] EXCEPT !.curr = property[job[t].v]]
        /\ label = IF r.curr <= r.updated THEN "push" ELSE "cas"
        /\ Goto(t, label, r)
  BY DEF Reload
<1>3. Fixed /\ UNCHANGED <<property, todo, next, visited>>
  BY DEF Reload
<1>4. /\ job[t] \in Job /\ Computing /\ SourceFirst
      /\ Targets(t) /\ Depths(t) /\ Current(t) /\ TypeOK /\ job[t].v \in NodeID
      /\ job[t].updated \in Int /\ property[job[t].v] \in Int
      /\ property[job[t].v] \in Depth \cup {Unreached}
  BY <1>1, AtWork DEF Job, IInv, TypeOK
<1>5. job[t].v \in Reached /\ property[job[t].v] <= Deepest
  BY <1>1, <1>4, KnownDepth DEF Targets, Reached
<1>6. /\ r \in Job /\ r.n = job[t].n /\ r.left = job[t].left /\ r.v = job[t].v
      /\ r.curr = property[job[t].v] /\ r.updated = job[t].updated
  BY <1>2, <1>4, <1>5 DEF Job
<1>7. /\ pc'[t] = label /\ job'[t] = r /\ label \in {"cas", "push"}
      /\ \A u \in Threads : u # t => pc'[u] = pc[u] /\ job'[u] = job[u]
  BY <1>2, <1>4, Moved DEF ControlPoints
<1>8. /\ Reached' = Reached /\ Rising' = Rising /\ edges' = edges /\ Deepest' = Deepest
      /\ (Alone' <=> Alone) /\ visited' = visited
  BY <1>1, <1>3, <1>7 DEF Reached, Rising, Pulling, Fixed, Deepest, Alone
<1>9. \A x : OutNeigh(x)' = OutNeigh(x) /\ Distance(x)' = Distance(x)
  BY <1>8, SameGraph
<1>10. Targets(t)'
  BY <1>1, <1>4, <1>5, <1>6, <1>7, <1>8, <1>9 DEF Targets, Pulling, Pushing, AtTarget
<1>11. Depths(t)'
  <2>1. job[t].v = source => property[job[t].v] = 0
    BY <1>4 DEF SourceFirst
  <2>2. /\ job[t].updated <= Deepest + 1 /\ job[t].updated > 0
        /\ job[t].updated >= Distance(job[t].v)
    BY <1>1, <1>4 DEF Depths
  <2>3. label = "cas" => r.updated < r.curr
    BY <1>2, <1>4, <1>6
  <2> QED
    BY <1>5, <1>6, <1>7, <1>8, <1>9, <2>1, <2>2, <2>3 DEF Depths, Pulling, AtTarget, Offering
<1>12. Current(t)'
  BY <1>1, <1>4, <1>8 DEF Current
<1>13. Handled(t)
  <2> SUFFICES ASSUME NEW x \in NodeID, NEW y \in NodeID, Own(t, x, y)
               PROVE  PushOut(t, x, y)'
    BY <1>3, <1>8 DEF Handled, Improvable, Pending, Alone, Fixed
  <2>1. x = job[t].n /\ y \in job[t].left
    BY <1>1, <1>3 DEF Own, PullIn, PushOut
  <2> QED
    BY <1>6, <1>7, <2>1 DEF PushOut, Pushing
<1>14. label \in ControlPoints \ {"barrier"} /\ label # "pull"
  BY <1>7 DEF ControlPoints
<1> QED
  BY <1>1, <1>2, <1>3, <1>6, <1>10, <1>11, <1>12, <1>13, <1>14, ReadingStep

LEMMA PushedStep == ASSUME IInv, NEW t \in Threads, Pushed(t) PROVE IInv'
<1>1. Busy(t) /\ ~Pulling(t) /\ Pushing(t) /\ pc[t] = "push" /\ job[t].left = {}
  BY DEF Pushed, Busy, Pulling, Pushing
<1>2. /\ Goto(t, "take", <<>>) /\ Fixed /\ UNCHANGED <<property, todo, next, visited>>
  BY DEF Pushed
<1>3. pc'[t] = "take"
  BY <1>2, Moved DEF ControlPoints, IInv
<1>4. Targets(t)' /\ Depths(t)' /\ Current(t)'
  BY <1>3 DEF Targets, Depths, Current, Pulling, Pushing, AtTarget, Offering
<1>5. Handled(t)
  <2>1. \A u, v \in NodeID : ~Own(t, u, v) /\ (Improvable(u, v)' <=> Improvable(u, v))
    BY <1>1, <1>2 DEF Own, PullIn, PushOut, Improvable, Reached, Alone, Fixed
  <2> QED
    BY <2>1 DEF Handled
<1> QED
  BY <1>1, <1>2, <1>4, <1>5, ReadingStep DEF ControlPoints

LEMMA BarrierStep == ASSUME IInv, NEW t \in Threads, Barrier(t) PROVE IInv'
<1>0. TypeOK
  BY DEF IInv
<1>1. ~Busy(t) /\ ~Pulling(t) /\ ~Pushing(t) /\ pc[t] = "take" /\ todo = {}
  BY DEF Barrier, Busy, Pulling, Pushing
<1>2. /\ Goto(t, "barrier", <<>>) /\ Fixed /\ UNCHANGED <<property, todo, next, visited>>
  BY DEF Barrier
<1>3. /\ pc'[t] = "barrier"
      /\ \A u \in Threads : u # t => pc'[u] = pc[u] /\ job'[u] = job[u]
      /\ pc' \in [Threads -> ControlPoints] /\ DOMAIN job' = Threads
  BY <1>0, <1>2, Moved DEF ControlPoints
<1>4. ~Busy(t)' /\ Targets(t)' /\ Depths(t)' /\ Current(t)'
  BY <1>3 DEF Targets, Depths, Current, Busy, Pulling, Pushing, AtTarget, Offering
<1>5. Reached' = Reached /\ Rising' = Rising
  BY <1>1, <1>2, <1>3 DEF Reached, Rising, Pulling
<1>6. Steps(t)
  <2>1. Deepest <= Deepest'
    BY <1>5, DeepestRises
  <2> QED
    BY <1>2, <1>3, <1>5, <2>1 DEF Steps
<1>7. TypeOK'
  BY <1>0, <1>2, <1>3 DEF TypeOK, Fixed
<1>8. Queued' /\ SourceFirst' /\ Bounded' /\ NeverTooShallow'
  BY <1>1, <1>2, <1>6, QueuedStep, SameDepths
<1>9. Handled(t)
  <2>1. \A u, v \in NodeID : ~Own(t, u, v) /\ (Improvable(u, v)' <=> Improvable(u, v))
    BY <1>1, <1>2, <1>5 DEF Own, PullIn, PushOut, Improvable, Alone, Fixed
  <2> QED
    BY <2>1 DEF Handled
<1> QED
  BY <1>1, <1>3, <1>4, <1>6, <1>7, <1>8, <1>9, WorkerStep

(* Setting visited[v], and queueing v.                                     *)
LEMMA QueueGrows ==
    ASSUME next \in Seq(NodeID), QueuedOnce, visited = {next[i] : i \in DOMAIN next},
           NEW v \in NodeID, v \notin visited, next' = Append(next, v)
    PROVE  /\ next' \in Seq(NodeID) /\ QueuedOnce'
           /\ visited \cup {v} = {next'[i] : i \in DOMAIN next'}
<1>1. /\ next' \in Seq(NodeID) /\ Len(next) \in Nat
      /\ DOMAIN next' = 1 .. Len(next) + 1 /\ DOMAIN next = 1 .. Len(next)
      /\ \A i \in 1 .. Len(next) : next'[i] = next[i]
      /\ next'[Len(next) + 1] = v
  OBVIOUS
<1>2. \A i \in DOMAIN next : next[i] # v
  OBVIOUS
<1>3. QueuedOnce'
  <2> SUFFICES ASSUME NEW i \in DOMAIN next', NEW j \in DOMAIN next', next'[i] = next'[j]
               PROVE  i = j
    BY DEF QueuedOnce
  <2>1. CASE i \in DOMAIN next /\ j \in DOMAIN next
    BY <1>1, <2>1 DEF QueuedOnce
  <2>2. CASE i \notin DOMAIN next \/ j \notin DOMAIN next
    BY <1>1, <1>2, <2>2
  <2> QED
    BY <2>1, <2>2
<1>4. visited \cup {v} = {next'[i] : i \in DOMAIN next'}
  <2>1. \A x \in visited \cup {v} : \E i \in DOMAIN next' : next'[i] = x
    <3>1. \A x \in visited : \E i \in DOMAIN next : next[i] = x
      OBVIOUS
    <3>2. Len(next) + 1 \in DOMAIN next' /\ DOMAIN next \subseteq DOMAIN next'
      BY <1>1
    <3> QED
      BY <1>1, <3>1, <3>2
  <2>2. \A i \in DOMAIN next' : next'[i] \in visited \cup {v}
    <3>1. \A i \in DOMAIN next : next[i] \in visited
      OBVIOUS
    <3> QED
      BY <1>1, <3>1
  <2> QED
    BY <2>1, <2>2
<1> QED
  BY <1>1, <1>3, <1>4

LEMMA ClaimStep == ASSUME IInv, NEW t \in Threads, Claim(t) PROVE IInv'
<1>1. /\ Busy(t) /\ ~Pulling(t) /\ Pushing(t) /\ pc[t] = "claim" /\ pc[t] # "barrier"
      /\ AtTarget(t) /\ Offering(t)
  BY DEF Claim, Busy, Pulling, Pushing, AtTarget, Offering
<1>2. /\ Goto(t, "cas", job[t]) /\ Fixed /\ UNCHANGED <<property, todo>>
  BY DEF Claim
<1>3. /\ job[t] \in Job /\ job[t].v \in NodeID /\ TypeOK /\ Queued
      /\ Targets(t) /\ Depths(t) /\ Current(t)
  BY <1>1, AtWork DEF Job, IInv
<1>4. /\ pc'[t] = "cas" /\ job'[t] = job[t]
      /\ \A u \in Threads : u # t => pc'[u] = pc[u] /\ job'[u] = job[u]
      /\ pc' \in [Threads -> ControlPoints] /\ DOMAIN job' = Threads
  BY <1>2, <1>3, Moved DEF ControlPoints
<1>5. /\ visited' = visited \cup {job[t].v} /\ next' \in Seq(NodeID) /\ QueuedOnce'
      /\ visited' = {next'[i] : i \in DOMAIN next'}
  <2>1. CASE job[t].v \in visited
    <3>1. visited' = visited /\ next' = next
      BY <2>1 DEF Claim
    <3> QED
      BY <1>3, <2>1, <3>1 DEF Queued, QueuedOnce, TypeOK
  <2>2. CASE job[t].v \notin visited
    <3>1. visited' = visited \cup {job[t].v} /\ next' = Append(next, job[t].v)
      BY <2>2 DEF Claim
    <3>2. next \in Seq(NodeID) /\ QueuedOnce /\ visited = {next[i] : i \in DOMAIN next}
      BY <1>3 DEF Queued, TypeOK
    <3>3. /\ next' \in Seq(NodeID) /\ QueuedOnce'
          /\ visited \cup {job[t].v} = {next'[i] : i \in DOMAIN next'}
      BY <1>3, <2>2, <3>1, <3>2, QueueGrows
    <3> QED
      BY <3>1, <3>3
  <2> QED
    BY <2>1, <2>2
<1>6. /\ Reached' = Reached /\ Rising' = Rising /\ edges' = edges /\ Deepest' = Deepest
      /\ (Alone' <=> Alone) /\ phase' = phase
  BY <1>1, <1>2, <1>4 DEF Reached, Rising, Pulling, Fixed, Deepest, Alone
<1>7. Steps(t)
  <2>1. Deepest <= Deepest'
    BY <1>6, DeepestRises
  <2> QED
    BY <1>2, <1>4, <1>5, <1>6, <2>1 DEF Steps
<1>8. TypeOK'
  BY <1>2, <1>3, <1>4, <1>5 DEF TypeOK, Fixed
<1>9. Queued'
  <2>1. \A x \in visited' : x \in Reached' \/ \E u \in Threads : pc'[u] = "cas" /\ job'[u].v = x
    <3>1. ASSUME NEW x \in visited', x # job[t].v, x \notin Reached
          PROVE  \E u \in Threads : pc'[u] = "cas" /\ job'[u].v = x
      <4>1. PICK u \in Threads : pc[u] = "cas" /\ job[u].v = x
        BY <1>3, <1>5, <3>1 DEF Queued
      <4> QED
        BY <1>1, <1>4, <4>1
    <3> QED
      BY <1>4, <1>6, <3>1
  <2> QED
    BY <1>2, <1>3, <1>5, <1>6, <2>1 DEF Queued
<1>10. SourceFirst' /\ Bounded' /\ NeverTooShallow'
  BY <1>2, <1>7, SameDepths
<1>11. \A x : OutNeigh(x)' = OutNeigh(x) /\ Distance(x)' = Distance(x)
  BY <1>6, SameGraph
<1>12. Targets(t)'
  BY <1>1, <1>3, <1>4, <1>5, <1>6, <1>11 DEF Targets, Pulling, Pushing, AtTarget
<1>13. Depths(t)'
  BY <1>1, <1>3, <1>4, <1>6, <1>11 DEF Depths, Pulling, AtTarget, Offering
<1>14. Current(t)'
  BY <1>1, <1>2, <1>3, <1>4, <1>6 DEF Current, Pulling, AtTarget, Offering
<1>15. Handled(t)
  <2> SUFFICES ASSUME NEW x \in NodeID, NEW y \in NodeID, Own(t, x, y)
               PROVE  PushOut(t, x, y)'
    BY <1>2, <1>6 DEF Handled, Improvable, Pending
  <2>1. x = job[t].n /\ (y \in job[t].left \/ y = job[t].v)
    BY <1>1, <1>2 DEF Own, PullIn, PushOut
  <2> QED
    BY <1>4, <2>1 DEF PushOut, Pushing
<1> QED
  BY <1>1, <1>4, <1>7, <1>8, <1>9, <1>10, <1>12, <1>13, <1>14, <1>15, WorkerStep

LEMMA CompareAndSwapStep == ASSUME IInv, NEW t \in Threads, CompareAndSwap(t) PROVE IInv'
<1>1. /\ Busy(t) /\ ~Pulling(t) /\ Pushing(t) /\ pc[t] = "cas" /\ pc[t] # "barrier"
      /\ AtTarget(t) /\ Offering(t)
  BY DEF CompareAndSwap, Busy, Pulling, Pushing, AtTarget, Offering
<1>2. Fixed /\ UNCHANGED <<todo, next, visited>>
  BY DEF CompareAndSwap
<1>3. /\ job[t] \in Job /\ job[t].v \in NodeID /\ TypeOK /\ SourceFirst /\ Bounded
      /\ NeverTooShallow /\ Targets(t) /\ Depths(t) /\ Current(t)
      /\ job[t].updated \in Int /\ job[t].curr \in Int
      /\ job[t].updated \in Depth /\ job[t].updated # Unreached
      /\ \A x \in NodeID : property[x] \in Int
  BY <1>1, AtWork, FloatMaxAssumption DEF Job, IInv, Depth, Unreached
<1>4. edges' = edges /\ team' = team /\ phase' = phase /\ (Alone' <=> Alone)
  BY <1>2 DEF Fixed, Alone
<1>5. \A x : OutNeigh(x)' = OutNeigh(x) /\ Distance(x)' = Distance(x)
  BY <1>4, SameGraph
<1>6. CASE property[job[t].v] = job[t].curr
  <2>1. property' = [property EXCEPT ![job[t].v] = job[t].updated] /\ Goto(t, "push", job[t])
    BY <1>6 DEF CompareAndSwap
  <2>2. /\ pc'[t] = "push" /\ job'[t] = job[t]
        /\ \A u \in Threads : u # t => pc'[u] = pc[u] /\ job'[u] = job[u]
        /\ pc' \in [Threads -> ControlPoints] /\ DOMAIN job' = Threads
    BY <1>3, <2>1, Moved DEF ControlPoints
  <2>3. PICK v \in NodeID : v = job[t].v
    BY <1>3
  <2>4. /\ property' \in [NodeID -> Depth \cup {Unreached}]
        /\ property'[v] = job[t].updated
        /\ \A x \in NodeID : x # v => property'[x] = property[x]
    BY <1>3, <2>1, <2>3 DEF TypeOK
  <2>5. Reached' = Reached \cup {v} /\ Rising' = Rising
    BY <1>1, <1>3, <2>2, <2>4 DEF Reached, Rising, Pulling
  <2>6. /\ Deepest \in Int /\ Deepest' \in Int /\ Deepest <= Deepest'
        /\ v \notin Reached => Deepest + 1 <= Deepest'
    BY <2>5, DeepestRises
  <2>7. job[t].updated <= Deepest'
    <3>1. CASE job[t].curr = Unreached
      <4>1. v \notin Reached /\ job[t].updated <= Deepest + 1
        BY <1>1, <1>3, <1>6, <2>3, <3>1 DEF Reached, Depths
      <4> QED
        BY <1>3, <2>6, <4>1
    <3>2. CASE job[t].curr # Unreached
      <4>1. job[t].updated < job[t].curr /\ job[t].curr <= Deepest
        BY <1>1, <1>3, <3>2 DEF Depths
      <4> QED
        BY <1>3, <2>6, <4>1
    <3> QED
      BY <3>1, <3>2
  <2>8. v # source
    <3>1. v = source => /\ job[t].curr = 0 /\ job[t].updated > 0
                        /\ job[t].curr = Unreached \/ job[t].updated < job[t].curr
      BY <1>1, <1>3, <2>3 DEF Depths
    <3> QED
      BY <1>3, <3>1 DEF Unreached
  <2>9. Steps(t)
    BY <1>2, <2>2, <2>5, <2>6 DEF Steps
  <2>10. TypeOK'
    BY <1>2, <1>3, <2>2, <2>4 DEF TypeOK, Fixed
  <2>11. Queued'
    BY <1>1, <1>2, <2>3, <2>5, <2>9, QueuedStep
  <2>12. SourceFirst'
    BY <1>3, <1>4, <2>4, <2>5, <2>8, SourceAssumption DEF SourceFirst, Computing, NodeID
  <2>13. Bounded'
    BY <1>3, <2>4, <2>5, <2>6, <2>7 DEF Bounded, Reached
  <2>14. NeverTooShallow'
    <3>1. job[t].updated >= Distance(v)
      BY <1>1, <1>3, <2>3 DEF Depths
    <3> QED
      BY <1>3, <1>5, <2>4, <3>1 DEF NeverTooShallow
  <2>15. Targets(t)'
    BY <1>1, <1>3, <1>5, <2>2, <2>5 DEF Targets, Pulling, Pushing, AtTarget
  <2>16. Depths(t)' /\ Current(t)'
    BY <2>2 DEF Depths, Current, Pulling, AtTarget, Offering
  <2>17. Handled(t)
    <3> SUFFICES ASSUME NEW x \in NodeID, NEW y \in NodeID, <<x, y>> \in edges,
                        Improvable(x, y)'
                 PROVE  \/ Improvable(x, y) /\ ~Own(t, x, y)
                        \/ Pending(x, y)'
      BY DEF Handled
    <3>1. CASE x = v
      <4>1. v \in visited'
        BY <1>1, <1>2, <1>3, <2>3 DEF Targets
      <4> QED
        BY <3>1, <4>1 DEF Pending
    <3>2. CASE x # v /\ y = v
      <4>1. /\ Alone /\ x \in Reached /\ job[t].updated > property[x] + 1
        BY <1>4, <2>4, <2>5, <3>2 DEF Improvable
      <4>2. x # job[t].n
        BY <1>1, <1>3, <4>1 DEF Current
      <4>3. v \in Reached => property[v] > property[x] + 1
        <5>1. v \in Reached => job[t].updated < job[t].curr
          BY <1>1, <1>3, <1>6, <2>3 DEF Depths, Reached
        <5> QED
          BY <1>3, <1>6, <2>3, <4>1, <5>1
      <4>4. ~Own(t, x, y)
        BY <1>1, <1>2, <4>2 DEF Own, PullIn, PushOut
      <4> QED
        BY <3>2, <4>1, <4>3, <4>4 DEF Improvable
    <3>3. CASE x # v /\ y # v
      <4>1. Improvable(x, y)
        BY <1>4, <2>4, <2>5, <3>3 DEF Improvable
      <4>2. ASSUME Own(t, x, y) PROVE PushOut(t, x, y)'
        <5>1. x = job[t].n /\ y \in job[t].left
          BY <1>1, <1>2, <2>3, <3>3, <4>2 DEF Own, PullIn, PushOut
        <5> QED
          BY <2>2, <5>1 DEF PushOut, Pushing
      <4> QED
        BY <4>1, <4>2 DEF Pending
    <3> QED
      BY <3>1, <3>2, <3>3
  <2>18. Busy(t)' => Busy(t) /\ job'[t].n = job[t].n
    BY <1>1, <2>2
  <2> QED
    BY <1>1, <2>2, <2>9, <2>10, <2>11, <2>12, <2>13, <2>14, <2>15, <2>16, <2>17, <2>18,
       WorkerStep
<1>7. CASE property[job[t].v] # job[t].curr
  <2>1. property' = property /\ Goto(t, "reload", job[t])
    BY <1>7 DEF CompareAndSwap
  <2>2. /\ pc'[t] = "reload" /\ job'[t] = job[t]
        /\ \A u \in Threads : u # t => pc'[u] = pc[u] /\ job'[u] = job[u]
        /\ pc' \in [Threads -> ControlPoints] /\ DOMAIN job' = Threads
    BY <1>3, <2>1, Moved DEF ControlPoints
  <2>3. ~Alone
    BY <1>1, <1>3, <1>7 DEF Current
  <2>4. job[t].v \in Reached
    BY <1>1, <1>3, <1>7 DEF Targets, Reached
  <2>5. Reached' = Reached /\ Rising' = Rising
    BY <1>1, <2>1, <2>2 DEF Reached, Rising, Pulling
  <2>6. Deepest' = Deepest
    BY <2>5 DEF Deepest
  <2>7. Steps(t)
    <3>1. Deepest <= Deepest'
      BY <2>5, DeepestRises
    <3> QED
      BY <1>2, <2>2, <2>5, <3>1 DEF Steps
  <2>8. TypeOK'
    BY <1>2, <1>3, <2>1, <2>2 DEF TypeOK, Fixed
  <2>9. Queued' /\ SourceFirst' /\ Bounded' /\ NeverTooShallow'
    BY <1>1, <1>2, <2>1, <2>4, <2>5, <2>7, QueuedStep, SameDepths
  <2>10. Targets(t)'
    BY <1>1, <1>2, <1>3, <1>5, <2>2, <2>4, <2>5 DEF Targets, Pulling, Pushing, AtTarget
  <2>11. Depths(t)'
    BY <1>1, <1>3, <1>5, <2>2, <2>6 DEF Depths, Pulling, AtTarget, Offering
  <2>12. Current(t)'
    BY <1>4, <2>3 DEF Current
  <2>13. Handled(t)
    <3> SUFFICES ASSUME NEW x \in NodeID, NEW y \in NodeID, Improvable(x, y), Own(t, x, y)
                 PROVE  PushOut(t, x, y)'
      BY <1>4, <2>1, <2>5 DEF Handled, Improvable, Pending
    <3>1. x = job[t].n /\ (y \in job[t].left \/ y = job[t].v)
      BY <1>1, <1>2 DEF Own, PullIn, PushOut
    <3>2. y # job[t].v
      BY <2>3, <2>4 DEF Improvable
    <3> QED
      BY <2>2, <3>1, <3>2 DEF PushOut, Pushing
  <2>14. Busy(t)' => Busy(t) /\ job'[t].n = job[t].n
    BY <1>1, <2>2
  <2> QED
    BY <1>1, <2>2, <2>7, <2>8, <2>9, <2>10, <2>11, <2>12, <2>13, <2>14, WorkerStep
<1> QED
  BY <1>6, <1>7

LEMMA WorkerKeeps == ASSUME IInv, NEW t \in Threads, Worker(t) PROVE IInv'
BY TakeStep, PullStep, StoreStep, ReadTargetStep, ReadOwnStep, ClaimStep,
   CompareAndSwapStep, ReloadStep, PushedStep, BarrierStep DEF Worker

-----------------------------------------------------------------------------
(* The steps between the rounds, with every thread at the barrier.         *)
AtBarrier == \A t \in Threads : pc[t] = "barrier"
NoneBusy == \A t \in Threads : pc[t] \in {"take", "barrier"}

(* A thread that is not busy has nothing to remember.                      *)
KnowingNothing ==
    /\ \A t \in Threads : Targets(t) /\ Depths(t) /\ Current(t) /\ ~Busy(t)
    /\ \A t \in Threads : ~Pulling(t) /\ ~Pushing(t)
    /\ Rising = {}

LEMMA KnowNothing == NoneBusy => KnowingNothing
BY DEF KnowingNothing, NoneBusy, Targets, Depths, Current, Rising, Busy, Pulling, Pushing, AtTarget, Offering

(* All that is queued at the end of a round has a depth.                   *)
LEMMA AtRest ==
    ASSUME IInv, phase \in {"idle", "updated"} \/ RoundOver
    PROVE  /\ AtBarrier /\ NoneBusy /\ visited \subseteq Reached
           /\ RoundOver => todo = {}
<1>1. AtBarrier
  BY DEF IInv, Rounds, Computing, RoundOver, AtBarrier
<1>2. visited \subseteq Reached
  BY <1>1 DEF IInv, Queued, AtBarrier
<1>3. RoundOver => todo = {}
  <2>1. team \in SUBSET Threads /\ team # {}
    BY TeamsAssumption DEF IInv, TypeOK
  <2> QED
    BY <1>1, <2>1 DEF IInv, Rounds, Computing, RoundOver, AtBarrier
<1> QED
  BY <1>1, <1>2, <1>3 DEF AtBarrier, NoneBusy

(* A batch brings vertices nearer, and marks the end of every edge that    *)
(* could now improve something.                                            *)
LEMMA UpdateStep == ASSUME IInv, Update PROVE IInv'
<1>0. /\ phase = "idle" /\ input # <<>> /\ input' = Tail(input)
      /\ edges' = edges \cup Head(input)
      /\ affected' = affected \cup {e[1] : e \in Head(input)} \cup {e[2] : e \in Head(input)}
      /\ phase' = "updated"
      /\ UNCHANGED <<team, property, todo, next, visited, pc, job>>
  BY DEF Update
<1>1. TypeOK /\ Rounds /\ Queued /\ SourceFirst /\ Bounded /\ NeverTooShallow /\ Accounted
  BY DEF IInv
<1>2. AtBarrier /\ NoneBusy
  BY <1>0, AtRest
<1>3. NoneBusy'
  BY <1>0, <1>2 DEF NoneBusy
<1>4. KnowingNothing'
  BY <1>3, KnowNothing, PTL
<1>5. Head(input) \in SUBSET (NodeID \X NodeID) /\ Tail(input) \in Seq(SUBSET (NodeID \X NodeID))
  BY <1>0, <1>1 DEF TypeOK
<1>6. /\ GraphOK /\ GraphOK' /\ edges \subseteq edges'
  BY <1>0, <1>1, <1>5 DEF GraphOK, TypeOK
<1>7. affected' \subseteq NodeID
  BY <1>0, <1>1, <1>5 DEF TypeOK
<1>8. TypeOK'
  BY <1>0, <1>1, <1>5, <1>6, <1>7 DEF TypeOK, GraphOK
<1>9. Rounds'
  BY <1>0, <1>2, <1>4 DEF KnowingNothing, Rounds, AtBarrier, Computing
<1>10. Reached' = Reached /\ Rising' = Rising
  BY <1>0 DEF Reached, Rising, Pulling
<1>11. Queued' /\ SourceFirst' /\ Bounded'
  <2>1. Deepest' = Deepest
    BY <1>10 DEF Deepest
  <2> QED
    BY <1>0, <1>1, <1>10, <2>1 DEF Queued, QueuedOnce, SourceFirst, Computing, Bounded
<1>12. NeverTooShallow'
  <2>1. \A n : Distance(n)' <= Distance(n)
    BY <1>6, DistanceShrinks
  <2>2. WithinLaw /\ WithinLaw'
    BY <1>6, WithinLawHolds, PTL
  <2>3. \A n : Distance(n) \in Int /\ Distance(n)' \in Int
    BY <2>2 DEF WithinLaw
  <2>4. \A n \in NodeID : property[n] \in Int
    BY <1>1, FloatMaxAssumption DEF TypeOK, Depth, Unreached
  <2> QED
    BY <1>0, <1>1, <2>1, <2>3, <2>4 DEF NeverTooShallow
<1>13. Accounted'
  <2> SUFFICES ASSUME NEW u \in NodeID, NEW v \in NodeID, <<u, v>> \in edges',
                      Improvable(u, v)' \/ source \notin Reached'
               PROVE  v \in affected'
    BY <1>0 DEF Accounted, Computing
  <2>1. CASE <<u, v>> \in Head(input)
    BY <1>0, <2>1
  <2>2. CASE <<u, v>> \in edges
    BY <1>0, <1>1, <1>10, <2>2 DEF Accounted, Improvable, Alone
  <2> QED
    BY <1>0, <2>1, <2>2
<1> QED
  BY <1>4, <1>8, <1>9, <1>11, <1>12, <1>13 DEF IInv, KnowingNothing

(* A round begins with the vertices of work.                               *)
LEMMA NewRound ==
    ASSUME IInv, AtBarrier, NEW work \in SUBSET NodeID, BeginRound(work),
           team' = team, phase' \in {"first", "rounds"}
    PROVE  /\ NoneBusy' /\ Rounds'
           /\ \A t \in Threads : Targets(t)' /\ Depths(t)' /\ Current(t)'
           /\ Rising = {} /\ Rising' = {}
           /\ next' = <<>> /\ visited' = {} /\ todo' = work
           /\ pc' \in [Threads -> ControlPoints]
           /\ next' \in Seq(NodeID) /\ visited' = {next'[i] : i \in DOMAIN next'} /\ QueuedOnce'
<1>1. /\ pc' = [t \in Threads |-> IF t \in team THEN "take" ELSE "barrier"]
      /\ next' = <<>> /\ visited' = {} /\ todo' = work
  BY DEF BeginRound
<1>2. NoneBusy /\ NoneBusy'
  BY <1>1 DEF NoneBusy, AtBarrier
<1>3. KnowingNothing /\ KnowingNothing'
  BY <1>2, KnowNothing, PTL
<1>4. team \subseteq Threads
  BY TeamsAssumption DEF IInv, TypeOK
<1>5. Rounds'
  BY <1>1, <1>3, <1>4 DEF Rounds, Computing, KnowingNothing
<1>6. pc' \in [Threads -> ControlPoints]
  BY <1>1 DEF ControlPoints
<1>7. next' \in Seq(NodeID) /\ visited' = {next'[i] : i \in DOMAIN next'} /\ QueuedOnce'
  BY <1>1 DEF QueuedOnce
<1> QED
  BY <1>1, <1>2, <1>3, <1>5, <1>6, <1>7 DEF KnowingNothing

LEMMA BeginStep == ASSUME IInv, Begin PROVE IInv'
<1>0. /\ phase = "updated" /\ phase' = "first" /\ BeginRound(affected)
      /\ property' = IF property[source] = Unreached
                     THEN [property EXCEPT ![source] = 0] ELSE property
      /\ UNCHANGED <<team, input, edges, affected, job>>
  BY DEF Begin
<1>1. /\ TypeOK /\ Rounds /\ Queued /\ SourceFirst /\ Bounded /\ NeverTooShallow
      /\ Accounted /\ GraphOK /\ affected \in SUBSET NodeID /\ AtBarrier
  BY <1>0, AtRest DEF IInv, TypeOK, GraphOK
<1>2. /\ NoneBusy' /\ Rounds'
      /\ \A t \in Threads : Targets(t)' /\ Depths(t)' /\ Current(t)'
      /\ Rising = {} /\ Rising' = {}
      /\ next' = <<>> /\ visited' = {} /\ todo' = affected
      /\ pc' \in [Threads -> ControlPoints]
      /\ next' \in Seq(NodeID) /\ visited' = {next'[i] : i \in DOMAIN next'} /\ QueuedOnce'
  BY <1>0, <1>1, NewRound
<1>3. source \in NodeID /\ 0 \in Depth /\ 0 # Unreached
  BY SourceAssumption, FloatMaxAssumption DEF NodeID, Depth, Unreached
<1>4. /\ property' \in [NodeID -> Depth \cup {Unreached}]
      /\ property'[source] = 0
      /\ \A x \in NodeID : x # source => property'[x] = property[x]
  BY <1>0, <1>1, <1>3 DEF TypeOK, SourceFirst, Reached
<1>5. Reached' = Reached \cup {source}
  BY <1>3, <1>4 DEF Reached
<1>6. /\ Deepest \in Int /\ Deepest' \in Int /\ Deepest <= Deepest' /\ 0 <= Deepest'
  <2>1. /\ Deepest \in Int /\ Deepest' \in Int /\ Deepest <= Deepest'
        /\ Reached' # Reached => Deepest + 1 <= Deepest'
    BY <1>2, <1>5, DeepestRises
  <2>2. CASE source \in Reached
    BY <1>1, <2>1, <2>2 DEF Bounded, SourceFirst
  <2>3. CASE source \notin Reached
    <3>1. Cardinality(Reached) \in Nat /\ Cardinality(Reached \cap Rising) = 0
      <4>1. Reached \in SUBSET NodeID /\ Reached \cap Rising = {}
        BY <1>2 DEF Reached
      <4> QED
        BY <4>1, NodeSets, FS_EmptySet
    <3>2. Deepest + 1 >= 0
      BY <3>1 DEF Deepest
    <3> QED
      BY <1>5, <2>1, <2>3, <3>2
  <2> QED
    BY <2>1, <2>2, <2>3
<1>7. TypeOK'
  BY <1>0, <1>1, <1>2, <1>4 DEF TypeOK, NoneBusy
<1>8. Queued'
  BY <1>0, <1>2 DEF Queued
<1>9. SourceFirst'
  BY <1>4, <1>5 DEF SourceFirst
<1>10. Bounded'
  <2>1. \A n \in NodeID : property[n] \in Int
    BY <1>1, FloatMaxAssumption DEF TypeOK, Depth, Unreached
  <2> QED
    BY <1>1, <1>3, <1>4, <1>5, <1>6, <2>1 DEF Bounded, Reached
<1>11. NeverTooShallow'
  <2>1. \A x : Distance(x)' = Distance(x)
    BY <1>0, SameGraph
  <2>2. Distance(source) = 0
    BY <1>1, DistanceOfSource
  <2> QED
    BY <1>1, <1>4, <2>1, <2>2 DEF NeverTooShallow
<1>12. Accounted'
  <2> SUFFICES ASSUME NEW u \in NodeID, NEW v \in NodeID, <<u, v>> \in edges, Improvable(u, v)'
               PROVE  v \in affected
    BY <1>0, <1>2 DEF Accounted, Computing, Pending
  <2>1. CASE source \notin Reached
    BY <1>0, <1>1, <2>1 DEF Accounted
  <2>2. CASE source \in Reached
    <3>1. property' = property /\ Reached' = Reached
      BY <1>0, <1>5, <2>2 DEF Reached
    <3> QED
      BY <1>0, <1>1, <3>1 DEF Accounted, Improvable, Alone
  <2> QED
    BY <2>1, <2>2
<1> QED
  BY <1>2, <1>7, <1>8, <1>9, <1>10, <1>11, <1>12 DEF IInv

LEMMA SlideStep == ASSUME IInv, Slide PROVE IInv'
<1>0. /\ RoundOver /\ phase' = "rounds" /\ BeginRound({next[i] : i \in DOMAIN next})
      /\ UNCHANGED <<team, input, edges, affected, property, job>>
  BY DEF Slide
<1>1. /\ TypeOK /\ Rounds /\ Queued /\ SourceFirst /\ Bounded /\ NeverTooShallow
      /\ Accounted /\ AtBarrier /\ NoneBusy /\ todo = {} /\ visited \subseteq Reached
  BY <1>0, AtRest DEF IInv
<1>2. visited = {next[i] : i \in DOMAIN next} /\ visited \in SUBSET NodeID
  BY <1>1 DEF Queued, TypeOK
<1>3. /\ NoneBusy' /\ Rounds'
      /\ \A t \in Threads : Targets(t)' /\ Depths(t)' /\ Current(t)'
      /\ Rising = {} /\ Rising' = {}
      /\ next' = <<>> /\ visited' = {} /\ todo' = visited
      /\ pc' \in [Threads -> ControlPoints]
      /\ next' \in Seq(NodeID) /\ visited' = {next'[i] : i \in DOMAIN next'} /\ QueuedOnce'
  BY <1>0, <1>1, <1>2, NewRound
<1>4. Reached' = Reached /\ Computing
  BY <1>0 DEF Reached, RoundOver, Computing
<1>5. Deepest' = Deepest
  BY <1>3, <1>4 DEF Deepest
<1>6. TypeOK'
  BY <1>0, <1>1, <1>3 DEF TypeOK, NoneBusy
<1>7. Queued'
  BY <1>1, <1>3, <1>4 DEF Queued
<1>8. SourceFirst' /\ Bounded'
  BY <1>0, <1>1, <1>4, <1>5 DEF SourceFirst, Bounded
<1>9. NeverTooShallow'
  BY <1>0, <1>1, SameGraph DEF NeverTooShallow
<1>10. Accounted'
  <2> SUFFICES ASSUME NEW u \in NodeID, NEW v \in NodeID, <<u, v>> \in edges, Improvable(u, v)
               PROVE  u \in visited
    BY <1>0, <1>3, <1>4 DEF Accounted, Computing, Pending, Improvable, Alone
  <2>1. Pending(u, v)
    BY <1>1, <1>4 DEF Accounted
  <2>2. \A t \in Threads : ~PullIn(t, u, v) /\ ~PushOut(t, u, v)
    BY <1>1, KnowNothing DEF KnowingNothing, PullIn, PushOut
  <2> QED
    BY <1>1, <2>1, <2>2 DEF Pending
<1> QED
  BY <1>3, <1>6, <1>7, <1>8, <1>9, <1>10 DEF IInv

LEMMA EndStep == ASSUME IInv, End PROVE IInv'
<1>0. /\ RoundOver /\ next = <<>> /\ phase' = "idle" /\ affected' = {}
      /\ UNCHANGED <<team, input, edges, property, todo, next, visited, pc, job>>
  BY DEF End
<1>1. /\ TypeOK /\ Rounds /\ Queued /\ SourceFirst /\ Bounded /\ NeverTooShallow
      /\ Accounted /\ AtBarrier /\ NoneBusy /\ todo = {} /\ visited \subseteq Reached
  BY <1>0, AtRest DEF IInv
<1>2. visited = {}
  BY <1>0, <1>1 DEF Queued
<1>3. NoneBusy'
  BY <1>0, <1>1 DEF NoneBusy
<1>4. KnowingNothing'
  BY <1>3, KnowNothing, PTL
<1>5. Reached' = Reached /\ Rising' = Rising /\ Computing
  BY <1>0 DEF Reached, Rising, Pulling, RoundOver, Computing
<1>6. TypeOK'
  BY <1>0, <1>1 DEF TypeOK
<1>7. Rounds'
  BY <1>0, <1>1, <1>4 DEF KnowingNothing, Rounds, AtBarrier, Computing
<1>8. Queued' /\ SourceFirst' /\ Bounded'
  <2>1. Deepest' = Deepest
    BY <1>5 DEF Deepest
  <2> QED
    BY <1>0, <1>1, <1>5, <2>1 DEF Queued, QueuedOnce, SourceFirst, Computing, Bounded
<1>9. NeverTooShallow'
  BY <1>0, <1>1, SameGraph DEF NeverTooShallow
<1>10. Accounted'
  <2> SUFFICES ASSUME NEW u \in NodeID, NEW v \in NodeID, <<u, v>> \in edges
               PROVE  source \in Reached /\ ~Improvable(u, v)
    BY <1>0, <1>5 DEF Accounted, Computing, Improvable, Alone
  <2>1. Improvable(u, v) => Pending(u, v)
    BY <1>1, <1>5 DEF Accounted
  <2>2. \A t \in Threads : ~PullIn(t, u, v) /\ ~PushOut(t, u, v)
    BY <1>1, KnowNothing DEF KnowingNothing, PullIn, PushOut
  <2> QED
    BY <1>1, <1>2, <1>5, <2>1, <2>2 DEF Pending, SourceFirst
<1> QED
  BY <1>4, <1>6, <1>7, <1>8, <1>9, <1>10 DEF IInv, KnowingNothing

(* At the start every thread is at the barrier and nothing has a depth.    *)
LEMMA InitOK == Init => IInv
<1> SUFFICES ASSUME Init PROVE IInv
  OBVIOUS
<1>0. /\ team \in Teams /\ input \in Inputs /\ edges = {} /\ affected = {}
      /\ property = [n \in NodeID |-> Unreached] /\ phase = "idle"
      /\ todo = {} /\ next = <<>> /\ visited = {}
      /\ pc = [t \in Threads |-> "barrier"] /\ job = [t \in Threads |-> <<>>]
  BY DEF Init
<1>1. TypeOK
  <2>1. input \in Seq(SUBSET (NodeID \X NodeID))
    BY <1>0, InputsAssumption DEF NodeID
  <2> QED
    BY <1>0, <2>1 DEF TypeOK, ControlPoints
<1>2. NoneBusy
  BY <1>0 DEF NoneBusy
<1>3. KnowingNothing
  BY <1>2, KnowNothing
<1>4. Reached = {}
  BY <1>0 DEF Reached
<1>5. Rounds
  BY <1>0, <1>3 DEF Rounds, Computing, KnowingNothing
<1>6. Queued
  BY <1>0 DEF Queued, QueuedOnce
<1>7. SourceFirst /\ Bounded /\ NeverTooShallow /\ Accounted
  BY <1>0, <1>4 DEF SourceFirst, Bounded, NeverTooShallow, Accounted, Computing
<1> QED
  BY <1>1, <1>3, <1>5, <1>6, <1>7 DEF IInv, KnowingNothing

(* Every step of the program preserves the invariant.                      *)
LEMMA NextStep == IInv /\ [Next]_vars => IInv'
<1> SUFFICES ASSUME IInv, [Next]_vars PROVE IInv'
  OBVIOUS
<1>1. CASE UNCHANGED vars
  <2>1. /\ UNCHANGED <<team, input, edges, affected, property, phase, todo, next, visited, pc, job>>
        /\ \A x : OutNeigh(x)' = OutNeigh(x) /\ InNeigh(x)' = InNeigh(x)
        /\ \A x : Distance(x)' = Distance(x)
    BY <1>1, SameGraph DEF vars
  <2>2. Reached' = Reached /\ Rising' = Rising /\ (Alone' <=> Alone)
    BY <2>1 DEF Reached, Rising, Pulling, Alone
  <2>3. Deepest' = Deepest
    BY <2>2 DEF Deepest
  <2>4. TypeOK'
    BY <2>1 DEF IInv, TypeOK
  <2>5. Rounds'
    BY <2>1 DEF IInv, Rounds, Computing, Busy, Pulling, Pushing
  <2>6. Queued' /\ SourceFirst' /\ Bounded' /\ NeverTooShallow'
    BY <2>1, <2>2, <2>3
       DEF IInv, Queued, QueuedOnce, SourceFirst, Computing, Bounded, NeverTooShallow
  <2>7. Accounted'
    <3>1. \A u, v \in NodeID :
            (Improvable(u, v)' <=> Improvable(u, v)) /\ (Pending(u, v)' <=> Pending(u, v))
      BY <2>1, <2>2 DEF Improvable, Pending, PullIn, PushOut, Pulling, Pushing
    <3> QED
      BY <2>1, <2>2, <3>1 DEF IInv, Accounted, Computing
  <2>8. \A t \in Threads : Targets(t)' /\ Depths(t)' /\ Current(t)'
    <3> SUFFICES ASSUME NEW t \in Threads PROVE Targets(t)' /\ Depths(t)' /\ Current(t)'
      OBVIOUS
    <3>1. Targets(t)'
      BY <2>1, <2>2 DEF IInv, Targets, Pulling, Pushing, AtTarget
    <3>2. Depths(t)'
      BY <2>1, <2>3 DEF IInv, Depths, Pulling, AtTarget, Offering
    <3>3. Current(t)'
      BY <2>1, <2>2 DEF IInv, Current, Pulling, AtTarget, Offering
    <3> QED
      BY <3>1, <3>2, <3>3
  <2> QED
    BY <2>4, <2>5, <2>6, <2>7, <2>8 DEF IInv
<1>2. CASE Update \/ Begin \/ Slide \/ End
  BY <1>2, UpdateStep, BeginStep, SlideStep, EndStep
<1>3. CASE \E t \in Threads : Worker(t)
  BY <1>3, WorkerKeeps
<1>4. CASE Finished
  BY <1>1, <1>4 DEF Finished
<1> QED
  BY <1>1, <1>2, <1>3, <1>4 DEF Next

-----------------------------------------------------------------------------
(* Every step of dynBFSAlg, by any team of threads and in any order of     *)
(* their accesses, keeps IInv: above all, every edge that could still give *)
(* its end a depth, or a single thread's search a smaller one, is some     *)
(* thread's or the queue's business (Accounted).                           *)
THEOREM InductiveInvariant == Spec => []IInv
<1>1. Init => IInv
  BY InitOK
<1>2. IInv /\ [Next]_vars => IInv'
  BY NextStep
<1> QED
  BY <1>1, <1>2, PTL DEF Spec

(* Every variable has its type: no depth ever reaches numeric_limits::max, *)
(* which stands for "no offer" in BFSIter0, though depths may exceed the   *)
(* number of vertices.                                                     *)
THEOREM TypeCorrect == Spec => []TypeOK
<1>1. IInv => TypeOK
  BY DEF IInv
<1> QED
  BY <1>1, InductiveInvariant, PTL

(* No vertex is put into the queue of the next round twice, by whichever   *)
(* threads: its arrays, of one entry for each vertex, are large enough.    *)
THEOREM NothingQueuedTwice == Spec => []QueuedOnce
<1>1. IInv => QueuedOnce
  BY DEF IInv, Queued
<1> QED
  BY <1>1, InductiveInvariant, PTL

(* No depth is ever less than the length of a shortest walk from the       *)
(* source, also while threads overwrite each other's depths.               *)
THEOREM NoDepthTooShallow == Spec => []NeverTooShallow
<1>1. IInv => NeverTooShallow
  BY DEF IInv
<1> QED
  BY <1>1, InductiveInvariant, PTL

(* When no edge can improve anything, every vertex within k edges of the   *)
(* source has a depth, with a single thread one of at most k.              *)
LEMMA AllReached ==
    ASSUME IInv, phase = "idle", edges # {}
    PROVE  \A k \in 0 .. NumNodes : \A n \in Within[k] :
              n \in NodeID /\ n \in Reached /\ (Alone => property[n] <= k)
<1>0. /\ GraphOK /\ Accounted /\ SourceFirst /\ \A n \in NodeID : property[n] \in Int
  BY FloatMaxAssumption DEF IInv, TypeOK, GraphOK, Depth, Unreached
<1>1. source \in Reached /\ property[source] = 0 /\ source \in NodeID
  <2>1. PICK e \in edges : TRUE
    OBVIOUS
  <2>2. e[1] \in NodeID /\ e[2] \in NodeID /\ <<e[1], e[2]>> \in edges
    BY <1>0 DEF GraphOK
  <2> QED
    BY <1>0, <2>2 DEF Accounted, SourceFirst, Reached
<1>2. WithinLaw
  BY <1>0, WithinLawHolds
<1> DEFINE P(k) == \A n \in Within[k] :
                      n \in NodeID /\ n \in Reached /\ (Alone => property[n] <= k)
           S == {k \in Nat : k <= NumNodes => P(k)}
<1>3. 0 \in S
  BY <1>1, <1>2 DEF WithinLaw
<1>4. ASSUME NEW k \in Nat, k \in S PROVE k + 1 \in S
  <2> SUFFICES ASSUME k + 1 <= NumNodes, NEW n \in Within[k + 1]
               PROVE  n \in NodeID /\ n \in Reached /\ (Alone => property[n] <= k + 1)
    OBVIOUS
  <2>1. k \in 0 .. NumNodes - 1 /\ P(k)
    BY <1>4, NumNodesAssumption
  <2>2. CASE n \in Within[k]
    BY <1>0, <2>1, <2>2
  <2>3. CASE n \notin Within[k]
    <3>1. PICK u \in Within[k] : <<u, n>> \in edges
      BY <1>2, <2>1, <2>3 DEF WithinLaw
    <3>2. u \in NodeID /\ n \in NodeID /\ u \in Reached /\ (Alone => property[u] <= k)
      BY <1>0, <2>1, <3>1, Neighbors
    <3>3. ~Improvable(u, n)
      BY <1>0, <3>1, <3>2 DEF Accounted
    <3> QED
      BY <1>0, <3>2, <3>3 DEF Improvable
  <2> QED
    BY <2>2, <2>3
<1>5. Nat \subseteq S
  <2> HIDE DEF S
  <2> QED
    BY <1>3, <1>4, SetInduction
<1> QED
  BY <1>5, NumNodesAssumption

(* What the end of a compute phase promises.                               *)
LEMMA AtTheEnd ==
    ASSUME IInv, phase = "idle", edges # {}, NEW n \in NodeID
    PROVE  /\ property[n] = Unreached <=> Distance(n) = FloatMax
           /\ Alone /\ Distance(n) # FloatMax => property[n] = Distance(n)
<1>1. GraphOK
  BY DEF IInv, TypeOK, GraphOK
<1>2. CASE Distance(n) = FloatMax
  <2>1. ASSUME property[n] # Unreached PROVE FALSE
    BY <1>2, <2>1, KnownDepth, FloatMaxAssumption
  <2> QED
    BY <1>2, <2>1
<1>3. CASE Distance(n) # FloatMax
  <2>1. Distance(n) \in 0 .. NumNodes /\ n \in Within[Distance(n)]
    BY <1>3, DistanceIs, DistanceRange
  <2>2. n \in Reached /\ (Alone => property[n] <= Distance(n))
    BY <2>1, AllReached
  <2>3. property[n] # Unreached
    BY <2>2 DEF Reached
  <2>4. property[n] >= Distance(n) /\ property[n] \in Nat
    BY <2>3, KnownDepth
  <2> QED
    BY <1>3, <2>1, <2>2, <2>3, <2>4
<1> QED
  BY <1>2, <1>3

(* When a compute phase has ended the vertices that have a depth are those *)
(* that can be reached from the source.                                    *)
THEOREM ReachableGetDepth == Spec => []ReachableReached
<1>1. IInv => ReachableReached
  BY AtTheEnd DEF ReachableReached
<1> QED
  BY <1>1, InductiveInvariant, PTL

(* With a single thread the depths of the incremental computation are      *)
(* those of a search from scratch.                                         *)
THEOREM ShortestWithOneThread == Spec => []DepthsAreShortestAlone
<1>1. IInv => DepthsAreShortestAlone
  <2> SUFFICES ASSUME IInv, Cardinality(team) = 1, phase = "idle", edges # {},
                      NEW n \in NodeID
               PROVE  property[n] = IF Distance(n) = FloatMax THEN Unreached ELSE Distance(n)
    BY DEF DepthsAreShortestAlone, DepthsAreShortest
  <2>1. team \in SUBSET Threads /\ IsFiniteSet(team)
    BY ThreadsAssumption, TeamsAssumption, FS_Subset DEF IInv, TypeOK
  <2>2. Alone
    BY <2>1, FS_Singleton DEF Alone
  <2> QED
    BY <2>2, AtTheEnd
<1> QED
  BY <1>1, InductiveInvariant, PTL
=============================================================================
