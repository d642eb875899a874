------------------------ MODULE AdListShared_proofs -------------------------
(***************************************************************************)
(* Proofs about AdListShared: the parallel update of adListShared.h leaves *)
(* the rows and the counters that it should, for any number of vertices    *)
(* and batches of any size.                                                *)
(***************************************************************************)
EXTENDS AdListShared, SequenceTheorems, FiniteSetTheorems, TLAPS

-----------------------------------------------------------------------------
(* Edges that are submitted, and rows.                                     *)

(* An edge that is submitted is an edge, and it uses at most the next IDs. *)
LEMMA SubmittableTyped ==
    ASSUME NEW given \in 0 .. NumNodes, NEW e \in Submittable(given)
    PROVE  /\ e \in Edge
           /\ NewVertices(e) \in 0 .. 2
           /\ given + NewVertices(e) \in 0 .. NumNodes
           /\ e.source <= given /\ (e.sourceExists <=> e.source < given)
           /\ e.destination <= KnownAfter(given, e.source)
           /\ (e.destExists <=> e.destination < KnownAfter(given, e.source))
<1>1. PICK s \in NodeID, d \in NodeID, w \in Weights :
        /\ s <= given /\ d <= KnownAfter(given, s)
        /\ e = EdgeOf(given, s, d, w)
  BY DEF Submittable
<1>2. /\ e = [source |-> s, destination |-> d, weight |-> w,
              sourceExists |-> s < given, destExists |-> d < KnownAfter(given, s)]
      /\ (s < given) \in BOOLEAN /\ (d < KnownAfter(given, s)) \in BOOLEAN
  BY <1>1 DEF EdgeOf
<1>3. e \in Edge
  BY <1>2 DEF Edge
<1>4. /\ e.source = s /\ e.destination = d
      /\ e.sourceExists = (s < given) /\ e.destExists = (d < KnownAfter(given, s))
  BY <1>2
<1>5. NewVertices(e) = (IF s < given THEN 0 ELSE 1)
                          + (IF d < KnownAfter(given, s) THEN 0 ELSE 1)
  BY <1>4 DEF NewVertices
<1>6. /\ NewVertices(e) \in 0 .. 2
      /\ given + NewVertices(e) \in 0 .. NumNodes
  BY <1>1, <1>5, NumNodesAssumption DEF KnownAfter, NodeID
<1> QED
  BY <1>1, <1>3, <1>4, <1>6

LEMMA ContentTyped ==
    ASSUME NEW row \in Seq(Neighbor)
    PROVE  \A nb \in Content(row) : nb.node \in NodeID /\ nb.weight \in Weights
<1>1. \A i \in DOMAIN row : row[i] \in Neighbor
  BY LenProperties
<1> QED
  BY <1>1 DEF Content, Neighbor

(* A search finds a neighbour that the row holds.                          *)
LEMMA FirstFound ==
    ASSUME NEW row \in Seq(Neighbor), NoDuplicates(row), NEW n, Holds(row, n)
    PROVE  \E i \in DOMAIN row : FirstAt(row, n, i)
<1>1. DOMAIN row = 1 .. Len(row) /\ Len(row) \in Nat
  BY LenProperties
<1>2. PICK i \in DOMAIN row : row[i].node = n
  BY DEF Holds
<1>3. \A j \in DOMAIN row : j < i => row[j].node # n
  BY <1>1, <1>2 DEF NoDuplicates
<1> QED
  BY <1>2, <1>3 DEF FirstAt

(* A row in which the search for the neighbour n ended at i (at 0 if it    *)
(* found nothing), and the row after n has been written there.             *)
SearchEnded(row, n, i) ==
    /\ NoDuplicates(row)
    /\ i = 0 => ~Holds(row, n)
    /\ i # 0 => i \in DOMAIN row /\ row[i].node = n
RowAfter(row, n, w, i) ==
    IF i = 0 THEN Append(row, NeighborInfo(n, w))
             ELSE [row EXCEPT ![i] = NeighborInfo(n, w)]

(* Writing keeps the row free of duplicates and touches no other neighbour. *)
LEMMA RowWritten ==
    ASSUME NEW row \in Seq(Neighbor), NEW n \in NodeID, NEW w \in Weights, NEW i \in Nat,
           SearchEnded(row, n, i)
    PROVE  /\ RowAfter(row, n, w, i) \in Seq(Neighbor)
           /\ NoDuplicates(RowAfter(row, n, w, i))
           /\ Holds(RowAfter(row, n, w, i), n)
           /\ \A m : Holds(row, m) => Holds(RowAfter(row, n, w, i), m)
           /\ \A nb \in Content(RowAfter(row, n, w, i)) :
                 nb = NeighborInfo(n, w) \/ (nb \in Content(row) /\ nb.node # n)
<1>1. PICK new : new = RowAfter(row, n, w, i)
  OBVIOUS
<1>2. /\ NoDuplicates(row)
      /\ i = 0 => ~Holds(row, n)
      /\ i # 0 => i \in DOMAIN row /\ row[i].node = n
      /\ new = IF i = 0 THEN Append(row, NeighborInfo(n, w))
                        ELSE [row EXCEPT ![i] = NeighborInfo(n, w)]
  BY <1>1 DEF SearchEnded, RowAfter
<1> DEFINE info == NeighborInfo(n, w)
<1>3. info \in Neighbor /\ info.node = n
  BY DEF NeighborInfo, Neighbor
<1> HIDE DEF info
<1> SUFFICES /\ new \in Seq(Neighbor) /\ NoDuplicates(new) /\ Holds(new, n)
             /\ \A m : Holds(row, m) => Holds(new, m)
             /\ \A nb \in Content(new) :
                   nb = NeighborInfo(n, w) \/ (nb \in Content(row) /\ nb.node # n)
  BY <1>1
<1>4. CASE i = 0
  <2>1. /\ new = Append(row, info) /\ new \in Seq(Neighbor)
        /\ Len(new) = Len(row) + 1 /\ DOMAIN new = 1 .. Len(row) + 1 /\ DOMAIN row = 1 .. Len(row)
        /\ Len(row) \in Nat /\ new[Len(row) + 1] = info
        /\ \A j \in 1 .. Len(row) : new[j] = row[j]
    BY <1>2, <1>3, <1>4 DEF info
  <2>2. /\ \A j \in DOMAIN row : row[j].node # n
        /\ \A j \in DOMAIN new : j = Len(row) + 1 \/ (j \in DOMAIN row /\ new[j] = row[j])
        /\ Len(row) + 1 \in DOMAIN new
        /\ \A j \in DOMAIN row : j \in DOMAIN new /\ new[j] = row[j]
    BY <1>2, <1>4, <2>1 DEF Holds
  <2>3. NoDuplicates(new)
    BY <1>2, <1>3, <2>1, <2>2 DEF NoDuplicates
  <2>4. Holds(new, n) /\ \A m : Holds(row, m) => Holds(new, m)
    BY <1>3, <2>1, <2>2 DEF Holds
  <2>5. \A nb \in Content(new) : nb = info \/ (nb \in Content(row) /\ nb.node # n)
    BY <2>1, <2>2 DEF Content
  <2> QED
    BY <2>1, <2>3, <2>4, <2>5 DEF info
<1>5. CASE i # 0
  <2>1. /\ new = [row EXCEPT ![i] = info] /\ new \in Seq(Neighbor)
        /\ DOMAIN new = DOMAIN row /\ i \in DOMAIN row /\ row[i].node = n /\ new[i] = info
        /\ \A j \in DOMAIN row : j # i => new[j] = row[j]
    <3>1. row \in [1 .. Len(row) -> Neighbor] /\ Len(row) \in Nat /\ DOMAIN row = 1 .. Len(row)
      OBVIOUS
    <3>2. new = [row EXCEPT ![i] = info] /\ i \in 1 .. Len(row) /\ row[i].node = n
      BY <1>2, <1>5, <3>1 DEF info
    <3>3. /\ new \in Seq(Neighbor) /\ Len(new) = Len(row)
          /\ \A j \in 1 .. Len(row) : new[j] = IF j = i THEN info ELSE row[j]
      BY <1>3, <3>2, ExceptSeq
    <3> QED
      BY <3>1, <3>2, <3>3
  <2>2. NoDuplicates(new)
    BY <1>2, <1>3, <2>1 DEF NoDuplicates
  <2>3. Holds(new, n) /\ \A m : Holds(row, m) => Holds(new, m)
    BY <1>3, <2>1 DEF Holds
  <2>4. \A j \in DOMAIN row : j # i => row[j].node # n
    BY <1>2, <2>1 DEF NoDuplicates
  <2>5. \A nb \in Content(new) : nb = info \/ (nb \in Content(row) /\ nb.node # n)
    BY <2>1, <2>4 DEF Content
  <2> QED
    BY <2>1, <2>2, <2>3, <2>5 DEF info
<1> QED
  BY <1>4, <1>5

-----------------------------------------------------------------------------
(* The halves of the iterations: where each puts its neighbour, and how    *)
(* far it has come.                                                        *)
Half == Iterations \X Halves
SideOf(h) == IF h = "source" \/ ~directed THEN "out" ELSE "in"
OwnOf(k, h) == IF h = "source" THEN batch[k].source ELSE batch[k].destination
OtherOf(k, h) == IF h = "source" THEN batch[k].destination ELSE batch[k].source
ExistsOf(k, h) == IF h = "source" THEN batch[k].sourceExists ELSE batch[k].destExists

Past(k, h) == h = "source" /\ pc[k][1] = "destination"
Counted(k, h) == updating /\ (Past(k, h) \/ (pc[k][1] = h /\ pc[k][2] # "meta"))
Written(k, h) == updating /\ (Past(k, h) \/ (pc[k][1] = h /\ pc[k][2] = "done"))

Uncounted == {x \in Half : ~Counted(x[1], x[2])}
NewUncounted == {x \in Uncounted : ~ExistsOf(x[1], x[2])}

(* What is missing from the counters is what has not been counted yet.     *)
Counting ==
    /\ num_edges = 2 * submitted - Cardinality(Uncounted)
    /\ num_nodes = known - Cardinality(NewUncounted)
    /\ affected = {OwnOf(x[1], x[2]) : x \in Half \ Uncounted}

InRow(k) == pc[k][2] \in {"search", "write"}

(* An iteration that searches or writes a row holds its mutex.             *)
Locking == updating => \A k \in Iterations : InRow(k) => mutex[Side(k)][Own(k)] = k

(* What the search has found is still so when the row is written.          *)
Searched == updating => \A k \in Iterations : pc[k][2] = "write" =>
    /\ slot[k] = 0 => ~Holds(Row(k), Other(k))
    /\ slot[k] # 0 => slot[k] \in DOMAIN Row(k) /\ Row(k)[slot[k]].node = Other(k)

(* The rows in use, and the pair whose weight a row's entry is.            *)
ActiveSides == IF directed THEN Sides ELSE {"out"}
PairOf(s, u, v) == IF s = "out" THEN <<u, v>> ELSE <<v, u>>

(* An iteration has yet to put v into u's row.                             *)
Due(s, u, v) ==
    updating /\ \E k \in Iterations, h \in Halves :
        ~Written(k, h) /\ SideOf(h) = s /\ OwnOf(k, h) = u /\ OtherOf(k, h) = v

AllowedWeights ==
    /\ ~directed => \A u, v \in NodeID : allowed[<<u, v>>] = allowed[<<v, u>>]
    /\ updating => \A k \in Iterations : \A p \in Pairs(batch[k]) : batch[k].weight \in allowed[p]

(* A row has all the pairs with the right weights, as far as no iteration  *)
(* has yet to put them there.                                              *)
RowsCurrent == \A s \in ActiveSides, u \in NodeID :
    /\ \A nb \in Content(neighbors[s][u]) :
        nb.weight \in allowed[PairOf(s, u, nb.node)] \/ Due(s, u, nb.node)
    /\ \A v \in NodeID :
        allowed[PairOf(s, u, v)] # {} => Holds(neighbors[s][u], v) \/ Due(s, u, v)

IInv ==
    /\ TypeOK /\ Counting /\ Locking /\ Searched /\ NoDuplicateNeighbors
    /\ AllowedWeights /\ RowsCurrent

-----------------------------------------------------------------------------
LEMMA BatchTyped ==
    ASSUME TypeOK
    PROVE  /\ Iterations = 1 .. Len(batch) /\ Len(batch) \in Nat
           /\ \A k \in Iterations :
                /\ k \in Nat \ {0} /\ batch[k] \in Edge
                /\ batch[k].weight \in Weights
                /\ \A h \in Halves : OwnOf(k, h) \in NodeID /\ OtherOf(k, h) \in NodeID
           /\ \A h \in Halves : SideOf(h) \in ActiveSides
           /\ ActiveSides \subseteq Sides
<1>1. /\ Iterations = 1 .. Len(batch) /\ Len(batch) \in Nat
      /\ \A k \in 1 .. Len(batch) : k \in Nat \ {0} /\ batch[k] \in Edge
  BY DEF TypeOK, Iterations
<1>2. \A k \in Iterations : batch[k].source \in NodeID /\ batch[k].destination \in NodeID
                            /\ batch[k].weight \in Weights
  BY <1>1 DEF Edge
<1>3. /\ \A h \in Halves : SideOf(h) \in ActiveSides
      /\ ActiveSides \subseteq Sides
  BY DEF Halves, SideOf, ActiveSides, Sides
<1> QED
  BY <1>1, <1>2, <1>3 DEF OwnOf, OtherOf

LEMMA HalvesFinite ==
    ASSUME TypeOK
    PROVE  /\ IsFiniteSet(Half) /\ IsFiniteSet(Uncounted) /\ IsFiniteSet(NewUncounted)
           /\ Cardinality(Uncounted) \in Nat /\ Cardinality(NewUncounted) \in Nat
<1>1. IsFiniteSet(Iterations)
  BY BatchTyped, FS_Interval
<1>2. IsFiniteSet(Halves)
  <2>1. Halves = {"source"} \cup {"destination"}
    BY DEF Halves
  <2> QED
    BY <2>1, FS_Singleton, FS_Union
<1>3. IsFiniteSet(Half)
  BY <1>1, <1>2, FS_Product DEF Half
<1>4. Uncounted \subseteq Half /\ NewUncounted \subseteq Half
  BY DEF Uncounted, NewUncounted
<1> QED
  BY <1>3, <1>4, FS_Subset, FS_CardinalityType

(* An iteration at work, seen through its current half.                    *)
LEMMA AtWork ==
    ASSUME TypeOK, updating, NEW k \in Iterations
    PROVE  /\ pc \in [Iterations -> Halves \X ControlPoints]
           /\ slot \in [Iterations -> Nat]
           /\ pc[k] = <<pc[k][1], pc[k][2]>> /\ pc[k][1] \in Halves
           /\ <<k, pc[k][1]>> \in Half
           /\ Side(k) = SideOf(pc[k][1]) /\ Own(k) = OwnOf(k, pc[k][1])
           /\ Other(k) = OtherOf(k, pc[k][1]) /\ Exists(k) = ExistsOf(k, pc[k][1])
           /\ Side(k) \in ActiveSides /\ Side(k) \in Sides
           /\ Own(k) \in NodeID /\ Other(k) \in NodeID
           /\ Row(k) \in Seq(Neighbor)
<1>1. /\ pc \in [Iterations -> Halves \X ControlPoints]
      /\ slot \in [Iterations -> Nat]
      /\ neighbors \in [Sides -> [NodeID -> Seq(Neighbor)]]
  BY DEF TypeOK
<1>2. pc[k] = <<pc[k][1], pc[k][2]>> /\ pc[k][1] \in Halves
  BY <1>1
<1>3. /\ Side(k) = SideOf(pc[k][1]) /\ Own(k) = OwnOf(k, pc[k][1])
      /\ Other(k) = OtherOf(k, pc[k][1]) /\ Exists(k) = ExistsOf(k, pc[k][1])
  BY DEF Side, SideOf, Own, OwnOf, Other, OtherOf, Exists, ExistsOf, FromSource
<1>4. /\ Side(k) \in ActiveSides /\ Side(k) \in Sides
      /\ Own(k) \in NodeID /\ Other(k) \in NodeID
  BY <1>2, <1>3, BatchTyped
<1> QED
  BY <1>1, <1>2, <1>3, <1>4 DEF Row, Half

-----------------------------------------------------------------------------
LEMMA Initially == ASSUME Init PROVE IInv
<1>1. Iterations = {} /\ Half = {} /\ Uncounted = {} /\ NewUncounted = {} /\ ~updating
  BY DEF Init, Iterations, Half, Uncounted, NewUncounted
<1>2. TypeOK
  <2>1. batch \in Seq(Edge) /\ Len(batch) = 0 /\ <<>> \in Seq(Neighbor)
    BY EmptySeq DEF Init
  <2>2. neighbors \in [Sides -> [NodeID -> Seq(Neighbor)]]
    BY <2>1 DEF Init
  <2>3. /\ 0 \in 0 .. BatchSize /\ 0 \in 0 .. NumNodes /\ 0 \in 0 .. MaxEdges
        /\ 0 <= BatchSize
    BY BoundsAssumption, NumNodesAssumption
  <2>4. mutex \in [Sides -> [NodeID -> 0 .. BatchSize]]
    BY <2>3 DEF Init
  <2>5. allowed \in [NodeID \X NodeID -> SUBSET Weights]
    BY DEF Init
  <2> QED
    BY <2>1, <2>2, <2>3, <2>4, <2>5, DirectionsAssumption DEF Init, TypeOK
<1>3. Counting
  BY <1>1, FS_EmptySet DEF Counting, Init
<1>4. Locking /\ Searched /\ NoDuplicateNeighbors
  BY <1>1 DEF Locking, Searched, NoDuplicateNeighbors, NoDuplicates, Init, Sides
<1>5. AllowedWeights
  BY <1>1 DEF AllowedWeights, Init
<1>6. RowsCurrent
  <2> SUFFICES ASSUME NEW s \in ActiveSides, NEW u \in NodeID
               PROVE  /\ Content(neighbors[s][u]) = {}
                      /\ \A v \in NodeID : allowed[PairOf(s, u, v)] = {}
    BY DEF RowsCurrent
  <2>1. neighbors[s][u] = <<>>
    BY DEF Init, ActiveSides, Sides
  <2>2. \A v \in NodeID : PairOf(s, u, v) \in NodeID \X NodeID
    BY DEF PairOf
  <2> QED
    BY <2>1, <2>2 DEF Init, Content
<1> QED
  BY <1>2, <1>3, <1>4, <1>5, <1>6 DEF IInv

(* Two halves more that wait to be counted.                                *)
LEMMA ReadStep ==
    ASSUME IInv, NEW e \in Submittable(known), Read(e)
    PROVE  IInv'
<1>0. PICK n : n = Len(batch) + 1
  OBVIOUS
<1> DEFINE src == <<n, "source">>
           dst == <<n, "destination">>
<1>1. TypeOK /\ ~updating /\ ~updating' /\ known \in 0 .. NumNodes
  BY DEF IInv, TypeOK, Read
<1>2. /\ e \in Edge /\ NewVertices(e) \in 0 .. 2 /\ known + NewVertices(e) \in 0 .. NumNodes
  BY <1>1, SubmittableTyped
<1>3. /\ batch \in Seq(Edge) /\ batch' = Append(batch, e) /\ batch' \in Seq(Edge)
      /\ Len(batch') = n /\ Len(batch) \in Nat /\ batch'[n] = e
      /\ Iterations = 1 .. Len(batch) /\ Iterations' = 1 .. n
      /\ \A k \in Iterations : batch'[k] = batch[k]
  BY <1>0, <1>1, <1>2 DEF TypeOK, Read, Iterations
<1>4. TypeOK'
  <2>1. /\ Len(batch') <= BatchSize /\ submitted' \in 0 .. MaxEdges
        /\ known' \in 0 .. NumNodes
    BY <1>0, <1>1, <1>2, <1>3, BoundsAssumption DEF TypeOK, Read
  <2>2. /\ pc' \in {<<>>} /\ slot' \in {<<>>} /\ updating' = FALSE
        /\ UNCHANGED <<directed, neighbors, mutex, affected, num_nodes, num_edges, allowed>>
    BY <1>1 DEF TypeOK, Read, counters
  <2> QED
    BY <1>1, <1>3, <2>1, <2>2 DEF TypeOK
<1>5. Counting'
  <2>1. Half' = Half \cup {src, dst} /\ src # dst /\ src \notin Half /\ dst \notin Half
    BY <1>3 DEF Half, Halves
  <2>2. Uncounted = Half /\ Uncounted' = Half'
    BY <1>1 DEF Uncounted, Counted
  <2>3. Cardinality(Uncounted') = Cardinality(Uncounted) + 2
    <3>1. Uncounted' = (Uncounted \cup {src}) \cup {dst} /\ dst \notin Uncounted \cup {src}
      BY <2>1, <2>2
    <3>2. /\ Cardinality(Uncounted \cup {src}) = Cardinality(Uncounted) + 1
          /\ IsFiniteSet(Uncounted \cup {src})
      BY <1>1, <2>1, <2>2, HalvesFinite, FS_AddElement
    <3>3. Cardinality(Uncounted') = Cardinality(Uncounted \cup {src}) + 1
      BY <3>1, <3>2, FS_AddElement
    <3> QED
      BY <1>1, <3>2, <3>3, HalvesFinite
  <2>4. /\ NewUncounted = {x \in Half : ~ExistsOf(x[1], x[2])}
        /\ NewUncounted' = NewUncounted
              \cup (IF e.sourceExists THEN {} ELSE {src})
              \cup (IF e.destExists THEN {} ELSE {dst})
    <3>1. NewUncounted = {x \in Half : ~ExistsOf(x[1], x[2])}
      BY <2>2 DEF NewUncounted
    <3>2. NewUncounted' = {x \in Half' : ~ExistsOf(x[1], x[2])'}
      BY <2>2 DEF NewUncounted
    <3>3. \A x \in Half : ExistsOf(x[1], x[2])' <=> ExistsOf(x[1], x[2])
      BY <1>3 DEF ExistsOf, Half
    <3>4. (ExistsOf(n, "source")' <=> e.sourceExists) /\ (ExistsOf(n, "destination")' <=> e.destExists)
      BY <1>3 DEF ExistsOf
    <3>5. (ExistsOf(src[1], src[2])' <=> e.sourceExists) /\ (ExistsOf(dst[1], dst[2])' <=> e.destExists)
      BY <3>4
    <3> HIDE DEF src, dst
    <3> QED
      BY <2>1, <3>1, <3>2, <3>3, <3>5
  <2>5. Cardinality(NewUncounted') = Cardinality(NewUncounted) + NewVertices(e)
    <3> HIDE DEF src, dst
    <3> DEFINE A == NewUncounted \cup (IF e.sourceExists THEN {} ELSE {src})
    <3>1. src \notin NewUncounted /\ dst \notin A
      BY <2>1, <2>4
    <3>2. IsFiniteSet(A) /\ Cardinality(A) = Cardinality(NewUncounted) + (IF e.sourceExists THEN 0 ELSE 1)
      <4>1. CASE e.sourceExists
        BY <1>1, <4>1, HalvesFinite
      <4>2. CASE ~e.sourceExists
        <5>1. A = NewUncounted \cup {src}
          BY <4>2
        <5> QED
          BY <1>1, <5>1, <4>2, <3>1, HalvesFinite, FS_AddElement
      <4> QED
        BY <4>1, <4>2
    <3>3. Cardinality(NewUncounted') = Cardinality(A) + (IF e.destExists THEN 0 ELSE 1)
      <4>1. CASE e.destExists
        BY <2>4, <4>1, <3>2, FS_CardinalityType
      <4>2. CASE ~e.destExists
        <5>1. NewUncounted' = A \cup {dst}
          BY <2>4, <4>2
        <5> QED
          BY <5>1, <4>2, <3>1, <3>2, FS_AddElement
      <4> QED
        BY <4>1, <4>2
    <3> HIDE DEF A
    <3> QED
      BY <1>1, <3>2, <3>3, HalvesFinite DEF NewVertices
  <2>6. /\ num_edges' = num_edges /\ num_nodes' = num_nodes /\ submitted' = submitted + 1
        /\ known' = known + NewVertices(e) /\ affected' = affected
        /\ submitted \in Nat /\ known \in Nat
    BY <1>1, BoundsAssumption, NumNodesAssumption DEF Read, counters, TypeOK
  <2>7. affected = {} /\ {OwnOf(x[1], x[2])' : x \in Half' \ Uncounted'} = {}
    BY <2>2 DEF IInv, Counting
  <2>8. /\ num_edges' = 2 * submitted' - Cardinality(Uncounted')
        /\ num_nodes' = known' - Cardinality(NewUncounted')
    BY <1>1, <1>2, <2>3, <2>5, <2>6, HalvesFinite DEF IInv, Counting
  <2> QED
    BY <2>6, <2>7, <2>8 DEF Counting
<1>6. Locking' /\ Searched' /\ NoDuplicateNeighbors'
  BY <1>1 DEF IInv, Locking, Searched, NoDuplicateNeighbors, Read
<1>7. AllowedWeights'
  BY <1>1 DEF IInv, AllowedWeights, Read
<1>8. RowsCurrent'
  BY <1>1 DEF IInv, RowsCurrent, Read, ActiveSides, Due, PairOf
<1> QED
  BY <1>4, <1>5, <1>6, <1>7, <1>8 DEF IInv

(* Which pairs a batch links, put the other way round.                     *)
LEMMA PairsDue ==
    ASSUME TypeOK, NEW s \in ActiveSides, NEW u \in NodeID, NEW v \in NodeID,
           NEW k \in Iterations
    PROVE  PairOf(s, u, v) \in Pairs(batch[k]) <=>
              \E h \in Halves : SideOf(h) = s /\ OwnOf(k, h) = u /\ OtherOf(k, h) = v
<1>1. directed \in BOOLEAN
  BY DEF TypeOK
<1>2. (\E h \in Halves : SideOf(h) = s /\ OwnOf(k, h) = u /\ OtherOf(k, h) = v)
      <=> \/ s = "out" /\ batch[k].source = u /\ batch[k].destination = v
          \/ s = (IF directed THEN "in" ELSE "out")
             /\ batch[k].destination = u /\ batch[k].source = v
  BY <1>1 DEF Halves, SideOf, OwnOf, OtherOf
<1>3. CASE directed
  BY <1>2, <1>3 DEF PairOf, Pairs, ActiveSides, Sides
<1>4. CASE ~directed
  BY <1>2, <1>4 DEF PairOf, Pairs, ActiveSides, Sides
<1> QED
  BY <1>1, <1>3, <1>4

LEMMA StartUpdateStep ==
    ASSUME IInv, StartUpdate
    PROVE  IInv'
<1>1. /\ TypeOK /\ ~updating /\ updating' = TRUE /\ batch' = batch
      /\ Iterations' = Iterations
      /\ UNCHANGED <<directed, neighbors, mutex, affected, num_nodes, num_edges, known, submitted>>
      /\ pc' = [k \in Iterations |-> <<"source", "meta">>]
      /\ slot' = [k \in Iterations |-> 0]
  BY DEF IInv, StartUpdate, counters, Iterations
<1>2. /\ allowed' \in [NodeID \X NodeID -> SUBSET Weights]
      /\ \A p \in NodeID \X NodeID :
            allowed'[p] = IF BatchWeights(p) # {} THEN BatchWeights(p) ELSE allowed[p]
  <2>1. \A p \in NodeID \X NodeID : BatchWeights(p) \in SUBSET Weights
    BY <1>1, BatchTyped DEF BatchWeights
  <2>2. allowed \in [NodeID \X NodeID -> SUBSET Weights]
    BY <1>1 DEF TypeOK
  <2> QED
    BY <2>1, <2>2 DEF StartUpdate
<1>3. TypeOK'
  <2>1. <<"source", "meta">> \in Halves \X ControlPoints
    BY DEF Halves, ControlPoints
  <2>2. /\ pc' \in [Iterations' -> Halves \X ControlPoints]
        /\ slot' \in [Iterations' -> Nat]
    BY <1>1, <2>1
  <2> QED
    BY <1>1, <1>2, <2>2 DEF TypeOK
<1>4. \A k \in Iterations, h \in Halves : ~Counted(k, h) /\ ~Counted(k, h)' /\ ~Written(k, h)'
  BY <1>1 DEF Counted, Written, Past, Halves
<1>5. Counting'
  <2>1. Uncounted' = Uncounted
    BY <1>1, <1>4 DEF Uncounted, Half
  <2>2. NewUncounted' = NewUncounted
    BY <1>1, <2>1 DEF NewUncounted, ExistsOf
  <2>3. {OwnOf(x[1], x[2]) : x \in Half \ Uncounted} = {}
        /\ {OwnOf(x[1], x[2])' : x \in Half' \ Uncounted'} = {}
    BY <1>1, <1>4, <2>1 DEF Half, Uncounted
  <2> QED
    BY <1>1, <2>1, <2>2, <2>3 DEF IInv, Counting
<1>6. Locking' /\ Searched' /\ NoDuplicateNeighbors'
  BY <1>1 DEF IInv, Locking, InRow, Searched, NoDuplicateNeighbors
<1>7. AllowedWeights'
  <2>1. \A u, v \in NodeID : <<u, v>> \in NodeID \X NodeID /\ <<v, u>> \in NodeID \X NodeID
    OBVIOUS
  <2>2. ~directed => \A u, v \in NodeID : BatchWeights(<<u, v>>) = BatchWeights(<<v, u>>)
    <3> SUFFICES ASSUME ~directed, NEW u \in NodeID, NEW v \in NodeID
                 PROVE  BatchWeights(<<u, v>>) = BatchWeights(<<v, u>>)
      OBVIOUS
    <3>1. \A j \in Iterations : <<u, v>> \in Pairs(batch[j]) <=> <<v, u>> \in Pairs(batch[j])
      BY DEF Pairs
    <3> QED
      BY <3>1 DEF BatchWeights
  <2>3. ~directed' => \A u, v \in NodeID : allowed'[<<u, v>>] = allowed'[<<v, u>>]
    BY <1>1, <1>2, <2>1, <2>2 DEF IInv, AllowedWeights
  <2>4. ASSUME NEW k \in Iterations, NEW p \in Pairs(batch[k])
        PROVE  batch[k].weight \in allowed'[p]
    <3>1. p \in NodeID \X NodeID
      BY <1>1, BatchTyped DEF Edge, Pairs
    <3>2. batch[k].weight \in BatchWeights(p)
      BY <2>4 DEF BatchWeights
    <3> QED
      BY <1>2, <3>1, <3>2
  <2> QED
    BY <1>1, <2>3, <2>4 DEF AllowedWeights, Pairs
<1>8. RowsCurrent'
  <2> SUFFICES ASSUME NEW s \in ActiveSides, NEW u \in NodeID
               PROVE  /\ \A nb \in Content(neighbors[s][u]) :
                            nb.weight \in allowed'[PairOf(s, u, nb.node)] \/ Due(s, u, nb.node)'
                      /\ \A v \in NodeID : allowed'[PairOf(s, u, v)] # {} =>
                            Holds(neighbors[s][u], v) \/ Due(s, u, v)'
    BY <1>1 DEF RowsCurrent, ActiveSides, PairOf
  <2>1. \A v \in NodeID : PairOf(s, u, v) \in NodeID \X NodeID
    BY DEF PairOf
  <2>2. ASSUME NEW v \in NodeID, BatchWeights(PairOf(s, u, v)) # {}
        PROVE  Due(s, u, v)'
    <3>1. PICK k \in Iterations : PairOf(s, u, v) \in Pairs(batch[k])
      BY <2>2 DEF BatchWeights
    <3>2. PICK h \in Halves : SideOf(h) = s /\ OwnOf(k, h) = u /\ OtherOf(k, h) = v
      BY <1>1, <3>1, PairsDue
    <3>3. k \in Iterations' /\ SideOf(h)' = s /\ OwnOf(k, h)' = u /\ OtherOf(k, h)' = v
      BY <1>1, <3>2 DEF SideOf, OwnOf, OtherOf
    <3> QED
      BY <1>1, <1>4, <3>3 DEF Due
  <2>3. \A nb \in Content(neighbors[s][u]) : nb.node \in NodeID
    <3>1. neighbors[s][u] \in Seq(Neighbor)
      BY <1>1, BatchTyped DEF TypeOK
    <3> QED
      BY <3>1, ContentTyped
  <2>4. /\ \A nb \in Content(neighbors[s][u]) : nb.weight \in allowed[PairOf(s, u, nb.node)]
        /\ \A v \in NodeID : allowed[PairOf(s, u, v)] # {} => Holds(neighbors[s][u], v)
    BY <1>1 DEF IInv, RowsCurrent, Due
  <2> QED
    BY <1>2, <2>1, <2>2, <2>3, <2>4
<1> QED
  BY <1>3, <1>5, <1>6, <1>7, <1>8 DEF IInv

(* At the barrier every half has been counted and written.                 *)
LEMMA AtBarrier ==
    ASSUME TypeOK, updating, AllDone
    PROVE  /\ Uncounted = {} /\ NewUncounted = {}
           /\ \A s \in Sides, u, v \in NodeID : ~Due(s, u, v)
<1>1. \A k \in Iterations, h \in Halves : Counted(k, h) /\ Written(k, h)
  BY DEF AllDone, Counted, Written, Past, Halves
<1> QED
  BY <1>1 DEF Uncounted, NewUncounted, Half, Due

LEMMA EndUpdateStep ==
    ASSUME IInv, EndUpdate
    PROVE  IInv'
<1>1. /\ TypeOK /\ updating /\ AllDone /\ updating' = FALSE /\ affected' = {}
      /\ batch' = <<>> /\ pc' = <<>> /\ slot' = <<>> /\ Iterations' = {}
      /\ UNCHANGED <<directed, neighbors, mutex, num_nodes, num_edges, known, submitted, allowed>>
  BY DEF IInv, EndUpdate, Iterations
<1>2. TypeOK'
  <2>1. batch' \in Seq(Edge) /\ Len(batch') = 0 /\ 0 <= BatchSize
    BY <1>1, BoundsAssumption, EmptySeq
  <2> QED
    BY <1>1, <2>1 DEF TypeOK
<1>3. Counting'
  <2>1. Half' = {} /\ Uncounted' = {} /\ NewUncounted' = {}
    BY <1>1 DEF Half, Uncounted, NewUncounted
  <2>2. Cardinality({}) = 0 /\ Uncounted = {} /\ NewUncounted = {}
    BY <1>1, AtBarrier, FS_EmptySet
  <2> QED
    BY <1>1, <2>1, <2>2 DEF IInv, Counting
<1>4. Locking' /\ Searched' /\ NoDuplicateNeighbors' /\ AllowedWeights'
  BY <1>1 DEF IInv, Locking, Searched, NoDuplicateNeighbors, AllowedWeights
<1>5. RowsCurrent'
  <2> SUFFICES ASSUME NEW s \in ActiveSides, NEW u \in NodeID
               PROVE  /\ \A nb \in Content(neighbors[s][u]) :
                            nb.weight \in allowed[PairOf(s, u, nb.node)]
                      /\ \A v \in NodeID :
                            allowed[PairOf(s, u, v)] # {} => Holds(neighbors[s][u], v)
    BY <1>1 DEF RowsCurrent, ActiveSides, PairOf
  <2>1. \A v \in NodeID : ~Due(s, u, v)
    BY <1>1, AtBarrier, BatchTyped
  <2>2. \A nb \in Content(neighbors[s][u]) : nb.node \in NodeID
    <3>1. neighbors[s][u] \in Seq(Neighbor)
      BY <1>1, BatchTyped DEF TypeOK
    <3> QED
      BY <3>1, ContentTyped
  <2> QED
    BY <2>1, <2>2 DEF IInv, RowsCurrent
<1> QED
  BY <1>2, <1>3, <1>4, <1>5 DEF IInv

-----------------------------------------------------------------------------
(* A step of an iteration inside its half changes only its control point.  *)
LEMMA GotoPoint ==
    ASSUME TypeOK, updating, NEW k \in Iterations, NEW point \in ControlPoints,
           Goto(k, point), UNCHANGED input
    PROVE  /\ pc' \in [Iterations -> Halves \X ControlPoints]
           /\ pc'[k] = <<pc[k][1], point>> /\ pc'[k][1] = pc[k][1] /\ pc'[k][2] = point
           /\ \A j \in Iterations : j # k => pc'[j] = pc[j]
           /\ \A j \in Iterations : /\ Side(j)' = Side(j) /\ Own(j)' = Own(j)
                                    /\ Other(j)' = Other(j)
           /\ UNCHANGED <<directed, batch, updating, known, submitted, allowed>>
           /\ Iterations' = Iterations /\ Half' = Half /\ ActiveSides' = ActiveSides
<1>1. pc \in [Iterations -> Halves \X ControlPoints]
  BY AtWork
<1>2. /\ UNCHANGED <<directed, batch, updating, known, submitted, allowed>>
      /\ Iterations' = Iterations /\ Half' = Half /\ ActiveSides' = ActiveSides
  BY DEF input, Iterations, Half, ActiveSides
<1>3. pc' = [pc EXCEPT ![k][2] = point]
  BY DEF Goto
<1>4. pc' \in [Iterations -> Halves \X ControlPoints]
  BY <1>1, <1>3
<1>5. pc'[k] = <<pc[k][1], point>>
  BY <1>1, <1>3
<1>6. /\ pc'[k][1] = pc[k][1] /\ pc'[k][2] = point
      /\ \A j \in Iterations : j # k => pc'[j] = pc[j]
  BY <1>1, <1>3, <1>5
<1>7. \A j \in Iterations : pc'[j][1] = pc[j][1]
  BY <1>6
<1>8. \A j \in Iterations : Side(j)' = Side(j) /\ Own(j)' = Own(j) /\ Other(j)' = Other(j)
  BY <1>2, <1>7 DEF Side, Own, Other, FromSource
<1> QED
  BY <1>2, <1>4, <1>5, <1>6, <1>8

(* It leaves the counting as it was if it does not count, and what is due. *)
LEMMA SameHalves ==
    ASSUME UNCHANGED <<directed, batch, updating>>,
           \A j \in Iterations, h \in Halves : Counted(j, h)' = Counted(j, h)
    PROVE  /\ Uncounted' = Uncounted /\ NewUncounted' = NewUncounted
           /\ {OwnOf(x[1], x[2])' : x \in Half' \ Uncounted'}
                 = {OwnOf(x[1], x[2]) : x \in Half \ Uncounted}
<1>1. Half' = Half
  BY DEF Half, Iterations
<1>2. Uncounted' = Uncounted
  BY <1>1 DEF Uncounted, Half
<1>3. NewUncounted' = NewUncounted
  BY <1>2 DEF NewUncounted, ExistsOf
<1> QED
  BY <1>1, <1>2, <1>3 DEF OwnOf

LEMMA SameDue ==
    ASSUME UNCHANGED <<directed, batch, updating, neighbors, allowed>>,
           \A j \in Iterations, h \in Halves : Written(j, h)' = Written(j, h),
           RowsCurrent, AllowedWeights
    PROVE  RowsCurrent' /\ AllowedWeights'
<1>1. Iterations' = Iterations /\ ActiveSides' = ActiveSides
  BY DEF Iterations, ActiveSides
<1>2. \A s, u, v : Due(s, u, v)' = Due(s, u, v)
  BY <1>1 DEF Due, SideOf, OwnOf, OtherOf
<1>3. RowsCurrent'
  BY <1>1, <1>2 DEF RowsCurrent, PairOf
<1>4. AllowedWeights'
  BY <1>1 DEF AllowedWeights, Pairs
<1> QED
  BY <1>3, <1>4

LEMMA ProcessMetaDataStep ==
    ASSUME IInv, NEW k \in Iterations, ProcessMetaData(k)
    PROVE  IInv'
<1> DEFINE h == pc[k][1]
           x == <<k, h>>
<1>1. /\ TypeOK /\ updating /\ pc[k][2] = "meta" /\ "lock" \in ControlPoints
      /\ Goto(k, "lock") /\ UNCHANGED input
      /\ UNCHANGED <<neighbors, mutex, slot>>
      /\ affected' = affected \cup {Own(k)}
      /\ num_nodes' = IF Exists(k) THEN num_nodes ELSE num_nodes + 1
      /\ num_edges' = num_edges + 1
  BY DEF IInv, ProcessMetaData, At, ControlPoints
<1>2. PICK g \in Halves : g = h
  BY <1>1, AtWork
<1>3. /\ <<k, g>> \in Half /\ pc[k] = <<g, "meta">> /\ pc'[k] = <<g, "lock">>
      /\ pc' \in [Iterations -> Halves \X ControlPoints]
      /\ pc'[k][1] = g /\ pc'[k][2] = "lock"
      /\ \A j \in Iterations : j # k => pc'[j] = pc[j]
      /\ \A j \in Iterations : Side(j)' = Side(j) /\ Own(j)' = Own(j) /\ Other(j)' = Other(j)
      /\ UNCHANGED <<directed, batch, updating, known, submitted, allowed>>
      /\ Iterations' = Iterations /\ Half' = Half
      /\ Own(k) = OwnOf(k, g) /\ Exists(k) = ExistsOf(k, g) /\ Own(k) \in NodeID
  BY <1>1, <1>2, AtWork, GotoPoint
<1> HIDE DEF h
<1>4. TypeOK'
  <2>1. affected' \subseteq NodeID /\ num_nodes' \in Nat /\ num_edges' \in Nat
    BY <1>1, <1>3 DEF TypeOK
  <2> QED
    BY <1>1, <1>3, <2>1 DEF TypeOK
<1>5. \A j \in Iterations, f \in Halves :
        /\ Written(j, f)' = Written(j, f)
        /\ Counted(j, f)' = (Counted(j, f) \/ <<j, f>> = <<k, g>>)
  BY <1>1, <1>3 DEF Written, Counted, Past, Halves
<1>6. ~Counted(k, g)
  BY <1>3 DEF Counted, Past
<1>7. Counting'
  <2>1. Uncounted' = Uncounted \ {<<k, g>>} /\ <<k, g>> \in Uncounted
    <3>1. \A y \in Half : y = <<y[1], y[2]>> /\ y[1] \in Iterations /\ y[2] \in Halves
      BY DEF Half
    <3>2. \A y \in Half : Counted(y[1], y[2])' <=> (Counted(y[1], y[2]) \/ y = <<k, g>>)
      BY <1>5, <3>1
    <3>3. <<k, g>> \in Uncounted
      BY <1>3, <1>6 DEF Uncounted
    <3>4. Uncounted' = {y \in Half : ~Counted(y[1], y[2])'}
      BY <1>3 DEF Uncounted
    <3> QED
      BY <3>2, <3>3, <3>4 DEF Uncounted
  <2>2. NewUncounted' = NewUncounted \ {<<k, g>>}
        /\ (<<k, g>> \in NewUncounted <=> ~Exists(k))
    BY <1>3, <2>1 DEF NewUncounted, ExistsOf
  <2>3. Cardinality(Uncounted') = Cardinality(Uncounted) - 1
    BY <1>1, <2>1, HalvesFinite, FS_RemoveElement
  <2>4. Cardinality(NewUncounted') = Cardinality(NewUncounted) - (IF Exists(k) THEN 0 ELSE 1)
    <3>1. CASE Exists(k)
      <4>1. NewUncounted' = NewUncounted
        BY <2>2, <3>1
      <4> QED
        BY <1>1, <3>1, <4>1, HalvesFinite
    <3>2. CASE ~Exists(k)
      BY <1>1, <2>2, <3>2, HalvesFinite, FS_RemoveElement
    <3> QED
      BY <3>1, <3>2
  <2>5. affected' = {OwnOf(y[1], y[2])' : y \in Half' \ Uncounted'}
    <3>1. Half' \ Uncounted' = (Half \ Uncounted) \cup {<<k, g>>}
      BY <1>3, <2>1
    <3>2. \A y \in Half : OwnOf(y[1], y[2])' = OwnOf(y[1], y[2])
      BY <1>3 DEF OwnOf
    <3>3. {OwnOf(y[1], y[2])' : y \in Half' \ Uncounted'}
            = {OwnOf(y[1], y[2]) : y \in Half \ Uncounted} \cup {OwnOf(k, g)}
      BY <1>3, <3>1, <3>2
    <3> QED
      BY <1>1, <1>3, <3>3 DEF IInv, Counting
  <2>6. num_edges \in Nat /\ num_nodes \in Nat /\ submitted \in Nat /\ known \in Nat
    BY <1>1, BoundsAssumption, NumNodesAssumption DEF TypeOK
  <2> QED
    <3>1. num_edges' = 2 * submitted - Cardinality(Uncounted')
      BY <1>1, <2>3, <2>6, HalvesFinite DEF IInv, Counting
    <3>2. num_nodes' = known - Cardinality(NewUncounted')
      BY <1>1, <2>4, <2>6, HalvesFinite DEF IInv, Counting
    <3> QED
      BY <1>3, <2>5, <3>1, <3>2 DEF Counting
<1>8. Locking'
  BY <1>1, <1>3 DEF IInv, Locking, InRow
<1>9. Searched' /\ NoDuplicateNeighbors'
  <2>1. \A j \in Iterations : Row(j)' = Row(j)
    BY <1>1, <1>3 DEF Row
  <2> QED
    BY <1>1, <1>3, <2>1 DEF IInv, Searched, NoDuplicateNeighbors
<1>10. RowsCurrent' /\ AllowedWeights'
  BY <1>1, <1>3, <1>5, SameDue DEF IInv
<1> QED
  BY <1>4, <1>7, <1>8, <1>9, <1>10 DEF IInv

LEMMA LockStep ==
    ASSUME IInv, NEW k \in Iterations, Lock(k)
    PROVE  IInv'
<1>1. /\ TypeOK /\ updating /\ pc[k][2] = "lock" /\ "search" \in ControlPoints
      /\ Goto(k, "search") /\ UNCHANGED input
      /\ UNCHANGED <<neighbors, slot, affected, num_nodes, num_edges>>
      /\ mutex[Side(k)][Own(k)] = 0
      /\ mutex' = [mutex EXCEPT ![Side(k)][Own(k)] = k]
  BY DEF IInv, Lock, At, ControlPoints, counters
<1>2. /\ pc' \in [Iterations -> Halves \X ControlPoints]
      /\ pc'[k] = <<pc[k][1], "search">> /\ pc'[k][1] = pc[k][1] /\ pc'[k][2] = "search"
      /\ \A j \in Iterations : j # k => pc'[j] = pc[j]
      /\ \A j \in Iterations : Side(j)' = Side(j) /\ Own(j)' = Own(j) /\ Other(j)' = Other(j)
      /\ UNCHANGED <<directed, batch, updating, known, submitted, allowed>>
      /\ Iterations' = Iterations /\ Half' = Half
  BY <1>1, GotoPoint
<1>3. \A j \in Iterations : Side(j) \in Sides /\ Own(j) \in NodeID /\ j \in Nat \ {0}
  BY <1>1, AtWork, BatchTyped
<1>4. mutex \in [Sides -> [NodeID -> 0 .. BatchSize]] /\ k \in 0 .. BatchSize
  BY <1>1, BatchTyped, BoundsAssumption DEF TypeOK
<1>5. /\ mutex' \in [Sides -> [NodeID -> 0 .. BatchSize]]
      /\ mutex'[Side(k)][Own(k)] = k
      /\ \A s \in Sides, u \in NodeID :
            ~(s = Side(k) /\ u = Own(k)) => mutex'[s][u] = mutex[s][u]
  BY <1>1, <1>3, <1>4
<1>6. TypeOK'
  BY <1>1, <1>2, <1>5 DEF TypeOK
<1>7. \A j \in Iterations, h \in Halves :
        Counted(j, h)' = Counted(j, h) /\ Written(j, h)' = Written(j, h)
  BY <1>1, <1>2 DEF Counted, Written, Past
<1>8. Counting'
  BY <1>1, <1>2, <1>7, SameHalves DEF IInv, Counting
<1>9. Locking'
  <2> SUFFICES ASSUME NEW j \in Iterations, InRow(j)'
               PROVE  mutex'[Side(j)][Own(j)] = j
    BY <1>2 DEF Locking
  <2>1. CASE j = k
    BY <1>5, <2>1
  <2>2. CASE j # k
    <3>1. mutex[Side(j)][Own(j)] = j
      BY <1>1, <1>2, <2>2 DEF IInv, Locking, InRow
    <3> QED
      BY <1>1, <1>3, <1>5, <3>1
  <2> QED
    BY <2>1, <2>2
<1>10. Searched' /\ NoDuplicateNeighbors'
  <2>1. \A j \in Iterations : Row(j)' = Row(j)
    BY <1>1, <1>2 DEF Row
  <2> QED
    BY <1>1, <1>2, <2>1 DEF IInv, Searched, NoDuplicateNeighbors
<1>11. RowsCurrent' /\ AllowedWeights'
  BY <1>1, <1>2, <1>7, SameDue DEF IInv
<1> QED
  BY <1>6, <1>8, <1>9, <1>10, <1>11 DEF IInv

LEMMA SearchStep ==
    ASSUME IInv, NEW k \in Iterations, Search(k)
    PROVE  IInv'
<1>1. /\ TypeOK /\ updating /\ pc[k][2] = "search" /\ "write" \in ControlPoints
      /\ Goto(k, "write") /\ UNCHANGED input
      /\ UNCHANGED <<neighbors, mutex, affected, num_nodes, num_edges>>
  BY DEF IInv, Search, At, ControlPoints, counters
<1>2. /\ pc' \in [Iterations -> Halves \X ControlPoints]
      /\ pc'[k] = <<pc[k][1], "write">> /\ pc'[k][1] = pc[k][1] /\ pc'[k][2] = "write"
      /\ \A j \in Iterations : j # k => pc'[j] = pc[j]
      /\ \A j \in Iterations : Side(j)' = Side(j) /\ Own(j)' = Own(j) /\ Other(j)' = Other(j)
      /\ UNCHANGED <<directed, batch, updating, known, submitted, allowed>>
      /\ Iterations' = Iterations /\ Half' = Half
  BY <1>1, GotoPoint
<1>3. \A j \in Iterations : Row(j)' = Row(j)
  BY <1>1, <1>2 DEF Row
<1>4. slot \in [Iterations -> Nat] /\ Row(k) \in Seq(Neighbor)
      /\ NoDuplicates(Row(k))
  BY <1>1, AtWork DEF IInv, NoDuplicateNeighbors, Row
<1> DEFINE i == IF Holds(Row(k), Other(k))
                THEN CHOOSE m \in DOMAIN Row(k) : FirstAt(Row(k), Other(k), m)
                ELSE 0
<1>5. slot' = [slot EXCEPT ![k] = i]
  BY DEF Search
<1>6. /\ i \in Nat
      /\ i = 0 => ~Holds(Row(k), Other(k))
      /\ i # 0 => i \in DOMAIN Row(k) /\ Row(k)[i].node = Other(k)
  <2>1. CASE ~Holds(Row(k), Other(k))
    BY <1>5, <2>1
  <2>2. CASE Holds(Row(k), Other(k))
    <3>1. \E m \in DOMAIN Row(k) : FirstAt(Row(k), Other(k), m)
      BY <1>4, <2>2, FirstFound
    <3>2. i \in DOMAIN Row(k) /\ FirstAt(Row(k), Other(k), i)
      BY <1>5, <2>2, <3>1
    <3> QED
      BY <1>4, <3>2, LenProperties DEF FirstAt
  <2> QED
    BY <2>1, <2>2
<1> HIDE DEF i
<1>7. /\ slot' \in [Iterations -> Nat] /\ slot'[k] = i
      /\ \A j \in Iterations : j # k => slot'[j] = slot[j]
  BY <1>4, <1>5, <1>6
<1>8. TypeOK'
  BY <1>1, <1>2, <1>7 DEF TypeOK
<1>9. \A j \in Iterations, h \in Halves :
        Counted(j, h)' = Counted(j, h) /\ Written(j, h)' = Written(j, h)
  BY <1>1, <1>2 DEF Counted, Written, Past
<1>10. Counting'
  BY <1>1, <1>2, <1>9, SameHalves DEF IInv, Counting
<1>11. Locking' /\ NoDuplicateNeighbors'
  BY <1>1, <1>2 DEF IInv, Locking, InRow, NoDuplicateNeighbors
<1>12. Searched'
  <2> SUFFICES ASSUME NEW j \in Iterations, pc'[j][2] = "write"
               PROVE  /\ slot'[j] = 0 => ~Holds(Row(j), Other(j))
                      /\ slot'[j] # 0 => slot'[j] \in DOMAIN Row(j) /\ Row(j)[slot'[j]].node = Other(j)
    BY <1>2, <1>3 DEF Searched
  <2>1. CASE j = k
    BY <1>6, <1>7, <2>1
  <2>2. CASE j # k
    BY <1>1, <1>2, <1>7, <2>2 DEF IInv, Searched
  <2> QED
    BY <2>1, <2>2
<1>13. RowsCurrent' /\ AllowedWeights'
  BY <1>1, <1>2, <1>9, SameDue DEF IInv
<1> QED
  BY <1>8, <1>10, <1>11, <1>12, <1>13 DEF IInv

(* The delicate step: the row gets what it was searched for, and nobody    *)
(* else is working on it.                                                  *)
LEMMA WriteStep ==
    ASSUME IInv, NEW k \in Iterations, Write(k)
    PROVE  IInv'
<1>1. PICK g \in Halves, s0 \in ActiveSides, u0 \in NodeID, v0 \in NodeID, w0 \in Weights :
        /\ g = pc[k][1] /\ s0 = Side(k) /\ u0 = Own(k) /\ v0 = Other(k)
        /\ w0 = batch[k].weight
  <2>1. TypeOK /\ updating
    BY DEF IInv, Write, At
  <2> QED
    BY <2>1, AtWork, BatchTyped
<1> DEFINE old == neighbors[s0][u0]
           next == IF g = "source" THEN <<"destination", "meta">>
                                   ELSE <<"destination", "done">>
<1>2. /\ TypeOK /\ updating /\ pc[k] = <<g, "write">> /\ pc[k][2] = "write"
      /\ Row(k) = old /\ old \in Seq(Neighbor) /\ s0 \in Sides
      /\ s0 = SideOf(g) /\ u0 = OwnOf(k, g) /\ v0 = OtherOf(k, g)
      /\ slot \in [Iterations -> Nat] /\ pc \in [Iterations -> Halves \X ControlPoints]
      /\ <<k, g>> \in Half
  <2>1. TypeOK /\ updating /\ pc[k][2] = "write"
    BY DEF IInv, Write, At
  <2> QED
    BY <1>1, <2>1, AtWork DEF Row
<1>3. PICK new : /\ new = IF slot[k] = 0 THEN Append(old, NeighborInfo(v0, w0))
                          ELSE [old EXCEPT ![slot[k]] = NeighborInfo(v0, w0)]
                 /\ neighbors' = [neighbors EXCEPT ![s0][u0] = new]
  BY <1>1 DEF Write
<1>4. /\ new \in Seq(Neighbor) /\ NoDuplicates(new) /\ Holds(new, v0)
      /\ \A m : Holds(old, m) => Holds(new, m)
      /\ \A nb \in Content(new) :
            nb = NeighborInfo(v0, w0) \/ (nb \in Content(old) /\ nb.node # v0)
  <2>1. NoDuplicates(old)
    BY <1>2 DEF IInv, NoDuplicateNeighbors
  <2>2. /\ slot[k] = 0 => ~Holds(old, v0)
        /\ slot[k] # 0 => slot[k] \in DOMAIN old /\ old[slot[k]].node = v0
    BY <1>1, <1>2 DEF IInv, Searched
  <2>3. PICK i \in Nat : i = slot[k]
    BY <1>2
  <2>4. PICK row \in Seq(Neighbor) : row = old
    BY <1>2
  <2>5. new = RowAfter(row, v0, w0, i) /\ SearchEnded(row, v0, i)
    BY <1>3, <2>1, <2>2, <2>3, <2>4 DEF RowAfter, SearchEnded
  <2>6. /\ new \in Seq(Neighbor) /\ NoDuplicates(new) /\ Holds(new, v0)
        /\ \A m : Holds(row, m) => Holds(new, m)
        /\ \A nb \in Content(new) :
              nb = NeighborInfo(v0, w0) \/ (nb \in Content(row) /\ nb.node # v0)
    BY <2>5, RowWritten
  <2> QED
    BY <2>4, <2>6
<1>5. /\ neighbors' \in [Sides -> [NodeID -> Seq(Neighbor)]]
      /\ neighbors'[s0][u0] = new
      /\ \A s \in Sides, u \in NodeID :
            ~(s = s0 /\ u = u0) => neighbors'[s][u] = neighbors[s][u]
  <2>1. neighbors \in [Sides -> [NodeID -> Seq(Neighbor)]]
    BY <1>2 DEF TypeOK
  <2> QED
    BY <1>2, <1>3, <1>4, <2>1
<1>6. /\ mutex \in [Sides -> [NodeID -> 0 .. BatchSize]]
      /\ mutex' \in [Sides -> [NodeID -> 0 .. BatchSize]]
      /\ \A s \in Sides, u \in NodeID :
            ~(s = s0 /\ u = u0) => mutex'[s][u] = mutex[s][u]
  <2>1. mutex \in [Sides -> [NodeID -> 0 .. BatchSize]] /\ 0 \in 0 .. BatchSize
    BY <1>2, BoundsAssumption DEF TypeOK
  <2>2. mutex' = [mutex EXCEPT ![s0][u0] = 0]
    BY <1>1 DEF Write
  <2> QED
    BY <1>2, <2>1, <2>2
<1>7. /\ pc' = [pc EXCEPT ![k] = next] /\ pc' \in [Iterations -> Halves \X ControlPoints]
      /\ pc'[k] = next /\ \A j \in Iterations : j # k => pc'[j] = pc[j]
  <2>1. next \in Halves \X ControlPoints
    BY DEF Halves, ControlPoints
  <2>2. pc' = [pc EXCEPT ![k] = next]
    BY <1>1 DEF Write, FromSource
  <2> QED
    BY <1>2, <2>1, <2>2
<1>8. /\ UNCHANGED <<slot, affected, num_nodes, num_edges, directed, batch, updating,
                     known, submitted, allowed>>
      /\ Iterations' = Iterations /\ ActiveSides' = ActiveSides
      /\ pc'[k][2] \in {"meta", "done"} /\ pc'[k][1] = "destination"
  BY <1>7 DEF Write, counters, input, Iterations, ActiveSides
<1>9. \A j \in Iterations : j # k =>
        /\ pc'[j] = pc[j]
        /\ Side(j)' = Side(j) /\ Own(j)' = Own(j) /\ Other(j)' = Other(j)
        /\ Side(j) \in Sides /\ Own(j) \in NodeID
  BY <1>2, <1>7, <1>8, AtWork DEF Side, Own, Other, FromSource
<1>10. \A j \in Iterations : j # k /\ InRow(j) => ~(Side(j) = s0 /\ Own(j) = u0)
  BY <1>1, <1>2 DEF IInv, Locking, InRow
<1>11. TypeOK'
  BY <1>2, <1>5, <1>6, <1>7, <1>8 DEF TypeOK
<1>12. \A j \in Iterations, h \in Halves :
        /\ Counted(j, h)' = Counted(j, h)
        /\ Written(j, h)' = (Written(j, h) \/ (j = k /\ h = g))
  BY <1>2, <1>7, <1>8 DEF Counted, Written, Past, Halves
<1>13. Counting'
  BY <1>8, <1>12, SameHalves DEF IInv, Counting
<1>14. Locking'
  <2> SUFFICES ASSUME NEW j \in Iterations, InRow(j)'
               PROVE  mutex'[Side(j)'][Own(j)'] = j
    BY <1>8 DEF Locking
  <2>1. j # k
    BY <1>8 DEF InRow
  <2>2. /\ InRow(j) /\ Side(j)' = Side(j) /\ Own(j)' = Own(j)
        /\ Side(j) \in Sides /\ Own(j) \in NodeID
    BY <1>9, <2>1 DEF InRow
  <2>3. mutex[Side(j)][Own(j)] = j
    BY <1>2, <2>2 DEF IInv, Locking
  <2>4. ~(Side(j) = s0 /\ Own(j) = u0)
    BY <1>10, <2>1, <2>2
  <2>5. mutex'[Side(j)][Own(j)] = mutex[Side(j)][Own(j)]
    BY <1>6, <2>2, <2>4
  <2> QED
    BY <2>2, <2>3, <2>5
<1>15. Searched'
  <2> SUFFICES ASSUME NEW j \in Iterations, pc'[j][2] = "write"
               PROVE  /\ slot[j] = 0 => ~Holds(Row(j), Other(j))'
                      /\ slot[j] # 0 => slot[j] \in DOMAIN Row(j)' /\ Row(j)'[slot[j]].node = Other(j)'
    BY <1>8 DEF Searched
  <2>1. j # k
    BY <1>8
  <2>2. pc[j][2] = "write" /\ InRow(j)
    BY <1>9, <2>1 DEF InRow
  <2>3. Row(j)' = Row(j) /\ Other(j)' = Other(j)
    <3>1. /\ Side(j)' = Side(j) /\ Own(j)' = Own(j) /\ Other(j)' = Other(j)
          /\ Side(j) \in Sides /\ Own(j) \in NodeID
      BY <1>9, <2>1
    <3>2. ~(Side(j) = s0 /\ Own(j) = u0)
      BY <1>10, <2>1, <2>2
    <3>3. neighbors'[Side(j)][Own(j)] = neighbors[Side(j)][Own(j)]
      BY <1>5, <3>1, <3>2
    <3> QED
      BY <3>1, <3>3 DEF Row
  <2>4. Holds(Row(j), Other(j))' <=> Holds(Row(j), Other(j))
    BY <2>3 DEF Holds
  <2> QED
    BY <1>2, <2>2, <2>3, <2>4 DEF IInv, Searched
<1>16. NoDuplicateNeighbors'
  BY <1>4, <1>5 DEF IInv, NoDuplicateNeighbors
<1>17. AllowedWeights'
  BY <1>8 DEF IInv, AllowedWeights, Pairs
<1>18. RowsCurrent'
  <2>1. PairOf(s0, u0, v0) \in Pairs(batch[k])
    BY <1>2, PairsDue
  <2>2. w0 \in allowed[PairOf(s0, u0, v0)]
    BY <1>1, <1>2, <2>1 DEF IInv, AllowedWeights
  <2>3. ASSUME NEW s \in ActiveSides, NEW u \in NodeID, NEW v \in NodeID, Due(s, u, v)
        PROVE  Due(s, u, v)' \/ (s = s0 /\ u = u0 /\ v = v0)
    <3>1. PICK j \in Iterations, h \in Halves :
            ~Written(j, h) /\ SideOf(h) = s /\ OwnOf(j, h) = u /\ OtherOf(j, h) = v
      BY <2>3 DEF Due
    <3>2. CASE j = k /\ h = g
      BY <1>2, <3>1, <3>2
    <3>3. CASE ~(j = k /\ h = g)
      <4>1. ~Written(j, h)' /\ SideOf(h)' = s /\ OwnOf(j, h)' = u /\ OtherOf(j, h)' = v
        BY <1>8, <1>12, <3>1, <3>3 DEF SideOf, OwnOf, OtherOf
      <4> QED
        BY <1>2, <1>8, <4>1 DEF Due
    <3> QED
      BY <3>2, <3>3
  <2> SUFFICES ASSUME NEW s \in ActiveSides, NEW u \in NodeID
               PROVE  /\ \A nb \in Content(neighbors'[s][u]) :
                            nb.weight \in allowed[PairOf(s, u, nb.node)] \/ Due(s, u, nb.node)'
                      /\ \A v \in NodeID : allowed[PairOf(s, u, v)] # {} =>
                            Holds(neighbors'[s][u], v) \/ Due(s, u, v)'
    BY <1>8 DEF RowsCurrent, PairOf
  <2>4. s \in Sides
    BY <1>2, BatchTyped
  <2>5. /\ \A nb \in Content(neighbors[s][u]) :
            /\ nb.node \in NodeID
            /\ nb.weight \in allowed[PairOf(s, u, nb.node)] \/ Due(s, u, nb.node)
        /\ \A v \in NodeID :
            allowed[PairOf(s, u, v)] # {} => Holds(neighbors[s][u], v) \/ Due(s, u, v)
    <3>1. neighbors[s][u] \in Seq(Neighbor)
      BY <1>2, <2>4 DEF TypeOK
    <3> QED
      BY <3>1, ContentTyped DEF IInv, RowsCurrent
  <2>6. CASE s = s0 /\ u = u0
    <3>1. ASSUME NEW nb \in Content(new)
          PROVE  nb.weight \in allowed[PairOf(s, u, nb.node)] \/ Due(s, u, nb.node)'
      <4>1. CASE nb = NeighborInfo(v0, w0)
        BY <2>2, <2>6, <4>1 DEF NeighborInfo
      <4>2. CASE nb \in Content(old) /\ nb.node # v0
        BY <2>3, <2>5, <2>6, <4>2
      <4> QED
        BY <1>4, <4>1, <4>2
    <3>2. ASSUME NEW v \in NodeID, allowed[PairOf(s, u, v)] # {}
          PROVE  Holds(new, v) \/ Due(s, u, v)'
      BY <1>4, <2>3, <2>5, <2>6, <3>2
    <3> QED
      BY <1>5, <2>6, <3>1, <3>2
  <2>7. CASE ~(s = s0 /\ u = u0)
    <3>1. neighbors'[s][u] = neighbors[s][u]
      BY <1>5, <2>4, <2>7
    <3> QED
      BY <2>3, <2>5, <2>7, <3>1
  <2> QED
    BY <2>6, <2>7
<1> QED
  BY <1>11, <1>13, <1>14, <1>15, <1>16, <1>17, <1>18 DEF IInv

-----------------------------------------------------------------------------
LEMMA Stuttering == ASSUME IInv, UNCHANGED vars PROVE IInv'
<1> USE DEF vars
<1>1. /\ UNCHANGED <<directed, neighbors, mutex, batch, updating, pc, slot, affected,
                     num_nodes, num_edges, known, submitted, allowed>>
      /\ Iterations' = Iterations /\ ActiveSides' = ActiveSides
  BY DEF Iterations, ActiveSides
<1>2. \A j \in Iterations, h \in Halves :
        Counted(j, h)' = Counted(j, h) /\ Written(j, h)' = Written(j, h)
  BY DEF Counted, Written, Past
<1>3. TypeOK' /\ NoDuplicateNeighbors'
  BY <1>1 DEF IInv, TypeOK, NoDuplicateNeighbors
<1>4. Counting'
  BY <1>1, <1>2, SameHalves DEF IInv, Counting
<1>5. \A j \in Iterations : /\ Side(j)' = Side(j) /\ Own(j)' = Own(j)
                            /\ Other(j)' = Other(j) /\ Row(j)' = Row(j)
  BY <1>1 DEF Side, Own, Other, Row, FromSource
<1>6. Locking' /\ Searched'
  BY <1>1, <1>5 DEF IInv, Locking, Searched, InRow
<1>7. RowsCurrent' /\ AllowedWeights'
  BY <1>1, <1>2, SameDue DEF IInv
<1> QED
  BY <1>3, <1>4, <1>6, <1>7 DEF IInv

(* The invariant is inductive: what is not in the rows or in the counters  *)
(* yet is due to some half of an iteration that has still to come to it.   *)
THEOREM InductiveInvariant == Spec => []IInv
<1>1. Init => IInv
  BY Initially
<1>2. IInv /\ [Next]_vars => IInv'
  <2> SUFFICES ASSUME IInv, [Next]_vars PROVE IInv'
    OBVIOUS
  <2>1. CASE \E e \in Submittable(known) : Read(e)
    BY <2>1, ReadStep
  <2>2. CASE StartUpdate \/ EndUpdate
    BY <2>2, StartUpdateStep, EndUpdateStep
  <2>3. CASE \E k \in Iterations : Iteration(k)
    BY <2>3, ProcessMetaDataStep, LockStep, SearchStep, WriteStep DEF Iteration
  <2>4. CASE UNCHANGED vars
    BY <2>4, Stuttering
  <2> QED
    BY <2>1, <2>2, <2>3, <2>4 DEF Next, Finished
<1> QED
  BY <1>1, <1>2, PTL DEF Spec

(* The rows keep their types, every mutex names its holder, and no counter *)
(* goes below zero.                                                        *)
THEOREM TypeCorrect == Spec => []TypeOK
<1>1. IInv => TypeOK
  BY DEF IInv
<1> QED
  BY <1>1, InductiveInvariant, PTL

(* No two iterations that race for a row leave a neighbour in it twice.    *)
THEOREM RowsDistinct == Spec => []NoDuplicateNeighbors
<1>1. IInv => NoDuplicateNeighbors
  BY DEF IInv
<1> QED
  BY <1>1, InductiveInvariant, PTL

(* At the end of a parallel loop the counters and marks are those that the *)
(* same edges would have left one by one.                                  *)
THEOREM CountersExact == Spec => []MetaDataExact
<1>1. IInv => MetaDataExact
  <2> SUFFICES ASSUME IInv, updating, AllDone
               PROVE  /\ num_nodes = known /\ num_edges = 2 * submitted
                      /\ affected = UNION {{batch[k].source, batch[k].destination} : k \in Iterations}
    BY DEF MetaDataExact
  <2>1. TypeOK /\ Uncounted = {} /\ NewUncounted = {}
    BY AtBarrier DEF IInv
  <2>2. num_nodes = known /\ num_edges = 2 * submitted
    BY <2>1, FS_EmptySet, BoundsAssumption, NumNodesAssumption DEF IInv, Counting, TypeOK
  <2>3. affected = {OwnOf(x[1], x[2]) : x \in Half}
    BY <2>1 DEF IInv, Counting
  <2>4. \A k \in Iterations : OwnOf(k, "source") = batch[k].source
                              /\ OwnOf(k, "destination") = batch[k].destination
    BY DEF OwnOf
  <2>5. \A k \in Iterations, h \in Halves : <<k, h>> \in Half
    BY DEF Half
  <2>6. affected \subseteq UNION {{batch[k].source, batch[k].destination} : k \in Iterations}
    BY <2>3 DEF OwnOf, Half
  <2>7. \A k \in Iterations : batch[k].source \in affected /\ batch[k].destination \in affected
    <3> SUFFICES ASSUME NEW k \in Iterations
                 PROVE  batch[k].source \in affected /\ batch[k].destination \in affected
      OBVIOUS
    <3>1. <<k, "source">> \in Half /\ <<k, "destination">> \in Half
      BY <2>5 DEF Halves
    <3> QED
      BY <2>3, <2>4, <3>1
  <2> QED
    BY <2>2, <2>6, <2>7
<1> QED
  BY <1>1, InductiveInvariant, PTL

(* After every batch both sides of the structure hold exactly the pairs    *)
(* submitted, each with a weight that its last batch gave it.              *)
THEOREM EdgesKept == Spec => []NoEdgeLost
<1>1. IInv => NoEdgeLost
  <2> SUFFICES ASSUME IInv, ~updating, NEW u \in NodeID, NEW v \in NodeID
               PROVE  LET fwd == neighbors["out"][u]
                          bwd == neighbors[IF directed THEN "in" ELSE "out"][v]
                          ws == allowed[<<u, v>>]
                      IN  /\ \A nb \in Content(fwd) : nb.node = v => nb.weight \in ws
                          /\ \A nb \in Content(bwd) : nb.node = u => nb.weight \in ws
                          /\ ws # {} => Holds(fwd, v) /\ Holds(bwd, u)
    BY DEF NoEdgeLost
  <2>1. \A s \in ActiveSides, x \in NodeID :
            /\ \A nb \in Content(neighbors[s][x]) : nb.weight \in allowed[PairOf(s, x, nb.node)]
            /\ \A y \in NodeID : allowed[PairOf(s, x, y)] # {} => Holds(neighbors[s][x], y)
    BY DEF IInv, RowsCurrent, Due
  <2>2. PairOf("out", u, v) = <<u, v>> /\ "out" \in ActiveSides
    BY DEF PairOf, ActiveSides, Sides
  <2>3. CASE directed
    <3>1. PairOf("in", v, u) = <<u, v>> /\ "in" \in ActiveSides
      BY <2>3 DEF PairOf, ActiveSides, Sides
    <3> QED
      BY <2>1, <2>2, <2>3, <3>1
  <2>4. CASE ~directed
    <3>1. PairOf("out", v, u) = <<v, u>> /\ allowed[<<v, u>>] = allowed[<<u, v>>]
      BY <2>4 DEF PairOf, IInv, AllowedWeights
    <3> QED
      BY <2>1, <2>2, <2>4, <3>1
  <2> QED
    BY <2>3, <2>4
<1> QED
  BY <1>1, InductiveInvariant, PTL
=============================================================================
