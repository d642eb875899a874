------------------------ MODULE AdListChunked_proofs ------------------------
(***************************************************************************)
(* Proofs about AdListChunked: for any number of vertices and partitions   *)
(* no thread leaves its chunk, update() leaves no edge behind, and the     *)
(* partitions with their threads implement the list of adList.h.           *)
(***************************************************************************)
EXTENDS AdListChunked, SequenceTheorems, WellFoundedInduction, TLAPS

-----------------------------------------------------------------------------
(* Induction, edges that are submitted, and rows.                          *)

(* Induction on natural numbers, for a set instead of a predicate.         *)
Less == {p \in Nat \X Nat : p[1] < p[2]}

LEMMA LeastNatural ==
    ASSUME NEW S \in SUBSET Nat, S # {}
    PROVE  \E m \in S : \A n \in S : m <= n
<1>1. IsWellFoundedOn(Less, Nat)
  BY Zenon, NatLessThanWellFounded DEF OpToRel, Less
<1>2. PICK m \in S : \A n \in S : <<n, m>> \notin Less
  BY <1>1, WFMin
<1>3. \A n \in S : n \in Nat /\ m \in Nat /\ ~(n < m)
  BY <1>2 DEF Less
<1> QED
  BY <1>3

LEMMA SetInduction ==
    ASSUME NEW S, 0 \in S, \A n \in Nat : n \in S => n + 1 \in S
    PROVE  Nat \subseteq S
<1> DEFINE T == Nat \ S
<1>1. SUFFICES ASSUME T # {} PROVE FALSE
  OBVIOUS
<1>2. PICK m \in T : \A n \in T : m <= n
  BY <1>1, LeastNatural
<1>3. m # 0 /\ m - 1 \in Nat /\ m = (m - 1) + 1
  OBVIOUS
<1>4. m - 1 \notin T
  BY <1>2, <1>3
<1> QED
  BY <1>3, <1>4

(* An edge that is submitted is an edge, and it uses at most the next IDs. *)
LEMMA SubmittableTyped ==
    ASSUME NEW known \in 0 .. NumNodes, NEW e \in Submittable(known)
    PROVE  /\ e \in Edge
           /\ NewVertices(e) \in 0 .. 2
           /\ known + NewVertices(e) \in 0 .. NumNodes
           /\ e.source <= known /\ (e.sourceExists <=> e.source < known)
           /\ e.destination <= KnownAfter(known, e.source)
           /\ (e.destExists <=> e.destination < KnownAfter(known, e.source))
<1>1. PICK s \in NodeID, d \in NodeID, w \in Weights :
        /\ s <= known /\ d <= KnownAfter(known, s)
        /\ e = EdgeOf(known, s, d, w)
  BY DEF Submittable
<1>2. /\ e = [source |-> s, destination |-> d, weight |-> w,
              sourceExists |-> s < known, destExists |-> d < KnownAfter(known, s)]
      /\ (s < known) \in BOOLEAN /\ (d < KnownAfter(known, s)) \in BOOLEAN
  BY <1>1 DEF EdgeOf
<1>3. e \in Edge
  BY <1>2 DEF Edge
<1>4. /\ e.source = s /\ e.destination = d
      /\ e.sourceExists = (s < known) /\ e.destExists = (d < KnownAfter(known, s))
  BY <1>2
<1>5. NewVertices(e) = (IF s < known THEN 0 ELSE 1)
                          + (IF d < KnownAfter(known, s) THEN 0 ELSE 1)
  BY <1>4 DEF NewVertices
<1>6. /\ NewVertices(e) \in 0 .. 2
      /\ known + NewVertices(e) \in 0 .. NumNodes
  BY <1>1, <1>5, NumNodesAssumption DEF KnownAfter, NodeID
<1> QED
  BY <1>1, <1>3, <1>4, <1>6

LEMMA PutTyped ==
    ASSUME NEW row \in Seq(Neighbor), NEW n \in NodeID, NEW w \in Weights
    PROVE  Put(row, n, w) \in Seq(Neighbor)
<1>1. PICK info \in Neighbor : info = NeighborInfo(n, w)
  BY DEF NeighborInfo, Neighbor
<1>2. ASSUME NEW i PROVE [row EXCEPT ![i] = info] \in Seq(Neighbor)
  <2>1. CASE i \in 1 .. Len(row)
    BY <2>1, ExceptSeq
  <2>2. CASE i \notin 1 .. Len(row)
    <3>1. row \in [1 .. Len(row) -> Neighbor] /\ Len(row) \in Nat
      BY LenProperties
    <3>2. [row EXCEPT ![i] = info] \in [1 .. Len(row) -> Neighbor]
      BY <2>2, <3>1
    <3> QED
      BY <3>1, <3>2, SeqDef
  <2> QED
    BY <2>1, <2>2
<1>3. Append(row, info) \in Seq(Neighbor)
  OBVIOUS
<1> QED
  BY <1>1, <1>2, <1>3 DEF Put

-----------------------------------------------------------------------------
(* The flag and the threads follow the main thread.                        *)
Control ==
    /\ done <=> main \in {"idle", "join"}
    /\ main \in {"loop", "mirror"} => \A p \in Part : pc[p] # "exit"
    /\ main = "idle" => \A p \in Part : pc[p] = "exit"
    /\ main = "mirror" => reverse \in Edge

(* A thread has drained edges exactly while it inserts, and has left       *)
(* nothing queued when it exits.                                           *)
Drained == \A p \in Part :
    /\ pc[p] = "insert" <=> el[p] # <<>>
    /\ pc[p] = "exit" => q[p] = <<>>

(* A mutex is held exactly while its thread looks at the queue.            *)
Mutexes == \A p \in Part : p \in locked <=> pc[p] = "test"

RoutedTo(p, edges) == \A i \in DOMAIN edges : PtHash(edges[i].source) = p[2]
Routed == \A p \in Part : RoutedTo(p, el[p]) /\ RoutedTo(p, q[p])

Known == num_nodes <= NumNodes

IInv == TypeOK /\ Known /\ Control /\ Drained /\ Mutexes /\ Routed

-----------------------------------------------------------------------------
(* The ceiling of a quotient bounds the quotients of what is below.        *)
LEMMA QuotientBound ==
    ASSUME NEW m \in Nat \ {0}, NEW p \in Nat \ {0}, NEW n \in 0 .. m - 1
    PROVE  n \div p \in 0 .. ((m + p - 1) \div p) - 1 /\ n % p \in 0 .. p - 1
<1>1. PICK a \in Int, r \in 0 .. p - 1 : a = n \div p /\ r = n % p /\ n = p * a + r
  OBVIOUS
<1>2. PICK b \in Int, s \in 0 .. p - 1 : b = (m + p - 1) \div p /\ m + p - 1 = p * b + s
  OBVIOUS
<1>3. 0 <= a
  <2>1. ASSUME a <= -1 PROVE FALSE
    <3>1. p * a <= -p
      BY <2>1
    <3> QED
      BY <1>1, <3>1
  <2> QED
    BY <2>1
<1>4. a < b
  <2>1. ASSUME b <= a PROVE FALSE
    <3>1. p * b <= p * a
      BY <2>1
    <3> QED
      BY <1>1, <1>2, <3>1
  <2> QED
    BY <2>1
<1> QED
  BY <1>1, <1>2, <1>3, <1>4

LEMMA Partitions ==
    ASSUME setup \in Setups
    PROVE  /\ directed \in BOOLEAN /\ PerSide \in Nat \ {0}
           /\ \A n \in NodeID :
                /\ PtHash(n) \in 0 .. PerSide - 1
                /\ HashWithinChunk(n) \in LocalIndex
                /\ OutPart(PtHash(n)) \in Part /\ MirrorPart(PtHash(n)) \in Part
                /\ OutPart(PtHash(n))[2] = PtHash(n) /\ MirrorPart(PtHash(n))[2] = PtHash(n)
<1>1. setup[1] \in BOOLEAN /\ setup[2] \in Nat /\ setup[2] >= 2
  BY SetupsAssumption
<1>2. PICK m \in Nat : m = NumPartitions(setup)
  BY <1>1 DEF NumPartitions
<1>3. m >= 2
  BY <1>1, <1>2 DEF NumPartitions
<1>4. directed \in BOOLEAN /\ PerSide \in Nat \ {0}
  BY <1>1, <1>2, <1>3 DEF directed, PerSide
<1>5. ASSUME NEW n \in NodeID
      PROVE  PtHash(n) \in 0 .. PerSide - 1 /\ HashWithinChunk(n) \in LocalIndex
  <2>1. PICK k \in Nat \ {0} : k = PerSide
    BY <1>4
  <2> QED
    BY <2>1, NumNodesAssumption, QuotientBound
       DEF NodeID, PtHash, HashWithinChunk, LocalIndex, RowsPerPartition
<1> QED
  BY <1>4, <1>5 DEF Part, OutPart, MirrorPart

LEMMA RoutedAppend ==
    ASSUME NEW p, NEW edges \in Seq(Edge), RoutedTo(p, edges),
           NEW e \in Edge, PtHash(e.source) = p[2]
    PROVE  Append(edges, e) \in Seq(Edge) /\ RoutedTo(p, Append(edges, e))
<1>1. /\ Append(edges, e) \in Seq(Edge)
      /\ DOMAIN Append(edges, e) = 1 .. Len(edges) + 1 /\ DOMAIN edges = 1 .. Len(edges)
      /\ Len(edges) \in Nat
      /\ \A i \in 1 .. Len(edges) : Append(edges, e)[i] = edges[i]
      /\ Append(edges, e)[Len(edges) + 1] = e
  OBVIOUS
<1>2. PICK new : new = Append(edges, e)
  OBVIOUS
<1>3. ASSUME NEW i \in DOMAIN new PROVE PtHash(new[i].source) = p[2]
  <2>1. i \in 1 .. Len(edges) \/ i = Len(edges) + 1
    BY <1>1, <1>2
  <2> QED
    BY <1>1, <1>2, <2>1 DEF RoutedTo
<1> QED
  BY <1>1, <1>2, <1>3 DEF RoutedTo

LEMMA RoutedTail ==
    ASSUME NEW p, NEW edges \in Seq(Edge), RoutedTo(p, edges), edges # <<>>
    PROVE  /\ Head(edges) \in Edge /\ PtHash(Head(edges).source) = p[2]
           /\ Tail(edges) \in Seq(Edge) /\ RoutedTo(p, Tail(edges))
           /\ Tail(edges) = <<>> <=> Len(edges) = 1
<1>1. /\ Len(edges) \in Nat /\ Len(edges) > 0 /\ DOMAIN edges = 1 .. Len(edges)
      /\ Head(edges) = edges[1] /\ edges[1] \in Edge
  BY LenProperties, EmptySeq
<1>2. PICK new : new = Tail(edges)
  OBVIOUS
<1>3. /\ new \in Seq(Edge) /\ Len(new) = Len(edges) - 1 /\ DOMAIN new = 1 .. Len(edges) - 1
      /\ \A i \in 1 .. Len(edges) - 1 : new[i] = edges[i + 1]
  BY <1>1, <1>2, HeadTailProperties, LenProperties
<1>4. RoutedTo(p, new)
  <2> SUFFICES ASSUME NEW i \in 1 .. Len(edges) - 1 PROVE PtHash(new[i].source) = p[2]
    BY <1>3 DEF RoutedTo
  <2>1. i + 1 \in 1 .. Len(edges) /\ new[i] = edges[i + 1]
    BY <1>1, <1>3
  <2> QED
    BY <1>1, <2>1 DEF RoutedTo
<1>5. new = <<>> <=> Len(edges) = 1
  BY <1>1, <1>3, EmptySeq
<1> QED
  BY <1>1, <1>2, <1>3, <1>4, <1>5 DEF RoutedTo

(* The partitions stay what they are.                                      *)
LEMMA SetupFixed ==
    ASSUME UNCHANGED setup
    PROVE  /\ Part' = Part /\ PerSide' = PerSide /\ LocalIndex' = LocalIndex
           /\ directed' = directed
           /\ \A p, edges : RoutedTo(p, edges)' <=> RoutedTo(p, edges)
BY DEF Part, PerSide, directed, OutPart, MirrorPart, LocalIndex, RowsPerPartition, RoutedTo, PtHash

-----------------------------------------------------------------------------
LEMMA Initially == ASSUME Init PROVE IInv
<1>1. <<>> \in Seq(Neighbor) /\ <<>> \in Seq(Edge)
  OBVIOUS
<1>2. TypeOK /\ Known
  BY <1>1, NumNodesAssumption DEF Init, TypeOK, Known, None
<1>3. Control /\ Drained /\ Mutexes
  BY DEF Init, Control, Drained, Mutexes
<1>4. Routed
  BY DEF Init, Routed, RoutedTo
<1> QED
  BY <1>2, <1>3, <1>4 DEF IInv

LEMMA SpawnStep == ASSUME IInv, Spawn PROVE IInv'
<1>1. /\ TypeOK /\ Known /\ Control /\ Drained /\ Mutexes /\ Routed /\ main = "idle" /\ main' = "loop"
      /\ done' = FALSE /\ pc' = [p \in Part |-> "acquire"]
      /\ UNCHANGED <<setup, neighbors, q, el, locked, reverse, affected, num_nodes, num_edges>>
      /\ Part' = Part /\ LocalIndex' = LocalIndex /\ \A p \in Part : pc[p] = "exit"
  BY SetupFixed DEF IInv, Spawn, counters, Control
<1>2. TypeOK' /\ Known'
  BY <1>1 DEF TypeOK, Known
<1>3. Control' /\ Drained' /\ Mutexes'
  BY <1>1 DEF Control, Drained, Mutexes
<1>4. Routed'
  BY <1>1, SetupFixed DEF Routed
<1> QED
  BY <1>2, <1>3, <1>4 DEF IInv

(* Both pushes of an edge go where its row is.                             *)
LEMMA SubmitStep ==
    ASSUME IInv, NEW e \in Submittable(num_nodes), Submit(e)
    PROVE  IInv'
<1>1. num_nodes \in 0 .. NumNodes
  BY NumNodesAssumption DEF IInv, TypeOK, Known
<1>2. e \in Edge /\ NewVertices(e) \in 0 .. 2 /\ e.source \in NodeID /\ e.destination \in NodeID
      /\ num_nodes + NewVertices(e) \in 0 .. NumNodes
  BY <1>1, SubmittableTyped DEF Edge
<1>3. /\ TypeOK /\ Known /\ Control /\ Drained /\ Mutexes /\ Routed /\ main = "loop" /\ main' = "mirror"
      /\ UNCHANGED <<setup, neighbors, el, locked, pc, done>>
      /\ Part' = Part /\ LocalIndex' = LocalIndex
      /\ \A p, edges : RoutedTo(p, edges)' <=> RoutedTo(p, edges)
  BY SetupFixed DEF IInv, Submit
<1>4. PICK d \in Part : d = OutPart(PtHash(e.source)) /\ d[2] = PtHash(e.source)
  BY <1>2, <1>3, Partitions DEF TypeOK
<1>5. /\ d \notin locked /\ q' = [q EXCEPT ![d] = Append(q[d], e)]
      /\ q \in [Part -> Seq(Edge)] /\ RoutedTo(d, q[d])
  BY <1>3, <1>4 DEF Submit, Enqueue, TypeOK, Routed
<1>6. Append(q[d], e) \in Seq(Edge) /\ RoutedTo(d, Append(q[d], e))
  BY <1>2, <1>4, <1>5, RoutedAppend
<1>7. reverse' \in Edge
  BY <1>2 DEF Submit, ReverseOf, Edge
<1>8. TypeOK' /\ Known'
  <2>1. /\ num_nodes' \in Nat /\ num_nodes' <= NumNodes /\ num_edges' \in Nat
        /\ affected' \in [NodeID -> BOOLEAN]
    <3>1. /\ num_nodes \in Nat /\ num_edges \in Nat /\ affected \in [NodeID -> BOOLEAN]
          /\ num_edges' = num_edges + 2 /\ num_nodes' = num_nodes + NewVertices(e)
          /\ affected' = [affected EXCEPT ![e.source] = TRUE, ![e.destination] = TRUE]
      BY <1>3 DEF Submit, TypeOK
    <3>2. num_nodes' \in Nat /\ num_nodes' <= NumNodes /\ num_edges' \in Nat
      BY <1>2, <3>1, NumNodesAssumption
    <3> QED
      BY <3>1, <3>2
  <2>2. q' \in [Part -> Seq(Edge)]
    BY <1>5, <1>6
  <2> QED
    BY <1>3, <1>7, <2>1, <2>2 DEF TypeOK, Known
<1>9. Control' /\ Mutexes'
  BY <1>3, <1>7 DEF Control, Mutexes
<1>10. Drained'
  BY <1>3, <1>5 DEF Drained, Control
<1>11. Routed'
  BY <1>3, <1>5, <1>6 DEF Routed
<1> QED
  BY <1>8, <1>9, <1>10, <1>11 DEF IInv

LEMMA MirrorStep == ASSUME IInv, Mirror PROVE IInv'
<1>1. /\ TypeOK /\ Known /\ Control /\ Drained /\ Mutexes /\ Routed /\ main = "mirror" /\ main' = "loop"
      /\ UNCHANGED <<setup, neighbors, el, locked, pc, done, affected, num_nodes, num_edges>>
      /\ Part' = Part /\ LocalIndex' = LocalIndex /\ reverse' = None
      /\ \A p, edges : RoutedTo(p, edges)' <=> RoutedTo(p, edges)
  BY SetupFixed DEF IInv, Mirror, counters
<1>2. reverse \in Edge /\ reverse.source \in NodeID
  BY <1>1 DEF Control, Edge
<1>3. PICK d \in Part : d = MirrorPart(PtHash(reverse.source)) /\ d[2] = PtHash(reverse.source)
  BY <1>1, <1>2, Partitions DEF TypeOK
<1>4. /\ d \notin locked /\ q' = [q EXCEPT ![d] = Append(q[d], reverse)]
      /\ q \in [Part -> Seq(Edge)] /\ RoutedTo(d, q[d])
  BY <1>1, <1>3 DEF Mirror, Enqueue, TypeOK, Routed
<1>5. Append(q[d], reverse) \in Seq(Edge) /\ RoutedTo(d, Append(q[d], reverse))
  BY <1>2, <1>3, <1>4, RoutedAppend
<1>6. TypeOK' /\ Known'
  <2>1. q' \in [Part -> Seq(Edge)]
    BY <1>4, <1>5
  <2> QED
    BY <1>1, <2>1 DEF TypeOK, Known
<1>7. Control' /\ Mutexes'
  BY <1>1 DEF Control, Mutexes
<1>8. Drained'
  BY <1>1, <1>4 DEF Drained, Control
<1>9. Routed'
  BY <1>1, <1>4, <1>5 DEF Routed
<1> QED
  BY <1>6, <1>7, <1>8, <1>9 DEF IInv

LEMMA FinishJoinClearStep ==
    ASSUME IInv, Finish \/ Join \/ ClearAffected
    PROVE  IInv'
<1>1. /\ TypeOK /\ Known /\ Control /\ Drained /\ Mutexes /\ Routed
      /\ UNCHANGED <<setup, neighbors, q, el, locked, pc, reverse, num_nodes, num_edges>>
      /\ Part' = Part /\ LocalIndex' = LocalIndex
      /\ \A p, edges : RoutedTo(p, edges)' <=> RoutedTo(p, edges)
  BY SetupFixed DEF IInv, Finish, Join, ClearAffected, partVars, counters
<1>2. TypeOK' /\ Known'
  BY <1>1 DEF TypeOK, Known, Finish, Join, ClearAffected, counters
<1>3. Control'
  BY <1>1 DEF Control, Finish, Join, ClearAffected
<1>4. Drained' /\ Mutexes' /\ Routed'
  BY <1>1 DEF Drained, Mutexes, Routed
<1> QED
  BY <1>2, <1>3, <1>4 DEF IInv

-----------------------------------------------------------------------------
(* A thread takes or releases its mutex, and no edge moves.                *)
LEMMA PollStep ==
    ASSUME IInv, NEW p \in Part, Acquire(p) \/ Wait(p) \/ Exit(p)
    PROVE  IInv'
<1>1. /\ TypeOK /\ Known /\ Control /\ Drained /\ Mutexes /\ Routed
      /\ UNCHANGED <<setup, neighbors, q, el, done, main, reverse, affected, num_nodes, num_edges>>
      /\ Part' = Part /\ LocalIndex' = LocalIndex
      /\ \A r, edges : RoutedTo(r, edges)' <=> RoutedTo(r, edges)
  BY SetupFixed DEF IInv, Acquire, Wait, Exit, counters
<1>2. PICK next \in {"acquire", "test", "exit"} :
        /\ pc' = [pc EXCEPT ![p] = next]
        /\ locked' = IF next = "test" THEN locked \cup {p} ELSE locked \ {p}
        /\ pc[p] # "insert" /\ pc[p] # "exit"
        /\ next = "exit" => done /\ q[p] = <<>>
  BY DEF Acquire, Wait, Exit, Continues
<1>3. /\ pc \in [Part -> {"acquire", "test", "insert", "exit"}]
      /\ pc' \in [Part -> {"acquire", "test", "insert", "exit"}]
      /\ pc'[p] = next /\ \A r \in Part : r # p => pc'[r] = pc[r]
  BY <1>1, <1>2 DEF TypeOK
<1>4. TypeOK' /\ Known'
  BY <1>1, <1>2, <1>3 DEF TypeOK, Known
<1>5. Control'
  BY <1>1, <1>2, <1>3 DEF Control
<1>6. Drained'
  BY <1>1, <1>2, <1>3 DEF Drained
<1>7. Mutexes' /\ Routed'
  BY <1>1, <1>2, <1>3 DEF Mutexes, Routed
<1> QED
  BY <1>4, <1>5, <1>6, <1>7 DEF IInv

(* The queue moves to the thread's private list.                           *)
LEMMA DrainStep ==
    ASSUME IInv, NEW p \in Part, Drain(p)
    PROVE  IInv'
<1>1. /\ TypeOK /\ Known /\ Control /\ Drained /\ Mutexes /\ Routed
      /\ UNCHANGED <<setup, neighbors, done, main, reverse, affected, num_nodes, num_edges>>
      /\ Part' = Part /\ LocalIndex' = LocalIndex
      /\ \A r, edges : RoutedTo(r, edges)' <=> RoutedTo(r, edges)
  BY SetupFixed DEF IInv, Drain, counters
<1>2. /\ pc[p] = "test" /\ q[p] # <<>> /\ pc' = [pc EXCEPT ![p] = "insert"]
      /\ el' = [el EXCEPT ![p] = q[p]] /\ q' = [q EXCEPT ![p] = <<>>]
      /\ locked' = locked \ {p}
  BY DEF Drain
<1>3. /\ q \in [Part -> Seq(Edge)] /\ el \in [Part -> Seq(Edge)]
      /\ q' \in [Part -> Seq(Edge)] /\ el' \in [Part -> Seq(Edge)]
      /\ pc \in [Part -> {"acquire", "test", "insert", "exit"}]
      /\ pc' \in [Part -> {"acquire", "test", "insert", "exit"}]
      /\ pc'[p] = "insert" /\ el'[p] = q[p] /\ q'[p] = <<>>
      /\ \A r \in Part : r # p => pc'[r] = pc[r] /\ el'[r] = el[r] /\ q'[r] = q[r]
  <2>1. <<>> \in Seq(Edge)
    OBVIOUS
  <2> QED
    BY <1>1, <1>2, <2>1 DEF TypeOK
<1>4. TypeOK' /\ Known'
  BY <1>1, <1>2, <1>3 DEF TypeOK, Known
<1>5. Control' /\ Drained' /\ Mutexes'
  BY <1>1, <1>2, <1>3 DEF Control, Drained, Mutexes
<1>6. Routed'
  <2>1. RoutedTo(p, <<>>)
    BY DEF RoutedTo
  <2> QED
    BY <1>1, <1>3, <2>1 DEF Routed
<1> QED
  BY <1>4, <1>5, <1>6 DEF IInv

(* The next drained edge goes into its row, which is one of the chunk's.   *)
LEMMA InsertStep ==
    ASSUME IInv, NEW p \in Part, Insert(p)
    PROVE  IInv'
<1>1. /\ TypeOK /\ Known /\ Control /\ Drained /\ Mutexes /\ Routed
      /\ UNCHANGED <<setup, q, locked, done, main, reverse, affected, num_nodes, num_edges>>
      /\ Part' = Part /\ LocalIndex' = LocalIndex
      /\ \A r, edges : RoutedTo(r, edges)' <=> RoutedTo(r, edges)
  BY SetupFixed DEF IInv, Insert, counters
<1>2. PICK edges \in Seq(Edge) :
        edges = el[p] /\ edges # <<>> /\ RoutedTo(p, edges) /\ pc[p] = "insert"
  BY <1>1 DEF TypeOK, Drained, Routed, Insert
<1>3. PICK e \in Edge, rest \in Seq(Edge), next \in {"acquire", "insert"} :
        /\ e = Head(edges) /\ rest = Tail(edges) /\ RoutedTo(p, rest)
        /\ next = (IF rest = <<>> THEN "acquire" ELSE "insert")
        /\ el' = [el EXCEPT ![p] = rest] /\ pc' = [pc EXCEPT ![p] = next]
  BY <1>2, RoutedTail DEF Insert
<1>4. neighbors' \in [Part -> [LocalIndex -> Seq(Neighbor)]]
  <2>1. PICK row \in LocalIndex : row = HashWithinChunk(e.source)
    BY <1>1, Partitions DEF TypeOK, Edge
  <2>2. neighbors \in [Part -> [LocalIndex -> Seq(Neighbor)]]
    BY <1>1 DEF TypeOK
  <2>3. neighbors' = [neighbors EXCEPT ![p][row] = Put(@, e.destination, e.weight)]
    BY <1>2, <1>3, <2>1 DEF Insert
  <2>4. Put(neighbors[p][row], e.destination, e.weight) \in Seq(Neighbor)
    <3>1. e.destination \in NodeID /\ e.weight \in Weights
      BY DEF Edge
    <3> QED
      BY <2>2, <3>1, PutTyped
  <2> QED
    BY <2>2, <2>3, <2>4
<1>5. /\ el \in [Part -> Seq(Edge)] /\ el' \in [Part -> Seq(Edge)]
      /\ pc \in [Part -> {"acquire", "test", "insert", "exit"}]
      /\ pc' \in [Part -> {"acquire", "test", "insert", "exit"}]
      /\ pc'[p] = next /\ el'[p] = rest
      /\ \A r \in Part : r # p => pc'[r] = pc[r] /\ el'[r] = el[r]
  BY <1>1, <1>3 DEF TypeOK
<1>6. TypeOK' /\ Known'
  BY <1>1, <1>4, <1>5 DEF TypeOK, Known
<1>7. Control' /\ Drained' /\ Mutexes'
  BY <1>1, <1>2, <1>3, <1>5 DEF Control, Drained, Mutexes
<1>8. Routed'
  BY <1>1, <1>3, <1>5 DEF Routed
<1> QED
  BY <1>6, <1>7, <1>8 DEF IInv

LEMMA Stuttering == ASSUME IInv, UNCHANGED vars PROVE IInv'
<1>1. /\ UNCHANGED <<setup, neighbors, q, el, locked, pc, done, main, reverse,
                     affected, num_nodes, num_edges>>
      /\ Part' = Part /\ LocalIndex' = LocalIndex
      /\ \A r, edges : RoutedTo(r, edges)' <=> RoutedTo(r, edges)
  BY SetupFixed DEF vars
<1>2. TypeOK' /\ Known'
  BY <1>1 DEF IInv, TypeOK, Known
<1>3. Control' /\ Drained' /\ Mutexes' /\ Routed'
  BY <1>1 DEF IInv, Control, Drained, Mutexes, Routed
<1> QED
  BY <1>2, <1>3 DEF IInv

-----------------------------------------------------------------------------
(* The threads follow the flag, and edges are where their rows are.        *)
THEOREM InductiveInvariant == Spec => []IInv
<1>1. IInv /\ [Next]_vars => IInv'
  <2> SUFFICES ASSUME IInv, [Next]_vars PROVE IInv'
    OBVIOUS
  <2>1. CASE Spawn \/ ClearAffected
    BY <2>1, SpawnStep, FinishJoinClearStep
  <2>2. CASE UpdateLoop
    BY <2>2, SubmitStep, MirrorStep, FinishJoinClearStep DEF UpdateLoop, SubmitNext
  <2>3. CASE \E p \in Part : DequeueLoop(p)
    BY <2>3, PollStep, DrainStep, InsertStep DEF DequeueLoop
  <2>4. CASE UNCHANGED vars
    BY <2>4, Stuttering
  <2> QED
    BY <2>1, <2>2, <2>3, <2>4 DEF Next
<1> QED
  BY <1>1, Initially, PTL DEF Spec

(* Every variable keeps its type: rows hold neighbours, queues edges.      *)
THEOREM TypeCorrect == Spec => []TypeOK
<1>1. IInv => TypeOK
  BY DEF IInv
<1> QED
  BY <1>1, InductiveInvariant, PTL

(* Whatever the numbers of vertices and partitions, hash_within_chunk      *)
(* never indexes past the rows that a partition has allocated.             *)
THEOREM ChunksRespected == Spec => []WithinChunk
<1>1. IInv => WithinChunk
  <2> SUFFICES ASSUME IInv, NEW p \in Part, NEW i \in DOMAIN InFlight(p)
               PROVE  /\ PtHash(InFlight(p)[i].source) = p[2]
                      /\ HashWithinChunk(InFlight(p)[i].source) \in LocalIndex
    BY DEF WithinChunk
  <2>1. PICK a \in Seq(Edge), b \in Seq(Edge) :
          a = el[p] /\ b = q[p] /\ RoutedTo(p, a) /\ RoutedTo(p, b)
    BY DEF IInv, TypeOK, Routed
  <2>2. /\ DOMAIN (a \o b) = 1 .. Len(a) + Len(b) /\ Len(a) \in Nat /\ Len(b) \in Nat
        /\ DOMAIN a = 1 .. Len(a) /\ DOMAIN b = 1 .. Len(b)
        /\ \A j \in 1 .. Len(a) + Len(b) :
              (a \o b)[j] = IF j <= Len(a) THEN a[j] ELSE b[j - Len(a)]
    BY ConcatProperties, LenProperties
  <2>3. InFlight(p)[i] \in Edge /\ PtHash(InFlight(p)[i].source) = p[2]
    <3>1. PICK m \in Nat, n \in Nat : m = Len(a) /\ n = Len(b)
      BY <2>2
    <3>2. i \in 1 .. m + n /\ InFlight(p)[i] = IF i <= m THEN a[i] ELSE b[i - m]
      BY <2>1, <2>2, <3>1 DEF InFlight
    <3>3. CASE i <= m
      <4>1. i \in DOMAIN a
        BY <2>2, <3>1, <3>2, <3>3
      <4> QED
        BY <2>1, <3>2, <3>3, <4>1 DEF RoutedTo
    <3>4. CASE ~(i <= m)
      <4>1. i - m \in DOMAIN b
        BY <2>2, <3>1, <3>2, <3>4
      <4> QED
        BY <2>1, <3>2, <3>4, <4>1 DEF RoutedTo
    <3> QED
      BY <3>3, <3>4
  <2> QED
    BY <2>3, Partitions DEF IInv, TypeOK, Edge
<1> QED
  BY <1>1, InductiveInvariant, PTL

(* The flag is believed only together with an empty queue: when update()   *)
(* returns, every edge of the batch is in its rows.                        *)
THEOREM BatchApplied == Spec => []NothingStranded
<1>1. IInv => NothingStranded
  <2> SUFFICES ASSUME IInv, NEW p \in Part, pc[p] = "exit"
               PROVE  InFlight(p) = <<>>
    BY DEF IInv, Control, NothingStranded
  <2>1. el[p] = <<>> /\ q[p] = <<>>
    BY DEF IInv, Drained
  <2> QED
    BY <2>1 DEF InFlight
<1> QED
  BY <1>1, InductiveInvariant, PTL

-----------------------------------------------------------------------------
(* A row once the edges in flight are put into it, one after another.      *)

(* The rows that v goes through while the edges are put into it.           *)
Stages(f, row, edges, v) ==
    /\ f \in [0 .. Len(edges) -> Seq(Neighbor)]
    /\ f[0] = row
    /\ \A i \in 1 .. Len(edges) : f[i] = PutOwn(f[i - 1], edges[i], v)

LEMMA PutOwnTyped ==
    ASSUME NEW row \in Seq(Neighbor), NEW e \in Edge, NEW v
    PROVE  PutOwn(row, e, v) \in Seq(Neighbor)
BY PutTyped DEF PutOwn, Edge

LEMMA StagesExist ==
    ASSUME NEW row \in Seq(Neighbor), NEW edges \in Seq(Edge), NEW v
    PROVE  \E f : Stages(f, row, edges, v)
<1>1. PICK n \in Nat : n = Len(edges)
  OBVIOUS
<1>2. \A i \in 1 .. n : edges[i] \in Edge
  BY <1>1
<1> DEFINE P(m) == \E f \in [0 .. m -> Seq(Neighbor)] :
                      /\ f[0] = row
                      /\ \A i \in 1 .. m : f[i] = PutOwn(f[i - 1], edges[i], v)
           S == {m \in Nat : m <= n => P(m)}
<1>3. 0 \in S
  <2> DEFINE f == [i \in 0 .. 0 |-> row]
  <2>1. f \in [0 .. 0 -> Seq(Neighbor)] /\ f[0] = row
    OBVIOUS
  <2> HIDE DEF f
  <2>2. P(0)
    BY <2>1
  <2> QED
    BY <2>2
<1>4. ASSUME NEW m \in Nat, m \in S PROVE m + 1 \in S
  <2>1. ASSUME m + 1 <= n, P(m) PROVE P(m + 1)
    <3>1. PICK f \in [0 .. m -> Seq(Neighbor)] :
              /\ f[0] = row
              /\ \A i \in 1 .. m : f[i] = PutOwn(f[i - 1], edges[i], v)
      BY <2>1
    <3>2. PutOwn(f[m], edges[m + 1], v) \in Seq(Neighbor)
      BY <1>2, <2>1, <3>1, PutOwnTyped
    <3> DEFINE g == [i \in 0 .. m + 1 |->
                        IF i <= m THEN f[i] ELSE PutOwn(f[m], edges[m + 1], v)]
    <3>3. g \in [0 .. m + 1 -> Seq(Neighbor)] /\ g[0] = row
      BY <3>1, <3>2
    <3>4. ASSUME NEW i \in 1 .. m + 1 PROVE g[i] = PutOwn(g[i - 1], edges[i], v)
      <4>1. CASE i <= m
        BY <3>1, <4>1
      <4>2. CASE i = m + 1
        BY <4>2
      <4> QED
        BY <4>1, <4>2
    <3> HIDE DEF g
    <3> QED
      BY <3>3, <3>4
  <2> HIDE DEF P
  <2> QED
    BY <1>4, <2>1
<1>5. Nat \subseteq S
  <2> HIDE DEF S
  <2> QED
    BY <1>3, <1>4, SetInduction
<1>6. P(n)
  <2> HIDE DEF P
  <2> QED
    BY <1>5
<1> QED
  BY <1>1, <1>6 DEF Stages

(* Only one function goes through the stages, so it is the one meant.      *)
LEMMA AppliedIsLast ==
    ASSUME NEW row \in Seq(Neighbor), NEW edges \in Seq(Edge), NEW v,
           NEW f, Stages(f, row, edges, v)
    PROVE  Applied(row, edges, v) = f[Len(edges)]
<1>1. PICK n \in Nat : n = Len(edges)
  OBVIOUS
<1> DEFINE R(g) == g = [i \in 0 .. n |-> IF i = 0 THEN row ELSE PutOwn(g[i - 1], edges[i], v)]
<1>2. R(f)
  <2>1. f = [i \in 0 .. n |-> f[i]]
    BY <1>1 DEF Stages
  <2>2. \A i \in 0 .. n : f[i] = IF i = 0 THEN row ELSE PutOwn(f[i - 1], edges[i], v)
    BY <1>1 DEF Stages
  <2> QED
    BY <2>1, <2>2
<1>3. ASSUME NEW g, R(g) PROVE g[n] = f[n]
  <2>1. \A i \in 0 .. n : g[i] = IF i = 0 THEN row ELSE PutOwn(g[i - 1], edges[i], v)
    BY <1>3
  <2> DEFINE S == {i \in Nat : i <= n => g[i] = f[i]}
  <2>2. 0 \in S
    BY <1>1, <2>1 DEF Stages
  <2>3. ASSUME NEW i \in Nat, i \in S PROVE i + 1 \in S
    <3> SUFFICES ASSUME i + 1 <= n PROVE g[i + 1] = f[i + 1]
      OBVIOUS
    <3>1. g[i] = f[i]
      BY <2>3
    <3>2. g[i + 1] = PutOwn(g[i], edges[i + 1], v)
      BY <2>1
    <3>3. f[i + 1] = PutOwn(f[i], edges[i + 1], v)
      BY <1>1 DEF Stages
    <3> QED
      BY <3>1, <3>2, <3>3
  <2>4. Nat \subseteq S
    <3> HIDE DEF S
    <3> QED
      BY <2>2, <2>3, SetInduction
  <2> QED
    BY <2>4
<1>4. Applied(row, edges, v) = (CHOOSE g : R(g))[n]
  BY <1>1 DEF Applied
<1> HIDE DEF R
<1>5. R(CHOOSE g : R(g))
  BY <1>2
<1> QED
  BY <1>1, <1>3, <1>4, <1>5

LEMMA AppliedTyped ==
    ASSUME NEW row \in Seq(Neighbor), NEW edges \in Seq(Edge), NEW v
    PROVE  Applied(row, edges, v) \in Seq(Neighbor)
<1>1. PICK f : Stages(f, row, edges, v)
  BY StagesExist
<1>2. Applied(row, edges, v) = f[Len(edges)]
  BY <1>1, AppliedIsLast
<1> QED
  BY <1>1, <1>2 DEF Stages

LEMMA AppliedEmpty ==
    ASSUME NEW row \in Seq(Neighbor), NEW v
    PROVE  Applied(row, <<>>, v) = row
<1>1. PICK s \in Seq(Edge) : s = <<>>
  BY EmptySeq
<1>2. PICK f : Stages(f, row, s, v)
  BY StagesExist
<1>3. Applied(row, s, v) = f[Len(s)]
  BY <1>2, AppliedIsLast
<1>4. f[0] = row /\ Len(s) = 0
  BY <1>1, <1>2 DEF Stages
<1> QED
  BY <1>1, <1>3, <1>4

(* One more edge at the end is put last.                                   *)
LEMMA AppliedAppend ==
    ASSUME NEW row \in Seq(Neighbor), NEW edges \in Seq(Edge), NEW e \in Edge, NEW v
    PROVE  Applied(row, Append(edges, e), v) = PutOwn(Applied(row, edges, v), e, v)
<1>1. PICK new : new = Append(edges, e)
  OBVIOUS
<1>2. PICK n \in Nat : n = Len(edges)
  OBVIOUS
<1>3. /\ new \in Seq(Edge) /\ Len(new) = n + 1 /\ new[n + 1] = e
      /\ \A i \in 1 .. n : new[i] = edges[i]
  BY <1>1, <1>2
<1>4. PICK f : Stages(f, row, new, v)
  BY <1>3, StagesExist
<1>5. /\ f \in [0 .. n + 1 -> Seq(Neighbor)] /\ f[0] = row
      /\ \A i \in 1 .. n + 1 : f[i] = PutOwn(f[i - 1], new[i], v)
  BY <1>3, <1>4 DEF Stages
<1>6. PICK g : g = [i \in 0 .. n |-> f[i]]
  OBVIOUS
<1>7. Stages(g, row, edges, v)
  <2>1. g \in [0 .. n -> Seq(Neighbor)] /\ g[0] = row
    BY <1>5, <1>6
  <2>2. ASSUME NEW i \in 1 .. n PROVE g[i] = PutOwn(g[i - 1], edges[i], v)
    <3>1. i \in 1 .. n + 1 /\ g[i] = f[i] /\ g[i - 1] = f[i - 1] /\ new[i] = edges[i]
      BY <1>3, <1>6
    <3> QED
      BY <1>5, <3>1
  <2> QED
    BY <1>2, <2>1, <2>2 DEF Stages
<1>8. Applied(row, new, v) = f[n + 1] /\ Applied(row, edges, v) = g[n]
  BY <1>2, <1>3, <1>4, <1>7, AppliedIsLast
<1>9. f[n + 1] = PutOwn(f[n], e, v) /\ g[n] = f[n]
  <2>1. n + 1 \in 1 .. n + 1 /\ (n + 1) - 1 = n /\ n \in 0 .. n
    OBVIOUS
  <2> QED
    BY <1>3, <1>5, <1>6, <2>1
<1> QED
  BY <1>1, <1>8, <1>9

(* The first edge may be put into the row beforehand.                      *)
LEMMA AppliedHead ==
    ASSUME NEW row \in Seq(Neighbor), NEW edges \in Seq(Edge), edges # <<>>, NEW v
    PROVE  Applied(row, edges, v) = Applied(PutOwn(row, Head(edges), v), Tail(edges), v)
<1>1. PICK rest \in Seq(Edge), e \in Edge, n \in Nat :
        rest = Tail(edges) /\ e = Head(edges) /\ n = Len(rest)
  <2>1. Tail(edges) \in Seq(Edge) /\ Head(edges) \in Edge
    BY HeadTailProperties
  <2>2. Len(Tail(edges)) \in Nat
    BY <2>1, LenProperties
  <2> QED
    BY Zenon, <2>1, <2>2
<1>2. /\ Len(edges) = n + 1 /\ edges[1] = e
      /\ \A i \in 1 .. n : rest[i] = edges[i + 1]
  <2>1. /\ Len(edges) \in Nat \ {0} /\ Head(edges) = edges[1]
        /\ Len(rest) = Len(edges) - 1
        /\ \A i \in 1 .. Len(edges) - 1 : rest[i] = edges[i + 1]
    BY <1>1, HeadTailProperties, LenProperties, EmptySeq
  <2> QED
    BY <1>1, <2>1
<1>3. PICK f : Stages(f, row, edges, v)
  BY StagesExist
<1>4. /\ f \in [0 .. n + 1 -> Seq(Neighbor)] /\ f[0] = row
      /\ \A i \in 1 .. n + 1 : f[i] = PutOwn(f[i - 1], edges[i], v)
  BY <1>2, <1>3 DEF Stages
<1>5. PICK first : first = PutOwn(row, e, v)
  OBVIOUS
<1>6. f[1] = first /\ first \in Seq(Neighbor)
  <2>1. 1 \in 1 .. n + 1 /\ 1 - 1 = 0 /\ 1 \in 0 .. n + 1
    OBVIOUS
  <2> QED
    BY <1>2, <1>4, <1>5, <2>1
<1>7. PICK g : g = [i \in 0 .. n |-> f[i + 1]]
  OBVIOUS
<1>8. Stages(g, first, rest, v)
  <2>1. g \in [0 .. n -> Seq(Neighbor)] /\ g[0] = first
    BY <1>4, <1>6, <1>7
  <2>2. ASSUME NEW i \in 1 .. n PROVE g[i] = PutOwn(g[i - 1], rest[i], v)
    <3>1. /\ i + 1 \in 1 .. n + 1 /\ (i + 1) - 1 = i /\ g[i] = f[i + 1]
          /\ g[i - 1] = f[i] /\ rest[i] = edges[i + 1]
      BY <1>2, <1>7
    <3> QED
      BY <1>4, <3>1
  <2> QED
    BY <1>1, <2>1, <2>2 DEF Stages
<1>9. Applied(row, edges, v) = f[n + 1] /\ Applied(first, rest, v) = g[n]
  <2>1. Applied(row, edges, v) = f[Len(edges)]
    BY <1>3, AppliedIsLast
  <2>2. Applied(first, rest, v) = g[Len(rest)]
    BY <1>6, <1>8, AppliedIsLast
  <2> QED
    BY <1>1, <1>2, <2>1, <2>2
<1>10. g[n] = f[n + 1]
  BY <1>7
<1> QED
  BY <1>1, <1>5, <1>9, <1>10

(* The list of adList.h with the given rows and marks, of which the first  *)
(* `nodes' are in use.                                                     *)
FirstOf(f, nodes) == [i \in 1 .. nodes |-> f[i - 1]]
With(f, v, x) == [f EXCEPT ![v] = x]

ListOf(dir, out, in, marks, nodes, count) ==
    [directed |-> dir, out_neighbors |-> FirstOf(out, nodes),
     in_neighbors |-> IF dir THEN FirstOf(in, nodes) ELSE <<>>,
     affected |-> FirstOf(marks, nodes), property |-> nodes,
     num_nodes |-> nodes, num_edges |-> count]

LEMMA FirstOfExcept ==
    ASSUME NEW f, DOMAIN f = NodeID, NEW n \in 0 .. NumNodes,
           NEW v \in NodeID, v < n, NEW x
    PROVE  With(FirstOf(f, n), v + 1, x) = FirstOf(With(f, v, x), n)
<1>1. PICK g : g = [f EXCEPT ![v] = x]
  OBVIOUS
<1>2. g[v] = x /\ \A u \in NodeID : u # v => g[u] = f[u]
  BY <1>1
<1>3. PICK h : h = [FirstOf(f, n) EXCEPT ![v + 1] = x]
  OBVIOUS
<1>4. /\ DOMAIN h = 1 .. n /\ h = [i \in 1 .. n |-> h[i]]
      /\ \A i \in 1 .. n : h[i] = IF i = v + 1 THEN x ELSE f[i - 1]
  BY <1>3 DEF FirstOf, NodeID
<1>5. ASSUME NEW i \in 1 .. n PROVE h[i] = g[i - 1]
  <2>1. i - 1 \in NodeID /\ (i = v + 1 <=> i - 1 = v)
    BY NumNodesAssumption DEF NodeID
  <2> QED
    BY <1>2, <1>4, <2>1
<1>6. h = FirstOf(g, n)
  BY <1>4, <1>5 DEF FirstOf
<1> QED
  BY <1>1, <1>3, <1>6 DEF With

LEMMA FirstOfAppend ==
    ASSUME NEW S, NEW f \in [NodeID -> S], NEW n \in NodeID, NEW x \in S
    PROVE  Append(FirstOf(f, n), x) = FirstOf(With(f, n, x), n + 1)
<1>1. PICK g : g = [f EXCEPT ![n] = x]
  OBVIOUS
<1>2. g[n] = x /\ \A u \in NodeID : u # n => g[u] = f[u]
  BY <1>1
<1>3. PICK s : s = FirstOf(f, n)
  OBVIOUS
<1>4. n \in Nat /\ \A i \in 1 .. n : i - 1 \in NodeID /\ i - 1 # n
  BY NumNodesAssumption DEF NodeID
<1>5. s \in [1 .. n -> S] /\ \A i \in 1 .. n : s[i] = f[i - 1]
  BY <1>3, <1>4 DEF FirstOf
<1>6. s \in Seq(S) /\ Len(s) = n
  BY <1>4, <1>5, SeqDef, LenProperties
<1>7. PICK h : h = Append(s, x)
  OBVIOUS
<1>8. /\ h \in Seq(S) /\ Len(h) = n + 1 /\ h[n + 1] = x
      /\ \A i \in 1 .. n : h[i] = s[i]
  BY <1>6, <1>7
<1>9. h = [i \in 1 .. n + 1 |-> h[i]]
  BY <1>8
<1>10. ASSUME NEW i \in 1 .. n + 1 PROVE h[i] = g[i - 1]
  <2>1. CASE i = n + 1
    BY <1>2, <1>4, <1>8, <2>1
  <2>2. CASE i # n + 1
    <3>1. i \in 1 .. n
      BY <1>4, <2>2
    <3> QED
      BY <1>2, <1>4, <1>5, <1>8, <3>1
  <2> QED
    BY <2>1, <2>2
<1>11. h = FirstOf(g, n + 1)
  BY <1>9, <1>10 DEF FirstOf
<1> QED
  BY <1>1, <1>3, <1>7, <1>11 DEF With

LEMMA PutIntoEmpty ==
    ASSUME NEW n, NEW w
    PROVE  Put(<<>>, n, w) = <<NeighborInfo(n, w)>>
<1>1. ~Holds(<<>>, n)
  BY DEF Holds
<1> QED
  BY <1>1 DEF Put

LEMMA SamePut ==
    ASSUME NEW row, NEW n, NEW w
    PROVE  Sequential!Put(row, n, w) = Put(row, n, w)
BY DEF Sequential!Put, Sequential!Holds, Sequential!FirstAt, Sequential!NeighborInfo,
       Put, Holds, FirstAt, NeighborInfo

-----------------------------------------------------------------------------
(* What examine_and_insert does to a list given by its rows.               *)

OutAfter(intoOut, out, own, other, w) ==
    IF intoOut THEN With(out, own, Put(out[own], other, w)) ELSE out
InAfter(intoOut, in, own, other, w) ==
    IF intoOut THEN in ELSE With(in, own, Put(in[own], other, w))
Marked(marks, v) == With(marks, v, TRUE)
KnownThen(exists, n) == IF exists THEN n ELSE n + 1

(* What such a list consists of, and an end of an edge that fits it.       *)
ListParts(dir, out, in, marks, n, m) ==
    /\ dir \in BOOLEAN /\ n \in 0 .. NumNodes /\ m \in Nat
    /\ out \in [NodeID -> Seq(Neighbor)] /\ in \in [NodeID -> Seq(Neighbor)]
    /\ marks \in [NodeID -> BOOLEAN]
EndFits(dir, out, in, n, own, other, w, exists, intoOut) ==
    /\ own \in NodeID /\ other \in NodeID /\ w \in Weights
    /\ exists \in BOOLEAN /\ intoOut \in BOOLEAN
    /\ ~dir => intoOut
    /\ IF exists THEN own < n ELSE own = n /\ out[own] = <<>> /\ in[own] = <<>>

(* Half an iteration of adList.h's update(), on a list in this form.       *)
LEMMA ExamineList ==
    ASSUME NEW dir, NEW out, NEW in, NEW marks, NEW n, NEW m,
           ListParts(dir, out, in, marks, n, m),
           NEW own, NEW other, NEW w, NEW exists, NEW intoOut,
           EndFits(dir, out, in, n, own, other, w, exists, intoOut)
    PROVE  Sequential!Examine(ListOf(dir, out, in, marks, n, m), own, other, w, exists, intoOut)
           = ListOf(dir, OutAfter(intoOut, out, own, other, w),
                    InAfter(intoOut, in, own, other, w),
                    Marked(marks, own), KnownThen(exists, n), m + 1)
<1> USE DEF ListParts, EndFits
<1>1. PICK d : d = ListOf(dir, out, in, marks, n, m)
  OBVIOUS
<1>2. PICK outs, ins, flags :
        /\ outs = FirstOf(out, n) /\ flags = FirstOf(marks, n)
        /\ ins = IF dir THEN FirstOf(in, n) ELSE <<>>
  OBVIOUS
<1>3. d = [directed |-> dir, out_neighbors |-> outs, in_neighbors |-> ins,
           affected |-> flags, property |-> n, num_nodes |-> n, num_edges |-> m]
  BY <1>1, <1>2 DEF ListOf
<1>4. PICK nodes, marked, flagged :
        /\ nodes = IF exists THEN n ELSE n + 1
        /\ marked = With(marks, own, TRUE)
        /\ flagged = IF exists THEN With(flags, own + 1, TRUE) ELSE Append(flags, TRUE)
  OBVIOUS
<1>5. flagged = FirstOf(marked, nodes)
  <2>1. CASE exists
    <3>1. own < n /\ DOMAIN marks = NodeID
      BY <2>1
    <3>2. PICK yes : yes = TRUE
      OBVIOUS
    <3>3. With(FirstOf(marks, n), own + 1, yes) = FirstOf(With(marks, own, yes), n)
      BY <3>1, FirstOfExcept
    <3> QED
      BY Zenon, <1>2, <1>4, <2>1, <3>2, <3>3
  <2>2. CASE ~exists
    <3>1. n \in NodeID /\ own = n /\ TRUE \in BOOLEAN
      BY <2>2
    <3>2. Append(FirstOf(marks, n), TRUE) = FirstOf(With(marks, n, TRUE), n + 1)
      BY Zenon, <3>1, FirstOfAppend
    <3> QED
      BY Zenon, <1>2, <1>4, <2>2, <3>1, <3>2
  <2> QED
    BY <2>1, <2>2
<1>6. PICK c : c = Sequential!CountVertex(d, own, exists)
  OBVIOUS
<1>7. c = [directed |-> dir, out_neighbors |-> outs, in_neighbors |-> ins,
           affected |-> flagged, property |-> n, num_nodes |-> nodes, num_edges |-> m + 1]
  BY <1>3, <1>4, <1>6 DEF Sequential!CountVertex, With
<1>8. PICK outs2, ins2 :
        /\ outs2 = FirstOf(IF intoOut THEN With(out, own, Put(out[own], other, w)) ELSE out, nodes)
        /\ ins2 = IF dir
                  THEN FirstOf(IF intoOut THEN in ELSE With(in, own, Put(in[own], other, w)), nodes)
                  ELSE <<>>
  OBVIOUS
<1>9. PICK f : f = Sequential!Examine(d, own, other, w, exists, intoOut)
  OBVIOUS
<1>10. CASE exists
  <2>1. nodes = n /\ own < n /\ own \in NodeID
    BY <1>4, <1>10
  <2>2. f = Sequential!UpdateForExistingVertex(c, own, other, w, intoOut)
    BY <1>6, <1>9, <1>10 DEF Sequential!Examine
  <2>3. CASE intoOut
    <3>1. f = [c EXCEPT !.out_neighbors[own + 1] = Put(@, other, w)]
      BY <2>2, <2>3, SamePut DEF Sequential!UpdateForExistingVertex
    <3>2. outs[own + 1] = out[own]
      BY <1>2, <2>1 DEF FirstOf, NodeID
    <3>3. With(outs, own + 1, Put(outs[own + 1], other, w)) = outs2
      <4>1. PICK x : x = Put(out[own], other, w)
        OBVIOUS
      <4>2. With(FirstOf(out, n), own + 1, x) = FirstOf(With(out, own, x), n)
        <5>1. DOMAIN out = NodeID
          OBVIOUS
        <5> QED
          BY <2>1, <5>1, FirstOfExcept
      <4>3. With(outs, own + 1, x) = outs2
        BY <1>2, <1>8, <2>1, <2>3, <4>1, <4>2
      <4> QED
        BY <3>2, <4>1, <4>3
    <3>4. ins2 = ins
      BY <1>2, <1>8, <2>1, <2>3
    <3>5. f = [directed |-> dir, out_neighbors |-> outs2, in_neighbors |-> ins2,
               affected |-> flagged, property |-> n, num_nodes |-> nodes, num_edges |-> m + 1]
      BY <1>7, <3>1, <3>3, <3>4 DEF With
    <3> QED
      BY <1>1, <1>4, <1>5, <1>8, <1>9, <2>1, <3>5 DEF ListOf, OutAfter, InAfter, Marked, KnownThen
  <2>4. CASE ~intoOut
    <3>1. f = [c EXCEPT !.in_neighbors[own + 1] = Put(@, other, w)]
      BY <2>2, <2>4, SamePut DEF Sequential!UpdateForExistingVertex
    <3>2. ins[own + 1] = in[own] /\ dir
      BY <1>2, <2>1, <2>4 DEF FirstOf, NodeID
    <3>3. With(ins, own + 1, Put(ins[own + 1], other, w)) = ins2
      <4>1. PICK x : x = Put(in[own], other, w)
        OBVIOUS
      <4>2. With(FirstOf(in, n), own + 1, x) = FirstOf(With(in, own, x), n)
        <5>1. DOMAIN in = NodeID
          OBVIOUS
        <5> QED
          BY <2>1, <5>1, FirstOfExcept
      <4>3. With(ins, own + 1, x) = ins2
        BY <1>2, <1>8, <2>1, <2>4, <3>2, <4>1, <4>2
      <4> QED
        BY <3>2, <4>1, <4>3
    <3>4. outs2 = outs
      BY <1>2, <1>8, <2>1, <2>4
    <3>5. f = [directed |-> dir, out_neighbors |-> outs2, in_neighbors |-> ins2,
               affected |-> flagged, property |-> n, num_nodes |-> nodes, num_edges |-> m + 1]
      BY <1>7, <3>1, <3>3, <3>4 DEF With
    <3> QED
      BY <1>1, <1>4, <1>5, <1>8, <1>9, <2>1, <3>5 DEF ListOf, OutAfter, InAfter, Marked, KnownThen
  <2> QED
    BY <2>3, <2>4
<1>11. CASE ~exists
  <2>1. nodes = n + 1 /\ own = n /\ n \in NodeID /\ out[own] = <<>> /\ in[own] = <<>>
    BY <1>4, <1>11
  <2>2. f = Sequential!UpdateForNewVertex(c, other, w, intoOut)
    BY <1>6, <1>9, <1>11 DEF Sequential!Examine
  <2>3. PICK filled : filled = <<NeighborInfo(other, w)>>
    OBVIOUS
  <2>4. filled = Put(<<>>, other, w) /\ filled \in Seq(Neighbor) /\ <<>> \in Seq(Neighbor)
    BY <2>3, PutIntoEmpty DEF NeighborInfo, Neighbor
  <2>5. f = [directed |-> dir, property |-> n + 1, num_nodes |-> nodes, num_edges |-> m + 1,
             affected |-> flagged,
             out_neighbors |-> Append(outs, IF intoOut THEN filled ELSE <<>>),
             in_neighbors |-> IF dir THEN Append(ins, IF intoOut THEN <<>> ELSE filled) ELSE ins]
    BY <1>7, <2>2, <2>3 DEF Sequential!UpdateForNewVertex, Sequential!NeighborInfo, NeighborInfo
  <2>6. ASSUME NEW g \in [NodeID -> Seq(Neighbor)], g[n] = <<>>
        PROVE  /\ Append(FirstOf(g, n), filled) = FirstOf(With(g, n, Put(g[n], other, w)), n + 1)
               /\ Append(FirstOf(g, n), <<>>) = FirstOf(g, n + 1)
    <3>1. Append(FirstOf(g, n), filled) = FirstOf(With(g, n, filled), n + 1)
      BY ZenonT(30), <2>1, <2>4, FirstOfAppend
    <3>2. Append(FirstOf(g, n), <<>>) = FirstOf(With(g, n, <<>>), n + 1)
      BY ZenonT(30), <2>1, <2>4, FirstOfAppend
    <3>3. With(g, n, <<>>) = g
      BY <2>1, <2>6 DEF With
    <3> QED
      BY <2>4, <2>6, <3>1, <3>2, <3>3
  <2>7. Append(outs, IF intoOut THEN filled ELSE <<>>) = outs2
    BY <1>2, <1>8, <2>1, <2>6
  <2>8. (IF dir THEN Append(ins, IF intoOut THEN <<>> ELSE filled) ELSE ins) = ins2
    BY <1>2, <1>8, <2>1, <2>6
  <2>9. f = [directed |-> dir, out_neighbors |-> outs2, in_neighbors |-> ins2,
             affected |-> flagged, property |-> nodes, num_nodes |-> nodes, num_edges |-> m + 1]
    BY <2>1, <2>5, <2>7, <2>8
  <2> QED
    BY <1>1, <1>4, <1>5, <1>8, <1>9, <2>9 DEF ListOf, OutAfter, InAfter, Marked, KnownThen
<1> QED
  BY <1>10, <1>11

-----------------------------------------------------------------------------
(* The rows of the single list that the chunks make up.                    *)

OutRow(v) == Settled(OutPart(PtHash(v)), v)
InRow(v) == Settled(MirrorPart(PtHash(v)), v)
OutRows == [v \in NodeID |-> OutRow(v)]
InRows == [v \in NodeID |-> InRow(v)]

(* A vertex nobody has seen has no edges, settled or in flight.            *)
Fresh == \A v \in NodeID : v >= num_nodes => OutRow(v) = <<>> /\ InRow(v) = <<>>

LEMMA PendingTyped ==
    ASSUME IInv, NEW p \in Part
    PROVE  Pending(p) \in Seq(Edge) /\ InFlight(p) \in Seq(Edge)
<1>1. el[p] \in Seq(Edge) /\ q[p] \in Seq(Edge) /\ (main = "mirror" => reverse \in Edge)
  BY DEF IInv, TypeOK, Control
<1>2. InFlight(p) \in Seq(Edge)
  BY <1>1 DEF InFlight
<1>3. PICK last : last = IF main = "mirror" /\ p = MirrorPart(PtHash(reverse.source))
                         THEN <<reverse>> ELSE <<>>
  OBVIOUS
<1>4. last \in Seq(Edge)
  BY <1>1, <1>3
<1>5. Pending(p) = InFlight(p) \o last
  BY <1>3 DEF Pending
<1> QED
  BY <1>2, <1>4, <1>5

LEMMA SettledTyped ==
    ASSUME IInv, NEW p \in Part, NEW v \in NodeID
    PROVE  /\ neighbors[p][HashWithinChunk(v)] \in Seq(Neighbor)
           /\ Settled(p, v) \in Seq(Neighbor)
<1>1. neighbors[p][HashWithinChunk(v)] \in Seq(Neighbor)
  BY Partitions DEF IInv, TypeOK
<1> QED
  BY <1>1, PendingTyped, AppliedTyped DEF Settled

LEMMA RowsTyped ==
    ASSUME IInv
    PROVE  OutRows \in [NodeID -> Seq(Neighbor)] /\ InRows \in [NodeID -> Seq(Neighbor)]
<1>1. \A v \in NodeID : OutRow(v) \in Seq(Neighbor) /\ InRow(v) \in Seq(Neighbor)
  BY SettledTyped, Partitions DEF IInv, TypeOK, OutRow, InRow
<1> QED
  BY <1>1 DEF OutRows, InRows

LEMMA OneListIs ==
    num_nodes \in 0 .. NumNodes =>
        AsOneList = ListOf(directed, OutRows, InRows, affected, num_nodes, num_edges)
<1> SUFFICES ASSUME num_nodes \in 0 .. NumNodes
             PROVE  AsOneList = ListOf(directed, OutRows, InRows, affected, num_nodes, num_edges)
  OBVIOUS
<1>1. \A i \in 1 .. num_nodes : i - 1 \in NodeID
  BY NumNodesAssumption DEF NodeID
<1>2. /\ [i \in 1 .. num_nodes |-> Settled(OutPart(PtHash(i - 1)), i - 1)]
          = FirstOf(OutRows, num_nodes)
      /\ [i \in 1 .. num_nodes |-> Settled(MirrorPart(PtHash(i - 1)), i - 1)]
          = FirstOf(InRows, num_nodes)
      /\ [i \in 1 .. num_nodes |-> affected[i - 1]] = FirstOf(affected, num_nodes)
  BY <1>1 DEF FirstOf, OutRows, InRows, OutRow, InRow
<1> QED
  BY Zenon, <1>2 DEF AsOneList, ListOf

-----------------------------------------------------------------------------
(* Vertices of one partition have rows of their own.                       *)
LEMMA RowsApart ==
    ASSUME setup \in Setups, NEW u \in NodeID, NEW v \in NodeID,
           PtHash(u) = PtHash(v), HashWithinChunk(u) = HashWithinChunk(v)
    PROVE  u = v
<1>1. PICK k \in Nat \ {0} : k = PerSide
  BY Partitions
<1>2. u \in Nat /\ v \in Nat /\ u % k = v % k /\ u \div k = v \div k
  BY <1>1 DEF PtHash, HashWithinChunk, NodeID
<1>3. PICK a \in Int, r \in 0 .. k - 1 : a = u \div k /\ r = u % k /\ u = k * a + r
  BY <1>2
<1>4. PICK b \in Int, s \in 0 .. k - 1 : b = v \div k /\ s = v % k /\ v = k * b + s
  BY <1>2
<1> QED
  BY <1>2, <1>3, <1>4

(* The row of v with what is pending, if neither is touched.               *)
LEMMA SettledAlike ==
    ASSUME UNCHANGED setup, NEW p, NEW v,
           neighbors'[p][HashWithinChunk(v)] = neighbors[p][HashWithinChunk(v)],
           Pending(p)' = Pending(p)
    PROVE  Settled(p, v)' = Settled(p, v)
<1>1. HashWithinChunk(v)' = HashWithinChunk(v)
  BY SetupFixed DEF HashWithinChunk
<1> QED
  BY <1>1 DEF Settled

(* Then what the chunks make up is untouched too.                          *)
LEMMA ListAlike ==
    ASSUME IInv, Fresh, UNCHANGED <<setup, num_nodes, num_edges>>,
           \A p \in Part, v \in NodeID : p[2] = PtHash(v) => Settled(p, v)' = Settled(p, v)
    PROVE  /\ Fresh' /\ OutRows' = OutRows /\ InRows' = InRows
           /\ affected' = affected => AsOneList' = AsOneList
<1>1. setup \in Setups /\ num_nodes \in 0 .. NumNodes
  BY NumNodesAssumption DEF IInv, TypeOK, Known
<1>2. \A n : PtHash(n)' = PtHash(n) /\ OutPart(n)' = OutPart(n) /\ MirrorPart(n)' = MirrorPart(n)
  BY SetupFixed DEF PtHash, OutPart, MirrorPart
<1>3. ASSUME NEW v \in NodeID PROVE OutRow(v)' = OutRow(v) /\ InRow(v)' = InRow(v)
  <2>1. /\ Settled(OutPart(PtHash(v)), v)' = Settled(OutPart(PtHash(v)), v)
        /\ Settled(MirrorPart(PtHash(v)), v)' = Settled(MirrorPart(PtHash(v)), v)
    BY <1>1, <1>2, Partitions
  <2> QED
    BY <1>2, <2>1 DEF OutRow, InRow
<1>4. Fresh' /\ OutRows' = OutRows /\ InRows' = InRows
  BY <1>3 DEF Fresh, OutRows, InRows
<1>5. ASSUME affected' = affected PROVE AsOneList' = AsOneList
  <2>1. AsOneList = ListOf(directed, OutRows, InRows, affected, num_nodes, num_edges)
    BY <1>1, OneListIs
  <2>2. AsOneList' = ListOf(directed', OutRows', InRows', affected', num_nodes', num_edges')
    <3>1. (num_nodes \in 0 .. NumNodes)'
      BY <1>1
    <3>2. (AsOneList = ListOf(directed, OutRows, InRows, affected, num_nodes, num_edges))'
      BY <3>1, OneListIs, PTL
    <3> QED
      BY Zenon, <3>2
  <2>3. directed' = directed
    BY SetupFixed
  <2> QED
    BY <1>4, <1>5, <2>1, <2>2, <2>3
<1> QED
  BY <1>4, <1>5

-----------------------------------------------------------------------------
(* A thread's steps settle nothing new: what it moves was pending already. *)

LEMMA Regrouped ==
    ASSUME NEW S, NEW a \in Seq(S), NEW b \in Seq(S), NEW c \in Seq(S)
    PROVE  (a \o b) \o c = a \o (b \o c) /\ a \o (b \o c) \in Seq(S)
<1>1. b \o c \in Seq(S)
  BY ConcatProperties
<1>2. a \o (b \o c) \in Seq(S)
  BY <1>1, ConcatProperties
<1>3. (a \o b) \o c = a \o (b \o c)
  BY ConcatAssociative
<1> QED
  BY <1>2, <1>3

LEMMA ConcatAppend ==
    ASSUME NEW S, NEW s \in Seq(S), NEW t \in Seq(S), NEW e \in S
    PROVE  s \o Append(t, e) = Append(s \o t, e)
<1>1. Append(t, e) = t \o <<e>>
  BY AppendIsConcat
<1>2. s \o t \in Seq(S) /\ <<e>> \in Seq(S)
  OBVIOUS
<1>3. s \o (t \o <<e>>) = (s \o t) \o <<e>>
  BY <1>2, ConcatAssociative
<1>4. Append(s \o t, e) = (s \o t) \o <<e>>
  BY <1>2, AppendIsConcat
<1> QED
  BY <1>1, <1>3, <1>4

LEMMA ConcatHead ==
    ASSUME NEW S, NEW s \in Seq(S), s # <<>>, NEW t \in Seq(S)
    PROVE  /\ s \o t # <<>> /\ Head(s \o t) = Head(s)
           /\ Tail(s \o t) = Tail(s) \o t
OBVIOUS

(* What is pending when the main thread is between two edges, and between  *)
(* the two pushes of one.                                                  *)
LEMMA PendingIs ==
    ASSUME IInv, NEW p \in Part
    PROVE  /\ main # "mirror" => Pending(p) = InFlight(p)
           /\ main = "mirror" =>
                Pending(p) = IF p = MirrorPart(PtHash(reverse.source))
                             THEN Append(InFlight(p), reverse) ELSE InFlight(p)
<1>1. InFlight(p) \in Seq(Edge) /\ (main = "mirror" => reverse \in Edge)
  BY PendingTyped DEF IInv, Control
<1>2. InFlight(p) \o <<>> = InFlight(p)
  BY <1>1, ConcatEmptySeq
<1>3. main = "mirror" => InFlight(p) \o <<reverse>> = Append(InFlight(p), reverse)
  BY <1>1, AppendIsConcat
<1> QED
  BY <1>2, <1>3 DEF Pending

LEMMA PendingLater ==
    ASSUME IInv', UNCHANGED setup, NEW p \in Part
    PROVE  /\ main' # "mirror" => Pending(p)' = InFlight(p)'
           /\ main' = "mirror" =>
                Pending(p)' = IF p = MirrorPart(PtHash(reverse'.source))
                              THEN Append(InFlight(p)', reverse') ELSE InFlight(p)'
<1>1. Part' = Part /\ \A n : PtHash(n)' = PtHash(n) /\ MirrorPart(n)' = MirrorPart(n)
  BY SetupFixed DEF PtHash, MirrorPart
<1>2. /\ (el[p] \in Seq(Edge))' /\ (q[p] \in Seq(Edge))'
      /\ main' = "mirror" => reverse' \in Edge
  BY <1>1 DEF IInv, TypeOK, Control
<1>3. InFlight(p)' \in Seq(Edge)
  BY <1>2 DEF InFlight
<1>4. InFlight(p)' \o <<>> = InFlight(p)'
  BY <1>3, ConcatEmptySeq
<1>5. main' = "mirror" => InFlight(p)' \o <<reverse'>> = Append(InFlight(p)', reverse')
  BY <1>2, <1>3, AppendIsConcat
<1> QED
  BY <1>1, <1>4, <1>5 DEF Pending

(* The threads and the ends of a batch leave every row what it will be.    *)
LEMMA BatchSettles ==
    ASSUME IInv, Spawn \/ Finish \/ Join \/ ClearAffected,
           NEW p \in Part, NEW v \in NodeID
    PROVE  Settled(p, v)' = Settled(p, v)
<1>1. /\ UNCHANGED <<setup, neighbors, q, el, reverse>>
      /\ main # "mirror" /\ main' # "mirror"
  BY DEF Spawn, Finish, Join, ClearAffected, partVars
<1>2. Pending(p)' = Pending(p)
  BY <1>1 DEF Pending, InFlight
<1> QED
  BY <1>1, <1>2, SettledAlike

LEMMA PollSettles ==
    ASSUME IInv, NEW r \in Part, Acquire(r) \/ Wait(r) \/ Exit(r),
           NEW p \in Part, NEW v \in NodeID
    PROVE  Settled(p, v)' = Settled(p, v)
<1>1. UNCHANGED <<setup, neighbors, q, el, reverse, main>>
  BY DEF Acquire, Wait, Exit
<1>2. InFlight(p)' = InFlight(p)
  BY <1>1 DEF InFlight
<1>3. Pending(p)' = Pending(p)
  BY <1>1, <1>2, SetupFixed DEF Pending, MirrorPart, PtHash
<1> QED
  BY <1>1, <1>3, SettledAlike

LEMMA DrainSettles ==
    ASSUME IInv, NEW r \in Part, Drain(r),
           NEW p \in Part, NEW v \in NodeID
    PROVE  Settled(p, v)' = Settled(p, v)
<1>1. /\ UNCHANGED <<setup, neighbors, reverse, main>> /\ pc[r] = "test"
      /\ el' = [el EXCEPT ![r] = q[r]] /\ q' = [q EXCEPT ![r] = <<>>]
  BY DEF Drain
<1>2. el \in [Part -> Seq(Edge)] /\ q \in [Part -> Seq(Edge)] /\ el[r] = <<>>
  BY <1>1 DEF IInv, TypeOK, Drained
<1>3. InFlight(p)' = InFlight(p)
  <2>1. CASE p = r
    <3>1. InFlight(p)' = q[r] \o <<>> /\ InFlight(p) = <<>> \o q[r]
      BY <1>1, <1>2, <2>1 DEF InFlight
    <3> QED
      BY <1>2, <3>1, ConcatEmptySeq
  <2>2. CASE p # r
    BY <1>1, <1>2, <2>2 DEF InFlight
  <2> QED
    BY <2>1, <2>2
<1>4. Pending(p)' = Pending(p)
  BY <1>1, <1>3, SetupFixed DEF Pending, MirrorPart, PtHash
<1> QED
  BY <1>1, <1>4, SettledAlike

LEMMA MirrorSettles ==
    ASSUME IInv, IInv', Mirror, NEW p \in Part, NEW v \in NodeID
    PROVE  Settled(p, v)' = Settled(p, v)
<1>1. /\ UNCHANGED <<setup, neighbors, el>> /\ main = "mirror" /\ main' = "loop"
      /\ LET d == MirrorPart(PtHash(reverse.source)) IN q' = [q EXCEPT ![d] = Append(@, reverse)]
  BY DEF Mirror, Enqueue
<1>2. el[p] \in Seq(Edge) /\ q \in [Part -> Seq(Edge)] /\ reverse \in Edge
  BY <1>1 DEF IInv, TypeOK, Control
<1>3. Pending(p)' = InFlight(p)'
  BY <1>1, PendingLater
<1>4. CASE p = MirrorPart(PtHash(reverse.source))
  <2>1. InFlight(p)' = el[p] \o Append(q[p], reverse)
    BY <1>1, <1>2, <1>4 DEF InFlight
  <2>2. el[p] \o Append(q[p], reverse) = Append(el[p] \o q[p], reverse)
    <3>1. PICK a \in Seq(Edge), b \in Seq(Edge), r \in Edge :
              a = el[p] /\ b = q[p] /\ r = reverse
      BY <1>2
    <3>2. a \o Append(b, r) = Append(a \o b, r)
      BY ConcatAppend
    <3> QED
      BY <3>1, <3>2
  <2>3. Pending(p) = Append(InFlight(p), reverse)
    BY <1>1, <1>4, PendingIs
  <2> QED
    BY <1>1, <1>3, <2>1, <2>2, <2>3, SettledAlike DEF InFlight
<1>5. CASE p # MirrorPart(PtHash(reverse.source))
  <2>1. InFlight(p)' = InFlight(p)
    BY <1>1, <1>2, <1>5 DEF InFlight
  <2>2. Pending(p) = InFlight(p)
    BY <1>1, <1>5, PendingIs
  <2> QED
    BY <1>1, <1>3, <2>1, <2>2, SettledAlike
<1> QED
  BY <1>4, <1>5

(* An edge that is put into its row is no longer pending.                  *)
LEMMA InsertSettles ==
    ASSUME IInv, NEW r \in Part, Insert(r),
           NEW p \in Part, NEW v \in NodeID, p[2] = PtHash(v)
    PROVE  Settled(p, v)' = Settled(p, v)
<1>1. /\ UNCHANGED <<setup, q, main, reverse>> /\ pc[r] = "insert"
      /\ el' = [el EXCEPT ![r] = Tail(@)]
      /\ neighbors' = [neighbors EXCEPT
            ![r][HashWithinChunk(Head(el[r]).source)] =
                Put(@, Head(el[r]).destination, Head(el[r]).weight)]
  BY DEF Insert
<1>2. /\ el \in [Part -> Seq(Edge)] /\ q \in [Part -> Seq(Edge)] /\ el[r] # <<>>
      /\ neighbors \in [Part -> [LocalIndex -> Seq(Neighbor)]] /\ setup \in Setups
      /\ RoutedTo(r, el[r])
  BY <1>1 DEF IInv, TypeOK, Drained, Routed
<1>3. HashWithinChunk(v) \in LocalIndex /\ HashWithinChunk(v)' = HashWithinChunk(v)
  BY <1>1, <1>2, Partitions, SetupFixed DEF HashWithinChunk
<1>4. CASE p # r
  <2>1. neighbors'[p] = neighbors[p] /\ el'[p] = el[p]
    BY <1>1, <1>2, <1>4
  <2>2. InFlight(p)' = InFlight(p)
    BY <1>1, <2>1 DEF InFlight
  <2>3. Pending(p)' = Pending(p)
    BY <1>1, <2>2, SetupFixed DEF Pending, MirrorPart, PtHash
  <2> QED
    BY <1>1, <2>1, <2>3, SettledAlike
<1>5. CASE p = r
  <2>1. PICK e \in Edge, rest \in Seq(Edge) : e = Head(el[r]) /\ rest = Tail(el[r])
    BY <1>2, HeadTailProperties
  <2>2. e.source \in NodeID /\ PtHash(e.source) = p[2]
    <3>1. Head(el[r]) = el[r][1] /\ 1 \in DOMAIN el[r]
      BY <1>2, LenProperties, EmptySeq
    <3> QED
      BY <1>2, <1>5, <2>1, <3>1 DEF RoutedTo, Edge
  <2>3. PICK own : own = HashWithinChunk(v)
    OBVIOUS
  <2>4. PICK row : row = HashWithinChunk(e.source)
    OBVIOUS
  <2>5. own \in LocalIndex /\ row \in LocalIndex /\ (own = row <=> e.source = v)
    BY <1>2, <1>3, <2>2, <2>3, <2>4, Partitions, RowsApart
  <2>6. neighbors'[p][own] = PutOwn(neighbors[p][own], e, v)
    <3>1. neighbors' = [neighbors EXCEPT ![p][row] = Put(@, e.destination, e.weight)]
      BY <1>1, <1>5, <2>1, <2>4
    <3> QED
      BY <1>2, <2>5, <3>1 DEF PutOwn
  <2>7. Pending(p) # <<>> /\ Head(Pending(p)) = e /\ Tail(Pending(p)) = Pending(p)'
    <3>1. PICK last : last = IF main = "mirror" /\ p = MirrorPart(PtHash(reverse.source))
                             THEN <<reverse>> ELSE <<>>
      OBVIOUS
    <3>2. last \in Seq(Edge)
      BY <3>1 DEF IInv, Control
    <3>3. PICK a \in Seq(Edge), b \in Seq(Edge) : a = el[p] /\ b = q[p]
      BY <1>2
    <3>4. Pending(p) = (a \o b) \o last
      BY <3>1, <3>3 DEF Pending, InFlight
    <3>5. Pending(p)' = (rest \o b) \o last
      <4>1. el'[p] = rest /\ q'[p] = b /\ main' = main /\ reverse' = reverse
        BY <1>1, <1>2, <1>5, <2>1, <3>3
      <4>2. MirrorPart(PtHash(reverse.source))' = MirrorPart(PtHash(reverse.source))
        BY <1>1, SetupFixed DEF MirrorPart, PtHash
      <4> QED
        BY <3>1, <4>1, <4>2 DEF Pending, InFlight
    <3>6. /\ a # <<>> /\ Head(a) = e /\ Tail(a) = rest
          /\ b \o last \in Seq(Edge)
      BY <1>2, <1>5, <2>1, <3>2, <3>3
    <3>7. (a \o b) \o last = a \o (b \o last) /\ (rest \o b) \o last = rest \o (b \o last)
      <4>1. a \in Seq(Edge) /\ b \in Seq(Edge) /\ last \in Seq(Edge) /\ rest \in Seq(Edge)
        BY <3>2
      <4>2. /\ (a \o b) \o last = a \o (b \o last)
            /\ a \o (b \o last) \in Seq(Edge)
        BY Zenon, <4>1, Regrouped
      <4>3. /\ (rest \o b) \o last = rest \o (b \o last)
            /\ rest \o (b \o last) \in Seq(Edge)
        BY Zenon, <4>1, Regrouped
      <4> QED
        BY <4>2, <4>3
    <3>8. /\ a \o (b \o last) # <<>> /\ Head(a \o (b \o last)) = Head(a)
          /\ Tail(a \o (b \o last)) = Tail(a) \o (b \o last)
      BY ZenonT(30), <3>3, <3>6, ConcatHead
    <3> QED
      BY <3>4, <3>5, <3>6, <3>7, <3>8
  <2>8. Settled(p, v) = Applied(PutOwn(neighbors[p][own], e, v), Pending(p)', v)
    <3>1. Pending(p) \in Seq(Edge) /\ neighbors[p][own] \in Seq(Neighbor)
      BY <2>3, PendingTyped, SettledTyped
    <3>2. Applied(neighbors[p][own], Pending(p), v)
          = Applied(PutOwn(neighbors[p][own], Head(Pending(p)), v), Tail(Pending(p)), v)
      BY <2>7, <3>1, AppliedHead
    <3> QED
      BY <2>3, <2>7, <3>2 DEF Settled
  <2>9. Settled(p, v)' = Applied(neighbors'[p][own], Pending(p)', v)
    BY <1>3, <2>3 DEF Settled
  <2> QED
    BY <2>6, <2>8, <2>9
<1> QED
  BY <1>4, <1>5

-----------------------------------------------------------------------------
(* A submission puts an edge and its reverse, each into its row.           *)

(* What the submission of e makes of a row: the edge goes to the source's  *)
(* out-neighbours, its reverse to where the destination keeps its own.     *)
LEMMA SubmitSettles ==
    ASSUME IInv, IInv', NEW e \in Edge, Submit(e),
           NEW p \in Part, NEW v \in NodeID, p[2] = PtHash(v)
    PROVE  LET first == IF p[1] = "out" THEN PutOwn(Settled(p, v), e, v) ELSE Settled(p, v)
           IN  Settled(p, v)' = IF p[1] = "in" \/ ~directed
                                THEN PutOwn(first, ReverseOf(e), v) ELSE first
<1>1. /\ UNCHANGED <<setup, neighbors, el>> /\ main = "loop" /\ main' = "mirror"
      /\ reverse' = ReverseOf(e)
      /\ LET d == OutPart(PtHash(e.source)) IN q' = [q EXCEPT ![d] = Append(@, e)]
  BY DEF Submit, Enqueue
<1>2. /\ el[p] \in Seq(Edge) /\ q \in [Part -> Seq(Edge)] /\ q[p] \in Seq(Edge)
      /\ setup \in Setups /\ directed \in BOOLEAN
  BY Partitions DEF IInv, TypeOK
<1>3. PICK r \in Edge : r = ReverseOf(e)
  BY DEF Edge, ReverseOf
<1>4. PICK row \in Seq(Neighbor), s \in Seq(Edge) :
        row = neighbors[p][HashWithinChunk(v)] /\ s = InFlight(p)
  BY SettledTyped, PendingTyped
<1>5. Settled(p, v) = Applied(row, s, v)
  BY <1>1, <1>4, PendingIs DEF Settled
<1>6. PICK t \in Seq(Edge) : t = InFlight(p)' /\ t = IF p = OutPart(PtHash(e.source))
                                                     THEN Append(s, e) ELSE s
  <2>1. CASE p = OutPart(PtHash(e.source))
    <3>1. InFlight(p)' = el[p] \o Append(q[p], e)
      BY <1>1, <1>2, <2>1 DEF InFlight
    <3>2. el[p] \o Append(q[p], e) = Append(el[p] \o q[p], e)
      <4>1. PICK a \in Seq(Edge), b \in Seq(Edge) : a = el[p] /\ b = q[p]
        BY <1>2
      <4>2. a \o Append(b, e) = Append(a \o b, e)
        BY ConcatAppend
      <4> QED
        BY <4>1, <4>2
    <3>3. InFlight(p)' = Append(s, e)
      BY <1>4, <3>1, <3>2 DEF InFlight
    <3>4. Append(s, e) \in Seq(Edge)
      OBVIOUS
    <3> QED
      BY <2>1, <3>3, <3>4
  <2>2. CASE p # OutPart(PtHash(e.source))
    <3>1. InFlight(p)' = s
      BY <1>1, <1>2, <1>4, <2>2 DEF InFlight
    <3> QED
      BY <2>2, <3>1
  <2> QED
    BY <2>1, <2>2
<1>7. Pending(p)' = IF p = MirrorPart(PtHash(r.source)) THEN Append(t, r) ELSE t
  BY <1>1, <1>3, <1>6, PendingLater
<1>8. HashWithinChunk(v)' = HashWithinChunk(v)
  BY <1>1, SetupFixed DEF HashWithinChunk
<1>9. Settled(p, v)' = Applied(row, Pending(p)', v)
  BY <1>1, <1>4, <1>8 DEF Settled
<1>10. PICK first : first = IF p[1] = "out" THEN PutOwn(Applied(row, s, v), e, v)
                            ELSE Applied(row, s, v)
  OBVIOUS
<1>11. p = <<p[1], p[2]>> /\ p[1] \in {"out", "in"} /\ (p[1] = "in" => directed)
  BY DEF Part, OutPart, MirrorPart
<1>12. Applied(row, t, v) = first
  <2>1. CASE p = OutPart(PtHash(e.source))
    <3>1. Applied(row, t, v) = PutOwn(Applied(row, s, v), e, v)
      BY <1>6, <2>1, AppliedAppend
    <3> QED
      BY <1>10, <2>1, <3>1 DEF OutPart
  <2>2. CASE p # OutPart(PtHash(e.source))
    <3>1. p[1] = "out" => e.source # v
      BY <1>11, <2>2 DEF OutPart
    <3> QED
      BY <1>6, <1>10, <2>2, <3>1 DEF PutOwn
  <2> QED
    BY <2>1, <2>2
<1>13. Applied(row, Pending(p)', v) =
          IF p[1] = "in" \/ ~directed THEN PutOwn(first, r, v) ELSE first
  <2>1. CASE p = MirrorPart(PtHash(r.source))
    <3>1. Applied(row, Append(t, r), v) = PutOwn(Applied(row, t, v), r, v)
      BY AppliedAppend
    <3>2. p[1] = "in" \/ ~directed
      BY <2>1 DEF MirrorPart
    <3> QED
      BY <1>7, <1>12, <2>1, <3>1, <3>2
  <2>2. CASE p # MirrorPart(PtHash(r.source))
    <3>1. p[1] = "in" \/ ~directed => r.source # v
      BY <1>11, <2>2 DEF MirrorPart
    <3> QED
      BY <1>7, <1>12, <2>2, <3>1 DEF PutOwn
  <2> QED
    BY <2>1, <2>2
<1> QED
  BY <1>3, <1>5, <1>9, <1>10, <1>13

(* The rows after a submission.                                            *)
LEMMA SubmitRows ==
    ASSUME IInv, IInv', NEW e \in Edge, Submit(e), NEW v \in NodeID
    PROVE  /\ OutRow(v)' = IF directed THEN PutOwn(OutRow(v), e, v)
                           ELSE PutOwn(PutOwn(OutRow(v), e, v), ReverseOf(e), v)
           /\ directed => InRow(v)' = PutOwn(InRow(v), ReverseOf(e), v)
           /\ ~directed => InRow(v)' = OutRow(v)' /\ InRow(v) = OutRow(v)
<1>1. UNCHANGED setup /\ setup \in Setups
  BY DEF Submit, IInv, TypeOK
<1>2. \A n : PtHash(n)' = PtHash(n) /\ OutPart(n)' = OutPart(n) /\ MirrorPart(n)' = MirrorPart(n)
  BY <1>1, SetupFixed DEF PtHash, OutPart, MirrorPart
<1>3. PICK o \in Part, i \in Part : o = OutPart(PtHash(v)) /\ i = MirrorPart(PtHash(v))
  BY <1>1, Partitions
<1>4. /\ o[1] = "out" /\ o[2] = PtHash(v) /\ i[1] = (IF directed THEN "in" ELSE "out")
      /\ i[2] = PtHash(v) /\ directed \in BOOLEAN
  BY <1>1, <1>3, Partitions DEF OutPart, MirrorPart
<1>5. /\ OutRow(v)' = Settled(o, v)' /\ OutRow(v) = Settled(o, v)
      /\ InRow(v)' = Settled(i, v)' /\ InRow(v) = Settled(i, v)
  BY <1>2, <1>3 DEF OutRow, InRow
<1>6. Settled(o, v)' = IF directed THEN PutOwn(Settled(o, v), e, v)
                       ELSE PutOwn(PutOwn(Settled(o, v), e, v), ReverseOf(e), v)
  <2>1. LET first == IF o[1] = "out" THEN PutOwn(Settled(o, v), e, v) ELSE Settled(o, v)
        IN  Settled(o, v)' = IF o[1] = "in" \/ ~directed
                             THEN PutOwn(first, ReverseOf(e), v) ELSE first
    BY <1>4, SubmitSettles
  <2> QED
    BY <1>4, <2>1
<1>7. directed => Settled(i, v)' = PutOwn(Settled(i, v), ReverseOf(e), v)
  <2>1. LET first == IF i[1] = "out" THEN PutOwn(Settled(i, v), e, v) ELSE Settled(i, v)
        IN  Settled(i, v)' = IF i[1] = "in" \/ ~directed
                             THEN PutOwn(first, ReverseOf(e), v) ELSE first
    BY <1>4, SubmitSettles
  <2> QED
    BY <1>4, <2>1
<1>8. ~directed => i = o
  BY <1>3 DEF OutPart, MirrorPart
<1> QED
  BY <1>5, <1>6, <1>7, <1>8

-----------------------------------------------------------------------------
(* The steps of the refinement.                                            *)

(* One list is what the chunks make up, before and after a step.           *)
LEMMA OneListLater ==
    ASSUME IInv, IInv', UNCHANGED setup
    PROVE  /\ AsOneList = ListOf(directed, OutRows, InRows, affected, num_nodes, num_edges)
           /\ AsOneList' = ListOf(directed, OutRows', InRows', affected', num_nodes', num_edges')
<1>1. num_nodes \in 0 .. NumNodes
  BY NumNodesAssumption DEF IInv, TypeOK, Known
<1>2. (num_nodes \in 0 .. NumNodes)'
  BY NumNodesAssumption DEF IInv, TypeOK, Known
<1>3. (AsOneList = ListOf(directed, OutRows, InRows, affected, num_nodes, num_edges))'
  BY <1>2, OneListIs, PTL
<1>4. directed' = directed
  BY SetupFixed
<1> QED
  BY <1>1, <1>3, <1>4, OneListIs

(* A submission is an iteration of the sequential update().                *)
LEMMA SubmitMaps ==
    ASSUME IInv, Fresh, IInv', NEW e \in Submittable(num_nodes), Submit(e)
    PROVE  Fresh' /\ Sequential!Update(e)
<1>1. PICK n \in 0 .. NumNodes, m \in Nat, dir \in BOOLEAN :
        n = num_nodes /\ m = num_edges /\ dir = directed
  BY NumNodesAssumption, Partitions DEF IInv, TypeOK, Known
<1>2. /\ e \in Edge /\ e.source \in NodeID /\ e.destination \in NodeID /\ e.weight \in Weights
      /\ e.sourceExists \in BOOLEAN /\ e.destExists \in BOOLEAN
      /\ n + NewVertices(e) \in 0 .. NumNodes
      /\ e.source <= n /\ (e.sourceExists <=> e.source < n)
      /\ e.destination <= KnownAfter(n, e.source)
      /\ (e.destExists <=> e.destination < KnownAfter(n, e.source))
  BY <1>1, SubmittableTyped DEF Edge
<1>3. PICK s \in NodeID, d \in NodeID, w \in Weights, se \in BOOLEAN, de \in BOOLEAN :
        /\ s = e.source /\ d = e.destination /\ w = e.weight
        /\ se = e.sourceExists /\ de = e.destExists
  BY <1>2
<1>4. PICK n1, n2 : n1 = (IF se THEN n ELSE n + 1) /\ n2 = (IF de THEN n1 ELSE n1 + 1)
  OBVIOUS
<1>5. /\ n1 \in 0 .. NumNodes /\ n2 \in 0 .. NumNodes /\ n <= n1 /\ n1 <= n2
      /\ s < n1 /\ d < n2
      /\ IF se THEN s < n ELSE s = n
      /\ IF de THEN d < n1 ELSE d = n1
      /\ n + NewVertices(e) = n2
  <2>1. s \in 0 .. NumNodes - 1 /\ d \in 0 .. NumNodes - 1 /\ NumNodes \in Nat
    BY NumNodesAssumption DEF NodeID
  <2>2. n1 = KnownAfter(n, s) /\ IF se THEN s < n ELSE s = n
    BY <1>2, <1>3, <1>4, <2>1 DEF KnownAfter
  <2>3. d <= n1 /\ (de <=> d < n1)
    BY <1>2, <1>3, <2>2
  <2>4. n1 \in 0 .. NumNodes /\ n <= n1 /\ s < n1
    BY <1>4, <2>1, <2>2
  <2>5. n + NewVertices(e) = n2
    BY <1>3, <1>4, <2>1 DEF NewVertices
  <2> QED
    BY <1>4, <2>1, <2>2, <2>3, <2>4, <2>5
<1>6. /\ UNCHANGED setup /\ num_edges' = m + 2 /\ num_nodes' = n2
      /\ affected' = [affected EXCEPT ![s] = TRUE, ![d] = TRUE]
  BY <1>1, <1>3, <1>5 DEF Submit
<1>7. PICK out \in [NodeID -> Seq(Neighbor)], in \in [NodeID -> Seq(Neighbor)],
           marks \in [NodeID -> BOOLEAN] :
        out = OutRows /\ in = InRows /\ marks = affected
  BY RowsTyped DEF IInv, TypeOK
<1>8. \A v \in NodeID : v >= n => out[v] = <<>> /\ in[v] = <<>>
  BY <1>1, <1>7 DEF Fresh, OutRows, InRows
<1>9. PICK t \in BOOLEAN, i \in BOOLEAN : t = TRUE /\ i = ~dir
  OBVIOUS
<1>10. PICK out1, marks1 : out1 = With(out, s, Put(out[s], d, w)) /\ marks1 = With(marks, s, TRUE)
  OBVIOUS
<1>11. PICK a : a = Sequential!Examine(ListOf(dir, out, in, marks, n, m), s, d, w, se, t)
  OBVIOUS
<1>12. a = ListOf(dir, out1, in, marks1, n1, m + 1)
  <2>1. IF se THEN s < n ELSE s = n /\ out[s] = <<>> /\ in[s] = <<>>
    BY <1>5, <1>8 DEF NodeID
  <2>2. ListParts(dir, out, in, marks, n, m) /\ EndFits(dir, out, in, n, s, d, w, se, t)
    BY <1>9, <2>1 DEF ListParts, EndFits
  <2>3. a = ListOf(dir, OutAfter(t, out, s, d, w), InAfter(t, in, s, d, w),
                   Marked(marks, s), KnownThen(se, n), m + 1)
    BY <1>11, <2>2, ExamineList
  <2> QED
    BY <1>4, <1>9, <1>10, <2>3 DEF OutAfter, InAfter, Marked, KnownThen
<1>13. /\ out1 \in [NodeID -> Seq(Neighbor)] /\ marks1 \in [NodeID -> BOOLEAN]
       /\ out1[s] = Put(out[s], d, w) /\ \A v \in NodeID : v # s => out1[v] = out[v]
  <2>1. Put(out[s], d, w) \in Seq(Neighbor)
    BY PutTyped
  <2> QED
    BY <1>10, <2>1 DEF With
<1>14. PICK out2, in2, marks2 :
        /\ out2 = IF i THEN With(out1, d, Put(out1[d], s, w)) ELSE out1
        /\ in2 = IF i THEN in ELSE With(in, d, Put(in[d], s, w))
        /\ marks2 = With(marks1, d, TRUE)
  OBVIOUS
<1>15. PICK b : b = Sequential!Examine(a, d, s, w, de, i)
  OBVIOUS
<1>16. b = ListOf(dir, out2, in2, marks2, n2, m + 2)
  <2>1. IF de THEN d < n1 ELSE d = n1 /\ out1[d] = <<>> /\ in[d] = <<>>
    <3>1. ASSUME ~de PROVE d >= n /\ d # s
      BY <1>5, <3>1 DEF NodeID
    <3> QED
      BY <1>5, <1>8, <1>13, <3>1
  <2>2. /\ ListParts(dir, out1, in, marks1, n1, m + 1)
        /\ EndFits(dir, out1, in, n1, d, s, w, de, i)
    <3>1. ~dir => i
      BY <1>9
    <3>2. EndFits(dir, out1, in, n1, d, s, w, de, i)
      BY <2>1, <3>1 DEF EndFits
    <3>3. m + 1 \in Nat
      OBVIOUS
    <3> QED
      BY <1>5, <1>13, <3>2, <3>3 DEF ListParts
  <2>3. Sequential!Examine(ListOf(dir, out1, in, marks1, n1, m + 1), d, s, w, de, i)
        = ListOf(dir, OutAfter(i, out1, d, s, w), InAfter(i, in, d, s, w),
                 Marked(marks1, d), KnownThen(de, n1), (m + 1) + 1)
    BY <2>2, ExamineList
  <2>4. (m + 1) + 1 = m + 2
    OBVIOUS
  <2> QED
    BY <1>4, <1>12, <1>14, <1>15, <2>3, <2>4 DEF OutAfter, InAfter, Marked, KnownThen
<1>17. \A v \in NodeID : /\ PutOwn(out[v], e, v) = IF v = s THEN Put(out[v], d, w) ELSE out[v]
                         /\ \A row : PutOwn(row, ReverseOf(e), v)
                                       = IF v = d THEN Put(row, s, w) ELSE row
  BY <1>3 DEF PutOwn, ReverseOf
<1>18. \A v \in NodeID :
         /\ OutRow(v)' = IF dir THEN out1[v] ELSE PutOwn(out1[v], ReverseOf(e), v)
         /\ dir => InRow(v)' = PutOwn(in[v], ReverseOf(e), v)
         /\ ~dir => InRow(v)' = OutRow(v)'
  <2>1. ASSUME NEW v \in NodeID PROVE out[v] = OutRow(v) /\ in[v] = InRow(v)
    BY <1>7 DEF OutRows, InRows
  <2>2. ASSUME NEW v \in NodeID PROVE out1[v] = PutOwn(OutRow(v), e, v)
    BY <1>13, <1>17, <2>1
  <2> QED
    BY <1>1, <1>2, <2>1, <2>2, SubmitRows
<1>19. OutRows' = out2
  <2>1. ASSUME NEW v \in NodeID PROVE OutRow(v)' = out2[v]
    <3>1. CASE dir
      BY <1>9, <1>14, <1>18, <3>1
    <3>2. CASE ~dir
      <4>1. out2 = With(out1, d, Put(out1[d], s, w))
        BY <1>9, <1>14, <3>2
      <4>2. out2[v] = IF v = d THEN Put(out1[d], s, w) ELSE out1[v]
        BY <1>13, <4>1 DEF With
      <4> QED
        BY <1>17, <1>18, <3>2, <4>2
    <3> QED
      BY <3>1, <3>2
  <2>2. out2 = [v \in NodeID |-> out2[v]]
    <3>1. CASE i
      BY <1>13, <1>14, <3>1 DEF With
    <3>2. CASE ~i
      BY <1>13, <1>14, <3>2
    <3> QED
      BY <3>1, <3>2
  <2> QED
    BY <2>1, <2>2 DEF OutRows
<1>20. dir => InRows' = in2
  <2> SUFFICES ASSUME dir PROVE InRows' = in2
    OBVIOUS
  <2>1. in2 = With(in, d, Put(in[d], s, w))
    BY <1>9, <1>14
  <2>2. in2 = [v \in NodeID |-> IF v = d THEN Put(in[d], s, w) ELSE in[v]]
    BY <2>1 DEF With
  <2>3. ASSUME NEW v \in NodeID PROVE InRow(v)' = IF v = d THEN Put(in[d], s, w) ELSE in[v]
    BY <1>17, <1>18
  <2> QED
    BY <2>2, <2>3 DEF InRows
<1>21. affected' = marks2
  <2>1. marks1 = [marks EXCEPT ![s] = TRUE]
    BY <1>10 DEF With
  <2>2. marks2 = [marks1 EXCEPT ![d] = TRUE]
    BY <1>14 DEF With
  <2> QED
    BY <1>6, <1>7, <2>1, <2>2
<1>22. AsOneList' = b /\ AsOneList = ListOf(dir, out, in, marks, n, m)
  <2>1. /\ AsOneList = ListOf(dir, out, in, marks, n, m)
        /\ AsOneList' = ListOf(dir, OutRows', InRows', affected', n2, m + 2)
    BY <1>1, <1>6, <1>7, OneListLater
  <2>2. ListOf(dir, OutRows', InRows', affected', n2, m + 2) = ListOf(dir, out2, in2, marks2, n2, m + 2)
    BY <1>19, <1>20, <1>21 DEF ListOf
  <2> QED
    BY <1>16, <2>1, <2>2
<1>23. Sequential!Update(e)
  <2>1. Sequential!ExamineSource(AsOneList, e) = a
    BY <1>3, <1>9, <1>11, <1>22 DEF Sequential!ExamineSource
  <2>2. a.directed = dir
    BY <1>12 DEF ListOf
  <2>3. Sequential!ExamineDestination(a, e) = b
    BY <1>3, <1>9, <1>15, <2>2 DEF Sequential!ExamineDestination
  <2> QED
    BY <1>22, <2>1, <2>3 DEF Sequential!Update
<1>24. Fresh'
  <2> SUFFICES ASSUME NEW v \in NodeID, v >= n2 PROVE OutRow(v)' = <<>> /\ InRow(v)' = <<>>
    BY <1>6 DEF Fresh
  <2>1. v >= n /\ v # s /\ v # d
    BY <1>5 DEF NodeID
  <2>2. out[v] = <<>> /\ in[v] = <<>> /\ out1[v] = <<>>
    BY <1>8, <1>13, <2>1
  <2> QED
    BY <1>17, <1>18, <2>1, <2>2
<1> QED
  BY <1>23, <1>24

LEMMA InitiallyMapped == ASSUME Init PROVE IInv /\ Fresh /\ Sequential!Init
<1>1. /\ setup \in Setups /\ neighbors = [p \in Part |-> [i \in LocalIndex |-> <<>>]]
      /\ q = [p \in Part |-> <<>>] /\ el = [p \in Part |-> <<>>] /\ main = "idle"
      /\ num_nodes = 0 /\ num_edges = 0
  BY DEF Init
<1>2. ASSUME NEW p \in Part, NEW v \in NodeID PROVE Settled(p, v) = <<>>
  <2>1. PICK s : s = <<>>
    OBVIOUS
  <2>2. Pending(p) = s /\ neighbors[p][HashWithinChunk(v)] = s /\ s \in Seq(Neighbor)
    BY <1>1, <2>1, Partitions DEF Pending, InFlight
  <2>3. Applied(s, <<>>, v) = s
    BY <2>2, AppliedEmpty
  <2> QED
    BY <2>1, <2>2, <2>3 DEF Settled
<1>3. Fresh
  BY <1>1, <1>2, Partitions DEF Fresh, OutRow, InRow
<1>4. AsOneList = [directed |-> directed, out_neighbors |-> <<>>, in_neighbors |-> <<>>,
                   affected |-> <<>>, property |-> 0, num_nodes |-> 0, num_edges |-> 0]
  <2>1. ASSUME NEW f PROVE [i \in 1 .. 0 |-> f[i]] = <<>>
    OBVIOUS
  <2> QED
    BY <1>1 DEF AsOneList
<1>5. directed \in {s[1] : s \in Setups}
  BY <1>1 DEF directed
<1> QED
  BY <1>3, <1>4, <1>5, Initially DEF Sequential!Init

LEMMA ClearMaps ==
    ASSUME IInv, Fresh, IInv', ClearAffected
    PROVE  Fresh' /\ Sequential!ClearAffected
<1>1. /\ UNCHANGED <<setup, num_nodes, num_edges>>
      /\ affected' = [v \in NodeID |-> FALSE]
      /\ num_nodes \in 0 .. NumNodes /\ affected \in [NodeID -> BOOLEAN]
  BY NumNodesAssumption DEF ClearAffected, IInv, TypeOK, Known
<1>2. \A p \in Part, v \in NodeID : p[2] = PtHash(v) => Settled(p, v)' = Settled(p, v)
  BY BatchSettles
<1>3. Fresh' /\ OutRows' = OutRows /\ InRows' = InRows
  BY <1>1, <1>2, ListAlike
<1>4. /\ AsOneList = ListOf(directed, OutRows, InRows, affected, num_nodes, num_edges)
      /\ AsOneList' = ListOf(directed, OutRows, InRows, affected', num_nodes, num_edges)
  BY <1>1, <1>3, OneListLater
<1>5. PICK list : list = AsOneList
  OBVIOUS
<1>6. /\ list.affected = FirstOf(affected, num_nodes)
      /\ AsOneList' = [list EXCEPT !.affected = FirstOf(affected', num_nodes)]
  BY <1>4, <1>5 DEF ListOf
<1>7. FirstOf(affected', num_nodes) = [i \in DOMAIN list.affected |-> FALSE]
  <2>1. \A i \in 1 .. num_nodes : i - 1 \in NodeID
    BY <1>1, NumNodesAssumption DEF NodeID
  <2>2. FirstOf(affected', num_nodes) = [i \in 1 .. num_nodes |-> FALSE]
    BY <1>1, <2>1 DEF FirstOf
  <2>3. DOMAIN list.affected = 1 .. num_nodes
    BY <1>6 DEF FirstOf
  <2> QED
    BY <2>2, <2>3
<1>8. Sequential!ClearAffected
  BY <1>5, <1>6, <1>7 DEF Sequential!ClearAffected
<1> QED
  BY <1>3, <1>8

(* Every other step changes nothing that the sequential list shows.        *)
LEMMA OthersInvisible ==
    ASSUME IInv, Fresh, IInv',
           \/ Spawn \/ Finish \/ Join \/ Mirror
           \/ \E p \in Part : DequeueLoop(p)
           \/ UNCHANGED vars
    PROVE  Fresh' /\ AsOneList' = AsOneList
<1>1. UNCHANGED <<setup, num_nodes, num_edges, affected>>
  BY DEF Spawn, Finish, Join, Mirror, DequeueLoop, Acquire, Wait, Drain, Insert, Exit,
         counters, vars
<1>2. ASSUME NEW p \in Part, NEW v \in NodeID, p[2] = PtHash(v)
      PROVE  Settled(p, v)' = Settled(p, v)
  <2>1. CASE Spawn \/ Finish \/ Join
    BY <2>1, BatchSettles
  <2>2. CASE Mirror
    BY <2>2, MirrorSettles
  <2>3. CASE \E r \in Part : DequeueLoop(r)
    BY <1>2, <2>3, PollSettles, DrainSettles, InsertSettles DEF DequeueLoop
  <2>4. CASE UNCHANGED vars
    <3>1. UNCHANGED <<setup, neighbors, q, el, reverse, main>>
      BY <2>4 DEF vars
    <3>2. InFlight(p)' = InFlight(p)
      BY <3>1 DEF InFlight
    <3>3. Pending(p)' = Pending(p)
      BY <3>1, <3>2, SetupFixed DEF Pending, MirrorPart, PtHash
    <3> QED
      BY <3>1, <3>3, SettledAlike
  <2> QED
    BY <2>1, <2>2, <2>3, <2>4
<1> QED
  BY <1>1, <1>2, ListAlike

(* The chunks, their queues and their threads implement the adjacency list *)
(* of a single thread: each submission is one of its updates, with the     *)
(* edge submitted, and what the threads do cannot be seen in the rows.     *)
THEOREM SequentialImplemented == Spec => ImplementsAdList
<1>1. Init => Sequential!Init /\ Fresh
  BY InitiallyMapped
<1>2. ASSUME IInv, Fresh, IInv', [Next]_vars
      PROVE  /\ Fresh' /\ [Sequential!Next]_AsOneList
             /\ [\A e \in Submittable(num_nodes) : Submit(e) => Sequential!Update(e)]_vars
  <2>1. ASSUME NEW e \in Submittable(num_nodes), Submit(e)
        PROVE  Fresh' /\ Sequential!Update(e)
    BY <1>2, <2>1, SubmitMaps
  <2>2. ASSUME SubmitNext PROVE Fresh' /\ Sequential!Next
    <3>1. PICK e \in Submittable(num_nodes) : num_edges < 2 * MaxEdges /\ Submit(e)
      BY <2>2 DEF SubmitNext
    <3>2. AsOneList.num_nodes = num_nodes /\ AsOneList.num_edges = num_edges
      BY DEF AsOneList
    <3>3. e \in Sequential!Submittable(num_nodes)
      BY DEF Submittable, EdgeOf, KnownAfter, NodeID, Sequential!Submittable, Sequential!EdgeOf,
             Sequential!KnownAfter, Sequential!NodeID
    <3> QED
      BY <2>1, <3>1, <3>2, <3>3 DEF Sequential!Next
  <2>3. ASSUME ClearAffected PROVE Fresh' /\ Sequential!Next
    BY <1>2, <2>3, ClearMaps DEF Sequential!Next
  <2>4. ASSUME \/ Spawn \/ Finish \/ Join \/ Mirror
               \/ \E p \in Part : DequeueLoop(p)
               \/ UNCHANGED vars
        PROVE  Fresh' /\ AsOneList' = AsOneList
    BY <1>2, <2>4, OthersInvisible
  <2>5. Fresh' /\ [Sequential!Next]_AsOneList
    BY <1>2, <2>2, <2>3, <2>4 DEF Next, UpdateLoop
  <2> QED
    BY <2>1, <2>5
<1> QED
  BY <1>1, <1>2, InductiveInvariant, PTL DEF Spec, ImplementsAdList, Sequential!Spec
=============================================================================
