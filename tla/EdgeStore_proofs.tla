--------------------------- MODULE EdgeStore_proofs --------------------------
(***************************************************************************)
(* Proofs about the two structures that a single thread per partition      *)
(* updates and that keep what the abstract EdgeStore promises, for any     *)
(* number of vertices, weights and edges: AdList, whose single thread      *)
(* appends to rows, and Darhh, whose threads move edges between Robin Hood *)
(* tables.                                                                 *)
(***************************************************************************)
EXTENDS AdList, Darhh, SequenceTheorems, FiniteSetTheorems,
        WellFoundedInduction, TLAPS

-----------------------------------------------------------------------------
(* adList.h                                                                *)


-----------------------------------------------------------------------------
(* Edges that are submitted, and rows.                                     *)

(* An edge that is submitted is an edge, and it uses at most the next IDs. *)
LEMMA SubmittableTyped ==
    ASSUME NEW known \in 0 .. NumNodes, NEW e \in Submittable(known)
    PROVE  /\ e \in Edge
           /\ NewVertices(e) \in 0 .. 2
           /\ known + NewVertices(e) \in 0 .. NumNodes
           /\ e.source <= known /\ (e.sourceExists <=> e.source < known)
           /\ e.destination <= KnownAfter(known, e.source)
           /\ (e.destExists <=> e.destination < KnownAfter(known, e.source))
<1>1. PICK s \in NodeID, d \in NodeID, w \in Weights :
        /\ s <= known /\ d <= KnownAfter(known, s)
        /\ e = EdgeOf(known, s, d, w)
  BY DEF Submittable
<1>2. /\ e = [source |-> s, destination |-> d, weight |-> w,
              sourceExists |-> s < known, destExists |-> d < KnownAfter(known, s)]
      /\ (s < known) \in BOOLEAN /\ (d < KnownAfter(known, s)) \in BOOLEAN
  BY <1>1 DEF EdgeOf
<1>3. e \in Edge
  BY <1>2 DEF Edge
<1>4. /\ e.source = s /\ e.destination = d
      /\ e.sourceExists = (s < known) /\ e.destExists = (d < KnownAfter(known, s))
  BY <1>2
<1>5. NewVertices(e) = (IF s < known THEN 0 ELSE 1)
                          + (IF d < KnownAfter(known, s) THEN 0 ELSE 1)
  BY <1>4 DEF NewVertices
<1>6. /\ NewVertices(e) \in 0 .. 2
      /\ known + NewVertices(e) \in 0 .. NumNodes
  BY <1>1, <1>5, NumNodesAssumption DEF KnownAfter, NodeID
<1> QED
  BY <1>1, <1>3, <1>4, <1>6

(* A search finds a neighbour that the row holds.                          *)
LEMMA FirstFound ==
    ASSUME NEW row \in Seq(Neighbor), NoDuplicates(row), NEW n, Holds(row, n)
    PROVE  \E i \in DOMAIN row : FirstAt(row, n, i)
<1>1. DOMAIN row = 1 .. Len(row) /\ Len(row) \in Nat
  BY LenProperties
<1>2. PICK i \in DOMAIN row : row[i].node = n
  BY DEF Holds
<1>3. \A j \in DOMAIN row : j < i => row[j].node # n
  BY <1>1, <1>2 DEF NoDuplicates
<1> QED
  BY <1>2, <1>3 DEF FirstAt

(* A row in which the search for the neighbour n ended at i (at 0 if it    *)
(* found nothing), and the row after n has been written there.             *)
SearchEnded(row, n, i) ==
    /\ NoDuplicates(row)
    /\ i = 0 => ~Holds(row, n)
    /\ i # 0 => i \in DOMAIN row /\ row[i].node = n
RowAfter(row, n, w, i) ==
    IF i = 0 THEN Append(row, NeighborInfo(n, w))
             ELSE [row EXCEPT ![i] = NeighborInfo(n, w)]

(* Writing keeps the row free of duplicates and touches no other neighbour. *)
LEMMA RowWritten ==
    ASSUME NEW row \in Seq(Neighbor), NEW n \in NodeID, NEW w \in Weights, NEW i \in Nat,
           SearchEnded(row, n, i)
    PROVE  /\ RowAfter(row, n, w, i) \in Seq(Neighbor)
           /\ NoDuplicates(RowAfter(row, n, w, i))
           /\ Holds(RowAfter(row, n, w, i), n)
           /\ \A m : Holds(row, m) => Holds(RowAfter(row, n, w, i), m)
           /\ \A nb \in Content(RowAfter(row, n, w, i)) :
                 nb = NeighborInfo(n, w) \/ (nb \in Content(row) /\ nb.node # n)
<1>1. PICK new : new = RowAfter(row, n, w, i)
  OBVIOUS
<1>2. /\ NoDuplicates(row)
      /\ i = 0 => ~Holds(row, n)
      /\ i # 0 => i \in DOMAIN row /\ row[i].node = n
      /\ new = IF i = 0 THEN Append(row, NeighborInfo(n, w))
                        ELSE [row EXCEPT ![i] = NeighborInfo(n, w)]
  BY <1>1 DEF SearchEnded, RowAfter
<1> DEFINE info == NeighborInfo(n, w)
<1>3. info \in Neighbor /\ info.node = n
  BY DEF NeighborInfo, Neighbor
<1> HIDE DEF info
<1> SUFFICES /\ new \in Seq(Neighbor) /\ NoDuplicates(new) /\ Holds(new, n)
             /\ \A m : Holds(row, m) => Holds(new, m)
             /\ \A nb \in Content(new) :
                   nb = NeighborInfo(n, w) \/ (nb \in Content(row) /\ nb.node # n)
  BY <1>1
<1>4. CASE i = 0
  <2>1. /\ new = Append(row, info) /\ new \in Seq(Neighbor)
        /\ Len(new) = Len(row) + 1 /\ DOMAIN new = 1 .. Len(row) + 1 /\ DOMAIN row = 1 .. Len(row)
        /\ Len(row) \in Nat /\ new[Len(row) + 1] = info
        /\ \A j \in 1 .. Len(row) : new[j] = row[j]
    BY <1>2, <1>3, <1>4 DEF info
  <2>2. /\ \A j \in DOMAIN row : row[j].node # n
        /\ \A j \in DOMAIN new : j = Len(row) + 1 \/ (j \in DOMAIN row /\ new[j] = row[j])
        /\ Len(row) + 1 \in DOMAIN new
        /\ \A j \in DOMAIN row : j \in DOMAIN new /\ new[j] = row[j]
    BY <1>2, <1>4, <2>1 DEF Holds
  <2>3. NoDuplicates(new)
    BY <1>2, <1>3, <2>1, <2>2 DEF NoDuplicates
  <2>4. Holds(new, n) /\ \A m : Holds(row, m) => Holds(new, m)
    BY <1>3, <2>1, <2>2 DEF Holds
  <2>5. \A nb \in Content(new) : nb = info \/ (nb \in Content(row) /\ nb.node # n)
    BY <2>1, <2>2 DEF Content
  <2> QED
    BY <2>1, <2>3, <2>4, <2>5 DEF info
<1>5. CASE i # 0
  <2>1. /\ new = [row EXCEPT ![i] = info] /\ new \in Seq(Neighbor)
        /\ DOMAIN new = DOMAIN row /\ i \in DOMAIN row /\ row[i].node = n /\ new[i] = info
        /\ \A j \in DOMAIN row : j # i => new[j] = row[j]
    <3>1. row \in [1 .. Len(row) -> Neighbor] /\ Len(row) \in Nat /\ DOMAIN row = 1 .. Len(row)
      OBVIOUS
    <3>2. new = [row EXCEPT ![i] = info] /\ i \in 1 .. Len(row) /\ row[i].node = n
      BY <1>2, <1>5, <3>1 DEF info
    <3>3. /\ new \in Seq(Neighbor) /\ Len(new) = Len(row)
          /\ \A j \in 1 .. Len(row) : new[j] = IF j = i THEN info ELSE row[j]
      BY <1>3, <3>2, ExceptSeq
    <3> QED
      BY <3>1, <3>2, <3>3
  <2>2. NoDuplicates(new)
    BY <1>2, <1>3, <2>1 DEF NoDuplicates
  <2>3. Holds(new, n) /\ \A m : Holds(row, m) => Holds(new, m)
    BY <1>3, <2>1 DEF Holds
  <2>4. \A j \in DOMAIN row : j # i => row[j].node # n
    BY <1>2, <2>1 DEF NoDuplicates
  <2>5. \A nb \in Content(new) : nb = info \/ (nb \in Content(row) /\ nb.node # n)
    BY <2>1, <2>4 DEF Content
  <2> QED
    BY <2>1, <2>2, <2>3, <2>5 DEF info
<1> QED
  BY <1>4, <1>5

(* What putting a neighbour into a row without duplicates does: the row    *)
(* lists the new entry, and the entries of the other neighbours as before. *)
LEMMA PutInRow ==
    ASSUME NEW row \in Seq(Neighbor), NoDuplicates(row), NEW n \in NodeID, NEW w \in Weights
    PROVE  /\ Put(row, n, w) \in Seq(Neighbor)
           /\ NoDuplicates(Put(row, n, w))
           /\ Content(Put(row, n, w)) =
                 {NeighborInfo(n, w)} \cup {nb \in Content(row) : nb.node # n}
<1>1. PICK i \in Nat : SearchEnded(row, n, i) /\ Put(row, n, w) = RowAfter(row, n, w, i)
  <2>1. CASE Holds(row, n)
    <3>1. PICK i : i = CHOOSE m \in DOMAIN row : FirstAt(row, n, m)
      OBVIOUS
    <3>2. i \in DOMAIN row /\ FirstAt(row, n, i)
      BY <2>1, <3>1, FirstFound
    <3>3. i \in Nat \ {0} /\ row[i].node = n
      BY <3>2, LenProperties DEF FirstAt
    <3> QED
      BY <2>1, <3>1, <3>2, <3>3 DEF SearchEnded, Put, RowAfter
  <2>2. CASE ~Holds(row, n)
    BY <2>2 DEF SearchEnded, Put, RowAfter
  <2> QED
    BY <2>1, <2>2
<1>2. PICK new : new = Put(row, n, w)
  OBVIOUS
<1>3. /\ new \in Seq(Neighbor) /\ NoDuplicates(new) /\ Holds(new, n)
      /\ \A m : Holds(row, m) => Holds(new, m)
      /\ \A nb \in Content(new) :
            nb = NeighborInfo(n, w) \/ (nb \in Content(row) /\ nb.node # n)
  BY <1>1, <1>2, RowWritten
<1>4. ASSUME NEW m, Holds(new, m)
      PROVE  \E nb \in Content(new) : nb.node = m
  BY <1>4 DEF Holds, Content
<1>5. NeighborInfo(n, w) \in Content(new)
  BY <1>3, <1>4
<1>6. ASSUME NEW nb \in Content(row), nb.node # n
      PROVE  nb \in Content(new)
  <2>1. Holds(row, nb.node)
    BY DEF Holds, Content
  <2>2. PICK nc \in Content(new) : nc.node = nb.node
    BY <1>3, <1>4, <2>1
  <2>3. NeighborInfo(n, w).node = n
    BY DEF NeighborInfo
  <2>4. nc \in Content(row)
    BY <1>3, <1>6, <2>2, <2>3
  <2>5. nc = nb
    BY <2>2, <2>4 DEF NoDuplicates, Content
  <2> QED
    BY <2>2, <2>5
<1> QED
  BY <1>2, <1>3, <1>5, <1>6

-----------------------------------------------------------------------------
Rows == Seq(Seq(Neighbor))
Distinct(rows) == \A v \in DOMAIN rows : NoDuplicates(rows[v])

(* A consistent adjacency list, between any two halves of an edge.         *)
Good(d) ==
    /\ d \in DataStructure
    /\ Len(d.out_neighbors) = d.num_nodes
    /\ Len(d.in_neighbors) = IF d.directed THEN d.num_nodes ELSE 0
    /\ Len(d.affected) = d.num_nodes
    /\ d.property = d.num_nodes
    /\ Distinct(d.out_neighbors) /\ Distinct(d.in_neighbors)

IInv == Good(ds) /\ ds.num_nodes <= NumNodes

(* What the rows hold of vertex v: nothing, if it has no row.              *)
RowOf(rows, v) == IF v + 1 \in DOMAIN rows THEN Content(rows[v + 1]) ELSE {}

(* The rows change only in that v now lists n with weight w.               *)
Linked(rows, new, v, n, w) ==
    /\ new \in Rows /\ Distinct(new)
    /\ \A u \in Nat : RowOf(new, u) =
          IF u = v THEN {NeighborInfo(n, w)} \cup {nb \in RowOf(rows, v) : nb.node # n}
                   ELSE RowOf(rows, u)
(* The rows hold the same as before.                                       *)
Alike(rows, new) ==
    /\ new \in Rows /\ Distinct(new)
    /\ \A u \in Nat : RowOf(new, u) = RowOf(rows, u)

-----------------------------------------------------------------------------
LEMMA RowsTyped ==
    ASSUME NEW rows \in Rows
    PROVE  /\ DOMAIN rows = 1 .. Len(rows) /\ Len(rows) \in Nat
           /\ \A v \in DOMAIN rows : rows[v] \in Seq(Neighbor)
BY LenProperties DEF Rows

(* A row that is overwritten.                                              *)
LEMMA PutLinks ==
    ASSUME NEW rows \in Rows, Distinct(rows), NEW v \in Nat, v + 1 \in DOMAIN rows,
           NEW n \in NodeID, NEW w \in Weights,
           NEW new, new = [rows EXCEPT ![v + 1] = Put(@, n, w)]
    PROVE  Linked(rows, new, v, n, w) /\ Len(new) = Len(rows)
<1>1. PICK row : row = Put(rows[v + 1], n, w)
  OBVIOUS
<1>2. /\ row \in Seq(Neighbor) /\ NoDuplicates(row)
      /\ Content(row) = {NeighborInfo(n, w)} \cup {nb \in Content(rows[v + 1]) : nb.node # n}
  BY <1>1, RowsTyped, PutInRow DEF Distinct
<1>3. /\ new \in Rows /\ DOMAIN new = DOMAIN rows /\ Len(new) = Len(rows)
      /\ new[v + 1] = row /\ \A u \in DOMAIN rows : u # v + 1 => new[u] = rows[u]
  <2>1. new = [rows EXCEPT ![v + 1] = row] /\ v + 1 \in 1 .. Len(rows)
    BY <1>1, RowsTyped
  <2>2. /\ new \in Seq(Seq(Neighbor)) /\ Len(new) = Len(rows)
        /\ \A u \in 1 .. Len(rows) : new[u] = IF u = v + 1 THEN row ELSE rows[u]
    BY <1>2, <2>1, ExceptSeq DEF Rows
  <2> QED
    BY <2>1, <2>2, RowsTyped DEF Rows
<1>4. Distinct(new)
  BY <1>2, <1>3 DEF Distinct
<1>5. \A u \in Nat : RowOf(new, u) =
          IF u = v THEN {NeighborInfo(n, w)} \cup {nb \in RowOf(rows, v) : nb.node # n}
                   ELSE RowOf(rows, u)
  <2> SUFFICES ASSUME NEW u \in Nat
               PROVE  RowOf(new, u) =
                        IF u = v THEN {NeighborInfo(n, w)} \cup {nb \in RowOf(rows, v) : nb.node # n}
                                 ELSE RowOf(rows, u)
    OBVIOUS
  <2>1. CASE u = v
    <3>1. RowOf(new, u) = Content(row) /\ RowOf(rows, v) = Content(rows[v + 1])
      BY <1>3, <2>1 DEF RowOf
    <3> QED
      BY <1>2, <2>1, <3>1
  <2>2. CASE u # v
    <3>1. u + 1 # v + 1
      BY <2>2
    <3> QED
      BY <1>3, <2>2, <3>1 DEF RowOf
  <2> QED
    BY <2>1, <2>2
<1> QED
  BY <1>3, <1>4, <1>5 DEF Linked

(* A row that is added, with one neighbour or with none.                   *)
LEMMA AppendLinks ==
    ASSUME NEW rows \in Rows, Distinct(rows), NEW n \in NodeID, NEW w \in Weights
    PROVE  LET info == <<NeighborInfo(n, w)>> IN
           /\ Linked(rows, Append(rows, info), Len(rows), n, w)
           /\ Len(Append(rows, info)) = Len(rows) + 1
           /\ Alike(rows, Append(rows, <<>>))
           /\ Len(Append(rows, <<>>)) = Len(rows) + 1
<1>1. ASSUME NEW row \in Seq(Neighbor), NoDuplicates(row)
      PROVE  /\ Append(rows, row) \in Rows /\ Distinct(Append(rows, row))
             /\ Len(Append(rows, row)) = Len(rows) + 1
             /\ \A u \in Nat : RowOf(Append(rows, row), u) =
                   IF u = Len(rows) THEN Content(row) ELSE RowOf(rows, u)
  <2>1. PICK new : new = Append(rows, row)
    OBVIOUS
  <2>2. /\ new \in Rows /\ DOMAIN new = 1 .. Len(rows) + 1 /\ Len(new) = Len(rows) + 1
        /\ DOMAIN rows = 1 .. Len(rows) /\ Len(rows) \in Nat
        /\ new[Len(rows) + 1] = row /\ \A u \in 1 .. Len(rows) : new[u] = rows[u]
    BY <1>1, <2>1 DEF Rows
  <2>3. Distinct(new)
    <3> SUFFICES ASSUME NEW u \in 1 .. Len(rows) + 1 PROVE NoDuplicates(new[u])
      BY <2>2 DEF Distinct
    <3>1. CASE u = Len(rows) + 1
      BY <1>1, <2>2, <3>1
    <3>2. CASE u \in 1 .. Len(rows)
      BY <2>2, <3>2 DEF Distinct
    <3> QED
      BY <2>2, <3>1, <3>2
  <2>4. \A u \in Nat : RowOf(new, u) = IF u = Len(rows) THEN Content(row) ELSE RowOf(rows, u)
    <3> SUFFICES ASSUME NEW u \in Nat
                 PROVE  RowOf(new, u) = IF u = Len(rows) THEN Content(row) ELSE RowOf(rows, u)
      OBVIOUS
    <3>1. PICK l \in Nat : l = Len(rows)
      BY <2>2
    <3>2. CASE u = l
      BY <2>2, <3>1, <3>2 DEF RowOf
    <3>3. CASE u < l
      <4>1. u + 1 \in 1 .. l /\ u + 1 \in 1 .. l + 1
        BY <3>3
      <4>2. new[u + 1] = rows[u + 1]
        BY <2>2, <3>1, <4>1
      <4> QED
        BY <2>2, <3>1, <3>3, <4>1, <4>2 DEF RowOf
    <3>4. CASE u > l
      <4>1. u + 1 \notin DOMAIN new /\ u + 1 \notin DOMAIN rows
        BY <2>2, <3>1, <3>4
      <4>2. RowOf(new, u) = {} /\ RowOf(rows, u) = {} /\ u # Len(rows)
        BY <3>1, <3>4, <4>1 DEF RowOf
      <4> QED
        BY <4>2
    <3> QED
      BY <3>1, <3>2, <3>3, <3>4
  <2> QED
    BY <2>1, <2>2, <2>3, <2>4
<1>2. RowOf(rows, Len(rows)) = {}
  BY RowsTyped DEF RowOf
<1>3. PICK info : info = <<NeighborInfo(n, w)>>
  OBVIOUS
<1>4. info \in Seq(Neighbor) /\ NoDuplicates(info) /\ Content(info) = {NeighborInfo(n, w)}
  BY <1>3 DEF NoDuplicates, Content, NeighborInfo, Neighbor
<1>5. <<>> \in Seq(Neighbor) /\ NoDuplicates(<<>>) /\ Content(<<>>) = {}
  BY DEF NoDuplicates, Content
<1>6. /\ Linked(rows, Append(rows, info), Len(rows), n, w)
      /\ Len(Append(rows, info)) = Len(rows) + 1
  BY <1>1, <1>2, <1>4 DEF Linked
<1>7. Alike(rows, Append(rows, <<>>)) /\ Len(Append(rows, <<>>)) = Len(rows) + 1
  BY <1>1, <1>2, <1>5 DEF Alike
<1> QED
  BY <1>3, <1>6, <1>7

-----------------------------------------------------------------------------
LEMMA CountVertexFields ==
    ASSUME NEW d, Good(d), NEW own \in NodeID, NEW exists \in BOOLEAN,
           IF exists THEN own < d.num_nodes ELSE own = d.num_nodes
    PROVE  LET c == CountVertex(d, own, exists) IN
           /\ c \in DataStructure
           /\ c.directed = d.directed /\ c.property = d.property
           /\ c.out_neighbors = d.out_neighbors /\ c.in_neighbors = d.in_neighbors
           /\ c.num_edges = d.num_edges + 1
           /\ c.num_nodes = d.num_nodes + (IF exists THEN 0 ELSE 1)
           /\ Len(c.affected) = c.num_nodes
<1>1. /\ d \in DataStructure /\ d.affected \in Seq(BOOLEAN) /\ Len(d.affected) = d.num_nodes
      /\ d.num_nodes \in Nat /\ d.num_edges \in Nat
  BY DEF Good, DataStructure
<1>2. PICK marks : marks = IF exists THEN [d.affected EXCEPT ![own + 1] = TRUE]
                                     ELSE Append(d.affected, TRUE)
  OBVIOUS
<1>3. marks \in Seq(BOOLEAN) /\ Len(marks) = d.num_nodes + (IF exists THEN 0 ELSE 1)
  <2>1. CASE exists
    <3>1. own + 1 \in 1 .. Len(d.affected)
      BY <1>1, <2>1 DEF NodeID
    <3> QED
      BY <1>1, <1>2, <2>1, <3>1, ExceptSeq
  <2>2. CASE ~exists
    BY <1>1, <1>2, <2>2
  <2> QED
    BY <2>1, <2>2
<1>4. PICK c : c = CountVertex(d, own, exists)
  OBVIOUS
<1>5. c = [d EXCEPT !.num_edges = d.num_edges + 1,
                    !.num_nodes = IF exists THEN d.num_nodes ELSE d.num_nodes + 1,
                    !.affected = marks]
  BY <1>1, <1>2, <1>4 DEF CountVertex, DataStructure
<1>6. /\ c.directed = d.directed /\ c.property = d.property
      /\ c.out_neighbors = d.out_neighbors /\ c.in_neighbors = d.in_neighbors
      /\ c.num_edges = d.num_edges + 1
      /\ c.num_nodes = d.num_nodes + (IF exists THEN 0 ELSE 1)
      /\ c.affected = marks
  BY <1>1, <1>5 DEF DataStructure
<1>7. c \in DataStructure
  <2>1. c = [directed |-> d.directed, out_neighbors |-> d.out_neighbors,
             in_neighbors |-> d.in_neighbors, affected |-> marks, property |-> d.property,
             num_nodes |-> IF exists THEN d.num_nodes ELSE d.num_nodes + 1,
             num_edges |-> d.num_edges + 1]
    BY <1>1, <1>5 DEF DataStructure
  <2>2. (IF exists THEN d.num_nodes ELSE d.num_nodes + 1) \in Nat /\ d.num_edges + 1 \in Nat
    BY <1>1
  <2> QED
    BY <1>1, <1>3, <2>1, <2>2 DEF DataStructure
<1> QED
  BY <1>3, <1>4, <1>6, <1>7

(* One half of an iteration of update().                                   *)
LEMMA ExamineLinks ==
    ASSUME NEW d, Good(d), NEW own \in NodeID, NEW other \in NodeID, NEW w \in Weights,
           NEW exists \in BOOLEAN, NEW intoOut \in BOOLEAN, ~d.directed => intoOut,
           IF exists THEN own < d.num_nodes ELSE own = d.num_nodes
    PROVE  LET f == Examine(d, own, other, w, exists, intoOut) IN
           /\ Good(f)
           /\ f.directed = d.directed
           /\ f.num_edges = d.num_edges + 1
           /\ f.num_nodes = d.num_nodes + (IF exists THEN 0 ELSE 1)
           /\ IF intoOut
              THEN /\ Linked(d.out_neighbors, f.out_neighbors, own, other, w)
                   /\ Alike(d.in_neighbors, f.in_neighbors)
                   /\ ~d.directed => f.in_neighbors = d.in_neighbors
              ELSE /\ Linked(d.in_neighbors, f.in_neighbors, own, other, w)
                   /\ Alike(d.out_neighbors, f.out_neighbors)
<1>1. /\ d.directed \in BOOLEAN /\ d.num_nodes \in Nat /\ d.property = d.num_nodes
      /\ d.out_neighbors \in Rows /\ d.in_neighbors \in Rows
      /\ Distinct(d.out_neighbors) /\ Distinct(d.in_neighbors)
      /\ Len(d.out_neighbors) = d.num_nodes
      /\ Len(d.in_neighbors) = IF d.directed THEN d.num_nodes ELSE 0
  BY DirectionsAssumption DEF Good, DataStructure, Rows
<1>2. PICK c : c = CountVertex(d, own, exists)
  OBVIOUS
<1>3. /\ c \in DataStructure
      /\ c.directed = d.directed /\ c.property = d.property
      /\ c.out_neighbors = d.out_neighbors /\ c.in_neighbors = d.in_neighbors
      /\ c.num_edges = d.num_edges + 1
      /\ c.num_nodes = d.num_nodes + (IF exists THEN 0 ELSE 1)
      /\ Len(c.affected) = c.num_nodes
  BY <1>2, CountVertexFields
<1>4. PICK f : f = Examine(d, own, other, w, exists, intoOut)
  OBVIOUS
<1>5. CASE exists
  <2>1. f = UpdateForExistingVertex(c, own, other, w, intoOut)
    BY <1>2, <1>4, <1>5 DEF Examine
  <2>2. own \in Nat /\ own + 1 \in 1 .. d.num_nodes
    BY <1>1, <1>5 DEF NodeID
  <2>3. CASE intoOut
    <3>1. PICK rows : rows = [d.out_neighbors EXCEPT ![own + 1] = Put(@, other, w)]
      OBVIOUS
    <3>2. Linked(d.out_neighbors, rows, own, other, w) /\ Len(rows) = d.num_nodes
      BY <1>1, <2>2, <3>1, PutLinks, RowsTyped
    <3>3. f = [c EXCEPT !.out_neighbors = rows]
      BY <1>3, <2>1, <2>3, <3>1 DEF UpdateForExistingVertex, DataStructure
    <3>4. /\ f \in DataStructure /\ f.out_neighbors = rows /\ f.in_neighbors = d.in_neighbors
          /\ f.directed = d.directed /\ f.property = d.property /\ f.num_edges = c.num_edges
          /\ f.num_nodes = c.num_nodes /\ f.affected = c.affected
      BY <1>3, <3>2, <3>3 DEF DataStructure, Linked, Rows
    <3>5. Alike(d.in_neighbors, f.in_neighbors)
      BY <1>1, <3>4 DEF Alike
    <3>6. Good(f)
      BY <1>1, <1>3, <1>5, <3>2, <3>4 DEF Good, Linked
    <3> QED
      BY <1>3, <1>4, <2>3, <3>2, <3>4, <3>5, <3>6
  <2>4. CASE ~intoOut
    <3>1. PICK rows : rows = [d.in_neighbors EXCEPT ![own + 1] = Put(@, other, w)]
      OBVIOUS
    <3>2. Linked(d.in_neighbors, rows, own, other, w) /\ Len(rows) = d.num_nodes
      BY <1>1, <2>2, <2>4, <3>1, PutLinks, RowsTyped
    <3>3. f = [c EXCEPT !.in_neighbors = rows]
      BY <1>3, <2>1, <2>4, <3>1 DEF UpdateForExistingVertex, DataStructure
    <3>4. /\ f \in DataStructure /\ f.in_neighbors = rows /\ f.out_neighbors = d.out_neighbors
          /\ f.directed = d.directed /\ f.property = d.property /\ f.num_edges = c.num_edges
          /\ f.num_nodes = c.num_nodes /\ f.affected = c.affected
      BY <1>3, <3>2, <3>3 DEF DataStructure, Linked, Rows
    <3>5. Alike(d.out_neighbors, f.out_neighbors)
      BY <1>1, <3>4 DEF Alike
    <3>6. Good(f)
      BY <1>1, <1>3, <1>5, <2>4, <3>2, <3>4 DEF Good, Linked
    <3> QED
      BY <1>3, <1>4, <2>4, <3>2, <3>4, <3>5, <3>6
  <2> QED
    BY <2>3, <2>4
<1>6. CASE ~exists
  <2>1. f = UpdateForNewVertex(c, other, w, intoOut)
    BY <1>2, <1>4, <1>6 DEF Examine
  <2>2. own = d.num_nodes
    BY <1>6
  <2>3. PICK out, in :
          /\ out = Append(d.out_neighbors, IF intoOut THEN <<NeighborInfo(other, w)>> ELSE <<>>)
          /\ in = IF d.directed
                  THEN Append(d.in_neighbors, IF intoOut THEN <<>> ELSE <<NeighborInfo(other, w)>>)
                  ELSE d.in_neighbors
    OBVIOUS
  <2>4. /\ out \in Rows /\ in \in Rows /\ Distinct(out) /\ Distinct(in)
        /\ Len(out) = d.num_nodes + 1
        /\ Len(in) = IF d.directed THEN d.num_nodes + 1 ELSE 0
        /\ ~d.directed => in = d.in_neighbors
        /\ IF intoOut
           THEN Linked(d.out_neighbors, out, own, other, w) /\ Alike(d.in_neighbors, in)
           ELSE Linked(d.in_neighbors, in, own, other, w) /\ Alike(d.out_neighbors, out)
    <3>1. CASE intoOut
      <4>1. /\ Linked(d.out_neighbors, out, own, other, w) /\ Len(out) = d.num_nodes + 1
        BY <1>1, <2>2, <2>3, <3>1, AppendLinks
      <4>2. /\ Alike(d.in_neighbors, in)
            /\ Len(in) = IF d.directed THEN d.num_nodes + 1 ELSE 0
        <5>1. CASE d.directed
          BY <1>1, <2>3, <3>1, <5>1, AppendLinks
        <5>2. CASE ~d.directed
          BY <1>1, <2>3, <5>2 DEF Alike
        <5> QED
          BY <5>1, <5>2
      <4> QED
        BY <2>3, <3>1, <4>1, <4>2 DEF Linked, Alike
    <3>2. CASE ~intoOut
      <4>1. Alike(d.out_neighbors, out) /\ Len(out) = d.num_nodes + 1
        BY <1>1, <2>3, <3>2, AppendLinks
      <4>2. /\ Linked(d.in_neighbors, in, own, other, w) /\ d.directed
            /\ Len(in) = d.num_nodes + 1
        BY <1>1, <2>2, <2>3, <3>2, AppendLinks
      <4> QED
        BY <3>2, <4>1, <4>2 DEF Linked, Alike
    <3> QED
      BY <3>1, <3>2
  <2>5. f = [c EXCEPT !.property = d.property + 1, !.out_neighbors = out, !.in_neighbors = in]
    BY <1>3, <2>1, <2>3 DEF UpdateForNewVertex, DataStructure
  <2>6. /\ f \in DataStructure /\ f.in_neighbors = in /\ f.out_neighbors = out
        /\ f.directed = d.directed /\ f.property = d.property + 1 /\ f.num_edges = c.num_edges
        /\ f.num_nodes = c.num_nodes /\ f.affected = c.affected
    <3>1. f = [directed |-> c.directed, out_neighbors |-> out, in_neighbors |-> in,
               affected |-> c.affected, property |-> d.property + 1,
               num_nodes |-> c.num_nodes, num_edges |-> c.num_edges]
      BY <1>3, <2>5 DEF DataStructure
    <3>2. d.property + 1 \in Nat
      BY <1>1
    <3>3. f \in DataStructure
      BY <1>3, <2>4, <3>1, <3>2 DEF DataStructure, Rows
    <3> QED
      BY <1>3, <3>1, <3>3
  <2>7. Good(f)
    BY <1>1, <1>3, <1>6, <2>4, <2>6 DEF Good
  <2> QED
    BY <1>3, <1>4, <2>4, <2>6, <2>7
<1> QED
  BY <1>5, <1>6

-----------------------------------------------------------------------------
(* AsMap stands for the same pairs and weights as the rows.                *)
LEMMA AsMapDomain ==
    ASSUME NEW rows \in Rows, NEW p
    PROVE  p \in DOMAIN AsMap(rows) <=>
              \E v \in Nat : \E nb \in RowOf(rows, v) : p = <<v, nb.node>>
<1> DEFINE pairs == {<<v - 1, nb.node>> :
                        v \in DOMAIN rows, nb \in UNION {Content(rows[u]) : u \in DOMAIN rows}}
<1>1. DOMAIN AsMap(rows) = {x \in pairs : Holds(rows[x[1] + 1], x[2])}
  BY DEF AsMap
<1>2. DOMAIN rows = 1 .. Len(rows) /\ Len(rows) \in Nat
  BY RowsTyped
<1>3. ASSUME p \in DOMAIN AsMap(rows)
      PROVE  \E v \in Nat : \E nb \in RowOf(rows, v) : p = <<v, nb.node>>
  <2>0. p \in pairs /\ Holds(rows[p[1] + 1], p[2])
    BY <1>1, <1>3
  <2>1. PICK v \in DOMAIN rows, na \in UNION {Content(rows[u]) : u \in DOMAIN rows} :
          p = <<v - 1, na.node>>
    BY <2>0
  <2>2. v - 1 \in Nat /\ (v - 1) + 1 = v
    BY <1>2
  <2>3. PICK nb \in Content(rows[v]) : nb.node = na.node
    BY <2>0, <2>1, <2>2 DEF Holds, Content
  <2> QED
    BY <2>1, <2>2, <2>3 DEF RowOf
<1>4. ASSUME NEW v \in Nat, NEW nb \in RowOf(rows, v), p = <<v, nb.node>>
      PROVE  p \in DOMAIN AsMap(rows)
  <2>1. v + 1 \in DOMAIN rows /\ nb \in Content(rows[v + 1]) /\ (v + 1) - 1 = v
    BY <1>2 DEF RowOf
  <2>2. Holds(rows[v + 1], nb.node)
    BY <2>1 DEF Holds, Content
  <2>3. p \in pairs
    <3>1. nb \in UNION {Content(rows[u]) : u \in DOMAIN rows}
      BY <2>1
    <3>2. <<(v + 1) - 1, nb.node>> \in pairs
      BY <2>1, <3>1
    <3> QED
      BY <1>4, <2>1, <3>2
  <2> QED
    BY <1>1, <1>4, <2>2, <2>3
<1> QED
  BY <1>3, <1>4

LEMMA AsMapWeight ==
    ASSUME NEW rows \in Rows, Distinct(rows), NEW v \in Nat, NEW nb \in RowOf(rows, v)
    PROVE  AsMap(rows)[<<v, nb.node>>] = nb.weight
<1>1. <<v, nb.node>> \in DOMAIN AsMap(rows)
  BY AsMapDomain
<1>2. v + 1 \in DOMAIN rows /\ nb \in Content(rows[v + 1]) /\ NoDuplicates(rows[v + 1])
  BY DEF RowOf, Distinct
<1>3. \A nc \in Content(rows[v + 1]) : nc.node = nb.node => nc = nb
  BY <1>2 DEF Content, NoDuplicates
<1>4. PICK p : p = <<v, nb.node>>
  OBVIOUS
<1>5. /\ AsMap(rows)[p] = (CHOOSE nc \in Content(rows[p[1] + 1]) : nc.node = p[2]).weight
      /\ p[1] = v /\ p[2] = nb.node
  BY <1>1, <1>4 DEF AsMap
<1>6. (CHOOSE nc \in Content(rows[v + 1]) : nc.node = nb.node) = nb
  BY <1>2, <1>3
<1> QED
  BY <1>4, <1>5, <1>6

LEMMA AsMapIsFunction ==
    ASSUME NEW rows
    PROVE  AsMap(rows) = [p \in DOMAIN AsMap(rows) |-> AsMap(rows)[p]]
BY DEF AsMap

LEMMA AsMapAlike ==
    ASSUME NEW rows \in Rows, Distinct(rows), NEW new, Alike(rows, new)
    PROVE  AsMap(new) = AsMap(rows)
<1>1. new \in Rows /\ Distinct(new) /\ \A u \in Nat : RowOf(new, u) = RowOf(rows, u)
  BY DEF Alike
<1>2. DOMAIN AsMap(new) = DOMAIN AsMap(rows)
  <2>1. \A p : p \in DOMAIN AsMap(new) <=> p \in DOMAIN AsMap(rows)
    BY <1>1, AsMapDomain
  <2> QED
    BY <2>1
<1>3. ASSUME NEW p \in DOMAIN AsMap(rows)
      PROVE  AsMap(new)[p] = AsMap(rows)[p]
  <2>1. PICK v, nb : v \in Nat /\ nb \in RowOf(rows, v) /\ p = <<v, nb.node>>
    BY AsMapDomain
  <2>2. nb \in RowOf(new, v)
    BY <1>1, <2>1
  <2>3. AsMap(rows)[<<v, nb.node>>] = nb.weight
    BY <2>1, AsMapWeight
  <2>4. AsMap(new)[<<v, nb.node>>] = nb.weight
    BY <1>1, <2>1, <2>2, AsMapWeight
  <2> QED
    BY <2>1, <2>3, <2>4
<1> QED
  BY <1>2, <1>3, AsMapIsFunction

LEMMA AsMapLinked ==
    ASSUME NEW rows \in Rows, Distinct(rows), NEW v \in Nat, NEW n, NEW w,
           NEW new, Linked(rows, new, v, n, w)
    PROVE  AsMap(new) = Store!Updated(AsMap(rows), <<v, n>>, w)
<1>1. PICK info : info = NeighborInfo(n, w)
  OBVIOUS
<1>2. info = NeighborInfo(n, w) /\ info.node = n /\ info.weight = w
  BY <1>1 DEF NeighborInfo
<1>3. /\ new \in Rows /\ Distinct(new)
      /\ \A nb : nb \in RowOf(new, v) <=> nb = info \/ (nb \in RowOf(rows, v) /\ nb.node # n)
      /\ \A u \in Nat : u # v => RowOf(new, u) = RowOf(rows, u)
  BY <1>2 DEF Linked
<1>4. PICK map : map = Store!Updated(AsMap(rows), <<v, n>>, w)
  OBVIOUS
<1>5. /\ DOMAIN map = DOMAIN AsMap(rows) \cup {<<v, n>>}
      /\ map[<<v, n>>] = w
      /\ \A p \in DOMAIN AsMap(rows) : p # <<v, n>> => map[p] = AsMap(rows)[p]
      /\ map = [p \in DOMAIN map |-> map[p]]
  BY <1>4 DEF Store!Updated
<1>6. ASSUME NEW p \in DOMAIN AsMap(new)
      PROVE  p \in DOMAIN map /\ AsMap(new)[p] = map[p]
  <2>1. PICK u, nb : u \in Nat /\ nb \in RowOf(new, u) /\ p = <<u, nb.node>>
    BY <1>3, AsMapDomain
  <2>2. AsMap(new)[p] = nb.weight
    BY <1>3, <2>1, AsMapWeight
  <2>3. CASE u = v /\ nb = info
    BY <1>2, <1>5, <2>1, <2>2, <2>3
  <2>4. CASE ~(u = v /\ nb = info)
    <3>1. nb \in RowOf(rows, u) /\ p # <<v, n>>
      BY <1>3, <2>1, <2>4
    <3>2. p \in DOMAIN AsMap(rows)
      BY <2>1, <3>1, AsMapDomain
    <3>3. AsMap(rows)[<<u, nb.node>>] = nb.weight
      BY <2>1, <3>1, AsMapWeight
    <3> QED
      BY <1>5, <2>1, <2>2, <3>1, <3>2, <3>3
  <2> QED
    BY <2>3, <2>4
<1>7. ASSUME NEW p \in DOMAIN map
      PROVE  p \in DOMAIN AsMap(new)
  <2>1. CASE p = <<v, n>>
    <3>1. info \in RowOf(new, v)
      BY <1>3
    <3> QED
      BY <1>2, <1>3, <2>1, <3>1, AsMapDomain
  <2>2. CASE p \in DOMAIN AsMap(rows) /\ p # <<v, n>>
    <3>1. PICK u, nb : u \in Nat /\ nb \in RowOf(rows, u) /\ p = <<u, nb.node>>
      BY <2>2, AsMapDomain
    <3>2. nb \in RowOf(new, u)
      BY <1>3, <2>2, <3>1
    <3> QED
      BY <1>3, <3>1, <3>2, AsMapDomain
  <2> QED
    BY <1>5, <2>1, <2>2
<1>8. DOMAIN AsMap(new) = DOMAIN map
  BY <1>6, <1>7
<1> QED
  BY <1>4, <1>5, <1>6, <1>8, AsMapIsFunction

-----------------------------------------------------------------------------
LEMMA Initially == ASSUME Init PROVE IInv /\ Store!StoreInit
<1>1. PICK d0 \in Directions :
        ds = [directed |-> d0,
              out_neighbors |-> <<>>, in_neighbors |-> <<>>, affected |-> <<>>,
              property |-> 0, num_nodes |-> 0, num_edges |-> 0]
  BY DEF Init
<1>2. /\ ds.directed = d0 /\ ds.out_neighbors = <<>> /\ ds.in_neighbors = <<>>
      /\ ds.affected = <<>> /\ ds.property = 0 /\ ds.num_nodes = 0 /\ ds.num_edges = 0
  BY <1>1
<1>3. <<>> \in Rows /\ Len(<<>>) = 0 /\ <<>> \in Seq(BOOLEAN) /\ Distinct(<<>>)
  BY DEF Rows, Distinct
<1>4. ds \in DataStructure
  BY <1>1, <1>3 DEF DataStructure, Rows
<1>5. IInv
  BY <1>2, <1>3, <1>4, NumNodesAssumption DEF IInv, Good
<1>6. AsMap(<<>>) = [p \in {} |-> 0]
  <2>1. \A v \in Nat : RowOf(<<>>, v) = {}
    BY DEF RowOf
  <2>2. DOMAIN AsMap(<<>>) = {}
    BY <1>3, <2>1, AsMapDomain
  <2> QED
    BY <2>2, AsMapIsFunction
<1> QED
  BY <1>1, <1>2, <1>5, <1>6 DEF Store!StoreInit, Store!Empty

(* An iteration of update() is the insertion of its edge.                  *)
LEMMA UpdateInserts ==
    ASSUME IInv, NEW e \in Submittable(ds.num_nodes), Update(e)
    PROVE  IInv' /\ Store!Insert(e)
<1>1. /\ Good(ds) /\ ds.num_nodes \in 0 .. NumNodes /\ ds.directed \in BOOLEAN
      /\ ds.num_edges \in Nat
      /\ ds.out_neighbors \in Rows /\ ds.in_neighbors \in Rows
      /\ Distinct(ds.out_neighbors) /\ Distinct(ds.in_neighbors)
  BY DirectionsAssumption DEF IInv, Good, DataStructure, Rows
<1>2. /\ e.source \in NodeID /\ e.destination \in NodeID /\ e.weight \in Weights
      /\ e.sourceExists \in BOOLEAN /\ e.destExists \in BOOLEAN
      /\ ds.num_nodes + NewVertices(e) \in 0 .. NumNodes
      /\ e.source <= ds.num_nodes /\ (e.sourceExists <=> e.source < ds.num_nodes)
      /\ e.destination <= KnownAfter(ds.num_nodes, e.source)
      /\ (e.destExists <=> e.destination < KnownAfter(ds.num_nodes, e.source))
  BY <1>1, SubmittableTyped DEF Edge
<1>3. PICK s \in NodeID, d \in NodeID, w \in Weights, se \in BOOLEAN, de \in BOOLEAN :
        /\ s = e.source /\ d = e.destination /\ w = e.weight
        /\ se = e.sourceExists /\ de = e.destExists
  BY <1>2
<1>4. PICK t \in BOOLEAN : t = TRUE
  OBVIOUS
<1>5. PICK a : a = Examine(ds, s, d, w, se, t)
  OBVIOUS
<1>6. /\ Good(a) /\ a.directed = ds.directed /\ a.num_edges = ds.num_edges + 1
      /\ a.num_nodes = ds.num_nodes + (IF se THEN 0 ELSE 1)
      /\ Linked(ds.out_neighbors, a.out_neighbors, s, d, w)
      /\ Alike(ds.in_neighbors, a.in_neighbors)
      /\ ~ds.directed => a.in_neighbors = ds.in_neighbors
  <2>1. IF se THEN s < ds.num_nodes ELSE s = ds.num_nodes
    BY <1>1, <1>2, <1>3 DEF NodeID
  <2>2. ~ds.directed => t
    BY <1>4
  <2>3. /\ Good(a) /\ a.directed = ds.directed /\ a.num_edges = ds.num_edges + 1
        /\ a.num_nodes = ds.num_nodes + (IF se THEN 0 ELSE 1)
        /\ IF t
           THEN /\ Linked(ds.out_neighbors, a.out_neighbors, s, d, w)
                /\ Alike(ds.in_neighbors, a.in_neighbors)
                /\ ~ds.directed => a.in_neighbors = ds.in_neighbors
           ELSE /\ Linked(ds.in_neighbors, a.in_neighbors, s, d, w)
                /\ Alike(ds.out_neighbors, a.out_neighbors)
    BY <1>1, <1>5, <2>1, <2>2, ExamineLinks
  <2> QED
    BY <1>4, <2>3
<1>7. PICK i \in BOOLEAN : i = ~a.directed
  OBVIOUS
<1>8. PICK b : b = Examine(a, d, s, w, de, i)
  OBVIOUS
<1>9. /\ Good(b) /\ b.directed = a.directed /\ b.num_edges = a.num_edges + 1
      /\ b.num_nodes = a.num_nodes + (IF de THEN 0 ELSE 1)
      /\ IF i
         THEN /\ Linked(a.out_neighbors, b.out_neighbors, d, s, w)
              /\ Alike(a.in_neighbors, b.in_neighbors)
              /\ ~a.directed => b.in_neighbors = a.in_neighbors
         ELSE /\ Linked(a.in_neighbors, b.in_neighbors, d, s, w)
              /\ Alike(a.out_neighbors, b.out_neighbors)
  <2>1. IF de THEN d < a.num_nodes ELSE d = a.num_nodes
    BY <1>1, <1>2, <1>3, <1>6 DEF NodeID, KnownAfter
  <2>2. ~a.directed => i
    BY <1>7
  <2> QED
    BY <1>6, <1>8, <2>1, <2>2, ExamineLinks
<1>10. ds' = b
  BY <1>3, <1>4, <1>5, <1>7, <1>8 DEF Update, ExamineSource, ExamineDestination
<1>11. b.num_nodes = ds.num_nodes + NewVertices(e) /\ b.num_edges = ds.num_edges + 2
  BY <1>1, <1>3, <1>6, <1>9 DEF NewVertices
<1>12. IInv'
  BY <1>2, <1>9, <1>10, <1>11 DEF IInv, Good, Distinct, DataStructure
<1>13. /\ s \in Nat /\ d \in Nat
       /\ a.out_neighbors \in Rows /\ Distinct(a.out_neighbors)
       /\ a.in_neighbors \in Rows /\ Distinct(a.in_neighbors)
  BY <1>6 DEF NodeID, Linked, Alike
<1>14. /\ AsMap(a.out_neighbors) = Store!Updated(AsMap(ds.out_neighbors), <<s, d>>, w)
       /\ AsMap(a.in_neighbors) = AsMap(ds.in_neighbors)
  BY <1>1, <1>6, <1>13, AsMapLinked, AsMapAlike
<1>15. /\ AsMap(ds.out_neighbors)' = AsMap(b.out_neighbors)
      /\ AsMap(ds.in_neighbors)' = AsMap(b.in_neighbors)
      /\ Store!NewVertices(e) = NewVertices(e)
  BY <1>10 DEF AsMap, Holds, Content, NewVertices, Store!NewVertices
<1>16. CASE ds.directed
  <2>1. /\ AsMap(b.in_neighbors) = Store!Updated(AsMap(a.in_neighbors), <<d, s>>, w)
        /\ AsMap(b.out_neighbors) = AsMap(a.out_neighbors)
    <3>1. /\ Linked(a.in_neighbors, b.in_neighbors, d, s, w)
          /\ Alike(a.out_neighbors, b.out_neighbors)
      BY <1>6, <1>7, <1>9, <1>16
    <3> QED
      BY <1>13, <3>1, AsMapLinked, AsMapAlike
  <2> QED
    BY <1>3, <1>6, <1>9, <1>10, <1>11, <1>12, <1>14, <1>15, <1>16, <2>1 DEF Store!Insert
<1>17. CASE ~ds.directed
  <2>1. /\ AsMap(b.out_neighbors) = Store!Updated(AsMap(a.out_neighbors), <<d, s>>, w)
        /\ b.in_neighbors = ds.in_neighbors
    <3>1. /\ Linked(a.out_neighbors, b.out_neighbors, d, s, w)
          /\ b.in_neighbors = ds.in_neighbors
      BY <1>6, <1>7, <1>9, <1>17
    <3> QED
      BY <1>13, <3>1, AsMapLinked
  <2> QED
    BY <1>3, <1>6, <1>9, <1>10, <1>11, <1>12, <1>14, <1>15, <1>17, <2>1 DEF Store!Insert
<1> QED
  BY <1>1, <1>16, <1>17

LEMMA ClearAffectedStep ==
    ASSUME IInv, ClearAffected
    PROVE  IInv' /\ UNCHANGED Store!storeVars
<1>1. PICK marks : marks = [i \in DOMAIN ds.affected |-> FALSE]
  OBVIOUS
<1>2. /\ Good(ds) /\ ds \in DataStructure /\ ds.affected \in Seq(BOOLEAN)
      /\ ds' = [ds EXCEPT !.affected = marks]
  BY <1>1 DEF IInv, Good, DataStructure, ClearAffected
<1>3. marks \in Seq(BOOLEAN) /\ Len(marks) = Len(ds.affected)
  <2>1. DOMAIN ds.affected = 1 .. Len(ds.affected) /\ Len(ds.affected) \in Nat
    BY <1>2, LenProperties
  <2>2. marks \in [1 .. Len(ds.affected) -> BOOLEAN]
    BY <1>1, <2>1
  <2> QED
    BY <2>1, <2>2, SeqDef
<1>4. /\ ds'.directed = ds.directed /\ ds'.out_neighbors = ds.out_neighbors
      /\ ds'.in_neighbors = ds.in_neighbors /\ ds'.affected = marks
      /\ ds'.property = ds.property /\ ds'.num_nodes = ds.num_nodes
      /\ ds'.num_edges = ds.num_edges
  BY <1>2 DEF DataStructure
<1>5. ds' \in DataStructure
  BY <1>2, <1>3 DEF DataStructure
<1>6. IInv'
  BY <1>2, <1>3, <1>4, <1>5 DEF IInv, Good, Distinct
<1> QED
  BY <1>4, <1>6 DEF Store!storeVars

-----------------------------------------------------------------------------
(* Between two iterations the object is consistent.                        *)
THEOREM InductiveInvariant == Spec => []IInv
<1>1. IInv /\ [Next]_ds => IInv'
  <2>1. ASSUME IInv, UNCHANGED ds PROVE IInv'
    BY <2>1 DEF IInv, Good, Distinct, DataStructure
  <2> QED
    BY <2>1, UpdateInserts, ClearAffectedStep DEF Next
<1> QED
  BY <1>1, Initially, PTL DEF Spec

(* The object keeps its type, and every vertex known has its row, its mark *)
(* and its property.                                                       *)
THEOREM RowsDense == Spec => [](TypeOK /\ RowPerVertex)
<1>1. IInv => TypeOK /\ RowPerVertex
  BY DEF IInv, Good, TypeOK, RowPerVertex
<1> QED
  BY <1>1, InductiveInvariant, PTL

(* No row lists a neighbour twice, so row sizes are degrees.               *)
THEOREM RowsDistinct == Spec => []NoDuplicateNeighbors
<1>1. IInv => NoDuplicateNeighbors
  BY DEF IInv, Good, Distinct, NoDuplicateNeighbors
<1> QED
  BY <1>1, InductiveInvariant, PTL

(* The rows of adList.h are the map from pairs to weights that the         *)
(* interface promises, and each call inserts the edge it was given.        *)
THEOREM StoreImplemented == Spec => ImplementsEdgeStore
<1>1. Init => Store!StoreInit
  BY Initially
<1>2. IInv /\ [Next]_ds => [Store!StoreNext]_(Store!storeVars)
  <2>1. ASSUME IInv, NEW e \in Submittable(ds.num_nodes), Update(e) PROVE Store!StoreNext
    <3>1. e \in Store!Submittable(ds.num_nodes)
      BY DEF Submittable, EdgeOf, KnownAfter, NodeID, Store!Submittable, Store!EdgeOf,
             Store!KnownAfter, Store!NodeID
    <3> QED
      BY <2>1, <3>1, UpdateInserts DEF Store!StoreNext
  <2>2. ASSUME IInv, ClearAffected PROVE UNCHANGED Store!storeVars
    BY <2>2, ClearAffectedStep
  <2>3. ASSUME UNCHANGED ds PROVE UNCHANGED Store!storeVars
    BY <2>3 DEF Store!storeVars
  <2> QED
    BY <2>1, <2>2, <2>3 DEF Next
<1>3. IInv /\ [Next]_ds =>
        [\A e \in Submittable(ds.num_nodes) : Update(e) => Store!Insert(e)]_ds
  BY UpdateInserts
<1> QED
  BY <1>1, <1>2, <1>3, InductiveInvariant, PTL DEF Spec, ImplementsEdgeStore, Store!StoreSpec

-----------------------------------------------------------------------------
(* rhh.h and darhh.h                                                       *)

(* Modulo, within two laps.                                                *)
LEMMA Wrap ==
    ASSUME NEW c \in Nat \ {0}, NEW x \in 0 .. 2 * c - 1
    PROVE  x % c = IF x < c THEN x ELSE x - c
OBVIOUS

Less == {p \in Nat \X Nat : p[1] < p[2]}

(* A set of naturals has a least element: what the search for the last     *)
(* slot of an insertion, and for the last edge of a pair, stand on.        *)
LEMMA LeastNatural ==
    ASSUME NEW S \in SUBSET Nat, S # {}
    PROVE  \E m \in S : \A n \in S : m <= n
<1>1. IsWellFoundedOn(Less, Nat)
  BY Zenon, NatLessThanWellFounded DEF OpToRel, Less
<1>2. PICK m \in S : \A n \in S : <<n, m>> \notin Less
  BY <1>1, WFMin
<1>3. \A n \in S : n \in Nat /\ m \in Nat /\ ~(n < m)
  BY <1>2 DEF Less
<1> QED
  BY <1>3

(* Induction over the naturals, with a set for the property.               *)
LEMMA SetInduction ==
    ASSUME NEW S, 0 \in S, \A n \in Nat : n \in S => n + 1 \in S
    PROVE  Nat \subseteq S
<1> DEFINE T == Nat \ S
<1>1. SUFFICES ASSUME T # {} PROVE FALSE
  OBVIOUS
<1>2. PICK m \in T : \A n \in T : m <= n
  BY <1>1, LeastNatural
<1>3. m # 0 /\ m - 1 \in Nat /\ m = (m - 1) + 1
  OBVIOUS
<1>4. m - 1 \notin T
  BY <1>2, <1>3
<1> QED
  BY <1>3, <1>4

(* A home is a slot.                                                       *)
LEMMA HashTyped ==
    ASSUME NEW c \in Nat \ {0}, NEW x \in Nat
    PROVE  x % c \in 0 .. c - 1
OBVIOUS

-----------------------------------------------------------------------------
(* Walking around a table.                                                 *)

(* Where a walk of less than a lap ends, and how far that is.              *)
LEMMA Walk ==
    ASSUME NEW t, t.capacity \in Nat \ {0},
           NEW o \in 0 .. t.capacity - 1, NEW d \in 0 .. t.capacity - 1
    PROVE  /\ At(t, o, d) = IF o + d < t.capacity THEN o + d ELSE o + d - t.capacity
           /\ At(t, o, d) \in 0 .. t.capacity - 1
           /\ ProbeDist(t, o, At(t, o, d)) = d
<1>1. PICK c \in Nat \ {0} : c = t.capacity
  OBVIOUS
<1>2. At(t, o, d) = IF o + d < c THEN o + d ELSE o + d - c
  <2>1. PICK x \in 0 .. 2 * c - 1 : x = o + d
    BY <1>1
  <2>2. x % c = IF x < c THEN x ELSE x - c
    BY Zenon, Wrap
  <2> QED
    BY <1>1, <2>1, <2>2 DEF At
<1>3. PICK i \in 0 .. c - 1 : i = At(t, o, d)
  BY <1>1, <1>2
<1>4. PICK x \in 0 .. 2 * c - 1 : x = i + c - o
  BY <1>1
<1>5. x % c = IF x < c THEN x ELSE x - c
  BY Zenon, Wrap
<1>6. ProbeDist(t, o, i) = d
  BY <1>1, <1>2, <1>3, <1>4, <1>5 DEF ProbeDist
<1> QED
  BY <1>1, <1>2, <1>3, <1>6

(* The walk from one slot to another.                                      *)
LEMMA Distance ==
    ASSUME NEW t, t.capacity \in Nat \ {0},
           NEW o \in 0 .. t.capacity - 1, NEW i \in 0 .. t.capacity - 1
    PROVE  /\ ProbeDist(t, o, i) = IF o <= i THEN i - o ELSE i + t.capacity - o
           /\ ProbeDist(t, o, i) \in 0 .. t.capacity - 1
           /\ At(t, o, ProbeDist(t, o, i)) = i
<1>1. PICK c \in Nat \ {0} : c = t.capacity
  OBVIOUS
<1>2. PICK x \in 0 .. 2 * c - 1 : x = i + c - o
  BY <1>1
<1>3. x % c = IF x < c THEN x ELSE x - c
  BY Zenon, Wrap
<1>4. ProbeDist(t, o, i) = IF o <= i THEN i - o ELSE i + c - o
  BY <1>1, <1>2, <1>3 DEF ProbeDist
<1>5. PICK d \in 0 .. c - 1 : d = ProbeDist(t, o, i)
  BY <1>1, <1>4
<1>6. At(t, o, d) = IF o + d < c THEN o + d ELSE o + d - c
  BY <1>1, Walk
<1> QED
  BY <1>1, <1>4, <1>5, <1>6

(* The slot before another.                                                *)
Before(t, i) == (i + t.capacity - 1) % t.capacity

(* The slot before a slot.                                                 *)
LEMMA Behind ==
    ASSUME NEW t, t.capacity \in Nat \ {0}, NEW i \in 0 .. t.capacity - 1
    PROVE  /\ Before(t, i) = IF i = 0 THEN t.capacity - 1 ELSE i - 1
           /\ Before(t, i) \in 0 .. t.capacity - 1
<1>1. PICK c \in Nat \ {0} : c = t.capacity
  OBVIOUS
<1>2. PICK x \in 0 .. 2 * c - 1 : x = i + c - 1
  BY <1>1
<1>3. x % c = IF x < c THEN x ELSE x - c
  BY Zenon, Wrap
<1> QED
  BY <1>1, <1>2, <1>3 DEF Before

(* One slot back is one step less, from any home but the slot itself.      *)
LEMMA OneBack ==
    ASSUME NEW t, t.capacity \in Nat \ {0},
           NEW o \in 0 .. t.capacity - 1, NEW i \in 0 .. t.capacity - 1,
           ProbeDist(t, o, i) > 0
    PROVE  ProbeDist(t, o, Before(t, i)) = ProbeDist(t, o, i) - 1
<1>1. PICK c \in Nat \ {0} : c = t.capacity
  OBVIOUS
<1>2. PICK j \in 0 .. c - 1 : j = Before(t, i) /\ j = IF i = 0 THEN c - 1 ELSE i - 1
  BY <1>1, Behind
<1>3. ProbeDist(t, o, i) = IF o <= i THEN i - o ELSE i + c - o
  BY <1>1, Distance
<1>4. ProbeDist(t, o, j) = IF o <= j THEN j - o ELSE j + c - o
  BY <1>1, Distance
<1> QED
  BY <1>1, <1>2, <1>3, <1>4

-----------------------------------------------------------------------------
(* Tables.                                                                 *)

Keys == {k \in Seq(NodeID) : k # <<>>}

Elem(cap) ==
    {s \in [key : Keys, val : Weights, hash : 0 .. cap - 1, deleted : BOOLEAN] :
        s.hash = s.key[1] % cap}

IsTable(t) ==
    /\ t = [capacity |-> t.capacity, size |-> t.size, arr |-> t.arr]
    /\ t.capacity \in Nat \ {0} /\ t.size \in Nat
    /\ t.arr \in [0 .. t.capacity - 1 -> Elem(t.capacity) \cup {Vacant}]

KeysDistinct(t) ==
    \A i, j \in Occupied(t) : t.arr[i].key = t.arr[j].key => i = j

Orderly(t) == IsTable(t) /\ SortedByHome(t) /\ KeysDistinct(t)

(* An element is no vacancy.                                               *)
LEMMA NotVacant == ASSUME NEW c, NEW s \in Elem(c) PROVE s # Vacant
BY DEF Elem, Vacant

(* What is in a slot that is taken.                                        *)
LEMMA Occupants ==
    ASSUME NEW t, IsTable(t), NEW i \in Occupied(t)
    PROVE  /\ i \in 0 .. t.capacity - 1 /\ t.arr[i] \in Elem(t.capacity)
           /\ t.arr[i].key \in Keys /\ t.arr[i].val \in Weights
           /\ t.arr[i].deleted \in BOOLEAN
           /\ t.arr[i].hash \in 0 .. t.capacity - 1
           /\ t.arr[i].hash = Hash(t, t.arr[i].key)
           /\ Displacement(t, i) \in 0 .. t.capacity - 1
           /\ Displacement(t, i) = ProbeDist(t, t.arr[i].hash, i)
<1>1. i \in 0 .. t.capacity - 1 /\ t.arr[i] \in Elem(t.capacity)
  BY DEF IsTable, Occupied
<1>2. /\ t.arr[i].key \in Keys /\ t.arr[i].val \in Weights
      /\ t.arr[i].deleted \in BOOLEAN
      /\ t.arr[i].hash \in 0 .. t.capacity - 1
      /\ t.arr[i].hash = Hash(t, t.arr[i].key)
  BY <1>1 DEF Elem, Hash
<1>3. Displacement(t, i) \in 0 .. t.capacity - 1
  BY <1>1, <1>2, Distance DEF IsTable, Displacement
<1> QED
  BY <1>1, <1>2, <1>3 DEF Displacement

(* From the home of an element to its slot no slot is vacant, and nobody   *)
(* there is nearer to home than the way so far.                            *)
LEMMA RunFromHome ==
    ASSUME NEW t, Orderly(t), NEW i \in Occupied(t), NEW d \in 0 .. Displacement(t, i)
    PROVE  LET k == At(t, t.arr[i].hash, d) IN
           k \in Occupied(t) /\ Displacement(t, k) >= d
<1>1. IsTable(t) /\ t.capacity \in Nat \ {0}
  BY DEF Orderly, IsTable
<1>2. PICK h \in 0 .. t.capacity - 1 : h = t.arr[i].hash
  BY <1>1, Occupants
<1>3. PICK m \in 0 .. t.capacity - 1 : m = Displacement(t, i) /\ m = ProbeDist(t, h, i)
  BY <1>1, <1>2, Occupants
<1> DEFINE Holding(e) == At(t, h, e) \in Occupied(t) /\ Displacement(t, At(t, h, e)) >= e
           S == {n \in Nat : n <= m => Holding(m - n)}
<1>4. 0 \in S
  <2>1. i \in 0 .. t.capacity - 1
    BY <1>1, Occupants
  <2>2. At(t, h, m) = i
    BY <1>1, <1>3, <2>1, Distance
  <2>3. Displacement(t, At(t, h, m)) = m /\ m >= m
    <3>1. Displacement(t, At(t, h, m)) = m
      BY <1>3, <2>2
    <3>2. m \in Int
      BY <1>1
    <3> QED
      BY <3>1, <3>2
  <2>4. Holding(m)
    BY <2>2, <2>3
  <2> QED
    BY <1>3, <2>4
<1>5. ASSUME NEW n \in Nat, n \in S PROVE n + 1 \in S
  <2> SUFFICES ASSUME n + 1 <= m PROVE Holding(m - (n + 1))
    OBVIOUS
  <2>1. PICK e \in 1 .. m : e = m - n
    OBVIOUS
  <2>2. PICK k \in Occupied(t) : k = At(t, h, e) /\ Displacement(t, k) >= e
    BY <1>5, <2>1
  <2>3. e \in 0 .. t.capacity - 1 /\ k \in 0 .. t.capacity - 1
    BY <1>1, <1>3, <2>2, Occupants
  <2>4. /\ Before(t, k) \in Occupied(t)
        /\ Displacement(t, Before(t, k)) >= Displacement(t, k) - 1
    <3>1. Displacement(t, k) \in Nat /\ Displacement(t, k) > 0
      BY <1>1, <2>1, <2>2, Occupants
    <3> QED
      BY <2>2, <3>1 DEF Orderly, SortedByHome, Before
  <2>5. Before(t, k) = At(t, h, e - 1)
    <3>1. ProbeDist(t, h, k) = e
      BY <1>1, <2>2, <2>3, Walk
    <3>2. ProbeDist(t, h, Before(t, k)) = e - 1
      BY <1>1, <2>1, <2>3, <3>1, OneBack
    <3>3. Before(t, k) \in 0 .. t.capacity - 1
      BY <1>1, <2>3, Behind
    <3> QED
      BY <1>1, <3>2, <3>3, Distance
  <2>6. Holding(e - 1)
    <3>1. Displacement(t, k) \in Nat /\ Displacement(t, Before(t, k)) \in Nat
      BY <1>1, <2>2, <2>4, Occupants
    <3> QED
      BY <2>1, <2>2, <2>4, <2>5, <3>1
  <2> QED
    BY <2>1, <2>6
<1>6. Nat \subseteq S
  <2> HIDE DEF S
  <2> QED
    BY <1>4, <1>5, SetInduction
<1>7. m - d \in Nat /\ m - d <= m /\ m - (m - d) = d
  BY <1>3
<1>8. Holding(m - (m - d))
  <2> HIDE DEF Holding
  <2> QED
    BY <1>6, <1>7
<1> QED
  BY <1>2, <1>7, <1>8

(* In front of a richer element everybody is richer, up to a vacant slot.  *)
LEMMA RicherOnwards ==
    ASSUME NEW t, Orderly(t), NEW o \in 0 .. t.capacity - 1, NEW d \in 1 .. t.capacity - 1,
           Richer(t, o, d - 1), t.arr[At(t, o, d)] # Vacant
    PROVE  Richer(t, o, d)
<1>1. IsTable(t) /\ t.capacity \in Nat \ {0} /\ DOMAIN t.arr = 0 .. t.capacity - 1
  BY DEF Orderly, IsTable
<1>2. PICK c \in Nat \ {0} : c = t.capacity
  BY <1>1
<1>3. d \in 0 .. c - 1 /\ d - 1 \in 0 .. c - 1
  BY <1>2
<1>4. PICK i \in 0 .. c - 1 : i = At(t, o, d) /\ ProbeDist(t, o, i) = d
  BY <1>2, <1>3, Walk
<1>5. PICK j \in 0 .. c - 1 : j = At(t, o, d - 1) /\ ProbeDist(t, o, j) = d - 1
  BY <1>2, <1>3, Walk
<1>6. j = Before(t, i)
  <2>1. PICK b \in 0 .. c - 1 : b = Before(t, i)
    BY <1>2, Behind
  <2>2. ProbeDist(t, o, b) = d - 1
    BY <1>2, <1>3, <1>4, <2>1, OneBack
  <2>3. At(t, o, ProbeDist(t, o, b)) = b
    BY <1>2, Distance
  <2> QED
    BY <1>5, <2>1, <2>2, <2>3
<1>7. i \in Occupied(t) /\ j \in Occupied(t) /\ d - 1 > Displacement(t, j)
  BY <1>1, <1>2, <1>4, <1>5 DEF Richer, Occupied
<1>8. Displacement(t, i) \in 0 .. c - 1 /\ Displacement(t, j) \in 0 .. c - 1
  BY <1>1, <1>2, <1>7, Occupants
<1>9. Displacement(t, i) > 0 => Displacement(t, j) >= Displacement(t, i) - 1
  BY <1>6, <1>7 DEF Orderly, SortedByHome, Before
<1>10. d > Displacement(t, i)
  BY <1>3, <1>7, <1>8, <1>9
<1> QED
  BY <1>4, <1>7, <1>10 DEF Richer, Occupied

(* What insert_elem's loop leaves: the value of a key that was there ...   *)
Overwritten(t, key, val, new, i) ==
    /\ i \in Occupied(t) /\ t.arr[i].key = key
    /\ new = [t EXCEPT !.arr = [j \in DOMAIN t.arr |->
                 IF j = i THEN [t.arr[i] EXCEPT !.val = val, !.deleted = FALSE]
                          ELSE t.arr[j]]]

(* ... or the new element s slots from its home, and the run from there to *)
(* the next slot that is vacant or has a tombstone, e slots from home,     *)
(* moved up by one.                                                        *)
Shifted(t, key, val, o, s, e) ==
    [j \in DOMAIN t.arr |->
        LET d == ProbeDist(t, o, j) IN
        IF d = s THEN Slot(key, val, o)
        ELSE IF s < d /\ d <= e THEN t.arr[At(t, o, d - 1)] ELSE t.arr[j]]

Gap(t, o, s, e) ==
    /\ s \in 0 .. t.capacity - 1 /\ e \in 0 .. t.capacity - 1 /\ s <= e
    /\ \A d \in 0 .. t.capacity - 1 :
          /\ d < s => At(t, o, d) \in Occupied(t) /\ ~Richer(t, o, d)
          /\ s <= d /\ d < e => At(t, o, d) \in Live(t) /\ Richer(t, o, d)
    /\ \/ At(t, o, e) \notin Occupied(t)
       \/ At(t, o, e) \notin Live(t) /\ Richer(t, o, e)

Inserted(t, key, val, new, s, e) ==
    /\ Gap(t, Hash(t, key), s, e)
    /\ \A i \in Occupied(t) : t.arr[i].key # key
    /\ new = [t EXCEPT !.arr = Shifted(t, key, val, Hash(t, key), s, e), !.size = @ + 1]

(* An element with the key of what is to be inserted lies where the search *)
(* passes.                                                                 *)
LEMMA OnTheWay ==
    ASSUME NEW t, Orderly(t), NEW key \in Keys, NEW i \in Occupied(t), t.arr[i].key = key,
           NEW d \in 0 .. t.capacity - 1, d <= ProbeDist(t, Hash(t, key), i)
    PROVE  At(t, Hash(t, key), d) \in Occupied(t) /\ ~Richer(t, Hash(t, key), d)
<1>1. IsTable(t) /\ t.capacity \in Nat \ {0}
  BY DEF Orderly, IsTable
<1>2. PICK c \in Nat \ {0} : c = t.capacity
  BY <1>1
<1>3. t.arr[i].hash = Hash(t, key) /\ Displacement(t, i) = ProbeDist(t, Hash(t, key), i)
      /\ Displacement(t, i) \in 0 .. c - 1
  BY <1>1, <1>2, Occupants
<1>4. d \in 0 .. Displacement(t, i)
  BY <1>2, <1>3
<1>5. PICK k : k = At(t, Hash(t, key), d) /\ k \in Occupied(t) /\ Displacement(t, k) >= d
  BY <1>3, <1>4, RunFromHome
<1>6. Displacement(t, k) \in 0 .. c - 1
  BY <1>1, <1>2, <1>5, Occupants
<1>7. ~(d > Displacement(t, k))
  BY <1>2, <1>5, <1>6
<1> QED
  BY <1>5, <1>7 DEF Richer
(* The names that Place gives to what it looks at.                         *)
Hand(t, key, val, o, d) ==
    LET before == {k \in 0 .. t.capacity - 1 : k < d /\ Richer(t, o, k)} IN
    IF before = {} THEN Slot(key, val, o) ELSE t.arr[At(t, o, Max(before))]
Same(t, key, val, o, d) ==
    t.arr[At(t, o, d)] # Vacant /\ t.arr[At(t, o, d)].key = Hand(t, key, val, o, d).key
Ends(t, key, val, o, d) ==
    \/ t.arr[At(t, o, d)] = Vacant
    \/ Same(t, key, val, o, d)
    \/ Richer(t, o, d) /\ t.arr[At(t, o, d)].deleted
Laid(t, key, val, o, last, d) ==
    IF d = last /\ Same(t, key, val, o, d)
    THEN [t.arr[At(t, o, d)] EXCEPT !.val = Hand(t, key, val, o, d).val, !.deleted = FALSE]
    ELSE Hand(t, key, val, o, d)
Changed(t, o, last) == {last} \cup {d \in 0 .. last - 1 : Richer(t, o, d)}
Placed(t, key, val, o, last) ==
    [t EXCEPT
      !.arr = [i \in DOMAIN t.arr |->
                 IF \E d \in Changed(t, o, last) : i = At(t, o, d)
                 THEN Laid(t, key, val, o, last,
                           CHOOSE d \in Changed(t, o, last) : i = At(t, o, d))
                 ELSE t.arr[i]],
      !.size = IF Same(t, key, val, o, last) THEN @ ELSE @ + 1]

(* Place does what is done when its first ending is at distance last.      *)
LEMMA PlaceIsPlaced ==
    ASSUME NEW t, t.capacity \in Nat \ {0}, NEW key, NEW val,
           NEW last \in 0 .. t.capacity - 1, Ends(t, key, val, Hash(t, key), last),
           \A d \in 0 .. t.capacity - 1 : d < last => ~Ends(t, key, val, Hash(t, key), d)
    PROVE  Place(t, key, val) = Placed(t, key, val, Hash(t, key), last)
<1>1. Place(t, key, val) =
        Placed(t, key, val, Hash(t, key),
               Min({d \in 0 .. t.capacity - 1 : Ends(t, key, val, Hash(t, key), d)}))
  BY Zenon DEF Place, Placed, Changed, Laid, Ends, Same, Hand
<1>2. PICK T \in SUBSET (0 .. t.capacity - 1) :
        T = {d \in 0 .. t.capacity - 1 : Ends(t, key, val, Hash(t, key), d)}
  OBVIOUS
<1>3. last \in T /\ \A y \in T : last <= y
  BY <1>2
<1>4. Min(T) \in T /\ \A y \in T : Min(T) <= y
  <2>1. \E x \in T : \A y \in T : x <= y
    BY <1>3
  <2> QED
    BY Zenon, <2>1 DEF Min
<1>5. Min(T) = last
  <2>1. PICK c \in Nat \ {0} : c = t.capacity
    OBVIOUS
  <2>2. PICK m \in T : m = Min(T) /\ m <= last
    BY <1>3, <1>4
  <2>3. m \in 0 .. c - 1 /\ last \in 0 .. c - 1 /\ last <= m
    BY <1>3, <2>1
  <2> QED
    BY <2>2, <2>3
<1> QED
  BY Zenon, <1>1, <1>2, <1>5

(* Nobody is swapped while nobody is richer.                               *)
LEMMA HandEmptied ==
    ASSUME NEW t, NEW key, NEW val, NEW o, NEW d \in Nat,
           \A k \in 0 .. t.capacity - 1 : k < d => ~Richer(t, o, k)
    PROVE  Hand(t, key, val, o, d) = Slot(key, val, o)
BY DEF Hand

(* In a run of richer elements each is put down one slot further on.       *)
LEMMA HandPassed ==
    ASSUME NEW t, t.capacity \in Nat \ {0}, NEW key, NEW val, NEW o,
           NEW s \in Nat, NEW d \in 0 .. t.capacity - 1, s < d,
           \A k \in 0 .. t.capacity - 1 : s <= k /\ k < d => Richer(t, o, k)
    PROVE  Hand(t, key, val, o, d) = t.arr[At(t, o, d - 1)]
<1>1. PICK T \in SUBSET (0 .. t.capacity - 1) :
        T = {k \in 0 .. t.capacity - 1 : k < d /\ Richer(t, o, k)}
  OBVIOUS
<1>2. PICK c \in Nat \ {0} : c = t.capacity
  OBVIOUS
<1>3. d - 1 \in T /\ \A y \in T : y \in 0 .. c - 1 /\ d - 1 >= y
  BY <1>1, <1>2
<1>4. Max(T) \in T /\ \A y \in T : Max(T) >= y
  <2>1. \E x \in T : \A y \in T : x >= y
    BY <1>3
  <2> QED
    BY Zenon, <2>1 DEF Max
<1>5. Max(T) = d - 1
  <2>1. PICK m \in T : m = Max(T) /\ m >= d - 1
    BY <1>3, <1>4
  <2>2. m \in 0 .. c - 1 /\ d - 1 >= m
    BY <1>3
  <2> QED
    BY <1>2, <2>1, <2>2
<1>6. T # {}
  BY <1>3
<1> QED
  BY Zenon, <1>1, <1>5, <1>6 DEF Hand

(* The key is there: its element is met before anybody richer is.          *)
LEMMA PlaceFound ==
    ASSUME NEW t, Orderly(t), NEW key \in Keys, NEW val, NEW i \in Occupied(t),
           t.arr[i].key = key
    PROVE  Overwritten(t, key, val, Place(t, key, val), i)
<1>1. /\ IsTable(t) /\ t.capacity \in Nat \ {0} /\ DOMAIN t.arr = 0 .. t.capacity - 1
      /\ t = [capacity |-> t.capacity, size |-> t.size, arr |-> t.arr]
  BY DEF Orderly, IsTable
<1>2. PICK c \in Nat \ {0} : c = t.capacity
  BY <1>1
<1>3. PICK o \in 0 .. c - 1 : o = Hash(t, key)
  BY <1>1, <1>2, Occupants
<1>4. i \in 0 .. c - 1
  BY <1>1, <1>2, Occupants
<1>5. PICK m \in 0 .. c - 1 : m = ProbeDist(t, o, i) /\ At(t, o, m) = i
  BY <1>2, <1>3, <1>4, Distance
<1>6. \A d \in 0 .. c - 1 : d <= m => At(t, o, d) \in Occupied(t) /\ ~Richer(t, o, d)
  BY <1>2, <1>3, <1>5, OnTheWay
<1>7. \A d \in 0 .. c - 1 : d <= m => Hand(t, key, val, o, d) = Slot(key, val, o)
  <2> SUFFICES ASSUME NEW d \in 0 .. c - 1, d <= m
               PROVE  Hand(t, key, val, o, d) = Slot(key, val, o)
    OBVIOUS
  <2>1. d \in Nat /\ \A k \in 0 .. c - 1 : k < d => ~Richer(t, o, k)
    BY <1>6
  <2> QED
    BY <1>2, <2>1, HandEmptied
<1>8. Ends(t, key, val, o, m) /\ Same(t, key, val, o, m)
  BY <1>5, <1>7 DEF Ends, Same, Occupied, Slot
<1>9. ASSUME NEW d \in 0 .. c - 1, d < m PROVE ~Ends(t, key, val, o, d)
  <2>1. At(t, o, d) \in Occupied(t) /\ ~Richer(t, o, d)
        /\ Hand(t, key, val, o, d) = Slot(key, val, o)
    BY <1>6, <1>7, <1>9
  <2>2. ProbeDist(t, o, At(t, o, d)) = d
    BY <1>2, <1>3, Walk
  <2>3. At(t, o, d) # i
    BY <1>5, <1>9, <2>2
  <2>4. t.arr[At(t, o, d)].key # key
    BY <2>1, <2>3 DEF Orderly, KeysDistinct
  <2> QED
    BY <2>1, <2>4 DEF Ends, Same, Occupied, Slot
<1>10. Place(t, key, val) = Placed(t, key, val, o, m)
  <2>1. \A d \in 0 .. t.capacity - 1 : d < m => ~Ends(t, key, val, Hash(t, key), d)
    BY <1>2, <1>3, <1>9
  <2>2. Ends(t, key, val, Hash(t, key), m) /\ m \in 0 .. t.capacity - 1
    BY <1>2, <1>3, <1>8
  <2>3. Place(t, key, val) = Placed(t, key, val, Hash(t, key), m)
    BY <1>1, <2>1, <2>2, PlaceIsPlaced
  <2> QED
    BY Zenon, <1>3, <2>3
<1>11. Changed(t, o, m) = {m}
  BY <1>6 DEF Changed
<1>12. Laid(t, key, val, o, m, m) = [t.arr[i] EXCEPT !.val = val, !.deleted = FALSE]
  <2>1. Hand(t, key, val, o, m).val = val /\ t.arr[At(t, o, m)] = t.arr[i]
    BY <1>5, <1>7 DEF Slot
  <2> QED
    BY Zenon, <1>8, <2>1 DEF Laid
<1>13. Placed(t, key, val, o, m) =
         [t EXCEPT !.arr = [j \in DOMAIN t.arr |->
             IF j = i THEN [t.arr[i] EXCEPT !.val = val, !.deleted = FALSE] ELSE t.arr[j]]]
  <2>1. ASSUME NEW j PROVE
          /\ (\E d \in Changed(t, o, m) : j = At(t, o, d)) <=> j = i
          /\ j = i => (CHOOSE d \in Changed(t, o, m) : j = At(t, o, d)) = m
    <3>1. (\E d \in Changed(t, o, m) : j = At(t, o, d)) <=> j = i
      BY Zenon, <1>5, <1>11
    <3>2. ASSUME j = i PROVE (CHOOSE d \in Changed(t, o, m) : j = At(t, o, d)) = m
      <4>1. m \in Changed(t, o, m) /\ j = At(t, o, m) /\ \A d \in Changed(t, o, m) : d = m
        BY Zenon, <1>5, <1>11, <3>2
      <4> QED
        BY Zenon, <4>1
    <3> QED
      BY <3>1, <3>2
  <2>2. [j \in DOMAIN t.arr |->
           IF \E d \in Changed(t, o, m) : j = At(t, o, d)
           THEN Laid(t, key, val, o, m, CHOOSE d \in Changed(t, o, m) : j = At(t, o, d))
           ELSE t.arr[j]]
        = [j \in DOMAIN t.arr |->
             IF j = i THEN [t.arr[i] EXCEPT !.val = val, !.deleted = FALSE] ELSE t.arr[j]]
    BY Zenon, <1>12, <2>1
  <2>3. PICK f : f = [j \in DOMAIN t.arr |->
           IF \E d \in Changed(t, o, m) : j = At(t, o, d)
           THEN Laid(t, key, val, o, m, CHOOSE d \in Changed(t, o, m) : j = At(t, o, d))
           ELSE t.arr[j]]
    OBVIOUS
  <2>4. Placed(t, key, val, o, m) =
          [t EXCEPT !.arr = f, !.size = IF Same(t, key, val, o, m) THEN @ ELSE @ + 1]
    BY Zenon, <2>3 DEF Placed
  <2>5. Placed(t, key, val, o, m) = [t EXCEPT !.arr = f]
    BY <1>1, <1>8, <2>4
  <2> QED
    BY Zenon, <2>2, <2>3, <2>5
<1> QED
  BY Zenon, <1>10, <1>13 DEF Overwritten

(* Where there is room there is a place for a new element.                 *)
LEMMA GapExists ==
    ASSUME NEW t, Orderly(t), HasRoom(t), NEW o \in 0 .. t.capacity - 1
    PROVE  \E s, e \in 0 .. t.capacity - 1 : Gap(t, o, s, e)
<1>1. IsTable(t) /\ t.capacity \in Nat \ {0} /\ DOMAIN t.arr = 0 .. t.capacity - 1
  BY DEF Orderly, IsTable
<1>2. PICK c \in Nat \ {0} : c = t.capacity
  BY <1>1
<1>3. PICK x \in 0 .. c - 1 : x \notin Occupied(t)
  BY <1>1, <1>2 DEF HasRoom, Occupied
<1>4. PICK v \in 0 .. c - 1 : At(t, o, v) \notin Occupied(t)
  <2>1. ProbeDist(t, o, x) \in 0 .. c - 1 /\ At(t, o, ProbeDist(t, o, x)) = x
    BY <1>2, Distance
  <2> QED
    BY <1>3, <2>1
<1> DEFINE P == {d \in 0 .. c - 1 : At(t, o, d) \notin Occupied(t) \/ Richer(t, o, d)}
<1>5. PICK s \in P : \A d \in P : s <= d
  <2>1. P \in SUBSET Nat /\ v \in P
    BY <1>4
  <2> QED
    BY <2>1, LeastNatural
<1> DEFINE Q == {d \in s .. c - 1 : At(t, o, d) \notin Live(t)}
<1>6. s \in 0 .. c - 1 /\ s <= v
  BY <1>4, <1>5
<1>7. PICK e \in Q : \A d \in Q : e <= d
  <2>1. Q \in SUBSET Nat /\ v \in Q
    BY <1>4, <1>6 DEF Live
  <2> QED
    BY <2>1, LeastNatural
<1>8. e \in 0 .. c - 1 /\ s <= e
  BY <1>6, <1>7
<1>9. ASSUME NEW d \in 0 .. c - 1, d < s
      PROVE  At(t, o, d) \in Occupied(t) /\ ~Richer(t, o, d)
  BY <1>5, <1>6, <1>9
<1>10. ASSUME NEW d \in 0 .. c - 1, s <= d, d < e
       PROVE  At(t, o, d) \in Live(t)
  BY <1>6, <1>7, <1>8, <1>10
<1> DEFINE B == {d \in s .. e : At(t, o, d) \in Occupied(t) /\ ~Richer(t, o, d)}
<1>11. B = {}
  <2> SUFFICES ASSUME B # {} PROVE FALSE
    OBVIOUS
  <2>1. PICK b \in B : \A d \in B : b <= d
    <3>1. B \in SUBSET Nat
      BY <1>6
    <3> QED
      BY <3>1, LeastNatural
  <2>2. b # s
    BY <1>5, <2>1
  <2>3. b \in 1 .. c - 1 /\ b - 1 \in 0 .. c - 1 /\ s <= b - 1 /\ b - 1 < e /\ b - 1 \in s .. e
    BY <1>6, <1>8, <2>1, <2>2
  <2>4. At(t, o, b - 1) \in Occupied(t)
    BY <1>10, <2>3 DEF Live
  <2>5. Richer(t, o, b - 1)
    BY <2>1, <2>3, <2>4
  <2>6. t.arr[At(t, o, b)] # Vacant
    BY <2>1 DEF Occupied
  <2>7. Richer(t, o, b)
    BY <1>2, <2>3, <2>5, <2>6, RicherOnwards
  <2> QED
    BY <2>1, <2>7
<1>12. \A d \in s .. e : At(t, o, d) \in Occupied(t) => Richer(t, o, d)
  BY <1>11
<1>13. \A d \in 0 .. c - 1 : s <= d /\ d < e => At(t, o, d) \in Live(t) /\ Richer(t, o, d)
  <2> SUFFICES ASSUME NEW d \in 0 .. c - 1, s <= d, d < e
               PROVE  At(t, o, d) \in Live(t) /\ Richer(t, o, d)
    OBVIOUS
  <2>1. d \in s .. e
    BY <1>6, <1>8
  <2> QED
    BY <1>10, <1>12, <2>1 DEF Live
<1>14. \/ At(t, o, e) \notin Occupied(t)
       \/ At(t, o, e) \notin Live(t) /\ Richer(t, o, e)
  <2>1. e \in s .. e /\ At(t, o, e) \notin Live(t)
    BY <1>6, <1>7, <1>8
  <2> QED
    BY <1>12, <2>1
<1>15. s \in 0 .. t.capacity - 1 /\ e \in 0 .. t.capacity - 1
  BY <1>2, <1>6, <1>8
<1>16. Gap(t, o, s, e)
  <2> HIDE DEF B, Q, P
  <2> QED
    BY <1>2, <1>8, <1>9, <1>13, <1>14, <1>15 DEF Gap
<1> QED
  BY <1>15, <1>16

(* A key is hashed to a slot by its first component, a vertex.             *)
LEMMA KeyHash ==
    ASSUME NEW t, t.capacity \in Nat \ {0}, NEW key \in Keys
    PROVE  key[1] \in NodeID /\ Hash(t, key) \in 0 .. t.capacity - 1
<1>1. key[1] \in NodeID
  BY DEF Keys
<1>2. PICK n \in Nat : n = key[1]
  BY <1>1 DEF NodeID
<1> QED
  BY <1>1, <1>2, HashTyped DEF Hash

(* The key is not there: the run of the richer moves up.                   *)
LEMMA PlaceNew ==
    ASSUME NEW t, Orderly(t), NEW key \in Keys, NEW val, NEW s, NEW e,
           Gap(t, Hash(t, key), s, e), \A i \in Occupied(t) : t.arr[i].key # key
    PROVE  Inserted(t, key, val, Place(t, key, val), s, e)
<1>1. /\ IsTable(t) /\ t.capacity \in Nat \ {0} /\ DOMAIN t.arr = 0 .. t.capacity - 1
      /\ t = [capacity |-> t.capacity, size |-> t.size, arr |-> t.arr]
  BY DEF Orderly, IsTable
<1>2. PICK c \in Nat \ {0} : c = t.capacity
  BY <1>1
<1>3. PICK o \in 0 .. c - 1 : o = Hash(t, key)
  BY <1>1, <1>2, KeyHash
<1>4. /\ s \in 0 .. c - 1 /\ e \in 0 .. c - 1 /\ s <= e
      /\ \A d \in 0 .. c - 1 :
            /\ d < s => At(t, o, d) \in Occupied(t) /\ ~Richer(t, o, d)
            /\ s <= d /\ d < e => At(t, o, d) \in Live(t) /\ Richer(t, o, d)
      /\ \/ At(t, o, e) \notin Occupied(t)
         \/ At(t, o, e) \notin Live(t) /\ Richer(t, o, e)
  BY <1>2, <1>3 DEF Gap
<1>5. \A d \in 0 .. c - 1 : d <= s => Hand(t, key, val, o, d) = Slot(key, val, o)
  <2> SUFFICES ASSUME NEW d \in 0 .. c - 1, d <= s
               PROVE  Hand(t, key, val, o, d) = Slot(key, val, o)
    OBVIOUS
  <2>1. d \in Nat /\ \A k \in 0 .. t.capacity - 1 : k < d => ~Richer(t, o, k)
    BY <1>2, <1>4
  <2> QED
    BY <2>1, HandEmptied
<1>6. \A d \in 0 .. c - 1 : s < d /\ d <= e => Hand(t, key, val, o, d) = t.arr[At(t, o, d - 1)]
  <2> SUFFICES ASSUME NEW d \in 0 .. c - 1, s < d, d <= e
               PROVE  Hand(t, key, val, o, d) = t.arr[At(t, o, d - 1)]
    OBVIOUS
  <2>1. d \in 0 .. t.capacity - 1 /\ s \in Nat
    BY <1>2, <1>4
  <2>2. \A k \in 0 .. t.capacity - 1 : s <= k /\ k < d => Richer(t, o, k)
    BY <1>2, <1>4
  <2> QED
    BY <1>1, <2>1, <2>2, HandPassed
<1>7. \A d \in 0 .. c - 1 : d <= e => ~Same(t, key, val, o, d)
  <2> SUFFICES ASSUME NEW d \in 0 .. c - 1, d <= e
               PROVE  ~Same(t, key, val, o, d)
    OBVIOUS
  <2>1. At(t, o, d) \in DOMAIN t.arr
    BY <1>1, <1>2, Walk
  <2> SUFFICES ASSUME At(t, o, d) \in Occupied(t)
               PROVE  t.arr[At(t, o, d)].key # Hand(t, key, val, o, d).key
    BY <2>1 DEF Same, Occupied
  <2>2. CASE d <= s
    <3>1. Hand(t, key, val, o, d).key = key
      BY <1>5, <2>2 DEF Slot
    <3> QED
      BY <3>1
  <2>3. CASE s < d
    <3>1. Hand(t, key, val, o, d) = t.arr[At(t, o, d - 1)]
      BY <1>6, <2>3
    <3>2. d - 1 \in 0 .. c - 1 /\ s <= d - 1 /\ d - 1 < e
      BY <1>4, <2>3
    <3>3. At(t, o, d - 1) \in Occupied(t)
      BY <1>4, <3>2 DEF Live
    <3>4. ProbeDist(t, o, At(t, o, d - 1)) = d - 1 /\ ProbeDist(t, o, At(t, o, d)) = d
      BY <1>2, <3>2, Walk
    <3>5. At(t, o, d - 1) # At(t, o, d)
      BY <3>4
    <3> QED
      BY <3>1, <3>3, <3>5 DEF Orderly, KeysDistinct
  <2> QED
    BY <1>4, <2>2, <2>3
<1>8. \A d \in 0 .. t.capacity - 1 : d < e => ~Ends(t, key, val, Hash(t, key), d)
  <2> SUFFICES ASSUME NEW d \in 0 .. c - 1, d < e PROVE ~Ends(t, key, val, o, d)
    BY <1>2, <1>3
  <2>1. ~Same(t, key, val, o, d)
    BY <1>4, <1>7
  <2>2. d < s \/ s <= d
    BY <1>4
  <2>3. CASE d < s
    BY <1>4, <2>1, <2>3 DEF Ends, Occupied
  <2>4. CASE s <= d
    BY <1>4, <2>1, <2>4 DEF Ends, Occupied, Live
  <2> QED
    BY <2>2, <2>3, <2>4
<1>9. Ends(t, key, val, Hash(t, key), e) /\ e \in 0 .. t.capacity - 1
  <2>1. At(t, o, e) \in DOMAIN t.arr
    BY <1>1, <1>2, <1>4, Walk
  <2> QED
    BY <1>2, <1>3, <1>4, <2>1 DEF Ends, Occupied, Live
<1>10. Place(t, key, val) = Placed(t, key, val, o, e)
  <2>1. Place(t, key, val) = Placed(t, key, val, Hash(t, key), e)
    BY <1>1, <1>8, <1>9, PlaceIsPlaced
  <2> QED
    BY Zenon, <1>3, <2>1
<1>11. \A d \in 0 .. c - 1 : d \in Changed(t, o, e) <=> s <= d /\ d <= e
  BY <1>4 DEF Changed
<1>12. Changed(t, o, e) \subseteq 0 .. c - 1
  BY <1>4 DEF Changed
<1>13. ASSUME NEW j \in DOMAIN t.arr
       PROVE  (IF \E d \in Changed(t, o, e) : j = At(t, o, d)
               THEN Laid(t, key, val, o, e, CHOOSE d \in Changed(t, o, e) : j = At(t, o, d))
               ELSE t.arr[j])
              = LET d == ProbeDist(t, o, j) IN
                IF d = s THEN Slot(key, val, o)
                ELSE IF s < d /\ d <= e THEN t.arr[At(t, o, d - 1)] ELSE t.arr[j]
  <2>1. PICK m \in 0 .. c - 1 : m = ProbeDist(t, o, j) /\ At(t, o, m) = j
    BY <1>1, <1>2, Distance
  <2>2. \A d \in 0 .. c - 1 : j = At(t, o, d) => d = m
    <3>1. \A d \in 0 .. c - 1 : ProbeDist(t, o, At(t, o, d)) = d
      BY <1>2, Walk
    <3> QED
      BY Zenon, <2>1, <3>1
  <2>3. CASE m \in Changed(t, o, e)
    <3>1. (CHOOSE d \in Changed(t, o, e) : j = At(t, o, d)) = m
      <4>1. \A d \in Changed(t, o, e) : j = At(t, o, d) => d = m
        BY Zenon, <1>12, <2>2
      <4> QED
        BY Zenon, <2>1, <2>3, <4>1
    <3>2. \E d \in Changed(t, o, e) : j = At(t, o, d)
      BY Zenon, <2>1, <2>3
    <3>3. s <= m /\ m <= e
      BY Zenon, <1>11, <2>1, <2>3
    <3>4. Laid(t, key, val, o, e, m) = Hand(t, key, val, o, m)
      BY <1>7, <3>3 DEF Laid
    <3>5. Hand(t, key, val, o, m) =
            IF m = s THEN Slot(key, val, o)
            ELSE IF s < m /\ m <= e THEN t.arr[At(t, o, m - 1)] ELSE t.arr[j]
      <4>1. m = s \/ s < m
        BY <1>4, <3>3
      <4>2. CASE m = s
        BY <1>5, <3>3, <4>2
      <4>3. CASE s < m
        BY <1>4, <1>6, <3>3, <4>3
      <4> QED
        BY <4>1, <4>2, <4>3
    <3> QED
      BY Zenon, <2>1, <3>1, <3>2, <3>4, <3>5
  <2>4. CASE m \notin Changed(t, o, e)
    <3>1. ~\E d \in Changed(t, o, e) : j = At(t, o, d)
      BY Zenon, <1>12, <2>2, <2>4
    <3>2. ~(s <= m /\ m <= e)
      BY Zenon, <1>11, <2>1, <2>4
    <3>3. m # s /\ ~(s < m /\ m <= e)
      BY <1>4, <3>2
    <3> QED
      BY Zenon, <2>1, <3>1, <3>3
  <2> QED
    BY <2>3, <2>4
<1>14. [j \in DOMAIN t.arr |->
          IF \E d \in Changed(t, o, e) : j = At(t, o, d)
          THEN Laid(t, key, val, o, e, CHOOSE d \in Changed(t, o, e) : j = At(t, o, d))
          ELSE t.arr[j]]
       = Shifted(t, key, val, o, s, e)
  BY Zenon, <1>13 DEF Shifted
<1>15. ~Same(t, key, val, o, e)
  BY <1>4, <1>7
<1>16. Placed(t, key, val, o, e) =
         [t EXCEPT !.arr = Shifted(t, key, val, o, s, e), !.size = @ + 1]
  BY Zenon, <1>14, <1>15 DEF Placed
<1> QED
  BY Zenon, <1>3, <1>10, <1>16 DEF Inserted

-----------------------------------------------------------------------------
(* What the loop keeps.                                                    *)

HoldsEntry(t, k, v) == \E i \in Live(t) : t.arr[i].key = k /\ t.arr[i].val = v

(* An insertion that found no element of its key puts it at distance s and *)
(* moves everything up to the end, at distance e, one slot on.             *)
LEMMA InsertedSlots ==
    ASSUME NEW t, Orderly(t), NEW key \in Keys, NEW val, NEW new,
           NEW s, NEW e, Inserted(t, key, val, new, s, e)
    PROVE  LET o == Hash(t, key) IN
           /\ new.capacity = t.capacity /\ new.size = t.size + 1
           /\ DOMAIN new.arr = 0 .. t.capacity - 1
           /\ new = [capacity |-> new.capacity, size |-> new.size, arr |-> new.arr]
           /\ \A d \in 0 .. t.capacity - 1 :
                 new.arr[At(t, o, d)] =
                    IF d = s THEN Slot(key, val, o)
                    ELSE IF s < d /\ d <= e THEN t.arr[At(t, o, d - 1)]
                    ELSE t.arr[At(t, o, d)]
<1> DEFINE o == Hash(t, key)
           arr == Shifted(t, key, val, o, s, e)
<1>1. /\ IsTable(t) /\ t.capacity \in Nat \ {0} /\ DOMAIN t.arr = 0 .. t.capacity - 1
      /\ t = [capacity |-> t.capacity, size |-> t.size, arr |-> t.arr]
  BY DEF Orderly, IsTable
<1>2. new = [t EXCEPT !.arr = arr, !.size = t.size + 1]
  BY Zenon DEF Inserted
<1>3. DOMAIN arr = 0 .. t.capacity - 1
  BY <1>1 DEF Shifted
<1>4. new = [capacity |-> t.capacity, size |-> t.size + 1, arr |-> arr]
  <2> HIDE DEF arr
  <2> QED
    BY <1>1, <1>2
<1>5. new.capacity = t.capacity /\ new.size = t.size + 1 /\ new.arr = arr
  <2> HIDE DEF arr
  <2> QED
    BY <1>4
<1>6. ASSUME NEW d \in 0 .. t.capacity - 1
      PROVE  arr[At(t, o, d)] = IF d = s THEN Slot(key, val, o)
                    ELSE IF s < d /\ d <= e THEN t.arr[At(t, o, d - 1)]
                    ELSE t.arr[At(t, o, d)]
  <2>1. o \in 0 .. t.capacity - 1
    BY <1>1, KeyHash
  <2>2. At(t, o, d) \in DOMAIN t.arr /\ ProbeDist(t, o, At(t, o, d)) = d
    BY <1>1, <2>1, Walk
  <2> QED
    BY Zenon, <2>2 DEF Shifted
<1> HIDE DEF arr
<1> QED
  BY Zenon, <1>3, <1>4, <1>5, <1>6

(* The slots by their distance from a home.                                *)
LEMMA ByDistance ==
    ASSUME NEW t, t.capacity \in Nat \ {0}, NEW o \in 0 .. t.capacity - 1,
           NEW j \in 0 .. t.capacity - 1
    PROVE  \E d \in 0 .. t.capacity - 1 : j = At(t, o, d)
BY Distance

(* It takes the slot at e, and the elements it moves stay live: a          *)
(* tombstone may only be taken over at the end.                            *)
LEMMA InsertedLive ==
    ASSUME NEW t, Orderly(t), NEW key \in Keys, NEW val \in Weights, NEW new,
           NEW s, NEW e, Inserted(t, key, val, new, s, e)
    PROVE  LET o == Hash(t, key) IN
           /\ IsTable(new)
           /\ Occupied(new) = Occupied(t) \cup {At(t, o, e)}
           /\ \A d \in 0 .. t.capacity - 1 :
                 At(t, o, d) \in Live(new) <=>
                    (s <= d /\ d <= e) \/ At(t, o, d) \in Live(t)
<1> DEFINE o == Hash(t, key)
           c == t.capacity
<1>1. IsTable(t) /\ c \in Nat \ {0} /\ DOMAIN t.arr = 0 .. c - 1
      /\ t.size \in Nat /\ t.arr \in [0 .. c - 1 -> Elem(c) \cup {Vacant}]
  BY DEF Orderly, IsTable
<1>2. o \in 0 .. c - 1
  BY <1>1, KeyHash
<1>3. /\ s \in 0 .. c - 1 /\ e \in 0 .. c - 1 /\ s <= e
      /\ \A d \in 0 .. c - 1 :
            /\ d < s => At(t, o, d) \in Occupied(t) /\ ~Richer(t, o, d)
            /\ s <= d /\ d < e => At(t, o, d) \in Live(t) /\ Richer(t, o, d)
  BY Zenon DEF Inserted, Gap
<1>4. /\ new.capacity = c /\ new.size = t.size + 1
      /\ DOMAIN new.arr = 0 .. c - 1
      /\ new = [capacity |-> new.capacity, size |-> new.size, arr |-> new.arr]
      /\ \A d \in 0 .. c - 1 :
            new.arr[At(t, o, d)] =
               IF d = s THEN Slot(key, val, o)
               ELSE IF s < d /\ d <= e THEN t.arr[At(t, o, d - 1)]
               ELSE t.arr[At(t, o, d)]
  <2>1. /\ new.capacity = t.capacity /\ new.size = t.size + 1
        /\ DOMAIN new.arr = 0 .. t.capacity - 1
        /\ new = [capacity |-> new.capacity, size |-> new.size, arr |-> new.arr]
    BY InsertedSlots
  <2>2. \A d \in 0 .. t.capacity - 1 :
            new.arr[At(t, Hash(t, key), d)] =
               IF d = s THEN Slot(key, val, Hash(t, key))
               ELSE IF s < d /\ d <= e THEN t.arr[At(t, Hash(t, key), d - 1)]
               ELSE t.arr[At(t, Hash(t, key), d)]
    BY InsertedSlots
  <2> QED
    BY Zenon, <2>1, <2>2 DEF c, o
<1>5. Slot(key, val, o) \in Elem(c) /\ ~Slot(key, val, o).deleted /\ Slot(key, val, o) # Vacant
  <2>1. o = key[1] % c
    BY DEF Hash
  <2>2. Slot(key, val, o) \in Elem(c)
    <3> HIDE DEF o, c
    <3> QED
      BY <1>2, <2>1 DEF Elem, Slot
  <2>3. Slot(key, val, o) # Vacant
    BY Zenon, <2>2, NotVacant
  <2> QED
    BY <2>2, <2>3 DEF Slot
<1> HIDE DEF o, c
<1>6. \A d \in 0 .. c - 1 : At(t, o, d) \in 0 .. c - 1
  <2> SUFFICES ASSUME NEW d \in 0 .. c - 1 PROVE At(t, o, d) \in 0 .. c - 1
    OBVIOUS
  <2>1. /\ t.capacity \in Nat \ {0} /\ o \in 0 .. t.capacity - 1
        /\ d \in 0 .. t.capacity - 1
    BY Zenon, <1>1, <1>2 DEF c
  <2>2. At(t, o, d) \in 0 .. t.capacity - 1
    BY <2>1, Walk
  <2> QED
    BY Zenon, <2>2 DEF c
<1>7. ASSUME NEW d \in 0 .. c - 1, s <= d, d <= e
      PROVE  new.arr[At(t, o, d)] \in Elem(c) /\ ~new.arr[At(t, o, d)].deleted
  <2>1. CASE d = s
    BY Zenon, <1>4, <1>5, <2>1
  <2>2. CASE d # s
    <3>1. s < d /\ d - 1 \in 0 .. c - 1 /\ s <= d - 1 /\ d - 1 < e
      BY <1>1, <1>3, <1>7, <2>2
    <3>2. new.arr[At(t, o, d)] = t.arr[At(t, o, d - 1)]
      BY Zenon, <1>4, <1>7, <2>2, <3>1
    <3>3. At(t, o, d - 1) \in Live(t)
      BY <1>3, <3>1
    <3>4. At(t, o, d - 1) \in Occupied(t) /\ ~t.arr[At(t, o, d - 1)].deleted
      BY <3>3 DEF Live
    <3>5. t.arr[At(t, o, d - 1)] \in Elem(c)
      BY <1>1, <3>4, Occupants DEF c
    <3> QED
      BY <3>2, <3>4, <3>5
  <2> QED
    BY <2>1, <2>2
<1>8. ASSUME NEW d \in 0 .. c - 1, ~(s <= d /\ d <= e)
      PROVE  new.arr[At(t, o, d)] = t.arr[At(t, o, d)]
  <2>1. d # s /\ ~(s < d /\ d <= e)
    BY <1>3, <1>8
  <2> QED
    BY Zenon, <1>4, <2>1
<1>9. ASSUME NEW j \in 0 .. c - 1
      PROVE  new.arr[j] \in Elem(c) \cup {Vacant}
  <2>1. PICK d \in 0 .. c - 1 : j = At(t, o, d)
    BY <1>1, <1>2, ByDistance DEF c
  <2>2. CASE s <= d /\ d <= e
    BY <1>7, <2>1, <2>2
  <2>3. CASE ~(s <= d /\ d <= e)
    BY <1>1, <1>8, <2>1, <2>3
  <2> QED
    BY <2>2, <2>3
<1>10. IsTable(new)
  <2>1. new.arr \in [0 .. c - 1 -> Elem(c) \cup {Vacant}]
    <3>1. new.arr = [j \in 0 .. c - 1 |-> new.arr[j]]
      <4>1. PICK i \in 0 .. c - 1 : i = o
        BY <1>2
      <4>2. new.arr = [t EXCEPT !.arr = Shifted(t, key, val, o, s, e), !.size = @ + 1].arr
        BY Zenon DEF Inserted, o
      <4>3. new.arr = Shifted(t, key, val, o, s, e)
        BY <1>1, <4>2 DEF IsTable
      <4> QED
        BY <1>1, <4>3 DEF Shifted
    <3> QED
      BY Zenon, <1>9, <3>1
  <2> QED
    BY <1>1, <1>4, <2>1 DEF IsTable
<1>11. ASSUME NEW d \in 0 .. c - 1
       PROVE  /\ At(t, o, d) \in Occupied(new) <=> ((s <= d /\ d <= e) \/ At(t, o, d) \in Occupied(t))
              /\ At(t, o, d) \in Live(new) <=> ((s <= d /\ d <= e) \/ At(t, o, d) \in Live(t))
  <2>1. CASE s <= d /\ d <= e
    <3>1. new.arr[At(t, o, d)] # Vacant /\ ~new.arr[At(t, o, d)].deleted
      BY Zenon, <1>7, <2>1, NotVacant
    <3> QED
      BY <1>4, <1>6, <2>1, <3>1 DEF Occupied, Live
  <2>2. CASE ~(s <= d /\ d <= e)
    <3>1. new.arr[At(t, o, d)] = t.arr[At(t, o, d)]
      BY <1>8, <2>2
    <3> QED
      BY <1>1, <1>4, <1>6, <2>2, <3>1 DEF Occupied, Live
  <2> QED
    BY <2>1, <2>2
<1>12. ASSUME NEW j PROVE j \in Occupied(new) <=> j \in Occupied(t) \cup {At(t, o, e)}
  <2>1. j \in Occupied(new) \/ j \in Occupied(t) \cup {At(t, o, e)} => j \in 0 .. c - 1
    BY <1>1, <1>3, <1>4, <1>6 DEF Occupied
  <2> SUFFICES ASSUME j \in 0 .. c - 1
               PROVE  j \in Occupied(new) <=> j \in Occupied(t) \cup {At(t, o, e)}
    BY <2>1
  <2>2. PICK d \in 0 .. c - 1 : j = At(t, o, d)
    BY <1>1, <1>2, ByDistance DEF c
  <2>3. d = e => s <= d /\ d <= e
    BY <1>3
  <2>4. j = At(t, o, e) => d = e
    <3>1. ProbeDist(t, o, At(t, o, d)) = d /\ ProbeDist(t, o, At(t, o, e)) = e
      BY <1>1, <1>2, <1>3, Walk DEF c
    <3> QED
      BY <2>2, <3>1
  <2>5. s <= d /\ d <= e => d = e \/ j \in Occupied(t)
    <3>1. s <= d /\ d <= e => d = e \/ d < e
      BY <1>3
    <3> QED
      BY <1>3, <2>2, <3>1 DEF Live
  <2> QED
    BY Zenon, <1>11, <2>2, <2>3, <2>4, <2>5
<1>13. Occupied(new) = Occupied(t) \cup {At(t, o, e)}
  BY Zenon, <1>12
<1> QED
  BY Zenon, <1>10, <1>11, <1>13 DEF o, c

(* Where the element of a slot of the new table comes from.                *)
LEMMA InsertedFrom ==
    ASSUME NEW t, Orderly(t), NEW key \in Keys, NEW val \in Weights, NEW new,
           NEW s, NEW e, Inserted(t, key, val, new, s, e),
           NEW o, o = Hash(t, key), NEW d \in 0 .. t.capacity - 1,
           NEW i, i = At(t, o, d), i \in Occupied(new)
    PROVE  \/ /\ d = s
              /\ new.arr[i] = Slot(key, val, o)
              /\ Displacement(new, i) = d
           \/ /\ s < d /\ d <= e /\ d - 1 \in 0 .. t.capacity - 1
              /\ At(t, o, d - 1) = Before(t, i) /\ At(t, o, d - 1) \in Live(t)
              /\ new.arr[i] = t.arr[At(t, o, d - 1)]
              /\ Displacement(new, i) = Displacement(t, At(t, o, d - 1)) + 1
           \/ /\ d < s \/ e < d
              /\ i \in Occupied(t)
              /\ new.arr[i] = t.arr[i]
              /\ Displacement(new, i) = Displacement(t, i)
<1>1. IsTable(t) /\ t.capacity \in Nat \ {0} /\ DOMAIN t.arr = 0 .. t.capacity - 1
  BY DEF Orderly, IsTable
<1>2. PICK c \in Nat \ {0} : c = t.capacity
  BY <1>1
<1>3. o \in 0 .. c - 1
  BY <1>1, <1>2, KeyHash
<1>4. /\ s \in 0 .. c - 1 /\ e \in 0 .. c - 1 /\ s <= e
      /\ \A x \in 0 .. c - 1 : s <= x /\ x < e => At(t, o, x) \in Live(t) /\ Richer(t, o, x)
  BY Zenon, <1>2 DEF Inserted, Gap
<1>5. /\ new.capacity = c
      /\ new.arr[i] = IF d = s THEN Slot(key, val, o)
                      ELSE IF s < d /\ d <= e THEN t.arr[At(t, o, d - 1)]
                      ELSE t.arr[i]
  <2>1. new.capacity = t.capacity
    BY InsertedSlots
  <2>2. new.arr[At(t, Hash(t, key), d)] =
               IF d = s THEN Slot(key, val, Hash(t, key))
               ELSE IF s < d /\ d <= e THEN t.arr[At(t, Hash(t, key), d - 1)]
               ELSE t.arr[At(t, Hash(t, key), d)]
    BY InsertedSlots
  <2> QED
    BY Zenon, <1>2, <2>1, <2>2
<1>6. i \in 0 .. c - 1 /\ ProbeDist(t, o, i) = d
  BY <1>2, <1>3, Walk
<1>7. Displacement(new, i) = ProbeDist(t, new.arr[i].hash, i)
  BY Zenon, <1>2, <1>5 DEF Displacement, ProbeDist
<1>8. CASE d = s
  <2>1. new.arr[i] = Slot(key, val, o)
    BY Zenon, <1>5, <1>8
  <2>2. new.arr[i].hash = o
    BY <2>1 DEF Slot
  <2> QED
    BY Zenon, <1>6, <1>7, <1>8, <2>1, <2>2
<1>9. CASE s < d /\ d <= e
  <2>1. d # s /\ d - 1 \in 0 .. c - 1 /\ s <= d - 1 /\ d - 1 < e
    BY <1>2, <1>4, <1>9
  <2>2. PICK j : j = At(t, o, d - 1)
    OBVIOUS
  <2>3. new.arr[i] = t.arr[j]
    BY Zenon, <1>5, <1>9, <2>1, <2>2
  <2>4. j \in Live(t) /\ Richer(t, o, d - 1) /\ j \in Occupied(t)
    BY <1>4, <2>1, <2>2 DEF Live
  <2>5. j \in 0 .. c - 1 /\ ProbeDist(t, o, j) = d - 1
    BY <1>2, <1>3, <2>1, <2>2, Walk
  <2>6. j = Before(t, i)
    <3>1. PICK b \in 0 .. c - 1 : b = Before(t, i)
      BY <1>2, <1>6, Behind
    <3>2. d > 0
      BY <1>4, <1>9, <2>1
    <3>3. ProbeDist(t, o, b) = d - 1
      BY <1>2, <1>3, <1>6, <3>1, <3>2, OneBack
    <3>4. At(t, o, ProbeDist(t, o, b)) = b
      BY <1>2, <1>3, <3>1, Distance
    <3> QED
      BY Zenon, <2>2, <3>1, <3>3, <3>4
  <2>7. PICK h \in 0 .. c - 1 : h = t.arr[j].hash /\ Displacement(t, j) = ProbeDist(t, h, j)
    BY <1>1, <1>2, <2>4, Occupants
  <2>8. d - 1 > Displacement(t, j)
    BY <2>2, <2>4 DEF Richer
  <2>9. /\ ProbeDist(t, h, i) = IF h <= i THEN i - h ELSE i + c - h
        /\ ProbeDist(t, h, j) = IF h <= j THEN j - h ELSE j + c - h
    <3>1. /\ t.capacity \in Nat \ {0} /\ h \in 0 .. t.capacity - 1
          /\ i \in 0 .. t.capacity - 1 /\ j \in 0 .. t.capacity - 1
      BY Zenon, <1>2, <1>6, <2>5
    <3>2. ProbeDist(t, h, i) = IF h <= i THEN i - h ELSE i + t.capacity - h
      BY <3>1, Distance
    <3>3. ProbeDist(t, h, j) = IF h <= j THEN j - h ELSE j + t.capacity - h
      BY <3>1, Distance
    <3> QED
      BY Zenon, <1>2, <3>2, <3>3
  <2>10. ProbeDist(t, h, i) \in 0 .. c - 1 /\ ProbeDist(t, h, j) \in 0 .. c - 1
    BY <1>2, <1>6, <2>5, <2>7, Distance
  <2>11. ProbeDist(t, h, i) > 0
    <3> SUFFICES ASSUME ProbeDist(t, h, i) = 0 PROVE FALSE
      BY <1>2, <2>10
    <3>1. i = h
      <4>1. ProbeDist(t, h, i) = IF h <= i THEN i - h ELSE i + c - h
        BY <2>9
      <4> QED
        BY <1>2, <1>6, <2>7, <4>1
    <3>2. ProbeDist(t, h, j) = c - 1
      <4>1. ProbeDist(t, h, j) = IF h <= j THEN j - h ELSE j + c - h
        BY <2>9
      <4>2. Before(t, i) = IF i = 0 THEN c - 1 ELSE i - 1
        BY <1>2, <1>6, Behind
      <4> QED
        BY <1>2, <1>6, <2>5, <2>6, <2>7, <3>1, <4>1, <4>2
    <3> QED
      BY <1>2, <2>1, <2>7, <2>8, <3>2
  <2>12. ProbeDist(t, h, j) = ProbeDist(t, h, i) - 1
    BY <1>2, <1>6, <2>6, <2>7, <2>11, OneBack
  <2>13. Displacement(new, i) = Displacement(t, j) + 1
    BY <1>2, <1>7, <2>3, <2>7, <2>10, <2>12
  <2> QED
    BY <1>2, <1>9, <2>1, <2>2, <2>3, <2>4, <2>6, <2>13
<1>10. CASE d < s \/ e < d
  <2>1. d # s /\ ~(s < d /\ d <= e) /\ ~(s <= d /\ d <= e)
    BY <1>2, <1>4, <1>10
  <2>2. new.arr[i] = t.arr[i]
    BY Zenon, <1>5, <2>1
  <2>3. i \in Occupied(t)
    BY <1>1, <1>2, <1>6, <2>2 DEF Occupied
  <2>4. Displacement(new, i) = Displacement(t, i)
    BY Zenon, <1>7, <2>2 DEF Displacement
  <2> QED
    BY Zenon, <1>10, <2>2, <2>3, <2>4
<1> QED
  BY <1>2, <1>4, <1>8, <1>9, <1>10

(* A slot's element never gets nearer to home.                             *)
LEMMA InsertedFurther ==
    ASSUME NEW t, Orderly(t), NEW key \in Keys, NEW val \in Weights, NEW new,
           NEW s, NEW e, Inserted(t, key, val, new, s, e), NEW i \in Occupied(t)
    PROVE  i \in Occupied(new) /\ Displacement(new, i) >= Displacement(t, i)
<1>1. IsTable(t) /\ t.capacity \in Nat \ {0} /\ DOMAIN t.arr = 0 .. t.capacity - 1
  BY DEF Orderly, IsTable
<1>2. PICK c \in Nat \ {0} : c = t.capacity
  BY <1>1
<1>3. PICK o \in 0 .. c - 1 : o = Hash(t, key)
  BY <1>1, <1>2, KeyHash
<1>4. i \in Occupied(new)
  BY InsertedLive
<1>5. i \in 0 .. c - 1 /\ Displacement(t, i) \in 0 .. c - 1
  BY <1>1, <1>2, Occupants
<1>6. PICK d \in 0 .. c - 1 : i = At(t, o, d)
  BY <1>2, <1>3, <1>5, ByDistance
<1>7. CASE d = s /\ Displacement(new, i) = d
  <2>1. Richer(t, o, d)
    <3>1. /\ \A x \in 0 .. c - 1 : s <= x /\ x < e => Richer(t, o, x)
          /\ At(t, o, e) \notin Occupied(t) \/ Richer(t, o, e)
          /\ s \in 0 .. c - 1 /\ e \in 0 .. c - 1 /\ s <= e
      BY Zenon, <1>2, <1>3 DEF Inserted, Gap
    <3>2. d = e \/ d < e
      BY <1>7, <3>1
    <3>3. CASE d = e
      BY Zenon, <1>6, <3>1, <3>3
    <3>4. CASE d < e
      BY <1>7, <3>1, <3>4
    <3> QED
      BY <3>2, <3>3, <3>4
  <2>2. d > Displacement(t, i)
    BY <1>6, <2>1 DEF Richer
  <2> QED
    BY <1>2, <1>4, <1>5, <1>7, <2>2
<1>8. CASE /\ At(t, o, d - 1) = Before(t, i) /\ At(t, o, d - 1) \in Live(t)
           /\ Displacement(new, i) = Displacement(t, At(t, o, d - 1)) + 1
  <2>1. PICK j \in Occupied(t) : j = Before(t, i) /\ Displacement(new, i) = Displacement(t, j) + 1
    BY <1>8 DEF Live
  <2>2. Displacement(t, j) \in 0 .. c - 1
    BY <1>1, <1>2, <2>1, Occupants
  <2>3. Displacement(t, i) > 0 => Displacement(t, j) >= Displacement(t, i) - 1
    BY <2>1 DEF Orderly, SortedByHome, Before
  <2> QED
    BY <1>2, <1>4, <1>5, <2>1, <2>2, <2>3
<1>9. CASE Displacement(new, i) = Displacement(t, i)
  BY <1>2, <1>4, <1>5, <1>9
<1>10. d \in 0 .. t.capacity - 1
  BY <1>2
<1> QED
  BY <1>3, <1>4, <1>6, <1>7, <1>8, <1>9, <1>10, InsertedFrom

(* It leaves the table sorted by home.                                     *)
LEMMA InsertedSorted ==
    ASSUME NEW t, Orderly(t), NEW key \in Keys, NEW val \in Weights, NEW new,
           NEW s, NEW e, Inserted(t, key, val, new, s, e)
    PROVE  SortedByHome(new)
<1>1. IsTable(t) /\ t.capacity \in Nat \ {0} /\ DOMAIN t.arr = 0 .. t.capacity - 1
  BY DEF Orderly, IsTable
<1>2. PICK c \in Nat \ {0} : c = t.capacity
  BY <1>1
<1>3. PICK o \in 0 .. c - 1 : o = Hash(t, key)
  BY <1>1, <1>2, KeyHash
<1>4. IsTable(new) /\ new.capacity = t.capacity
  <2>1. IsTable(new)
    BY InsertedLive
  <2>2. new.capacity = t.capacity
    BY InsertedSlots
  <2> QED
    BY <2>1, <2>2
<1> SUFFICES ASSUME NEW i \in Occupied(new), Displacement(new, i) > 0
             PROVE  /\ Before(t, i) \in Occupied(new)
                    /\ Displacement(new, Before(t, i)) >= Displacement(new, i) - 1
  BY Zenon, <1>4 DEF SortedByHome, Before
<1>5. i \in 0 .. c - 1 /\ Displacement(new, i) \in 0 .. c - 1
  BY <1>2, <1>4, Occupants
<1>6. PICK d \in 0 .. c - 1 : i = At(t, o, d) /\ ProbeDist(t, o, i) = d
  BY <1>2, <1>3, <1>5, Distance
<1>7. PICK b \in 0 .. c - 1 : b = Before(t, i)
  BY <1>2, <1>5, Behind
<1>8. SUFFICES b \in Occupied(t) /\ Displacement(t, b) >= Displacement(new, i) - 1
  <2>1. b \in Occupied(t) => b \in Occupied(new) /\ Displacement(new, b) >= Displacement(t, b)
    BY InsertedFurther
  <2>2. b \in Occupied(t) => Displacement(t, b) \in 0 .. c - 1
    BY <1>1, <1>2, Occupants
  <2>3. b \in Occupied(new) => Displacement(new, b) \in 0 .. c - 1
    BY <1>2, <1>4, Occupants
  <2> QED
    BY <1>2, <1>5, <1>7, <2>1, <2>2, <2>3
<1>9. CASE d = s /\ Displacement(new, i) = d
  <2>1. d - 1 \in 0 .. c - 1 /\ d - 1 < s /\ d \in Nat /\ d > 0
    BY <1>2, <1>9
  <2>2. ProbeDist(t, o, b) = d - 1
    BY <1>2, <1>3, <1>5, <1>6, <1>7, <2>1, OneBack
  <2>3. At(t, o, ProbeDist(t, o, b)) = b
    BY <1>2, <1>3, <1>7, Distance
  <2>4. b \in Occupied(t) /\ ~Richer(t, o, d - 1)
    <3>1. \A x \in 0 .. c - 1 : x < s => At(t, o, x) \in Occupied(t) /\ ~Richer(t, o, x)
      BY Zenon, <1>2, <1>3 DEF Inserted, Gap
    <3> QED
      BY <2>1, <2>2, <2>3, <3>1
  <2>5. Displacement(t, b) \in 0 .. c - 1
    BY <1>1, <1>2, <2>4, Occupants
  <2>6. ~(d - 1 > Displacement(t, b))
    BY <2>2, <2>3, <2>4 DEF Richer, Occupied
  <2> QED
    BY <1>2, <1>9, <2>1, <2>4, <2>5, <2>6
<1>10. CASE /\ At(t, o, d - 1) = Before(t, i) /\ At(t, o, d - 1) \in Live(t)
            /\ Displacement(new, i) = Displacement(t, At(t, o, d - 1)) + 1
  <2>1. b \in Occupied(t) /\ Displacement(new, i) = Displacement(t, b) + 1
    BY <1>7, <1>10 DEF Live
  <2>2. Displacement(t, b) \in 0 .. c - 1
    BY <1>1, <1>2, <2>1, Occupants
  <2> QED
    BY <1>2, <2>1, <2>2
<1>11. CASE i \in Occupied(t) /\ Displacement(new, i) = Displacement(t, i)
  BY <1>7, <1>11 DEF Orderly, SortedByHome, Before
<1>12. d \in 0 .. t.capacity - 1
  BY <1>2
<1> QED
  BY <1>3, <1>6, <1>9, <1>10, <1>11, <1>12, InsertedFrom

(* It leaves the live keys distinct.                                       *)
LEMMA InsertedDistinct ==
    ASSUME NEW t, Orderly(t), NEW key \in Keys, NEW val \in Weights, NEW new,
           NEW s, NEW e, Inserted(t, key, val, new, s, e)
    PROVE  /\ KeysDistinct(new)
           /\ \A i \in Occupied(new) :
                 new.arr[i].key = key \/ \E j \in Occupied(t) : t.arr[j].key = new.arr[i].key
<1>1. IsTable(t) /\ t.capacity \in Nat \ {0} /\ DOMAIN t.arr = 0 .. t.capacity - 1
  BY DEF Orderly, IsTable
<1>2. PICK c \in Nat \ {0} : c = t.capacity
  BY <1>1
<1>3. PICK o \in 0 .. c - 1 : o = Hash(t, key)
  BY <1>1, <1>2, KeyHash
<1>4. IsTable(new) /\ new.capacity = t.capacity
  <2>1. IsTable(new)
    BY InsertedLive
  <2>2. new.capacity = t.capacity
    BY InsertedSlots
  <2> QED
    BY <2>1, <2>2
<1>5. \A i \in Occupied(t) : t.arr[i].key # key
  BY DEF Inserted
<1>6. \A d \in 0 .. c - 1 : ProbeDist(t, o, At(t, o, d)) = d
  BY <1>2, <1>3, Walk
(* The new slot is the one at distance s; any other element has moved by   *)
(* one, from the distance From(d), or not at all.                          *)
<1> DEFINE From(d) == IF s < d /\ d <= e THEN d - 1 ELSE d
<1>7. ASSUME NEW i \in Occupied(new)
      PROVE  \E d \in 0 .. c - 1 :
                /\ i = At(t, o, d)
                /\ \/ d = s /\ new.arr[i].key = key
                   \/ /\ d # s /\ From(d) \in 0 .. c - 1
                      /\ At(t, o, From(d)) \in Occupied(t)
                      /\ new.arr[i].key = t.arr[At(t, o, From(d))].key
  <2>1. i \in 0 .. c - 1
    BY <1>2, <1>4, Occupants
  <2>2. PICK d \in 0 .. c - 1 : i = At(t, o, d)
    BY <1>2, <1>3, <2>1, ByDistance
  <2>3. d \in 0 .. t.capacity - 1 /\ s \in 0 .. c - 1 /\ e \in 0 .. c - 1 /\ s <= e
    BY Zenon, <1>2, <2>2 DEF Inserted, Gap
  <2>4. CASE d = s /\ new.arr[i] = Slot(key, val, o)
    BY <2>2, <2>4 DEF Slot
  <2>5. CASE /\ s < d /\ d <= e /\ d - 1 \in 0 .. t.capacity - 1
             /\ At(t, o, d - 1) \in Live(t)
             /\ new.arr[i] = t.arr[At(t, o, d - 1)]
    <3>1. From(d) = d - 1 /\ d # s
      BY <2>3, <2>5
    <3>2. At(t, o, d - 1) \in Occupied(t)
      BY <2>5 DEF Live
    <3> HIDE DEF From
    <3> QED
      BY Zenon, <1>2, <2>2, <2>5, <3>1, <3>2
  <2>6. CASE (d < s \/ e < d) /\ i \in Occupied(t) /\ new.arr[i] = t.arr[i]
    <3>1. From(d) = d /\ d # s
      BY <2>3, <2>6
    <3> HIDE DEF From
    <3> QED
      BY Zenon, <2>2, <2>6, <3>1
  <2>7. d \in 0 .. t.capacity - 1 /\ o = Hash(t, key) /\ i = At(t, o, d)
    BY <1>3, <2>2, <2>3
  <2>8. \/ d = s /\ new.arr[i] = Slot(key, val, o)
        \/ /\ s < d /\ d <= e /\ d - 1 \in 0 .. t.capacity - 1
           /\ At(t, o, d - 1) \in Live(t)
           /\ new.arr[i] = t.arr[At(t, o, d - 1)]
        \/ (d < s \/ e < d) /\ i \in Occupied(t) /\ new.arr[i] = t.arr[i]
    BY <2>7, InsertedFrom
  <2> HIDE DEF From
  <2> QED
    BY Zenon, <2>4, <2>5, <2>6, <2>8
<1>8. \A i \in Occupied(new) :
         new.arr[i].key = key \/ \E j \in Occupied(t) : t.arr[j].key = new.arr[i].key
  <2> HIDE DEF From
  <2> QED
    BY Zenon, <1>7
<1>9. ASSUME NEW i \in Occupied(new), NEW j \in Occupied(new), new.arr[i].key = new.arr[j].key
      PROVE  i = j
  <2>1. PICK d \in 0 .. c - 1 :
                /\ i = At(t, o, d)
                /\ \/ d = s /\ new.arr[i].key = key
                   \/ /\ d # s /\ From(d) \in 0 .. c - 1
                      /\ At(t, o, From(d)) \in Occupied(t)
                      /\ new.arr[i].key = t.arr[At(t, o, From(d))].key
    BY <1>7
  <2>2. PICK f \in 0 .. c - 1 :
                /\ j = At(t, o, f)
                /\ \/ f = s /\ new.arr[j].key = key
                   \/ /\ f # s /\ From(f) \in 0 .. c - 1
                      /\ At(t, o, From(f)) \in Occupied(t)
                      /\ new.arr[j].key = t.arr[At(t, o, From(f))].key
    BY <1>7
  <2>3. CASE new.arr[i].key = key
    <3> HIDE DEF From
    <3> QED
      BY Zenon, <1>5, <1>9, <2>1, <2>2, <2>3
  <2>4. CASE new.arr[i].key # key
    <3>1. /\ d # s /\ f # s /\ From(d) \in 0 .. c - 1 /\ From(f) \in 0 .. c - 1
          /\ At(t, o, From(d)) = At(t, o, From(f))
      <4> HIDE DEF From
      <4> QED
        BY Zenon, <1>9, <2>1, <2>2, <2>4 DEF Orderly, KeysDistinct
    <3>2. From(d) = From(f)
      <4> HIDE DEF From
      <4> QED
        BY Zenon, <1>6, <3>1
    <3>3. s \in 0 .. c - 1 /\ e \in 0 .. c - 1 /\ s <= e
      BY Zenon, <1>2 DEF Inserted, Gap
    <3>4. d = f
      BY <3>1, <3>2, <3>3
    <3> QED
      BY <2>1, <2>2, <3>4
  <2> QED
    BY <2>3, <2>4
<1> QED
  BY <1>8, <1>9 DEF KeysDistinct

(* It adds its entry and loses none.                                       *)
LEMMA InsertedHolds ==
    ASSUME NEW t, Orderly(t), NEW key \in Keys, NEW val \in Weights, NEW new,
           NEW s, NEW e, Inserted(t, key, val, new, s, e), NEW k, NEW v
    PROVE  HoldsEntry(new, k, v) <=> IF k = key THEN v = val ELSE HoldsEntry(t, k, v)
<1>1. IsTable(t) /\ t.capacity \in Nat \ {0} /\ DOMAIN t.arr = 0 .. t.capacity - 1
  BY DEF Orderly, IsTable
<1>2. PICK c \in Nat \ {0} : c = t.capacity
  BY <1>1
<1>3. PICK o \in 0 .. c - 1 : o = Hash(t, key)
  BY <1>1, <1>2, KeyHash
<1>4. \A i \in Occupied(t) : t.arr[i].key # key
  BY DEF Inserted
<1>5. /\ s \in 0 .. c - 1 /\ e \in 0 .. c - 1 /\ s <= e
      /\ At(t, o, e) \notin Live(t)
  BY Zenon, <1>2, <1>3 DEF Inserted, Gap, Live
<1>6. \A d \in 0 .. c - 1 :
          /\ At(t, o, d) \in Live(new) <=> (s <= d /\ d <= e) \/ At(t, o, d) \in Live(t)
          /\ new.arr[At(t, o, d)] =
                  IF d = s THEN Slot(key, val, o)
                  ELSE IF s < d /\ d <= e THEN t.arr[At(t, o, d - 1)]
                  ELSE t.arr[At(t, o, d)]
  <2>1. \A d \in 0 .. t.capacity - 1 :
          At(t, Hash(t, key), d) \in Live(new) <=> (s <= d /\ d <= e) \/ At(t, Hash(t, key), d) \in Live(t)
    BY InsertedLive
  <2>2. \A d \in 0 .. t.capacity - 1 :
          new.arr[At(t, Hash(t, key), d)] =
                  IF d = s THEN Slot(key, val, Hash(t, key))
                  ELSE IF s < d /\ d <= e THEN t.arr[At(t, Hash(t, key), d - 1)]
                  ELSE t.arr[At(t, Hash(t, key), d)]
    BY InsertedSlots
  <2> QED
    BY Zenon, <1>2, <1>3, <2>1, <2>2
<1>7. ASSUME HoldsEntry(new, k, v)
      PROVE  IF k = key THEN v = val ELSE HoldsEntry(t, k, v)
  <2>1. PICK i \in Live(new) : new.arr[i].key = k /\ new.arr[i].val = v
    BY <1>7 DEF HoldsEntry
  <2>2. i \in 0 .. c - 1
    <3>1. IsTable(new) /\ new.capacity = t.capacity
      BY InsertedLive, InsertedSlots
    <3> QED
      BY <1>2, <2>1, <3>1, Occupants DEF Live
  <2>3. PICK d \in 0 .. c - 1 : i = At(t, o, d)
    BY <1>2, <1>3, <2>2, ByDistance
  <2>4. CASE d = s
    <3>1. new.arr[i] = Slot(key, val, o)
      BY Zenon, <1>6, <2>3, <2>4
    <3> QED
      BY <2>1, <3>1 DEF Slot
  <2>5. CASE s < d /\ d <= e
    <3>1. d # s /\ d - 1 \in 0 .. c - 1 /\ s <= d - 1 /\ d - 1 < e
      BY <1>5, <2>5
    <3>2. new.arr[i] = t.arr[At(t, o, d - 1)]
      BY Zenon, <1>6, <2>3, <2>5, <3>1
    <3>3. At(t, o, d - 1) \in Live(t)
      BY Zenon, <1>2, <1>3, <3>1 DEF Inserted, Gap
    <3>4. HoldsEntry(t, k, v) /\ k # key
      BY Zenon, <1>4, <2>1, <3>2, <3>3 DEF HoldsEntry, Live
    <3> QED
      BY Zenon, <3>4
  <2>6. CASE ~(s <= d /\ d <= e)
    <3>1. d # s /\ ~(s < d /\ d <= e)
      BY <1>5, <2>6
    <3>2. new.arr[i] = t.arr[i]
      BY Zenon, <1>6, <2>3, <3>1
    <3>3. i \in Live(t)
      BY Zenon, <1>6, <2>1, <2>3, <2>6
    <3>4. HoldsEntry(t, k, v) /\ k # key
      BY Zenon, <1>4, <2>1, <3>2, <3>3 DEF HoldsEntry, Live
    <3> QED
      BY Zenon, <3>4
  <2>7. d = s \/ (s < d /\ d <= e) \/ ~(s <= d /\ d <= e)
    BY <1>5
  <2> QED
    BY Zenon, <2>4, <2>5, <2>6, <2>7
<1>8. ASSUME k = key, v = val
      PROVE  HoldsEntry(new, k, v)
  <2>1. At(t, o, s) \in Live(new) /\ new.arr[At(t, o, s)] = Slot(key, val, o)
    <3>1. s <= s
      BY <1>5
    <3> QED
      BY Zenon, <1>5, <1>6, <3>1
  <2>2. new.arr[At(t, o, s)].key = k /\ new.arr[At(t, o, s)].val = v
    BY <1>8, <2>1 DEF Slot
  <2> QED
    BY Zenon, <2>1, <2>2 DEF HoldsEntry
<1>9. ASSUME k # key, HoldsEntry(t, k, v)
      PROVE  HoldsEntry(new, k, v)
  <2>1. PICK i \in Live(t) : t.arr[i].key = k /\ t.arr[i].val = v
    BY <1>9 DEF HoldsEntry
  <2>2. i \in 0 .. c - 1
    BY <1>1, <1>2, <2>1, Occupants DEF Live
  <2>3. PICK d \in 0 .. c - 1 : i = At(t, o, d)
    BY <1>2, <1>3, <2>2, ByDistance
  <2>4. d # e
    BY <1>5, <2>1, <2>3
  <2>5. CASE s <= d /\ d < e
    <3>1. d + 1 \in 0 .. c - 1 /\ s < d + 1 /\ d + 1 <= e /\ d + 1 # s /\ s <= d + 1 /\ (d + 1) - 1 = d
      BY <1>5, <2>5
    <3>2. At(t, o, d + 1) \in Live(new)
      BY Zenon, <1>6, <3>1
    <3>3. new.arr[At(t, o, d + 1)] = t.arr[i]
      BY Zenon, <1>6, <2>3, <3>1
    <3> QED
      BY Zenon, <2>1, <3>2, <3>3 DEF HoldsEntry
  <2>6. CASE ~(s <= d /\ d <= e)
    <3>1. d # s /\ ~(s < d /\ d <= e)
      BY <1>5, <2>6
    <3>2. new.arr[i] = t.arr[i] /\ i \in Live(new)
      BY Zenon, <1>6, <2>1, <2>3, <3>1
    <3> QED
      BY Zenon, <2>1, <3>2 DEF HoldsEntry
  <2>7. (s <= d /\ d < e) \/ ~(s <= d /\ d <= e)
    BY <1>5, <2>4
  <2> QED
    BY Zenon, <2>5, <2>6, <2>7
<1> QED
  BY Zenon, <1>7, <1>8, <1>9

(* An insertion that found an element of its key changes its value.        *)
LEMMA Overwrites ==
    ASSUME NEW t, Orderly(t), NEW key \in Keys, NEW val \in Weights, NEW new,
           NEW i, Overwritten(t, key, val, new, i)
    PROVE  /\ Orderly(new)
           /\ new.capacity = t.capacity /\ new.size = t.size
           /\ Occupied(new) = Occupied(t) /\ Live(new) = Live(t) \cup {i}
           /\ new.arr[i].val = val
           /\ \A j \in Occupied(t) : new.arr[j].key = t.arr[j].key
           /\ \A j \in Occupied(t) : j # i => new.arr[j] = t.arr[j]
<1>1. /\ IsTable(t) /\ t.capacity \in Nat \ {0} /\ DOMAIN t.arr = 0 .. t.capacity - 1
      /\ t = [capacity |-> t.capacity, size |-> t.size, arr |-> t.arr]
      /\ t.size \in Nat
  BY DEF Orderly, IsTable
<1> DEFINE c == t.capacity
           x == [t.arr[i] EXCEPT !.val = val, !.deleted = FALSE]
           arr == [j \in DOMAIN t.arr |-> IF j = i THEN x ELSE t.arr[j]]
<1>2. i \in Occupied(t) /\ t.arr[i].key = key /\ new = [t EXCEPT !.arr = arr]
  BY Zenon DEF Overwritten
<1>3. new = [capacity |-> c, size |-> t.size, arr |-> arr]
  <2> HIDE DEF arr
  <2> QED
    BY <1>1, <1>2
<1>4. new.capacity = c /\ new.size = t.size /\ new.arr = arr
  <2> HIDE DEF arr
  <2> QED
    BY <1>3
<1>5. i \in 0 .. c - 1 /\ t.arr[i] \in Elem(c)
  BY <1>1, <1>2, Occupants
<1>6. /\ x \in Elem(c) /\ x.key = t.arr[i].key /\ x.hash = t.arr[i].hash
      /\ x.val = val /\ ~x.deleted
  <2> HIDE DEF c
  <2> QED
    BY <1>5 DEF Elem
<1>7. x # Vacant
  BY Zenon, <1>6, NotVacant
<1> HIDE DEF x
<1>8. DOMAIN new.arr = DOMAIN t.arr /\ \A j \in DOMAIN t.arr : new.arr[j] = IF j = i THEN x ELSE t.arr[j]
  BY <1>4
<1>9. IsTable(new)
  <2>1. arr \in [0 .. c - 1 -> Elem(c) \cup {Vacant}]
    BY <1>1, <1>6 DEF IsTable
  <2> HIDE DEF arr
  <2> QED
    BY <1>1, <1>3, <1>4, <2>1 DEF IsTable
<1>10. Occupied(new) = Occupied(t)
  BY <1>2, <1>7, <1>8 DEF Occupied
<1>11. Live(new) = Live(t) \cup {i}
  BY <1>2, <1>6, <1>8, <1>10 DEF Live, Occupied
<1>12. \A j \in Occupied(t) : /\ new.arr[j].key = t.arr[j].key
                              /\ new.arr[j].hash = t.arr[j].hash
                              /\ j # i => new.arr[j] = t.arr[j]
  BY <1>6, <1>8 DEF Occupied
<1>13. \A j \in Occupied(t) : Displacement(new, j) = Displacement(t, j)
  BY Zenon, <1>4, <1>12 DEF Displacement, ProbeDist, c
<1>14. SortedByHome(new)
  BY Zenon, <1>4, <1>10, <1>13 DEF SortedByHome, Orderly, c
<1>15. KeysDistinct(new)
  BY Zenon, <1>10, <1>12 DEF KeysDistinct, Orderly
<1>16. new.arr[i].val = val
  BY <1>1, <1>5, <1>6, <1>8
<1> QED
  BY <1>4, <1>9, <1>10, <1>11, <1>12, <1>14, <1>15, <1>16 DEF Orderly, c

(* It replaces the entry of its key, or revives it, and nothing else.      *)
LEMMA OverwriteHolds ==
    ASSUME NEW t, Orderly(t), NEW key \in Keys, NEW val \in Weights, NEW new,
           NEW i, Overwritten(t, key, val, new, i), NEW k, NEW v
    PROVE  HoldsEntry(new, k, v) <=> IF k = key THEN v = val ELSE HoldsEntry(t, k, v)
<1>1. i \in Occupied(t) /\ t.arr[i].key = key
  BY Zenon DEF Overwritten
<1>2. /\ Occupied(new) = Occupied(t) /\ Live(new) = Live(t) \cup {i}
      /\ new.arr[i].val = val
      /\ \A j \in Occupied(t) : new.arr[j].key = t.arr[j].key
      /\ \A j \in Occupied(t) : j # i => new.arr[j] = t.arr[j]
  BY Overwrites
<1>3. \A j \in Occupied(t) : t.arr[j].key = key => j = i
  BY Zenon, <1>1 DEF Orderly, KeysDistinct
<1>4. Live(t) \subseteq Occupied(t)
  BY DEF Live
<1> QED
  BY Zenon, <1>1, <1>2, <1>3, <1>4 DEF HoldsEntry

(* What an insertion leaves of a table's properties.                       *)
Kept(t, key, val, new) ==
    /\ Orderly(new) /\ new.capacity = t.capacity
    /\ \A i \in Occupied(new) :
          new.arr[i].key = key \/ \E j \in Occupied(t) : t.arr[j].key = new.arr[i].key
    /\ \A k, v : HoldsEntry(new, k, v) <=> IF k = key THEN v = val ELSE HoldsEntry(t, k, v)
    /\ \E x \in 0 .. t.capacity - 1 :
          /\ Occupied(new) = Occupied(t) \cup {x}
          /\ \/ new.size = t.size /\ x \in Occupied(t)
             \/ new.size = t.size + 1 /\ x \notin Live(t)
    /\ Live(t) = Occupied(t) => Live(new) = Occupied(new)

(* So it keeps what an insertion has to keep,                              *)
LEMMA OverwrittenKept ==
    ASSUME NEW t, Orderly(t), NEW key \in Keys, NEW val \in Weights, NEW new,
           NEW i, Overwritten(t, key, val, new, i)
    PROVE  Kept(t, key, val, new)
<1>1. i \in Occupied(t) /\ t.arr[i].key = key
  BY Zenon DEF Overwritten
<1>2. /\ Orderly(new)
      /\ new.capacity = t.capacity /\ new.size = t.size
      /\ Occupied(new) = Occupied(t) /\ Live(new) = Live(t) \cup {i}
      /\ \A j \in Occupied(t) : new.arr[j].key = t.arr[j].key
  BY Overwrites
<1>3. i \in 0 .. t.capacity - 1
  BY <1>1, Occupants DEF Orderly
<1>4. \A k, v : HoldsEntry(new, k, v) <=> IF k = key THEN v = val ELSE HoldsEntry(t, k, v)
  BY OverwriteHolds
<1>5. \A j \in Occupied(new) :
          new.arr[j].key = key \/ \E x \in Occupied(t) : t.arr[x].key = new.arr[j].key
  BY Zenon, <1>2
<1>6. Occupied(new) = Occupied(t) \cup {i}
  BY <1>1, <1>2
<1>7. Live(t) = Occupied(t) => Live(new) = Occupied(new)
  BY <1>1, <1>2
<1> QED
  BY Zenon, <1>1, <1>2, <1>3, <1>4, <1>5, <1>6, <1>7 DEF Kept

(* and so does one that found none.                                        *)
LEMMA InsertedKept ==
    ASSUME NEW t, Orderly(t), NEW key \in Keys, NEW val \in Weights, NEW new,
           NEW s, NEW e, Inserted(t, key, val, new, s, e)
    PROVE  Kept(t, key, val, new)
<1> DEFINE o == Hash(t, key)
<1>1. IsTable(t) /\ t.capacity \in Nat \ {0} /\ DOMAIN t.arr = 0 .. t.capacity - 1
  BY DEF Orderly, IsTable
<1>2. PICK c \in Nat \ {0} : c = t.capacity
  BY <1>1
<1>3. o \in 0 .. c - 1
  BY <1>1, <1>2, KeyHash
<1>4. /\ s \in 0 .. c - 1 /\ e \in 0 .. c - 1 /\ s <= e
      /\ At(t, o, e) \notin Live(t)
      /\ \A d \in 0 .. c - 1 : s <= d /\ d < e => At(t, o, d) \in Live(t)
  BY Zenon, <1>2 DEF Inserted, Gap, Live
<1>5. new.capacity = t.capacity /\ new.size = t.size + 1
  BY InsertedSlots
<1>6. IsTable(new) /\ Occupied(new) = Occupied(t) \cup {At(t, o, e)}
  BY InsertedLive
<1>7. \A d \in 0 .. c - 1 : At(t, o, d) \in Live(new) <=> (s <= d /\ d <= e) \/ At(t, o, d) \in Live(t)
  <2>1. \A d \in 0 .. t.capacity - 1 :
          At(t, Hash(t, key), d) \in Live(new) <=> (s <= d /\ d <= e) \/ At(t, Hash(t, key), d) \in Live(t)
    BY InsertedLive
  <2> QED
    BY Zenon, <1>2, <2>1
<1>8. SortedByHome(new)
  BY InsertedSorted
<1>9. KeysDistinct(new) /\ \A i \in Occupied(new) :
         new.arr[i].key = key \/ \E j \in Occupied(t) : t.arr[j].key = new.arr[i].key
  BY InsertedDistinct
<1>10. \A k, v : HoldsEntry(new, k, v) <=> IF k = key THEN v = val ELSE HoldsEntry(t, k, v)
  BY InsertedHolds
<1>11. At(t, o, e) \in 0 .. t.capacity - 1
  BY <1>2, <1>3, <1>4, Walk
<1>12. ASSUME Live(t) = Occupied(t) PROVE Live(new) = Occupied(new)
  <2>1. Live(new) \subseteq Occupied(new)
    BY DEF Live
  <2>2. At(t, o, e) \in Live(new)
    <3>1. s <= e /\ e <= e
      BY <1>4
    <3> QED
      BY Zenon, <1>4, <1>7, <3>1
  <2>3. ASSUME NEW i \in Occupied(t) PROVE i \in Live(new)
    <3>1. i \in 0 .. c - 1
      BY <1>1, <1>2, Occupants
    <3>2. PICK d \in 0 .. c - 1 : i = At(t, o, d)
      BY <1>2, <1>3, <3>1, ByDistance
    <3> QED
      BY Zenon, <1>7, <1>12, <3>2
  <2> QED
    BY Zenon, <1>6, <2>1, <2>2, <2>3
<1> QED
  BY Zenon, <1>4, <1>5, <1>6, <1>8, <1>9, <1>10, <1>11, <1>12 DEF Kept, Orderly

(* The loop of insert_elem keeps the order, the other entries and the      *)
(* capacity, when there is a vacant slot.                                  *)
LEMMA PlaceKeeps ==
    ASSUME NEW t, Orderly(t), HasRoom(t), NEW key \in Keys, NEW val \in Weights
    PROVE  Kept(t, key, val, Place(t, key, val))
<1>1. t.capacity \in Nat \ {0}
  BY DEF Orderly, IsTable
<1>2. CASE \E i \in Occupied(t) : t.arr[i].key = key
  <2>1. PICK i \in Occupied(t) : t.arr[i].key = key
    BY <1>2
  <2>2. Overwritten(t, key, val, Place(t, key, val), i)
    BY <2>1, PlaceFound
  <2> QED
    BY <2>2, OverwrittenKept
<1>3. CASE \A i \in Occupied(t) : t.arr[i].key # key
  <2>1. Hash(t, key) \in 0 .. t.capacity - 1
    BY <1>1, KeyHash
  <2>2. PICK s, e \in 0 .. t.capacity - 1 : Gap(t, Hash(t, key), s, e)
    BY <2>1, GapExists
  <2>3. Inserted(t, key, val, Place(t, key, val), s, e)
    BY <1>3, <2>2, PlaceNew
  <2> QED
    BY <2>3, InsertedKept
<1> QED
  BY <1>2, <1>3

-----------------------------------------------------------------------------
(* The load.                                                               *)

Loaded(t) ==
    /\ Cardinality(Occupied(t)) <= t.size
    /\ t.size * 100 < t.capacity * LoadPercent + 100
    /\ IsCapacity(t.capacity)

(* size counts the elements: nothing has been marked deleted.              *)
Exact(t) == Live(t) = Occupied(t) /\ Cardinality(Occupied(t)) = t.size

(* The slots that are taken can be counted.                                *)
LEMMA FiniteSlots ==
    ASSUME NEW t, IsTable(t)
    PROVE  /\ IsFiniteSet(Occupied(t)) /\ Cardinality(Occupied(t)) \in Nat
           /\ Cardinality(Occupied(t)) <= t.capacity
           /\ IsFiniteSet(Live(t)) /\ Cardinality(Live(t)) \in Nat
           /\ Cardinality(Live(t)) <= Cardinality(Occupied(t))
<1>1. t.capacity \in Nat \ {0} /\ DOMAIN t.arr = 0 .. t.capacity - 1
  BY DEF IsTable
<1>2. PICK c \in Nat \ {0} : c = t.capacity
  BY <1>1
<1>3. 0 \in Int /\ c - 1 \in Int
  OBVIOUS
<1>4. IsFiniteSet(0 .. c - 1) /\ Cardinality(0 .. c - 1) = c
  BY <1>3, FS_Interval
<1>5. Occupied(t) \subseteq 0 .. c - 1 /\ Live(t) \subseteq Occupied(t)
  BY <1>1, <1>2 DEF Occupied, Live
<1>6. IsFiniteSet(Occupied(t)) /\ Cardinality(Occupied(t)) <= c
  BY <1>4, <1>5, FS_Subset
<1>7. IsFiniteSet(Live(t)) /\ Cardinality(Live(t)) <= Cardinality(Occupied(t))
  BY <1>5, <1>6, FS_Subset
<1> QED
  BY <1>2, <1>6, <1>7, FS_CardinalityType

(* Under its load factor a table has a vacant slot.                        *)
LEMMA LoadedHasRoom ==
    ASSUME NEW t, IsTable(t), Loaded(t)
    PROVE  HasRoom(t)
<1>1. t.capacity \in Nat \ {0} /\ DOMAIN t.arr = 0 .. t.capacity - 1 /\ t.size \in Nat
  BY DEF IsTable
<1>2. PICK c \in Nat \ {0} : c = t.capacity
  BY <1>1
<1>3. PICK load \in Int : load = c * LoadPercent
  BY LoadPercentAssumption
<1>4. load <= 100 * (c - 1) /\ t.size * 100 < load + 100
  BY <1>2, <1>3 DEF Loaded, IsCapacity
<1>5. t.size < c
  BY <1>1, <1>2, <1>3, <1>4
<1> SUFFICES ASSUME Occupied(t) = DOMAIN t.arr PROVE FALSE
  BY DEF HasRoom
<1>6. 0 \in Int /\ c - 1 \in Int
  OBVIOUS
<1>7. Cardinality(0 .. c - 1) = c
  BY <1>6, FS_Interval
<1>8. Cardinality(Occupied(t)) = c /\ Cardinality(Occupied(t)) <= t.size
  BY <1>1, <1>2, <1>7 DEF Loaded
<1> QED
  BY <1>1, <1>2, <1>5, <1>8

(* An insertion takes one slot at most, and counts it.                     *)
LEMMA KeptCounts ==
    ASSUME NEW t, Orderly(t), NEW key, NEW val, NEW new, Kept(t, key, val, new)
    PROVE  /\ new.size <= t.size + 1
           /\ Cardinality(Occupied(t)) <= t.size => Cardinality(Occupied(new)) <= new.size
           /\ Exact(t) => Exact(new)
           /\ new.size >= t.size
<1>1. PICK x \in 0 .. t.capacity - 1 :
          /\ Occupied(new) = Occupied(t) \cup {x}
          /\ \/ new.size = t.size /\ x \in Occupied(t)
             \/ new.size = t.size + 1 /\ x \notin Live(t)
  BY Zenon DEF Kept
<1>2. IsTable(t) /\ t.size \in Nat
  BY DEF Orderly, IsTable
<1>3. IsFiniteSet(Occupied(t)) /\ Cardinality(Occupied(t)) \in Nat
  BY <1>2, FiniteSlots
<1>4. Cardinality(Occupied(new)) =
        IF x \in Occupied(t) THEN Cardinality(Occupied(t)) ELSE Cardinality(Occupied(t)) + 1
  BY <1>1, <1>3, FS_AddElement
<1>5. Live(t) = Occupied(t) => Live(new) = Occupied(new)
  BY Zenon DEF Kept
<1> QED
  BY <1>1, <1>2, <1>3, <1>4, <1>5 DEF Exact

(* One element more than a table that is not full can have keeps the load. *)
LEMMA PlaceLoads ==
    ASSUME NEW t, Orderly(t), Loaded(t), ~IsFull(t), NEW key \in Keys, NEW val \in Weights
    PROVE  /\ Kept(t, key, val, Place(t, key, val))
           /\ Loaded(Place(t, key, val))
<1>1. HasRoom(t)
  BY LoadedHasRoom DEF Orderly
<1>2. PICK new : new = Place(t, key, val)
  OBVIOUS
<1>3. Kept(t, key, val, new)
  BY <1>1, <1>2, PlaceKeeps
<1>4. /\ new.size <= t.size + 1
      /\ Cardinality(Occupied(t)) <= t.size => Cardinality(Occupied(new)) <= new.size
  BY <1>3, KeptCounts
<1>5. new.capacity = t.capacity /\ new.size \in Nat /\ t.size \in Nat /\ t.capacity \in Nat
  BY <1>3 DEF Kept, Orderly, IsTable
<1>6. PICK load \in Int : load = t.capacity * LoadPercent
  BY <1>5, LoadPercentAssumption
<1>7. t.size * 100 < load
  BY <1>5, <1>6 DEF IsFull
<1>8. new.size * 100 < load + 100
  BY <1>4, <1>5, <1>6, <1>7
<1> QED
  BY Zenon, <1>2, <1>3, <1>4, <1>5, <1>6, <1>8 DEF Loaded

(* A new table is in order and empty.                                      *)
LEMMA NewTableOrderly ==
    ASSUME NEW cap \in Nat \ {0}
    PROVE  LET t == NewTable(cap) IN
           /\ Orderly(t) /\ t.capacity = cap /\ t.size = 0
           /\ Occupied(t) = {} /\ Live(t) = {} /\ Exact(t)
           /\ IsCapacity(cap) => Loaded(t)
<1>1. PICK t : t = NewTable(cap)
  OBVIOUS
<1>2. t.capacity = cap /\ t.size = 0 /\ t.arr = [i \in 0 .. cap - 1 |-> Vacant]
      /\ t = [capacity |-> t.capacity, size |-> t.size, arr |-> t.arr]
  BY <1>1 DEF NewTable
<1>3. Occupied(t) = {} /\ Live(t) = {}
  BY <1>2 DEF Occupied, Live
<1>4. Orderly(t)
  BY <1>2, <1>3 DEF Orderly, IsTable, SortedByHome, KeysDistinct
<1>5. Cardinality(Occupied(t)) = 0
  BY <1>3, FS_EmptySet
<1>6. IsCapacity(cap) => Loaded(t)
  <2> SUFFICES ASSUME IsCapacity(cap) PROVE Loaded(t)
    OBVIOUS
  <2>1. PICK load \in Int : load = cap * LoadPercent
    BY LoadPercentAssumption
  <2>2. 0 * 100 < load + 100
    BY <2>1 DEF IsCapacity
  <2> QED
    BY <1>2, <1>5, <2>1, <2>2 DEF Loaded
<1> QED
  BY <1>1, <1>2, <1>3, <1>4, <1>5, <1>6 DEF Exact

-----------------------------------------------------------------------------
(* The two loops that insert the elements of one table into another.  b    *)
(* says which; the step is the (i)th, of the slot i - 1.                   *)
DoubleStep(t, u, i) ==
    IF i - 1 \in Live(t) THEN Place(u, t.arr[i - 1].key, t.arr[i - 1].val) ELSE u

MoveStep(t, n, u, i) ==
    LET k == At(t, n % t.capacity, i - 1) IN
    IF k \in LdSlots(t, n)
    THEN InsertElem(u, <<t.arr[k].key[2]>>, t.arr[k].val) ELSE u

LoopStep(b, u, i) ==
    IF b.moves THEN MoveStep(b.t, b.n, u, i) ELSE DoubleStep(b.t, u, i)

IsLoop(h, b, x, n) == h = [i \in 0 .. n |-> IF i = 0 THEN x ELSE LoopStep(b, h[i - 1], i)]

(* A function that is defined by a loop over the naturals exists.          *)
LEMMA Loop ==
    ASSUME NEW b, NEW x, NEW n \in Nat
    PROVE  \E h : IsLoop(h, b, x, n)
<1> DEFINE R(g, m) == g = [i \in 0 .. m |-> IF i = 0 THEN x ELSE LoopStep(b, g[i - 1], i)]
           S == {m \in Nat : \E g : R(g, m)}
<1>1. 0 \in S
  <2> DEFINE g == [i \in 0 .. 0 |-> x]
  <2>1. R(g, 0)
    OBVIOUS
  <2> HIDE DEF g, R
  <2> QED
    BY <2>1
<1>2. ASSUME NEW m \in Nat, m \in S PROVE m + 1 \in S
  <2>1. PICK f : R(f, m)
    BY <1>2
  <2>2. \A i \in 0 .. m : f[i] = IF i = 0 THEN x ELSE LoopStep(b, f[i - 1], i)
    BY <2>1
  <2> DEFINE g == [i \in 0 .. m + 1 |-> IF i = m + 1 THEN LoopStep(b, f[m], i) ELSE f[i]]
  <2>3. ASSUME NEW i \in 0 .. m + 1
        PROVE  g[i] = IF i = 0 THEN x ELSE LoopStep(b, g[i - 1], i)
    <3>1. CASE i = m + 1
      <4>1. i # 0 /\ i - 1 = m /\ g[m] = f[m] /\ g[i] = LoopStep(b, f[m], i)
        BY <3>1
      <4> HIDE DEF g
      <4> QED
        BY <4>1
    <3>2. CASE i # m + 1
      <4>1. i \in 0 .. m /\ g[i] = f[i] /\ (i # 0 => g[i - 1] = f[i - 1])
        BY <3>2
      <4> HIDE DEF g
      <4> QED
        BY Zenon, <2>2, <4>1
    <3> QED
      BY <3>1, <3>2
  <2>4. g = [i \in 0 .. m + 1 |-> g[i]]
    OBVIOUS
  <2>5. R(g, m + 1)
    <3> HIDE DEF g
    <3> QED
      BY Zenon, <2>3, <2>4
  <2> HIDE DEF g, R
  <2> QED
    BY <2>5
<1>3. Nat \subseteq S
  <2> HIDE DEF S
  <2> QED
    BY <1>1, <1>2, SetInduction
<1>4. \E g : R(g, n)
  <2> HIDE DEF R
  <2> QED
    BY <1>3
<1> QED
  BY <1>4 DEF IsLoop

(* A table that is full according to its load has half of it to spare when *)
(* doubled.                                                                *)
LEMMA DoubledLoad ==
    ASSUME NEW t, IsTable(t), Loaded(t)
    PROVE  /\ IsCapacity(2 * t.capacity)
           /\ \A n \in Nat : n <= t.size => n * 100 < (2 * t.capacity) * LoadPercent
<1>1. t.capacity \in Nat \ {0} /\ t.size \in Nat
  BY DEF IsTable
<1>2. PICK c \in Nat \ {0} : c = t.capacity
  BY <1>1
<1>3. PICK load \in Int : load = c * LoadPercent
  BY LoadPercentAssumption
<1>4. 100 <= load /\ load <= 100 * (c - 1) /\ t.size * 100 < load + 100
  BY Zenon, <1>2, <1>3 DEF Loaded, IsCapacity
<1>5. (2 * c) * LoadPercent = 2 * load
  BY <1>3, LoadPercentAssumption
<1>6. 100 <= 2 * load /\ 2 * load <= 100 * (2 * c - 1)
  BY <1>4
<1>7. \A n \in Nat : n <= t.size => n * 100 < 2 * load
  BY <1>1, <1>3, <1>4
<1>8. 2 * c \in Nat
  OBVIOUS
<1> QED
  BY Zenon, <1>2, <1>5, <1>6, <1>7, <1>8 DEF IsCapacity

(* The keys of a table are among those of another one, live there.         *)
KeysFrom(new, t) ==
    \A i \in Occupied(new) : \E j \in Live(t) : t.arr[j].key = new.arr[i].key

(* u is the doubled t with the elements of the slots A in it.              *)
Filled(u, t, A) ==
    /\ Orderly(u) /\ Loaded(u) /\ u.capacity = 2 * t.capacity
    /\ Exact(u) /\ KeysFrom(u, t)
    /\ u.size <= Cardinality(A)
    /\ \A k, v : HoldsEntry(u, k, v) <=> \E j \in A : t.arr[j].key = k /\ t.arr[j].val = v

(* double_capacity keeps every live entry, drops the tombstones and leaves *)
(* a table that is not full.                                               *)
LEMMA Doubling ==
    ASSUME NEW t, Orderly(t), Loaded(t)
    PROVE  LET new == Doubled(t) IN
           /\ Orderly(new) /\ Loaded(new) /\ ~IsFull(new)
           /\ Exact(new) /\ KeysFrom(new, t)
           /\ \A k, v : HoldsEntry(new, k, v) <=> HoldsEntry(t, k, v)
<1>1. IsTable(t) /\ t.capacity \in Nat \ {0} /\ DOMAIN t.arr = 0 .. t.capacity - 1
      /\ t.size \in Nat
  BY DEF Orderly, IsTable
<1>2. PICK c \in Nat \ {0} : c = t.capacity
  BY <1>1
<1> DEFINE R(g) == g = [i \in 0 .. c |->
                          IF i = 0 THEN NewTable(2 * t.capacity) ELSE DoubleStep(t, g[i - 1], i)]
<1>3. \E g : R(g)
  <2>1. PICK b : b = [moves |-> FALSE, t |-> t]
    OBVIOUS
  <2>2. ASSUME NEW u, NEW i PROVE LoopStep(b, u, i) = DoubleStep(t, u, i)
    BY <2>1 DEF LoopStep
  <2>3. PICK x : x = NewTable(2 * t.capacity)
    OBVIOUS
  <2>4. c \in Nat
    OBVIOUS
  <2>5. PICK h : IsLoop(h, b, x, c)
    BY Zenon, <2>4, Loop
  <2>6. R(h)
    BY Zenon, <2>2, <2>3, <2>5 DEF IsLoop
  <2> HIDE DEF R
  <2> QED
    BY <2>6
<1>4. PICK f : f = CHOOSE g : R(g)
  OBVIOUS
<1> DEFINE D == CHOOSE g : R(g)
<1>5. R(f) /\ Doubled(t) = f[c]
  <2>1. Doubled(t) = D[c]
    BY Zenon, <1>2 DEF Doubled, DoubleStep
  <2> HIDE DEF R
  <2> QED
    BY Zenon, <1>3, <1>4, <2>1
<1>6. f[0] = NewTable(2 * t.capacity) /\ \A i \in 1 .. c : f[i] = DoubleStep(t, f[i - 1], i)
  <2>1. \A i \in 0 .. c : f[i] =
            IF i = 0 THEN NewTable(2 * t.capacity) ELSE DoubleStep(t, f[i - 1], i)
    BY Zenon, <1>5
  <2>2. 0 \in 0 .. c /\ \A i \in 1 .. c : i \in 0 .. c /\ i # 0
    OBVIOUS
  <2> QED
    BY Zenon, <2>1, <2>2
<1> HIDE DEF R, D
<1>7. IsFiniteSet(Live(t)) /\ Cardinality(Live(t)) \in Nat /\ Cardinality(Live(t)) <= t.size
  <2>1. /\ Cardinality(Live(t)) <= Cardinality(Occupied(t))
        /\ IsFiniteSet(Live(t)) /\ Cardinality(Live(t)) \in Nat
        /\ Cardinality(Occupied(t)) \in Nat
    BY <1>1, FiniteSlots
  <2>2. Cardinality(Occupied(t)) <= t.size
    BY DEF Loaded
  <2> QED
    BY <1>1, <2>1, <2>2
<1> DEFINE L(i) == {j \in Live(t) : j < i}
           J(i) == Filled(f[i], t, L(i))
           S == {i \in Nat : i <= c => J(i)}
<1>8. \A i \in Nat : IsFiniteSet(L(i)) /\ Cardinality(L(i)) \in Nat /\ Cardinality(L(i)) <= t.size
  <2> SUFFICES ASSUME NEW i \in Nat
               PROVE  IsFiniteSet(L(i)) /\ Cardinality(L(i)) \in Nat /\ Cardinality(L(i)) <= t.size
    OBVIOUS
  <2>1. L(i) \subseteq Live(t)
    OBVIOUS
  <2> HIDE DEF L
  <2>2. IsFiniteSet(L(i)) /\ Cardinality(L(i)) <= Cardinality(Live(t))
    BY <1>7, <2>1, FS_Subset
  <2> QED
    BY <1>1, <1>7, <2>2, FS_CardinalityType
<1>9. \A i \in Nat : J(i) => ~IsFull(f[i])
  <2> SUFFICES ASSUME NEW i \in Nat, J(i) PROVE ~IsFull(f[i])
    OBVIOUS
  <2>1. f[i].size \in Nat /\ f[i].size <= Cardinality(L(i)) /\ f[i].capacity = 2 * t.capacity
    BY Zenon DEF Filled, Orderly, IsTable
  <2> HIDE DEF L
  <2>2. f[i].size <= t.size
    <3>1. PICK n \in Nat : n = Cardinality(L(i)) /\ n <= t.size
      BY Zenon, <1>8
    <3>2. PICK m \in Nat : m = f[i].size /\ m <= n
      BY Zenon, <2>1, <3>1
    <3> QED
      BY <1>1, <3>1, <3>2
  <2>3. f[i].size * 100 < (2 * t.capacity) * LoadPercent
    BY <1>1, <2>1, <2>2, DoubledLoad
  <2>4. PICK load \in Int : load = (2 * t.capacity) * LoadPercent
    BY <1>1, LoadPercentAssumption
  <2>5. PICK x \in Nat : x = f[i].size
    BY Zenon, <2>1
  <2>6. x * 100 < load
    BY Zenon, <2>3, <2>4, <2>5
  <2>7. ~(x * 100 >= load)
    BY <2>6
  <2> QED
    BY Zenon, <2>1, <2>4, <2>5, <2>7 DEF IsFull
<1>10. 0 \in S
  <2>1. 2 * t.capacity \in Nat \ {0} /\ IsCapacity(2 * t.capacity)
    BY <1>1, DoubledLoad
  <2>2. PICK x : x = NewTable(2 * t.capacity)
    OBVIOUS
  <2>3. /\ Orderly(x) /\ x.capacity = 2 * t.capacity /\ x.size = 0
        /\ Occupied(x) = {} /\ Live(x) = {} /\ Exact(x) /\ Loaded(x)
    BY <2>1, <2>2, NewTableOrderly
  <2>4. L(0) = {}
    <3>1. \A j \in Live(t) : j \in Nat
      BY <1>1, Occupants DEF Live
    <3> QED
      BY <3>1
  <2>5. x.size <= Cardinality(L(0))
    BY <2>3, <2>4, FS_EmptySet
  <2>6. f[0] = x
    BY Zenon, <1>6, <2>2
  <2>7. Filled(x, t, L(0))
    <3> HIDE DEF L
    <3> QED
      BY <2>3, <2>4, <2>5 DEF Filled, KeysFrom, HoldsEntry
  <2>8. J(0)
    BY Zenon, <2>6, <2>7
  <2> QED
    BY <2>8
<1>11. ASSUME NEW i \in Nat, i \in S PROVE i + 1 \in S
  <2> SUFFICES ASSUME i + 1 <= c PROVE J(i + 1)
    OBVIOUS
  <2>1. i \in 0 .. c - 1 /\ i + 1 \in 1 .. c /\ (i + 1) - 1 = i
    OBVIOUS
  <2>2. J(i)
    BY <1>11, <2>1
  <2>3. PICK u, w : u = f[i] /\ w = f[i + 1]
    OBVIOUS
  <2>4. w = IF i \in Live(t) THEN Place(u, t.arr[i].key, t.arr[i].val) ELSE u
    BY Zenon, <1>6, <2>1, <2>3 DEF DoubleStep
  <2>5. \A j \in Live(t) : j \in Nat
    BY <1>1, Occupants DEF Live
  <2>6. CASE i \notin Live(t)
    <3>1. L(i + 1) = L(i)
      <4>1. \A j \in Live(t) : j < i + 1 <=> j < i
        BY <2>5, <2>6
      <4> QED
        BY Zenon, <4>1
    <3>2. w = u
      BY <2>4, <2>6
    <3> HIDE DEF L
    <3> QED
      BY Zenon, <2>2, <2>3, <3>1, <3>2
  <2>7. CASE i \in Live(t)
    <3>1. L(i + 1) = L(i) \cup {i} /\ i \notin L(i)
      <4>1. ~(i < i) /\ \A j \in Live(t) : j < i + 1 <=> j < i \/ j = i
        BY <2>5
      <4> QED
        BY Zenon, <2>7, <4>1
    <3>2. i \in Occupied(t) /\ t.arr[i].key \in Keys /\ t.arr[i].val \in Weights
      BY <1>1, <2>7, Occupants DEF Live
    <3>3. PICK key \in Keys, val \in Weights : key = t.arr[i].key /\ val = t.arr[i].val
      BY <3>2
    <3>4. w = Place(u, key, val)
      BY <2>4, <2>7, <3>3
    <3>5. Orderly(u) /\ Loaded(u) /\ ~IsFull(u) /\ Exact(u) /\ KeysFrom(u, t)
          /\ u.capacity = 2 * t.capacity /\ u.size <= Cardinality(L(i))
          /\ \A k, v : HoldsEntry(u, k, v) <=>
                 \E j \in L(i) : t.arr[j].key = k /\ t.arr[j].val = v
      <4> HIDE DEF L
      <4> QED
        BY Zenon, <1>9, <2>2, <2>3 DEF Filled
    <3>6. Kept(u, key, val, w) /\ Loaded(w)
      BY <3>4, <3>5, PlaceLoads
    <3>7. Exact(w) /\ w.size <= u.size + 1
      BY <3>5, <3>6, KeptCounts
    <3>8. Orderly(w) /\ w.capacity = 2 * t.capacity
      BY Zenon, <3>5, <3>6 DEF Kept
    <3>9. KeysFrom(w, t)
      <4> SUFFICES ASSUME NEW x \in Occupied(w)
                   PROVE  \E j \in Live(t) : t.arr[j].key = w.arr[x].key
        BY DEF KeysFrom
      <4>1. w.arr[x].key = key \/ \E y \in Occupied(u) : u.arr[y].key = w.arr[x].key
        BY Zenon, <3>6 DEF Kept
      <4>2. ASSUME NEW y \in Occupied(u), u.arr[y].key = w.arr[x].key
            PROVE  \E j \in Live(t) : t.arr[j].key = w.arr[x].key
        <5>1. PICK j \in Live(t) : t.arr[j].key = u.arr[y].key
          BY Zenon, <3>5, <4>2 DEF KeysFrom
        <5> QED
          BY Zenon, <4>2, <5>1
      <4> QED
        BY Zenon, <2>7, <3>3, <4>1, <4>2
    <3>10. w.size <= Cardinality(L(i + 1))
      <4>1. Cardinality(L(i + 1)) = Cardinality(L(i)) + 1
        <5> HIDE DEF L
        <5> QED
          BY <1>8, <3>1, FS_AddElement
      <4>2. w.size \in Nat /\ u.size \in Nat
        BY <3>5, <3>8 DEF Orderly, IsTable
      <4>3. Cardinality(L(i)) \in Nat
        BY <1>8
      <4> HIDE DEF L
      <4> QED
        BY <3>5, <3>7, <4>1, <4>2, <4>3
    <3>11. ASSUME NEW k, NEW v
           PROVE  HoldsEntry(w, k, v) <=>
                     \E j \in L(i + 1) : t.arr[j].key = k /\ t.arr[j].val = v
      <4>1. HoldsEntry(w, k, v) <=> IF k = key THEN v = val ELSE HoldsEntry(u, k, v)
        BY Zenon, <3>6 DEF Kept
      <4>2. \A j \in L(i) : t.arr[j].key # key
        <5>1. \A j \in Live(t) : t.arr[j].key = t.arr[i].key => j = i
          BY Zenon, <3>2 DEF Orderly, KeysDistinct, Live
        <5>2. \A j \in L(i) : j \in Live(t) /\ j # i
          BY <3>1
        <5> HIDE DEF L
        <5> QED
          BY Zenon, <3>3, <5>1, <5>2
      <4> HIDE DEF L
      <4> QED
        <5>1. CASE k = key
          <6>1. ASSUME NEW j \in L(i + 1), t.arr[j].key = k
                PROVE  j = i
            BY Zenon, <3>1, <4>2, <5>1, <6>1
          <6>2. i \in L(i + 1)
            BY Zenon, <3>1
          <6> QED
            BY Zenon, <3>3, <4>1, <5>1, <6>1, <6>2
        <5>2. CASE k # key
          <6>1. \A j \in L(i + 1) : t.arr[j].key = k => j \in L(i)
            BY Zenon, <3>1, <3>3, <5>2
          <6>2. \A j \in L(i) : j \in L(i + 1)
            BY Zenon, <3>1
          <6>3. HoldsEntry(u, k, v) <=> \E j \in L(i) : t.arr[j].key = k /\ t.arr[j].val = v
            BY Zenon, <3>5
          <6> QED
            BY Zenon, <4>1, <5>2, <6>1, <6>2, <6>3
        <5> QED
          BY <5>1, <5>2
    <3> HIDE DEF L
    <3> QED
      BY Zenon, <2>3, <3>6, <3>7, <3>8, <3>9, <3>10, <3>11 DEF Filled
  <2> QED
    BY <2>6, <2>7
<1>12. Nat \subseteq S
  <2> HIDE DEF S
  <2> QED
    BY <1>10, <1>11, SetInduction
<1>13. c \in Nat /\ c <= c
  OBVIOUS
<1>14. J(c)
  <2> HIDE DEF J
  <2> QED
    BY <1>12, <1>13
<1>15. L(c) = Live(t)
  <2>1. \A j \in Live(t) : j \in 0 .. c - 1
    BY <1>1, <1>2, Occupants DEF Live
  <2> QED
    BY <2>1
<1>16. ~IsFull(f[c])
  <2> HIDE DEF J
  <2> QED
    BY <1>9, <1>13, <1>14
<1>17. \A k, v : HoldsEntry(f[c], k, v) <=> HoldsEntry(t, k, v)
  <2>1. PICK A : A = L(c)
    OBVIOUS
  <2>2. A = Live(t)
    BY Zenon, <1>15, <2>1
  <2>3. \A k, v : HoldsEntry(f[c], k, v) <=>
            \E j \in A : t.arr[j].key = k /\ t.arr[j].val = v
    BY Zenon, <1>14, <2>1 DEF Filled
  <2> QED
    <3> SUFFICES ASSUME NEW k, NEW v PROVE HoldsEntry(f[c], k, v) <=> HoldsEntry(t, k, v)
      OBVIOUS
    <3>1. HoldsEntry(t, k, v) <=> \E j \in A : t.arr[j].key = k /\ t.arr[j].val = v
      BY <2>2 DEF HoldsEntry
    <3>2. HoldsEntry(f[c], k, v) <=> \E j \in A : t.arr[j].key = k /\ t.arr[j].val = v
      BY Zenon, <2>3
    <3> QED
      BY Zenon, <3>1, <3>2
<1>18. Orderly(f[c]) /\ Loaded(f[c]) /\ Exact(f[c]) /\ KeysFrom(f[c], t)
  BY Zenon, <1>14 DEF Filled
<1> QED
  BY Zenon, <1>5, <1>16, <1>17, <1>18

(* insert_elem.                                                            *)
InsertKeeps(t, key, val, new) ==
    /\ Orderly(new) /\ Loaded(new)
    /\ \A i \in Occupied(new) :
          new.arr[i].key = key \/ \E j \in Occupied(t) : t.arr[j].key = new.arr[i].key
    /\ \A k, v : HoldsEntry(new, k, v) <=> IF k = key THEN v = val ELSE HoldsEntry(t, k, v)
    /\ Exact(t) => Exact(new)

(* insert_elem, with the doubling: in order, loaded below the factor, its  *)
(* entry added and no other lost.                                          *)
LEMMA Insertion ==
    ASSUME NEW t, Orderly(t), Loaded(t), NEW key \in Keys, NEW val \in Weights
    PROVE  InsertKeeps(t, key, val, InsertElem(t, key, val))
<1>1. PICK u : u = IF IsFull(t) THEN Doubled(t) ELSE t
  OBVIOUS
<1>2. /\ Orderly(u) /\ Loaded(u) /\ ~IsFull(u)
      /\ \A i \in Occupied(u) : \E j \in Occupied(t) : t.arr[j].key = u.arr[i].key
      /\ \A k, v : HoldsEntry(u, k, v) <=> HoldsEntry(t, k, v)
      /\ Exact(t) => Exact(u)
  <2>1. CASE IsFull(t)
    <3>1. u = Doubled(t)
      BY <1>1, <2>1
    <3>2. /\ Orderly(u) /\ Loaded(u) /\ ~IsFull(u)
          /\ Exact(u) /\ KeysFrom(u, t)
          /\ \A k, v : HoldsEntry(u, k, v) <=> HoldsEntry(t, k, v)
      BY Zenon, <3>1, Doubling
    <3> QED
      BY Zenon, <3>2 DEF KeysFrom, Live
  <2>2. CASE ~IsFull(t)
    BY Zenon, <1>1, <2>2
  <2> QED
    BY <2>1, <2>2
<1>3. PICK new : new = InsertElem(t, key, val)
  OBVIOUS
<1>4. new = Place(u, key, val)
  BY Zenon, <1>1, <1>3 DEF InsertElem
<1>5. Kept(u, key, val, new) /\ Loaded(new)
  BY <1>2, <1>4, PlaceLoads
<1>6. Exact(u) => Exact(new)
  BY <1>2, <1>5, KeptCounts
<1>7. InsertKeeps(t, key, val, new)
  BY Zenon, <1>2, <1>5, <1>6 DEF Kept, InsertKeeps
<1> QED
  BY Zenon, <1>3, <1>7

-----------------------------------------------------------------------------
(* What a partition owns.                                                  *)

LowTable(l) ==
    /\ Orderly(l) /\ Loaded(l)
    /\ \A i \in Occupied(l) : l.arr[i].key \in NodeID \X NodeID

(* A chunk, and one that has been made for an edge.                        *)
ChunkTable(u) ==
    /\ Orderly(u) /\ Loaded(u) /\ Exact(u)
    /\ \A i \in Occupied(u) : \E m \in NodeID : u.arr[i].key = <<m>>

Owns(l, h) ==
    /\ LowTable(l)
    /\ \A n \in DOMAIN h : n \in NodeID /\ ChunkTable(h[n]) /\ Occupied(h[n]) # {}
    /\ \A i \in Live(l) : l.arr[i].key[1] \notin DOMAIN h

(* The iterator comes across all edges of the vertex.                      *)
LEMMA LdAll ==
    ASSUME NEW l, LowTable(l), NEW n \in NodeID
    PROVE  LdSlots(l, n) = {i \in Live(l) : l.arr[i].key[1] = n}
<1>1. Orderly(l) /\ IsTable(l) /\ l.capacity \in Nat \ {0}
  BY DEF LowTable, Orderly, IsTable
<1> SUFFICES ASSUME NEW i \in Live(l), l.arr[i].key[1] = n
             PROVE  Reached(l, n % l.capacity, i)
  BY Zenon DEF LdSlots
<1>2. i \in Occupied(l)
  BY DEF Live
<1>3. PICK o : o = n % l.capacity
  OBVIOUS
<1>4. l.arr[i].hash = o /\ o \in 0 .. l.capacity - 1
  <2>1. l.arr[i].hash = Hash(l, l.arr[i].key) /\ l.arr[i].hash \in 0 .. l.capacity - 1
    BY <1>1, <1>2, Occupants
  <2> QED
    BY Zenon, <1>3, <2>1 DEF Hash
<1>5. Displacement(l, i) = ProbeDist(l, o, i) /\ Displacement(l, i) \in 0 .. l.capacity - 1
  <2>1. Displacement(l, i) = ProbeDist(l, l.arr[i].hash, i) /\ Displacement(l, i) \in 0 .. l.capacity - 1
    BY <1>1, <1>2, Occupants
  <2> QED
    BY Zenon, <1>4, <2>1
<1> SUFFICES ASSUME NEW d \in 0 .. ProbeDist(l, o, i)
             PROVE  ~Stops(l, o, At(l, o, d))
  BY Zenon, <1>3 DEF Reached
<1>6. d \in 0 .. Displacement(l, i) /\ d \in 0 .. l.capacity - 1
  BY <1>1, <1>5
<1>7. PICK k : k = At(l, o, d)
  OBVIOUS
<1>8. k \in Occupied(l) /\ Displacement(l, k) >= d
  BY <1>1, <1>2, <1>4, <1>6, <1>7, RunFromHome
<1>9. ProbeDist(l, o, k) = d
  BY <1>1, <1>4, <1>6, <1>7, Walk
<1>10. Displacement(l, k) \in 0 .. l.capacity - 1
  BY <1>1, <1>8, Occupants
<1>11. ~(d > Displacement(l, k))
  BY <1>1, <1>6, <1>8, <1>10
<1> QED
  BY <1>7, <1>8, <1>9, <1>11 DEF Stops, Occupied

(* Tombstones keep their places.                                           *)
LEMMA Tombstones ==
    ASSUME NEW l, LowTable(l), NEW slots \in SUBSET Live(l)
    PROVE  LET new == LeaveTombstones(l, slots) IN
           /\ LowTable(new) /\ Live(new) = Live(l) \ slots
           /\ \A i \in Live(new) : new.arr[i] = l.arr[i]
<1>1. /\ Orderly(l) /\ Loaded(l) /\ IsTable(l)
      /\ l.capacity \in Nat \ {0} /\ DOMAIN l.arr = 0 .. l.capacity - 1
      /\ l = [capacity |-> l.capacity, size |-> l.size, arr |-> l.arr]
      /\ l.size \in Nat
  BY DEF LowTable, Orderly, IsTable
<1> DEFINE arr == [i \in DOMAIN l.arr |->
                      IF i \in slots THEN [l.arr[i] EXCEPT !.deleted = TRUE] ELSE l.arr[i]]
<1>2. PICK new : new = LeaveTombstones(l, slots)
  OBVIOUS
<1>3. new = [l EXCEPT !.arr = arr]
  BY Zenon, <1>2 DEF LeaveTombstones
<1>4. new = [capacity |-> l.capacity, size |-> l.size, arr |-> arr]
  <2> HIDE DEF arr
  <2> QED
    BY <1>1, <1>3
<1>5. new.capacity = l.capacity /\ new.size = l.size /\ new.arr = arr
  <2> HIDE DEF arr
  <2> QED
    BY <1>4
<1>6. slots \subseteq Occupied(l)
  BY DEF Live
<1>7. ASSUME NEW i \in slots
      PROVE  LET x == [l.arr[i] EXCEPT !.deleted = TRUE] IN
             /\ x \in Elem(l.capacity) /\ x.key = l.arr[i].key /\ x.hash = l.arr[i].hash
             /\ x.deleted
  <2>1. PICK y \in Elem(l.capacity) : y = l.arr[i]
    BY <1>1, <1>6, Occupants
  <2>2. LET x == [y EXCEPT !.deleted = TRUE] IN
             /\ x \in Elem(l.capacity) /\ x.key = y.key /\ x.hash = y.hash
             /\ x.deleted
    BY DEF Elem
  <2> QED
    BY Zenon, <2>1, <2>2
<1>8. \A i \in DOMAIN l.arr :
          new.arr[i] = IF i \in slots THEN [l.arr[i] EXCEPT !.deleted = TRUE] ELSE l.arr[i]
  BY <1>5
<1>9. DOMAIN new.arr = DOMAIN l.arr
  BY <1>5
<1>10. IsTable(new)
  <2>1. arr \in [0 .. l.capacity - 1 -> Elem(l.capacity) \cup {Vacant}]
    <3>1. \A i \in DOMAIN l.arr : arr[i] \in Elem(l.capacity) \cup {Vacant}
      <4>1. \A i \in DOMAIN l.arr : l.arr[i] \in Elem(l.capacity) \cup {Vacant}
        BY <1>1 DEF IsTable
      <4> QED
        BY Zenon, <1>5, <1>7, <1>8, <4>1
    <3> QED
      BY Zenon, <1>1, <3>1
  <2> HIDE DEF arr
  <2> QED
    BY <1>1, <1>4, <1>5, <2>1 DEF IsTable
<1>11. ASSUME NEW i \in slots PROVE new.arr[i] # Vacant /\ new.arr[i].deleted
  <2>1. new.arr[i] = [l.arr[i] EXCEPT !.deleted = TRUE]
    BY <1>6, <1>8 DEF Occupied
  <2>2. new.arr[i] \in Elem(l.capacity) /\ new.arr[i].deleted
    BY Zenon, <1>7, <2>1
  <2> QED
    BY Zenon, <2>2, NotVacant
<1>12. Occupied(new) = Occupied(l)
  <2>1. \A i \in DOMAIN l.arr : new.arr[i] # Vacant <=> l.arr[i] # Vacant
    <3> SUFFICES ASSUME NEW i \in DOMAIN l.arr
                 PROVE  new.arr[i] # Vacant <=> l.arr[i] # Vacant
      OBVIOUS
    <3>1. CASE i \in slots
      <4>1. l.arr[i] # Vacant
        BY <1>6, <3>1 DEF Occupied
      <4> QED
        BY Zenon, <1>11, <3>1, <4>1
    <3>2. CASE i \notin slots
      BY <1>8, <3>2
    <3> QED
      BY <3>1, <3>2
  <2> QED
    BY Zenon, <1>9, <2>1 DEF Occupied
<1>13. Live(new) = Live(l) \ slots
  <2>1. \A i \in Occupied(l) : ~new.arr[i].deleted <=> ~l.arr[i].deleted /\ i \notin slots
    BY Zenon, <1>8, <1>11 DEF Occupied
  <2> QED
    BY Zenon, <1>12, <2>1 DEF Live
<1>14. \A i \in Occupied(l) : new.arr[i].key = l.arr[i].key /\ new.arr[i].hash = l.arr[i].hash
  BY Zenon, <1>7, <1>8 DEF Occupied
<1>15. \A i \in Occupied(l) : Displacement(new, i) = Displacement(l, i)
  BY Zenon, <1>5, <1>14 DEF Displacement, ProbeDist
<1>16. SortedByHome(new)
  <2>1. SortedByHome(l)
    BY <1>1 DEF Orderly
  <2> QED
    BY Zenon, <1>5, <1>12, <1>15, <2>1 DEF SortedByHome
<1>17. KeysDistinct(new)
  BY Zenon, <1>1, <1>12, <1>14 DEF KeysDistinct, Orderly
<1>18. Loaded(new)
  BY Zenon, <1>1, <1>5, <1>12 DEF Loaded
<1>19. \A i \in Live(new) : new.arr[i] = l.arr[i]
  BY Zenon, <1>8, <1>13 DEF Live, Occupied
<1>20. LowTable(new)
  BY Zenon, <1>10, <1>12, <1>14, <1>16, <1>17, <1>18 DEF LowTable, Orderly
<1> QED
  BY Zenon, <1>2, <1>13, <1>19, <1>20

-----------------------------------------------------------------------------
(* The same for a low-degree table, where the key is an edge,              *)
LEMMA LowInsertion ==
    ASSUME NEW l, LowTable(l), NEW a \in NodeID, NEW b \in NodeID, NEW w \in Weights
    PROVE  LET new == InsertElem(l, <<a, b>>, w) IN
           /\ LowTable(new)
           /\ \A k, v : HoldsEntry(new, k, v) <=>
                 IF k = <<a, b>> THEN v = w ELSE HoldsEntry(l, k, v)
<1>1. PICK key \in Keys : key = <<a, b>>
  <2>1. <<a, b>> \in Seq(NodeID)
    OBVIOUS
  <2>2. <<a, b>> # <<>>
    OBVIOUS
  <2> QED
    BY Zenon, <2>1, <2>2 DEF Keys
<1>2. PICK new : new = InsertElem(l, key, w)
  OBVIOUS
<1>3. InsertKeeps(l, key, w, new)
  BY <1>2, Insertion DEF LowTable
<1>4. key \in NodeID \X NodeID
  BY <1>1
<1>5. LowTable(new)
  BY Zenon, <1>3, <1>4 DEF InsertKeeps, LowTable
<1> QED
  BY Zenon, <1>1, <1>2, <1>3, <1>5 DEF InsertKeeps

(* and for a chunk, where the key is a neighbour and the size is the       *)
(* number of live elements.                                                *)
LEMMA ChunkInsertion ==
    ASSUME NEW u, ChunkTable(u), NEW b \in NodeID, NEW w \in Weights
    PROVE  LET new == InsertElem(u, <<b>>, w) IN
           /\ ChunkTable(new) /\ Occupied(new) # {}
           /\ \A k, v : HoldsEntry(new, k, v) <=>
                 IF k = <<b>> THEN v = w ELSE HoldsEntry(u, k, v)
<1>1. PICK key \in Keys : key = <<b>>
  <2>1. <<b>> \in Seq(NodeID)
    OBVIOUS
  <2>2. <<b>> # <<>>
    OBVIOUS
  <2> QED
    BY Zenon, <2>1, <2>2 DEF Keys
<1>2. PICK new : new = InsertElem(u, key, w)
  OBVIOUS
<1>3. InsertKeeps(u, key, w, new)
  BY <1>2, Insertion DEF ChunkTable
<1>4. \A i \in Occupied(new) : \E m \in NodeID : new.arr[i].key = <<m>>
  <2> SUFFICES ASSUME NEW i \in Occupied(new)
               PROVE  \E m \in NodeID : new.arr[i].key = <<m>>
    OBVIOUS
  <2>1. new.arr[i].key = key \/ \E j \in Occupied(u) : u.arr[j].key = new.arr[i].key
    BY Zenon, <1>3 DEF InsertKeeps
  <2>2. CASE new.arr[i].key = key
    BY Zenon, <1>1, <2>2
  <2>3. CASE \E j \in Occupied(u) : u.arr[j].key = new.arr[i].key
    <3>1. PICK j \in Occupied(u) : u.arr[j].key = new.arr[i].key
      BY <2>3
    <3>2. PICK m \in NodeID : u.arr[j].key = <<m>>
      BY DEF ChunkTable
    <3> QED
      BY Zenon, <3>1, <3>2
  <2> QED
    BY <2>1, <2>2, <2>3
<1>5. ChunkTable(new)
  BY Zenon, <1>3, <1>4 DEF InsertKeeps, ChunkTable
<1>6. HoldsEntry(new, key, w)
  BY Zenon, <1>3 DEF InsertKeeps
<1>7. Occupied(new) # {}
  BY <1>6 DEF HoldsEntry, Live
<1> QED
  BY Zenon, <1>1, <1>2, <1>3, <1>5, <1>7 DEF InsertKeeps

(* The loop of the transfer, and what it leaves in a new chunk.            *)
IsMoved(g, l, n, x, c) ==
    g = [d \in 0 .. c |-> IF d = 0 THEN x ELSE MoveStep(l, n, g[d - 1], d)]

(* The function that TransferLowToHigh defines exists.                     *)
LEMMA MovedExists ==
    ASSUME NEW l, NEW n, NEW x, NEW c \in Nat
    PROVE  \E g : IsMoved(g, l, n, x, c)
<1>1. PICK b : b = [moves |-> TRUE, t |-> l, n |-> n]
  OBVIOUS
<1>2. ASSUME NEW u, NEW i PROVE LoopStep(b, u, i) = MoveStep(l, n, u, i)
  BY <1>1 DEF LoopStep
<1>3. PICK h : IsLoop(h, b, x, c)
  BY Zenon, Loop
<1>4. IsMoved(h, l, n, x, c)
  BY Zenon, <1>2, <1>3 DEF IsLoop, IsMoved
<1> QED
  BY <1>4

(* u is the chunk when the edges in the slots A have been moved.           *)
MovedIn(u, l, A) ==
    /\ ChunkTable(u)
    /\ A # {} => Occupied(u) # {}
    /\ \A k, v : HoldsEntry(u, k, v) <=>
          \E j \in A : k = <<l.arr[j].key[2]>> /\ v = l.arr[j].val

(* The walk over n's slots fills its chunk with n's entries.               *)
LEMMA Moving ==
    ASSUME NEW l, LowTable(l), NEW n \in NodeID, NEW x,
           ChunkTable(x), Occupied(x) = {},
           NEW f, IsMoved(f, l, n, x, l.capacity)
    PROVE  MovedIn(f[l.capacity], l, LdSlots(l, n))
<1>1. Orderly(l) /\ IsTable(l) /\ l.capacity \in Nat \ {0}
  BY DEF LowTable, Orderly, IsTable
<1>2. PICK c \in Nat \ {0} : c = l.capacity
  BY <1>1
<1>3. PICK o \in 0 .. c - 1 : o = n % l.capacity
  <2>1. \A m \in Nat : m % c \in 0 .. c - 1
    BY HashTyped
  <2>2. n \in Nat
    BY DEF NodeID
  <2> QED
    BY Zenon, <1>2, <2>1, <2>2
<1>4. f[0] = x /\ \A d \in 1 .. c : f[d] = MoveStep(l, n, f[d - 1], d)
  <2>1. f = [d \in 0 .. c |-> IF d = 0 THEN x ELSE MoveStep(l, n, f[d - 1], d)]
    BY Zenon, <1>2 DEF IsMoved
  <2>2. \A d \in 0 .. c : f[d] = IF d = 0 THEN x ELSE MoveStep(l, n, f[d - 1], d)
    BY Zenon, <2>1
  <2>3. 0 \in 0 .. c /\ \A d \in 1 .. c : d \in 0 .. c /\ d # 0
    OBVIOUS
  <2> QED
    BY Zenon, <2>2, <2>3
<1> DEFINE L == LdSlots(l, n)
           M(i) == {j \in L : ProbeDist(l, o, j) < i}
           J(i) == MovedIn(f[i], l, M(i))
           S == {i \in Nat : i <= c => J(i)}
<1>5. L = {i \in Live(l) : l.arr[i].key[1] = n}
  BY LdAll
<1>6. \A j \in L : j \in 0 .. c - 1 /\ j \in Occupied(l) /\ ProbeDist(l, o, j) \in 0 .. c - 1
  <2> SUFFICES ASSUME NEW j \in L
               PROVE  j \in 0 .. c - 1 /\ j \in Occupied(l) /\ ProbeDist(l, o, j) \in 0 .. c - 1
    OBVIOUS
  <2>1. j \in Occupied(l)
    BY Zenon, <1>5 DEF Live
  <2>2. j \in 0 .. c - 1
    BY <1>1, <1>2, <2>1, Occupants
  <2> QED
    BY <1>2, <2>1, <2>2, Distance
<1> HIDE DEF L
<1>7. 0 \in S
  <2>1. M(0) = {}
    <3>1. \A j \in L : ~(ProbeDist(l, o, j) < 0)
      BY <1>6
    <3> QED
      BY Zenon, <3>1
  <2>2. MovedIn(x, l, {})
    <3>1. \A k, v : ~HoldsEntry(x, k, v)
      BY DEF HoldsEntry, Live
    <3> QED
      BY Zenon, <3>1 DEF MovedIn
  <2>3. J(0)
    BY Zenon, <1>4, <2>1, <2>2
  <2> QED
    BY <2>3
<1>8. ASSUME NEW i \in Nat, i \in S PROVE i + 1 \in S
  <2> SUFFICES ASSUME i + 1 <= c PROVE J(i + 1)
    OBVIOUS
  <2>1. i \in 0 .. c - 1 /\ i + 1 \in 1 .. c /\ (i + 1) - 1 = i
    OBVIOUS
  <2>2. J(i)
    BY <1>8, <2>1
  <2>3. PICK u, w : u = f[i] /\ w = f[i + 1]
    OBVIOUS
  <2>4. PICK s \in 0 .. c - 1 : s = At(l, o, i) /\ ProbeDist(l, o, s) = i
    BY <1>2, <2>1, Walk
  <2>5. w = IF s \in L THEN InsertElem(u, <<l.arr[s].key[2]>>, l.arr[s].val) ELSE u
    BY Zenon, <1>3, <1>4, <2>1, <2>3, <2>4 DEF MoveStep, L
  <2>6. \A j \in L : ProbeDist(l, o, j) < i + 1 <=> ProbeDist(l, o, j) < i \/ j = s
    <3> SUFFICES ASSUME NEW j \in L
                 PROVE  ProbeDist(l, o, j) < i + 1 <=> ProbeDist(l, o, j) < i \/ j = s
      OBVIOUS
    <3>1. PICK e \in 0 .. c - 1 : e = ProbeDist(l, o, j)
      BY <1>6
    <3>2. e = i <=> j = s
      <4>1. At(l, o, e) = j
        BY <1>2, <1>6, <3>1, Distance
      <4> QED
        BY Zenon, <2>4, <3>1, <4>1
    <3>3. e < i + 1 <=> e < i \/ e = i
      BY <2>1, <3>1
    <3> QED
      BY Zenon, <3>1, <3>2, <3>3
  <2>7. CASE s \notin L
    <3>1. M(i + 1) = M(i)
      BY Zenon, <2>6, <2>7
    <3>2. w = u
      BY <2>5, <2>7
    <3> QED
      BY Zenon, <2>2, <2>3, <3>1, <3>2
  <2>8. CASE s \in L
    <3>1. M(i + 1) = M(i) \cup {s}
      BY Zenon, <2>6, <2>8
    <3>2. s \notin M(i)
      <4>1. ~(ProbeDist(l, o, s) < i)
        BY <2>1, <2>4
      <4> QED
        BY Zenon, <4>1
    <3>3. PICK A, B : A = M(i) /\ B = M(i + 1)
      OBVIOUS
    <3>4. B = A \cup {s} /\ s \notin A /\ A \subseteq L
      BY Zenon, <3>1, <3>2, <3>3
    <3>5. MovedIn(u, l, A)
      BY Zenon, <2>2, <2>3, <3>3
    <3>6. PICK b \in NodeID, v \in Weights : b = l.arr[s].key[2] /\ v = l.arr[s].val
      <4>1. l.arr[s].key \in NodeID \X NodeID
        BY <1>6, <2>8 DEF LowTable
      <4>2. l.arr[s].val \in Weights
        BY <1>1, <1>6, <2>8, Occupants
      <4> QED
        BY <4>1, <4>2
    <3>7. w = InsertElem(u, <<b>>, v)
      BY Zenon, <2>5, <2>8, <3>6
    <3>8. ChunkTable(w) /\ Occupied(w) # {}
          /\ \A k, z : HoldsEntry(w, k, z) <=>
                 IF k = <<b>> THEN z = v ELSE HoldsEntry(u, k, z)
      BY <3>5, <3>7, ChunkInsertion DEF MovedIn
    <3>9. \A j \in A : <<l.arr[j].key[2]>> # <<b>>
      <4> SUFFICES ASSUME NEW j \in A, l.arr[j].key[2] = b PROVE FALSE
        OBVIOUS
      <4>1. j \in L /\ j # s
        BY Zenon, <3>4
      <4>2. l.arr[j].key \in NodeID \X NodeID /\ l.arr[s].key \in NodeID \X NodeID
        BY Zenon, <1>6, <2>8, <4>1 DEF LowTable
      <4>3. l.arr[j].key[1] = n /\ l.arr[s].key[1] = n
        BY Zenon, <1>5, <2>8, <4>1
      <4>4. l.arr[j].key = l.arr[s].key
        BY <3>6, <4>2, <4>3
      <4> QED
        BY Zenon, <1>1, <1>6, <2>8, <4>1, <4>4 DEF Orderly, KeysDistinct
    <3>10. ASSUME NEW k, NEW z
           PROVE  HoldsEntry(w, k, z) <=>
                     \E j \in B : k = <<l.arr[j].key[2]>> /\ z = l.arr[j].val
      <4>1. HoldsEntry(w, k, z) <=> IF k = <<b>> THEN z = v ELSE HoldsEntry(u, k, z)
        BY Zenon, <3>8
      <4>2. CASE k = <<b>>
        <5>1. ASSUME NEW j \in B, k = <<l.arr[j].key[2]>> PROVE j = s
          BY Zenon, <3>4, <3>9, <4>2, <5>1
        <5>2. s \in B
          BY Zenon, <3>4
        <5> QED
          BY Zenon, <3>6, <4>1, <4>2, <5>1, <5>2
      <4>3. CASE k # <<b>>
        <5>1. \A j \in B : k = <<l.arr[j].key[2]>> => j \in A
          BY Zenon, <3>4, <3>6, <4>3
        <5>2. \A j \in A : j \in B
          BY Zenon, <3>4
        <5>3. HoldsEntry(u, k, z) <=> \E j \in A : k = <<l.arr[j].key[2]>> /\ z = l.arr[j].val
          <6>1. \A x1, x2 : HoldsEntry(u, x1, x2) <=>
                    \E j \in A : x1 = <<l.arr[j].key[2]>> /\ x2 = l.arr[j].val
            BY <3>5 DEF MovedIn
          <6> QED
            BY ONLY <6>1
        <5> QED
          BY Zenon, <4>1, <4>3, <5>1, <5>2, <5>3
      <4> QED
        BY <4>2, <4>3
    <3>11. MovedIn(w, l, B)
      BY Zenon, <3>8, <3>10 DEF MovedIn
    <3> QED
      BY Zenon, <2>3, <3>3, <3>11
  <2> QED
    BY <2>7, <2>8
<1>9. Nat \subseteq S
  <2> HIDE DEF S
  <2> QED
    BY <1>7, <1>8, SetInduction
<1>10. c \in Nat /\ c <= c
  OBVIOUS
<1>11. J(c)
  <2> HIDE DEF J
  <2> QED
    BY <1>9, <1>10
<1>12. M(c) = L
  <2>1. \A j \in L : ProbeDist(l, o, j) < c
    BY <1>6
  <2> QED
    BY Zenon, <2>1
<1> QED
  BY Zenon, <1>2, <1>11, <1>12 DEF L

NewChunk == NewTable(EcCapacity)

(* A chunk starts empty.                                                   *)
LEMMA NewChunkTable == ChunkTable(NewChunk) /\ Occupied(NewChunk) = {}
<1>1. EcCapacity \in Nat \ {0} /\ IsCapacity(EcCapacity)
  <2>1. IsCapacity(EcCapacity) /\ EcCapacity \in Nat
    BY CapacityAssumption DEF IsCapacity
  <2>2. EcCapacity # 0
    <3>1. 100 <= EcCapacity * LoadPercent
      BY <2>1 DEF IsCapacity
    <3>2. EcCapacity = 0 => EcCapacity * LoadPercent = 0
      BY LoadPercentAssumption
    <3> QED
      BY <3>1, <3>2
  <2> QED
    BY <2>1, <2>2
<1>2. PICK x : x = NewChunk
  OBVIOUS
<1>3. Orderly(x) /\ Occupied(x) = {} /\ Exact(x) /\ Loaded(x)
  BY <1>1, <1>2, NewTableOrderly DEF NewChunk
<1> QED
  BY Zenon, <1>2, <1>3 DEF ChunkTable

(* The edges that a partition has.                                         *)
PartHolds(l, h, n, m, v) ==
    HoldsEntry(l, <<n, m>>, v) \/ (n \in DOMAIN h /\ HoldsEntry(h[n], <<m>>, v))

Share(l, h) == [ld |-> l, hd |-> h]

Stores(l, h, e, new) ==
    /\ Owns(new.ld, new.hd)
    /\ DOMAIN new.hd \subseteq DOMAIN h \cup {e.source}
    /\ \A n, m, v : PartHolds(new.ld, new.hd, n, m, v) <=>
          IF n = e.source /\ m = e.destination THEN v = e.weight ELSE PartHolds(l, h, n, m, v)

(* A condition on the slots of a table, said of its entries.               *)
LEMMA LowSources ==
    ASSUME NEW l, NEW D
    PROVE  (\A i \in Live(l) : l.arr[i].key[1] \notin D) <=>
           (\A k, v : HoldsEntry(l, k, v) => k[1] \notin D)
BY Zenon DEF HoldsEntry

(* Keys are equal when their components are.                               *)
LEMMA Pairs ==
    ASSUME NEW a, NEW b, NEW n, NEW m
    PROVE  <<n, m>> = <<a, b>> <=> n = a /\ m = b
OBVIOUS

(* The same for keys of one component.                                     *)
LEMMA Singles == ASSUME NEW a, NEW n PROVE <<n>> = <<a>> <=> n = a
OBVIOUS

(* InsertLow stores the edge of a vertex without a chunk.                  *)
LEMMA StoresLow ==
    ASSUME NEW l, NEW h, Owns(l, h), NEW e \in Edge, e.source \notin DOMAIN h
    PROVE  Stores(l, h, e, InsertLow(Share(l, h), e))
<1>1. PICK a \in NodeID, b \in NodeID, w \in Weights :
          a = e.source /\ b = e.destination /\ w = e.weight
  BY DEF Edge
<1>2. PICK s : s = Share(l, h)
  OBVIOUS
<1>3. s = [ld |-> l, hd |-> h] /\ s.ld = l /\ s.hd = h
  BY <1>2 DEF Share
<1>4. PICK new : new = InsertElem(l, <<a, b>>, w)
  OBVIOUS
<1>5. LowTable(new)
      /\ \A k, v : HoldsEntry(new, k, v) <=>
                 IF k = <<a, b>> THEN v = w ELSE HoldsEntry(l, k, v)
  BY Zenon, <1>4, LowInsertion DEF Owns
<1>6. PICK r : r = InsertLow(s, e)
  OBVIOUS
<1>7. r.ld = new /\ r.hd = h
  <2>1. r = [s EXCEPT !.ld = new]
    BY Zenon, <1>1, <1>3, <1>4, <1>6 DEF InsertLow
  <2> QED
    BY <1>3, <2>1
<1>8. Owns(new, h)
  <2>1. \A k, v : HoldsEntry(l, k, v) => k[1] \notin DOMAIN h
    <3>1. \A i \in Live(l) : l.arr[i].key[1] \notin DOMAIN h
      BY DEF Owns
    <3> QED
      BY Zenon, <3>1 DEF HoldsEntry
  <2>2. <<a, b>>[1] \notin DOMAIN h
    BY <1>1
  <2>3. \A k, v : HoldsEntry(new, k, v) => k[1] \notin DOMAIN h
    BY Zenon, <1>5, <2>1, <2>2
  <2>4. \A i \in Live(new) : new.arr[i].key[1] \notin DOMAIN h
    BY Zenon, <2>3 DEF HoldsEntry
  <2> QED
    BY <1>5, <2>4 DEF Owns
<1>9. ASSUME NEW n, NEW m, NEW v
      PROVE  PartHolds(new, h, n, m, v) <=>
                IF n = a /\ m = b THEN v = w ELSE PartHolds(l, h, n, m, v)
  <2>1. <<n, m>> = <<a, b>> <=> n = a /\ m = b
    BY Pairs
  <2>2. HoldsEntry(new, <<n, m>>, v) <=>
           IF <<n, m>> = <<a, b>> THEN v = w ELSE HoldsEntry(l, <<n, m>>, v)
    BY Zenon, <1>5
  <2>3. a \notin DOMAIN h
    BY <1>1
  <2> QED
    BY Zenon, <2>1, <2>2, <2>3 DEF PartHolds
<1> QED
  BY Zenon, <1>1, <1>2, <1>6, <1>7, <1>8, <1>9 DEF Stores

(* InsertHigh stores the edge of a vertex without low-degree edges.        *)
LEMMA StoresHigh ==
    ASSUME NEW l, NEW h, Owns(l, h), NEW e \in Edge,
           \A i \in Live(l) : l.arr[i].key[1] # e.source
    PROVE  Stores(l, h, e, InsertHigh(Share(l, h), e))
<1>1. PICK a \in NodeID, b \in NodeID, w \in Weights :
          a = e.source /\ b = e.destination /\ w = e.weight
  BY DEF Edge
<1>2. PICK s : s = Share(l, h)
  OBVIOUS
<1>3. s = [ld |-> l, hd |-> h] /\ s.ld = l /\ s.hd = h
  BY <1>2 DEF Share
<1>4. PICK x : x = Chunk(h, a)
  OBVIOUS
<1>5. ChunkTable(x) /\ (a \notin DOMAIN h => Occupied(x) = {}) /\ (a \in DOMAIN h => x = h[a])
  <2>1. CASE a \in DOMAIN h
    BY Zenon, <1>4, <2>1 DEF Chunk, Owns
  <2>2. CASE a \notin DOMAIN h
    BY Zenon, <1>4, <2>2, NewChunkTable DEF Chunk, NewChunk
  <2> QED
    BY <2>1, <2>2
<1>6. PICK u : u = InsertElem(x, <<b>>, w)
  OBVIOUS
<1>7. ChunkTable(u) /\ Occupied(u) # {}
      /\ \A k, v : HoldsEntry(u, k, v) <=> IF k = <<b>> THEN v = w ELSE HoldsEntry(x, k, v)
  BY Zenon, <1>5, <1>6, ChunkInsertion
<1>8. PICK g : g = WithChunk(h, a, u)
  OBVIOUS
<1>9. DOMAIN g = DOMAIN h \cup {a} /\ g[a] = u /\ \A m \in DOMAIN h : m # a => g[m] = h[m]
  <2>1. g = [m \in DOMAIN h \cup {a} |-> IF m = a THEN u ELSE h[m]]
    BY Zenon, <1>8 DEF WithChunk
  <2> QED
    BY <2>1
<1>10. PICK r : r = InsertHigh(s, e)
  OBVIOUS
<1>11. r.ld = l /\ r.hd = g
  <2>1. r = [s EXCEPT !.hd = g]
    BY Zenon, <1>1, <1>3, <1>4, <1>6, <1>8, <1>10 DEF InsertHigh, HdInsertElem
  <2> QED
    BY <1>3, <2>1
<1>12. Owns(l, g)
  <2>1. \A n \in DOMAIN g : n \in NodeID /\ ChunkTable(g[n]) /\ Occupied(g[n]) # {}
    <3> SUFFICES ASSUME NEW n \in DOMAIN g
                 PROVE  n \in NodeID /\ ChunkTable(g[n]) /\ Occupied(g[n]) # {}
      OBVIOUS
    <3>1. CASE n = a
      BY Zenon, <1>7, <1>9, <3>1
    <3>2. CASE n # a
      BY Zenon, <1>9, <3>2 DEF Owns
    <3> QED
      BY <3>1, <3>2
  <2>2. \A i \in Live(l) : l.arr[i].key[1] \notin DOMAIN g
    <3>1. \A i \in Live(l) : l.arr[i].key[1] \notin DOMAIN h /\ l.arr[i].key[1] # a
      BY Zenon, <1>1 DEF Owns
    <3> QED
      BY Zenon, <1>9, <3>1
  <2> QED
    BY Zenon, <2>1, <2>2 DEF Owns
<1>13. ASSUME NEW n, NEW m, NEW v
       PROVE  PartHolds(l, g, n, m, v) <=>
                 IF n = a /\ m = b THEN v = w ELSE PartHolds(l, h, n, m, v)
  <2>1. CASE n # a
    <3>1. n \in DOMAIN g <=> n \in DOMAIN h
      BY Zenon, <1>9, <2>1
    <3>2. n \in DOMAIN h => g[n] = h[n]
      BY Zenon, <1>9, <2>1
    <3> QED
      BY Zenon, <2>1, <3>1, <3>2 DEF PartHolds
  <2>2. CASE n = a
    <3>1. ~HoldsEntry(l, <<n, m>>, v)
      <4> SUFFICES ASSUME NEW i \in Live(l), l.arr[i].key = <<n, m>> PROVE FALSE
        BY Zenon DEF HoldsEntry
      <4>1. l.arr[i].key[1] = a
        BY <2>2
      <4> QED
        BY <1>1, <4>1
    <3>2. <<m>> = <<b>> <=> m = b
      BY Singles
    <3>3. HoldsEntry(u, <<m>>, v) <=> IF m = b THEN v = w ELSE HoldsEntry(x, <<m>>, v)
      BY Zenon, <1>7, <3>2
    <3>4. HoldsEntry(x, <<m>>, v) <=> n \in DOMAIN h /\ HoldsEntry(h[n], <<m>>, v)
      <4>1. CASE a \in DOMAIN h
        BY Zenon, <1>5, <2>2, <4>1
      <4>2. CASE a \notin DOMAIN h
        <5>1. ~HoldsEntry(x, <<m>>, v)
          BY <1>5, <4>2 DEF HoldsEntry, Live
        <5> QED
          BY Zenon, <2>2, <4>2, <5>1
      <4> QED
        BY <4>1, <4>2
    <3>5. n \in DOMAIN g /\ g[n] = u
      BY Zenon, <1>9, <2>2
    <3> QED
      BY Zenon, <2>2, <3>1, <3>3, <3>4, <3>5 DEF PartHolds
  <2> QED
    BY <2>1, <2>2
<1>14. DOMAIN g \subseteq DOMAIN h \cup {a}
  BY Zenon, <1>9
<1>15. DOMAIN r.hd \subseteq DOMAIN h \cup {e.source}
  BY <1>1, <1>11, <1>14
<1>16. Owns(r.ld, r.hd)
  BY Zenon, <1>11, <1>12
<1>17. \A n, m, v : PartHolds(r.ld, r.hd, n, m, v) <=>
          IF n = e.source /\ m = e.destination THEN v = e.weight ELSE PartHolds(l, h, n, m, v)
  BY Zenon, <1>1, <1>11, <1>13
<1> QED
  BY Zenon, <1>2, <1>10, <1>15, <1>16, <1>17 DEF Stores

(* A vertex with edges in the low-degree table moves: they are all in its  *)
(* new chunk, and none is left in the table.                               *)
LEMMA Transferred ==
    ASSUME NEW l, NEW h, Owns(l, h), NEW n \in NodeID, n \notin DOMAIN h,
           LdSlots(l, n) # {},
           NEW new, new = TransferLowToHigh(Share(l, h), n)
    PROVE  /\ new = Share(new.ld, new.hd) /\ Owns(new.ld, new.hd)
           /\ \A i \in Live(new.ld) : new.ld.arr[i].key[1] # n
           /\ \A k \in DOMAIN new.hd : k \in DOMAIN h \/ k = n
           /\ \A k, m, v : PartHolds(new.ld, new.hd, k, m, v) <=> PartHolds(l, h, k, m, v)
<1>1. LowTable(l) /\ l.capacity \in Nat
  BY DEF Owns, LowTable, Orderly, IsTable
<1>2. PICK s : s = Share(l, h)
  OBVIOUS
<1>3. s = [ld |-> l, hd |-> h] /\ s.ld = l /\ s.hd = h
  BY <1>2 DEF Share
<1>4. PICK x : x = Chunk(h, n)
  OBVIOUS
<1>5. ChunkTable(x) /\ Occupied(x) = {}
  BY Zenon, <1>4, NewChunkTable DEF Chunk, NewChunk
<1>6. PICK c \in Nat : c = l.capacity
  BY <1>1
<1>7. PICK f : f = CHOOSE z : IsMoved(z, s.ld, n, Chunk(s.hd, n), s.ld.capacity)
  OBVIOUS
<1>8. IsMoved(f, l, n, x, c)
  <2>1. \E z : IsMoved(z, l, n, x, c)
    BY Zenon, MovedExists
  <2>2. \E z : IsMoved(z, s.ld, n, Chunk(s.hd, n), s.ld.capacity)
    BY Zenon, <1>3, <1>4, <1>6, <2>1
  <2>3. IsMoved(f, s.ld, n, Chunk(s.hd, n), s.ld.capacity)
    BY Zenon, <1>7, <2>2
  <2> QED
    BY Zenon, <1>3, <1>4, <1>6, <2>3
<1>9. PICK u : u = f[c]
  OBVIOUS
<1>10. PICK slots : slots = LdSlots(l, n)
  OBVIOUS
<1>11. MovedIn(u, l, slots)
  BY Zenon, <1>1, <1>5, <1>6, <1>8, <1>9, <1>10, Moving
<1>12. PICK low : low = LeaveTombstones(l, slots)
  OBVIOUS
<1>13. slots = {i \in Live(l) : l.arr[i].key[1] = n}
  BY Zenon, <1>1, <1>10, LdAll
<1>14. LowTable(low) /\ Live(low) = Live(l) \ slots /\ \A i \in Live(low) : low.arr[i] = l.arr[i]
  <2>1. slots \in SUBSET Live(l)
    BY <1>13
  <2> QED
    BY Zenon, <1>1, <1>12, <2>1, Tombstones
<1>15. PICK g : g = WithChunk(h, n, u)
  OBVIOUS
<1>16. DOMAIN g = DOMAIN h \cup {n} /\ g[n] = u /\ \A m \in DOMAIN h : m # n => g[m] = h[m]
  <2>1. g = [m \in DOMAIN h \cup {n} |-> IF m = n THEN u ELSE h[m]]
    BY Zenon, <1>15 DEF WithChunk
  <2> QED
    BY <2>1
<1>17. PICK r : r = TransferLowToHigh(s, n)
  OBVIOUS
<1>18. r = [ld |-> low, hd |-> g]
  <2>1. r = [ld |-> LeaveTombstones(s.ld, LdSlots(s.ld, n)),
             hd |-> WithChunk(s.hd, n,
                       (CHOOSE z : IsMoved(z, s.ld, n, Chunk(s.hd, n), s.ld.capacity))
                          [s.ld.capacity])]
    BY Zenon, <1>17 DEF TransferLowToHigh, IsMoved, MoveStep
  <2> QED
    BY Zenon, <1>3, <1>6, <1>7, <1>9, <1>10, <1>12, <1>15, <2>1
<1>19. r.ld = low /\ r.hd = g
  BY <1>18
<1>20. \A i \in Live(low) : low.arr[i].key[1] # n
  BY Zenon, <1>13, <1>14
<1>21. Owns(low, g)
  <2>1. ASSUME NEW m \in DOMAIN g
        PROVE  m \in NodeID /\ ChunkTable(g[m]) /\ Occupied(g[m]) # {}
    <3>1. CASE m = n
      BY Zenon, <1>10, <1>11, <1>16, <3>1 DEF MovedIn
    <3>2. CASE m # n
      BY Zenon, <1>16, <3>2 DEF Owns
    <3> QED
      BY <3>1, <3>2
  <2>2. ASSUME NEW i \in Live(low)
        PROVE  low.arr[i].key[1] \notin DOMAIN g
    <3>1. i \in Live(l) /\ low.arr[i] = l.arr[i]
      BY Zenon, <1>14
    <3>2. l.arr[i].key[1] \notin DOMAIN h
      BY Zenon, <3>1 DEF Owns
    <3> QED
      BY Zenon, <1>16, <1>20, <3>1, <3>2
  <2> QED
    BY Zenon, <1>14, <2>1, <2>2 DEF Owns
<1>22. ASSUME NEW k, NEW m, NEW v
       PROVE  PartHolds(low, g, k, m, v) <=> PartHolds(l, h, k, m, v)
  <2>1. CASE k # n
    <3>1. HoldsEntry(low, <<k, m>>, v) <=> HoldsEntry(l, <<k, m>>, v)
      <4>1. ASSUME NEW i \in Live(l), l.arr[i].key = <<k, m>>
            PROVE  i \in Live(low)
        <5>1. l.arr[i].key[1] = k
          BY <4>1
        <5> QED
          BY Zenon, <1>13, <1>14, <2>1, <5>1
      <4> QED
        BY Zenon, <1>14, <4>1 DEF HoldsEntry
    <3>2. k \in DOMAIN g <=> k \in DOMAIN h
      BY Zenon, <1>16, <2>1
    <3>3. k \in DOMAIN h => g[k] = h[k]
      BY Zenon, <1>16, <2>1
    <3> QED
      BY Zenon, <3>1, <3>2, <3>3 DEF PartHolds
  <2>2. CASE k = n
    <3>1. ~HoldsEntry(low, <<k, m>>, v)
      <4> SUFFICES ASSUME NEW i \in Live(low), low.arr[i].key = <<k, m>> PROVE FALSE
        BY Zenon DEF HoldsEntry
      <4>1. low.arr[i].key[1] = n
        BY <2>2
      <4> QED
        BY <1>20, <4>1
    <3>2. PICK y : y = <<m>>
      OBVIOUS
    <3>3. HoldsEntry(u, y, v) <=> \E j \in slots : y = <<l.arr[j].key[2]>> /\ v = l.arr[j].val
      <4>1. \A z, w : HoldsEntry(u, z, w) <=>
                 \E j \in slots : z = <<l.arr[j].key[2]>> /\ w = l.arr[j].val
        BY <1>11 DEF MovedIn
      <4> QED
        BY ONLY <4>1
    <3>4. \A j \in slots : y = <<l.arr[j].key[2]>> <=> l.arr[j].key = <<k, m>>
      <4> SUFFICES ASSUME NEW j \in slots
                   PROVE  y = <<l.arr[j].key[2]>> <=> l.arr[j].key = <<k, m>>
        OBVIOUS
      <4>1. j \in Occupied(l) /\ l.arr[j].key[1] = n
        BY Zenon, <1>13 DEF Live
      <4>2. PICK a \in NodeID, b \in NodeID : l.arr[j].key = <<a, b>>
        BY <1>1, <4>1 DEF LowTable
      <4>3. a = n /\ l.arr[j].key[2] = b
        BY <4>1, <4>2
      <4>4. <<m>> = <<b>> <=> m = b
        BY Singles
      <4>5. <<a, b>> = <<k, m>> <=> m = b
        BY <2>2, <4>3
      <4> QED
        BY Zenon, <3>2, <4>2, <4>3, <4>4, <4>5
    <3>5. HoldsEntry(l, <<k, m>>, v) <=> \E j \in slots : l.arr[j].key = <<k, m>> /\ v = l.arr[j].val
      <4>1. ASSUME NEW i \in Live(l), l.arr[i].key = <<k, m>>
            PROVE  i \in slots
        <5>1. l.arr[i].key[1] = k
          BY <4>1
        <5> QED
          BY Zenon, <1>13, <2>2, <5>1
      <4>2. slots \subseteq Live(l)
        BY <1>13
      <4> QED
        BY Zenon, <4>1, <4>2 DEF HoldsEntry
    <3>6. HoldsEntry(u, <<m>>, v) <=> HoldsEntry(l, <<k, m>>, v)
      <4>1. HoldsEntry(u, y, v) <=> HoldsEntry(l, <<k, m>>, v)
        BY Zenon, <3>3, <3>4, <3>5
      <4> QED
        BY Zenon, <3>2, <4>1
    <3>7. k \in DOMAIN g /\ g[k] = u /\ k \notin DOMAIN h
      BY Zenon, <1>16, <2>2
    <3> QED
      BY Zenon, <3>1, <3>6, <3>7 DEF PartHolds
  <2> QED
    BY <2>1, <2>2
<1>23. \A k \in DOMAIN g : k \in DOMAIN h \/ k = n
  BY Zenon, <1>16
<1>24. r = Share(r.ld, r.hd)
  BY Zenon, <1>18, <1>19 DEF Share
<1>25. Owns(r.ld, r.hd) /\ (\A i \in Live(r.ld) : r.ld.arr[i].key[1] # n)
       /\ \A k \in DOMAIN r.hd : k \in DOMAIN h \/ k = n
  BY Zenon, <1>19, <1>20, <1>21, <1>23
<1>26. \A k, m, v : PartHolds(r.ld, r.hd, k, m, v) <=> PartHolds(l, h, k, m, v)
  BY Zenon, <1>19, <1>22
<1>27. new = r
  BY Zenon, <1>2, <1>17
<1> QED
  BY Zenon, <1>24, <1>25, <1>26, <1>27

(* The size of a chunk is the number of its edges.                         *)
LEMMA ChunkDegree ==
    ASSUME NEW u, ChunkTable(u)
    PROVE  /\ IsFiniteSet(Live(u)) /\ u.size = Cardinality(Live(u)) /\ u.size \in Nat
           /\ Occupied(u) # {} => u.size > 0
<1>1. IsTable(u) /\ u.size \in Nat
  BY DEF ChunkTable, Orderly, IsTable
<1>2. Live(u) = Occupied(u) /\ Cardinality(Occupied(u)) = u.size
  BY DEF ChunkTable, Exact
<1>3. IsFiniteSet(Occupied(u))
  BY <1>1, FiniteSlots
<1>4. Cardinality(Occupied(u)) = 0 <=> Occupied(u) = {}
  BY <1>3, FS_EmptySet
<1> QED
  BY <1>1, <1>2, <1>3, <1>4

(* partition::insert stores the edge, whichever table it goes to and       *)
(* whether or not the vertex moves: the partition's order is kept, and its *)
(* entries change by the edge alone.                                       *)
LEMMA EdgeInserted ==
    ASSUME NEW l, NEW h, Owns(l, h), NEW e \in Edge,
           e.sourceExists \/ e.source \notin DOMAIN h
    PROVE  Stores(l, h, e, InsertEdge(Share(l, h), e))
<1>1. PICK a \in NodeID : a = e.source
  BY DEF Edge
<1>2. PICK s : s = Share(l, h)
  OBVIOUS
<1>3. s = [ld |-> l, hd |-> h] /\ s.ld = l /\ s.hd = h
  BY <1>2 DEF Share
<1>4. LowTable(l) /\ IsTable(l)
  BY DEF Owns, LowTable, Orderly
<1>5. LdSlots(l, a) = {i \in Live(l) : l.arr[i].key[1] = a}
  BY <1>4, LdAll
<1>6. IsFiniteSet(LdSlots(l, a)) /\ LdDegree(l, a) \in Nat /\ (LdDegree(l, a) = 0 <=> LdSlots(l, a) = {})
  <2>1. IsFiniteSet(Live(l))
    BY <1>4, FiniteSlots
  <2>2. IsFiniteSet(LdSlots(l, a))
    BY <1>5, <2>1, FS_Subset
  <2> QED
    BY <2>2, FS_CardinalityType, FS_EmptySet DEF LdDegree
<1>7. LdSlots(l, a) # {} => a \notin DOMAIN h
  BY Zenon, <1>5 DEF Owns
<1>8. HdDegree(h, a) = 0 <=> a \notin DOMAIN h
  <2>1. CASE a \in DOMAIN h
    <3>1. ChunkTable(h[a]) /\ Occupied(h[a]) # {}
      BY Zenon, <2>1 DEF Owns
    <3>2. h[a].size \in Nat /\ h[a].size > 0
      BY <3>1, ChunkDegree
    <3> QED
      BY <2>1, <3>2 DEF HdDegree
  <2>2. CASE a \notin DOMAIN h
    BY <2>2 DEF HdDegree
  <2> QED
    BY <2>1, <2>2
<1>9. PICK deg \in Nat : deg = LdDegree(l, a)
  BY <1>6
<1> DEFINE low == \/ ~e.sourceExists
                  \/ deg > 0 /\ deg < LdThreshold
                  \/ deg # LdThreshold /\ HdDegree(h, a) = 0
<1>10. InsertEdge(s, e) =
          IF low THEN InsertLow(s, e)
          ELSE InsertHigh(IF deg = LdThreshold THEN TransferLowToHigh(s, a) ELSE s, e)
  BY Zenon, <1>1, <1>3, <1>9 DEF InsertEdge
<1>11. LdThreshold = 2
  BY DEF LdThreshold
<1>12. CASE low
  <2>1. a \notin DOMAIN h
    <3>1. deg > 0 => LdSlots(l, a) # {}
      BY <1>6, <1>9
    <3> QED
      BY <1>1, <1>7, <1>8, <1>12, <3>1
  <2>2. Stores(l, h, e, InsertLow(s, e))
    BY Zenon, <1>1, <1>2, <2>1, StoresLow
  <2> HIDE DEF low
  <2> QED
    BY Zenon, <1>2, <1>10, <1>12, <2>2
<1>13. CASE ~low /\ deg # LdThreshold
  <2>1. a \in DOMAIN h
    BY <1>8, <1>13
  <2>2. \A i \in Live(l) : l.arr[i].key[1] # a
    BY Zenon, <2>1 DEF Owns
  <2>3. Stores(l, h, e, InsertHigh(s, e))
    BY Zenon, <1>1, <1>2, <2>2, StoresHigh
  <2> HIDE DEF low
  <2> QED
    BY Zenon, <1>2, <1>10, <1>13, <2>3
<1>14. CASE ~low /\ deg = LdThreshold
  <2>1. LdSlots(l, a) # {} /\ a \notin DOMAIN h
    BY <1>6, <1>7, <1>9, <1>11, <1>14
  <2>2. PICK x : x = TransferLowToHigh(s, a)
    OBVIOUS
  <2>3. /\ x = Share(x.ld, x.hd) /\ Owns(x.ld, x.hd)
        /\ \A i \in Live(x.ld) : x.ld.arr[i].key[1] # a
        /\ \A k \in DOMAIN x.hd : k \in DOMAIN h \/ k = a
        /\ \A k, m, v : PartHolds(x.ld, x.hd, k, m, v) <=> PartHolds(l, h, k, m, v)
    <3>1. x = TransferLowToHigh(Share(l, h), a)
      BY Zenon, <1>2, <2>2
    <3>2. Owns(l, h) /\ a \in NodeID
      OBVIOUS
    <3> QED
      BY ONLY Transferred, <2>1, <3>1, <3>2
  <2>4. PICK r : r = InsertHigh(x, e)
    OBVIOUS
  <2>5. Stores(x.ld, x.hd, e, r)
    <3>1. \A i \in Live(x.ld) : x.ld.arr[i].key[1] # e.source
      BY Zenon, <1>1, <2>3
    <3>2. Stores(x.ld, x.hd, e, InsertHigh(Share(x.ld, x.hd), e))
      BY Zenon, <2>3, <3>1, StoresHigh
    <3> QED
      BY Zenon, <2>3, <2>4, <3>2
  <2>6. Owns(r.ld, r.hd)
    BY Zenon, <2>5 DEF Stores
  <2>7. DOMAIN r.hd \subseteq DOMAIN h \cup {e.source}
    <3>1. DOMAIN r.hd \subseteq DOMAIN x.hd \cup {e.source}
      BY <2>5 DEF Stores
    <3> QED
      BY <1>1, <2>3, <3>1
  <2>8. \A n, m, v : PartHolds(r.ld, r.hd, n, m, v) <=>
          IF n = e.source /\ m = e.destination THEN v = e.weight ELSE PartHolds(l, h, n, m, v)
    <3>1. \A n, m, v : PartHolds(r.ld, r.hd, n, m, v) <=>
          IF n = e.source /\ m = e.destination THEN v = e.weight
          ELSE PartHolds(x.ld, x.hd, n, m, v)
      BY Zenon, <2>5 DEF Stores
    <3> QED
      BY Zenon, <2>3, <3>1
  <2>9. Stores(l, h, e, r)
    BY Zenon, <2>6, <2>7, <2>8 DEF Stores
  <2>10. InsertEdge(s, e) = r
    <3> HIDE DEF low
    <3> QED
      BY Zenon, <1>10, <1>14, <2>2, <2>4
  <2> QED
    BY Zenon, <1>2, <2>9, <2>10
<1> QED
  BY <1>12, <1>13, <1>14

-----------------------------------------------------------------------------
(* The inductive invariant.  The threads may do what the flags of an edge  *)
(* say because a first edge is first: the vertex has no chunk, and no edge *)
(* of the same vertex is ahead of it in the partition's queue.             *)
Fresh(h, known, e) ==
    /\ e \in Edge /\ e.source < known
    /\ ~e.sourceExists => e.source \notin DOMAIN h

Ahead(c, e) == c # None => (~e.sourceExists => c.source # e.source)

Joins(h, known, c, s, e) ==
    /\ Fresh(h, known, e) /\ Ahead(c, e)
    /\ \A i \in 1 .. Len(s) : Ahead(s[i], e)

Line(h, known, c, s) ==
    /\ s \in Seq(Edge)
    /\ c # None => Fresh(h, known, c)
    /\ \A i \in 1 .. Len(s) :
          /\ Fresh(h, known, s[i]) /\ Ahead(c, s[i])
          /\ \A j \in 1 .. i - 1 : Ahead(s[j], s[i])

PartOK(l, h, known, c, s) ==
    /\ Owns(l, h)
    /\ \A n \in DOMAIN h : n < known
    /\ Line(h, known, c, s)

DarhhInv ==
    /\ num_nodes \in 0 .. NumNodes
    /\ DOMAIN ld = Part /\ DOMAIN hd = Part /\ DOMAIN q = Part /\ DOMAIN held = Part
    /\ \A p \in Part : PartOK(ld[p], hd[p], num_nodes, held[p], q[p])
    /\ main = "mirror" =>
          \A p \in Part : Joins(hd[p], num_nodes, held[p], q[p], reverse)

(* A thread with no edge in hand has no edge.                              *)
LEMMA NoneIsNoEdge == None \notin Edge
<1>1. SUFFICES ASSUME None \in Edge PROVE FALSE
  OBVIOUS
<1>2. DOMAIN None = {"source", "destination", "weight", "sourceExists", "destExists"}
  BY <1>1 DEF Edge
<1>3. DOMAIN None = {"none"}
  BY DEF None
<1> QED
  BY <1>2, <1>3

(* An edge that may join the line is put at its end.                       *)
LEMMA LineAppended ==
    ASSUME NEW h, NEW known, NEW c, NEW s, NEW e,
           Line(h, known, c, s), Joins(h, known, c, s, e)
    PROVE  Line(h, known, c, Append(s, e))
<1>1. PICK r : r = Append(s, e)
  OBVIOUS
<1>2. s \in Seq(Edge) /\ e \in Edge
  BY DEF Line, Joins, Fresh
<1>3. r \in Seq(Edge) /\ Len(r) = Len(s) + 1 /\ r[Len(s) + 1] = e /\ Len(s) \in Nat
      /\ \A i \in 1 .. Len(s) : r[i] = s[i]
  BY <1>1, <1>2
<1>4. ASSUME NEW i \in 1 .. Len(r)
      PROVE  /\ Fresh(h, known, r[i]) /\ Ahead(c, r[i])
             /\ \A j \in 1 .. i - 1 : Ahead(r[j], r[i])
  <2>1. CASE i \in 1 .. Len(s)
    <3>1. \A j \in 1 .. i - 1 : j \in 1 .. Len(s)
      BY <1>3, <2>1
    <3> QED
      BY <1>3, <2>1, <3>1 DEF Line
  <2>2. CASE i = Len(s) + 1
    <3>1. \A j \in 1 .. i - 1 : j \in 1 .. Len(s)
      BY <1>3, <2>2
    <3> QED
      BY <1>3, <2>2, <3>1 DEF Joins
  <2> QED
    BY <1>3, <2>1, <2>2
<1> QED
  BY <1>1, <1>3, <1>4 DEF Line

(* An edge that may join the line may join it behind another one.          *)
LEMMA JoinsAfter ==
    ASSUME NEW h, NEW known, NEW c, NEW s \in Seq(Edge), NEW x \in Edge, NEW e,
           Joins(h, known, c, s, e), Ahead(x, e)
    PROVE  Joins(h, known, c, Append(s, x), e)
<1>1. PICK r : r = Append(s, x)
  OBVIOUS
<1>2. Len(r) = Len(s) + 1 /\ r[Len(s) + 1] = x /\ Len(s) \in Nat
      /\ \A i \in 1 .. Len(s) : r[i] = s[i]
  BY <1>1
<1>3. ASSUME NEW i \in 1 .. Len(r) PROVE Ahead(r[i], e)
  BY <1>2 DEF Joins
<1> QED
  BY <1>1, <1>3 DEF Joins

(* The first of the line becomes the one in hand.                          *)
LEMMA LinePopped ==
    ASSUME NEW h, NEW known, NEW s, Line(h, known, None, s), s # <<>>
    PROVE  /\ Line(h, known, Head(s), Tail(s))
           /\ \A e : Joins(h, known, None, s, e) => Joins(h, known, Head(s), Tail(s), e)
<1>1. PICK r : r = Tail(s)
  OBVIOUS
<1>2. s \in Seq(Edge)
  BY DEF Line
<1>3. /\ r \in Seq(Edge) /\ Len(r) = Len(s) - 1 /\ Len(s) \in Nat /\ Len(s) > 0
      /\ \A i \in 1 .. Len(r) : r[i] = s[i + 1]
  BY <1>1, <1>2
<1>4. Head(s) = s[1]
  BY <1>2
<1>5. ASSUME NEW i \in 1 .. Len(r)
      PROVE  /\ Fresh(h, known, r[i]) /\ Ahead(s[1], r[i])
             /\ \A j \in 1 .. i - 1 : Ahead(r[j], r[i])
  <2>1. i + 1 \in 1 .. Len(s) /\ 1 \in 1 .. (i + 1) - 1
    BY <1>3
  <2>2. \A j \in 1 .. i - 1 : j + 1 \in 1 .. (i + 1) - 1 /\ j \in 1 .. Len(r)
    BY <1>3
  <2>3. Fresh(h, known, s[i + 1]) /\ \A k \in 1 .. (i + 1) - 1 : Ahead(s[k], s[i + 1])
    BY <2>1 DEF Line
  <2> QED
    BY <1>3, <2>1, <2>2, <2>3
<1>6. 1 \in 1 .. Len(s)
  BY <1>3
<1>7. Fresh(h, known, s[1])
  BY <1>6 DEF Line
<1>8. Line(h, known, s[1], r)
  BY <1>3, <1>5, <1>7 DEF Line
<1>9. ASSUME NEW e, Joins(h, known, None, s, e)
      PROVE  Joins(h, known, s[1], r, e)
  <2>1. \A i \in 1 .. Len(r) : i + 1 \in 1 .. Len(s)
    BY <1>3
  <2> QED
    BY <1>3, <1>6, <1>9, <2>1 DEF Joins
<1> QED
  BY <1>1, <1>4, <1>8, <1>9

(* An insertion gives a chunk to no other vertex than the edge's source.   *)
LEMMA LineInserted ==
    ASSUME NEW h, NEW g, NEW known, NEW c \in Edge, NEW s,
           Line(h, known, c, s), DOMAIN g \subseteq DOMAIN h \cup {c.source}
    PROVE  /\ Line(g, known, None, s)
           /\ \A e : Joins(h, known, c, s, e) => Joins(g, known, None, s, e)
<1>1. c # None
  BY NoneIsNoEdge
<1>2. ASSUME NEW e, Fresh(h, known, e), Ahead(c, e)
      PROVE  Fresh(g, known, e) /\ Ahead(None, e)
  BY <1>1, <1>2 DEF Fresh, Ahead
<1> QED
  BY <1>2 DEF Line, Joins

(* More vertices may become known.                                         *)
LEMMA LineGrown ==
    ASSUME NEW h, NEW k1 \in Nat, NEW k2 \in Nat, k1 <= k2, NEW c, NEW s,
           Line(h, k1, c, s)
    PROVE  Line(h, k2, c, s)
<1>1. ASSUME NEW e, Fresh(h, k1, e) PROVE Fresh(h, k2, e)
  <2>1. e.source \in Nat
    BY <1>1, NumNodesAssumption DEF Fresh, Edge, NodeID
  <2> QED
    BY <1>1, <2>1 DEF Fresh
<1> QED
  BY <1>1 DEF Line

(* The reader gives out a new ID with a vertex' first edge.                *)
LEMMA Newcomer ==
    ASSUME NEW h, NEW k1 \in Nat, NEW k2 \in Nat, k1 <= k2, NEW c, NEW s,
           Line(h, k1, c, s), \A n \in DOMAIN h : n \in NodeID /\ n < k1,
           NEW e \in Edge, e.source < k2, ~e.sourceExists => e.source >= k1
    PROVE  Joins(h, k2, c, s, e)
<1>1. NodeID \subseteq Nat
  BY NumNodesAssumption DEF NodeID
<1>2. PICK a \in NodeID : a = e.source
  BY DEF Edge
<1>3. Fresh(h, k2, e)
  <2>1. a >= k1 => a \notin DOMAIN h
    BY <1>1
  <2> QED
    BY Zenon, <1>2, <2>1 DEF Fresh
<1>4. ASSUME NEW x, Fresh(h, k1, x) PROVE Ahead(x, e)
  <2>1. PICK b \in NodeID : b = x.source /\ b < k1
    BY <1>4 DEF Fresh, Edge
  <2>2. a >= k1 => b # a
    BY <1>1, <2>1
  <2> QED
    BY Zenon, <1>2, <2>1, <2>2 DEF Ahead
<1>5. Ahead(c, e)
  <2>1. CASE c = None
    BY <2>1 DEF Ahead
  <2>2. CASE c # None
    BY <1>4, <2>2 DEF Line
  <2> QED
    BY <2>1, <2>2
<1> QED
  BY <1>3, <1>4, <1>5 DEF Joins, Line

(* What is known of an edge, and of its reverse, when it is submitted.     *)
LEMMA Submitted ==
    ASSUME NEW known \in 0 .. NumNodes, NEW e \in Submittable(known),
           NEW after, after = known + NewVertices(e)
    PROVE  /\ after \in 0 .. NumNodes /\ known <= after
           /\ e \in Edge /\ e.source < after /\ (~e.sourceExists => e.source >= known)
           /\ ReverseOf(e) \in Edge /\ ReverseOf(e).source < after
           /\ ~ReverseOf(e).sourceExists => ReverseOf(e).source >= known
           /\ Ahead(e, ReverseOf(e))
<1>1. PICK a \in NodeID, b \in NodeID, w \in Weights :
          a <= known /\ b <= KnownAfter(known, a) /\ e = EdgeOf(known, a, b, w)
  BY DEF Submittable
<1>2. e = [source |-> a, destination |-> b, weight |-> w,
           sourceExists |-> a < known, destExists |-> b < KnownAfter(known, a)]
  BY <1>1 DEF EdgeOf
<1>3. a \in Nat /\ b \in Nat /\ a < NumNodes /\ b < NumNodes /\ known \in Nat /\ NumNodes \in Nat
  BY NumNodesAssumption DEF NodeID
<1>4. e.source = a /\ e.destination = b /\ e.weight = w /\ e \in Edge
      /\ (e.sourceExists <=> a < known) /\ (e.destExists <=> b < KnownAfter(known, a))
  <2>1. (a < known) \in BOOLEAN /\ (b < KnownAfter(known, a)) \in BOOLEAN
    OBVIOUS
  <2>2. PICK f \in BOOLEAN, g \in BOOLEAN : f = (a < known) /\ g = (b < KnownAfter(known, a))
    BY Zenon, <2>1
  <2>3. e = [source |-> a, destination |-> b, weight |-> w,
             sourceExists |-> f, destExists |-> g]
    BY Zenon, <1>2, <2>2
  <2>4. e \in Edge /\ e.source = a /\ e.destination = b /\ e.weight = w
        /\ e.sourceExists = f /\ e.destExists = g
    BY <2>3 DEF Edge
  <2> QED
    BY Zenon, <2>2, <2>4
<1>5. PICK r : r = ReverseOf(e)
  OBVIOUS
<1>6. r \in Edge /\ r.source = b /\ r.sourceExists = e.destExists
  BY <1>4, <1>5 DEF ReverseOf, Edge
<1>7. after = known + (IF a < known THEN 0 ELSE 1) + (IF b < KnownAfter(known, a) THEN 0 ELSE 1)
  <2>1. PICK m \in {0, 1} : m = IF a < known THEN 0 ELSE 1
    OBVIOUS
  <2>2. PICK n \in {0, 1} : n = IF b < KnownAfter(known, a) THEN 0 ELSE 1
    OBVIOUS
  <2>3. NewVertices(e) = m + n
    BY Zenon, <1>4, <2>1, <2>2 DEF NewVertices
  <2> QED
    BY <1>3, <2>1, <2>2, <2>3
<1>8. known <= after /\ after <= NumNodes /\ after \in Nat /\ a < after /\ b < after
  BY <1>1, <1>3, <1>7 DEF KnownAfter
<1>9. ~e.sourceExists => a >= known
  <2>1. ~(a < known) => a >= known
    BY <1>3
  <2> QED
    BY Zenon, <1>4, <2>1
<1>10. ~r.sourceExists => b >= known /\ a # b
  <2>1. ~(b < KnownAfter(known, a)) => b >= known /\ a # b
    BY <1>1, <1>3 DEF KnownAfter
  <2> QED
    BY Zenon, <1>4, <1>6, <2>1
<1>11. Ahead(e, r)
  BY Zenon, <1>4, <1>6, <1>10 DEF Ahead
<1>12. after \in 0 .. NumNodes
  BY <1>3, <1>8
<1>13. (~e.sourceExists => e.source >= known) /\ (~r.sourceExists => r.source >= known)
  BY Zenon, <1>4, <1>6, <1>9, <1>10
<1> QED
  BY Zenon, <1>4, <1>5, <1>6, <1>8, <1>11, <1>12, <1>13

(* It holds of the empty structure.                                        *)
LEMMA InitInv == DarhhInit => DarhhInv
<1> SUFFICES ASSUME DarhhInit PROVE DarhhInv
  OBVIOUS
<1>1. num_nodes = 0 /\ main = "idle"
      /\ ld = [p \in Part |-> NewTable(LdCapacity)]
      /\ hd = [p \in Part |-> <<>>] /\ q = [p \in Part |-> <<>>]
      /\ held = [p \in Part |-> None]
  BY DEF DarhhInit
<1>2. LowTable(NewTable(LdCapacity)) /\ Live(NewTable(LdCapacity)) = {}
  <2>1. LdCapacity \in Nat \ {0} /\ IsCapacity(LdCapacity)
    <3>1. IsCapacity(LdCapacity) /\ LdCapacity \in Nat
      BY CapacityAssumption DEF IsCapacity
    <3>2. 100 <= LdCapacity * LoadPercent
      BY <3>1 DEF IsCapacity
    <3>3. LdCapacity = 0 => LdCapacity * LoadPercent = 0
      BY LoadPercentAssumption
    <3> QED
      BY <3>1, <3>2, <3>3
  <2>2. PICK x : x = NewTable(LdCapacity)
    OBVIOUS
  <2>3. Orderly(x) /\ Occupied(x) = {} /\ Live(x) = {} /\ Loaded(x)
    BY <2>1, <2>2, NewTableOrderly
  <2> QED
    BY Zenon, <2>2, <2>3 DEF LowTable
<1>3. Owns(NewTable(LdCapacity), <<>>)
  BY <1>2 DEF Owns
<1>4. Line(<<>>, 0, None, <<>>)
  <2>1. <<>> \in Seq(Edge) /\ Len(<<>>) = 0
    OBVIOUS
  <2> QED
    BY <2>1 DEF Line
<1>5. PartOK(NewTable(LdCapacity), <<>>, 0, None, <<>>)
  BY <1>3, <1>4 DEF PartOK
<1>6. \A p \in Part : PartOK(ld[p], hd[p], num_nodes, held[p], q[p])
  <2> SUFFICES ASSUME NEW p \in Part
               PROVE  PartOK(ld[p], hd[p], num_nodes, held[p], q[p])
    OBVIOUS
  <2>1. ld[p] = NewTable(LdCapacity) /\ hd[p] = <<>> /\ held[p] = None /\ q[p] = <<>>
    BY <1>1
  <2> QED
    BY Zenon, <1>1, <1>5, <2>1
<1>7. num_nodes \in 0 .. NumNodes
  BY <1>1, NumNodesAssumption
<1> QED
  BY <1>1, <1>6, <1>7 DEF DarhhInv

(* What a step does to the queue of one partition.                         *)
LEMMA Enqueued ==
    ASSUME NEW x, NEW e, DOMAIN q = Part, Enqueue(x, e), NEW p \in Part
    PROVE  /\ DOMAIN q' = Part
           /\ q'[p] = IF p = x THEN Append(q[p], e) ELSE q[p]
BY DEF Enqueue

(* Each action keeps it.  A submission: the edge and its reverse may join. *)
LEMMA SubmitInv ==
    ASSUME DarhhInv, NEW e \in Submittable(num_nodes), Submit(e)
    PROVE  DarhhInv'
<1>1. /\ num_nodes' = num_nodes + NewVertices(e)
      /\ Enqueue(<<"out", PtHash(e.source)>>, e)
      /\ reverse' = ReverseOf(e) /\ main' = "mirror"
      /\ setup' = setup /\ ld' = ld /\ hd' = hd /\ held' = held
  BY DEF Submit, tables
<1>2. Part' = Part
  BY <1>1 DEF Part, PerSide, MirrorSide, directed
<1>3. num_nodes \in 0 .. NumNodes /\ num_nodes \in Nat
      /\ DOMAIN ld = Part /\ DOMAIN hd = Part /\ DOMAIN q = Part /\ DOMAIN held = Part
  BY DEF DarhhInv
<1>4. PICK k1 : k1 = num_nodes
  OBVIOUS
<1>5. PICK k2 : k2 = num_nodes'
  OBVIOUS
<1>6. PICK r : r = ReverseOf(e)
  OBVIOUS
<1>7. /\ k2 \in 0 .. NumNodes /\ k1 <= k2
      /\ e \in Edge /\ e.source < k2 /\ (~e.sourceExists => e.source >= k1)
      /\ r \in Edge /\ r.source < k2 /\ (~r.sourceExists => r.source >= k1)
      /\ Ahead(e, r)
  BY Zenon, <1>1, <1>3, <1>4, <1>5, <1>6, Submitted
<1>8. k1 \in Nat /\ k2 \in Nat
  BY <1>3, <1>4, <1>7
<1>9. PICK x : x = <<"out", PtHash(e.source)>>
  OBVIOUS
<1>10. ASSUME NEW p \in Part
       PROVE  PartOK(ld[p], hd[p], k2, held[p], q'[p]) /\ Joins(hd[p], k2, held[p], q'[p], r)
  <2>1. PICK l, h, c, s : l = ld[p] /\ h = hd[p] /\ c = held[p] /\ s = q[p]
    OBVIOUS
  <2>2. Owns(l, h) /\ (\A n \in DOMAIN h : n < k1) /\ Line(h, k1, c, s)
    BY Zenon, <1>4, <2>1 DEF DarhhInv, PartOK
  <2>3. \A n \in DOMAIN h : n \in NodeID /\ n < k1
    BY Zenon, <2>2 DEF Owns
  <2>4. \A n \in DOMAIN h : n < k2
    <3>1. NodeID \subseteq Nat
      BY NumNodesAssumption DEF NodeID
    <3>2. k1 <= k2
      BY Zenon, <1>7
    <3> SUFFICES ASSUME NEW n \in DOMAIN h PROVE n < k2
      OBVIOUS
    <3>3. n \in NodeID /\ n < k1
      BY Zenon, <2>3
    <3>4. PICK a \in Nat : a = n /\ a < k1
      BY Zenon, <3>1, <3>3
    <3>5. a < k2
      BY <1>8, <3>2, <3>4
    <3> QED
      BY Zenon, <3>4, <3>5
  <2>5. Line(h, k2, c, s)
    BY Zenon, <1>7, <1>8, <2>2, LineGrown
  <2>6. Joins(h, k2, c, s, e) /\ Joins(h, k2, c, s, r)
    BY Zenon, <1>7, <1>8, <2>2, <2>3, Newcomer
  <2>7. s \in Seq(Edge)
    BY Zenon, <2>2 DEF Line
  <2>8. Line(h, k2, c, Append(s, e)) /\ Joins(h, k2, c, Append(s, e), r)
    <3>1. Line(h, k2, c, Append(s, e))
      BY Zenon, <2>5, <2>6, LineAppended
    <3>2. Joins(h, k2, c, Append(s, e), r)
      BY Zenon, <1>7, <2>6, <2>7, JoinsAfter
    <3> QED
      BY <3>1, <3>2
  <2>9. q'[p] = IF p = x THEN Append(s, e) ELSE s
    BY Zenon, <1>1, <1>3, <1>9, <2>1, Enqueued
  <2>10. Line(h, k2, c, q'[p]) /\ Joins(h, k2, c, q'[p], r)
    BY Zenon, <2>5, <2>6, <2>8, <2>9
  <2> QED
    BY Zenon, <2>1, <2>2, <2>4, <2>10 DEF PartOK
<1>11. DOMAIN q' = Part
  BY <1>1, <1>3 DEF Enqueue
<1> QED
  BY Zenon, <1>1, <1>2, <1>3, <1>5, <1>6, <1>7, <1>10, <1>11 DEF DarhhInv

(* The reversed edge joins its line.                                       *)
LEMMA MirrorInv ==
    ASSUME DarhhInv, Mirror
    PROVE  DarhhInv'
<1>1. /\ main = "mirror" /\ main' = "loop"
      /\ Enqueue(<<MirrorSide, PtHash(reverse.source)>>, reverse)
      /\ setup' = setup /\ ld' = ld /\ hd' = hd /\ held' = held /\ num_nodes' = num_nodes
  BY DEF Mirror, tables, counters
<1>2. Part' = Part
  BY <1>1 DEF Part, PerSide, MirrorSide, directed
<1>3. num_nodes \in 0 .. NumNodes
      /\ DOMAIN ld = Part /\ DOMAIN hd = Part /\ DOMAIN q = Part /\ DOMAIN held = Part
  BY DEF DarhhInv
<1>4. PICK x : x = <<MirrorSide, PtHash(reverse.source)>>
  OBVIOUS
<1>5. ASSUME NEW p \in Part
      PROVE  PartOK(ld[p], hd[p], num_nodes, held[p], q'[p])
  <2>1. PICK h, c, s : h = hd[p] /\ c = held[p] /\ s = q[p]
    OBVIOUS
  <2>2. Line(h, num_nodes, c, s) /\ Joins(h, num_nodes, c, s, reverse)
    BY Zenon, <1>1, <2>1 DEF DarhhInv, PartOK
  <2>3. Line(h, num_nodes, c, Append(s, reverse))
    BY Zenon, <2>2, LineAppended
  <2>4. q'[p] = IF p = x THEN Append(s, reverse) ELSE s
    BY Zenon, <1>1, <1>3, <1>4, <2>1, Enqueued
  <2>5. Line(h, num_nodes, c, q'[p])
    BY Zenon, <2>2, <2>3, <2>4
  <2> QED
    BY Zenon, <2>1, <2>5 DEF PartOK, DarhhInv
<1>6. DOMAIN q' = Part
  BY <1>1, <1>3 DEF Enqueue
<1>7. main' # "mirror"
  BY <1>1
<1> QED
  BY Zenon, <1>1, <1>2, <1>3, <1>5, <1>6, <1>7 DEF DarhhInv

(* A thread takes the first edge of its line.                              *)
LEMMA PopInv ==
    ASSUME DarhhInv, NEW o \in Part, Pop(o)
    PROVE  DarhhInv'
<1>1. /\ held[o] = None /\ q[o] # <<>>
      /\ held' = [held EXCEPT ![o] = Head(q[o])] /\ q' = [q EXCEPT ![o] = Tail(@)]
      /\ setup' = setup /\ ld' = ld /\ hd' = hd /\ num_nodes' = num_nodes
      /\ main' = main /\ reverse' = reverse
  BY DEF Pop, tables, counters
<1>2. Part' = Part
  BY <1>1 DEF Part, PerSide, MirrorSide, directed
<1>3. num_nodes \in 0 .. NumNodes
      /\ DOMAIN ld = Part /\ DOMAIN hd = Part /\ DOMAIN q = Part /\ DOMAIN held = Part
  BY DEF DarhhInv
<1>4. ASSUME NEW p \in Part
      PROVE  /\ PartOK(ld[p], hd[p], num_nodes, held'[p], q'[p])
             /\ main = "mirror" => Joins(hd[p], num_nodes, held'[p], q'[p], reverse)
  <2>1. PICK h, s : h = hd[p] /\ s = q[p]
    OBVIOUS
  <2>2. Line(h, num_nodes, held[p], s)
        /\ (main = "mirror" => Joins(h, num_nodes, held[p], s, reverse))
    BY Zenon, <2>1 DEF DarhhInv, PartOK
  <2>3. CASE p = o
    <3>1. held'[p] = Head(s) /\ q'[p] = Tail(s)
      BY <1>1, <1>3, <2>1, <2>3
    <3>2. Line(h, num_nodes, None, s) /\ s # <<>>
          /\ (main = "mirror" => Joins(h, num_nodes, None, s, reverse))
      BY Zenon, <1>1, <2>1, <2>2, <2>3
    <3>3. /\ Line(h, num_nodes, Head(s), Tail(s))
          /\ main = "mirror" => Joins(h, num_nodes, Head(s), Tail(s), reverse)
      BY Zenon, <3>2, LinePopped
    <3> QED
      BY Zenon, <2>1, <3>1, <3>3 DEF PartOK, DarhhInv
  <2>4. CASE p # o
    <3>1. held'[p] = held[p] /\ q'[p] = s
      BY <1>1, <1>3, <2>1, <2>4
    <3> QED
      BY Zenon, <2>1, <2>2, <3>1 DEF PartOK, DarhhInv
  <2> QED
    BY <2>3, <2>4
<1>5. DOMAIN q' = Part /\ DOMAIN held' = Part
  BY <1>1, <1>3
<1> QED
  BY Zenon, <1>1, <1>2, <1>3, <1>4, <1>5 DEF DarhhInv

(* A thread inserts the edge in hand: what partition::insert asks of the   *)
(* edge's flag is what the line says of it.                                *)
LEMMA InsertInv ==
    ASSUME DarhhInv, NEW o \in Part, Insert(o)
    PROVE  DarhhInv'
<1>1. PICK new : new = InsertEdge([ld |-> ld[o], hd |-> hd[o]], held[o])
  OBVIOUS
<1>2. /\ held[o] # None
      /\ ld' = [ld EXCEPT ![o] = new.ld] /\ hd' = [hd EXCEPT ![o] = new.hd]
      /\ held' = [held EXCEPT ![o] = None]
      /\ setup' = setup /\ q' = q /\ num_nodes' = num_nodes
      /\ main' = main /\ reverse' = reverse
  BY Zenon, <1>1 DEF Insert, counters
<1>3. Part' = Part
  BY <1>2 DEF Part, PerSide, MirrorSide, directed
<1>4. num_nodes \in 0 .. NumNodes
      /\ DOMAIN ld = Part /\ DOMAIN hd = Part /\ DOMAIN q = Part /\ DOMAIN held = Part
  BY DEF DarhhInv
<1>5. PICK l, h, c, s : l = ld[o] /\ h = hd[o] /\ c = held[o] /\ s = q[o]
  OBVIOUS
<1>6. Owns(l, h) /\ (\A n \in DOMAIN h : n < num_nodes) /\ Line(h, num_nodes, c, s)
      /\ (main = "mirror" => Joins(h, num_nodes, c, s, reverse))
  BY Zenon, <1>5 DEF DarhhInv, PartOK
<1>7. c # None /\ Fresh(h, num_nodes, c)
  BY Zenon, <1>2, <1>5, <1>6 DEF Line
<1>8. c \in Edge /\ (c.sourceExists \/ c.source \notin DOMAIN h)
  BY Zenon, <1>7 DEF Fresh
<1>9. Stores(l, h, c, new)
  <2>1. new = InsertEdge(Share(l, h), c)
    BY Zenon, <1>1, <1>5 DEF Share
  <2> QED
    BY Zenon, <1>6, <1>8, <2>1, EdgeInserted
<1>10. Owns(new.ld, new.hd) /\ DOMAIN new.hd \subseteq DOMAIN h \cup {c.source}
  BY Zenon, <1>9 DEF Stores
<1>11. \A n \in DOMAIN new.hd : n < num_nodes
  BY <1>6, <1>7, <1>10 DEF Fresh
<1>12. /\ Line(new.hd, num_nodes, None, s)
       /\ main = "mirror" => Joins(new.hd, num_nodes, None, s, reverse)
  BY Zenon, <1>6, <1>8, <1>10, LineInserted
<1>13. ASSUME NEW p \in Part
       PROVE  /\ PartOK(ld'[p], hd'[p], num_nodes, held'[p], q[p])
              /\ main = "mirror" => Joins(hd'[p], num_nodes, held'[p], q[p], reverse)
  <2>1. CASE p = o
    <3>1. ld'[p] = new.ld /\ hd'[p] = new.hd /\ held'[p] = None
      BY <1>2, <1>4, <2>1
    <3> QED
      BY Zenon, <1>5, <1>10, <1>11, <1>12, <2>1, <3>1 DEF PartOK
  <2>2. CASE p # o
    <3>1. ld'[p] = ld[p] /\ hd'[p] = hd[p] /\ held'[p] = held[p]
      BY <1>2, <1>4, <2>2
    <3> QED
      BY Zenon, <3>1 DEF DarhhInv
  <2> QED
    BY <2>1, <2>2
<1>14. DOMAIN ld' = Part /\ DOMAIN hd' = Part /\ DOMAIN held' = Part
  BY <1>2, <1>4
<1> QED
  BY Zenon, <1>2, <1>3, <1>4, <1>13, <1>14 DEF DarhhInv

(* It is inductive.                                                        *)
LEMMA NextInv == DarhhInv /\ [DarhhNext]_vars => DarhhInv'
<1> SUFFICES ASSUME DarhhInv, [DarhhNext]_vars PROVE DarhhInv'
  OBVIOUS
<1>1. CASE SubmitNext
  BY Zenon, <1>1, SubmitInv DEF SubmitNext
<1>2. CASE Mirror
  BY <1>2, MirrorInv
<1>3. CASE \E p \in Part : Pop(p)
  BY Zenon, <1>3, PopInv
<1>4. CASE \E p \in Part : Insert(p)
  BY Zenon, <1>4, InsertInv
<1>5. ASSUME /\ setup' = setup /\ num_nodes' = num_nodes
             /\ ld' = ld /\ hd' = hd /\ held' = held /\ q' = q
             /\ main' = "mirror" => main = "mirror" /\ reverse' = reverse
      PROVE  DarhhInv'
  <2>1. Part' = Part
    BY <1>5 DEF Part, PerSide, MirrorSide, directed
  <2> QED
    BY Zenon, <1>5, <2>1 DEF DarhhInv
<1>6. CASE Spawn \/ Finish \/ Join \/ \E p \in Part : Exit(p)
  BY <1>5, <1>6 DEF Spawn, Finish, Join, Exit, tables, threads, counters
<1>7. CASE UNCHANGED vars
  BY <1>5, <1>7 DEF vars
<1> QED
  BY <1>1, <1>2, <1>3, <1>4, <1>6, <1>7 DEF DarhhNext

(* in every reachable state the tables of each partition are in order, and *)
(* its line is one that it may insert.                                     *)
THEOREM DarhhInvariance == DarhhSpec => []DarhhInv
BY InitInv, NextInv, PTL DEF DarhhSpec

-----------------------------------------------------------------------------
(* An orderly table that is not overloaded has what the properties ask of  *)
(* a table.                                                                *)
LEMMA OrderlyTable ==
    ASSUME NEW t, Orderly(t), Loaded(t)
    PROVE  SortedByHome(t) /\ NoDuplicateKeys(t) /\ HasRoom(t)
<1>1. NoDuplicateKeys(t)
  BY Zenon DEF NoDuplicateKeys, Orderly, KeysDistinct, Live
<1>2. HasRoom(t)
  BY Zenon, LoadedHasRoom DEF Orderly
<1> QED
  BY <1>1, <1>2 DEF Orderly

(* Every table of a partition is one.                                      *)
LEMMA TablesOrderly ==
    ASSUME DarhhInv, NEW p \in Part, NEW t \in Tables(p)
    PROVE  Orderly(t) /\ Loaded(t)
<1>1. Owns(ld[p], hd[p])
  BY DEF DarhhInv, PartOK
<1>2. CASE t = ld[p]
  BY Zenon, <1>1, <1>2 DEF Owns, LowTable
<1>3. CASE \E n \in DOMAIN hd[p] : t = hd[p][n]
  BY Zenon, <1>1, <1>3 DEF Owns, ChunkTable
<1> QED
  BY <1>2, <1>3 DEF Tables

(* The invariant implies the properties of the tables,                     *)
LEMMA InvImpliesProbeOrder == DarhhInv => ProbeOrder
BY Zenon, TablesOrderly, OrderlyTable DEF ProbeOrder

(* the vacant slot included.                                               *)
LEMMA InvImpliesRoomLeft == DarhhInv => RoomLeft
BY Zenon, TablesOrderly, OrderlyTable DEF RoomLeft

IsImage(T, S, f) == \A x : x \in T <=> \E i \in S : x = f[i]
AreNodes(N, T) == \A x : x \in N <=> \E nb \in T : x = nb.node
AreNeighbors(T, S, f, w) ==
    \A nb : nb \in T <=> \E i \in S : nb = NeighborInfo(f[i], w[i])

(* As many neighbours as slots that show one.                              *)
LEMMA ImageSize ==
    ASSUME NEW S, IsFiniteSet(S), NEW f, NEW T,
           \A i, j \in S : f[i] = f[j] => i = j,
           IsImage(T, S, f)
    PROVE  Cardinality(T) = Cardinality(S)
<1>1. T = {f[i] : i \in S}
  BY DEF IsImage
<1>2. PICK g : g = [i \in S |-> f[i]]
  OBVIOUS
<1>3. g \in Bijection(S, T)
  <2>1. g \in [S -> T] /\ \A i \in S : g[i] = f[i]
    BY <1>1, <1>2
  <2>2. g \in Injection(S, T)
    BY <2>1 DEF Injection, IsInjective
  <2>3. g \in Surjection(S, T)
    BY <1>1, <2>1 DEF Surjection
  <2> QED
    BY <2>2, <2>3 DEF Bijection
<1>4. ExistsBijection(S, T)
  BY <1>3 DEF ExistsBijection
<1> QED
  BY <1>1, <1>4, FS_Bijection

(* The nodes of the neighbours shown are the images of their slots.        *)
LEMMA NodesShown ==
    ASSUME NEW S, NEW f, NEW w, NEW T, NEW shown,
           AreNodes(shown, T), AreNeighbors(T, S, f, w)
    PROVE  IsImage(shown, S, f)
<1>1. \A a, b : NeighborInfo(a, b).node = a
  BY DEF NeighborInfo
<1> SUFFICES ASSUME NEW x PROVE x \in shown <=> \E i \in S : x = f[i]
  BY Zenon DEF IsImage
<1>2. x \in shown <=> \E nb \in T : x = nb.node
  BY Zenon DEF AreNodes
<1>3. \A i \in S : NeighborInfo(f[i], w[i]).node = f[i]
  BY Zenon, <1>1
<1>4. ASSUME NEW nb \in T PROVE \E i \in S : nb.node = f[i]
  <2>1. PICK i \in S : nb = NeighborInfo(f[i], w[i])
    BY Zenon DEF AreNeighbors
  <2> QED
    BY Zenon, <1>3, <2>1
<1>5. ASSUME NEW i \in S PROVE \E nb \in T : f[i] = nb.node
  <2>1. NeighborInfo(f[i], w[i]) \in T
    BY Zenon DEF AreNeighbors
  <2> QED
    BY Zenon, <1>3, <2>1
<1> QED
  BY Zenon, <1>2, <1>4, <1>5

DegreeOK(p, n, shown, low, chunk) ==
    /\ Degree(p, n) = Cardinality(shown)
    /\ shown = {ld[p].arr[i].key[2] : i \in low} \cup
               {chunk.arr[i].key[1] : i \in Live(chunk)}

(* What the degree counts is what a traversal shows and what the tables    *)
(* hold.                                                                   *)
LEMMA DegreeIsShown ==
    ASSUME DarhhInv, NEW p \in Part, NEW n \in Owned(p),
           NEW shown, shown = {nb.node : nb \in Traversed(p, n)},
           NEW low, low = {i \in Live(ld[p]) : ld[p].arr[i].key[1] = n},
           NEW chunk, chunk = Chunk(hd[p], n)
    PROVE  DegreeOK(p, n, shown, low, chunk)
<1>1. n \in NodeID
  <2>1. num_nodes \in 0 .. NumNodes
    BY DEF DarhhInv
  <2> QED
    BY <2>1, NumNodesAssumption DEF Owned, NodeID
<1>2. PICK l, h : l = ld[p] /\ h = hd[p]
  OBVIOUS
<1>3. Owns(l, h)
  BY Zenon, <1>2 DEF DarhhInv, PartOK
<1>4. LowTable(l) /\ IsTable(l)
  BY Zenon, <1>3 DEF Owns, LowTable, Orderly
<1>5. LdSlots(l, n) = low
  BY Zenon, <1>1, <1>2, <1>4, LdAll
<1>6. IsFiniteSet(low)
  <2>1. IsFiniteSet(Live(l))
    BY <1>4, FiniteSlots
  <2> QED
    BY <1>2, <2>1, FS_Subset
<1>7. LdDegree(l, n) = Cardinality(low) /\ Cardinality(low) \in Nat
      /\ (Cardinality(low) = 0 <=> low = {})
  BY Zenon, <1>5, <1>6, FS_CardinalityType, FS_EmptySet DEF LdDegree
<1>8. \A i \in low : \E m \in NodeID : l.arr[i].key = <<n, m>>
  <2> SUFFICES ASSUME NEW i \in low
               PROVE  \E m \in NodeID : l.arr[i].key = <<n, m>>
    OBVIOUS
  <2>1. i \in Occupied(l) /\ l.arr[i].key[1] = n
    BY <1>2 DEF Live
  <2>2. l.arr[i].key \in NodeID \X NodeID
    BY Zenon, <1>4, <2>1 DEF LowTable
  <2> QED
    BY <2>1, <2>2
<1>9. \A i, j \in low : l.arr[i].key = l.arr[j].key => i = j
  <2>1. low \subseteq Occupied(l)
    BY <1>2 DEF Live
  <2> QED
    BY Zenon, <1>4, <2>1 DEF LowTable, Orderly, KeysDistinct
<1>10. CASE low # {}
  <2>1. LdDegree(l, n) > 0 /\ LdDegree(l, n) # 0
    BY <1>7, <1>10
  <2>2. n \notin DOMAIN h
    <3>1. PICK i \in low : TRUE
      BY <1>10
    <3>2. i \in Live(l) /\ l.arr[i].key[1] = n
      BY Zenon, <1>2, <3>1
    <3> QED
      BY Zenon, <1>3, <3>2 DEF Owns
  <2>3. chunk = NewChunk
    BY Zenon, <1>2, <2>2 DEF Chunk, NewChunk
  <2>4. Live(chunk) = {}
    <3>1. Occupied(chunk) = {}
      BY Zenon, <2>3, NewChunkTable
    <3> QED
      BY <3>1 DEF Live
  <2>5. Traversed(p, n) = {NeighborInfo(l.arr[i].key[2], l.arr[i].val) : i \in low}
    BY Zenon, <1>2, <1>5, <1>10 DEF Traversed
  <2>6. PICK f : f = [i \in low |-> l.arr[i].key[2]]
    OBVIOUS
  <2>7. \A i, j \in low : f[i] = f[j] => i = j
    BY <1>8, <1>9, <2>6
  <2>8. IsImage(shown, low, f)
    <3>1. PICK w : w = [i \in low |-> l.arr[i].val]
      OBVIOUS
    <3>2. \A i \in low : f[i] = l.arr[i].key[2] /\ w[i] = l.arr[i].val
      BY <2>6, <3>1
    <3>3. PICK T : T = Traversed(p, n)
      OBVIOUS
    <3>4. AreNeighbors(T, low, f, w)
      BY Zenon, <2>5, <3>2, <3>3 DEF AreNeighbors
    <3>5. AreNodes(shown, T)
      BY <3>3 DEF AreNodes
    <3> QED
      BY Zenon, <3>4, <3>5, NodesShown
  <2>9. shown = {l.arr[i].key[2] : i \in low}
    <3>1. \A i \in low : f[i] = l.arr[i].key[2]
      BY <2>6
    <3>2. \A x : x \in shown <=> \E i \in low : x = l.arr[i].key[2]
      BY <2>8, <3>1 DEF IsImage
    <3> QED
      BY ONLY <3>2
  <2>10. Cardinality(shown) = Cardinality(low)
    BY ONLY Zenon, <1>6, <2>7, <2>8, ImageSize
  <2>11. Degree(p, n) = Cardinality(low)
    BY Zenon, <1>2, <1>7, <2>1 DEF Degree
  <2> QED
    BY <1>2, <2>4, <2>9, <2>10, <2>11 DEF DegreeOK
<1>11. CASE low = {}
  <2>1. LdDegree(l, n) = 0 /\ ~(LdDegree(l, n) > 0)
    BY <1>7, <1>11
  <2>2. ChunkTable(chunk) /\ HdDegree(h, n) = Cardinality(Live(chunk))
    <3>1. CASE n \in DOMAIN h
      <4>1. chunk = h[n] /\ ChunkTable(h[n])
        BY Zenon, <1>2, <1>3, <3>1 DEF Chunk, Owns
      <4>2. h[n].size = Cardinality(Live(h[n]))
        BY <4>1, ChunkDegree
      <4> QED
        BY Zenon, <3>1, <4>1, <4>2 DEF HdDegree
    <3>2. CASE n \notin DOMAIN h
      <4>1. chunk = NewChunk
        BY Zenon, <1>2, <3>2 DEF Chunk, NewChunk
      <4>2. ChunkTable(chunk) /\ Occupied(chunk) = {}
        BY Zenon, <4>1, NewChunkTable
      <4>3. Live(chunk) = {}
        BY <4>2 DEF Live
      <4>4. Cardinality(Live(chunk)) = 0
        BY <4>3, FS_EmptySet
      <4> QED
        BY Zenon, <3>2, <4>2, <4>4 DEF HdDegree
    <3> QED
      BY <3>1, <3>2
  <2>3. PICK L : L = Live(chunk)
    OBVIOUS
  <2>4. IsFiniteSet(L)
    BY <2>2, <2>3, ChunkDegree
  <2>5. Traversed(p, n) = {NeighborInfo(chunk.arr[i].key[1], chunk.arr[i].val) : i \in L}
    BY Zenon, <1>2, <1>5, <1>11, <2>3 DEF Traversed
  <2>6. PICK f : f = [i \in L |-> chunk.arr[i].key[1]]
    OBVIOUS
  <2>7. \A i, j \in L : f[i] = f[j] => i = j
    <3> SUFFICES ASSUME NEW i \in L, NEW j \in L, f[i] = f[j] PROVE i = j
      OBVIOUS
    <3>1. i \in Occupied(chunk) /\ j \in Occupied(chunk)
      BY <2>3 DEF Live
    <3>2. PICK a, b : chunk.arr[i].key = <<a>> /\ chunk.arr[j].key = <<b>>
      BY Zenon, <2>2, <3>1 DEF ChunkTable
    <3>3. chunk.arr[i].key = chunk.arr[j].key
      BY <2>6, <3>2
    <3> QED
      BY Zenon, <2>2, <3>1, <3>3 DEF ChunkTable, Orderly, KeysDistinct
  <2>8. IsImage(shown, L, f)
    <3>1. PICK w : w = [i \in L |-> chunk.arr[i].val]
      OBVIOUS
    <3>2. \A i \in L : f[i] = chunk.arr[i].key[1] /\ w[i] = chunk.arr[i].val
      BY <2>6, <3>1
    <3>3. PICK T : T = Traversed(p, n)
      OBVIOUS
    <3>4. AreNeighbors(T, L, f, w)
      BY Zenon, <2>5, <3>2, <3>3 DEF AreNeighbors
    <3>5. AreNodes(shown, T)
      BY <3>3 DEF AreNodes
    <3> QED
      BY Zenon, <3>4, <3>5, NodesShown
  <2>9. shown = {chunk.arr[i].key[1] : i \in L}
    <3>1. \A i \in L : f[i] = chunk.arr[i].key[1]
      BY <2>6
    <3>2. \A x : x \in shown <=> \E i \in L : x = chunk.arr[i].key[1]
      BY <2>8, <3>1 DEF IsImage
    <3> QED
      BY ONLY <3>2
  <2>10. Cardinality(shown) = Cardinality(L)
    BY Zenon, <2>4, <2>7, <2>8, ImageSize
  <2>11. Degree(p, n) = Cardinality(L)
    BY Zenon, <1>2, <2>1, <2>2, <2>3 DEF Degree
  <2> QED
    BY <1>2, <1>11, <2>3, <2>9, <2>10, <2>11 DEF DegreeOK
<1> QED
  BY <1>10, <1>11

(* The invariant implies that degrees are exact.                           *)
LEMMA InvImpliesDegreeExact == DarhhInv => DegreeExact
<1> SUFFICES ASSUME DarhhInv, NEW p \in Part, NEW n \in Owned(p)
             PROVE  LET shown == {nb.node : nb \in Traversed(p, n)}
                        low == {i \in Live(ld[p]) : ld[p].arr[i].key[1] = n}
                        chunk == Chunk(hd[p], n)
                    IN  /\ Degree(p, n) = Cardinality(shown)
                        /\ shown = {ld[p].arr[i].key[2] : i \in low} \cup
                                   {chunk.arr[i].key[1] : i \in Live(chunk)}
  BY DEF DegreeExact
<1>1. PICK shown : shown = {nb.node : nb \in Traversed(p, n)}
  OBVIOUS
<1>2. PICK low : low = {i \in Live(ld[p]) : ld[p].arr[i].key[1] = n}
  OBVIOUS
<1>3. PICK chunk : chunk = Chunk(hd[p], n)
  OBVIOUS
<1>4. DegreeOK(p, n, shown, low, chunk)
  BY Zenon, <1>1, <1>2, <1>3, DegreeIsShown
<1> QED
  BY Zenon, <1>1, <1>2, <1>3, <1>4 DEF DegreeOK

(* Robin Hood order and distinct live keys hold in every table of every    *)
(* partition, for any capacity that IsCapacity allows, any number of       *)
(* vertices and edges, and any interleaving: the search of insert_elem, of *)
(* the iterator and of the degree may stop early.                          *)
THEOREM Ordered == DarhhSpec => []ProbeOrder
BY DarhhInvariance, InvImpliesProbeOrder, PTL

(* No table ever fills up, so no walk around a table is endless.           *)
THEOREM Room == DarhhSpec => []RoomLeft
BY DarhhInvariance, InvImpliesRoomLeft, PTL

(* out_degree and in_degree return the number of neighbours that a         *)
(* traversal visits, and no edge of the vertex is anywhere else.           *)
THEOREM Degrees == DarhhSpec => []DegreeExact
BY DarhhInvariance, InvImpliesDegreeExact, PTL

-----------------------------------------------------------------------------
(* The edges of s inserted over what is shown.                             *)
IsLast(s, x, i) ==
    /\ i \in DOMAIN s /\ Pair(s[i]) = x
    /\ \A j \in DOMAIN s : Pair(s[j]) = x => j <= i

Just(w) == {w}

Weighed(e, x, z) == IF Pair(e) = x THEN Just(e.weight) ELSE z

(* Without an edge of the pair what is shown stays,                        *)
LEMMA OverNone ==
    ASSUME NEW s, NEW x, NEW z, \A i \in DOMAIN s : Pair(s[i]) # x
    PROVE  Over(s, x, z) = z
<1>1. {i \in DOMAIN s : Pair(s[i]) = x} = {}
  OBVIOUS
<1> QED
  BY <1>1 DEF Over

(* with one, it is the weight of the last.                                 *)
LEMMA OverLast ==
    ASSUME NEW s \in Seq(Edge), NEW x, NEW z, NEW i, IsLast(s, x, i)
    PROVE  Over(s, x, z) = Just(s[i].weight)
<1>1. PICK due : due = {j \in DOMAIN s : Pair(s[j]) = x}
  OBVIOUS
<1>2. i \in due /\ due # {} /\ due \subseteq Int
  BY <1>1 DEF IsLast
<1>3. PICK m : m = Max(due)
  OBVIOUS
<1>4. \A j \in due : i >= j
  BY <1>1, <1>2 DEF IsLast
<1>5. m = i
  <2>1. \E j \in due : \A k \in due : j >= k
    BY <1>2, <1>4
  <2>2. m \in due /\ \A k \in due : m >= k
    BY Zenon, <1>3, <2>1 DEF Max
  <2> QED
    BY <1>2, <1>4, <2>2
<1>6. Over(s, x, z) = IF due = {} THEN z ELSE Just(s[m].weight)
  BY Zenon, <1>1, <1>3 DEF Over, Just
<1> QED
  BY Zenon, <1>2, <1>5, <1>6

(* There is a last one, or none.                                           *)
LEMMA OverCases ==
    ASSUME NEW s \in Seq(Edge), NEW x
    PROVE  \/ \A i \in DOMAIN s : Pair(s[i]) # x
           \/ \E i : IsLast(s, x, i)
<1> SUFFICES ASSUME NEW k \in DOMAIN s, Pair(s[k]) = x
             PROVE  \E i : IsLast(s, x, i)
  OBVIOUS
<1>1. PICK n \in Nat : n = Len(s)
  OBVIOUS
<1>2. DOMAIN s = 1 .. n
  BY <1>1
<1> DEFINE T == {m \in Nat : n - m \in 1 .. n /\ Pair(s[n - m]) = x}
<1>3. n - k \in T
  BY <1>2
<1>4. PICK m \in T : \A o \in T : m <= o
  <2>1. T \subseteq Nat /\ T # {}
    BY <1>3
  <2> HIDE DEF T
  <2> QED
    BY <2>1, LeastNatural
<1>5. \A j \in DOMAIN s : Pair(s[j]) = x => j <= n - m
  <2> SUFFICES ASSUME NEW j \in DOMAIN s, Pair(s[j]) = x PROVE j <= n - m
    OBVIOUS
  <2>1. n - j \in Nat /\ n - (n - j) = j
    BY <1>2
  <2>2. n - j \in T
    BY <1>2, <2>1
  <2> QED
    BY <1>2, <1>4, <2>2
<1> QED
  BY <1>2, <1>4, <1>5 DEF IsLast

(* An edge at the end overrides what was shown before.                     *)
LEMMA OverAppended ==
    ASSUME NEW s \in Seq(Edge), NEW e \in Edge, NEW x, NEW z
    PROVE  Over(Append(s, e), x, z) = IF Pair(e) = x THEN Just(e.weight) ELSE Over(s, x, z)
<1>1. PICK r : r = Append(s, e)
  OBVIOUS
<1>2. PICK n \in Nat : n = Len(s)
  OBVIOUS
<1>3. /\ r \in Seq(Edge) /\ DOMAIN r = 1 .. n + 1 /\ DOMAIN s = 1 .. n
      /\ r[n + 1] = e /\ \A i \in 1 .. n : r[i] = s[i]
  BY <1>1, <1>2
<1>4. CASE Pair(e) = x
  <2>1. IsLast(r, x, n + 1)
    BY <1>3, <1>4 DEF IsLast
  <2>2. Over(r, x, z) = Just(r[n + 1].weight)
    BY Zenon, <1>3, <2>1, OverLast
  <2> QED
    BY Zenon, <1>1, <1>3, <1>4, <2>2
<1>5. CASE Pair(e) # x
  <2>1. CASE \A i \in DOMAIN s : Pair(s[i]) # x
    <3>1. \A i \in DOMAIN r : Pair(r[i]) # x
      BY <1>3, <1>5, <2>1
    <3>2. Over(r, x, z) = z
      BY Zenon, <3>1, OverNone
    <3>3. Over(s, x, z) = z
      BY Zenon, <2>1, OverNone
    <3> QED
      BY Zenon, <1>1, <1>5, <3>2, <3>3
  <2>2. CASE \E i : IsLast(s, x, i)
    <3>1. PICK i : IsLast(s, x, i)
      BY <2>2
    <3>2. IsLast(r, x, i) /\ r[i] = s[i]
      BY <1>3, <1>5, <3>1 DEF IsLast
    <3>3. Over(r, x, z) = Just(r[i].weight)
      BY Zenon, <1>3, <3>2, OverLast
    <3>4. Over(s, x, z) = Just(s[i].weight)
      BY Zenon, <3>1, OverLast
    <3> QED
      BY Zenon, <1>1, <1>5, <3>2, <3>3, <3>4
  <2> QED
    BY <2>1, <2>2, OverCases
<1> QED
  BY <1>4, <1>5

Preceded(e, s) == <<e>> \o s

(* An edge in front is inserted first.                                     *)
LEMMA OverAhead ==
    ASSUME NEW s \in Seq(Edge), NEW e \in Edge, NEW x, NEW z
    PROVE  Over(Preceded(e, s), x, z) = Over(s, x, Weighed(e, x, z))
<1>1. PICK y : y = Weighed(e, x, z)
  OBVIOUS
<1>2. PICK r : r = <<e>> \o s
  OBVIOUS
<1>3. PICK n \in Nat : n = Len(s)
  OBVIOUS
<1>4. /\ r \in Seq(Edge) /\ DOMAIN r = 1 .. n + 1 /\ DOMAIN s = 1 .. n
      /\ r[1] = e /\ \A i \in 1 .. n : r[i + 1] = s[i]
  <2>1. <<e>> \in Seq(Edge) /\ Len(<<e>>) = 1 /\ <<e>>[1] = e
    OBVIOUS
  <2>2. /\ r \in Seq(Edge) /\ Len(r) = 1 + n
        /\ \A i \in 1 .. 1 + n : r[i] = IF i <= 1 THEN <<e>>[i] ELSE s[i - 1]
    BY <1>2, <1>3, <2>1, ConcatProperties
  <2>3. r[1] = e
    BY <2>1, <2>2
  <2>4. ASSUME NEW i \in 1 .. n PROVE r[i + 1] = s[i]
    <3>1. i + 1 \in 1 .. 1 + n /\ ~(i + 1 <= 1) /\ (i + 1) - 1 = i
      OBVIOUS
    <3> QED
      BY <2>2, <3>1
  <2> QED
    BY <1>3, <2>2, <2>3, <2>4
<1>5. \A i \in DOMAIN r : i = 1 \/ (i - 1 \in DOMAIN s /\ r[i] = s[i - 1])
  <2> SUFFICES ASSUME NEW i \in DOMAIN r, i # 1
               PROVE  i - 1 \in DOMAIN s /\ r[i] = s[i - 1]
    OBVIOUS
  <2>1. i - 1 \in 1 .. n /\ (i - 1) + 1 = i
    BY <1>4
  <2> QED
    BY <1>4, <2>1
<1>6. SUFFICES Over(r, x, z) = Over(s, x, y)
  BY Zenon, <1>1, <1>2 DEF Preceded
<1>7. CASE \A i \in DOMAIN s : Pair(s[i]) # x
  <2>1. Over(s, x, y) = IF Pair(e) = x THEN Just(e.weight) ELSE z
    BY Zenon, <1>1, <1>7, OverNone DEF Weighed
  <2>2. CASE Pair(e) = x
    <3>1. IsLast(r, x, 1)
      BY <1>4, <1>5, <1>7, <2>2 DEF IsLast
    <3>2. PICK i : i = 1
      OBVIOUS
    <3>3. IsLast(r, x, i) /\ r \in Seq(Edge)
      BY <1>4, <3>1, <3>2
    <3>4. Over(r, x, z) = Just(r[i].weight)
      BY Zenon, <3>3, OverLast
    <3>5. r[i] = e
      BY <1>4, <3>2
    <3> QED
      BY Zenon, <2>1, <2>2, <3>4, <3>5
  <2>3. CASE Pair(e) # x
    <3>1. \A i \in DOMAIN r : Pair(r[i]) # x
      BY <1>4, <1>5, <1>7, <2>3
    <3> QED
      BY Zenon, <2>1, <2>3, <3>1, OverNone
  <2> QED
    BY <2>2, <2>3
<1>8. CASE \E i : IsLast(s, x, i)
  <2>1. PICK i : IsLast(s, x, i)
    BY <1>8
  <2>2. i \in 1 .. n /\ r[i + 1] = s[i]
    BY <1>4, <2>1 DEF IsLast
  <2>3. IsLast(r, x, i + 1)
    <3>1. i + 1 \in DOMAIN r /\ Pair(r[i + 1]) = x
      BY <1>4, <2>1, <2>2 DEF IsLast
    <3>2. ASSUME NEW j \in DOMAIN r, Pair(r[j]) = x PROVE j <= i + 1
      <4>1. CASE j = 1
        BY <2>2, <4>1
      <4>2. CASE j # 1
        <5>1. j - 1 \in DOMAIN s /\ Pair(s[j - 1]) = x
          BY <1>5, <3>2, <4>2
        <5>2. j - 1 <= i
          BY <2>1, <5>1 DEF IsLast
        <5> QED
          BY <1>4, <2>2, <5>2
      <4> QED
        BY <4>1, <4>2
    <3> QED
      BY <3>1, <3>2 DEF IsLast
  <2>4. Over(r, x, z) = Just(r[i + 1].weight)
    BY Zenon, <1>4, <2>3, OverLast
  <2>5. Over(s, x, y) = Just(s[i].weight)
    BY Zenon, <2>1, OverLast
  <2> QED
    BY Zenon, <2>2, <2>4, <2>5
<1> QED
  BY <1>7, <1>8, OverCases

(* What a thread has still to insert.                                      *)
One(c) == IF c = None THEN <<>> ELSE <<c>>

Coming(run, c, s, m, r) ==
    IF ~run THEN <<>> ELSE One(c) \o s \o (IF m THEN <<r>> ELSE <<>>)

(* What is in hand, as a sequence.                                         *)
LEMMA OneTyped ==
    ASSUME NEW c, c # None => c \in Edge
    PROVE  One(c) \in Seq(Edge)
BY DEF One

(* Without a reversed edge, what is coming is in hand or queued.           *)
LEMMA NothingMirrored ==
    ASSUME NEW c, c # None => c \in Edge, NEW s \in Seq(Edge), NEW r
    PROVE  Coming(TRUE, c, s, FALSE, r) = One(c) \o s
<1>1. One(c) \in Seq(Edge)
  BY OneTyped
<1>2. One(c) \o s \in Seq(Edge)
  BY <1>1, ConcatProperties
<1>3. PICK a \in Seq(Edge) : a = One(c) \o s
  BY <1>2
<1>4. a \o <<>> = a
  BY ConcatEmptySeq
<1>5. Coming(TRUE, c, s, FALSE, r) = a \o <<>>
  BY Zenon, <1>3 DEF Coming
<1> QED
  BY Zenon, <1>3, <1>4, <1>5

(* An edge that is enqueued comes last,                                    *)
LEMMA EnqueuedLast ==
    ASSUME NEW c, c # None => c \in Edge, NEW s \in Seq(Edge), NEW e \in Edge
    PROVE  One(c) \o Append(s, e) = Append(One(c) \o s, e)
<1>1. One(c) \in Seq(Edge)
  BY OneTyped
<1>2. PICK o \in Seq(Edge) : o = One(c)
  BY <1>1
<1>3. <<e>> \in Seq(Edge)
  OBVIOUS
<1>4. PICK l \in Seq(Edge) : l = <<e>>
  BY <1>3
<1>5. PICK a \in Seq(Edge) : a = o \o s
  BY ConcatProperties
<1>6. Append(s, e) = s \o l /\ Append(a, e) = a \o l
  <2>1. Append(s, e) = s \o <<e>>
    BY Zenon, AppendIsConcat
  <2>2. Append(a, e) = a \o <<e>>
    BY Zenon, AppendIsConcat
  <2> QED
    BY Zenon, <1>4, <2>1, <2>2
<1>7. (o \o s) \o l = o \o (s \o l)
  <2>1. o \in Seq(Edge) /\ s \in Seq(Edge) /\ l \in Seq(Edge)
    BY <1>2, <1>4
  <2> QED
    BY ONLY <2>1, ConcatAssociative
<1> QED
  BY Zenon, <1>2, <1>5, <1>6, <1>7

(* and so does the reversed edge that is about to be.                      *)
LEMMA MirroredLast ==
    ASSUME NEW c, c # None => c \in Edge, NEW s \in Seq(Edge), NEW r \in Edge
    PROVE  Coming(TRUE, c, s, TRUE, r) = One(c) \o Append(s, r)
<1>1. PICK o \in Seq(Edge) : o = One(c)
  BY OneTyped
<1>2. PICK a \in Seq(Edge) : a = o \o s
  BY ConcatProperties
<1>3. Append(a, r) = a \o <<r>>
  BY Zenon, AppendIsConcat
<1>4. Coming(TRUE, c, s, TRUE, r) = a \o <<r>>
  BY Zenon, <1>1, <1>2 DEF Coming
<1>5. One(c) \o Append(s, r) = Append(a, r)
  BY Zenon, <1>1, <1>2, EnqueuedLast
<1> QED
  BY Zenon, <1>3, <1>4, <1>5

(* Taking an edge from the queue does not change what is coming.           *)
LEMMA PoppedFirst ==
    ASSUME NEW s \in Seq(Edge), s # <<>>
    PROVE  /\ Head(s) \in Edge /\ Tail(s) \in Seq(Edge)
           /\ One(Head(s)) \o Tail(s) = One(None) \o s
<1>1. Head(s) \in Edge /\ Tail(s) \in Seq(Edge)
  OBVIOUS
<1>2. One(None) \o s = s
  <2>1. <<>> \o s = s
    BY ConcatEmptySeq
  <2> QED
    BY Zenon, <2>1 DEF One
<1>3. One(Head(s)) = <<Head(s)>>
  BY Zenon, <1>1, NoneIsNoEdge DEF One
<1>4. <<Head(s)>> \o Tail(s) = s
  <2>1. PICK n \in Nat \ {0} : n = Len(s)
    BY LenProperties, EmptySeq
  <2>2. PICK a, b : a = Head(s) /\ b = Tail(s)
    OBVIOUS
  <2>3. a = s[1] /\ b \in Seq(Edge) /\ Len(b) = n - 1 /\ \A i \in 1 .. n - 1 : b[i] = s[i + 1]
    BY <2>1, <2>2
  <2>4. <<a>> \in Seq(Edge) /\ Len(<<a>>) = 1 /\ <<a>>[1] = a
    BY <1>1, <2>2
  <2>5. PICK t : t = <<a>> \o b
    OBVIOUS
  <2>6. /\ t \in Seq(Edge) /\ Len(t) = 1 + (n - 1)
        /\ \A i \in 1 .. 1 + (n - 1) : t[i] = IF i <= 1 THEN <<a>>[i] ELSE b[i - 1]
    BY <2>3, <2>4, <2>5, ConcatProperties
  <2>7. Len(t) = Len(s)
    BY <2>1, <2>6
  <2>8. ASSUME NEW i \in 1 .. Len(t) PROVE t[i] = s[i]
    <3>1. i \in 1 .. 1 + (n - 1) /\ i \in 1 .. n
      BY <2>1, <2>6
    <3>2. CASE i = 1
      BY <2>3, <2>4, <2>6, <3>1, <3>2
    <3>3. CASE i # 1
      <4>1. i - 1 \in 1 .. n - 1 /\ (i - 1) + 1 = i /\ ~(i <= 1)
        BY <3>1, <3>3
      <4>2. t[i] = b[i - 1]
        BY <2>6, <3>1, <4>1
      <4>3. b[i - 1] = s[(i - 1) + 1]
        BY <2>3, <4>1
      <4> QED
        BY <4>1, <4>2, <4>3
    <3> QED
      BY <3>2, <3>3
  <2>9. t = s
    BY <2>6, <2>7, <2>8, SeqEqual
  <2> QED
    BY Zenon, <2>2, <2>5, <2>9
<1> QED
  BY Zenon, <1>1, <1>2, <1>3, <1>4

(* The edge that is held goes first.                                       *)
LEMMA OverHeld ==
    ASSUME NEW c \in Edge, NEW s \in Seq(Edge), NEW x, NEW z
    PROVE  Over(One(c) \o s, x, z) =
              Over(One(None) \o s, x, Weighed(c, x, z))
<1>1. One(c) = <<c>> /\ One(None) = <<>>
  BY Zenon, NoneIsNoEdge DEF One
<1>2. <<>> \o s = s
  BY ConcatEmptySeq
<1>3. Over(Preceded(c, s), x, z) = Over(s, x, Weighed(c, x, z))
  BY OverAhead
<1>4. Preceded(c, s) = <<c>> \o s
  BY Zenon DEF Preceded
<1> QED
  BY Zenon, <1>1, <1>2, <1>3, <1>4

-----------------------------------------------------------------------------
(* What a traversal shows of one partition's tables.                       *)
Visited(l, h, n) ==
    LET slots == LdSlots(l, n)
        chunk == Chunk(h, n)
    IN  IF slots # {}
        THEN {NeighborInfo(l.arr[i].key[2], l.arr[i].val) : i \in slots}
        ELSE {NeighborInfo(chunk.arr[i].key[1], chunk.arr[i].val) : i \in Live(chunk)}

ShowsAll(T, S, f, w) ==
    /\ \A nb \in T : \E i \in S : nb.node = f[i] /\ nb.weight = w[i]
    /\ \A i \in S : \E nb \in T : nb.node = f[i] /\ nb.weight = w[i]

(* A set of neighbours made from slots shows what is in the slots.         *)
LEMMA InfoShown ==
    ASSUME NEW T, NEW S, NEW f, NEW w, AreNeighbors(T, S, f, w)
    PROVE  ShowsAll(T, S, f, w)
<1>1. \A a, b : NeighborInfo(a, b).node = a /\ NeighborInfo(a, b).weight = b
  BY DEF NeighborInfo
<1>2. \A i \in S : NeighborInfo(f[i], w[i]).node = f[i] /\ NeighborInfo(f[i], w[i]).weight = w[i]
  BY Zenon, <1>1
<1>3. ASSUME NEW nb \in T PROVE \E i \in S : nb.node = f[i] /\ nb.weight = w[i]
  <2>1. PICK i \in S : nb = NeighborInfo(f[i], w[i])
    BY Zenon DEF AreNeighbors
  <2> QED
    BY Zenon, <1>2, <2>1
<1>4. ASSUME NEW i \in S PROVE \E nb \in T : nb.node = f[i] /\ nb.weight = w[i]
  <2>1. NeighborInfo(f[i], w[i]) \in T
    BY Zenon DEF AreNeighbors
  <2> QED
    BY Zenon, <1>2, <2>1
<1> QED
  BY Zenon, <1>3, <1>4 DEF ShowsAll

(* What a traversal shows of a partition's vertex is what the partition    *)
(* holds.                                                                  *)
LEMMA VisitedHeld ==
    ASSUME NEW l, NEW h, Owns(l, h), NEW n \in NodeID, NEW m, NEW v
    PROVE  /\ v \in WeightsOf(Visited(l, h, n), m) <=> PartHolds(l, h, n, m, v)
           /\ \A nb \in Visited(l, h, n) : nb.node \in NodeID
<1>1. PICK slots, chunk, nbs : slots = LdSlots(l, n) /\ chunk = Chunk(h, n)
                               /\ nbs = Visited(l, h, n)
  OBVIOUS
<1>2. LowTable(l)
  BY DEF Owns
<1>3. slots = {i \in Live(l) : l.arr[i].key[1] = n}
  BY Zenon, <1>1, <1>2, LdAll
<1>4. v \in WeightsOf(nbs, m) <=> \E nb \in nbs : nb.node = m /\ nb.weight = v
  BY DEF WeightsOf
<1>5. ASSUME NEW i \in slots
      PROVE  \E b \in NodeID : l.arr[i].key = <<n, b>> /\ l.arr[i].key[2] = b
  <2>1. i \in Occupied(l) /\ l.arr[i].key[1] = n
    BY <1>3 DEF Live
  <2>2. l.arr[i].key \in NodeID \X NodeID
    BY Zenon, <1>2, <2>1 DEF LowTable
  <2> QED
    BY <2>1, <2>2
<1>6. HoldsEntry(l, <<n, m>>, v) <=> \E i \in slots : l.arr[i].key[2] = m /\ l.arr[i].val = v
  <2>1. ASSUME NEW i \in Live(l), l.arr[i].key = <<n, m>>
        PROVE  i \in slots /\ l.arr[i].key[2] = m
    <3>1. l.arr[i].key[1] = n /\ l.arr[i].key[2] = m
      BY <2>1
    <3> QED
      BY <1>3, <3>1
  <2>2. ASSUME NEW i \in slots, l.arr[i].key[2] = m
        PROVE  i \in Live(l) /\ l.arr[i].key = <<n, m>>
    <3>1. PICK b : l.arr[i].key = <<n, b>> /\ l.arr[i].key[2] = b
      BY Zenon, <1>5
    <3>2. i \in Live(l)
      BY <1>3
    <3> QED
      BY Zenon, <2>2, <3>1, <3>2
  <2> QED
    BY Zenon, <2>1, <2>2 DEF HoldsEntry
<1>7. CASE slots # {}
  <2>1. nbs = {NeighborInfo(l.arr[i].key[2], l.arr[i].val) : i \in slots}
    BY Zenon, <1>1, <1>7 DEF Visited
  <2>2. PICK f, w : f = [i \in slots |-> l.arr[i].key[2]] /\ w = [i \in slots |-> l.arr[i].val]
    OBVIOUS
  <2>3. \A i \in slots : f[i] = l.arr[i].key[2] /\ w[i] = l.arr[i].val
    BY <2>2
  <2>4. AreNeighbors(nbs, slots, f, w)
    BY Zenon, <2>1, <2>3 DEF AreNeighbors
  <2>5. ShowsAll(nbs, slots, f, w)
    BY Zenon, <2>4, InfoShown
  <2>6. n \notin DOMAIN h
    <3>1. PICK i \in slots : TRUE
      BY <1>7
    <3>2. i \in Live(l) /\ l.arr[i].key[1] = n
      BY Zenon, <1>3, <3>1
    <3> QED
      BY Zenon, <3>2 DEF Owns
  <2>7. (\E nb \in nbs : nb.node = m /\ nb.weight = v) <=>
           \E i \in slots : l.arr[i].key[2] = m /\ l.arr[i].val = v
    <3>1. ASSUME NEW nb \in nbs, nb.node = m, nb.weight = v
          PROVE  \E i \in slots : l.arr[i].key[2] = m /\ l.arr[i].val = v
      <4>1. PICK i \in slots : nb.node = f[i] /\ nb.weight = w[i]
        BY Zenon, <2>5 DEF ShowsAll
      <4> QED
        BY ONLY <2>3, <3>1, <4>1
    <3>2. ASSUME NEW i \in slots, l.arr[i].key[2] = m, l.arr[i].val = v
          PROVE  \E nb \in nbs : nb.node = m /\ nb.weight = v
      <4>1. PICK nb \in nbs : nb.node = f[i] /\ nb.weight = w[i]
        BY Zenon, <2>5 DEF ShowsAll
      <4> QED
        BY ONLY <2>3, <3>2, <4>1
    <3> QED
      BY Zenon, <3>1, <3>2
  <2>8. PartHolds(l, h, n, m, v) <=> HoldsEntry(l, <<n, m>>, v)
    BY Zenon, <2>6 DEF PartHolds
  <2>9. ASSUME NEW nb \in nbs PROVE nb.node \in NodeID
    <3>1. PICK i \in slots : nb.node = f[i]
      BY Zenon, <2>5 DEF ShowsAll
    <3> QED
      BY ONLY <1>5, <2>3, <3>1
  <2> QED
    BY Zenon, <1>1, <1>4, <1>6, <2>7, <2>8, <2>9
<1>8. CASE slots = {}
  <2>1. nbs = {NeighborInfo(chunk.arr[i].key[1], chunk.arr[i].val) : i \in Live(chunk)}
    BY Zenon, <1>1, <1>8 DEF Visited
  <2>2. PICK f, w : f = [i \in Live(chunk) |-> chunk.arr[i].key[1]] /\ w = [i \in Live(chunk) |-> chunk.arr[i].val]
    OBVIOUS
  <2>3. \A i \in Live(chunk) : f[i] = chunk.arr[i].key[1] /\ w[i] = chunk.arr[i].val
    BY <2>2
  <2>4. AreNeighbors(nbs, Live(chunk), f, w)
    BY Zenon, <2>1, <2>3 DEF AreNeighbors
  <2>5. ShowsAll(nbs, Live(chunk), f, w)
    BY Zenon, <2>4, InfoShown
  <2>6. ~HoldsEntry(l, <<n, m>>, v)
    BY Zenon, <1>6, <1>8
  <2>7. ChunkTable(chunk) /\ (n \notin DOMAIN h => Live(chunk) = {})
        /\ (n \in DOMAIN h => chunk = h[n])
    <3>1. CASE n \in DOMAIN h
      BY Zenon, <1>1, <3>1 DEF Chunk, Owns
    <3>2. CASE n \notin DOMAIN h
      <4>1. chunk = NewChunk
        BY Zenon, <1>1, <3>2 DEF Chunk, NewChunk
      <4>2. ChunkTable(chunk) /\ Occupied(chunk) = {}
        BY Zenon, <4>1, NewChunkTable
      <4>3. Live(chunk) = {}
        BY <4>2 DEF Live
      <4> QED
        BY Zenon, <3>2, <4>2, <4>3
    <3> QED
      BY <3>1, <3>2
  <2>8. PartHolds(l, h, n, m, v) <=> HoldsEntry(chunk, <<m>>, v)
    <3>1. CASE n \in DOMAIN h
      BY Zenon, <2>6, <2>7, <3>1 DEF PartHolds
    <3>2. CASE n \notin DOMAIN h
      <4>1. ~HoldsEntry(chunk, <<m>>, v)
        BY <2>7, <3>2 DEF HoldsEntry
      <4> QED
        BY Zenon, <2>6, <3>2, <4>1 DEF PartHolds
    <3> QED
      BY <3>1, <3>2
  <2>9. ASSUME NEW i \in Live(chunk)
        PROVE  \E b \in NodeID : chunk.arr[i].key = <<b>> /\ chunk.arr[i].key[1] = b
    <3>1. i \in Occupied(chunk)
      BY DEF Live
    <3>2. PICK b \in NodeID : chunk.arr[i].key = <<b>>
      BY Zenon, <2>7, <3>1 DEF ChunkTable
    <3> QED
      BY <3>2
  <2>10. HoldsEntry(chunk, <<m>>, v) <=>
           \E i \in Live(chunk) : chunk.arr[i].key[1] = m /\ chunk.arr[i].val = v
    <3>1. \A i \in Live(chunk) : chunk.arr[i].key = <<m>> <=> chunk.arr[i].key[1] = m
      BY <2>9
    <3> QED
      BY Zenon, <3>1 DEF HoldsEntry
  <2>11. (\E nb \in nbs : nb.node = m /\ nb.weight = v) <=>
           \E i \in Live(chunk) : chunk.arr[i].key[1] = m /\ chunk.arr[i].val = v
    <3>1. ASSUME NEW nb \in nbs, nb.node = m, nb.weight = v
          PROVE  \E i \in Live(chunk) : chunk.arr[i].key[1] = m /\ chunk.arr[i].val = v
      <4>1. PICK i \in Live(chunk) : nb.node = f[i] /\ nb.weight = w[i]
        BY Zenon, <2>5 DEF ShowsAll
      <4> QED
        BY ONLY <2>3, <3>1, <4>1
    <3>2. ASSUME NEW i \in Live(chunk), chunk.arr[i].key[1] = m, chunk.arr[i].val = v
          PROVE  \E nb \in nbs : nb.node = m /\ nb.weight = v
      <4>1. PICK nb \in nbs : nb.node = f[i] /\ nb.weight = w[i]
        BY Zenon, <2>5 DEF ShowsAll
      <4> QED
        BY ONLY <2>3, <3>2, <4>1
    <3> QED
      BY Zenon, <3>1, <3>2
  <2>12. ASSUME NEW nb \in nbs PROVE nb.node \in NodeID
    <3>1. PICK i \in Live(chunk) : nb.node = f[i]
      BY Zenon, <2>5 DEF ShowsAll
    <3> QED
      BY ONLY <2>9, <2>3, <3>1
  <2> QED
    BY Zenon, <1>1, <1>4, <2>8, <2>10, <2>11, <2>12
<1> QED
  BY <1>7, <1>8

-----------------------------------------------------------------------------
(* The refinement.  Who is at work when: the threads all run while edges   *)
(* are submitted, and a thread that has returned left nothing behind.      *)
Bookkeeping ==
    /\ setup \in Setups
    /\ running \subseteq Part
    /\ main \in {"loop", "mirror"} => running = Part /\ done = FALSE
    /\ \A p \in Part \ running : held[p] = None /\ q[p] = <<>>

(* Nobody is at work at first,                                             *)
LEMMA InitBooks == DarhhInit => Bookkeeping
BY DEF DarhhInit, Bookkeeping

(* and no step leaves work behind.                                         *)
LEMMA NextBooks == DarhhInv /\ Bookkeeping /\ [DarhhNext]_vars => Bookkeeping'
<1> SUFFICES ASSUME DarhhInv, Bookkeeping, [DarhhNext]_vars PROVE Bookkeeping'
  OBVIOUS
<1>1. setup' = setup
  BY DEF DarhhNext, SubmitNext, Spawn, Submit, Mirror, Finish, Join, Pop, Insert, Exit, vars
<1>2. Part' = Part
  BY <1>1 DEF Part, PerSide, MirrorSide, directed
<1>3. DOMAIN q = Part /\ DOMAIN held = Part
  BY DEF DarhhInv
<1>4. ASSUME running' = running, running = Part, done' = FALSE
      PROVE  Bookkeeping'
  BY Zenon, <1>1, <1>2, <1>4 DEF Bookkeeping
<1>5. CASE SubmitNext
  <2>1. PICK e \in Submittable(num_nodes) : Submit(e)
    BY <1>5 DEF SubmitNext
  <2>2. main = "loop" /\ running' = running /\ done' = done
    BY <2>1 DEF Submit
  <2> QED
    BY <1>4, <2>2 DEF Bookkeeping
<1>6. CASE Mirror
  BY <1>4, <1>6 DEF Mirror, Bookkeeping
<1>7. CASE Spawn
  <2>1. running' = Part /\ done' = FALSE
    BY <1>7 DEF Spawn
  <2> QED
    BY Zenon, <1>1, <1>2, <2>1 DEF Bookkeeping
<1>8. CASE Finish \/ Join \/ UNCHANGED vars
  <2>1. /\ running' = running /\ held' = held /\ q' = q
        /\ main' \in {"loop", "mirror"} => main' = main /\ done' = done
    BY <1>8 DEF Finish, Join, vars, threads
  <2> QED
    BY <1>1, <1>2, <2>1 DEF Bookkeeping
<1>9. ASSUME NEW o \in Part, Pop(o) PROVE Bookkeeping'
  <2>1. /\ o \in running /\ running' = running /\ main' = main /\ done' = done
        /\ held' = [held EXCEPT ![o] = Head(q[o])] /\ q' = [q EXCEPT ![o] = Tail(@)]
    BY <1>9 DEF Pop
  <2>2. \A p \in Part \ running : held'[p] = held[p] /\ q'[p] = q[p]
    BY <1>3, <2>1
  <2> QED
    BY <1>1, <1>2, <2>1, <2>2 DEF Bookkeeping
<1>10. ASSUME NEW o \in Part, Insert(o) PROVE Bookkeeping'
  <2>1. /\ running' = running /\ main' = main /\ done' = done
        /\ held' = [held EXCEPT ![o] = None] /\ q' = q
    BY <1>10 DEF Insert
  <2>2. \A p \in Part \ running : held'[p] = None
    BY <1>3, <2>1 DEF Bookkeeping
  <2> QED
    BY <1>1, <1>2, <2>1, <2>2 DEF Bookkeeping
<1>11. ASSUME NEW o \in Part, Exit(o) PROVE Bookkeeping'
  <2>1. /\ held[o] = None /\ done /\ q[o] = <<>> /\ running' = running \ {o}
        /\ q' = q /\ held' = held /\ done' = done /\ main' = main
    BY <1>11 DEF Exit
  <2>2. main \notin {"loop", "mirror"}
    BY <2>1 DEF Bookkeeping
  <2> QED
    BY <1>1, <1>2, <2>1, <2>2 DEF Bookkeeping
<1> QED
  BY <1>5, <1>6, <1>7, <1>8, <1>9, <1>10, <1>11 DEF DarhhNext

(* a thread only returns when there is nothing left for it, and none has   *)
(* returned while edges are submitted.                                     *)
THEOREM BooksKept == DarhhSpec => [](DarhhInv /\ Bookkeeping)
<1>1. DarhhInit => DarhhInv /\ Bookkeeping
  BY InitInv, InitBooks
<1>2. DarhhInv /\ Bookkeeping /\ [DarhhNext]_vars => (DarhhInv /\ Bookkeeping)'
  BY NextInv, NextBooks
<1> QED
  BY <1>1, <1>2, PTL DEF DarhhSpec

(* Where a vertex' edges are.                                              *)
LEMMA Hashed ==
    ASSUME setup \in Setups, NEW n \in NodeID, NEW name \in {"out", MirrorSide}
    PROVE  PtHash(n) \in 0 .. PerSide - 1 /\ <<name, PtHash(n)>> \in Part
<1>1. setup[1] \in BOOLEAN /\ setup[2] \in Nat /\ setup[2] >= (IF setup[1] THEN 2 ELSE 1)
  BY SetupsAssumption
<1>2. PerSide \in Nat \ {0}
  <2>1. PICK k \in Nat : k = setup[2]
    BY <1>1
  <2>2. CASE setup[1]
    <3>1. k >= 2 /\ k \div 2 \in Nat \ {0}
      BY <1>1, <2>1, <2>2
    <3>2. PerSide = k \div 2
      BY <2>1, <2>2 DEF PerSide, directed
    <3> QED
      BY <3>1, <3>2
  <2>3. CASE ~setup[1]
    <3>1. PerSide = k /\ k >= 1
      BY <1>1, <2>1, <2>3 DEF PerSide, directed
    <3> QED
      BY <3>1
  <2> QED
    BY <2>2, <2>3
<1>3. n \in Nat
  BY NumNodesAssumption DEF NodeID
<1>4. PtHash(n) \in 0 .. PerSide - 1
  BY <1>2, <1>3, HashTyped DEF PtHash
<1> QED
  BY <1>4 DEF Part

-----------------------------------------------------------------------------
(* What is in flight for a partition: what its thread and queue hold, and  *)
(* the reversed edge that is about to be enqueued.                         *)
Waiting(p) == One(held[p]) \o q[p]

MirrorDue(p) == main = "mirror" /\ p = <<MirrorSide, PtHash(reverse.source)>>

(* What is waiting are edges.                                              *)
LEMMA WaitingTyped ==
    ASSUME DarhhInv, NEW p \in Part
    PROVE  /\ Waiting(p) \in Seq(Edge) /\ q[p] \in Seq(Edge)
           /\ held[p] # None => held[p] \in Edge
           /\ main = "mirror" => reverse \in Edge
<1>1. Line(hd[p], num_nodes, held[p], q[p])
  BY DEF DarhhInv, PartOK
<1>2. q[p] \in Seq(Edge) /\ (held[p] # None => held[p] \in Edge)
  BY <1>1 DEF Line, Fresh
<1>3. main = "mirror" => reverse \in Edge
  BY DEF DarhhInv, Joins, Fresh
<1>4. One(held[p]) \in Seq(Edge)
  BY <1>2, OneTyped
<1> QED
  BY <1>2, <1>3, <1>4, ConcatProperties DEF Waiting

(* What is in flight is what is waiting and, last, the reversed edge.      *)
LEMMA Flying ==
    ASSUME DarhhInv, Bookkeeping, NEW p \in Part
    PROVE  InFlight(p) = IF MirrorDue(p) THEN Append(Waiting(p), reverse) ELSE Waiting(p)
<1>1. /\ Waiting(p) \in Seq(Edge) /\ q[p] \in Seq(Edge)
      /\ held[p] # None => held[p] \in Edge
      /\ main = "mirror" => reverse \in Edge
  BY WaitingTyped
<1>2. PICK b \in BOOLEAN : b = (main = "mirror" /\ p = <<MirrorSide, PtHash(reverse.source)>>)
  OBVIOUS
<1>3. MirrorDue(p) <=> b
  BY <1>2 DEF MirrorDue
<1>4. InFlight(p) = Coming(p \in running, held[p], q[p], b, reverse)
  BY Zenon, <1>2 DEF InFlight, Coming, One
<1>5. CASE p \in running
  <2>1. InFlight(p) = Coming(TRUE, held[p], q[p], b, reverse)
    BY Zenon, <1>4, <1>5 DEF Coming
  <2>2. CASE b
    <3>1. reverse \in Edge
      BY <1>1, <1>2, <2>2
    <3>2. Coming(TRUE, held[p], q[p], TRUE, reverse) = One(held[p]) \o Append(q[p], reverse)
      BY Zenon, <1>1, <3>1, MirroredLast
    <3>3. One(held[p]) \o Append(q[p], reverse) = Append(Waiting(p), reverse)
      BY Zenon, <1>1, <3>1, EnqueuedLast DEF Waiting
    <3>4. b = TRUE
      BY <2>2
    <3> QED
      BY Zenon, <1>3, <2>1, <2>2, <3>2, <3>3, <3>4
  <2>3. CASE ~b
    <3>1. Coming(TRUE, held[p], q[p], FALSE, reverse) = Waiting(p)
      BY Zenon, <1>1, NothingMirrored DEF Waiting
    <3>2. b = FALSE
      BY <2>3
    <3> QED
      BY Zenon, <1>3, <2>1, <2>3, <3>1, <3>2
  <2> QED
    BY <2>2, <2>3
<1>6. CASE p \notin running
  <2>1. held[p] = None /\ q[p] = <<>> /\ main # "mirror"
    BY <1>6 DEF Bookkeeping
  <2>2. ~MirrorDue(p)
    BY <2>1 DEF MirrorDue
  <2>3. Waiting(p) = <<>>
    <3>1. One(None) = <<>>
      BY DEF One
    <3>2. <<>> \o <<>> = <<>>
      OBVIOUS
    <3> QED
      BY Zenon, <2>1, <3>1, <3>2 DEF Waiting
  <2>4. InFlight(p) = <<>>
    BY Zenon, <1>4, <1>6 DEF Coming
  <2> QED
    BY Zenon, <2>2, <2>3, <2>4
<1> QED
  BY <1>5, <1>6

(* The weights that partition p shows for the pair x, and those it is      *)
(* going to show once the reversed edge is enqueued, too.                  *)
Settled(p, x) == Over(Waiting(p), x, WeightsOf(Traversed(p, x[1]), x[2]))

Seen(p, x) == Over(InFlight(p), x, WeightsOf(Traversed(p, x[1]), x[2]))

(* What is shown in the end is what is settled, overridden by the reversed *)
(* edge.                                                                   *)
LEMMA SeenSettled ==
    ASSUME DarhhInv, Bookkeeping, NEW p \in Part, NEW x
    PROVE  Seen(p, x) = IF MirrorDue(p) /\ Pair(reverse) = x
                        THEN Just(reverse.weight) ELSE Settled(p, x)
<1>1. Waiting(p) \in Seq(Edge) /\ (main = "mirror" => reverse \in Edge)
  BY WaitingTyped
<1>2. InFlight(p) = IF MirrorDue(p) THEN Append(Waiting(p), reverse) ELSE Waiting(p)
  BY Flying
<1>3. PICK z : z = WeightsOf(Traversed(p, x[1]), x[2])
  OBVIOUS
<1>4. Seen(p, x) = Over(InFlight(p), x, z) /\ Settled(p, x) = Over(Waiting(p), x, z)
  BY Zenon, <1>3 DEF Seen, Settled
<1>5. CASE MirrorDue(p)
  <2>1. reverse \in Edge
    BY Zenon, <1>1, <1>5 DEF MirrorDue
  <2>2. Over(Append(Waiting(p), reverse), x, z) =
           IF Pair(reverse) = x THEN Just(reverse.weight) ELSE Over(Waiting(p), x, z)
    BY ONLY <1>1, <2>1, OverAppended
  <2> QED
    BY Zenon, <1>2, <1>4, <1>5, <2>2
<1>6. CASE ~MirrorDue(p)
  BY Zenon, <1>2, <1>4, <1>6
<1> QED
  BY <1>5, <1>6

(* A side of the graph as a function on the pairs.                         *)
ShownOn(name) ==
    [x \in NodeID \X NodeID |-> Seen(<<name, PtHash(x[1])>>, x)]

Chosen(T) == CHOOSE w \in T : TRUE

MapOf(S) == [x \in {x \in NodeID \X NodeID : S[x] # {}} |-> Chosen(S[x])]

(* The pairs that may be shown.                                            *)
NamedByTables(nbs) == UNION {{<<n, nb.node>> : nb \in nbs[n]} : n \in NodeID}
NamedByQueues(due) ==
    UNION {{Pair(due[h][i]) : i \in DOMAIN due[h]} : h \in DOMAIN due}
Named(nbs, due) == NamedByTables(nbs) \cup NamedByQueues(due)

IsNamed(x, nbs, due) ==
    \/ \E n \in NodeID : \E nb \in nbs[n] : x = <<n, nb.node>>
    \/ \E h \in DOMAIN due : \E i \in DOMAIN due[h] : x = Pair(due[h][i])

(* What it is to be one of them.                                           *)
LEMMA NamedOnes ==
    ASSUME NEW x, NEW nbs, NEW due
    PROVE  x \in Named(nbs, due) <=> IsNamed(x, nbs, due)
<1>1. ASSUME x \in NamedByQueues(due)
      PROVE  \E h \in DOMAIN due : \E i \in DOMAIN due[h] : x = Pair(due[h][i])
  <2>1. PICK U \in {{Pair(due[h][i]) : i \in DOMAIN due[h]} : h \in DOMAIN due} : x \in U
    BY Zenon, <1>1 DEF NamedByQueues
  <2>2. PICK h \in DOMAIN due : U = {Pair(due[h][i]) : i \in DOMAIN due[h]}
    BY Zenon, <2>1
  <2>3. PICK i \in DOMAIN due[h] : x = Pair(due[h][i])
    BY Zenon, <2>1, <2>2
  <2> QED
    BY Zenon, <2>3
<1>2. ASSUME NEW h \in DOMAIN due, NEW i \in DOMAIN due[h], x = Pair(due[h][i])
      PROVE  x \in NamedByQueues(due)
  <2>1. x \in {Pair(due[h][k]) : k \in DOMAIN due[h]}
    BY Zenon, <1>2
  <2> QED
    BY Zenon, <2>1 DEF NamedByQueues
<1>3. x \in NamedByTables(nbs) <=>
         \E n \in NodeID : \E nb \in nbs[n] : x = <<n, nb.node>>
  BY DEF NamedByTables
<1>4. x \in Named(nbs, due) <=> x \in NamedByTables(nbs) \/ x \in NamedByQueues(due)
  BY DEF Named
<1> QED
  BY Zenon, <1>1, <1>2, <1>3, <1>4 DEF IsNamed

(* All of them are pairs of vertices.                                      *)
LEMMA Candidates ==
    ASSUME DarhhInv, Bookkeeping, NEW p \in Part
    PROVE  /\ InFlight(p) \in Seq(Edge)
           /\ \A i \in DOMAIN InFlight(p) : Pair(InFlight(p)[i]) \in NodeID \X NodeID
           /\ \A n \in NodeID : \A nb \in Traversed(p, n) : nb.node \in NodeID
<1>1. Waiting(p) \in Seq(Edge) /\ (main = "mirror" => reverse \in Edge)
  BY WaitingTyped
<1>2. PICK s : s = InFlight(p)
  OBVIOUS
<1>3. s \in Seq(Edge)
  <2>1. MirrorDue(p) => Append(Waiting(p), reverse) \in Seq(Edge)
    BY <1>1 DEF MirrorDue
  <2> QED
    BY Zenon, <1>1, <1>2, <2>1, Flying
<1>4. ASSUME NEW i \in DOMAIN s PROVE Pair(s[i]) \in NodeID \X NodeID
  <2>1. s[i] \in Edge
    BY <1>3
  <2> QED
    BY <2>1 DEF Pair, Edge
<1>5. ASSUME NEW n \in NodeID PROVE \A nb \in Traversed(p, n) : nb.node \in NodeID
  <2>1. Owns(ld[p], hd[p])
    BY DEF DarhhInv, PartOK
  <2>2. \A nb \in Visited(ld[p], hd[p], n) : nb.node \in NodeID
    BY Zenon, <2>1, VisitedHeld
  <2>3. Traversed(p, n) = Visited(ld[p], hd[p], n)
    BY Zenon DEF Traversed, Visited
  <2> QED
    BY Zenon, <2>2, <2>3
<1> QED
  BY Zenon, <1>2, <1>3, <1>4, <1>5

(* Something is shown because something is stored or an edge is due.       *)
LEMMA OverShown ==
    ASSUME NEW s, NEW x, NEW z, Over(s, x, z) # {}
    PROVE  z # {} \/ \E i \in DOMAIN s : Pair(s[i]) = x
BY Zenon, OverNone

(* A side of the graph is the map of what is shown.                        *)
LEMMA SideIs ==
    ASSUME DarhhInv, Bookkeeping, NEW name \in {"out", MirrorSide}
    PROVE  Side(name) = MapOf(ShownOn(name))
<1> DEFINE nbs == [n \in NodeID |-> Traversed(<<name, PtHash(n)>>, n)]
           due == [h \in 0 .. PerSide - 1 |-> InFlight(<<name, h>>)]
           shown(x) == Over(due[PtHash(x[1])], x, WeightsOf(nbs[x[1]], x[2]))
           pairs == Named(nbs, due)
<1>1. PICK f : f = nbs
  OBVIOUS
<1>2. PICK g : g = due
  OBVIOUS
<1>3. PICK S : S = ShownOn(name)
  OBVIOUS
<1>4. Side(name) = [x \in {x \in pairs : shown(x) # {}} |-> Chosen(shown(x))]
  BY Zenon DEF Side, Named, NamedByTables, NamedByQueues, Chosen
<1>5. \A n \in NodeID : PtHash(n) \in 0 .. PerSide - 1 /\ <<name, PtHash(n)>> \in Part
  BY Hashed DEF Bookkeeping
<1>6. \A h \in 0 .. PerSide - 1 : <<name, h>> \in Part
  BY DEF Part
<1>7. ASSUME NEW x \in NodeID \X NodeID
      PROVE  /\ shown(x) = S[x]
             /\ due[PtHash(x[1])] = InFlight(<<name, PtHash(x[1])>>)
             /\ nbs[x[1]] = Traversed(<<name, PtHash(x[1])>>, x[1])
  <2>1. x[1] \in NodeID
    OBVIOUS
  <2>2. PtHash(x[1]) \in 0 .. PerSide - 1
    BY Zenon, <1>5, <2>1
  <2>3. due[PtHash(x[1])] = InFlight(<<name, PtHash(x[1])>>)
    BY Zenon, <1>2, <2>2
  <2>4. nbs[x[1]] = Traversed(<<name, PtHash(x[1])>>, x[1])
    BY Zenon, <1>1, <2>1
  <2>5. S[x] = Seen(<<name, PtHash(x[1])>>, x)
    BY Zenon, <1>3 DEF ShownOn
  <2> QED
    BY Zenon, <2>3, <2>4, <2>5 DEF Seen
<1>8. pairs \subseteq NodeID \X NodeID
  <2>1. ASSUME NEW n \in NodeID, NEW nb \in nbs[n] PROVE <<n, nb.node>> \in NodeID \X NodeID
    <3>1. nbs[n] = Traversed(<<name, PtHash(n)>>, n)
      BY Zenon, <1>1
    <3>2. nb.node \in NodeID
      BY Zenon, <1>5, <2>1, <3>1, Candidates
    <3> QED
      BY <3>2
  <2>2. ASSUME NEW h \in DOMAIN due, NEW i \in DOMAIN due[h]
        PROVE  Pair(due[h][i]) \in NodeID \X NodeID
    <3>1. h \in 0 .. PerSide - 1 /\ due[h] = InFlight(<<name, h>>)
      BY <1>2
    <3> QED
      BY Zenon, <1>6, <2>2, <3>1, Candidates
  <2>3. ASSUME NEW x \in pairs PROVE x \in NodeID \X NodeID
    <3>1. IsNamed(x, nbs, due)
      BY Zenon, <2>3, NamedOnes
    <3> QED
      BY Zenon, <2>1, <2>2, <3>1 DEF IsNamed
  <2> QED
    BY Zenon, <2>3
<1>9. ASSUME NEW x \in NodeID \X NodeID, shown(x) # {} PROVE x \in pairs
  <2>1. x[1] \in NodeID /\ x = <<x[1], x[2]>>
    OBVIOUS
  <2>2. PtHash(x[1]) \in DOMAIN due
    BY Zenon, <1>2, <1>5, <2>1
  <2>3. WeightsOf(nbs[x[1]], x[2]) # {} \/
        \E i \in DOMAIN due[PtHash(x[1])] : Pair(due[PtHash(x[1])][i]) = x
    BY Zenon, <1>9, OverShown
  <2>4. WeightsOf(nbs[x[1]], x[2]) # {} => \E nb \in nbs[x[1]] : nb.node = x[2]
    BY Zenon DEF WeightsOf
  <2>5. CASE \E nb \in nbs[x[1]] : nb.node = x[2]
    <3>1. PICK nb \in nbs[x[1]] : nb.node = x[2]
      BY <2>5
    <3>2. x = <<x[1], nb.node>>
      BY Zenon, <2>1, <3>1
    <3>3. IsNamed(x, nbs, due)
      BY Zenon, <2>1, <3>1, <3>2 DEF IsNamed
    <3> QED
      BY Zenon, <3>3, NamedOnes
  <2>6. CASE \E i \in DOMAIN due[PtHash(x[1])] : Pair(due[PtHash(x[1])][i]) = x
    <3>1. IsNamed(x, nbs, due)
      BY Zenon, <2>2, <2>6 DEF IsNamed
    <3> QED
      BY Zenon, <3>1, NamedOnes
  <2> QED
    BY Zenon, <2>3, <2>4, <2>5, <2>6
<1> HIDE DEF shown, nbs, due, pairs
<1>10. {x \in pairs : shown(x) # {}} = {x \in NodeID \X NodeID : S[x] # {}}
  <2>1. \A x : x \in pairs /\ shown(x) # {} <=> x \in NodeID \X NodeID /\ S[x] # {}
    BY Zenon, <1>7, <1>8, <1>9
  <2> QED
    BY Zenon, <2>1
<1>11. PICK D : D = {x \in NodeID \X NodeID : S[x] # {}}
  OBVIOUS
<1>12. Side(name) = [x \in D |-> Chosen(shown(x))] /\ MapOf(S) = [x \in D |-> Chosen(S[x])]
  BY Zenon, <1>4, <1>10, <1>11 DEF MapOf
<1>13. \A x \in D : Chosen(shown(x)) = Chosen(S[x])
  <2> SUFFICES ASSUME NEW x \in D PROVE Chosen(shown(x)) = Chosen(S[x])
    OBVIOUS
  <2>1. x \in NodeID \X NodeID
    BY Zenon, <1>11
  <2> QED
    BY Zenon, <1>7, <2>1
<1> QED
  BY Zenon, <1>3, <1>12, <1>13

-----------------------------------------------------------------------------
(* What a step does to what is settled.                                    *)
LEMMA Traverses ==
    ASSUME NEW p, NEW n
    PROVE  /\ Traversed(p, n) = Visited(ld[p], hd[p], n)
           /\ Traversed(p, n)' = Visited(ld'[p], hd'[p], n)
<1>1. Traversed(p, n) = Visited(ld[p], hd[p], n)
  BY Zenon DEF Traversed, Visited
<1>2. Traversed(p, n)' = Visited(ld'[p], hd'[p], n)
  BY Zenon DEF Traversed, Visited
<1> QED
  BY <1>1, <1>2

(* Enqueuing an edge overrides what was settled for its pair.              *)
LEMMA SettledQueued ==
    ASSUME DarhhInv, NEW p \in Part, NEW e \in Edge, NEW o, NEW x,
           Enqueue(o, e), held' = held, ld' = ld, hd' = hd
    PROVE  Settled(p, x)' = IF p = o /\ Pair(e) = x THEN Just(e.weight) ELSE Settled(p, x)
<1>1. Waiting(p) \in Seq(Edge) /\ q[p] \in Seq(Edge) /\ (held[p] # None => held[p] \in Edge)
  BY WaitingTyped
<1>2. PICK z : z = WeightsOf(Traversed(p, x[1]), x[2])
  OBVIOUS
<1>3. WeightsOf(Traversed(p, x[1])', x[2]) = z
  <2>1. Traversed(p, x[1])' = Traversed(p, x[1])
    BY Zenon, Traverses
  <2> QED
    BY Zenon, <1>2, <2>1
<1>4. Settled(p, x) = Over(Waiting(p), x, z) /\ Settled(p, x)' = Over(Waiting(p)', x, z)
  BY Zenon, <1>2, <1>3 DEF Settled
<1>5. q'[p] = IF p = o THEN Append(q[p], e) ELSE q[p]
  BY Enqueued DEF DarhhInv
<1>6. Waiting(p)' = One(held[p]) \o q'[p]
  BY Zenon DEF Waiting
<1>7. CASE p = o
  <2>1. One(held[p]) \o Append(q[p], e) = Append(One(held[p]) \o q[p], e)
    BY Zenon, <1>1, EnqueuedLast
  <2>2. Waiting(p)' = Append(Waiting(p), e)
    BY Zenon, <1>5, <1>6, <1>7, <2>1 DEF Waiting
  <2>3. PICK a \in Seq(Edge) : a = Waiting(p)
    BY <1>1
  <2>4. Over(Append(a, e), x, z) = IF Pair(e) = x THEN Just(e.weight) ELSE Over(a, x, z)
    BY ONLY <2>3, OverAppended
  <2> QED
    BY Zenon, <1>4, <1>7, <2>2, <2>3, <2>4
<1>8. CASE p # o
  BY Zenon, <1>4, <1>5, <1>6, <1>8 DEF Waiting
<1> QED
  BY <1>7, <1>8

(* Taking it from the queue changes nothing,                               *)
LEMMA SettledPopped ==
    ASSUME DarhhInv, NEW p \in Part, NEW o \in Part, Pop(o), NEW x
    PROVE  Settled(p, x)' = Settled(p, x)
<1>1. /\ held[o] = None /\ q[o] # <<>>
      /\ held' = [held EXCEPT ![o] = Head(q[o])] /\ q' = [q EXCEPT ![o] = Tail(@)]
      /\ ld' = ld /\ hd' = hd
  BY DEF Pop, tables
<1>2. DOMAIN q = Part /\ DOMAIN held = Part
  BY DEF DarhhInv
<1>3. q[p] \in Seq(Edge)
  BY WaitingTyped
<1>4. Traversed(p, x[1])' = Traversed(p, x[1])
  BY Zenon, <1>1, Traverses
<1>5. Waiting(p)' = Waiting(p)
  <2>1. CASE p = o
    <3>1. One(Head(q[p])) \o Tail(q[p]) = One(None) \o q[p]
      BY Zenon, <1>1, <1>3, <2>1, PoppedFirst
    <3>2. held'[p] = Head(q[p]) /\ q'[p] = Tail(q[p])
      BY <1>1, <1>2, <2>1
    <3> QED
      BY Zenon, <1>1, <2>1, <3>1, <3>2 DEF Waiting
  <2>2. CASE p # o
    <3>1. held'[p] = held[p] /\ q'[p] = q[p]
      BY <1>1, <1>2, <2>2
    <3> QED
      BY Zenon, <3>1 DEF Waiting
  <2> QED
    BY <2>1, <2>2
<1> QED
  BY Zenon, <1>4, <1>5 DEF Settled

(* and neither does inserting it: the tables show from then on what was    *)
(* due.                                                                    *)
LEMMA SettledInserted ==
    ASSUME DarhhInv, NEW p \in Part, NEW o \in Part, Insert(o), NEW x \in NodeID \X NodeID
    PROVE  Settled(p, x)' = Settled(p, x)
<1>1. PICK new : new = InsertEdge([ld |-> ld[o], hd |-> hd[o]], held[o])
  OBVIOUS
<1>2. /\ held[o] # None
      /\ ld' = [ld EXCEPT ![o] = new.ld] /\ hd' = [hd EXCEPT ![o] = new.hd]
      /\ held' = [held EXCEPT ![o] = None] /\ q' = q
  BY Zenon, <1>1 DEF Insert
<1>3. DOMAIN ld = Part /\ DOMAIN hd = Part /\ DOMAIN q = Part /\ DOMAIN held = Part
  BY DEF DarhhInv
<1>4. PICK l, h, c, s : l = ld[o] /\ h = hd[o] /\ c = held[o] /\ s = q[o]
  OBVIOUS
<1>5. Owns(l, h) /\ Line(h, num_nodes, c, s)
  BY Zenon, <1>4 DEF DarhhInv, PartOK
<1>6. Fresh(h, num_nodes, c)
  BY Zenon, <1>2, <1>4, <1>5 DEF Line
<1>7. s \in Seq(Edge) /\ c \in Edge /\ (c.sourceExists \/ c.source \notin DOMAIN h)
  BY Zenon, <1>5, <1>6 DEF Fresh, Line
<1>8. Stores(l, h, c, new)
  <2>1. new = InsertEdge(Share(l, h), c)
    BY Zenon, <1>1, <1>4 DEF Share
  <2> QED
    BY Zenon, <1>5, <1>7, <2>1, EdgeInserted
<1>9. CASE p = o
  <2>1. PICK n \in NodeID, m \in NodeID : x = <<n, m>> /\ x[1] = n /\ x[2] = m
    OBVIOUS
  <2>2. PICK z : z = WeightsOf(Visited(l, h, n), m)
    OBVIOUS
  <2>3. PICK y : y = WeightsOf(Visited(new.ld, new.hd, n), m)
    OBVIOUS
  <2>4. y = Weighed(c, x, z)
    <3>1. Owns(new.ld, new.hd)
      BY Zenon, <1>8 DEF Stores
    <3>2. \A v : v \in y <=> PartHolds(new.ld, new.hd, n, m, v)
      BY Zenon, <2>1, <2>3, <3>1, VisitedHeld
    <3>3. \A v : v \in z <=> PartHolds(l, h, n, m, v)
      BY Zenon, <1>5, <2>1, <2>2, VisitedHeld
    <3>4. \A v : PartHolds(new.ld, new.hd, n, m, v) <=>
            IF n = c.source /\ m = c.destination THEN v = c.weight ELSE PartHolds(l, h, n, m, v)
      BY Zenon, <1>8 DEF Stores
    <3>5. Pair(c) = x <=> n = c.source /\ m = c.destination
      BY <2>1 DEF Pair
    <3>6. CASE Pair(c) = x
      <4>1. \A v : v \in y <=> v = c.weight
        BY Zenon, <3>2, <3>4, <3>5, <3>6
      <4>2. y = {c.weight}
        BY Zenon, <4>1
      <4> QED
        BY Zenon, <3>6, <4>2 DEF Weighed, Just
    <3>7. CASE Pair(c) # x
      <4>1. \A v : v \in y <=> v \in z
        BY Zenon, <3>2, <3>3, <3>4, <3>5, <3>7
      <4>2. y = z
        <5>1. y = {v \in y : TRUE} /\ z = {v \in z : TRUE}
          BY Zenon, <2>2, <2>3 DEF WeightsOf
        <5> QED
          BY Zenon, <4>1, <5>1
      <4> QED
        BY Zenon, <3>7, <4>2 DEF Weighed
    <3> QED
      BY <3>6, <3>7
  <2>5. Over(One(c) \o s, x, z) = Over(One(None) \o s, x, Weighed(c, x, z))
    BY ONLY <1>7, OverHeld
  <2>6. ld[p] = l /\ hd[p] = h /\ held[p] = c /\ q[p] = s
        /\ ld'[p] = new.ld /\ hd'[p] = new.hd /\ held'[p] = None /\ q'[p] = s
    BY <1>2, <1>3, <1>4, <1>9
  <2>7. Settled(p, x) = Over(One(c) \o s, x, z)
    <3>1. Traversed(p, x[1]) = Visited(l, h, n)
      BY Zenon, <2>1, <2>6, Traverses
    <3>2. Waiting(p) = One(c) \o s
      BY Zenon, <2>6 DEF Waiting
    <3>3. WeightsOf(Traversed(p, x[1]), x[2]) = z
      BY Zenon, <2>1, <2>2, <3>1
    <3> QED
      BY Zenon, <3>2, <3>3 DEF Settled
  <2>8. Settled(p, x)' = Over(One(None) \o s, x, y)
    <3>1. Traversed(p, x[1])' = Visited(new.ld, new.hd, n)
      <4>1. Traversed(p, n)' = Visited(ld'[p], hd'[p], n)
        BY Zenon, Traverses
      <4>2. Traversed(p, n)' = Visited(new.ld, new.hd, n)
        BY Zenon, <2>6, <4>1
      <4> QED
        BY Zenon, <2>1, <4>2
    <3>2. Waiting(p)' = One(None) \o s
      BY Zenon, <2>6 DEF Waiting
    <3>3. WeightsOf(Traversed(p, x[1])', x[2]) = y
      BY Zenon, <2>1, <2>3, <3>1
    <3> QED
      BY Zenon, <3>2, <3>3 DEF Settled
  <2> QED
    BY Zenon, <2>4, <2>5, <2>7, <2>8
<1>10. CASE p # o
  <2>1. ld'[p] = ld[p] /\ hd'[p] = hd[p] /\ held'[p] = held[p] /\ q'[p] = q[p]
    BY <1>2, <1>3, <1>10
  <2>2. Traversed(p, x[1])' = Traversed(p, x[1])
    <3>1. Traversed(p, x[1])' = Visited(ld'[p], hd'[p], x[1])
      BY Zenon, Traverses
    <3>2. Traversed(p, x[1]) = Visited(ld[p], hd[p], x[1])
      BY Zenon, Traverses
    <3> QED
      BY Zenon, <2>1, <3>1, <3>2
  <2>3. Waiting(p)' = Waiting(p)
    BY Zenon, <2>1 DEF Waiting
  <2> QED
    BY Zenon, <2>2, <2>3 DEF Settled
<1> QED
  BY <1>9, <1>10

(* A step that touches neither queues nor tables changes nothing.          *)
LEMMA SettledStill ==
    ASSUME NEW p, NEW x, ld' = ld, hd' = hd, held' = held, q' = q
    PROVE  Settled(p, x)' = Settled(p, x)
<1>1. Traversed(p, x[1])' = Traversed(p, x[1])
  BY Zenon, Traverses
<1>2. Waiting(p)' = Waiting(p)
  BY Zenon DEF Waiting
<1> QED
  BY Zenon, <1>1, <1>2 DEF Settled

-----------------------------------------------------------------------------
(* What a step does to what is shown of a side.                            *)
SeenCases ==
    \A p \in Part : \A x \in NodeID \X NodeID :
        Seen(p, x) = IF MirrorDue(p) /\ Pair(reverse) = x
                     THEN Just(reverse.weight) ELSE Settled(p, x)

SidesMapped == \A name \in {"out", MirrorSide} : Side(name) = MapOf(ShownOn(name))

(* Both hold in every reachable state.                                     *)
LEMMA Shown == DarhhInv /\ Bookkeeping => SeenCases /\ SidesMapped
<1> SUFFICES ASSUME DarhhInv, Bookkeeping PROVE SeenCases /\ SidesMapped
  OBVIOUS
<1>1. SeenCases
  BY Zenon, SeenSettled DEF SeenCases
<1>2. SidesMapped
  BY Zenon, SideIs DEF SidesMapped
<1> QED
  BY <1>1, <1>2

(* They hold before and after a step, and the hash does not change.        *)
LEMMA ShownNext ==
    ASSUME DarhhInv, Bookkeeping, [DarhhNext]_vars
    PROVE  /\ DarhhInv' /\ Bookkeeping' /\ SeenCases /\ SidesMapped /\ SeenCases' /\ SidesMapped'
           /\ setup' = setup /\ Part' = Part /\ MirrorSide' = MirrorSide
           /\ PerSide' = PerSide
<1>1. DarhhInv' /\ Bookkeeping'
  BY NextInv, NextBooks
<1>2. SeenCases /\ SidesMapped
  BY Shown
<1>3. (DarhhInv /\ Bookkeeping)' => SeenCases' /\ SidesMapped'
  BY Shown, PTL
<1>4. setup' = setup
  BY DEF DarhhNext, SubmitNext, Spawn, Submit, Mirror, Finish, Join, Pop, Insert, Exit, vars
<1>5. Part' = Part /\ MirrorSide' = MirrorSide
  BY <1>4 DEF Part, PerSide, MirrorSide, directed
<1>6. PerSide' = PerSide
  BY <1>4 DEF PerSide, directed
<1> QED
  BY Zenon, <1>1, <1>2, <1>3, <1>4, <1>5, <1>6

(* The same is shown, the map is the same.                                 *)
LEMMA MapSame ==
    ASSUME NEW S, NEW T, \A x \in NodeID \X NodeID : T[x] = S[x]
    PROVE  MapOf(T) = MapOf(S)
<1>1. PICK D : D = {x \in NodeID \X NodeID : S[x] # {}}
  OBVIOUS
<1>2. {x \in NodeID \X NodeID : T[x] # {}} = D
  BY Zenon, <1>1
<1>3. MapOf(S) = [x \in D |-> Chosen(S[x])] /\ MapOf(T) = [x \in D |-> Chosen(T[x])]
  BY Zenon, <1>1, <1>2 DEF MapOf
<1>4. \A x \in D : Chosen(T[x]) = Chosen(S[x])
  BY Zenon, <1>1
<1> QED
  BY Zenon, <1>3, <1>4

(* One pair is overridden, the map is updated as EdgeStore updates it.     *)
LEMMA MapUpdated ==
    ASSUME NEW S, NEW T, NEW y \in NodeID \X NodeID, NEW w,
           \A x \in NodeID \X NodeID : T[x] = IF x = y THEN Just(w) ELSE S[x]
    PROVE  MapOf(T) = Promised!Updated(MapOf(S), y, w)
<1>1. PICK D : D = {x \in NodeID \X NodeID : S[x] # {}}
  OBVIOUS
<1>2. PICK E : E = {x \in NodeID \X NodeID : T[x] # {}}
  OBVIOUS
<1>3. Just(w) # {} /\ Chosen(Just(w)) = w
  BY DEF Just, Chosen
<1>4. E = D \cup {y}
  BY <1>1, <1>2, <1>3
<1>5. MapOf(S) = [x \in D |-> Chosen(S[x])] /\ MapOf(T) = [x \in E |-> Chosen(T[x])]
  BY Zenon, <1>1, <1>2 DEF MapOf
<1>6. PICK f : f = MapOf(S)
  OBVIOUS
<1>7. DOMAIN f = D /\ \A x \in D : f[x] = Chosen(S[x])
  BY <1>5, <1>6
<1>8. Promised!Updated(f, y, w) = [x \in D \cup {y} |-> IF x = y THEN w ELSE f[x]]
  BY Zenon, <1>7 DEF Promised!Updated
<1>9. \A x \in E : Chosen(T[x]) = IF x = y THEN w ELSE f[x]
  <2> SUFFICES ASSUME NEW x \in E PROVE Chosen(T[x]) = IF x = y THEN w ELSE f[x]
    OBVIOUS
  <2>1. x \in NodeID \X NodeID /\ (x = y \/ x \in D)
    BY <1>2, <1>4
  <2>2. CASE x = y
    BY Zenon, <1>3, <2>1, <2>2
  <2>3. CASE x # y
    BY Zenon, <1>7, <2>1, <2>3
  <2> QED
    BY <2>2, <2>3
<1>10. [x \in E |-> Chosen(T[x])] = [x \in E |-> IF x = y THEN w ELSE f[x]]
  BY Zenon, <1>9
<1> QED
  BY Zenon, <1>4, <1>5, <1>6, <1>8, <1>10

(* A step that is no submission changes nothing that is shown.             *)
LEMMA SeenStill ==
    ASSUME DarhhInv, Bookkeeping, [DarhhNext]_vars, ~SubmitNext,
           NEW p \in Part, NEW x \in NodeID \X NodeID
    PROVE  Seen(p, x)' = Seen(p, x)
<1>1. /\ SeenCases /\ SeenCases' /\ Part' = Part /\ MirrorSide' = MirrorSide
      /\ PerSide' = PerSide
  BY ShownNext
<1>2. Seen(p, x) = IF MirrorDue(p) /\ Pair(reverse) = x
                   THEN Just(reverse.weight) ELSE Settled(p, x)
  BY Zenon, <1>1 DEF SeenCases
<1>3. Seen(p, x)' = IF MirrorDue(p)' /\ Pair(reverse') = x
                    THEN Just(reverse'.weight) ELSE Settled(p, x)'
  BY Zenon, <1>1 DEF SeenCases
<1>4. CASE Mirror
  <2>1. /\ main = "mirror" /\ main' = "loop"
        /\ Enqueue(<<MirrorSide, PtHash(reverse.source)>>, reverse)
        /\ ld' = ld /\ hd' = hd /\ held' = held
    BY <1>4 DEF Mirror, tables
  <2>2. PICK o : o = <<MirrorSide, PtHash(reverse.source)>>
    OBVIOUS
  <2>3. reverse \in Edge
    BY <2>1, WaitingTyped
  <2>4. Settled(p, x)' = IF p = o /\ Pair(reverse) = x THEN Just(reverse.weight) ELSE Settled(p, x)
    BY Zenon, <2>1, <2>2, <2>3, SettledQueued
  <2>5. MirrorDue(p) <=> p = o
    BY Zenon, <2>1, <2>2 DEF MirrorDue
  <2>6. main' # "mirror"
    BY <2>1
  <2>7. ~MirrorDue(p)'
    BY Zenon, <2>6 DEF MirrorDue
  <2> QED
    <3>1. Seen(p, x)' = Settled(p, x)'
      BY Zenon, <1>3, <2>7
    <3>2. CASE p = o /\ Pair(reverse) = x
      BY Zenon, <1>2, <2>4, <2>5, <3>1, <3>2
    <3>3. CASE ~(p = o /\ Pair(reverse) = x)
      BY Zenon, <1>2, <2>4, <2>5, <3>1, <3>3
    <3> QED
      BY <3>2, <3>3
<1>5. ASSUME Settled(p, x)' = Settled(p, x), main' = main, reverse' = reverse
      PROVE  Seen(p, x)' = Seen(p, x)
  <2>1. MirrorDue(p)' <=> MirrorDue(p)
    BY Zenon, <1>1, <1>5 DEF MirrorDue, PtHash
  <2> QED
    <3>1. CASE MirrorDue(p) /\ Pair(reverse) = x
      BY Zenon, <1>2, <1>3, <1>5, <2>1, <3>1
    <3>2. CASE ~(MirrorDue(p) /\ Pair(reverse) = x)
      BY Zenon, <1>2, <1>3, <1>5, <2>1, <3>2
    <3> QED
      BY <3>1, <3>2
<1>6. ASSUME Settled(p, x)' = Settled(p, x), main # "mirror", main' # "mirror"
      PROVE  Seen(p, x)' = Seen(p, x)
  <2>1. ~MirrorDue(p) /\ ~MirrorDue(p)'
    BY Zenon, <1>6 DEF MirrorDue
  <2> QED
    BY Zenon, <1>2, <1>3, <1>6, <2>1
<1>7. CASE \E o \in Part : Pop(o)
  <2>1. PICK o \in Part : Pop(o)
    BY <1>7
  <2>2. main' = main /\ reverse' = reverse
    BY <2>1 DEF Pop
  <2> QED
    BY Zenon, <1>5, <2>1, <2>2, SettledPopped
<1>8. CASE \E o \in Part : Insert(o)
  <2>1. PICK o \in Part : Insert(o)
    BY <1>8
  <2>2. main' = main /\ reverse' = reverse
    BY <2>1 DEF Insert
  <2> QED
    BY Zenon, <1>5, <2>1, <2>2, SettledInserted
<1>9. CASE (\E o \in Part : Exit(o)) \/ UNCHANGED vars
  <2>1. /\ ld' = ld /\ hd' = hd /\ held' = held /\ q' = q
        /\ main' = main /\ reverse' = reverse
    BY <1>9 DEF Exit, vars, tables
  <2> QED
    BY Zenon, <1>5, <2>1, SettledStill
<1>10. CASE Spawn \/ Finish \/ Join
  <2>1. /\ ld' = ld /\ hd' = hd /\ held' = held /\ q' = q
        /\ main # "mirror" /\ main' # "mirror"
    BY <1>10 DEF Spawn, Finish, Join, tables, threads
  <2> QED
    BY Zenon, <1>6, <2>1, SettledStill
<1> QED
  BY <1>4, <1>7, <1>8, <1>9, <1>10 DEF DarhhNext

(* A submission shows the edge on either side at once.                     *)
LEMMA SeenSubmitted ==
    ASSUME DarhhInv, Bookkeeping, [DarhhNext]_vars, NEW e \in Submittable(num_nodes), Submit(e),
           NEW p \in Part, NEW x \in NodeID \X NodeID
    PROVE  Seen(p, x)' =
              IF p = <<MirrorSide, PtHash(e.destination)>> /\ x = <<e.destination, e.source>>
              THEN Just(e.weight)
              ELSE IF p = <<"out", PtHash(e.source)>> /\ x = <<e.source, e.destination>>
              THEN Just(e.weight) ELSE Seen(p, x)
<1>1. /\ SeenCases /\ SeenCases' /\ Part' = Part /\ MirrorSide' = MirrorSide
      /\ PerSide' = PerSide
  BY ShownNext
<1>2. /\ main = "loop" /\ main' = "mirror" /\ reverse' = ReverseOf(e)
      /\ Enqueue(<<"out", PtHash(e.source)>>, e)
      /\ ld' = ld /\ hd' = hd /\ held' = held
  BY DEF Submit, tables
<1>3. e \in Edge
  BY Submitted DEF DarhhInv
<1>4. PICK o, r : o = <<"out", PtHash(e.source)>> /\ r = ReverseOf(e)
  OBVIOUS
<1>5. r.source = e.destination /\ r.weight = e.weight
      /\ Pair(r) = <<e.destination, e.source>> /\ Pair(e) = <<e.source, e.destination>>
  BY <1>4 DEF ReverseOf, Pair
<1>6. Seen(p, x) = Settled(p, x)
  <2>1. main # "mirror"
    BY <1>2
  <2> QED
    BY Zenon, <1>1, <2>1 DEF SeenCases, MirrorDue
<1>7. Settled(p, x)' = IF p = o /\ Pair(e) = x THEN Just(e.weight) ELSE Settled(p, x)
  BY Zenon, <1>2, <1>3, <1>4, SettledQueued
<1>8. Seen(p, x)' = IF MirrorDue(p)' /\ Pair(reverse') = x
                    THEN Just(reverse'.weight) ELSE Settled(p, x)'
  BY Zenon, <1>1 DEF SeenCases
<1>9. MirrorDue(p)' <=> p = <<MirrorSide, PtHash(e.destination)>>
  <2>1. PtHash(reverse.source)' = PtHash(e.destination)
    BY Zenon, <1>1, <1>2, <1>4, <1>5 DEF PtHash
  <2>2. MirrorDue(p)' <=> main' = "mirror" /\ p = <<MirrorSide', PtHash(reverse.source)'>>
    BY Zenon DEF MirrorDue
  <2> QED
    BY Zenon, <1>1, <1>2, <2>1, <2>2
<1>10. reverse' = r
  BY Zenon, <1>2, <1>4
<1> QED
  BY Zenon, <1>4, <1>5, <1>6, <1>7, <1>8, <1>9, <1>10

(* What is shown of a side after a step.                                   *)
LEMMA SideNext ==
    ASSUME DarhhInv, Bookkeeping, [DarhhNext]_vars, NEW name \in {"out", MirrorSide}
    PROVE  /\ Side(name) = MapOf(ShownOn(name))
           /\ Side(name)' = MapOf(ShownOn(name)')
           /\ \A x \in NodeID \X NodeID :
                 /\ ShownOn(name)[x] = Seen(<<name, PtHash(x[1])>>, x)
                 /\ ShownOn(name)'[x] = Seen(<<name, PtHash(x[1])>>, x)'
                 /\ <<name, PtHash(x[1])>> \in Part
<1>1. /\ SidesMapped /\ SidesMapped' /\ MirrorSide' = MirrorSide /\ PerSide' = PerSide
  BY ShownNext
<1>2. Side(name) = MapOf(ShownOn(name))
  BY Zenon, <1>1 DEF SidesMapped
<1>3. Side(name)' = MapOf(ShownOn(name)')
  BY Zenon, <1>1 DEF SidesMapped
<1>4. ASSUME NEW x \in NodeID \X NodeID
      PROVE  /\ ShownOn(name)[x] = Seen(<<name, PtHash(x[1])>>, x)
             /\ ShownOn(name)'[x] = Seen(<<name, PtHash(x[1])>>, x)'
             /\ <<name, PtHash(x[1])>> \in Part
  <2>1. PtHash(x[1])' = PtHash(x[1])
    BY Zenon, <1>1 DEF PtHash
  <2>2. ShownOn(name)[x] = Seen(<<name, PtHash(x[1])>>, x)
    BY Zenon DEF ShownOn
  <2>3. ShownOn(name)'[x] = Seen(<<name, PtHash(x[1])>>, x)'
    <3>1. ShownOn(name)'[x] = Seen(<<name, PtHash(x[1])>>, x)'
      BY Zenon DEF ShownOn
    <3> QED
      BY <3>1
  <2>4. x[1] \in NodeID
    OBVIOUS
  <2>5. <<name, PtHash(x[1])>> \in Part
    BY <2>4, Hashed DEF Bookkeeping
  <2> QED
    BY Zenon, <2>2, <2>3, <2>5
<1> QED
  BY Zenon, <1>2, <1>3, <1>4

(* A side only changes with a submission,                                  *)
LEMMA SideStill ==
    ASSUME DarhhInv, Bookkeeping, [DarhhNext]_vars, ~SubmitNext, NEW name \in {"out", MirrorSide}
    PROVE  Side(name)' = Side(name)
<1>1. PICK S, T : S = ShownOn(name) /\ T = ShownOn(name)'
  OBVIOUS
<1>2. \A x \in NodeID \X NodeID : T[x] = S[x]
  <2> SUFFICES ASSUME NEW x \in NodeID \X NodeID PROVE T[x] = S[x]
    OBVIOUS
  <2>1. PICK p \in Part : p = <<name, PtHash(x[1])>>
    BY Zenon, SideNext
  <2>2. S[x] = Seen(p, x)
    BY Zenon, <1>1, <2>1, SideNext
  <2>3. T[x] = Seen(<<name, PtHash(x[1])>>, x)'
    BY Zenon, <1>1, SideNext
  <2>4. Seen(<<name, PtHash(x[1])>>, x)' = Seen(p, x)'
    <3>1. PerSide' = PerSide
      BY ShownNext
    <3>2. PtHash(x[1])' = PtHash(x[1])
      BY Zenon, <3>1 DEF PtHash
    <3>3. p = <<name, PtHash(x[1])'>>
      BY Zenon, <2>1, <3>2
    <3> QED
      BY Zenon, <3>3
  <2> QED
    BY Zenon, <2>2, <2>3, <2>4, SeenStill
<1> QED
  <2>1. Side(name) = MapOf(S) /\ Side(name)' = MapOf(T)
    BY Zenon, <1>1, SideNext
  <2>2. MapOf(T) = MapOf(S)
    BY Zenon, <1>2, MapSame
  <2> QED
    BY Zenon, <2>1, <2>2

(* which overrides the edge's pair on the side of its source and the       *)
(* reversed pair on the other.                                             *)
LEMMA SideSubmitted ==
    ASSUME DarhhInv, Bookkeeping, [DarhhNext]_vars, NEW e \in Submittable(num_nodes), Submit(e),
           NEW name \in {"out", MirrorSide}
    PROVE  \A x \in NodeID \X NodeID :
              ShownOn(name)'[x] =
                 IF name = MirrorSide /\ x = <<e.destination, e.source>> THEN Just(e.weight)
                 ELSE IF name = "out" /\ x = <<e.source, e.destination>> THEN Just(e.weight)
                 ELSE ShownOn(name)[x]
<1>1. PICK S, T : S = ShownOn(name) /\ T = ShownOn(name)'
  OBVIOUS
<1>2. e \in Edge
  BY Submitted DEF DarhhInv
<1>3. PICK m \in NodeID, n \in NodeID : m = e.source /\ n = e.destination
  BY <1>2 DEF Edge
<1>4. PICK a, b : a = <<m, n>> /\ b = <<n, m>>
  OBVIOUS
<1>5. /\ a = <<m, n>> /\ b = <<n, m>> /\ a[1] = m /\ b[1] = n
      /\ a \in NodeID \X NodeID /\ b \in NodeID \X NodeID
  BY <1>4
<1>6. PICK w : w = e.weight
  OBVIOUS
<1>7. ASSUME NEW x \in NodeID \X NodeID
      PROVE  T[x] = IF name = MirrorSide /\ x = b THEN Just(w)
                    ELSE IF name = "out" /\ x = a THEN Just(w) ELSE S[x]
  <2>1. PICK p \in Part : p = <<name, PtHash(x[1])>>
    BY Zenon, SideNext
  <2>2. S[x] = Seen(p, x)
    BY Zenon, <1>1, <2>1, SideNext
  <2>3. T[x] = Seen(<<name, PtHash(x[1])>>, x)'
    BY Zenon, <1>1, SideNext
  <2>4. Seen(<<name, PtHash(x[1])>>, x)' = Seen(p, x)'
    <3>1. PerSide' = PerSide
      BY ShownNext
    <3>2. PtHash(x[1])' = PtHash(x[1])
      BY Zenon, <3>1 DEF PtHash
    <3>3. p = <<name, PtHash(x[1])'>>
      BY Zenon, <2>1, <3>2
    <3> QED
      BY Zenon, <3>3
  <2>5. Seen(p, x)' = IF p = <<MirrorSide, PtHash(n)>> /\ x = b THEN Just(w)
                      ELSE IF p = <<"out", PtHash(m)>> /\ x = a THEN Just(w) ELSE Seen(p, x)
    BY Zenon, <1>3, <1>5, <1>6, SeenSubmitted
  <2>6. x = b => (p = <<MirrorSide, PtHash(n)>> <=> name = MirrorSide)
    <3>1. PICK h, g : h = PtHash(x[1]) /\ g = PtHash(n)
      OBVIOUS
    <3>2. x = b => h = g
      BY Zenon, <1>5, <3>1
    <3>3. <<name, h>> = <<MirrorSide, g>> <=> name = MirrorSide /\ h = g
      OBVIOUS
    <3> QED
      BY Zenon, <2>1, <3>1, <3>2, <3>3
  <2>7. x = a => (p = <<"out", PtHash(m)>> <=> name = "out")
    <3>1. PICK h, g : h = PtHash(x[1]) /\ g = PtHash(m)
      OBVIOUS
    <3>2. x = a => h = g
      BY Zenon, <1>5, <3>1
    <3>3. <<name, h>> = <<"out", g>> <=> name = "out" /\ h = g
      OBVIOUS
    <3> QED
      BY Zenon, <2>1, <3>1, <3>2, <3>3
  <2>8. T[x] = Seen(p, x)'
    BY Zenon, <2>3, <2>4
  <2>9. CASE name = MirrorSide /\ x = b
    BY Zenon, <2>5, <2>6, <2>8, <2>9
  <2>10. CASE ~(name = MirrorSide /\ x = b) /\ name = "out" /\ x = a
    BY Zenon, <2>5, <2>6, <2>7, <2>8, <2>10
  <2>11. CASE ~(name = MirrorSide /\ x = b) /\ ~(name = "out" /\ x = a)
    BY Zenon, <2>2, <2>5, <2>6, <2>7, <2>8, <2>11
  <2> QED
    BY Zenon, <2>9, <2>10, <2>11
<1> QED
  BY Zenon, <1>1, <1>3, <1>5, <1>6, <1>7

-----------------------------------------------------------------------------
(* At first nothing is shown.                                              *)
LEMMA NothingShown ==
    ASSUME DarhhInit, NEW name \in {"out", MirrorSide}
    PROVE  Side(name) = Promised!Empty
<1>1. DarhhInv /\ Bookkeeping
  BY InitInv, InitBooks
<1>2. SeenCases /\ SidesMapped
  BY <1>1, Shown
<1>3. PICK S : S = ShownOn(name)
  OBVIOUS
<1>4. Live(NewTable(LdCapacity)) = {}
  <2>1. IsCapacity(LdCapacity) /\ LdCapacity \in Nat /\ 100 <= LdCapacity * LoadPercent
    BY CapacityAssumption DEF IsCapacity
  <2>2. LdCapacity = 0 => LdCapacity * LoadPercent = 0
    BY LoadPercentAssumption
  <2>3. LdCapacity \in Nat \ {0}
    BY <2>1, <2>2
  <2>4. PICK t : t = NewTable(LdCapacity)
    OBVIOUS
  <2>5. Live(t) = {}
    BY <2>3, <2>4, NewTableOrderly
  <2> QED
    BY Zenon, <2>4, <2>5
<1>5. ASSUME NEW x \in NodeID \X NodeID PROVE S[x] = {}
  <2>1. PICK p \in Part : p = <<name, PtHash(x[1])>>
    <3>1. x[1] \in NodeID
      OBVIOUS
    <3> QED
      BY <1>1, <3>1, Hashed DEF Bookkeeping
  <2>2. S[x] = Seen(p, x)
    BY Zenon, <1>3, <2>1 DEF ShownOn
  <2>3. main # "mirror" /\ held[p] = None /\ q[p] = <<>>
        /\ ld[p] = NewTable(LdCapacity) /\ hd[p] = <<>>
    BY DEF DarhhInit
  <2>4. Seen(p, x) = Settled(p, x)
    BY Zenon, <1>2, <2>3 DEF SeenCases, MirrorDue
  <2>5. PICK z : z = WeightsOf(Traversed(p, x[1]), x[2])
    OBVIOUS
  <2>6. Waiting(p) = <<>>
    <3>1. One(None) = <<>> /\ <<>> \o <<>> = <<>>
      BY DEF One
    <3> QED
      BY Zenon, <2>3, <3>1 DEF Waiting
  <2>7. Settled(p, x) = z
    <3>1. \A i \in DOMAIN <<>> : Pair(<<>>[i]) # x
      OBVIOUS
    <3>2. Over(<<>>, x, z) = z
      BY Zenon, <3>1, OverNone
    <3> QED
      BY Zenon, <2>5, <2>6, <3>2 DEF Settled
  <2>8. PICK n \in NodeID, m \in NodeID : x[1] = n /\ x[2] = m
    OBVIOUS
  <2>9. PICK l, h : l = ld[p] /\ h = hd[p]
    OBVIOUS
  <2>10. Owns(l, h)
    BY Zenon, <1>1, <2>9 DEF DarhhInv, PartOK
  <2>11. z = WeightsOf(Visited(l, h, n), m)
    <3>1. Traversed(p, n) = Visited(ld[p], hd[p], n)
      BY Zenon, Traverses
    <3> QED
      BY Zenon, <2>5, <2>8, <2>9, <3>1
  <2>12. \A v : ~PartHolds(l, h, n, m, v)
    <3>1. \A k, v : ~HoldsEntry(l, k, v)
      BY Zenon, <1>4, <2>3, <2>9 DEF HoldsEntry
    <3>2. n \notin DOMAIN h
      BY <2>3, <2>9
    <3> QED
      BY Zenon, <3>1, <3>2 DEF PartHolds
  <2>13. \A v : v \in z <=> PartHolds(l, h, n, m, v)
    BY Zenon, <2>10, <2>11, VisitedHeld
  <2>14. z = {}
    BY Zenon, <2>12, <2>13
  <2> QED
    BY Zenon, <2>2, <2>4, <2>7, <2>14
<1>6. {x \in NodeID \X NodeID : S[x] # {}} = {}
  BY Zenon, <1>5
<1>7. MapOf(S) = [x \in {} |-> Chosen(S[x])]
  BY Zenon, <1>6 DEF MapOf
<1>8. Side(name) = MapOf(S)
  BY Zenon, <1>2, <1>3 DEF SidesMapped
<1>9. MapOf(S) = [x \in {} |-> 0]
  BY <1>7
<1> QED
  BY Zenon, <1>8, <1>9 DEF Promised!Empty

(* The empty structure is an empty EdgeStore.                              *)
LEMMA InitPromised == DarhhInit => Promised!StoreInit
<1> SUFFICES ASSUME DarhhInit PROVE Promised!StoreInit
  OBVIOUS
<1>1. setup \in Setups /\ num_nodes = 0 /\ num_edges = 0
  BY DEF DarhhInit
<1>2. directed \in {s[1] : s \in Setups}
  BY <1>1 DEF directed
<1>3. Side("out") = Promised!Empty
  BY Zenon, NothingShown
<1>4. (IF directed THEN Side("in") ELSE [x \in {} |-> 0]) = Promised!Empty
  <2>1. CASE directed
    <3>1. MirrorSide = "in"
      BY <2>1 DEF MirrorSide
    <3>2. Side("in") = Promised!Empty
      BY Zenon, <3>1, NothingShown
    <3> QED
      BY Zenon, <2>1, <3>2
  <2>2. CASE ~directed
    BY Zenon, <2>2 DEF Promised!Empty
  <2> QED
    BY <2>1, <2>2
<1> QED
  BY Zenon, <1>1, <1>2, <1>3, <1>4 DEF Promised!StoreInit

(* A submission is an insertion into the EdgeStore.                        *)
LEMMA SubmitPromised ==
    ASSUME DarhhInv, Bookkeeping, [DarhhNext]_vars, NEW e \in Submittable(num_nodes), Submit(e)
    PROVE  Promised!Insert(e)
<1>1. /\ num_nodes' = num_nodes + NewVertices(e) /\ num_edges' = num_edges + 2
      /\ setup' = setup
  BY DEF Submit
<1>2. directed' = directed /\ MirrorSide' = MirrorSide
  BY <1>1 DEF directed, MirrorSide
<1>3. PICK w, a, b : /\ w = e.weight
                     /\ a = <<e.source, e.destination>> /\ b = <<e.destination, e.source>>
  OBVIOUS
<1>4. a \in NodeID \X NodeID /\ b \in NodeID \X NodeID
  <2>1. e \in Edge
    BY Submitted DEF DarhhInv
  <2> QED
    BY <1>3, <2>1 DEF Edge
<1>5. directed \in BOOLEAN
  BY SetupsAssumption DEF Bookkeeping, directed
<1>6. CASE directed
  <2>1. MirrorSide = "in"
    BY <1>6 DEF MirrorSide
  <2>2. Side("out")' = Promised!Updated(Side("out"), a, w)
    <3>1. PICK S, T : S = ShownOn("out") /\ T = ShownOn("out")'
      OBVIOUS
    <3>2. Side("out") = MapOf(S) /\ Side("out")' = MapOf(T)
      BY Zenon, <3>1, SideNext
    <3>3. \A x \in NodeID \X NodeID : T[x] = IF x = a THEN Just(w) ELSE S[x]
      <4>1. "out" # MirrorSide
        BY <2>1
      <4> QED
        BY Zenon, <1>3, <3>1, <4>1, SideSubmitted
    <3>4. MapOf(T) = Promised!Updated(MapOf(S), a, w)
      BY ONLY <1>4, <3>3, MapUpdated
    <3> QED
      BY Zenon, <3>2, <3>4
  <2>3. Side("in")' = Promised!Updated(Side("in"), b, w)
    <3>1. PICK S, T : S = ShownOn("in") /\ T = ShownOn("in")'
      OBVIOUS
    <3>2. "in" \in {"out", MirrorSide} /\ "in" = MirrorSide
      BY <2>1
    <3>3. Side("in") = MapOf(S) /\ Side("in")' = MapOf(T)
      BY Zenon, <3>2, <3>1, SideNext
    <3>4. \A x \in NodeID \X NodeID : T[x] = IF x = b THEN Just(w) ELSE S[x]
      <4>1. "in" # "out"
        OBVIOUS
      <4> QED
        BY Zenon, <1>3, <3>2, <3>1, <4>1, SideSubmitted
    <3>5. MapOf(T) = Promised!Updated(MapOf(S), b, w)
      BY ONLY <1>4, <3>4, MapUpdated
    <3> QED
      BY Zenon, <3>3, <3>5
  <2>4. /\ (IF directed THEN Side("in") ELSE [x \in {} |-> 0]) = Side("in")
        /\ (IF directed THEN Side("in") ELSE [x \in {} |-> 0])' = Side("in")'
    BY Zenon, <1>2, <1>6
  <2> QED
    BY Zenon, <1>1, <1>2, <1>3, <1>6, <2>2, <2>3, <2>4
       DEF Promised!Insert, Promised!NewVertices, NewVertices
<1>7. CASE ~directed
  <2>1. MirrorSide = "out"
    BY <1>7 DEF MirrorSide
  <2>2. Side("out")' = Promised!Updated(Promised!Updated(Side("out"), a, w), b, w)
    <3>1. PICK S, T : S = ShownOn("out") /\ T = ShownOn("out")'
      OBVIOUS
    <3>2. Side("out") = MapOf(S) /\ Side("out")' = MapOf(T)
      BY Zenon, <3>1, SideNext
    <3>3. \A x \in NodeID \X NodeID :
             T[x] = IF x = b THEN Just(w) ELSE IF x = a THEN Just(w) ELSE S[x]
      BY Zenon, <1>3, <2>1, <3>1, SideSubmitted
    <3>4. PICK U : U = [x \in NodeID \X NodeID |-> IF x = a THEN Just(w) ELSE S[x]]
      OBVIOUS
    <3>5. \A x \in NodeID \X NodeID : U[x] = IF x = a THEN Just(w) ELSE S[x]
      BY Zenon, <3>4
    <3>6. MapOf(U) = Promised!Updated(MapOf(S), a, w)
      BY ONLY <1>4, <3>5, MapUpdated
    <3>7. \A x \in NodeID \X NodeID : T[x] = IF x = b THEN Just(w) ELSE U[x]
      BY Zenon, <3>3, <3>5
    <3>8. MapOf(T) = Promised!Updated(MapOf(U), b, w)
      BY ONLY <1>4, <3>7, MapUpdated
    <3> QED
      BY Zenon, <3>2, <3>6, <3>8
  <2>3. (IF directed THEN Side("in") ELSE [x \in {} |-> 0])' =
        (IF directed THEN Side("in") ELSE [x \in {} |-> 0])
    BY Zenon, <1>2, <1>7
  <2> QED
    BY Zenon, <1>1, <1>2, <1>3, <1>7, <2>2, <2>3
       DEF Promised!Insert, Promised!NewVertices, NewVertices
<1> QED
  BY <1>6, <1>7

(* No other step is anything to the EdgeStore.                             *)
LEMMA StepPromised ==
    ASSUME DarhhInv, Bookkeeping, [DarhhNext]_vars, ~SubmitNext
    PROVE  UNCHANGED Promised!storeVars
<1>1. directed' = directed
  BY ShownNext DEF directed
<1>2. num_nodes' = num_nodes /\ num_edges' = num_edges
  BY DEF DarhhNext, Spawn, Mirror, Finish, Join, Pop, Insert, Exit, vars, counters
<1>3. Side("out")' = Side("out")
  BY Zenon, SideStill
<1>4. (IF directed THEN Side("in") ELSE [x \in {} |-> 0])' =
      (IF directed THEN Side("in") ELSE [x \in {} |-> 0])
  <2>1. CASE directed
    <3>1. MirrorSide = "in"
      BY <2>1 DEF MirrorSide
    <3>2. Side("in")' = Side("in")
      BY Zenon, <3>1, SideStill
    <3> QED
      BY Zenon, <1>1, <2>1, <3>2
  <2>2. CASE ~directed
    BY Zenon, <1>1, <2>2
  <2> QED
    BY <2>1, <2>2
<1> QED
  BY Zenon, <1>1, <1>2, <1>3, <1>4 DEF Promised!storeVars

(* Degree-aware hashing implements EdgeStore: at every moment the tables,  *)
(* with what the queues and threads still have to insert, show each side   *)
(* of the graph as the map from pairs to the weight last submitted, and    *)
(* the step that changes the map is the submission of that very edge.      *)
THEOREM EdgeStoreImplemented == DarhhSpec => DarhhImplementsEdgeStore
<1>1. DarhhInit => Promised!StoreInit
  BY InitPromised
<1>2. DarhhInv /\ Bookkeeping /\ [DarhhNext]_vars =>
         [\E edge \in Submittable(num_nodes) :
              Submit(edge) /\ Promised!Insert(edge)]_(Promised!storeVars)
  <2> SUFFICES ASSUME DarhhInv, Bookkeeping, [DarhhNext]_vars
               PROVE  \/ \E edge \in Submittable(num_nodes) :
                            Submit(edge) /\ Promised!Insert(edge)
                      \/ UNCHANGED Promised!storeVars
    OBVIOUS
  <2>1. CASE SubmitNext
    <3>1. PICK e \in Submittable(num_nodes) : Submit(e)
      BY <2>1 DEF SubmitNext
    <3>2. Promised!Insert(e)
      BY <3>1, SubmitPromised
    <3> QED
      BY <3>1, <3>2
  <2>2. CASE ~SubmitNext
    BY <2>2, StepPromised
  <2> QED
    BY <2>1, <2>2
<1> QED
  BY <1>1, <1>2, BooksKept, PTL DEF DarhhSpec, DarhhImplementsEdgeStore
=============================================================================
