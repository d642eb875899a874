--------------------------- MODULE Stinger_proofs ---------------------------
(***************************************************************************)
(* Proofs about Stinger: the edge-block list of stinger.cc is the map that *)
(* its insertions make one after the other, holds no neighbour twice and   *)
(* never moves an edge, for any number of threads, insertions and slots to *)
(* a block.  The argument: a word that readfe() has emptied belongs to the *)
(* thread that emptied it; slots are filled in order, and those that a     *)
(* thread has passed in its second search are in use for other neighbours; *)
(* so one thread at a time fills a slot (OneFills), and a neighbour that   *)
(* it adds is new (NewNeighbor).  So the counters are never ahead of the   *)
(* marks by more than one edge (Counted), and between batches the iterator *)
(* meets every edge once (TraversedInFull).                                *)
(***************************************************************************)
EXTENDS Stinger, SequenceTheorems, FiniteSetTheorems, WellFoundedInduction, TLAPS

Neighbor(b, k) == EdgeAt(b, k).neighbor
Weight(b, k) == EdgeAt(b, k).weight
TimeFirst(b, k) == EdgeAt(b, k).timeFirst
High(b) == blocks[b].high
BlockIx == 1 .. Len(blocks)

Updating == {"u_lock", "u_test", "u_neighbor", "u_numEdges", "u_degree",
             "u_high", "u_raise", "u_unlock"}
Registering == {"u_numEdges", "u_degree", "u_high", "u_raise"}
AtTail == {"t_new", "t_publish", "t_putback"}

Holding(t) == pc[t] # "idle" /\ loc[t].slotHeld
Writing(t) == pc[t] \in Updating \ {"u_lock"}
At(t, b, k) == loc[t].b = b /\ loc[t].k = k

(* Where a thread is.                                                      *)
PlaceOf(t) == pc[t] # "idle" =>
    /\ loc[t].b \in BlockIx /\ loc[t].k \in 0 .. BlockSize
    /\ pc[t] \in {"p2_lock", "p2_this", "p2_recheck"} \cup Updating => loc[t].k \in Slot
    /\ pc[t] \in {"p1_scan", "p2_scan"} => loc[t].endk <= High(loc[t].b)
    /\ pc[t] \in {"p2_this", "p2_recheck", "u_neighbor"} \cup Registering => loc[t].slotHeld
    /\ loc[t].slotHeld => pc[t] \in {"p2_this", "p2_recheck"} \cup Updating
    /\ pc[t] \in {"t_new", "t_publish"} => loc[t].b = Len(blocks)
    /\ pc[t] = "t_putback" => loc[t].b < Len(blocks)

(* The words it has emptied are empty, and it alone has emptied them.      *)
OwnsOf(t) ==
    /\ Holding(t) => TimeFirst(loc[t].b, loc[t].k) = MARKER
    /\ Writing(t) => Weight(loc[t].b, loc[t].k) = MARKER
    /\ pc[t] \in AtTail => next[loc[t].b] = "MARKER"
Apart(t, u) ==
    /\ Holding(t) /\ Holding(u) => ~At(t, loc[u].b, loc[u].k)
    /\ Writing(t) /\ Writing(u) => ~At(t, loc[u].b, loc[u].k)
    /\ pc[t] \in AtTail /\ pc[u] \in AtTail => loc[t].b # loc[u].b

(* What it knows of its slot.                                              *)
KnowsOf(t) ==
    LET b == loc[t].b
        k == loc[t].k
    IN  /\ pc[t] = "p2_recheck" => loc[t].this = Neighbor(b, k)
        /\ pc[t] \in {"u_lock", "u_test"} =>
              IF loc[t].slotHeld THEN Neighbor(b, k) \in {NoNeighbor, loc[t].dest}
              ELSE Neighbor(b, k) = loc[t].dest /\ k < High(b)
        /\ pc[t] = "u_neighbor" => Neighbor(b, k) = NoNeighbor
        /\ pc[t] \in Registering => Neighbor(b, k) = loc[t].dest /\ High(b) <= k
        /\ pc[t] = "u_unlock" => Neighbor(b, k) = loc[t].dest /\ k < High(b)

(* The slots it has been past in its second pass are in use, for other     *)
(* neighbours.                                                             *)
Passed(t, b, k) ==
    /\ pc[t] \notin {"idle", "p1_high", "p1_scan"}
    /\ pc[t] \in Updating => loc[t].slotHeld
    /\ \/ b < loc[t].b
       \/ b = loc[t].b /\ k < loc[t].k /\ pc[t] # "p2_high"
       \/ b = loc[t].b /\ pc[t] \in {"t_lock"} \cup AtTail
SearchedOf(t) == \A b \in BlockIx, k \in Slot : Passed(t, b, k) =>
    Neighbor(b, k) \notin {NoNeighbor, loc[t].dest} /\ k < High(b)

(* Slots are filled in order: those below the mark are in use, and those   *)
(* above it are not, unless a thread is about to raise the mark.           *)
Filled == \A b \in BlockIx :
    /\ High(b) <= BlockSize
    /\ b < Len(blocks) => High(b) = BlockSize
    /\ \A k \in Slot :
        /\ k < High(b) => Neighbor(b, k) # NoNeighbor
        /\ Neighbor(b, k) # NoNeighbor /\ High(b) <= k =>
              \E t \in Threads : pc[t] \in Registering /\ At(t, b, k)

(* A weight that no thread is writing is readable.                         *)
Readable == \A b \in BlockIx, k \in Slot :
    Neighbor(b, k) # NoNeighbor /\ Weight(b, k) \notin Weights =>
        \E t \in Threads : Writing(t) /\ At(t, b, k)

Unique == \A b, c \in BlockIx, k, i \in Slot :
    Neighbor(b, k) # NoNeighbor /\ Neighbor(b, k) = Neighbor(c, i) => b = c /\ k = i

IInv ==
    /\ TypeOK /\ 1 \in BlockIx /\ Filled /\ Readable /\ Unique
    /\ \A t \in Threads : PlaceOf(t) /\ OwnsOf(t) /\ KnowsOf(t) /\ SearchedOf(t)
    /\ \A t, u \in Threads : t # u => Apart(t, u)

-----------------------------------------------------------------------------
(* The steps of the others leave a thread's part of the invariant alone.   *)
Grows ==
    /\ Len(blocks) <= Len(blocks')
    /\ \A b \in BlockIx :
        /\ High(b) <= High(b)'
        /\ \A k \in Slot : Neighbor(b, k) # NoNeighbor => Neighbor(b, k)' = Neighbor(b, k)
Keeps(u) ==
    LET b == loc[u].b
        k == loc[u].k
    IN  /\ pc'[u] = pc[u] /\ loc'[u] = loc[u]
        /\ Holding(u) => Neighbor(b, k)' = Neighbor(b, k) /\ TimeFirst(b, k)' = TimeFirst(b, k)
        /\ Writing(u) => Weight(b, k)' = Weight(b, k)
        /\ pc[u] \in Registering => High(b)' = High(b)
        /\ pc[u] \in AtTail => next'[b] = next[b]
        /\ pc[u] \in {"t_new", "t_publish"} => Len(blocks') = Len(blocks)

(* A write to slot k of block b, or to the block's counters.               *)
Written(b, k, n, w, f, h) ==
    /\ blocks' \in Seq(Block) /\ Len(blocks') = Len(blocks)
    /\ \A c \in BlockIx :
        /\ High(c)' = IF c = b THEN h ELSE High(c)
        /\ \A i \in Slot :
            /\ Neighbor(c, i)' = IF c = b /\ i = k THEN n ELSE Neighbor(c, i)
            /\ Weight(c, i)' = IF c = b /\ i = k THEN w ELSE Weight(c, i)
            /\ TimeFirst(c, i)' = IF c = b /\ i = k THEN f ELSE TimeFirst(c, i)

LEMMA ReplaceBlock ==
    ASSUME blocks \in Seq(Block), NEW b \in BlockIx, NEW x \in Block,
           blocks' = [blocks EXCEPT ![b] = x]
    PROVE  /\ blocks' \in Seq(Block) /\ Len(blocks') = Len(blocks)
           /\ \A c \in BlockIx : blocks'[c] = IF c = b THEN x ELSE blocks[c]
BY ExceptSeq DEF BlockIx

Edge == [neighbor : Dests \cup {NoNeighbor}, weight : Weights \cup {-1, MARKER},
         timeFirst : {0, MARKER}]

LEMMA WriteSlot ==
    ASSUME blocks \in Seq(Block), NEW b \in BlockIx, NEW k \in Slot, NEW e \in Edge,
           NEW m \in Nat, NEW h \in Int,
           blocks' = [blocks EXCEPT ![b] =
               [edges |-> [blocks[b].edges EXCEPT ![k] = e], numEdges |-> m, high |-> h]]
    PROVE  Written(b, k, e.neighbor, e.weight, e.timeFirst, h)
<1>1. blocks[b] \in Block
  BY LenProperties DEF BlockIx
<1> DEFINE es == [blocks[b].edges EXCEPT ![k] = e]
<1> DEFINE x == [edges |-> es, numEdges |-> m, high |-> h]
<1>2. es \in [Slot -> Edge] /\ \A i \in Slot : es[i] = IF i = k THEN e ELSE blocks[b].edges[i]
  BY <1>1 DEF Block, Edge
<1>3. x \in Block /\ x.edges = es /\ x.high = h
  BY <1>2 DEF Block, Edge
<1> HIDE DEF es, x
<1>4. blocks' \in Seq(Block) /\ Len(blocks') = Len(blocks)
      /\ \A c \in BlockIx : blocks'[c] = IF c = b THEN x ELSE blocks[c]
  <2>1. blocks' = [blocks EXCEPT ![b] = x]
    BY DEF x, es
  <2> QED
    BY <1>3, <2>1, ReplaceBlock
<1> QED
  BY <1>2, <1>3, <1>4 DEF Written, Neighbor, Weight, TimeFirst, EdgeAt, High

LEMMA BlockForms ==
    ASSUME NEW x \in Block
    PROVE  /\ \A y : [x EXCEPT !.edges = y]
                      = [edges |-> y, numEdges |-> x.numEdges, high |-> x.high]
           /\ \A m : [x EXCEPT !.numEdges = m]
                      = [edges |-> x.edges, numEdges |-> m, high |-> x.high]
           /\ \A h : [x EXCEPT !.high = h]
                      = [edges |-> x.edges, numEdges |-> x.numEdges, high |-> h]
BY DEF Block

LEMMA WriteForms ==
    ASSUME blocks \in Seq(Block), NEW b \in BlockIx, NEW k \in Slot
    PROVE  /\ \A f \in {0, MARKER} :
                blocks' = [blocks EXCEPT ![b].edges[k].timeFirst = f] =>
                    Written(b, k, Neighbor(b, k), Weight(b, k), f, High(b))
           /\ \A w \in Weights \cup {MARKER} :
                blocks' = [blocks EXCEPT ![b].edges[k].weight = w] =>
                    Written(b, k, Neighbor(b, k), w, TimeFirst(b, k), High(b))
           /\ \A w \in Weights, f \in {0, MARKER} :
                blocks' = [blocks EXCEPT ![b].edges[k] =
                              [@ EXCEPT !.weight = w, !.timeFirst = f]] =>
                    Written(b, k, Neighbor(b, k), w, f, High(b))
           /\ \A n \in Dests :
                blocks' = [blocks EXCEPT ![b].edges[k].neighbor = n] =>
                    Written(b, k, n, Weight(b, k), TimeFirst(b, k), High(b))
           /\ blocks' = [blocks EXCEPT ![b].numEdges = @ + 1] =>
                    Written(b, k, Neighbor(b, k), Weight(b, k), TimeFirst(b, k), High(b))
           /\ \A h \in Int :
                blocks' = [blocks EXCEPT ![b].high = h] =>
                    Written(b, k, Neighbor(b, k), Weight(b, k), TimeFirst(b, k), h)
<1>1. PICK x \in Block : x = blocks[b]
  BY LenProperties DEF BlockIx
<1>2. PICK e \in Edge : e = x.edges[k]
  BY <1>1 DEF Block, Edge
<1>3. /\ e.neighbor = Neighbor(b, k) /\ e.weight = Weight(b, k)
      /\ e.timeFirst = TimeFirst(b, k) /\ x.high = High(b)
      /\ x.numEdges \in Nat /\ x.high \in Int
      /\ x = [edges |-> x.edges, numEdges |-> x.numEdges, high |-> x.high]
      /\ x.edges = [x.edges EXCEPT ![k] = e]
  BY <1>1, <1>2 DEF Neighbor, Weight, TimeFirst, High, EdgeAt, Block
<1>4. ASSUME NEW f \in {0, MARKER},
             blocks' = [blocks EXCEPT ![b].edges[k].timeFirst = f]
      PROVE  Written(b, k, Neighbor(b, k), Weight(b, k), f, High(b))
  <2>1. PICK d \in Edge : d = [e EXCEPT !.timeFirst = f]
    BY <1>2 DEF Edge
  <2>2. PICK y : y = [x.edges EXCEPT ![k] = d]
    OBVIOUS
  <2>3. blocks' = [blocks EXCEPT ![b] = [x EXCEPT !.edges = y]]
    BY <1>1, <1>2, <1>4, <2>1, <2>2
  <2>4. [x EXCEPT !.edges = y] = [edges |-> y, numEdges |-> x.numEdges, high |-> x.high]
    BY <1>2, <1>3, <2>1, <2>2, BlockForms
  <2>5. blocks' = [blocks EXCEPT ![b] =
            [edges |-> [blocks[b].edges EXCEPT ![k] = d], numEdges |-> x.numEdges, high |-> x.high]]
    BY <1>1, <2>2, <2>3, <2>4
  <2>6. Written(b, k, d.neighbor, d.weight, d.timeFirst, x.high)
    BY <1>3, <2>5, WriteSlot
  <2> QED
    BY <1>2, <1>3, <2>1, <2>6 DEF Edge
<1>5. ASSUME NEW w \in Weights \cup {MARKER},
             blocks' = [blocks EXCEPT ![b].edges[k].weight = w]
      PROVE  Written(b, k, Neighbor(b, k), w, TimeFirst(b, k), High(b))
  <2>1. PICK d \in Edge : d = [e EXCEPT !.weight = w]
    BY <1>2 DEF Edge
  <2>2. PICK y : y = [x.edges EXCEPT ![k] = d]
    OBVIOUS
  <2>3. blocks' = [blocks EXCEPT ![b] = [x EXCEPT !.edges = y]]
    BY <1>1, <1>2, <1>5, <2>1, <2>2
  <2>4. [x EXCEPT !.edges = y] = [edges |-> y, numEdges |-> x.numEdges, high |-> x.high]
    BY <1>2, <1>3, <2>1, <2>2, BlockForms
  <2>5. blocks' = [blocks EXCEPT ![b] =
            [edges |-> [blocks[b].edges EXCEPT ![k] = d], numEdges |-> x.numEdges, high |-> x.high]]
    BY <1>1, <2>2, <2>3, <2>4
  <2>6. Written(b, k, d.neighbor, d.weight, d.timeFirst, x.high)
    BY <1>3, <2>5, WriteSlot
  <2> QED
    BY <1>2, <1>3, <2>1, <2>6 DEF Edge
<1>6. ASSUME NEW w \in Weights, NEW f \in {0, MARKER},
             blocks' = [blocks EXCEPT ![b].edges[k] = [@ EXCEPT !.weight = w, !.timeFirst = f]]
      PROVE  Written(b, k, Neighbor(b, k), w, f, High(b))
  <2>1. PICK d \in Edge : d = [e EXCEPT !.weight = w, !.timeFirst = f]
    BY <1>2 DEF Edge
  <2>2. PICK y : y = [x.edges EXCEPT ![k] = d]
    OBVIOUS
  <2>3. blocks' = [blocks EXCEPT ![b] = [x EXCEPT !.edges = y]]
    BY <1>1, <1>2, <1>6, <2>1, <2>2
  <2>4. [x EXCEPT !.edges = y] = [edges |-> y, numEdges |-> x.numEdges, high |-> x.high]
    BY <1>2, <1>3, <2>1, <2>2, BlockForms
  <2>5. blocks' = [blocks EXCEPT ![b] =
            [edges |-> [blocks[b].edges EXCEPT ![k] = d], numEdges |-> x.numEdges, high |-> x.high]]
    BY <1>1, <2>2, <2>3, <2>4
  <2>6. Written(b, k, d.neighbor, d.weight, d.timeFirst, x.high)
    BY <1>3, <2>5, WriteSlot
  <2> QED
    BY <1>2, <1>3, <2>1, <2>6 DEF Edge
<1>7. ASSUME NEW n \in Dests,
             blocks' = [blocks EXCEPT ![b].edges[k].neighbor = n]
      PROVE  Written(b, k, n, Weight(b, k), TimeFirst(b, k), High(b))
  <2>1. PICK d \in Edge : d = [e EXCEPT !.neighbor = n]
    BY <1>2 DEF Edge
  <2>2. PICK y : y = [x.edges EXCEPT ![k] = d]
    OBVIOUS
  <2>3. blocks' = [blocks EXCEPT ![b] = [x EXCEPT !.edges = y]]
    BY <1>1, <1>2, <1>7, <2>1, <2>2
  <2>4. [x EXCEPT !.edges = y] = [edges |-> y, numEdges |-> x.numEdges, high |-> x.high]
    BY <1>2, <1>3, <2>1, <2>2, BlockForms
  <2>5. blocks' = [blocks EXCEPT ![b] =
            [edges |-> [blocks[b].edges EXCEPT ![k] = d], numEdges |-> x.numEdges, high |-> x.high]]
    BY <1>1, <2>2, <2>3, <2>4
  <2>6. Written(b, k, d.neighbor, d.weight, d.timeFirst, x.high)
    BY <1>3, <2>5, WriteSlot
  <2> QED
    BY <1>2, <1>3, <2>1, <2>6 DEF Edge
<1>8. ASSUME blocks' = [blocks EXCEPT ![b].numEdges = @ + 1]
      PROVE  Written(b, k, Neighbor(b, k), Weight(b, k), TimeFirst(b, k), High(b))
  <2>1. PICK d \in Edge : d = e
    BY <1>2 DEF Edge
  <2>2. PICK y : y = [x.edges EXCEPT ![k] = d]
    OBVIOUS
  <2>3. blocks' = [blocks EXCEPT ![b] = [x EXCEPT !.numEdges = x.numEdges + 1]]
    BY <1>1, <1>2, <1>8, <2>1, <2>2
  <2>4. [x EXCEPT !.numEdges = x.numEdges + 1] = [edges |-> y, numEdges |-> x.numEdges + 1, high |-> x.high]
    BY <1>2, <1>3, <2>1, <2>2, BlockForms
  <2>5. blocks' = [blocks EXCEPT ![b] =
            [edges |-> [blocks[b].edges EXCEPT ![k] = d], numEdges |-> x.numEdges + 1, high |-> x.high]]
    BY <1>1, <2>2, <2>3, <2>4
  <2>6. Written(b, k, d.neighbor, d.weight, d.timeFirst, x.high)
    <3>1. x.numEdges + 1 \in Nat /\ x.high \in Int
      BY <1>3
    <3> QED
      BY <2>5, <3>1, WriteSlot
  <2> QED
    BY <1>2, <1>3, <2>1, <2>6 DEF Edge
<1>9. ASSUME NEW h \in Int,
             blocks' = [blocks EXCEPT ![b].high = h]
      PROVE  Written(b, k, Neighbor(b, k), Weight(b, k), TimeFirst(b, k), h)
  <2>1. PICK d \in Edge : d = e
    BY <1>2 DEF Edge
  <2>2. PICK y : y = [x.edges EXCEPT ![k] = d]
    OBVIOUS
  <2>3. blocks' = [blocks EXCEPT ![b] = [x EXCEPT !.high = h]]
    BY <1>1, <1>2, <1>9, <2>1, <2>2
  <2>4. [x EXCEPT !.high = h] = [edges |-> y, numEdges |-> x.numEdges, high |-> h]
    BY <1>2, <1>3, <2>1, <2>2, BlockForms
  <2>5. blocks' = [blocks EXCEPT ![b] =
            [edges |-> [blocks[b].edges EXCEPT ![k] = d], numEdges |-> x.numEdges, high |-> h]]
    BY <1>1, <2>2, <2>3, <2>4
  <2>6. Written(b, k, d.neighbor, d.weight, d.timeFirst, h)
    BY <1>3, <2>5, WriteSlot
  <2> QED
    BY <1>2, <1>3, <2>1, <2>6 DEF Edge
<1> QED
  BY <1>4, <1>5, <1>6, <1>7, <1>8, <1>9

-----------------------------------------------------------------------------
(* What the types say of the accesses.                                     *)
Typed ==
    /\ blocks \in Seq(Block) /\ Len(blocks) \in Nat /\ DOMAIN blocks = BlockIx
    /\ \A b \in BlockIx : High(b) \in Int
    /\ \A b \in BlockIx, k \in Slot :
         /\ Neighbor(b, k) \in Dests \cup {NoNeighbor}
         /\ Weight(b, k) \in Weights \cup {-1, MARKER}
         /\ TimeFirst(b, k) \in {0, MARKER}
    /\ \A t \in Threads : pc[t] # "idle" =>
         /\ loc[t] \in Locals
         /\ loc[t].b \in Nat /\ loc[t].k \in Nat /\ loc[t].endk \in Int
         /\ loc[t].dest \in Dests /\ loc[t].weight \in Weights
         /\ loc[t].slotHeld \in BOOLEAN /\ loc[t].this \in Dests \cup {NoNeighbor}

LEMMA Types == TypeOK => Typed
<1> SUFFICES ASSUME TypeOK PROVE Typed
  OBVIOUS
<1>1. blocks \in Seq(Block) /\ Len(blocks) \in Nat /\ DOMAIN blocks = BlockIx
  BY LenProperties DEF TypeOK, BlockIx
<1>2. \A b \in BlockIx : blocks[b] \in Block
  BY <1>1
<1> QED
  BY <1>1, <1>2 DEF TypeOK, Block, High, Neighbor, Weight, TimeFirst, EdgeAt, Locals, Typed

LEMMA Others ==
    ASSUME IInv, TypeOK', NEW u \in Threads, Grows, Keeps(u)
    PROVE  PlaceOf(u)' /\ OwnsOf(u)' /\ KnowsOf(u)' /\ SearchedOf(u)'
<1>1. Typed /\ PlaceOf(u) /\ OwnsOf(u) /\ KnowsOf(u) /\ SearchedOf(u)
  BY Types DEF IInv
<1>2. Typed'
  BY Types, PTL
<1>3. pc'[u] = pc[u] /\ loc'[u] = loc[u]
  BY DEF Keeps
<1>4. /\ Len(blocks) \in Nat /\ Len(blocks)' \in Nat
      /\ \A b \in BlockIx : High(b) \in Int /\ High(b)' \in Int /\ b \in BlockIx'
  BY <1>1, <1>2 DEF Grows, BlockIx, Typed
<1>5. pc[u] # "idle" => loc[u].b \in BlockIx' /\ loc[u].b \in BlockIx
  BY <1>1, <1>4 DEF PlaceOf
<1>6. PlaceOf(u)'
  BY <1>1, <1>3, <1>4, <1>5 DEF Typed, PlaceOf, Grows, Keeps, Registering, Updating
<1>7. OwnsOf(u)'
  BY <1>1, <1>3 DEF OwnsOf, Keeps, Holding, Writing
<1>8. KnowsOf(u)'
  <2> SUFFICES ASSUME pc[u] # "idle" PROVE KnowsOf(u)'
    BY <1>3 DEF KnowsOf, Registering
  <2>1. PICK b \in BlockIx, k \in Nat : b = loc[u].b /\ k = loc[u].k
    BY <1>1, <1>5 DEF Typed
  <2>2. High(b) \in Int /\ High(b)' \in Int /\ High(b) <= High(b)'
    BY <1>4 DEF Grows
  <2>3. pc[u] \in {"p2_recheck"} \cup Updating => k \in Slot
    BY <1>1, <2>1 DEF PlaceOf
  <2>4. k \in Slot /\ Neighbor(b, k) # NoNeighbor => Neighbor(b, k)' = Neighbor(b, k)
    BY DEF Grows
  <2>5. loc[u].slotHeld => Neighbor(b, k)' = Neighbor(b, k)
    BY <2>1 DEF Keeps, Holding
  <2>6. pc[u] \in Registering => High(b)' = High(b)
    BY <2>1 DEF Keeps
  <2>7. pc[u] \in {"p2_recheck", "u_neighbor"} \cup Registering => loc[u].slotHeld
    BY <1>1 DEF PlaceOf
  <2>8. loc[u].dest # NoNeighbor
    BY <1>1, DestsAssumption DEF Typed, NoNeighbor
  <2> QED
    BY <1>1, <1>3, <2>1, <2>2, <2>3, <2>4, <2>5, <2>6, <2>7, <2>8 DEF KnowsOf, Registering, Updating
<1>9. SearchedOf(u)'
  <2> SUFFICES ASSUME NEW b \in BlockIx', NEW k \in Slot, Passed(u, b, k)
               PROVE  Neighbor(b, k)' \notin {NoNeighbor, loc[u].dest} /\ k < High(b)'
    BY <1>3 DEF SearchedOf, Passed
  <2>1. b \in BlockIx
    BY <1>1, <1>4, <1>5 DEF Passed, BlockIx, Typed
  <2>2. /\ Neighbor(b, k) \notin {NoNeighbor, loc[u].dest} /\ k < High(b)
        /\ High(b) <= High(b)' /\ Neighbor(b, k)' = Neighbor(b, k)
    BY <1>1, <2>1 DEF SearchedOf, Grows
  <2> QED
    BY <1>4, <2>1, <2>2 DEF Slot
<1> QED
  BY <1>6, <1>7, <1>8, <1>9

(* A step of t that writes to slot k of block b at most.                   *)
Spares(u, b, k, n, w, f, h) ==
    /\ pc'[u] = pc[u] /\ loc'[u] = loc[u]
    /\ Holding(u) /\ At(u, b, k) => n = Neighbor(b, k) /\ f = TimeFirst(b, k)
    /\ Writing(u) /\ At(u, b, k) => w = Weight(b, k)
    /\ pc[u] \in Registering /\ loc[u].b = b => h = High(b)
    /\ pc[u] \in AtTail => next'[loc[u].b] = next[loc[u].b]

LEMMA WrittenKeeps ==
    ASSUME IInv, NEW t \in Threads, NEW u \in Threads, NEW b \in BlockIx, NEW k \in Slot,
           NEW n, NEW w, NEW f, NEW h, Written(b, k, n, w, f, h),
           Spares(u, b, k, n, w, f, h)
    PROVE  Keeps(u)
<1>1. Typed /\ PlaceOf(u)
  BY Types DEF IInv
<1>2. Holding(u) \/ Writing(u) => loc[u].b \in BlockIx /\ loc[u].k \in Slot
  BY <1>1 DEF PlaceOf, Holding, Writing, Updating
<1>3. pc[u] \in Registering \cup AtTail => loc[u].b \in BlockIx
  BY <1>1 DEF PlaceOf, Registering, AtTail
<1> QED
  BY <1>2, <1>3 DEF Keeps, Spares, Written, At

LEMMA WrittenGrows ==
    ASSUME IInv, NEW b \in BlockIx, NEW k \in Slot,
           NEW n, NEW w, NEW f, NEW h, Written(b, k, n, w, f, h),
           h \in Int, High(b) <= h, n = Neighbor(b, k) \/ Neighbor(b, k) = NoNeighbor
    PROVE  Grows
<1>1. Typed
  BY Types DEF IInv
<1>2. \A c \in BlockIx : High(c) \in Int
  BY <1>1 DEF Typed
<1>3. Len(blocks') = Len(blocks) /\ Len(blocks) \in Nat
  BY <1>1 DEF Written, Typed
<1>4. \A c \in BlockIx : High(c) <= High(c)'
  BY <1>2 DEF Written
<1>5. \A c \in BlockIx, i \in Slot :
        Neighbor(c, i) # NoNeighbor => Neighbor(c, i)' = Neighbor(c, i)
  BY DEF Written
<1> QED
  BY <1>3, <1>4, <1>5 DEF Grows

(* It is enough to look at the thread that takes the step.                 *)
LEMMA Together ==
    ASSUME IInv, TypeOK', NEW t \in Threads, Grows,
           \A u \in Threads : u # t => Keeps(u) /\ Apart(t, u)',
           PlaceOf(t)', OwnsOf(t)', KnowsOf(t)', SearchedOf(t)',
           Filled', Readable', Unique'
    PROVE  IInv'
<1>1. \A u \in Threads : PlaceOf(u)' /\ OwnsOf(u)' /\ KnowsOf(u)' /\ SearchedOf(u)'
  BY Others
<1>2. ASSUME NEW u \in Threads, NEW v \in Threads, u # v
      PROVE  Apart(u, v)'
  <2>1. CASE u = t
    BY <1>2, <2>1
  <2>2. CASE v = t
    BY <1>2, <2>2 DEF Apart, At
  <2>3. CASE u # t /\ v # t
    <3>1. Apart(u, v) /\ Keeps(u) /\ Keeps(v)
      BY <1>2, <2>3 DEF IInv
    <3> QED
      BY <3>1 DEF Apart, Keeps, Holding, Writing, At
  <2> QED
    BY <2>1, <2>2, <2>3
<1>3. 1 \in BlockIx'
  <2>1. Typed /\ Typed' /\ 1 \in BlockIx
    BY Types, PTL DEF IInv
  <2> QED
    BY <2>1 DEF Grows, BlockIx, Typed
<1> QED
  BY <1>1, <1>2, <1>3 DEF IInv

(* Neither neighbours nor marks change.                                    *)
LEMMA QuietStep ==
    ASSUME IInv, TypeOK', NEW t \in Threads, NEW b \in BlockIx, NEW k \in Slot,
           NEW w, NEW f, Written(b, k, Neighbor(b, k), w, f, High(b)),
           \A u \in Threads : u # t =>
               Spares(u, b, k, Neighbor(b, k), w, f, High(b)) /\ Apart(t, u)',
           PlaceOf(t)', OwnsOf(t)', KnowsOf(t)', SearchedOf(t)',
           pc[t] \in Registering => pc'[t] \in Registering /\ loc'[t] = loc[t],
           \/ w = Weight(b, k) /\ (Writing(t) => Writing(t)' /\ loc'[t] = loc[t])
           \/ w \in Weights /\ (Writing(t) => At(t, b, k))
           \/ Writing(t)' /\ At(t, b, k)' /\ ~Writing(t)
    PROVE  IInv'
<1>1. Typed
  BY Types DEF IInv
<1>2. High(b) \in Int /\ High(b) <= High(b)
  BY <1>1 DEF Typed
<1>3. Grows
  BY <1>2, WrittenGrows
<1>4. \A u \in Threads : u # t => Keeps(u)
  BY WrittenKeeps
<1>5. /\ Len(blocks') = Len(blocks) /\ BlockIx' = BlockIx
      /\ \A c \in BlockIx : High(c)' = High(c)
      /\ \A c \in BlockIx, i \in Slot : Neighbor(c, i)' = Neighbor(c, i)
      /\ \A c \in BlockIx, i \in Slot : Weight(c, i)' = IF c = b /\ i = k THEN w ELSE Weight(c, i)
  BY DEF Written, BlockIx
<1>6. \A u \in Threads : pc[u] \in Registering => pc'[u] \in Registering /\ loc'[u] = loc[u]
  BY DEF Spares
<1>7. Filled'
  <2>1. \A c \in BlockIx, i \in Slot :
            (\E u \in Threads : pc[u] \in Registering /\ At(u, c, i)) =>
            (\E u \in Threads : pc'[u] \in Registering /\ At(u, c, i)')
    BY <1>6 DEF At
  <2> QED
    BY <1>5, <2>1 DEF IInv, Filled
<1>8. Unique'
  BY <1>5 DEF IInv, Unique
<1>9. Readable'
  <2> SUFFICES ASSUME NEW c \in BlockIx, NEW i \in Slot, Neighbor(c, i) # NoNeighbor,
                      Weight(c, i)' \notin Weights
               PROVE  \E u \in Threads : Writing(u)' /\ At(u, c, i)'
    BY <1>5 DEF Readable
  <2>1. \A u \in Threads : u # t /\ Writing(u) /\ At(u, c, i) => Writing(u)' /\ At(u, c, i)'
    BY DEF Spares, Writing, At
  <2>2. CASE c = b /\ i = k
    <3>1. Weight(b, k)' = w
      BY <1>5
    <3>2. CASE Writing(t)' /\ At(t, b, k)'
      BY <2>2, <3>2
    <3>3. CASE w = Weight(b, k) /\ (Writing(t) => Writing(t)' /\ loc'[t] = loc[t])
      <4>1. PICK u \in Threads : Writing(u) /\ At(u, c, i)
        BY <2>2, <3>1, <3>3 DEF IInv, Readable
      <4> QED
        BY <2>1, <3>3, <4>1 DEF At
    <3> QED
      BY <2>2, <3>1, <3>2, <3>3
  <2>3. CASE ~(c = b /\ i = k)
    <3>1. PICK u \in Threads : Writing(u) /\ At(u, c, i)
      BY <1>5, <2>3 DEF IInv, Readable
    <3>2. u = t => Writing(t)' /\ loc'[t] = loc[t]
      BY <2>3, <3>1 DEF At
    <3> QED
      BY <2>1, <3>1, <3>2 DEF At
  <2> QED
    BY <2>2, <2>3
<1> QED
  BY <1>3, <1>4, <1>7, <1>8, <1>9, Together

LEMMA GotoTyped ==
    ASSUME TypeOK, NEW t \in Threads, NEW label \in ControlPoints, NEW r,
           Goto(t, label, r), r \in Locals \/ (r = <<>> /\ label = "idle")
    PROVE  /\ pc'[t] = label /\ loc'[t] = r
           /\ \A u \in Threads : u # t => pc'[u] = pc[u] /\ loc'[u] = loc[u]
           /\ pc' \in [Threads -> ControlPoints]
           /\ loc' \in [Threads -> Locals \cup {<<>>}]
           /\ \A u \in Threads : pc'[u] # "idle" => loc'[u] \in Locals
BY DEF Goto, TypeOK

LEMMA NothingWritten ==
    ASSUME TypeOK, blocks' = blocks, NEW b \in BlockIx, NEW k \in Slot
    PROVE  Written(b, k, Neighbor(b, k), Weight(b, k), TimeFirst(b, k), High(b))
BY DEF TypeOK, Written, Neighbor, Weight, TimeFirst, High, EdgeAt

(* A step that reads shared words only.                                    *)
LEMMA LocalStep ==
    ASSUME IInv, NEW t \in Threads, NEW label \in ControlPoints, NEW r \in Locals,
           Goto(t, label, r), blocks' = blocks, next' = next,
           degree' \in Nat, ops' \in 0 .. MaxOps,
           PlaceOf(t)', KnowsOf(t)', SearchedOf(t)',
           Holding(t)' => Holding(t) /\ At(t, r.b, r.k),
           Writing(t)' <=> Writing(t), Writing(t) => loc[t] = r,
           label \in AtTail => pc[t] \in AtTail /\ loc[t].b = r.b,
           pc[t] \in Registering => label \in Registering
    PROVE  IInv'
<1>1. /\ pc'[t] = label /\ loc'[t] = r
      /\ \A u \in Threads : u # t => pc'[u] = pc[u] /\ loc'[u] = loc[u]
      /\ TypeOK'
  BY GotoTyped DEF TypeOK, IInv
<1>2. Typed
  BY Types DEF IInv
<1>3. PICK b \in BlockIx, k \in Slot : b = 1 /\ k = 0
  BY <1>2, BlockSizeAssumption DEF Slot, IInv
<1>4. PICK w, f : w = Weight(b, k) /\ f = TimeFirst(b, k)
  OBVIOUS
<1>5. Written(b, k, Neighbor(b, k), w, f, High(b))
  BY <1>4, NothingWritten DEF IInv
<1>6. \A u \in Threads : u # t => Spares(u, b, k, Neighbor(b, k), w, f, High(b))
  BY <1>1, <1>4 DEF Spares
<1>7. \A u \in Threads : u # t => Apart(t, u)'
  <2> SUFFICES ASSUME NEW u \in Threads, u # t PROVE Apart(t, u)'
    OBVIOUS
  <2>1. Apart(t, u)
    BY DEF IInv
  <2> QED
    BY <1>1, <2>1 DEF Apart, Holding, Writing, At
<1>8. OwnsOf(t)'
  <2>1. OwnsOf(t)
    BY DEF IInv
  <2>2. /\ Holding(t)' => Holding(t) /\ At(t, r.b, r.k)
        /\ \A c, i : TimeFirst(c, i)' = TimeFirst(c, i) /\ Weight(c, i)' = Weight(c, i)
    BY DEF TimeFirst, Weight, EdgeAt
  <2> QED
    BY <1>1, <2>1, <2>2 DEF OwnsOf, At
<1>9. /\ pc[t] \in Registering => pc'[t] \in Registering /\ loc'[t] = loc[t]
      /\ Writing(t) => Writing(t)' /\ loc'[t] = loc[t]
  BY <1>1 DEF Writing, Registering, Updating
<1> QED
  BY <1>1, <1>4, <1>5, <1>6, <1>7, <1>8, <1>9, QuietStep

LEMMA SameBlocks ==
    ASSUME blocks' = blocks
    PROVE  /\ BlockIx' = BlockIx /\ Len(blocks') = Len(blocks)
           /\ \A b : High(b)' = High(b)
           /\ \A b, k : Neighbor(b, k)' = Neighbor(b, k)
BY DEF BlockIx, High, Neighbor, EdgeAt

(* What the invariant says of the thread that takes a step.                *)
LEMMA Mine ==
    ASSUME IInv, NEW t \in Threads
    PROVE  /\ TypeOK /\ Typed /\ Filled /\ 1 \in BlockIx
           /\ PlaceOf(t) /\ OwnsOf(t) /\ KnowsOf(t) /\ SearchedOf(t)
BY Types DEF IInv

LEMMA StartStep == ASSUME IInv, NEW t \in Threads, Start(t) PROVE IInv'
<1>1. PICK d \in Dests, w \in Weights :
          Goto(t, "p1_high", [dest |-> d, weight |-> w, b |-> 1, k |-> 0, endk |-> -1,
                              this |-> NoNeighbor, slotHeld |-> FALSE])
  BY DEF Start
<1>2. PICK r \in Locals : /\ Goto(t, "p1_high", r)
                          /\ r.b = 1 /\ r.k = 0 /\ r.slotHeld = FALSE
  <2>1. PICK r : r = [dest |-> d, weight |-> w, b |-> 1, k |-> 0, endk |-> -1,
                      this |-> NoNeighbor, slotHeld |-> FALSE]
    OBVIOUS
  <2>2. r \in Locals /\ r.b = 1 /\ r.k = 0 /\ r.slotHeld = FALSE
    BY <2>1 DEF Locals
  <2> QED
    BY <1>1, <2>1, <2>2
<1>3. /\ pc[t] = "idle" /\ blocks' = blocks /\ next' = next /\ degree' \in Nat
      /\ ops' \in 0 .. MaxOps
  BY MaxOpsAssumption DEF Start, IInv, TypeOK
<1>4. pc'[t] = "p1_high" /\ loc'[t] = r
  BY <1>2, Mine, GotoTyped DEF ControlPoints
<1>5. PlaceOf(t)' /\ KnowsOf(t)' /\ SearchedOf(t)'
  BY <1>2, <1>3, <1>4, Mine, SameBlocks, BlockSizeAssumption
  DEF PlaceOf, KnowsOf, SearchedOf, Passed, Registering, Updating
<1> QED
  BY <1>2, <1>3, <1>4, <1>5, LocalStep
  DEF ControlPoints, Holding, Writing, Registering, Updating, AtTail

LEMMA ReadHighStep ==
    ASSUME IInv, NEW t \in Threads, NEW here, NEW there, ReadHigh(t, here, there),
           <<here, there>> \in {<<"p1_high", "p1_scan">>, <<"p2_high", "p2_scan">>}
    PROVE  IInv'
<1>1. /\ pc[t] = here /\ blocks' = blocks /\ next' = next /\ degree' \in Nat
      /\ ops' \in 0 .. MaxOps
  BY DEF ReadHigh, Local, IInv, TypeOK
<1>2. \/ here = "p1_high" /\ there = "p1_scan"
      \/ here = "p2_high" /\ there = "p2_scan"
  OBVIOUS
<1>3. loc[t] \in Locals /\ loc[t].b \in BlockIx /\ ~loc[t].slotHeld
      /\ High(loc[t].b) \in Int
  BY <1>1, <1>2, Mine DEF Typed, PlaceOf, Updating
<1>4. PICK r \in Locals : /\ Goto(t, there, r) /\ r.b = loc[t].b /\ r.k = 0
                          /\ r.slotHeld = FALSE /\ r.dest = loc[t].dest
                          /\ r.endk = High(loc[t].b)
  <2>1. PICK q \in Locals, e \in Int : q = loc[t] /\ e = High(loc[t].b)
    BY <1>3
  <2>2. PICK r : r = [q EXCEPT !.endk = e, !.k = 0]
    OBVIOUS
  <2>3. /\ r \in Locals /\ r.b = q.b /\ r.k = 0 /\ r.slotHeld = q.slotHeld
        /\ r.dest = q.dest /\ r.endk = e
    BY <2>2 DEF Locals
  <2>4. Goto(t, there, r)
    BY <2>1, <2>2 DEF ReadHigh, High
  <2> QED
    BY <1>3, <2>1, <2>3, <2>4
<1>5. pc'[t] = there /\ loc'[t] = r
  BY <1>2, <1>4, Mine, GotoTyped DEF ControlPoints
<1>6. PlaceOf(t)'
  BY <1>1, <1>2, <1>3, <1>4, <1>5, SameBlocks, BlockSizeAssumption
  DEF PlaceOf, Registering, Updating
<1>7. KnowsOf(t)'
  BY <1>2, <1>5 DEF KnowsOf, Registering
<1>8. SearchedOf(t)'
  BY <1>1, <1>2, <1>4, <1>5, Mine, SameBlocks
  DEF SearchedOf, Passed, Slot, Updating, AtTail
<1> QED
  BY <1>1, <1>2, <1>3, <1>4, <1>5, <1>6, <1>7, <1>8, LocalStep
  DEF ControlPoints, Holding, Writing, Registering, Updating, AtTail

LEMMA FirstPassScanStep == ASSUME IInv, NEW t \in Threads, FirstPassScan(t) PROVE IInv'
<1>1. /\ pc[t] = "p1_scan" /\ blocks' = blocks /\ next' = next /\ degree' \in Nat
      /\ ops' \in 0 .. MaxOps
  BY DEF FirstPassScan, Local, IInv, TypeOK
<1>2. PICK b \in BlockIx, k \in Nat : b = loc[t].b /\ k = loc[t].k
  BY <1>1, Mine DEF Typed, PlaceOf
<1>3. /\ loc[t] \in Locals /\ loc[t].slotHeld = FALSE /\ loc[t].endk \in Int
      /\ High(b) \in Int /\ k < loc[t].endk /\ loc[t].endk <= High(b) /\ High(b) <= BlockSize
  BY <1>1, <1>2, Mine DEF FirstPassScan, Typed, PlaceOf, Filled, Updating
<1>4. k \in Slot /\ k < High(b) /\ k \in 0 .. BlockSize /\ k + 1 \in 0 .. BlockSize
  BY <1>3, BlockSizeAssumption DEF Slot
<1>5. CASE Neighbor(b, k) = loc[t].dest
  <2>1. Goto(t, "u_lock", loc[t])
    BY <1>2, <1>5 DEF FirstPassScan, Neighbor
  <2>2. pc'[t] = "u_lock" /\ loc'[t] = loc[t]
    BY <1>3, <2>1, Mine, GotoTyped DEF ControlPoints
  <2>3. PlaceOf(t)'
    BY <1>1, <1>2, <1>3, <1>4, <2>2, SameBlocks DEF PlaceOf, Registering, Updating
  <2>4. KnowsOf(t)'
    BY <1>1, <1>2, <1>3, <1>4, <1>5, <2>2, SameBlocks DEF KnowsOf, Registering
  <2>5. SearchedOf(t)'
    BY <1>3, <2>2 DEF SearchedOf, Passed, Updating
  <2> QED
    BY <1>1, <1>3, <2>1, <2>2, <2>3, <2>4, <2>5, LocalStep
    DEF ControlPoints, Holding, Writing, Registering, Updating, AtTail
<1>6. CASE Neighbor(b, k) # loc[t].dest
  <2>1. PICK r \in Locals : /\ Goto(t, "p1_scan", r) /\ r.b = b /\ r.k = k + 1
                            /\ r.slotHeld = FALSE /\ r.endk = loc[t].endk
    BY <1>2, <1>3, <1>6 DEF FirstPassScan, Neighbor, Locals
  <2>2. pc'[t] = "p1_scan" /\ loc'[t] = r
    BY <2>1, Mine, GotoTyped DEF ControlPoints
  <2>3. PlaceOf(t)' /\ KnowsOf(t)' /\ SearchedOf(t)'
    BY <1>1, <1>2, <1>3, <1>4, <2>1, <2>2, SameBlocks
    DEF PlaceOf, KnowsOf, SearchedOf, Passed, Registering, Updating
  <2> QED
    BY <1>1, <2>1, <2>2, <2>3, LocalStep
    DEF ControlPoints, Holding, Writing, Registering, Updating, AtTail
<1> QED
  BY <1>5, <1>6

LEMMA FirstPassNextBlockStep ==
    ASSUME IInv, NEW t \in Threads, FirstPassNextBlock(t) PROVE IInv'
<1>1. /\ pc[t] = "p1_scan" /\ blocks' = blocks /\ next' = next /\ degree' \in Nat
      /\ ops' \in 0 .. MaxOps
  BY DEF FirstPassNextBlock, Local, IInv, TypeOK
<1>2. /\ loc[t] \in Locals /\ loc[t].slotHeld = FALSE
      /\ loc[t].b \in BlockIx /\ loc[t].k \in 0 .. BlockSize
  BY <1>1, Mine DEF Typed, PlaceOf, Updating
<1>3. PICK b, label : /\ b = IF IsLast(loc[t].b) THEN 1 ELSE loc[t].b + 1
                      /\ label = IF IsLast(loc[t].b) THEN "p2_high" ELSE "p1_high"
  OBVIOUS
<1>4. b \in BlockIx /\ b \in Nat /\ (label = "p1_high" \/ (label = "p2_high" /\ b = 1))
  BY <1>2, <1>3, Mine DEF IsLast, BlockIx, Typed
<1>5. PICK r \in Locals : /\ Goto(t, label, r) /\ r.b = b /\ r.k = loc[t].k
                          /\ r.slotHeld = FALSE
  <2>1. PICK q \in Locals : q = loc[t]
    BY <1>2
  <2>2. PICK r : r = [q EXCEPT !.b = b]
    OBVIOUS
  <2>3. r \in Locals /\ r.b = b /\ r.k = q.k /\ r.slotHeld = q.slotHeld
    BY <1>4, <2>2 DEF Locals
  <2>4. Goto(t, label, r)
    BY <1>3, <2>1, <2>2 DEF FirstPassNextBlock
  <2> QED
    BY <1>2, <2>1, <2>3, <2>4
<1>6. pc'[t] = label /\ loc'[t] = r
  BY <1>4, <1>5, Mine, GotoTyped DEF ControlPoints
<1>7. PlaceOf(t)' /\ KnowsOf(t)'
  BY <1>1, <1>2, <1>4, <1>5, <1>6, SameBlocks DEF PlaceOf, KnowsOf, Registering, Updating
<1>8. SearchedOf(t)'
  <2>1. \A c \in BlockIx, i \in Slot : ~Passed(t, c, i)'
    BY <1>4, <1>5, <1>6 DEF Passed, BlockIx, AtTail
  <2> QED
    BY <1>1, <2>1, SameBlocks DEF SearchedOf
<1> QED
  BY <1>1, <1>4, <1>5, <1>6, <1>7, <1>8, LocalStep
  DEF ControlPoints, Holding, Writing, Registering, Updating, AtTail

LEMMA SecondPassScanStep ==
    ASSUME IInv, NEW t \in Threads, SecondPassScan(t) PROVE IInv'
<1>1. /\ pc[t] = "p2_scan" /\ blocks' = blocks /\ next' = next /\ degree' \in Nat
      /\ ops' \in 0 .. MaxOps
  BY DEF SecondPassScan, Local, IInv, TypeOK
<1>2. PICK b \in BlockIx, k \in Slot : b = loc[t].b /\ k = loc[t].k
  BY <1>1, Mine, BlockSizeAssumption DEF SecondPassScan, Typed, PlaceOf, Slot
<1>3. /\ loc[t] \in Locals /\ loc[t].slotHeld = FALSE /\ loc[t].endk \in Int
      /\ High(b) \in Int /\ loc[t].endk <= High(b) /\ loc[t].dest \in Dests
  BY <1>1, <1>2, Mine DEF Typed, PlaceOf, Updating
<1>4. k \in Nat /\ k \in 0 .. BlockSize /\ k + 1 \in 0 .. BlockSize
  BY BlockSizeAssumption DEF Slot
<1>5. CASE Neighbor(b, k) = loc[t].dest /\ k < loc[t].endk
  <2>1. loc[t].dest # NoNeighbor /\ ~(k >= loc[t].endk)
    BY <1>3, <1>4, <1>5, DestsAssumption DEF NoNeighbor
  <2>2. Goto(t, "u_lock", loc[t])
    BY <1>2, <1>5, <2>1 DEF SecondPassScan, Neighbor
  <2>3. pc'[t] = "u_lock" /\ loc'[t] = loc[t]
    BY <1>3, <2>2, Mine, GotoTyped DEF ControlPoints
  <2>4. PlaceOf(t)'
    BY <1>1, <1>2, <1>3, <1>4, <2>3, SameBlocks DEF PlaceOf, Registering, Updating
  <2>5. k < High(b)
    BY <1>3, <1>4, <1>5
  <2>6. KnowsOf(t)'
    BY <1>1, <1>2, <1>3, <1>5, <2>3, <2>5, SameBlocks DEF KnowsOf, Registering
  <2>7. SearchedOf(t)'
    BY <1>3, <2>3 DEF SearchedOf, Passed, Updating
  <2> QED
    BY <1>1, <1>3, <2>2, <2>3, <2>4, <2>6, <2>7, LocalStep
    DEF ControlPoints, Holding, Writing, Registering, Updating, AtTail
<1>6. CASE Goto(t, "p2_lock", loc[t])
  <2>1. pc'[t] = "p2_lock" /\ loc'[t] = loc[t]
    BY <1>3, <1>6, Mine, GotoTyped DEF ControlPoints
  <2>2. PlaceOf(t)'
    BY <1>1, <1>2, <1>3, <1>4, <2>1, SameBlocks DEF PlaceOf, Registering, Updating
  <2>3. KnowsOf(t)'
    BY <2>1 DEF KnowsOf, Registering
  <2>4. SearchedOf(t)'
    BY <1>1, <2>1, Mine, SameBlocks DEF SearchedOf, Passed, Updating, AtTail
  <2> QED
    BY <1>1, <1>3, <1>6, <2>1, <2>2, <2>3, <2>4, LocalStep
    DEF ControlPoints, Holding, Writing, Registering, Updating, AtTail
<1>7. CASE /\ Neighbor(b, k) \notin {NoNeighbor, loc[t].dest} /\ k < loc[t].endk
           /\ Goto(t, "p2_scan", [loc[t] EXCEPT !.k = @ + 1])
  <2>1. PICK q \in Locals : q = loc[t]
    BY <1>3
  <2>2. PICK r : r = [q EXCEPT !.k = k + 1]
    OBVIOUS
  <2>3. /\ r \in Locals /\ r.b = q.b /\ r.k = k + 1 /\ r.slotHeld = q.slotHeld
        /\ r.dest = q.dest /\ r.endk = q.endk
    BY <1>4, <2>2 DEF Locals
  <2>4. Goto(t, "p2_scan", r)
    BY <1>2, <1>7, <2>1, <2>2
  <2>5. pc'[t] = "p2_scan" /\ loc'[t] = r
    BY <2>3, <2>4, Mine, GotoTyped DEF ControlPoints
  <2>6. PlaceOf(t)'
    BY <1>1, <1>2, <1>3, <1>4, <2>1, <2>3, <2>5, SameBlocks DEF PlaceOf, Registering, Updating
  <2>7. KnowsOf(t)'
    BY <2>5 DEF KnowsOf, Registering
  <2>8. SearchedOf(t)'
    <3> SUFFICES ASSUME NEW c \in BlockIx, NEW i \in Slot, Passed(t, c, i)'
                 PROVE  Neighbor(c, i) \notin {NoNeighbor, loc[t].dest} /\ i < High(c)
      BY <1>1, <2>1, <2>3, <2>5, SameBlocks DEF SearchedOf
    <3>1. c < b \/ (c = b /\ i < k + 1)
      BY <1>2, <2>1, <2>3, <2>5 DEF Passed, AtTail
    <3>2. CASE c = b /\ i = k
      BY <1>3, <1>4, <1>7, <3>2
    <3>3. CASE c < b \/ (c = b /\ i < k)
      BY <1>1, <1>2, <3>3, Mine DEF SearchedOf, Passed, Updating
    <3> QED
      BY <1>4, <3>1, <3>2, <3>3 DEF Slot
  <2> QED
    BY <1>1, <1>3, <2>1, <2>3, <2>4, <2>5, <2>6, <2>7, <2>8, LocalStep
    DEF ControlPoints, Holding, Writing, Registering, Updating, AtTail
<1> QED
  BY <1>2, <1>5, <1>6, <1>7 DEF SecondPassScan, Neighbor

LEMMA SecondPassNextBlockStep ==
    ASSUME IInv, NEW t \in Threads, SecondPassNextBlock(t) PROVE IInv'
<1>1. /\ pc[t] = "p2_scan" /\ blocks' = blocks /\ next' = next /\ degree' \in Nat
      /\ ops' \in 0 .. MaxOps
  BY DEF SecondPassNextBlock, Local, IInv, TypeOK
<1>2. PICK b \in BlockIx : b = loc[t].b
  BY <1>1, Mine DEF PlaceOf
<1>3. /\ loc[t] \in Locals /\ loc[t].slotHeld = FALSE /\ loc[t].k = BlockSize
      /\ b \in Nat /\ BlockSize \in 0 .. BlockSize
  BY <1>1, <1>2, Mine, BlockSizeAssumption DEF SecondPassNextBlock, Typed, PlaceOf, Updating
<1>4. \A c \in BlockIx, i \in Slot : c <= b =>
        Neighbor(c, i) \notin {NoNeighbor, loc[t].dest} /\ i < High(c)
  <2>1. \A c \in BlockIx, i \in Slot : c <= b => Passed(t, c, i)
    BY <1>1, <1>2, <1>3, BlockSizeAssumption DEF Passed, Updating, Slot, BlockIx
  <2> QED
    BY <2>1, Mine DEF SearchedOf
<1>5. CASE IsLast(b)
  <2>1. Goto(t, "t_lock", loc[t])
    BY <1>2, <1>5 DEF SecondPassNextBlock
  <2>2. pc'[t] = "t_lock" /\ loc'[t] = loc[t]
    BY <1>3, <2>1, Mine, GotoTyped DEF ControlPoints
  <2>3. PlaceOf(t)'
    BY <1>1, <1>2, <1>3, <2>2, SameBlocks DEF PlaceOf, Registering, Updating
  <2>4. KnowsOf(t)'
    BY <2>2 DEF KnowsOf, Registering
  <2>5. SearchedOf(t)'
    BY <1>1, <1>2, <1>4, <2>2, SameBlocks DEF SearchedOf, Passed, BlockIx
  <2> QED
    BY <1>1, <1>3, <2>1, <2>2, <2>3, <2>4, <2>5, LocalStep
    DEF ControlPoints, Holding, Writing, Registering, Updating, AtTail
<1>6. CASE ~IsLast(b)
  <2>1. PICK q \in Locals : q = loc[t]
    BY <1>3
  <2>2. PICK r : r = [q EXCEPT !.b = b + 1]
    OBVIOUS
  <2>3. /\ r \in Locals /\ r.b = b + 1 /\ r.k = q.k /\ r.slotHeld = q.slotHeld
        /\ r.dest = q.dest
    BY <1>3, <2>2 DEF Locals
  <2>4. Goto(t, "p2_high", r)
    BY <1>2, <1>6, <2>1, <2>2 DEF SecondPassNextBlock
  <2>5. pc'[t] = "p2_high" /\ loc'[t] = r
    BY <2>3, <2>4, Mine, GotoTyped DEF ControlPoints
  <2>6. b + 1 \in BlockIx
    BY <1>6, Mine DEF IsLast, BlockIx, Typed
  <2>7. PlaceOf(t)'
    BY <1>1, <1>3, <2>1, <2>3, <2>5, <2>6, SameBlocks DEF PlaceOf, Registering, Updating
  <2>8. KnowsOf(t)'
    BY <2>5 DEF KnowsOf, Registering
  <2>9. SearchedOf(t)'
    BY <1>1, <1>3, <1>4, <2>1, <2>3, <2>5, SameBlocks DEF SearchedOf, Passed, BlockIx, AtTail
  <2> QED
    BY <1>1, <1>3, <2>1, <2>3, <2>4, <2>5, <2>7, <2>8, <2>9, LocalStep
    DEF ControlPoints, Holding, Writing, Registering, Updating, AtTail
<1> QED
  BY <1>5, <1>6

LEMMA ReadThisStep == ASSUME IInv, NEW t \in Threads, ReadThis(t) PROVE IInv'
<1>1. /\ pc[t] = "p2_this" /\ blocks' = blocks /\ next' = next /\ degree' \in Nat
      /\ ops' \in 0 .. MaxOps
  BY DEF ReadThis, Local, IInv, TypeOK
<1>2. PICK b \in BlockIx, k \in Slot : b = loc[t].b /\ k = loc[t].k
  BY <1>1, Mine DEF PlaceOf
<1>3. PICK q \in Locals : q = loc[t] /\ q.slotHeld = TRUE
  BY <1>1, Mine DEF Typed, PlaceOf
<1>4. k \in 0 .. BlockSize /\ Neighbor(b, k) \in Dests \cup {NoNeighbor}
  BY <1>2, Mine, BlockSizeAssumption DEF Slot, Typed
<1>5. PICK r : r = [q EXCEPT !.this = Neighbor(b, k)]
  OBVIOUS
<1>6. /\ r \in Locals /\ r.b = q.b /\ r.k = q.k /\ r.slotHeld = TRUE
      /\ r.dest = q.dest /\ r.this = Neighbor(b, k)
  BY <1>3, <1>4, <1>5 DEF Locals
<1>7. Goto(t, "p2_recheck", r)
  BY <1>2, <1>3, <1>5 DEF ReadThis, Neighbor
<1>8. pc'[t] = "p2_recheck" /\ loc'[t] = r
  BY <1>6, <1>7, Mine, GotoTyped DEF ControlPoints
<1>9. PlaceOf(t)'
  BY <1>1, <1>2, <1>3, <1>4, <1>6, <1>8, SameBlocks DEF PlaceOf, Registering, Updating
<1>10. KnowsOf(t)'
  BY <1>1, <1>2, <1>3, <1>6, <1>8, SameBlocks DEF KnowsOf, Registering
<1>11. SearchedOf(t)'
  BY <1>1, <1>3, <1>6, <1>8, Mine, SameBlocks DEF SearchedOf, Passed, Updating, AtTail
<1> QED
  BY <1>1, <1>3, <1>6, <1>7, <1>8, <1>9, <1>10, <1>11, LocalStep
  DEF ControlPoints, Holding, Writing, At, Registering, Updating, AtTail

(* A slot in use at or above the mark is held by the thread that registers *)
(* its edge.                                                               *)
LEMMA HeldSlotBelowMark ==
    ASSUME IInv, NEW t \in Threads, Holding(t), pc[t] \notin Registering,
           NEW b \in BlockIx, NEW k \in Slot, At(t, b, k),
           Neighbor(b, k) # NoNeighbor
    PROVE  k < High(b)
<1>1. High(b) \in Int /\ k \in Int
  BY Mine DEF Typed, Slot
<1> SUFFICES ASSUME High(b) <= k PROVE FALSE
  BY <1>1
<1>2. PICK u \in Threads : pc[u] \in Registering /\ At(u, b, k)
  BY Mine DEF Filled
<1>3. u # t /\ Holding(u)
  BY <1>2, Mine DEF PlaceOf, Holding, Registering
<1> QED
  BY <1>2, <1>3 DEF IInv, Apart, At

LEMMA TestNewStep == ASSUME IInv, NEW t \in Threads, TestNew(t) PROVE IInv'
<1>1. /\ pc[t] = "u_test" /\ blocks' = blocks /\ next' = next /\ degree' \in Nat
      /\ ops' \in 0 .. MaxOps
  BY DEF TestNew, Local, IInv, TypeOK
<1>2. PICK b \in BlockIx, k \in Slot : b = loc[t].b /\ k = loc[t].k
  BY <1>1, Mine DEF PlaceOf, Updating
<1>3. PICK q \in Locals : q = loc[t]
  BY <1>1, Mine DEF Typed
<1>4. k \in 0 .. BlockSize /\ k \in Int /\ High(b) \in Int /\ q.dest # NoNeighbor
  BY <1>1, <1>3, Mine, BlockSizeAssumption, DestsAssumption DEF Slot, Typed, NoNeighbor
<1>5. IF q.slotHeld THEN Neighbor(b, k) \in {NoNeighbor, q.dest}
      ELSE Neighbor(b, k) = q.dest /\ k < High(b)
  BY <1>1, <1>2, <1>3, Mine DEF KnowsOf
<1>6. CASE Neighbor(b, k) = NoNeighbor \/ k >= High(b)
  <2>1. Goto(t, "u_neighbor", q)
    BY <1>2, <1>3, <1>6 DEF TestNew, Neighbor, High
  <2>2. pc'[t] = "u_neighbor" /\ loc'[t] = q
    BY <1>3, <2>1, Mine, GotoTyped DEF ControlPoints
  <2>3. ~(k < High(b)) \/ Neighbor(b, k) = NoNeighbor
    BY <1>4, <1>6
  <2>4. q.slotHeld
    BY <1>4, <1>5, <2>3
  <2>5. Neighbor(b, k) = NoNeighbor
    BY <1>1, <1>2, <1>3, <2>3, <2>4, HeldSlotBelowMark DEF Holding, At, Registering
  <2>6. PlaceOf(t)'
    BY <1>1, <1>2, <1>3, <1>4, <2>2, <2>4, SameBlocks DEF PlaceOf, Registering, Updating
  <2>7. KnowsOf(t)'
    BY <1>1, <1>2, <1>3, <2>2, <2>5, SameBlocks DEF KnowsOf, Registering
  <2>8. SearchedOf(t)'
    BY <1>1, <1>3, <2>2, Mine, SameBlocks DEF SearchedOf, Passed, Updating, AtTail
  <2> QED
    BY <1>1, <1>3, <2>1, <2>2, <2>6, <2>7, <2>8, LocalStep
    DEF ControlPoints, Holding, Writing, At, Registering, Updating, AtTail
<1>7. CASE ~(Neighbor(b, k) = NoNeighbor \/ k >= High(b))
  <2>1. Goto(t, "u_unlock", q)
    BY <1>2, <1>3, <1>7 DEF TestNew, Neighbor, High
  <2>2. pc'[t] = "u_unlock" /\ loc'[t] = q
    BY <1>3, <2>1, Mine, GotoTyped DEF ControlPoints
  <2>3. Neighbor(b, k) = q.dest /\ k < High(b)
    BY <1>4, <1>5, <1>7
  <2>4. PlaceOf(t)'
    BY <1>1, <1>2, <1>3, <1>4, <2>2, SameBlocks DEF PlaceOf, Registering, Updating
  <2>5. KnowsOf(t)'
    BY <1>1, <1>2, <1>3, <2>2, <2>3, SameBlocks DEF KnowsOf, Registering
  <2>6. SearchedOf(t)'
    BY <1>1, <1>3, <2>2, Mine, SameBlocks DEF SearchedOf, Passed, Updating, AtTail
  <2> QED
    BY <1>1, <1>3, <2>1, <2>2, <2>4, <2>5, <2>6, LocalStep
    DEF ControlPoints, Holding, Writing, At, Registering, Updating, AtTail
<1> QED
  BY <1>6, <1>7

(* The steps that move on with the registration, the slot and what is      *)
(* known of it being the same.                                             *)
LEMMA RegisteringStep ==
    ASSUME IInv, NEW t \in Threads, pc[t] \in Registering, NEW label \in Registering,
           Goto(t, label, loc[t]), blocks' = blocks, next' = next,
           degree' \in Nat, ops' \in 0 .. MaxOps
    PROVE  IInv'
<1>1. loc[t] \in Locals /\ label \in ControlPoints
  BY Mine DEF Typed, Registering, ControlPoints
<1>2. pc'[t] = label /\ loc'[t] = loc[t]
  BY <1>1, Mine, GotoTyped
<1>3. PlaceOf(t)'
  BY <1>2, Mine, SameBlocks DEF PlaceOf, Registering, Updating
<1>4. KnowsOf(t)'
  BY <1>2, Mine, SameBlocks DEF KnowsOf, Registering
<1>5. SearchedOf(t)'
  BY <1>2, Mine, SameBlocks DEF SearchedOf, Passed, Registering, Updating, AtTail
<1> QED
  BY <1>1, <1>2, <1>3, <1>4, <1>5, LocalStep
  DEF Holding, Writing, At, Registering, Updating, AtTail

LEMMA CountDegreeStep == ASSUME IInv, NEW t \in Threads, CountDegree(t) PROVE IInv'
<1>1. /\ pc[t] = "u_degree" /\ Goto(t, "u_high", loc[t]) /\ blocks' = blocks /\ next' = next
      /\ degree' \in Nat /\ ops' \in 0 .. MaxOps
  BY DEF CountDegree, IInv, TypeOK
<1> QED
  BY <1>1, RegisteringStep DEF Registering

LEMMA TestHighStep == ASSUME IInv, NEW t \in Threads, TestHigh(t) PROVE IInv'
<1>1. /\ pc[t] = "u_high" /\ blocks' = blocks /\ next' = next
      /\ degree' \in Nat /\ ops' \in 0 .. MaxOps
  BY DEF TestHigh, Local, IInv, TypeOK
<1>2. /\ High(loc[t].b) \in Int /\ loc[t].k \in Nat /\ High(loc[t].b) <= loc[t].k
  BY <1>1, Mine DEF Typed, PlaceOf, KnowsOf, Registering
<1>3. loc[t].k >= High(loc[t].b)
  BY <1>2
<1>4. Goto(t, "u_raise", loc[t])
  BY <1>3 DEF TestHigh, High
<1> QED
  BY <1>1, <1>4, RegisteringStep DEF Registering

LEMMA FillNewBlockStep == ASSUME IInv, NEW t \in Threads, FillNewBlock(t) PROVE IInv'
<1>1. /\ pc[t] = "t_new" /\ Goto(t, "t_publish", loc[t]) /\ blocks' = blocks /\ next' = next
      /\ degree' \in Nat /\ ops' \in 0 .. MaxOps /\ loc[t] \in Locals
  BY DEF FillNewBlock, IInv, TypeOK
<1>2. pc'[t] = "t_publish" /\ loc'[t] = loc[t]
  BY <1>1, Mine, GotoTyped DEF ControlPoints
<1>3. PlaceOf(t)'
  BY <1>1, <1>2, Mine, SameBlocks DEF PlaceOf, Registering, Updating
<1>4. KnowsOf(t)'
  BY <1>2 DEF KnowsOf, Registering
<1>5. SearchedOf(t)'
  BY <1>1, <1>2, Mine, SameBlocks DEF SearchedOf, Passed, Updating, AtTail
<1> QED
  BY <1>1, <1>2, <1>3, <1>4, <1>5, LocalStep
  DEF ControlPoints, Holding, Writing, At, Registering, Updating, AtTail

-----------------------------------------------------------------------------
(* The steps that write a shared word, but for a neighbour or a mark.      *)
LEMMA TypesKept ==
    ASSUME TypeOK, NEW t \in Threads, NEW label \in ControlPoints, NEW r,
           Goto(t, label, r), r \in Locals \/ (r = <<>> /\ label = "idle"),
           blocks' \in Seq(Block), Len(blocks') = Len(blocks),
           next' \in [DOMAIN blocks -> {"ptr", "MARKER"}],
           degree' = degree, ops' = ops
    PROVE  TypeOK'
<1>1. DOMAIN blocks' = DOMAIN blocks
  BY LenProperties DEF TypeOK
<1> QED
  BY <1>1, GotoTyped DEF TypeOK

LEMMA LockSlotStep == ASSUME IInv, NEW t \in Threads, LockSlot(t) PROVE IInv'
<1>1. pc[t] = "p2_lock" /\ next' = next /\ degree' = degree /\ ops' = ops
  BY DEF LockSlot
<1>2. PICK b \in BlockIx, k \in Slot : b = loc[t].b /\ k = loc[t].k
  BY <1>1, Mine DEF PlaceOf
<1>3. PICK q \in Locals : q = loc[t]
  BY <1>1, Mine DEF Typed
<1>4. PICK r : r = [q EXCEPT !.slotHeld = TRUE]
  OBVIOUS
<1>5. r \in Locals /\ r.b = b /\ r.k = k /\ r.slotHeld = TRUE /\ r.dest = q.dest
  BY <1>2, <1>3, <1>4 DEF Locals
<1>6. Goto(t, "p2_this", r) /\ TimeFirst(b, k) # MARKER
  BY <1>2, <1>3, <1>4 DEF LockSlot, TimeFirst
<1>7. Written(b, k, Neighbor(b, k), Weight(b, k), MARKER, High(b))
  BY <1>2, Mine, WriteForms DEF LockSlot, Typed
<1>8. /\ pc'[t] = "p2_this" /\ loc'[t] = r
      /\ \A u \in Threads : u # t => pc'[u] = pc[u] /\ loc'[u] = loc[u]
  BY <1>5, <1>6, Mine, GotoTyped DEF ControlPoints
<1>9. TypeOK'
  BY <1>1, <1>5, <1>6, <1>7, Mine, TypesKept DEF ControlPoints, Written, TypeOK
<1>10. /\ BlockIx' = BlockIx /\ Len(blocks') = Len(blocks)
       /\ \A c \in BlockIx : High(c)' = High(c)
       /\ \A c \in BlockIx, i \in Slot : Neighbor(c, i)' = Neighbor(c, i)
       /\ TimeFirst(b, k)' = MARKER
  BY <1>7 DEF Written, BlockIx
<1>11. \A u \in Threads : u # t => ~(Holding(u) /\ At(u, b, k))
  BY <1>6, Mine DEF OwnsOf, At
<1>12. \A u \in Threads : u # t =>
         Spares(u, b, k, Neighbor(b, k), Weight(b, k), MARKER, High(b))
  BY <1>1, <1>8, <1>11 DEF Spares
<1>13. \A u \in Threads : u # t => Apart(t, u)'
  BY <1>5, <1>8, <1>11 DEF Apart, Holding, Writing, At, Updating, AtTail
<1>14. k \in 0 .. BlockSize
  BY BlockSizeAssumption DEF Slot
<1>15. PlaceOf(t)'
  BY <1>5, <1>8, <1>10, <1>14 DEF PlaceOf, Registering, Updating
<1>16. OwnsOf(t)' /\ KnowsOf(t)'
  BY <1>5, <1>8, <1>10 DEF OwnsOf, KnowsOf, Writing, Registering, Updating, AtTail
<1>17. SearchedOf(t)'
  BY <1>1, <1>2, <1>3, <1>5, <1>8, <1>10, Mine DEF SearchedOf, Passed, Updating, AtTail
<1> QED
  BY <1>1, <1>7, <1>9, <1>12, <1>13, <1>15, <1>16, <1>17, QuietStep
  DEF Writing, Registering, Updating

LEMMA RecheckStep == ASSUME IInv, NEW t \in Threads, Recheck(t) PROVE IInv'
<1>1. pc[t] = "p2_recheck" /\ next' = next /\ degree' = degree /\ ops' = ops
  BY DEF Recheck
<1>2. PICK b \in BlockIx, k \in Slot : b = loc[t].b /\ k = loc[t].k
  BY <1>1, Mine DEF PlaceOf
<1>3. PICK q \in Locals : q = loc[t] /\ q.slotHeld = TRUE /\ q.this = Neighbor(b, k)
  BY <1>1, <1>2, Mine DEF Typed, PlaceOf, KnowsOf
<1>4. /\ High(b) \in Int /\ k \in Nat /\ k \in 0 .. BlockSize /\ k + 1 \in 0 .. BlockSize
      /\ q.dest # NoNeighbor
  BY <1>1, <1>3, Mine, BlockSizeAssumption, DestsAssumption DEF Slot, Typed, NoNeighbor
<1>5. PICK r : r = [q EXCEPT !.endk = High(b)]
  OBVIOUS
<1>6. /\ r \in Locals /\ r.b = b /\ r.k = k /\ r.slotHeld = TRUE /\ r.dest = q.dest
      /\ r.this = q.this /\ r.endk = High(b)
  BY <1>2, <1>3, <1>4, <1>5 DEF Locals
<1>7. \/ /\ r.this \in {NoNeighbor, r.dest} \/ r.k >= r.endk
         /\ Goto(t, "u_lock", r)
         /\ UNCHANGED blocks
      \/ /\ r.this \notin {NoNeighbor, r.dest} /\ r.k < r.endk
         /\ blocks' = [blocks EXCEPT ![r.b].edges[r.k].timeFirst = 0]
         /\ Goto(t, "p2_scan", [r EXCEPT !.k = @ + 1, !.slotHeld = FALSE])
  BY <1>2, <1>3, <1>5 DEF Recheck, High
<1>8. Neighbor(b, k) # NoNeighbor => k < High(b)
  BY <1>1, <1>2, <1>3, HeldSlotBelowMark DEF Holding, At, Registering
<1>9. CASE /\ r.this \in {NoNeighbor, r.dest} \/ r.k >= r.endk
           /\ Goto(t, "u_lock", r)
           /\ UNCHANGED blocks
  <2>1. pc'[t] = "u_lock" /\ loc'[t] = r
    BY <1>6, <1>9, Mine, GotoTyped DEF ControlPoints
  <2>2. Neighbor(b, k) \in {NoNeighbor, r.dest}
    BY <1>3, <1>4, <1>6, <1>8, <1>9
  <2>3. PlaceOf(t)'
    BY <1>2, <1>4, <1>6, <1>9, <2>1, SameBlocks DEF PlaceOf, Registering, Updating
  <2>4. KnowsOf(t)'
    BY <1>6, <1>9, <2>1, <2>2, SameBlocks DEF KnowsOf, Registering
  <2>5. SearchedOf(t)'
    BY <1>1, <1>2, <1>3, <1>6, <1>9, <2>1, Mine, SameBlocks
    DEF SearchedOf, Passed, Updating, AtTail
  <2>6. degree' \in Nat /\ ops' \in 0 .. MaxOps
    BY <1>1, Mine DEF TypeOK
  <2> QED
    BY <1>1, <1>2, <1>3, <1>6, <1>9, <2>1, <2>3, <2>4, <2>5, <2>6, LocalStep
    DEF ControlPoints, Holding, Writing, At, Registering, Updating, AtTail
<1>10. CASE /\ r.this \notin {NoNeighbor, r.dest} /\ r.k < r.endk
            /\ blocks' = [blocks EXCEPT ![r.b].edges[r.k].timeFirst = 0]
            /\ Goto(t, "p2_scan", [r EXCEPT !.k = @ + 1, !.slotHeld = FALSE])
  <2>1. PICK m : m = [r EXCEPT !.k = k + 1]
    OBVIOUS
  <2>2. m \in Locals /\ m.b = r.b /\ m.k = k + 1 /\ m.dest = r.dest /\ m.endk = r.endk
    BY <1>4, <1>6, <2>1 DEF Locals
  <2>3. PICK v : v = [m EXCEPT !.slotHeld = FALSE]
    OBVIOUS
  <2>4. /\ v \in Locals /\ v.b = b /\ v.k = k + 1 /\ v.slotHeld = FALSE /\ v.dest = q.dest
        /\ v.endk = High(b)
    <3>1. /\ v \in Locals /\ v.b = m.b /\ v.k = m.k /\ v.slotHeld = FALSE
          /\ v.dest = m.dest /\ v.endk = m.endk
      BY <2>2, <2>3 DEF Locals
    <3> QED
      BY <1>6, <2>2, <3>1
  <2>5. Goto(t, "p2_scan", v)
    BY <1>6, <1>10, <2>1, <2>3
  <2>6. Written(b, k, Neighbor(b, k), Weight(b, k), 0, High(b))
    BY <1>6, <1>10, Mine, WriteForms DEF Typed
  <2>7. /\ pc'[t] = "p2_scan" /\ loc'[t] = v
        /\ \A u \in Threads : u # t => pc'[u] = pc[u] /\ loc'[u] = loc[u]
    BY <2>4, <2>5, Mine, GotoTyped DEF ControlPoints
  <2>8. TypeOK'
    BY <1>1, <2>4, <2>5, <2>6, Mine, TypesKept DEF ControlPoints, Written, TypeOK
  <2>9. /\ BlockIx' = BlockIx /\ Len(blocks') = Len(blocks)
        /\ \A c \in BlockIx : High(c)' = High(c)
        /\ \A c \in BlockIx, i \in Slot : Neighbor(c, i)' = Neighbor(c, i)
    BY <2>6 DEF Written, BlockIx
  <2>10. \A u \in Threads : u # t => ~(Holding(u) /\ At(u, b, k))
    BY <1>1, <1>2, <1>3 DEF IInv, Apart, Holding, At
  <2>11. \A u \in Threads : u # t =>
          Spares(u, b, k, Neighbor(b, k), Weight(b, k), 0, High(b))
    BY <1>1, <2>7, <2>10 DEF Spares
  <2>12. \A u \in Threads : u # t => Apart(t, u)'
    BY <2>4, <2>7 DEF Apart, Holding, Writing, Updating, AtTail
  <2>13. PlaceOf(t)'
    <3>1. High(b) <= High(b)'
      BY <1>4, <2>9
    <3> QED
      BY <1>4, <2>4, <2>7, <2>9, <3>1 DEF PlaceOf, Registering, Updating
  <2>14. OwnsOf(t)' /\ KnowsOf(t)'
    BY <2>4, <2>7 DEF OwnsOf, KnowsOf, Holding, Writing, Registering, Updating, AtTail
  <2>15. SearchedOf(t)'
    <3> SUFFICES ASSUME NEW c \in BlockIx, NEW i \in Slot, Passed(t, c, i)'
                 PROVE  Neighbor(c, i) \notin {NoNeighbor, q.dest} /\ i < High(c)
      BY <2>4, <2>7, <2>9 DEF SearchedOf
    <3>1. c < b \/ (c = b /\ i < k + 1)
      BY <2>4, <2>7 DEF Passed, AtTail
    <3>2. CASE c = b /\ i = k
      BY <1>3, <1>4, <1>6, <1>10, <3>2
    <3>3. CASE c < b \/ (c = b /\ i < k)
      BY <1>1, <1>2, <1>3, <3>3, Mine DEF SearchedOf, Passed, Updating
    <3> QED
      BY <1>4, <3>1, <3>2, <3>3 DEF Slot
  <2> QED
    BY <1>1, <2>6, <2>8, <2>11, <2>12, <2>13, <2>14, <2>15, QuietStep
    DEF Writing, Registering, Updating
<1> QED
  BY <1>7, <1>9, <1>10

LEMMA LockWeightStep == ASSUME IInv, NEW t \in Threads, LockWeight(t) PROVE IInv'
<1>1. pc[t] = "u_lock" /\ next' = next /\ degree' = degree /\ ops' = ops
  BY DEF LockWeight
<1>2. PICK b \in BlockIx, k \in Slot : b = loc[t].b /\ k = loc[t].k
  BY <1>1, Mine DEF PlaceOf, Updating
<1>3. loc[t] \in Locals /\ Goto(t, "u_test", loc[t]) /\ Weight(b, k) # MARKER
  BY <1>1, <1>2, Mine DEF Typed, LockWeight, Weight
<1>4. Written(b, k, Neighbor(b, k), MARKER, TimeFirst(b, k), High(b))
  BY <1>2, Mine, WriteForms DEF LockWeight, Typed
<1>5. /\ pc'[t] = "u_test" /\ loc'[t] = loc[t]
      /\ \A u \in Threads : u # t => pc'[u] = pc[u] /\ loc'[u] = loc[u]
  BY <1>3, Mine, GotoTyped DEF ControlPoints
<1>6. TypeOK'
  BY <1>1, <1>3, <1>4, Mine, TypesKept DEF ControlPoints, Written, TypeOK
<1>7. /\ BlockIx' = BlockIx /\ Len(blocks') = Len(blocks)
      /\ \A c \in BlockIx : High(c)' = High(c)
      /\ \A c \in BlockIx, i \in Slot : Neighbor(c, i)' = Neighbor(c, i)
      /\ TimeFirst(b, k)' = TimeFirst(b, k) /\ Weight(b, k)' = MARKER
  BY <1>4 DEF Written, BlockIx
<1>8. \A u \in Threads : u # t => ~(Writing(u) /\ At(u, b, k))
  BY <1>3, Mine DEF OwnsOf, At
<1>9. \A u \in Threads : u # t =>
        Spares(u, b, k, Neighbor(b, k), MARKER, TimeFirst(b, k), High(b))
  BY <1>1, <1>5, <1>8 DEF Spares
<1>10. \A u \in Threads : u # t => Apart(t, u)'
  <2> SUFFICES ASSUME NEW u \in Threads, u # t PROVE Apart(t, u)'
    OBVIOUS
  <2>1. Apart(t, u)
    BY DEF IInv
  <2> QED
    BY <1>1, <1>2, <1>5, <1>8, <2>1 DEF Apart, Holding, Writing, At, AtTail
<1>11. PlaceOf(t)'
  BY <1>1, <1>5, <1>7, Mine DEF PlaceOf, Registering, Updating
<1>12. OwnsOf(t)'
  BY <1>1, <1>2, <1>5, <1>7, Mine DEF OwnsOf, Holding, AtTail
<1>13. KnowsOf(t)'
  BY <1>1, <1>2, <1>5, <1>7, Mine DEF KnowsOf, Registering
<1>14. SearchedOf(t)'
  BY <1>1, <1>5, <1>7, Mine DEF SearchedOf, Passed, Updating, AtTail
<1>15. Writing(t)' /\ At(t, b, k)' /\ ~Writing(t)
  BY <1>1, <1>2, <1>5 DEF Writing, At, Updating
<1> QED
  BY <1>1, <1>4, <1>6, <1>9, <1>10, <1>11, <1>12, <1>13, <1>14, <1>15, QuietStep
  DEF Registering

LEMMA CountInBlockStep == ASSUME IInv, NEW t \in Threads, CountInBlock(t) PROVE IInv'
<1>1. pc[t] = "u_numEdges" /\ next' = next /\ degree' = degree /\ ops' = ops
  BY DEF CountInBlock
<1>2. PICK b \in BlockIx, k \in Slot : b = loc[t].b /\ k = loc[t].k
  BY <1>1, Mine DEF PlaceOf, Updating
<1>3. loc[t] \in Locals /\ Goto(t, "u_degree", loc[t])
  BY <1>1, Mine DEF Typed, CountInBlock
<1>4. Written(b, k, Neighbor(b, k), Weight(b, k), TimeFirst(b, k), High(b))
  BY <1>2, Mine, WriteForms DEF CountInBlock, Typed
<1>5. /\ pc'[t] = "u_degree" /\ loc'[t] = loc[t]
      /\ \A u \in Threads : u # t => pc'[u] = pc[u] /\ loc'[u] = loc[u]
  BY <1>3, Mine, GotoTyped DEF ControlPoints
<1>6. TypeOK'
  BY <1>1, <1>3, <1>4, Mine, TypesKept DEF ControlPoints, Written, TypeOK
<1>7. /\ BlockIx' = BlockIx /\ Len(blocks') = Len(blocks)
      /\ \A c \in BlockIx : High(c)' = High(c)
      /\ \A c \in BlockIx, i \in Slot : Neighbor(c, i)' = Neighbor(c, i)
      /\ TimeFirst(b, k)' = TimeFirst(b, k) /\ Weight(b, k)' = Weight(b, k)
  BY <1>4 DEF Written, BlockIx
<1>8. \A u \in Threads : u # t =>
        Spares(u, b, k, Neighbor(b, k), Weight(b, k), TimeFirst(b, k), High(b))
  BY <1>1, <1>5 DEF Spares
<1>9. \A u \in Threads : u # t => Apart(t, u)'
  <2> SUFFICES ASSUME NEW u \in Threads, u # t PROVE Apart(t, u)'
    OBVIOUS
  <2>1. Apart(t, u)
    BY DEF IInv
  <2> QED
    BY <1>1, <1>5, <2>1 DEF Apart, Holding, Writing, At, Updating, AtTail
<1>10. PlaceOf(t)'
  BY <1>1, <1>5, <1>7, Mine DEF PlaceOf, Registering, Updating
<1>11. OwnsOf(t)'
  BY <1>1, <1>2, <1>5, <1>7, Mine DEF OwnsOf, Holding, Writing, Updating, AtTail
<1>12. KnowsOf(t)'
  BY <1>1, <1>2, <1>5, <1>7, Mine DEF KnowsOf, Registering
<1>13. SearchedOf(t)'
  BY <1>1, <1>5, <1>7, Mine DEF SearchedOf, Passed, Updating, AtTail
<1> QED
  BY <1>1, <1>4, <1>5, <1>6, <1>8, <1>9, <1>10, <1>11, <1>12, <1>13, QuietStep
  DEF Writing, Registering, Updating

LEMMA WriteWeightStep == ASSUME IInv, NEW t \in Threads, WriteWeight(t) PROVE IInv'
<1>1. pc[t] = "u_unlock" /\ next' = next /\ degree' = degree /\ ops' = ops
  BY DEF WriteWeight
<1>2. PICK b \in BlockIx, k \in Slot : b = loc[t].b /\ k = loc[t].k
  BY <1>1, Mine DEF PlaceOf, Updating
<1>3. PICK q \in Locals : q = loc[t] /\ q.weight \in Weights
  BY <1>1, Mine DEF Typed
<1>4. PICK f \in {0, MARKER} : f = IF q.slotHeld THEN 0 ELSE TimeFirst(b, k)
  BY Mine DEF Typed
<1>5. blocks' = [blocks EXCEPT ![b].edges[k] =
                   [@ EXCEPT !.weight = q.weight, !.timeFirst = f]]
  BY <1>2, <1>3, <1>4 DEF WriteWeight, TimeFirst
<1>6. Written(b, k, Neighbor(b, k), q.weight, f, High(b))
  BY <1>3, <1>5, Mine, WriteForms DEF Typed
<1>7. /\ Goto(t, "idle", <<>>) /\ pc'[t] = "idle"
      /\ \A u \in Threads : u # t => pc'[u] = pc[u] /\ loc'[u] = loc[u]
  BY Mine, GotoTyped DEF WriteWeight, ControlPoints
<1>8. TypeOK'
  BY <1>1, <1>6, <1>7, Mine, TypesKept DEF ControlPoints, Written, TypeOK
<1>9. Writing(t) /\ At(t, b, k) /\ (q.slotHeld => Holding(t))
  BY <1>1, <1>2, <1>3 DEF Writing, Updating, At, Holding
<1>10. \A u \in Threads : u # t => Spares(u, b, k, Neighbor(b, k), q.weight, f, High(b))
  <2> SUFFICES ASSUME NEW u \in Threads, u # t
               PROVE  Spares(u, b, k, Neighbor(b, k), q.weight, f, High(b))
    OBVIOUS
  <2>1. Apart(t, u)
    BY DEF IInv
  <2>2. ~(Writing(u) /\ At(u, b, k))
    BY <1>9, <2>1 DEF Apart, At
  <2>3. Holding(u) /\ At(u, b, k) => f = TimeFirst(b, k)
    BY <1>4, <1>9, <2>1 DEF Apart, At
  <2> QED
    BY <1>1, <1>7, <2>2, <2>3 DEF Spares
<1>11. \A u \in Threads : u # t => Apart(t, u)'
  BY <1>7 DEF Apart, Holding, Writing, Updating, AtTail
<1>12. PlaceOf(t)' /\ OwnsOf(t)' /\ KnowsOf(t)' /\ SearchedOf(t)'
  BY <1>7 DEF PlaceOf, OwnsOf, KnowsOf, SearchedOf, Passed, Holding, Writing, Registering,
              Updating, AtTail
<1> QED
  BY <1>1, <1>3, <1>6, <1>8, <1>9, <1>10, <1>11, <1>12, QuietStep DEF Registering

LEMMA LockTailStep == ASSUME IInv, NEW t \in Threads, LockTail(t) PROVE IInv'
<1>1. /\ pc[t] = "t_lock" /\ blocks' = blocks /\ degree' = degree /\ ops' = ops
  BY DEF LockTail
<1>2. PICK b \in BlockIx : b = loc[t].b
  BY <1>1, Mine DEF PlaceOf
<1>3. PICK k \in Slot : k = 0
  BY BlockSizeAssumption DEF Slot
<1>4. PICK label : label = IF IsLast(b) THEN "t_new" ELSE "t_putback"
  OBVIOUS
<1>5. /\ loc[t] \in Locals /\ Goto(t, label, loc[t]) /\ loc[t].slotHeld = FALSE
      /\ next[b] = "ptr" /\ next' = [next EXCEPT ![b] = "MARKER"]
  BY <1>1, <1>2, <1>4, Mine DEF Typed, LockTail, NextIsFull, PlaceOf, Updating
<1>6. \/ label = "t_new" /\ b = Len(blocks)
      \/ label = "t_putback" /\ b < Len(blocks)
  BY <1>2, <1>4, Mine DEF IsLast, BlockIx, Typed
<1>7. /\ pc'[t] = label /\ loc'[t] = loc[t]
      /\ \A u \in Threads : u # t => pc'[u] = pc[u] /\ loc'[u] = loc[u]
  BY <1>5, <1>6, Mine, GotoTyped DEF ControlPoints
<1>8. DOMAIN blocks = BlockIx /\ next \in [BlockIx -> {"ptr", "MARKER"}]
  BY Mine DEF Typed, TypeOK
<1>9. Written(b, k, Neighbor(b, k), Weight(b, k), TimeFirst(b, k), High(b))
  BY <1>1, Mine, NothingWritten
<1>10. TypeOK'
  BY <1>1, <1>5, <1>6, <1>8, <1>9, Mine, TypesKept DEF ControlPoints, Written
<1>11. \A u \in Threads : u # t /\ pc[u] \in AtTail => loc[u].b # b
  BY <1>5, Mine DEF OwnsOf
<1>12. \A u \in Threads : u # t =>
         Spares(u, b, k, Neighbor(b, k), Weight(b, k), TimeFirst(b, k), High(b))
  <2> SUFFICES ASSUME NEW u \in Threads, u # t
               PROVE  pc[u] \in AtTail => next'[loc[u].b] = next[loc[u].b]
    BY <1>7 DEF Spares
  <2>1. pc[u] \in AtTail => loc[u].b \in BlockIx
    BY Mine DEF PlaceOf, AtTail
  <2> QED
    BY <1>5, <1>8, <1>11, <2>1
<1>13. \A u \in Threads : u # t => Apart(t, u)'
  BY <1>2, <1>5, <1>6, <1>7, <1>11 DEF Apart, Holding, Writing, Updating
<1>14. PlaceOf(t)'
  BY <1>1, <1>2, <1>5, <1>6, <1>7, Mine, SameBlocks DEF PlaceOf, Registering, Updating
<1>15. OwnsOf(t)' /\ KnowsOf(t)'
  BY <1>2, <1>5, <1>6, <1>7, <1>8 DEF OwnsOf, KnowsOf, Holding, Writing, Registering, Updating
<1>16. SearchedOf(t)'
  BY <1>1, <1>6, <1>7, Mine, SameBlocks DEF SearchedOf, Passed, Updating, AtTail
<1> QED
  BY <1>1, <1>9, <1>10, <1>12, <1>13, <1>14, <1>15, <1>16, QuietStep
  DEF Writing, Registering, Updating

LEMMA PutBackStep == ASSUME IInv, NEW t \in Threads, PutBack(t) PROVE IInv'
<1>1. /\ pc[t] = "t_putback" /\ blocks' = blocks /\ degree' = degree /\ ops' = ops
  BY DEF PutBack
<1>2. PICK b \in BlockIx : b = loc[t].b
  BY <1>1, Mine DEF PlaceOf
<1>3. PICK k \in Slot : k = 0
  BY BlockSizeAssumption DEF Slot
<1>4. PICK q \in Locals : q = loc[t] /\ q.slotHeld = FALSE
  BY <1>1, Mine DEF Typed, PlaceOf, Updating
<1>5. b + 1 \in BlockIx /\ b + 1 \in Nat /\ b \in Nat
  BY <1>1, <1>2, Mine DEF PlaceOf, BlockIx, Typed
<1>6. PICK r : r = [q EXCEPT !.b = b + 1]
  OBVIOUS
<1>7. r \in Locals /\ r.b = b + 1 /\ r.k = q.k /\ r.slotHeld = FALSE /\ r.dest = q.dest
  BY <1>4, <1>5, <1>6 DEF Locals
<1>8. Goto(t, "p2_high", r) /\ next' = [next EXCEPT ![b] = "ptr"]
  BY <1>2, <1>4, <1>6 DEF PutBack
<1>9. /\ pc'[t] = "p2_high" /\ loc'[t] = r
      /\ \A u \in Threads : u # t => pc'[u] = pc[u] /\ loc'[u] = loc[u]
  BY <1>7, <1>8, Mine, GotoTyped DEF ControlPoints
<1>10. DOMAIN blocks = BlockIx /\ next \in [BlockIx -> {"ptr", "MARKER"}]
  BY Mine DEF Typed, TypeOK
<1>11. Written(b, k, Neighbor(b, k), Weight(b, k), TimeFirst(b, k), High(b))
  BY <1>1, Mine, NothingWritten
<1>12. TypeOK'
  BY <1>1, <1>7, <1>8, <1>10, <1>11, Mine, TypesKept DEF ControlPoints, Written
<1>13. \A u \in Threads : u # t =>
         Spares(u, b, k, Neighbor(b, k), Weight(b, k), TimeFirst(b, k), High(b))
  <2> SUFFICES ASSUME NEW u \in Threads, u # t
               PROVE  pc[u] \in AtTail => next'[loc[u].b] = next[loc[u].b]
    BY <1>9 DEF Spares
  <2>1. pc[u] \in AtTail => loc[u].b \in BlockIx
    BY Mine DEF PlaceOf, AtTail
  <2>2. Apart(t, u)
    BY DEF IInv
  <2>3. pc[u] \in AtTail => loc[u].b # b
    BY <1>1, <1>2, <2>2 DEF Apart, AtTail
  <2> QED
    BY <1>8, <1>10, <2>1, <2>3
<1>14. \A u \in Threads : u # t => Apart(t, u)'
  BY <1>7, <1>9 DEF Apart, Holding, Writing, Updating, AtTail
<1>15. PlaceOf(t)'
  BY <1>1, <1>4, <1>5, <1>7, <1>9, Mine, SameBlocks DEF PlaceOf, Registering, Updating
<1>16. OwnsOf(t)' /\ KnowsOf(t)'
  BY <1>7, <1>9 DEF OwnsOf, KnowsOf, Holding, Writing, Registering, Updating, AtTail
<1>17. SearchedOf(t)'
  <2> SUFFICES ASSUME NEW c \in BlockIx, NEW i \in Slot, Passed(t, c, i)'
               PROVE  Neighbor(c, i) \notin {NoNeighbor, q.dest} /\ i < High(c)
    BY <1>1, <1>7, <1>9, SameBlocks DEF SearchedOf
  <2>1. c < b \/ c = b
    BY <1>5, <1>7, <1>9 DEF Passed, AtTail, BlockIx
  <2>2. Passed(t, c, i)
    BY <1>1, <1>2, <2>1 DEF Passed, AtTail, Updating
  <2> QED
    BY <1>4, <2>2, Mine DEF SearchedOf
<1> QED
  BY <1>1, <1>11, <1>12, <1>13, <1>14, <1>15, <1>16, <1>17, QuietStep
  DEF Writing, Registering, Updating

-----------------------------------------------------------------------------
(* The steps that register a neighbour, raise a mark and link a block.     *)

(* A thread that holds an empty slot to fill it, or has just filled it.    *)
Fills(t) ==
    \/ pc[t] \in Registering
    \/ /\ pc[t] \in Updating /\ loc[t].slotHeld
       /\ Neighbor(loc[t].b, loc[t].k) = NoNeighbor

LEMMA FillsAtMark ==
    ASSUME IInv, NEW t \in Threads, Fills(t)
    PROVE  /\ loc[t].b \in BlockIx /\ loc[t].k \in Slot
           /\ Holding(t) /\ pc[t] \in Updating
           /\ loc[t].b = Len(blocks) /\ High(loc[t].b) <= loc[t].k
<1>1. /\ pc[t] \in Updating /\ loc[t].slotHeld /\ Holding(t)
      /\ loc[t].b \in BlockIx /\ loc[t].k \in Slot
  BY Mine DEF Fills, PlaceOf, Registering, Updating, Holding
<1>2. PICK b \in BlockIx, k \in Slot : b = loc[t].b /\ k = loc[t].k
  BY <1>1
<1>3. /\ High(b) \in Int /\ k \in Int /\ b \in Int /\ k < BlockSize /\ BlockSize \in Int
      /\ Len(blocks) \in Nat
  BY Mine, BlockSizeAssumption DEF Slot, Typed, BlockIx
<1>4. High(b) <= k
  <2>1. pc[t] \in Registering => High(b) <= k
    BY <1>2, Mine DEF KnowsOf
  <2>2. Neighbor(b, k) = NoNeighbor => ~(k < High(b))
    BY Mine DEF Filled
  <2> QED
    BY <1>2, <1>3, <2>1, <2>2 DEF Fills
<1>5. ~(b < Len(blocks))
  BY <1>3, <1>4, Mine DEF Filled
<1>6. b = Len(blocks)
  BY <1>3, <1>5 DEF BlockIx
<1> QED
  BY <1>1, <1>2, <1>4, <1>6

(* No two threads fill slots: of two of the last block, the lower one was  *)
(* below the mark when the owner of the higher one passed it.              *)
LEMMA OneFills ==
    ASSUME IInv, NEW t \in Threads, NEW u \in Threads, t # u, Fills(t), Fills(u)
    PROVE  FALSE
<1>1. PICK b \in BlockIx, k \in Slot, i \in Slot :
        b = loc[t].b /\ k = loc[t].k /\ b = loc[u].b /\ i = loc[u].k
  BY FillsAtMark
<1>2. /\ Holding(t) /\ Holding(u) /\ loc[t].slotHeld /\ loc[u].slotHeld
      /\ pc[t] \in Updating /\ pc[u] \in Updating
  BY FillsAtMark DEF Holding
<1>3. k # i
  <2>1. Apart(t, u)
    BY DEF IInv
  <2> QED
    BY <1>1, <1>2, <2>1 DEF Apart, At
<1>4. High(b) <= i /\ High(b) <= k /\ High(b) \in Int /\ k \in Int /\ i \in Int
  BY <1>1, FillsAtMark, Mine DEF Typed, Slot
<1>5. CASE i < k
  <2>1. Passed(t, b, i)
    BY <1>1, <1>2, <1>5 DEF Passed, Updating
  <2> QED
    BY <1>4, <2>1, Mine DEF SearchedOf
<1>6. CASE k < i
  <2>1. Passed(u, b, k)
    BY <1>1, <1>2, <1>6 DEF Passed, Updating
  <2> QED
    BY <1>4, <2>1, Mine DEF SearchedOf
<1> QED
  BY <1>3, <1>4, <1>5, <1>6

(* A thread that fills a slot adds a neighbour that is nowhere else.       *)
LEMMA NewNeighbor ==
    ASSUME IInv, NEW t \in Threads, Fills(t), NEW c \in BlockIx, NEW i \in Slot,
           ~At(t, c, i)
    PROVE  Neighbor(c, i) # loc[t].dest
<1> SUFFICES ASSUME Neighbor(c, i) = loc[t].dest PROVE FALSE
  OBVIOUS
<1>1. PICK b \in BlockIx, k \in Slot : b = loc[t].b /\ k = loc[t].k
  BY FillsAtMark
<1>2. /\ loc[t].slotHeld /\ pc[t] \in Updating
      /\ b = Len(blocks) /\ High(b) <= k
  BY <1>1, FillsAtMark DEF Holding
<1>3. /\ High(b) \in Int /\ k \in Int /\ i \in Int /\ b \in Int /\ c \in Int
      /\ Len(blocks) \in Nat /\ loc[t].dest # NoNeighbor
  BY <1>2, Mine, DestsAssumption DEF Typed, BlockIx, Slot, NoNeighbor, Updating
<1>4. ~Passed(t, c, i)
  BY Mine DEF SearchedOf
<1>5. ~(c < b) /\ ~(c = b /\ i < k)
  BY <1>1, <1>2, <1>4 DEF Passed, Updating
<1>6. c = b /\ k < i
  BY <1>1, <1>2, <1>3, <1>5 DEF BlockIx, At
<1>7. PICK u \in Threads : pc[u] \in Registering /\ At(u, c, i)
  BY <1>2, <1>3, <1>6, Mine DEF Filled
<1>8. u # t /\ Fills(u)
  BY <1>7 DEF Fills
<1> QED
  BY <1>8, OneFills

LEMMA RegisterNeighborStep ==
    ASSUME IInv, NEW t \in Threads, RegisterNeighbor(t) PROVE IInv'
<1>1. pc[t] = "u_neighbor" /\ next' = next /\ degree' = degree /\ ops' = ops
  BY DEF RegisterNeighbor
<1>2. PICK b \in BlockIx, k \in Slot : b = loc[t].b /\ k = loc[t].k
  BY <1>1, Mine DEF PlaceOf, Updating
<1>3. PICK q \in Locals : /\ q = loc[t] /\ q.dest \in Dests /\ q.dest # NoNeighbor
                          /\ q.slotHeld = TRUE
  BY <1>1, Mine, DestsAssumption DEF Typed, NoNeighbor, PlaceOf
<1>4. /\ High(b) \in Int /\ k \in Int /\ b \in Int /\ k < BlockSize /\ BlockSize \in Int
      /\ Len(blocks) \in Nat
  BY Mine, BlockSizeAssumption DEF Slot, Typed, BlockIx
<1>5. Neighbor(b, k) = NoNeighbor /\ High(b) <= k
  <2>1. Neighbor(b, k) = NoNeighbor
    BY <1>1, <1>2, Mine DEF KnowsOf
  <2>2. ~(k < High(b))
    BY <2>1, Mine DEF Filled
  <2> QED
    BY <1>4, <2>1, <2>2
<1>7. Goto(t, "u_numEdges", q)
  BY <1>3 DEF RegisterNeighbor
<1>8. Written(b, k, q.dest, Weight(b, k), TimeFirst(b, k), High(b))
  BY <1>2, <1>3, Mine, WriteForms DEF RegisterNeighbor, Typed
<1>9. /\ pc'[t] = "u_numEdges" /\ loc'[t] = q
      /\ \A u \in Threads : u # t => pc'[u] = pc[u] /\ loc'[u] = loc[u]
  BY <1>7, Mine, GotoTyped DEF ControlPoints
<1>10. TypeOK'
  BY <1>1, <1>7, <1>8, Mine, TypesKept DEF ControlPoints, Written, TypeOK
<1>11. /\ BlockIx' = BlockIx /\ Len(blocks') = Len(blocks)
       /\ \A c \in BlockIx : High(c)' = High(c)
       /\ \A c \in BlockIx, i \in Slot :
            /\ Neighbor(c, i)' = IF c = b /\ i = k THEN q.dest ELSE Neighbor(c, i)
            /\ Weight(c, i)' = Weight(c, i) /\ TimeFirst(c, i)' = TimeFirst(c, i)
  BY <1>8 DEF Written, BlockIx
<1>12. Grows
  <2>1. High(b) <= High(b)
    BY <1>4
  <2> QED
    BY <1>4, <1>5, <1>8, <2>1, WrittenGrows
<1>13. \A u \in Threads : u # t => Apart(t, u)'
  <2> SUFFICES ASSUME NEW u \in Threads, u # t PROVE Apart(t, u)'
    OBVIOUS
  <2>1. Apart(t, u)
    BY DEF IInv
  <2> QED
    BY <1>1, <1>3, <1>9, <2>1 DEF Apart, Holding, Writing, At, Updating, AtTail
<1>14. \A u \in Threads : u # t => Keeps(u)
  <2> SUFFICES ASSUME NEW u \in Threads, u # t PROVE Keeps(u)
    OBVIOUS
  <2>1. ~(Holding(u) /\ At(u, b, k))
    <3>1. Apart(t, u)
      BY DEF IInv
    <3> QED
      BY <1>1, <1>2, <1>3, <3>1 DEF Apart, Holding, At
  <2>2. Spares(u, b, k, q.dest, Weight(b, k), TimeFirst(b, k), High(b))
    BY <1>1, <1>9, <2>1 DEF Spares
  <2> QED
    BY <1>8, <2>2, WrittenKeeps
<1>15. PlaceOf(t)'
  BY <1>1, <1>3, <1>9, <1>11, Mine DEF PlaceOf, Registering, Updating
<1>16. OwnsOf(t)'
  BY <1>1, <1>2, <1>3, <1>9, <1>11, Mine DEF OwnsOf, Holding, Writing, Updating, AtTail
<1>17. KnowsOf(t)'
  BY <1>2, <1>3, <1>5, <1>9, <1>11 DEF KnowsOf, Registering
<1>18. ~Passed(t, b, k)
  BY <1>1, <1>2, <1>4 DEF Passed, AtTail
<1>19. SearchedOf(t)'
  <2> SUFFICES ASSUME NEW c \in BlockIx, NEW i \in Slot, Passed(t, c, i)
               PROVE  Neighbor(c, i)' \notin {NoNeighbor, q.dest} /\ i < High(c)'
    BY <1>1, <1>3, <1>9, <1>11 DEF SearchedOf, Passed, Updating, AtTail
  <2> QED
    BY <1>3, <1>11, <1>18, Mine DEF SearchedOf
<1>20. Filled'
  <2>1. \A c \in BlockIx, i \in Slot :
            (\E u \in Threads : pc[u] \in Registering /\ At(u, c, i)) =>
            (\E u \in Threads : pc'[u] \in Registering /\ At(u, c, i)')
    BY <1>1, <1>9 DEF At, Registering
  <2>2. pc'[t] \in Registering /\ At(t, b, k)'
    BY <1>2, <1>3, <1>9 DEF At, Registering
  <2> QED
    BY <1>3, <1>11, <2>1, <2>2, Mine DEF Filled
<1>21. Readable'
  <2>1. \A c \in BlockIx, i \in Slot :
            (\E u \in Threads : Writing(u) /\ At(u, c, i)) =>
            (\E u \in Threads : Writing(u)' /\ At(u, c, i)')
    BY <1>1, <1>3, <1>9 DEF At, Writing, Updating
  <2>2. Writing(t)' /\ At(t, b, k)'
    BY <1>2, <1>3, <1>9 DEF At, Writing, Updating
  <2> QED
    BY <1>11, <2>1, <2>2 DEF IInv, Readable
<1>22. \A c \in BlockIx, i \in Slot : ~(c = b /\ i = k) => Neighbor(c, i) # q.dest
  BY <1>1, <1>2, <1>3, <1>5, NewNeighbor DEF Fills, At, Updating
<1>23. Unique'
  BY <1>3, <1>11, <1>22 DEF IInv, Unique
<1> QED
  BY <1>10, <1>12, <1>13, <1>14, <1>15, <1>16, <1>17, <1>19, <1>20, <1>21, <1>23, Together

LEMMA RaiseHighStep == ASSUME IInv, NEW t \in Threads, RaiseHigh(t) PROVE IInv'
<1>1. pc[t] = "u_raise" /\ next' = next /\ degree' = degree /\ ops' = ops
  BY DEF RaiseHigh
<1>2. PICK b \in BlockIx, k \in Slot : b = loc[t].b /\ k = loc[t].k
  BY <1>1, Mine DEF PlaceOf, Updating
<1>3. PICK q \in Locals : q = loc[t] /\ q.dest # NoNeighbor /\ q.slotHeld = TRUE
  BY <1>1, Mine, DestsAssumption DEF Typed, NoNeighbor, PlaceOf, Registering
<1>4. /\ High(b) \in Int /\ k \in Int /\ k + 1 \in Int /\ k + 1 <= BlockSize
      /\ BlockSize \in Int /\ Len(blocks) \in Nat /\ b \in Int
  BY Mine, BlockSizeAssumption DEF Slot, Typed, BlockIx
<1>5. Neighbor(b, k) = q.dest /\ High(b) <= k
  BY <1>1, <1>2, <1>3, Mine DEF KnowsOf, Registering
<1>6. b = Len(blocks)
  <2>1. ~(b < Len(blocks))
    BY <1>4, <1>5, Mine DEF Filled
  <2> QED
    BY <1>4, <2>1 DEF BlockIx
<1>7. Goto(t, "u_unlock", q)
  BY <1>3 DEF RaiseHigh
<1>8. Written(b, k, Neighbor(b, k), Weight(b, k), TimeFirst(b, k), k + 1)
  BY <1>2, <1>4, Mine, WriteForms DEF RaiseHigh, Typed
<1>9. /\ pc'[t] = "u_unlock" /\ loc'[t] = q
      /\ \A u \in Threads : u # t => pc'[u] = pc[u] /\ loc'[u] = loc[u]
  BY <1>7, Mine, GotoTyped DEF ControlPoints
<1>10. TypeOK'
  BY <1>1, <1>7, <1>8, Mine, TypesKept DEF ControlPoints, Written, TypeOK
<1>11. /\ BlockIx' = BlockIx /\ Len(blocks') = Len(blocks)
       /\ \A c \in BlockIx : High(c)' = IF c = b THEN k + 1 ELSE High(c)
       /\ \A c \in BlockIx, i \in Slot :
            /\ Neighbor(c, i)' = Neighbor(c, i)
            /\ Weight(c, i)' = Weight(c, i) /\ TimeFirst(c, i)' = TimeFirst(c, i)
  BY <1>8 DEF Written, BlockIx
<1>12. Grows
  <2>1. High(b) <= k + 1
    BY <1>4, <1>5
  <2> QED
    BY <1>4, <1>8, <2>1, WrittenGrows
<1>13. \A u \in Threads : u # t => Apart(t, u)'
  <2> SUFFICES ASSUME NEW u \in Threads, u # t PROVE Apart(t, u)'
    OBVIOUS
  <2>1. Apart(t, u)
    BY DEF IInv
  <2> QED
    BY <1>1, <1>3, <1>9, <2>1 DEF Apart, Holding, Writing, At, Updating, AtTail
<1>14. \A u \in Threads : u # t /\ pc[u] \in Registering => loc[u].b # b
  BY <1>1, OneFills DEF Fills, Registering
<1>15. \A u \in Threads : u # t => Keeps(u)
  <2> SUFFICES ASSUME NEW u \in Threads, u # t PROVE Keeps(u)
    OBVIOUS
  <2>1. Spares(u, b, k, Neighbor(b, k), Weight(b, k), TimeFirst(b, k), k + 1)
    BY <1>1, <1>9, <1>14 DEF Spares
  <2> QED
    BY <1>8, <2>1, WrittenKeeps
<1>16. PlaceOf(t)'
  BY <1>1, <1>3, <1>9, <1>11, Mine DEF PlaceOf, Registering, Updating
<1>17. OwnsOf(t)'
  BY <1>1, <1>2, <1>3, <1>9, <1>11, Mine DEF OwnsOf, Holding, Writing, Updating, AtTail
<1>18. KnowsOf(t)'
  <2>1. k < High(b)'
    BY <1>4, <1>11
  <2> QED
    BY <1>2, <1>3, <1>5, <1>9, <1>11, <2>1 DEF KnowsOf, Registering
<1>19. SearchedOf(t)'
  <2> SUFFICES ASSUME NEW c \in BlockIx, NEW i \in Slot, Passed(t, c, i)
               PROVE  Neighbor(c, i) \notin {NoNeighbor, q.dest} /\ i < High(c)'
    BY <1>1, <1>3, <1>9, <1>11 DEF SearchedOf, Passed, Updating, AtTail
  <2>1. Neighbor(c, i) \notin {NoNeighbor, q.dest} /\ i < High(c)
    BY <1>3, Mine DEF SearchedOf
  <2> QED
    BY <1>4, <1>5, <1>11, <2>1 DEF Slot
<1>20. Filled'
  <2>1. ASSUME NEW i \in Slot
        PROVE  /\ i < k + 1 => Neighbor(b, i) # NoNeighbor
               /\ k + 1 <= i => Neighbor(b, i) = NoNeighbor
    <3>1. i < k => Neighbor(b, i) # NoNeighbor
      BY <1>1, <1>2, <1>3, Mine DEF SearchedOf, Passed
    <3>2. k < i => Neighbor(b, i) = NoNeighbor
      <4> SUFFICES ASSUME k < i, Neighbor(b, i) # NoNeighbor PROVE FALSE
        OBVIOUS
      <4>1. High(b) <= i
        BY <1>4, <1>5 DEF Slot
      <4>2. PICK u \in Threads : pc[u] \in Registering /\ At(u, b, i)
        BY <4>1, Mine DEF Filled
      <4> QED
        BY <1>2, <1>4, <1>14, <4>2 DEF At, Slot
    <3> QED
      BY <1>3, <1>4, <1>5, <3>1, <3>2 DEF Slot
  <2>2. ASSUME NEW c \in BlockIx, c # b, NEW i \in Slot
        PROVE  /\ i < High(c) => Neighbor(c, i) # NoNeighbor
               /\ Neighbor(c, i) # NoNeighbor /\ High(c) <= i =>
                    \E u \in Threads : pc'[u] \in Registering /\ At(u, c, i)'
    <3>1. i < High(c) => Neighbor(c, i) # NoNeighbor
      BY Mine DEF Filled
    <3>2. ASSUME Neighbor(c, i) # NoNeighbor, High(c) <= i
          PROVE  \E u \in Threads : pc'[u] \in Registering /\ At(u, c, i)'
      <4>1. PICK u \in Threads : pc[u] \in Registering /\ At(u, c, i)
        BY <3>2, Mine DEF Filled
      <4> QED
        BY <1>2, <1>9, <2>2, <4>1 DEF At
    <3> QED
      BY <3>1, <3>2
  <2>3. \A c \in BlockIx : c # b => High(c) <= BlockSize /\ (c < Len(blocks) => High(c) = BlockSize)
    BY Mine DEF Filled
  <2> QED
    BY <1>4, <1>6, <1>11, <2>1, <2>2, <2>3 DEF Filled
<1>21. Readable'
  <2>1. \A c \in BlockIx, i \in Slot :
            (\E u \in Threads : Writing(u) /\ At(u, c, i)) =>
            (\E u \in Threads : Writing(u)' /\ At(u, c, i)')
    BY <1>1, <1>3, <1>9 DEF At, Writing, Updating
  <2> QED
    BY <1>11, <2>1 DEF IInv, Readable
<1>22. Unique'
  BY <1>11 DEF IInv, Unique
<1> QED
  BY <1>10, <1>12, <1>13, <1>15, <1>16, <1>17, <1>18, <1>19, <1>20, <1>21, <1>22, Together

LEMMA PublishStep == ASSUME IInv, NEW t \in Threads, Publish(t) PROVE IInv'
<1>1. pc[t] = "t_publish" /\ degree' = degree /\ ops' = ops
  BY DEF Publish
<1>2. PICK n \in Nat : n = Len(blocks)
  BY Mine DEF Typed
<1>3. PICK q \in Locals : /\ q = loc[t] /\ q.dest \in Dests /\ q.dest # NoNeighbor
                          /\ q.weight \in Weights /\ q.b = n
  BY <1>1, <1>2, Mine, DestsAssumption DEF Typed, NoNeighbor, PlaceOf
<1>4. /\ n \in BlockIx /\ BlockIx = 1 .. n /\ 0 \in Slot /\ n + 1 \notin BlockIx
      /\ BlockSize - 1 \in Slot
  BY <1>1, <1>2, <1>3, Mine, BlockSizeAssumption DEF PlaceOf, BlockIx, Slot
<1>5. PICK e \in Edge : e = [neighbor |-> q.dest, weight |-> q.weight, timeFirst |-> 0]
  BY <1>3 DEF Edge
<1>6. PICK x \in Block :
        /\ x = [NewBlock EXCEPT !.edges[0] = e, !.numEdges = 1, !.high = 1]
        /\ x.edges[0] = e /\ x.high = 1
        /\ \A i \in Slot : i # 0 => x.edges[i] = EmptyEdge
  <2>1. PICK empty : empty = [i \in Slot |-> EmptyEdge]
    OBVIOUS
  <2>2. PICK es : es = [empty EXCEPT ![0] = e]
    OBVIOUS
  <2>3. EmptyEdge \in Edge
    BY MarkerAssumption DEF EmptyEdge, Edge
  <2>4. /\ es \in [Slot -> Edge] /\ es[0] = e
        /\ \A i \in Slot : i # 0 => es[i] = EmptyEdge
    BY <1>4, <2>1, <2>2, <2>3
  <2>5. [NewBlock EXCEPT !.edges[0] = e, !.numEdges = 1, !.high = 1]
          = [edges |-> es, numEdges |-> 1, high |-> 1]
    <3>1. PICK y : y = [edges |-> empty, numEdges |-> 0, high |-> -1]
      OBVIOUS
    <3>2. NewBlock = y
      BY <2>1, <3>1 DEF NewBlock
    <3>3. [y EXCEPT !.edges[0] = e] = [edges |-> es, numEdges |-> 0, high |-> -1]
      BY <2>2, <3>1
    <3>4. PICK z : z = [y EXCEPT !.edges[0] = e]
      OBVIOUS
    <3>5. z \in Block /\ z.edges = es /\ z.high = -1
      BY <2>4, <3>3, <3>4 DEF Block, Edge
    <3>6. PICK w : w = [z EXCEPT !.numEdges = 1]
      OBVIOUS
    <3>7. w = [edges |-> es, numEdges |-> 1, high |-> -1]
      BY <3>5, <3>6, BlockForms
    <3>8. w \in Block /\ w.edges = es /\ w.numEdges = 1
      BY <2>4, <3>7 DEF Block, Edge
    <3>9. [w EXCEPT !.high = 1] = [edges |-> es, numEdges |-> 1, high |-> 1]
      BY <3>8, BlockForms
    <3> QED
      BY <3>2, <3>4, <3>6, <3>9
  <2>6. [edges |-> es, numEdges |-> 1, high |-> 1] \in Block
    BY <2>4 DEF Block, Edge
  <2> QED
    BY <2>4, <2>5, <2>6
<1>7. blocks' = Append(blocks, x)
  BY <1>3, <1>5, <1>6 DEF Publish
<1>8. /\ blocks' \in Seq(Block) /\ Len(blocks') = n + 1 /\ BlockIx' = 1 .. n + 1
      /\ blocks'[n + 1] = x /\ \A c \in BlockIx : blocks'[c] = blocks[c]
      /\ DOMAIN blocks' = 1 .. n + 1
  <2>1. blocks \in Seq(Block)
    BY Mine DEF Typed
  <2> QED
    BY <1>2, <1>4, <1>7, <2>1, AppendProperties DEF BlockIx
<1>9. next' \in [1 .. n + 1 -> {"ptr", "MARKER"}]
      /\ \A c \in BlockIx : c # n => next'[c] = next[c]
  <2>1. next \in [1 .. n -> {"ptr", "MARKER"}]
    BY <1>4, Mine DEF Typed, TypeOK
  <2>2. PICK m : m = [next EXCEPT ![n] = "ptr"]
    OBVIOUS
  <2>3. /\ m \in [1 .. n -> {"ptr", "MARKER"}]
        /\ \A c \in 1 .. n : c # n => m[c] = next[c]
    BY <2>1, <2>2
  <2>4. m \in Seq({"ptr", "MARKER"}) /\ Len(m) = n
    BY <1>2, <2>3
  <2>5. next' = Append(m, "ptr")
    BY <1>3, <2>2 DEF Publish
  <2>6. /\ next' \in Seq({"ptr", "MARKER"}) /\ Len(next') = n + 1
        /\ \A c \in 1 .. n : next'[c] = m[c]
    BY <2>4, <2>5, AppendProperties
  <2> QED
    BY <1>4, <2>3, <2>6
<1>10. /\ Goto(t, "idle", <<>>) /\ pc'[t] = "idle"
       /\ \A u \in Threads : u # t => pc'[u] = pc[u] /\ loc'[u] = loc[u]
  BY Mine, GotoTyped DEF Publish, ControlPoints
<1>11. TypeOK'
  BY <1>1, <1>8, <1>9, <1>10, Mine, GotoTyped DEF TypeOK, ControlPoints
<1>12. /\ High(n + 1)' = 1 /\ Neighbor(n + 1, 0)' = q.dest /\ Weight(n + 1, 0)' = q.weight
       /\ \A i \in Slot : i # 0 => Neighbor(n + 1, i)' = NoNeighbor
       /\ \A c \in BlockIx : High(c)' = High(c)
       /\ \A c \in BlockIx, i \in Slot :
            /\ Neighbor(c, i)' = Neighbor(c, i)
            /\ Weight(c, i)' = Weight(c, i) /\ TimeFirst(c, i)' = TimeFirst(c, i)
  BY <1>5, <1>6, <1>8 DEF High, Neighbor, Weight, TimeFirst, EdgeAt, EmptyEdge
<1>13. Grows
  BY <1>2, <1>8, <1>12, Mine DEF Grows, Typed
<1>14. \A u \in Threads : u # t => Apart(t, u)'
  BY <1>10 DEF Apart, Holding, Writing, Updating, AtTail
<1>15. \A u \in Threads : u # t => Keeps(u)
  <2> SUFFICES ASSUME NEW u \in Threads, u # t PROVE Keeps(u)
    OBVIOUS
  <2>1. pc[u] # "idle" => loc[u].b \in BlockIx
    BY Mine DEF PlaceOf
  <2>2. Holding(u) \/ Writing(u) => loc[u].k \in Slot
    BY Mine DEF PlaceOf, Holding, Writing, Updating
  <2>3. pc[u] \in AtTail => loc[u].b # n
    <3>1. Apart(t, u)
      BY DEF IInv
    <3> QED
      BY <1>1, <1>3, <3>1 DEF Apart, AtTail
  <2>4. pc[u] \notin {"t_new", "t_publish"}
    BY <1>2, <2>3, Mine DEF PlaceOf, AtTail
  <2> QED
    BY <1>9, <1>10, <1>12, <2>1, <2>2, <2>3, <2>4
    DEF Keeps, Holding, Writing, Updating, Registering, AtTail
<1>16. PlaceOf(t)' /\ OwnsOf(t)' /\ KnowsOf(t)' /\ SearchedOf(t)'
  BY <1>10 DEF PlaceOf, OwnsOf, KnowsOf, SearchedOf, Passed, Holding, Writing, Registering,
               Updating, AtTail
<1>17. \A c \in BlockIx, i \in Slot :
          Neighbor(c, i) \notin {NoNeighbor, q.dest} /\ i < High(c)
  <2>1. \A c \in BlockIx, i \in Slot : Passed(t, c, i)
    BY <1>1, <1>3, <1>4 DEF Passed, AtTail, Updating
  <2> QED
    BY <1>3, <2>1, Mine DEF SearchedOf
<1>18. Filled'
  <2>1. High(n) = BlockSize
    <3>1. BlockSize - 1 < High(n) /\ High(n) <= BlockSize /\ High(n) \in Int
      BY <1>4, <1>17, Mine DEF Filled, Typed
    <3> QED
      BY <3>1, BlockSizeAssumption
  <2>2. ASSUME NEW c \in BlockIx
        PROVE  /\ High(c)' <= BlockSize /\ (c < n + 1 => High(c)' = BlockSize)
               /\ \A i \in Slot :
                    /\ i < High(c)' => Neighbor(c, i)' # NoNeighbor
                    /\ ~(High(c)' <= i)
    <3>1. High(c) = BlockSize
      BY <1>2, <1>4, <2>1, Mine DEF Filled
    <3> QED
      BY <1>12, <1>17, <3>1, BlockSizeAssumption DEF Slot
  <2>3. /\ High(n + 1)' <= BlockSize
        /\ \A i \in Slot : /\ i < High(n + 1)' => Neighbor(n + 1, i)' # NoNeighbor
                           /\ Neighbor(n + 1, i)' # NoNeighbor => ~(High(n + 1)' <= i)
    BY <1>3, <1>12, BlockSizeAssumption DEF Slot
  <2>4. \A c \in BlockIx' : c \in BlockIx \/ c = n + 1
    BY <1>4, <1>8
  <2> QED
    BY <1>8, <2>2, <2>3, <2>4 DEF Filled
<1>19. Readable'
  <2> SUFFICES ASSUME NEW c \in BlockIx', NEW i \in Slot, Neighbor(c, i)' # NoNeighbor,
                      Weight(c, i)' \notin Weights
               PROVE  \E u \in Threads : Writing(u)' /\ At(u, c, i)'
    BY DEF Readable
  <2>1. c \in BlockIx
    BY <1>3, <1>4, <1>8, <1>12
  <2>2. PICK u \in Threads : Writing(u) /\ At(u, c, i)
    BY <1>12, <2>1 DEF IInv, Readable
  <2>3. u # t
    BY <1>1, <2>2 DEF Writing, Updating
  <2> QED
    BY <1>10, <2>2, <2>3 DEF Writing, At
<1>20. Unique'
  <2> SUFFICES ASSUME NEW c \in BlockIx', NEW d \in BlockIx', NEW i \in Slot, NEW j \in Slot,
                      Neighbor(c, i)' # NoNeighbor, Neighbor(c, i)' = Neighbor(d, j)'
               PROVE  c = d /\ i = j
    BY DEF Unique
  <2>1. (c \in BlockIx \/ (c = n + 1 /\ i = 0)) /\ (d \in BlockIx \/ (d = n + 1 /\ j = 0))
    BY <1>4, <1>8, <1>12
  <2> QED
    BY <1>4, <1>12, <1>17, <2>1 DEF IInv, Unique
<1> QED
  BY <1>11, <1>13, <1>14, <1>15, <1>16, <1>18, <1>19, <1>20, Together

-----------------------------------------------------------------------------
LEMMA Initially == Init => IInv
<1> SUFFICES ASSUME Init PROVE IInv
  OBVIOUS
<1>1. PICK x \in Block : /\ x = NewBlock /\ x.high = -1
                         /\ \A k \in Slot : x.edges[k] = EmptyEdge
  <2>1. EmptyEdge \in Edge
    BY MarkerAssumption DEF EmptyEdge, Edge
  <2>2. PICK empty \in [Slot -> Edge] : empty = [k \in Slot |-> EmptyEdge]
    BY <2>1
  <2>3. [edges |-> empty, numEdges |-> 0, high |-> -1] \in Block
    BY DEF Block, Edge
  <2> QED
    BY <2>2, <2>3 DEF NewBlock
<1>2. blocks = <<x>> /\ blocks \in Seq(Block) /\ Len(blocks) = 1 /\ blocks[1] = x
  BY <1>1 DEF Init
<1>3. TypeOK
  BY <1>2, MaxOpsAssumption DEF Init, TypeOK, ControlPoints
<1>4. /\ BlockIx = {1} /\ High(1) = -1
      /\ \A k \in Slot : Neighbor(1, k) = NoNeighbor
  BY <1>1, <1>2 DEF BlockIx, High, Neighbor, EdgeAt, EmptyEdge
<1>5. Filled /\ Readable /\ Unique
  BY <1>2, <1>4, BlockSizeAssumption DEF Filled, Readable, Unique, Slot
<1>6. \A t \in Threads : pc[t] = "idle"
  BY DEF Init
<1>7. \A t \in Threads : PlaceOf(t) /\ OwnsOf(t) /\ KnowsOf(t) /\ SearchedOf(t)
  BY <1>6 DEF PlaceOf, OwnsOf, KnowsOf, SearchedOf, Passed, Holding, Writing, Registering,
              Updating, AtTail
<1>8. \A t, u \in Threads : Apart(t, u)
  BY <1>6 DEF Apart, Holding, Writing, Updating, AtTail
<1> QED
  BY <1>3, <1>4, <1>5, <1>7, <1>8 DEF IInv

LEMMA Stuttering == IInv /\ UNCHANGED vars => IInv'
<1> SUFFICES ASSUME IInv, UNCHANGED vars PROVE IInv'
  OBVIOUS
<1>1. TypeOK'
  BY DEF IInv, TypeOK, vars
<1>2. /\ BlockIx' = BlockIx /\ Len(blocks') = Len(blocks)
      /\ \A b : High(b)' = High(b)
      /\ \A b, k : /\ Neighbor(b, k)' = Neighbor(b, k) /\ Weight(b, k)' = Weight(b, k)
                   /\ TimeFirst(b, k)' = TimeFirst(b, k)
  BY DEF vars, BlockIx, High, Neighbor, Weight, TimeFirst, EdgeAt
<1>3. pc' = pc /\ loc' = loc /\ next' = next
  BY DEF vars
<1>4. Filled' /\ Readable' /\ Unique'
  BY <1>2, <1>3 DEF IInv, Filled, Readable, Unique, Writing, At
<1>5. \A t \in Threads : PlaceOf(t)' /\ OwnsOf(t)' /\ KnowsOf(t)' /\ SearchedOf(t)'
  <2> SUFFICES ASSUME NEW t \in Threads
               PROVE  PlaceOf(t)' /\ OwnsOf(t)' /\ KnowsOf(t)' /\ SearchedOf(t)'
    OBVIOUS
  <2>1. PlaceOf(t) /\ OwnsOf(t) /\ KnowsOf(t) /\ SearchedOf(t)
    BY DEF IInv
  <2>2. PlaceOf(t)'
    BY <1>2, <1>3, <2>1 DEF PlaceOf
  <2>3. OwnsOf(t)'
    BY <1>2, <1>3, <2>1 DEF OwnsOf, Holding, Writing
  <2>4. KnowsOf(t)'
    BY <1>2, <1>3, <2>1 DEF KnowsOf
  <2>5. SearchedOf(t)'
    BY <1>2, <1>3, <2>1 DEF SearchedOf, Passed
  <2> QED
    BY <2>2, <2>3, <2>4, <2>5
<1>6. \A t, u \in Threads : t # u => Apart(t, u)'
  BY <1>3 DEF IInv, Apart, Holding, Writing, At
<1> QED
  BY <1>1, <1>2, <1>4, <1>5, <1>6 DEF IInv

LEMMA EveryStep == IInv /\ [Next]_vars => IInv'
<1> SUFFICES ASSUME IInv, [Next]_vars PROVE IInv'
  OBVIOUS
<1>1. ASSUME NEW t \in Threads, Start(t) PROVE IInv'
  BY <1>1, StartStep
<1>2. ASSUME NEW t \in Threads, SearchAndInsert(t) PROVE IInv'
  <2>1. CASE FirstPassHigh(t) \/ FirstPassScan(t) \/ FirstPassNextBlock(t)
    BY <2>1, ReadHighStep, FirstPassScanStep, FirstPassNextBlockStep DEF FirstPassHigh
  <2>2. CASE SecondPassHigh(t) \/ SecondPassScan(t) \/ SecondPassNextBlock(t)
    BY <2>2, ReadHighStep, SecondPassScanStep, SecondPassNextBlockStep DEF SecondPassHigh
  <2>3. CASE LockSlot(t) \/ ReadThis(t) \/ Recheck(t)
    BY <2>3, LockSlotStep, ReadThisStep, RecheckStep
  <2>4. CASE LockTail(t) \/ FillNewBlock(t) \/ Publish(t) \/ PutBack(t)
    BY <2>4, LockTailStep, FillNewBlockStep, PublishStep, PutBackStep
  <2>5. CASE UpdateEdgeData(t)
    BY <2>5, LockWeightStep, TestNewStep, RegisterNeighborStep, CountInBlockStep,
       CountDegreeStep, TestHighStep, RaiseHighStep, WriteWeightStep DEF UpdateEdgeData
  <2> QED
    BY <1>2, <2>1, <2>2, <2>3, <2>4, <2>5 DEF SearchAndInsert
<1>3. ASSUME Finished PROVE IInv'
  BY <1>3, Stuttering DEF Finished
<1> QED
  BY <1>1, <1>2, <1>3, Stuttering DEF Next

(* Every state of every execution satisfies the invariant.                 *)
THEOREM InductiveInvariant == Spec => []IInv
BY Initially, EveryStep, PTL DEF Spec

(* The variables keep their types.                                         *)
THEOREM TypeCorrect == Spec => []TypeOK
BY InductiveInvariant, PTL DEF IInv

(* However the threads that insert race, no neighbour is listed twice.     *)
THEOREM NeighborsDistinct == Spec => []NoDuplicateNeighbors
<1>1. IInv => NoDuplicateNeighbors
  <2> SUFFICES ASSUME IInv, NEW p \in Positions, NEW p2 \in Positions, InUse(p), InUse(p2),
                      EdgeAt(p[1], p[2]).neighbor = EdgeAt(p2[1], p2[2]).neighbor
               PROVE  p = p2
    BY DEF NoDuplicateNeighbors
  <2>1. DOMAIN blocks = BlockIx
    BY Types DEF IInv, Typed
  <2>2. PICK b \in BlockIx, k \in Slot : p = <<b, k>>
    BY <2>1 DEF Positions
  <2>3. PICK c \in BlockIx, i \in Slot : p2 = <<c, i>>
    BY <2>1 DEF Positions
  <2> QED
    BY <2>2, <2>3 DEF IInv, Unique, InUse, Neighbor
<1> QED
  BY <1>1, InductiveInvariant, PTL


-----------------------------------------------------------------------------
(* The map that the list stands for.                                       *)

(* Neighbour d has weight w: a thread is writing it, or the slot that is   *)
(* not being written says so.                                              *)
BeingWritten(b, k) == \E t \in Threads : Writing(t) /\ At(t, b, k)
InSlot(b, k, d, w) ==
    d # NoNeighbor /\ Neighbor(b, k) = d /\ Weight(b, k) = w /\ ~BeingWritten(b, k)
Says(d, w) ==
    \/ \E t \in Threads : Writing(t) /\ loc[t].dest = d /\ loc[t].weight = w
    \/ \E b \in BlockIx, k \in Slot : InSlot(b, k, d, w)

EffectiveIsSaid ==
    /\ \A d, w : [dest |-> d, weight |-> w] \in Effective <=> Says(d, w)
    /\ \A x \in Effective : x = [dest |-> x.dest, weight |-> x.weight]
    /\ \A d, w : Says(d, w) => d \in Dests /\ w \in Weights

LEMMA EffectiveSays == IInv => EffectiveIsSaid
<1> SUFFICES ASSUME IInv PROVE EffectiveIsSaid
  OBVIOUS
<1>1. Positions = {<<b, k>> : b \in BlockIx, k \in Slot}
  BY Mine, Types DEF IInv, Typed, Positions
<1>2. \A b \in BlockIx, k \in Slot, t \in Threads :
         Writer(<<b, k>>, t) <=> Writing(t) /\ At(t, b, k)
  BY DEF Writer, Writing, Updating, At
<1>3. \A t \in Threads : Writing(t) => loc[t].b \in BlockIx /\ loc[t].k \in Slot
  BY Mine DEF Writing, PlaceOf, Updating
<1>4. \A t \in Threads : (\E p \in Positions : Writer(p, t)) <=> Writing(t)
  <2>1. ASSUME NEW t \in Threads, Writing(t) PROVE \E p \in Positions : Writer(p, t)
    <3>1. Writer(<<loc[t].b, loc[t].k>>, t) /\ <<loc[t].b, loc[t].k>> \in Positions
      BY <1>1, <1>2, <1>3, <2>1 DEF At
    <3> QED
      BY <3>1
  <2>2. ASSUME NEW t \in Threads, NEW p \in Positions, Writer(p, t) PROVE Writing(t)
    BY <2>2 DEF Writer, Writing, Updating
  <2> QED
    BY <2>1, <2>2
<1>5. \A x : x \in Effective <=>
         \/ \E t \in Threads : /\ Writing(t)
                               /\ x = [dest |-> loc[t].dest, weight |-> loc[t].weight]
         \/ \E b \in BlockIx, k \in Slot :
              /\ Neighbor(b, k) # NoNeighbor /\ ~BeingWritten(b, k)
              /\ x = [dest |-> Neighbor(b, k), weight |-> Weight(b, k)]
  <2> SUFFICES ASSUME NEW x
               PROVE  x \in Effective <=>
         \/ \E t \in Threads : /\ Writing(t)
                               /\ x = [dest |-> loc[t].dest, weight |-> loc[t].weight]
         \/ \E b \in BlockIx, k \in Slot :
              /\ Neighbor(b, k) # NoNeighbor /\ ~BeingWritten(b, k)
              /\ x = [dest |-> Neighbor(b, k), weight |-> Weight(b, k)]
    OBVIOUS
  <2>1. x \in Effective <=>
         \/ \E t \in Threads : /\ \E p \in Positions : Writer(p, t)
                               /\ x = [dest |-> loc[t].dest, weight |-> loc[t].weight]
         \/ \E p \in Positions :
              /\ InUse(p) /\ ~ \E t \in Threads : Writer(p, t)
              /\ x = [dest |-> EdgeAt(p[1], p[2]).neighbor,
                      weight |-> EdgeAt(p[1], p[2]).weight]
    BY DEF Effective
  <2>2. ASSUME NEW b \in BlockIx, NEW k \in Slot
        PROVE  /\ InUse(<<b, k>>) <=> Neighbor(b, k) # NoNeighbor
               /\ (\E t \in Threads : Writer(<<b, k>>, t)) <=> BeingWritten(b, k)
    BY <1>2 DEF InUse, Neighbor, BeingWritten
  <2>3. (\E p \in Positions :
              /\ InUse(p) /\ ~ \E t \in Threads : Writer(p, t)
              /\ x = [dest |-> EdgeAt(p[1], p[2]).neighbor,
                      weight |-> EdgeAt(p[1], p[2]).weight])
        <=> \E b \in BlockIx, k \in Slot :
              /\ Neighbor(b, k) # NoNeighbor /\ ~BeingWritten(b, k)
              /\ x = [dest |-> Neighbor(b, k), weight |-> Weight(b, k)]
    <3>1. ASSUME NEW b \in BlockIx, NEW k \in Slot,
                 Neighbor(b, k) # NoNeighbor, ~BeingWritten(b, k),
                 x = [dest |-> Neighbor(b, k), weight |-> Weight(b, k)]
          PROVE  \E p \in Positions :
              /\ InUse(p) /\ ~ \E t \in Threads : Writer(p, t)
              /\ x = [dest |-> EdgeAt(p[1], p[2]).neighbor,
                      weight |-> EdgeAt(p[1], p[2]).weight]
      <4>1. <<b, k>> \in Positions /\ <<b, k>>[1] = b /\ <<b, k>>[2] = k
        BY <1>1
      <4> QED
        BY <2>2, <3>1, <4>1 DEF Neighbor, Weight
    <3>2. ASSUME NEW p \in Positions, InUse(p), ~ \E t \in Threads : Writer(p, t),
                 x = [dest |-> EdgeAt(p[1], p[2]).neighbor,
                      weight |-> EdgeAt(p[1], p[2]).weight]
          PROVE  \E b \in BlockIx, k \in Slot :
              /\ Neighbor(b, k) # NoNeighbor /\ ~BeingWritten(b, k)
              /\ x = [dest |-> Neighbor(b, k), weight |-> Weight(b, k)]
      <4>1. PICK b \in BlockIx, k \in Slot : p = <<b, k>>
        BY <1>1
      <4>2. p[1] = b /\ p[2] = k
        BY <4>1
      <4> QED
        BY <2>2, <3>2, <4>1, <4>2 DEF Neighbor, Weight
    <3> QED
      BY <3>1, <3>2
  <2> QED
    BY <1>4, <2>1, <2>3
<1>6. \A x \in Effective : x = [dest |-> x.dest, weight |-> x.weight]
  BY <1>5
<1>7. ASSUME NEW d, NEW w
      PROVE  [dest |-> d, weight |-> w] \in Effective <=> Says(d, w)
  BY <1>5 DEF Says, InSlot
<1>8. ASSUME NEW d, NEW w, Says(d, w)
      PROVE  d \in Dests /\ w \in Weights
  <2>1. CASE \E t \in Threads : Writing(t) /\ loc[t].dest = d /\ loc[t].weight = w
    BY <2>1, Types DEF IInv, Typed, Writing, Updating
  <2>2. ASSUME NEW b \in BlockIx, NEW k \in Slot, InSlot(b, k, d, w)
        PROVE  d \in Dests /\ w \in Weights
    BY <2>2, Types DEF IInv, Typed, InSlot, BeingWritten, Readable
  <2> QED
    BY <1>8, <2>1, <2>2 DEF Says
<1> QED
  BY <1>6, <1>7, <1>8 DEF EffectiveIsSaid

(* It is a map: no neighbour has two weights.                              *)
SaysOneWeight == \A d, w, v : Says(d, w) /\ Says(d, v) => w = v

LEMMA OneWeight == IInv => SaysOneWeight
<1> SUFFICES ASSUME IInv, NEW d, NEW w, NEW v, Says(d, w), Says(d, v)
             PROVE  w = v
  BY DEF SaysOneWeight
<1>1. ASSUME NEW t \in Threads, Writing(t), NEW c \in BlockIx, NEW i \in Slot, ~At(t, c, i)
      PROVE  Neighbor(c, i) # loc[t].dest
  <2>1. PICK b \in BlockIx, k \in Slot : b = loc[t].b /\ k = loc[t].k
    BY <1>1, Mine DEF Writing, PlaceOf, Updating
  <2>2. Neighbor(b, k) = loc[t].dest \/ (Neighbor(b, k) = NoNeighbor /\ loc[t].slotHeld)
    BY <1>1, <2>1, Mine DEF Writing, PlaceOf, KnowsOf, Updating, Registering
  <2>3. loc[t].dest # NoNeighbor
    BY <1>1, Mine, DestsAssumption DEF Writing, Updating, Typed, NoNeighbor
  <2>4. CASE Neighbor(b, k) = loc[t].dest
    BY <1>1, <2>1, <2>3, <2>4 DEF IInv, Unique, At
  <2>5. CASE Neighbor(b, k) = NoNeighbor /\ loc[t].slotHeld
    BY <1>1, <2>1, <2>5, NewNeighbor DEF Fills, Writing
  <2> QED
    BY <2>2, <2>4, <2>5
<1>2. ASSUME NEW t \in Threads, NEW u \in Threads, Writing(t), Writing(u),
             loc[t].dest = loc[u].dest
      PROVE  t = u
  <2> SUFFICES ASSUME t # u PROVE FALSE
    OBVIOUS
  <2>1. PICK b \in BlockIx, k \in Slot : b = loc[t].b /\ k = loc[t].k
    BY <1>2, Mine DEF Writing, PlaceOf, Updating
  <2>2. PICK c \in BlockIx, i \in Slot : c = loc[u].b /\ i = loc[u].k
    BY <1>2, Mine DEF Writing, PlaceOf, Updating
  <2>3. ~At(t, c, i) /\ ~At(u, b, k)
    <3>1. Apart(t, u)
      BY DEF IInv
    <3> QED
      BY <1>2, <2>1, <2>2, <3>1 DEF Apart, At
  <2>4. Neighbor(c, i) # loc[u].dest /\ Neighbor(b, k) # loc[t].dest
    BY <1>1, <1>2, <2>3
  <2>5. Fills(t) /\ Fills(u)
    BY <1>2, <2>1, <2>2, <2>4, Mine DEF Writing, KnowsOf, PlaceOf, Fills, Updating, Registering
  <2> QED
    BY <2>5, OneFills
<1>3. ASSUME NEW t \in Threads, Writing(t), NEW c \in BlockIx, NEW i \in Slot,
             NEW x, InSlot(c, i, loc[t].dest, x)
      PROVE  FALSE
  BY <1>1, <1>3 DEF InSlot, BeingWritten
<1>4. ASSUME NEW b \in BlockIx, NEW k \in Slot, NEW c \in BlockIx, NEW i \in Slot,
             InSlot(b, k, d, w), InSlot(c, i, d, v)
      PROVE  w = v
  BY <1>4 DEF IInv, Unique, InSlot
<1> QED
  BY <1>2, <1>3, <1>4 DEF Says

MapOf(E) == [d \in {x.dest : x \in E} |-> (CHOOSE x \in E : x.dest = d).weight]

LEMMA SaysPut ==
    ASSUME IInv, IInv', NEW d, NEW w, Says(d, w)',
           \A x, v : x # d => (Says(x, v)' <=> Says(x, v))
    PROVE  Linear!PutEdge(d, w)
<1>1. PICK E, F : E = Effective /\ F = Effective'
  OBVIOUS
<1>2. EffectiveIsSaid /\ EffectiveIsSaid' /\ SaysOneWeight /\ SaysOneWeight'
  BY EffectiveSays, OneWeight, PTL
<1>3. \A x, y \in E : x.dest = y.dest => x.weight = y.weight
  BY <1>1, <1>2 DEF EffectiveIsSaid, SaysOneWeight
<1>4. \A y \in F : y.dest = d => y.weight = w
  BY <1>1, <1>2 DEF EffectiveIsSaid, SaysOneWeight
<1>5. \E y \in F : y.dest = d
  <2>1. [dest |-> d, weight |-> w] \in F
    BY <1>1, <1>2 DEF EffectiveIsSaid
  <2> QED
    BY <2>1
<1>6. ASSUME NEW x \in E, x.dest # d PROVE x \in F
  BY <1>1, <1>2, <1>6 DEF EffectiveIsSaid
<1>7. ASSUME NEW y \in F, y.dest # d PROVE y \in E
  BY <1>1, <1>2, <1>7 DEF EffectiveIsSaid
<1>8. DOMAIN MapOf(F) = DOMAIN MapOf(E) \cup {d}
  BY <1>5, <1>6, <1>7 DEF MapOf
<1>9. ASSUME NEW x \in DOMAIN MapOf(F)
      PROVE  MapOf(F)[x] = IF x = d THEN w ELSE MapOf(E)[x]
  <2>1. PICK y \in F : y = CHOOSE z \in F : z.dest = x
    BY <1>9 DEF MapOf
  <2>2. y.dest = x /\ MapOf(F)[x] = y.weight
    BY <1>9, <2>1 DEF MapOf
  <2>3. CASE x = d
    BY <1>4, <2>2, <2>3
  <2>4. CASE x # d
    <3>1. y \in E
      BY <1>7, <2>2, <2>4
    <3>2. x \in DOMAIN MapOf(E)
      BY <2>2, <3>1 DEF MapOf
    <3>3. PICK e \in E : e = CHOOSE z \in E : z.dest = x
      BY <2>2, <3>1
    <3>4. e.dest = x /\ MapOf(E)[x] = e.weight
      BY <2>2, <3>1, <3>2, <3>3 DEF MapOf
    <3> QED
      BY <1>3, <2>2, <2>4, <3>1, <3>4
  <2> QED
    BY <2>3, <2>4
<1>10. MapOf(F) = [x \in DOMAIN MapOf(E) \cup {d} |-> IF x = d THEN w ELSE MapOf(E)[x]]
  <2>1. PICK S, g, h : /\ S = DOMAIN MapOf(E) \cup {d} /\ g = MapOf(F)
                       /\ h = [x \in S |-> IF x = d THEN w ELSE MapOf(E)[x]]
    OBVIOUS
  <2>2. g = [x \in S |-> g[x]]
    <3> DEFINE T == {y.dest : y \in F}
    <3> DEFINE weight(z) == (CHOOSE y \in F : y.dest = z).weight
    <3>1. g = [z \in T |-> weight(z)]
      BY <2>1 DEF MapOf
    <3>2. DOMAIN g = S
      BY <1>8, <2>1
    <3> HIDE DEF T, weight
    <3> QED
      BY <3>1, <3>2
  <2>3. \A x \in S : g[x] = h[x]
    BY <1>8, <1>9, <2>1
  <2>4. h = [x \in S |-> h[x]]
    BY <2>1
  <2>5. g = h
    BY <2>2, <2>3, <2>4
  <2> QED
    BY <2>1, <2>5
<1>11. Content = MapOf(E) /\ Content' = MapOf(F)
  BY <1>1 DEF Content, MapOf
<1> QED
  BY <1>10, <1>11 DEF Linear!PutEdge

LEMMA SaysSame ==
    ASSUME IInv, IInv', \A x, v : Says(x, v)' <=> Says(x, v)
    PROVE  Content' = Content
<1>1. EffectiveIsSaid /\ EffectiveIsSaid'
  BY EffectiveSays, PTL
<1>2. Effective' = Effective
  BY <1>1 DEF EffectiveIsSaid
<1> QED
  BY <1>2 DEF Content

(* Only who writes what matters, and what the other slots say.             *)
LEMMA SaysKept ==
    ASSUME BlockIx' = BlockIx,
           \A u \in Threads : /\ Writing(u)' <=> Writing(u)
                              /\ Writing(u) => loc'[u] = loc[u],
           \A c \in BlockIx, i \in Slot :
               \/ BeingWritten(c, i)
               \/ Neighbor(c, i)' = Neighbor(c, i) /\ Weight(c, i)' = Weight(c, i)
    PROVE  \A x, v : Says(x, v)' <=> Says(x, v)
<1>1. \A c \in BlockIx, i \in Slot : BeingWritten(c, i)' <=> BeingWritten(c, i)
  BY DEF BeingWritten, At
<1>2. \A c \in BlockIx, i \in Slot : \A x, v : InSlot(c, i, x, v)' <=> InSlot(c, i, x, v)
  BY <1>1 DEF InSlot
<1> QED
  BY <1>2 DEF Says

(* The effect of the steps on what the list says.                          *)
Stays == \A b \in BlockIx, k \in Slot :
    Neighbor(b, k) # NoNeighbor => Neighbor(b, k)' = Neighbor(b, k)

Off == ControlPoints \ (Updating \ {"u_lock"})

LEMMA OffStep ==
    ASSUME IInv, NEW t \in Threads, pc[t] \in Off, NEW label \in Off, NEW r,
           Goto(t, label, r), BlockIx' = BlockIx,
           \A c \in BlockIx, i \in Slot :
               Neighbor(c, i)' = Neighbor(c, i) /\ Weight(c, i)' = Weight(c, i)
    PROVE  \A x, v : Says(x, v)' <=> Says(x, v)
<1>1. \A u \in Threads : /\ Writing(u)' <=> Writing(u)
                         /\ Writing(u) => loc'[u] = loc[u]
  BY DEF IInv, TypeOK, Goto, Off, Writing
<1> QED
  BY <1>1, SaysKept

LEMMA OnStep ==
    ASSUME IInv, NEW t \in Threads, Writing(t), NEW label \in Updating \ {"u_lock"},
           Goto(t, label, loc[t]), BlockIx' = BlockIx,
           \A c \in BlockIx, i \in Slot :
               \/ At(t, c, i)
               \/ Neighbor(c, i)' = Neighbor(c, i) /\ Weight(c, i)' = Weight(c, i)
    PROVE  \A x, v : Says(x, v)' <=> Says(x, v)
<1>1. \A u \in Threads : /\ Writing(u)' <=> Writing(u)
                         /\ Writing(u) => loc'[u] = loc[u]
  BY DEF IInv, TypeOK, Goto, Writing
<1> QED
  BY <1>1, SaysKept DEF BeingWritten

LEMMA ReadersSay ==
    ASSUME IInv, NEW t \in Threads,
           \/ Start(t) \/ FirstPassHigh(t) \/ FirstPassScan(t) \/ FirstPassNextBlock(t)
           \/ SecondPassHigh(t) \/ SecondPassScan(t) \/ SecondPassNextBlock(t)
           \/ ReadThis(t) \/ LockTail(t) \/ FillNewBlock(t) \/ PutBack(t)
    PROVE  Stays /\ \A x, v : Says(x, v)' <=> Says(x, v)
<1>1. blocks' = blocks
  BY DEF Start, FirstPassHigh, FirstPassScan, FirstPassNextBlock, SecondPassHigh, ReadHigh,
         SecondPassScan, SecondPassNextBlock, ReadThis, LockTail, FillNewBlock, PutBack, Local
<1>2. /\ BlockIx' = BlockIx
      /\ \A c \in BlockIx, i \in Slot :
            Neighbor(c, i)' = Neighbor(c, i) /\ Weight(c, i)' = Weight(c, i)
  BY <1>1 DEF BlockIx, Neighbor, Weight, EdgeAt
<1>3. \E label \in Off : \E r : pc[t] \in Off /\ Goto(t, label, r)
  <2>1. CASE Start(t) \/ FirstPassHigh(t) \/ SecondPassHigh(t) \/ ReadThis(t) \/ FillNewBlock(t)
    BY <2>1 DEF Start, FirstPassHigh, SecondPassHigh, ReadHigh, ReadThis, FillNewBlock, Off,
                ControlPoints, Updating
  <2>2. CASE FirstPassScan(t)
    BY <2>2 DEF FirstPassScan, Off, ControlPoints, Updating
  <2>3. CASE FirstPassNextBlock(t)
    BY <2>3 DEF FirstPassNextBlock, Off, ControlPoints, Updating
  <2>4. CASE SecondPassScan(t)
    BY <2>4 DEF SecondPassScan, Off, ControlPoints, Updating
  <2>5. CASE SecondPassNextBlock(t)
    BY <2>5 DEF SecondPassNextBlock, Off, ControlPoints, Updating
  <2>6. CASE LockTail(t) \/ PutBack(t)
    BY <2>6 DEF LockTail, PutBack, Off, ControlPoints, Updating
  <2> QED
    BY <2>1, <2>2, <2>3, <2>4, <2>5, <2>6
<1> QED
  BY <1>2, <1>3, OffStep DEF Stays

LEMMA QuietWritersSay ==
    ASSUME IInv, NEW t \in Threads, LockSlot(t) \/ Recheck(t)
    PROVE  Stays /\ \A x, v : Says(x, v)' <=> Says(x, v)
<1>1. PICK b \in BlockIx, k \in Slot : b = loc[t].b /\ k = loc[t].k
  BY Mine DEF PlaceOf, LockSlot, Recheck
<1>2. \E label \in Off : \E r : pc[t] \in Off /\ Goto(t, label, r)
  BY DEF LockSlot, Recheck, Off, ControlPoints, Updating
<1>3. \/ blocks' = blocks
      \/ blocks' = [blocks EXCEPT ![b].edges[k].timeFirst = MARKER]
      \/ blocks' = [blocks EXCEPT ![b].edges[k].timeFirst = 0]
  <2>1. CASE LockSlot(t)
    BY <1>1, <2>1 DEF LockSlot
  <2>2. CASE Recheck(t)
    <3>1. PICK q \in Locals : q = loc[t]
      BY <2>2, Mine DEF Recheck, Typed
    <3>2. PICK r : r = [q EXCEPT !.endk = blocks[q.b].high]
      OBVIOUS
    <3>3. r.b = q.b /\ r.k = q.k
      BY <3>2 DEF Locals
    <3>4. blocks' = blocks \/ blocks' = [blocks EXCEPT ![r.b].edges[r.k].timeFirst = 0]
      BY <2>2, <3>1, <3>2 DEF Recheck
    <3> QED
      BY <1>1, <3>1, <3>3, <3>4
  <2> QED
    BY <2>1, <2>2
<1>4. \E f : Written(b, k, Neighbor(b, k), Weight(b, k), f, High(b))
  BY <1>3, Mine, WriteForms, NothingWritten DEF Typed
<1>5. /\ BlockIx' = BlockIx
      /\ \A c \in BlockIx, i \in Slot :
            Neighbor(c, i)' = Neighbor(c, i) /\ Weight(c, i)' = Weight(c, i)
  BY <1>4 DEF Written, BlockIx
<1> QED
  BY <1>2, <1>5, OffStep DEF Stays

LEMMA RegisteringSays ==
    ASSUME IInv, NEW t \in Threads,
           \/ TestNew(t) \/ RegisterNeighbor(t) \/ CountInBlock(t) \/ CountDegree(t)
           \/ TestHigh(t) \/ RaiseHigh(t)
    PROVE  Stays /\ \A x, v : Says(x, v)' <=> Says(x, v)
<1>1. Writing(t)
  BY DEF TestNew, RegisterNeighbor, CountInBlock, CountDegree, TestHigh, RaiseHigh, Writing,
         Updating
<1>2. PICK b \in BlockIx, k \in Slot : b = loc[t].b /\ k = loc[t].k
  BY <1>1, Mine DEF PlaceOf, Writing, Updating
<1>3. \E label \in Updating \ {"u_lock"} : Goto(t, label, loc[t])
  BY DEF TestNew, RegisterNeighbor, CountInBlock, CountDegree, TestHigh, RaiseHigh, Updating
<1>4. loc[t].dest \in Dests /\ loc[t].k + 1 \in Int
  BY <1>1, Mine DEF Typed, Writing, Updating
<1>6. \E n, h : /\ Written(b, k, n, Weight(b, k), TimeFirst(b, k), h)
                /\ n = Neighbor(b, k) \/ Neighbor(b, k) = NoNeighbor
  <2>1. CASE blocks' = blocks
    BY <2>1, Mine, NothingWritten
  <2>2. CASE RegisterNeighbor(t)
    <3>1. Neighbor(b, k) = NoNeighbor
      BY <1>2, <2>2, Mine DEF RegisterNeighbor, KnowsOf
    <3>2. blocks' = [blocks EXCEPT ![b].edges[k].neighbor = loc[t].dest]
      BY <1>2, <2>2 DEF RegisterNeighbor
    <3> QED
      BY <1>4, <3>1, <3>2, Mine, WriteForms DEF Typed
  <2>3. CASE CountInBlock(t) \/ RaiseHigh(t)
    <3>1. \/ blocks' = [blocks EXCEPT ![b].numEdges = @ + 1]
          \/ blocks' = [blocks EXCEPT ![b].high = loc[t].k + 1]
      BY <1>2, <2>3 DEF CountInBlock, RaiseHigh
    <3> QED
      BY <1>4, <3>1, Mine, WriteForms DEF Typed
  <2> QED
    BY <2>1, <2>2, <2>3 DEF TestNew, CountDegree, TestHigh, Local
<1>7. /\ BlockIx' = BlockIx
      /\ \A c \in BlockIx, i \in Slot :
            \/ At(t, c, i)
            \/ Neighbor(c, i)' = Neighbor(c, i) /\ Weight(c, i)' = Weight(c, i)
  BY <1>2, <1>6 DEF Written, BlockIx, At
<1>8. Stays
  BY <1>6 DEF Written, Stays
<1> QED
  BY <1>1, <1>3, <1>7, <1>8, OnStep

LEMMA WriteWeightSays ==
    ASSUME IInv, NEW t \in Threads, WriteWeight(t)
    PROVE  Stays /\ \A x, v : Says(x, v)' <=> Says(x, v)
<1>1. pc[t] = "u_unlock" /\ Writing(t)
  BY DEF WriteWeight, Writing, Updating
<1>2. PICK b \in BlockIx, k \in Slot : b = loc[t].b /\ k = loc[t].k
  BY <1>1, Mine DEF PlaceOf, Updating
<1>3. PICK q \in Locals : q = loc[t] /\ q.weight \in Weights /\ q.dest # NoNeighbor
  BY <1>1, Mine, DestsAssumption DEF Typed, NoNeighbor
<1>4. PICK f \in {0, MARKER} : f = IF q.slotHeld THEN 0 ELSE TimeFirst(b, k)
  BY Mine DEF Typed
<1>5. blocks' = [blocks EXCEPT ![b].edges[k] =
                   [@ EXCEPT !.weight = q.weight, !.timeFirst = f]]
  BY <1>2, <1>3, <1>4 DEF WriteWeight, TimeFirst
<1>6. Written(b, k, Neighbor(b, k), q.weight, f, High(b))
  BY <1>3, <1>5, Mine, WriteForms DEF Typed
<1>7. /\ BlockIx' = BlockIx
      /\ \A c \in BlockIx, i \in Slot :
            /\ Neighbor(c, i)' = Neighbor(c, i)
            /\ Weight(c, i)' = IF c = b /\ i = k THEN q.weight ELSE Weight(c, i)
  BY <1>6 DEF Written, BlockIx
<1>8. ~Writing(t)' /\ \A u \in Threads : u # t => (Writing(u)' <=> Writing(u)) /\ loc'[u] = loc[u]
  BY DEF WriteWeight, Goto, IInv, TypeOK, Writing, Updating
<1>9. \A u \in Threads : u # t => ~(Writing(u) /\ At(u, b, k))
  <2> SUFFICES ASSUME NEW u \in Threads, u # t PROVE ~(Writing(u) /\ At(u, b, k))
    OBVIOUS
  <2>1. Apart(t, u)
    BY DEF IInv
  <2> QED
    BY <1>1, <1>2, <2>1 DEF Apart, At
<1>10. Neighbor(b, k) = q.dest
  BY <1>1, <1>2, <1>3, Mine DEF KnowsOf
<1>11. BeingWritten(b, k) /\ ~BeingWritten(b, k)'
  BY <1>1, <1>2, <1>8, <1>9 DEF BeingWritten, At
<1>12. \A c \in BlockIx, i \in Slot :
         ~(c = b /\ i = k) => (BeingWritten(c, i)' <=> BeingWritten(c, i))
  BY <1>1, <1>2, <1>8 DEF BeingWritten, At
<1>13. \A c \in BlockIx, i \in Slot : \A x, v :
         InSlot(c, i, x, v)' <=> \/ InSlot(c, i, x, v)
                                 \/ c = b /\ i = k /\ x = q.dest /\ v = q.weight
  BY <1>3, <1>7, <1>10, <1>11, <1>12 DEF InSlot
<1>14. \A x, v : (\E u \in Threads : Writing(u) /\ loc[u].dest = x /\ loc[u].weight = v)
          <=> \/ \E u \in Threads : Writing(u)' /\ loc'[u].dest = x /\ loc'[u].weight = v
              \/ x = q.dest /\ v = q.weight
  BY <1>1, <1>3, <1>8
<1> QED
  BY <1>7, <1>13, <1>14 DEF Says, Stays

LEMMA LockWeightPuts ==
    ASSUME IInv, IInv', NEW t \in Threads, LockWeight(t)
    PROVE  Stays /\ Linear!PutEdge(loc[t].dest, loc[t].weight)
<1>1. pc[t] = "u_lock"
  BY DEF LockWeight
<1>0. PICK d, w : d = loc[t].dest /\ w = loc[t].weight
  OBVIOUS
<1>2. PICK b \in BlockIx, k \in Slot :
        b = loc[t].b /\ k = loc[t].k /\ d = loc[t].dest /\ w = loc[t].weight
  BY <1>0, <1>1, Mine DEF PlaceOf, Updating
<1>3. Written(b, k, Neighbor(b, k), MARKER, TimeFirst(b, k), High(b))
  BY <1>2, Mine, WriteForms DEF LockWeight, Typed
<1>4. /\ BlockIx' = BlockIx
      /\ \A c \in BlockIx, i \in Slot :
            /\ Neighbor(c, i)' = Neighbor(c, i)
            /\ Weight(c, i)' = IF c = b /\ i = k THEN MARKER ELSE Weight(c, i)
  BY <1>3 DEF Written, BlockIx
<1>5. /\ Writing(t)' /\ ~Writing(t) /\ loc'[t] = loc[t]
      /\ \A u \in Threads : u # t => (Writing(u)' <=> Writing(u)) /\ loc'[u] = loc[u]
  BY DEF LockWeight, Goto, IInv, TypeOK, Writing, Updating
<1>6. Neighbor(b, k) \in {NoNeighbor, d}
  BY <1>1, <1>2, Mine DEF KnowsOf
<1>7. Says(d, w)'
  BY <1>2, <1>5 DEF Says
<1>8. \A c \in BlockIx, i \in Slot :
        ~(c = b /\ i = k) => (BeingWritten(c, i)' <=> BeingWritten(c, i))
  BY <1>2, <1>5 DEF BeingWritten, At
<1>9. ASSUME NEW x, NEW v, x # d
      PROVE  Says(x, v)' <=> Says(x, v)
  <2>1. \A c \in BlockIx, i \in Slot : InSlot(c, i, x, v)' <=> InSlot(c, i, x, v)
    BY <1>4, <1>6, <1>8, <1>9 DEF InSlot
  <2>2. (\E u \in Threads : Writing(u) /\ loc[u].dest = x /\ loc[u].weight = v)
          <=> \E u \in Threads : Writing(u)' /\ loc'[u].dest = x /\ loc'[u].weight = v
    BY <1>2, <1>5, <1>9
  <2> QED
    BY <1>4, <2>1, <2>2 DEF Says
<1> QED
  BY <1>2, <1>4, <1>7, <1>9, SaysPut DEF Stays

LEMMA PublishPuts ==
    ASSUME IInv, IInv', NEW t \in Threads, Publish(t)
    PROVE  Stays /\ Linear!PutEdge(loc[t].dest, loc[t].weight)
<1>1. pc[t] = "t_publish"
  BY DEF Publish
<1>0. PICK d, w : d = loc[t].dest /\ w = loc[t].weight
  OBVIOUS
<1>2. PICK q \in Locals, n \in Nat :
        /\ q = loc[t] /\ n = Len(blocks) /\ d = q.dest /\ w = q.weight
        /\ d # NoNeighbor
  BY <1>0, <1>1, Mine, DestsAssumption DEF Typed, NoNeighbor
<1>3. PICK e : e = [neighbor |-> d, weight |-> w, timeFirst |-> 0]
  OBVIOUS
<1>4. PICK x : x = [NewBlock EXCEPT !.edges[0] = e, !.numEdges = 1, !.high = 1]
  OBVIOUS
<1>5. 0 \in Slot
  BY BlockSizeAssumption DEF Slot
<1>6. x.edges[0] = e /\ \A i \in Slot : i # 0 => x.edges[i] = EmptyEdge
  BY <1>4, <1>5 DEF NewBlock
<1>7. blocks' = Append(blocks, x)
  BY <1>2, <1>3, <1>4 DEF Publish
<1>8. /\ BlockIx = 1 .. n /\ BlockIx' = 1 .. n + 1 /\ n + 1 \notin BlockIx
      /\ blocks'[n + 1] = x /\ \A c \in BlockIx : blocks'[c] = blocks[c]
  BY <1>2, <1>7, Mine DEF BlockIx, Typed
<1>9. /\ Neighbor(n + 1, 0)' = d /\ Weight(n + 1, 0)' = w
      /\ \A i \in Slot : i # 0 => Neighbor(n + 1, i)' = NoNeighbor
      /\ \A c \in BlockIx, i \in Slot :
            Neighbor(c, i)' = Neighbor(c, i) /\ Weight(c, i)' = Weight(c, i)
  BY <1>3, <1>6, <1>8 DEF Neighbor, Weight, EdgeAt, EmptyEdge
<1>10. \A u \in Threads : /\ Writing(u)' <=> Writing(u)
                          /\ Writing(u) => loc'[u] = loc[u] /\ loc[u].b \in BlockIx
  <2>1. \A u \in Threads : Writing(u) => loc[u].b \in BlockIx
    BY Mine DEF Writing, PlaceOf, Updating
  <2> QED
    BY <1>1, <2>1 DEF Publish, Goto, IInv, TypeOK, Writing, Updating
<1>11. /\ \A i \in Slot : ~BeingWritten(n + 1, i)'
       /\ \A c \in BlockIx, i \in Slot : BeingWritten(c, i)' <=> BeingWritten(c, i)
  BY <1>8, <1>10 DEF BeingWritten, At
<1>12. ASSUME NEW y, NEW v
       PROVE  /\ \A c \in BlockIx, i \in Slot : InSlot(c, i, y, v)' <=> InSlot(c, i, y, v)
              /\ \A i \in Slot : InSlot(n + 1, i, y, v)' <=> i = 0 /\ y = d /\ v = w
  BY <1>2, <1>9, <1>11 DEF InSlot
<1>13. ASSUME NEW y, NEW v
       PROVE  Says(y, v)' <=> Says(y, v) \/ (y = d /\ v = w)
  <2>1. (\E u \in Threads : Writing(u) /\ loc[u].dest = y /\ loc[u].weight = v)
          <=> \E u \in Threads : Writing(u)' /\ loc'[u].dest = y /\ loc'[u].weight = v
    BY <1>10
  <2>2. (\E c \in BlockIx', i \in Slot : InSlot(c, i, y, v)')
          <=> \/ \E c \in BlockIx, i \in Slot : InSlot(c, i, y, v)
              \/ y = d /\ v = w
    <3>1. \A c : c \in BlockIx' <=> c \in BlockIx \/ c = n + 1
      BY <1>2, <1>8
    <3> QED
      BY <1>5, <1>12, <3>1
  <2> QED
    BY <2>1, <2>2 DEF Says
<1> QED
  BY <1>2, <1>9, <1>13, SaysPut DEF Stays

-----------------------------------------------------------------------------
(* The list is linearizable: it is the map that its insertions make, each  *)
(* taking effect where its thread empties the weight or links the block.   *)
THEOREM Linearizable == Spec => ImplementsNeighborMap
<1>1. Init => Linear!MapInit
  <2> SUFFICES ASSUME Init PROVE Linear!MapInit
    OBVIOUS
  <2>1. IInv
    BY Initially
  <2>2. \A d, w : ~Says(d, w)
    <3>1. \A t \in Threads : ~Writing(t)
      BY DEF Init, Writing, Updating
    <3>2. ASSUME NEW b \in BlockIx, NEW k \in Slot PROVE Neighbor(b, k) = NoNeighbor
      BY <3>2 DEF Init, BlockIx, Neighbor, EdgeAt, NewBlock, EmptyEdge
    <3> QED
      BY <3>1, <3>2 DEF Says, InSlot
  <2>3. Effective = {}
    BY <2>1, <2>2, EffectiveSays DEF EffectiveIsSaid
  <2> QED
    BY <2>3 DEF Content, Linear!MapInit
<1>2. ASSUME IInv, IInv', NEW t \in Threads, Start(t) \/ SearchAndInsert(t)
      PROVE  \/ Content' = Content
             \/ /\ LockWeight(t) \/ Publish(t)
                /\ Linear!MapNext
  <2>1. CASE LockWeight(t) \/ Publish(t)
    <3>1. loc[t].dest \in Dests /\ loc[t].weight \in Weights
      BY <1>2, <2>1, Mine DEF Typed, LockWeight, Publish
    <3> QED
      BY <1>2, <2>1, <3>1, LockWeightPuts, PublishPuts DEF Linear!MapNext
  <2>2. CASE ~(LockWeight(t) \/ Publish(t))
    <3>1. \A x, v : Says(x, v)' <=> Says(x, v)
      BY <1>2, <2>2, ReadersSay, QuietWritersSay, RegisteringSays, WriteWeightSays
      DEF SearchAndInsert, UpdateEdgeData
    <3> QED
      BY <1>2, <3>1, SaysSame
  <2> QED
    BY <2>1, <2>2
<1>3. IInv /\ IInv' /\ [Next]_vars => [Linear!MapNext]_Content
  <2> SUFFICES ASSUME IInv, IInv', [Next]_vars PROVE [Linear!MapNext]_Content
    OBVIOUS
  <2>1. CASE UNCHANGED vars
    BY <2>1 DEF vars, Content, Effective, Positions, Writer, InUse, EdgeAt
  <2> QED
    BY <1>2, <2>1 DEF Next, Finished
<1>4. IInv /\ IInv' /\ [Next]_vars =>
        [\A t \in Threads : LockWeight(t) \/ Publish(t) =>
             Linear!PutEdge(loc[t].dest, loc[t].weight)]_vars
  BY LockWeightPuts, PublishPuts
<1> QED
  BY <1>1, <1>3, <1>4, InductiveInvariant, PTL
  DEF Spec, ImplementsNeighborMap, Linear!MapSpec

(* No edge moves or disappears once it is in a slot.                       *)
THEOREM EdgesStay == Spec => EdgesStayPut
<1>1. IInv /\ IInv' /\ [Next]_vars =>
        [\A p \in Positions : InUse(p) =>
             EdgeAt(p[1], p[2])'.neighbor = EdgeAt(p[1], p[2]).neighbor]_vars
  <2> SUFFICES ASSUME IInv, IInv', Next, ~UNCHANGED vars, NEW p \in Positions, InUse(p)
               PROVE  EdgeAt(p[1], p[2])'.neighbor = EdgeAt(p[1], p[2]).neighbor
    OBVIOUS
  <2>1. PICK t \in Threads : Start(t) \/ SearchAndInsert(t)
    BY DEF Next, Finished
  <2>2. Stays
    BY <2>1, ReadersSay, QuietWritersSay, RegisteringSays, WriteWeightSays, LockWeightPuts,
       PublishPuts DEF SearchAndInsert, UpdateEdgeData
  <2>3. DOMAIN blocks = BlockIx
    BY Types DEF IInv, Typed
  <2>4. PICK b \in BlockIx, k \in Slot : p[1] = b /\ p[2] = k
    BY <2>3 DEF Positions
  <2>5. Neighbor(b, k) # NoNeighbor
    BY <2>4 DEF InUse, Neighbor
  <2>6. Neighbor(b, k)' = Neighbor(b, k)
    BY <2>2, <2>5 DEF Stays
  <2> QED
    BY <2>4, <2>6 DEF Neighbor, EdgeAt
<1> QED
  BY <1>1, InductiveInvariant, PTL DEF Spec, EdgesStayPut
-----------------------------------------------------------------------------
(* Between batches: the counters agree and no word is left empty.  A word  *)
(* that is empty has an owner, ...                                         *)
Owned ==
    /\ \A b \in BlockIx, k \in Slot :
        /\ TimeFirst(b, k) = MARKER => \E t \in Threads : Holding(t) /\ At(t, b, k)
        /\ Weight(b, k) = MARKER => \E t \in Threads : Writing(t) /\ At(t, b, k)
    /\ \A b \in BlockIx :
        next[b] = "MARKER" => \E t \in Threads : pc[t] \in AtTail /\ loc[t].b = b

(* ... and the counters are ahead of the marks by the edges that threads   *)
(* have counted and not yet put below the mark.                            *)
NumEdges(b) == blocks[b].numEdges
Below(b) == IF High(b) = -1 THEN 0 ELSE High(b)
InBlock(b) == {t \in Threads : pc[t] \in {"u_degree", "u_high", "u_raise"} /\ loc[t].b = b}
InDegree == {t \in Threads : pc[t] \in {"u_high", "u_raise", "t_publish"}}
Counted ==
    /\ \A b \in BlockIx :
        /\ High(b) >= 1 \/ (b = 1 /\ High(b) = -1)
        /\ NumEdges(b) = Below(b) + IF InBlock(b) = {} THEN 0 ELSE 1
    /\ degree = (Len(blocks) - 1) * BlockSize + Below(Len(blocks))
                    + IF InDegree = {} THEN 0 ELSE 1

CInv == Owned /\ Counted

LEMMA InitCounts == Init => CInv
<1> SUFFICES ASSUME Init PROVE CInv
  OBVIOUS
<1>1. BlockIx = {1} /\ Len(blocks) = 1
  BY DEF Init, BlockIx
<1>2. /\ High(1) = -1 /\ NumEdges(1) = 0 /\ next[1] = "ptr"
      /\ \A k \in Slot : TimeFirst(1, k) = 0 /\ Weight(1, k) = -1
  BY DEF Init, High, NumEdges, TimeFirst, Weight, EdgeAt, NewBlock, EmptyEdge
<1>3. InBlock(1) = {} /\ InDegree = {}
  BY DEF Init, InBlock, InDegree
<1>4. 0 * BlockSize = 0
  BY BlockSizeAssumption
<1>5. Owned
  BY <1>1, <1>2, MarkerAssumption DEF Owned
<1>6. Counted
  BY <1>1, <1>2, <1>3, <1>4 DEF Counted, Below, Init
<1> QED
  BY <1>5, <1>6 DEF CInv

(* It is enough to look at the words of the thread that takes the step.    *)
Alone(t) == \A u \in Threads : u # t => pc'[u] = pc[u] /\ loc'[u] = loc[u]

LEMMA OwnedKept ==
    ASSUME Owned, NEW t \in Threads, Alone(t),
           \A b \in BlockIx', k \in Slot :
             /\ TimeFirst(b, k)' = MARKER =>
                  \/ b \in BlockIx /\ TimeFirst(b, k) = MARKER /\ ~(Holding(t) /\ At(t, b, k))
                  \/ Holding(t)' /\ At(t, b, k)'
             /\ Weight(b, k)' = MARKER =>
                  \/ b \in BlockIx /\ Weight(b, k) = MARKER /\ ~(Writing(t) /\ At(t, b, k))
                  \/ Writing(t)' /\ At(t, b, k)',
           \A b \in BlockIx' : next'[b] = "MARKER" =>
                  \/ b \in BlockIx /\ next[b] = "MARKER" /\ ~(pc[t] \in AtTail /\ loc[t].b = b)
                  \/ pc'[t] \in AtTail /\ loc'[t].b = b
    PROVE  Owned'
<1>1. ASSUME NEW b \in BlockIx', NEW k \in Slot, TimeFirst(b, k)' = MARKER
      PROVE  \E u \in Threads : Holding(u)' /\ At(u, b, k)'
  <2>1. CASE Holding(t)' /\ At(t, b, k)'
    BY <2>1
  <2>2. CASE b \in BlockIx /\ TimeFirst(b, k) = MARKER /\ ~(Holding(t) /\ At(t, b, k))
    <3>1. PICK u \in Threads : Holding(u) /\ At(u, b, k)
      BY <2>2 DEF Owned
    <3>2. Holding(u)' /\ At(u, b, k)'
      BY <2>2, <3>1 DEF Alone, Holding, At
    <3> QED
      BY <3>2
  <2> QED
    BY <1>1, <2>1, <2>2
<1>2. ASSUME NEW b \in BlockIx', NEW k \in Slot, Weight(b, k)' = MARKER
      PROVE  \E u \in Threads : Writing(u)' /\ At(u, b, k)'
  <2>1. CASE Writing(t)' /\ At(t, b, k)'
    BY <2>1
  <2>2. CASE b \in BlockIx /\ Weight(b, k) = MARKER /\ ~(Writing(t) /\ At(t, b, k))
    <3>1. PICK u \in Threads : Writing(u) /\ At(u, b, k)
      BY <2>2 DEF Owned
    <3>2. Writing(u)' /\ At(u, b, k)'
      BY <2>2, <3>1 DEF Alone, Writing, At
    <3> QED
      BY <3>2
  <2> QED
    BY <1>2, <2>1, <2>2
<1>3. ASSUME NEW b \in BlockIx', next'[b] = "MARKER"
      PROVE  \E u \in Threads : pc'[u] \in AtTail /\ loc'[u].b = b
  <2>1. CASE pc'[t] \in AtTail /\ loc'[t].b = b
    BY <2>1
  <2>2. CASE b \in BlockIx /\ next[b] = "MARKER" /\ ~(pc[t] \in AtTail /\ loc[t].b = b)
    <3>1. PICK u \in Threads : pc[u] \in AtTail /\ loc[u].b = b
      BY <2>2 DEF Owned
    <3>2. pc'[u] \in AtTail /\ loc'[u].b = b
      BY <2>2, <3>1 DEF Alone
    <3> QED
      BY <3>2
  <2> QED
    BY <1>3, <2>1, <2>2
<1> QED
  BY <1>1, <1>2, <1>3 DEF Owned

(* At most one thread is ahead of a mark.                                  *)
LEMMA OneAhead ==
    ASSUME IInv, NEW t \in Threads, NEW u \in Threads,
           pc[t] \in Registering \cup {"t_new", "t_publish"},
           pc[u] \in Registering \cup {"t_new", "t_publish"}
    PROVE  t = u
<1> SUFFICES ASSUME t # u PROVE FALSE
  OBVIOUS
<1>1. ASSUME NEW v \in Threads, NEW x \in Threads, v # x,
             pc[v] \in {"t_new", "t_publish"}, pc[x] \in Registering
      PROVE  FALSE
  <2>1. PICK b \in BlockIx, k \in Slot : b = loc[x].b /\ k = loc[x].k /\ b = Len(blocks)
                                          /\ High(b) <= k
    BY <1>1, FillsAtMark DEF Fills
  <2>2. loc[v].b = b
    BY <1>1, <2>1, Mine DEF PlaceOf
  <2>3. Passed(v, b, k)
    BY <1>1, <2>2 DEF Passed, AtTail, Updating
  <2>4. k < High(b)
    BY <2>3, Mine DEF SearchedOf
  <2> QED
    BY <2>1, <2>4, Mine DEF Typed, Slot
<1>2. CASE pc[t] \in Registering /\ pc[u] \in Registering
  BY <1>2, OneFills DEF Fills
<1>3. CASE pc[t] \in {"t_new", "t_publish"} /\ pc[u] \in {"t_new", "t_publish"}
  <2>1. loc[t].b = loc[u].b
    BY <1>3, Mine DEF PlaceOf
  <2>2. Apart(t, u)
    BY DEF IInv
  <2> QED
    BY <1>3, <2>1, <2>2 DEF Apart, AtTail
<1> QED
  BY <1>1, <1>2, <1>3

(* Nothing that is counted changes.                                        *)
Uncounted(t) ==
    /\ Len(blocks') = Len(blocks)
    /\ \A b \in BlockIx : High(b)' = High(b) /\ NumEdges(b)' = NumEdges(b)
LEMMA CountedKept ==
    ASSUME Counted, NEW t \in Threads, Alone(t), Uncounted(t), Len(blocks) \in BlockIx,
           degree' = degree,
           pc'[t] \in {"u_degree", "u_high", "u_raise"}
               <=> pc[t] \in {"u_degree", "u_high", "u_raise"},
           pc[t] \in {"u_degree", "u_high", "u_raise"} => loc'[t].b = loc[t].b,
           pc'[t] \in {"u_high", "u_raise", "t_publish"}
               <=> pc[t] \in {"u_high", "u_raise", "t_publish"}
    PROVE  Counted'
<1>1. BlockIx' = BlockIx
  BY DEF Uncounted, BlockIx
<1>2. \A b \in BlockIx : InBlock(b)' = InBlock(b) /\ Below(b)' = Below(b)
  BY DEF Alone, InBlock, Below, Uncounted
<1>3. InDegree' = InDegree
  BY DEF Alone, InDegree
<1>4. Below(Len(blocks))' = Below(Len(blocks))
  BY DEF Uncounted, Below
<1> QED
  BY <1>1, <1>2, <1>3, <1>4 DEF Counted, Uncounted

LEMMA GotoMoves ==
    ASSUME TypeOK, NEW t \in Threads, NEW label, NEW r, Goto(t, label, r)
    PROVE  pc'[t] = label /\ loc'[t] = r /\ Alone(t)
BY DEF Goto, TypeOK, Alone

(* The slot and the words of a thread stay with it.                        *)
StaysPut(t) ==
    /\ Holding(t) => Holding(t)' /\ loc'[t].b = loc[t].b /\ loc'[t].k = loc[t].k
    /\ Writing(t) => Writing(t)' /\ loc'[t].b = loc[t].b /\ loc'[t].k = loc[t].k
    /\ pc[t] \in AtTail => pc'[t] \in AtTail /\ loc'[t].b = loc[t].b

LEMMA NothingWrittenOwned ==
    ASSUME Owned, NEW t \in Threads, Alone(t), StaysPut(t), blocks' = blocks, next' = next
    PROVE  Owned'
<1>1. /\ BlockIx' = BlockIx
      /\ \A b, k : TimeFirst(b, k)' = TimeFirst(b, k) /\ Weight(b, k)' = Weight(b, k)
  BY DEF BlockIx, TimeFirst, Weight, EdgeAt
<1>2. \A b \in BlockIx, k \in Slot :
        /\ Holding(t) /\ At(t, b, k) => Holding(t)' /\ At(t, b, k)'
        /\ Writing(t) /\ At(t, b, k) => Writing(t)' /\ At(t, b, k)'
  BY DEF StaysPut, At
<1>3. \A b : pc[t] \in AtTail /\ loc[t].b = b => pc'[t] \in AtTail /\ loc'[t].b = b
  BY DEF StaysPut
<1> QED
  BY <1>1, <1>2, <1>3, OwnedKept

LEMMA SameUncounted == blocks' = blocks => \A t : Uncounted(t)
BY DEF Uncounted, High, NumEdges

LEMMA LastBlock == IInv => Len(blocks) \in BlockIx /\ Len(blocks) \in Nat
<1> SUFFICES ASSUME IInv PROVE Len(blocks) \in BlockIx /\ Len(blocks) \in Nat
  OBVIOUS
<1>1. Len(blocks) \in Nat /\ 1 \in BlockIx
  BY Types DEF IInv, Typed
<1> QED
  BY <1>1 DEF BlockIx

Searching == {"idle", "p1_high", "p1_scan", "p2_high", "p2_scan"}

LEMMA SearchCounts ==
    ASSUME IInv, CInv, NEW t \in Threads,
           \/ Start(t) \/ FirstPassHigh(t) \/ FirstPassScan(t) \/ FirstPassNextBlock(t)
           \/ SecondPassHigh(t) \/ SecondPassScan(t) \/ SecondPassNextBlock(t)
    PROVE  CInv'
<1>1. /\ pc[t] \in Searching /\ blocks' = blocks /\ next' = next /\ degree' = degree
      /\ \E label \in Searching \cup {"u_lock", "p2_lock", "t_lock"} : \E r : Goto(t, label, r)
  <2>1. CASE Start(t)
    BY <2>1 DEF Start, Searching
  <2>2. CASE FirstPassHigh(t) \/ SecondPassHigh(t)
    BY <2>2 DEF FirstPassHigh, SecondPassHigh, ReadHigh, Local, Searching
  <2>3. CASE FirstPassScan(t)
    <3>1. pc[t] \in Searching /\ blocks' = blocks /\ next' = next /\ degree' = degree
      BY <2>3 DEF FirstPassScan, Local, Searching
    <3>2. \E label \in {"u_lock", "p1_scan"} : \E r : Goto(t, label, r)
      BY <2>3 DEF FirstPassScan
    <3> QED
      BY <3>1, <3>2 DEF Searching
  <2>4. CASE FirstPassNextBlock(t)
    <3>1. pc[t] \in Searching /\ blocks' = blocks /\ next' = next /\ degree' = degree
      BY <2>4 DEF FirstPassNextBlock, Local, Searching
    <3>2. \E label \in {"p1_high", "p2_high"} : \E r : Goto(t, label, r)
      BY <2>4 DEF FirstPassNextBlock
    <3> QED
      BY <3>1, <3>2 DEF Searching
  <2>5. CASE SecondPassScan(t)
    <3>1. pc[t] \in Searching /\ blocks' = blocks /\ next' = next /\ degree' = degree
      BY <2>5 DEF SecondPassScan, Local, Searching
    <3>2. \E label \in {"u_lock", "p2_lock", "p2_scan"} : \E r : Goto(t, label, r)
      BY <2>5 DEF SecondPassScan
    <3> QED
      BY <3>1, <3>2 DEF Searching
  <2>6. CASE SecondPassNextBlock(t)
    <3>1. pc[t] \in Searching /\ blocks' = blocks /\ next' = next /\ degree' = degree
      BY <2>6 DEF SecondPassNextBlock, Local, Searching
    <3>2. \E label \in {"t_lock", "p2_high"} : \E r : Goto(t, label, r)
      BY <2>6 DEF SecondPassNextBlock
    <3> QED
      BY <3>1, <3>2 DEF Searching
  <2> QED
    BY <2>1, <2>2, <2>3, <2>4, <2>5, <2>6
<1>2. pc'[t] \in Searching \cup {"u_lock", "p2_lock", "t_lock"} /\ Alone(t)
  BY <1>1, Mine, GotoMoves
<1>3. StaysPut(t)
  BY <1>1, Mine DEF StaysPut, PlaceOf, Holding, Writing, AtTail, Searching, Updating
<1>4. Owned'
  BY <1>1, <1>2, <1>3, NothingWrittenOwned DEF CInv
<1>5. Counted'
  BY <1>1, <1>2, SameUncounted, LastBlock, CountedKept DEF CInv, Searching
<1> QED
  BY <1>4, <1>5 DEF CInv

(* A thread that has its slot or the tail, and writes to no word.          *)
LEMMA HolderOwned ==
    ASSUME IInv, CInv, NEW t \in Threads, blocks' = blocks, next' = next,
           \/ ReadThis(t) \/ TestNew(t) \/ TestHigh(t) \/ CountDegree(t) \/ FillNewBlock(t)
    PROVE  Owned' /\ Alone(t)
<1>1. /\ pc[t] \in {"p2_this", "u_test", "u_high", "u_degree", "t_new"}
      /\ loc[t] \in Locals
  <2>1. pc[t] \in {"p2_this", "u_test", "u_high", "u_degree", "t_new"}
    BY DEF ReadThis, TestNew, TestHigh, CountDegree, FillNewBlock
  <2> QED
    BY <2>1, Mine DEF Typed
<1>2. /\ Alone(t) /\ loc'[t].b = loc[t].b /\ loc'[t].k = loc[t].k
      /\ loc'[t].slotHeld = loc[t].slotHeld /\ pc'[t] # "idle"
      /\ pc[t] \in {"u_test", "u_high", "u_degree"}
            => pc'[t] \in {"u_neighbor", "u_unlock", "u_raise", "u_high"}
      /\ pc[t] = "p2_this" => pc'[t] = "p2_recheck"
      /\ pc[t] = "t_new" => pc'[t] = "t_publish"
  <2>1. CASE ReadThis(t)
    <3>1. PICK q \in Locals : q = loc[t]
      BY <1>1
    <3>2. PICK n, r : r = [q EXCEPT !.this = n] /\ Goto(t, "p2_recheck", r) /\ pc[t] = "p2_this"
      BY <2>1, <3>1 DEF ReadThis
    <3>3. r.b = q.b /\ r.k = q.k /\ r.slotHeld = q.slotHeld
      BY <3>2 DEF Locals
    <3>4. pc'[t] = "p2_recheck" /\ loc'[t] = r /\ Alone(t)
      BY <3>2, Mine, GotoMoves
    <3> QED
      BY <3>1, <3>2, <3>3, <3>4
  <2>2. CASE TestNew(t)
    <3>1. pc[t] = "u_test" /\ \E label \in {"u_neighbor", "u_unlock"} : Goto(t, label, loc[t])
      BY <2>2 DEF TestNew
    <3> QED
      BY <3>1, Mine, GotoMoves
  <2>3. CASE TestHigh(t)
    <3>1. pc[t] = "u_high" /\ \E label \in {"u_raise", "u_unlock"} : Goto(t, label, loc[t])
      BY <2>3 DEF TestHigh
    <3> QED
      BY <3>1, Mine, GotoMoves
  <2>4. CASE CountDegree(t)
    <3>1. pc[t] = "u_degree" /\ Goto(t, "u_high", loc[t])
      BY <2>4 DEF CountDegree
    <3> QED
      BY <3>1, Mine, GotoMoves
  <2>5. CASE FillNewBlock(t)
    <3>1. pc[t] = "t_new" /\ Goto(t, "t_publish", loc[t])
      BY <2>5 DEF FillNewBlock
    <3> QED
      BY <3>1, Mine, GotoMoves
  <2> QED
    BY <2>1, <2>2, <2>3, <2>4, <2>5
<1>3. StaysPut(t)
  BY <1>1, <1>2 DEF StaysPut, Holding, Writing, Updating, AtTail
<1> QED
  BY <1>2, <1>3, NothingWrittenOwned DEF CInv

LEMMA ReadsCount ==
    ASSUME IInv, IInv', CInv, NEW t \in Threads, ReadThis(t) \/ TestNew(t) \/ TestHigh(t)
    PROVE  CInv'
<1>1. blocks' = blocks /\ next' = next /\ degree' = degree
  BY DEF ReadThis, TestNew, TestHigh, Local
<1>2. Owned' /\ Alone(t)
  BY <1>1, HolderOwned
<1>3. \/ pc[t] = "p2_this" /\ pc'[t] = "p2_recheck"
      \/ pc[t] = "u_test" /\ pc'[t] \in {"u_neighbor", "u_unlock"}
      \/ pc[t] = "u_high" /\ pc'[t] = "u_raise" /\ loc'[t] = loc[t]
  <2>1. CASE ReadThis(t)
    <3>1. pc[t] = "p2_this" /\ \E r : Goto(t, "p2_recheck", r)
      BY <2>1 DEF ReadThis
    <3> QED
      BY <3>1, Mine, GotoMoves
  <2>2. CASE TestNew(t)
    <3>1. pc[t] = "u_test" /\ \E label \in {"u_neighbor", "u_unlock"} : Goto(t, label, loc[t])
      BY <2>2 DEF TestNew
    <3> QED
      BY <3>1, Mine, GotoMoves
  <2>3. CASE TestHigh(t)
    <3>1. pc[t] = "u_high" /\ loc[t].k >= High(loc[t].b)
      <4>1. pc[t] = "u_high"
        BY <2>3 DEF TestHigh
      <4> QED
        BY <4>1, Mine DEF Typed, PlaceOf, KnowsOf, Registering
    <3>2. Goto(t, "u_raise", loc[t])
      BY <2>3, <3>1 DEF TestHigh, High
    <3> QED
      BY <3>1, <3>2, Mine, GotoMoves
  <2> QED
    BY <2>1, <2>2, <2>3
<1>4. Counted'
  BY <1>1, <1>2, <1>3, SameUncounted, LastBlock, CountedKept DEF CInv
<1> QED
  BY <1>2, <1>4 DEF CInv

LEMMA DegreeCounts ==
    ASSUME IInv, CInv, NEW t \in Threads, CountDegree(t) \/ FillNewBlock(t)
    PROVE  CInv'
<1>1. /\ blocks' = blocks /\ next' = next /\ degree' = degree + 1
      /\ \/ pc[t] = "u_degree" /\ Goto(t, "u_high", loc[t])
         \/ pc[t] = "t_new" /\ Goto(t, "t_publish", loc[t])
  BY DEF CountDegree, FillNewBlock
<1>2. Owned' /\ Alone(t)
  BY <1>1, HolderOwned
<1>3. /\ loc'[t] = loc[t]
      /\ \/ pc[t] = "u_degree" /\ pc'[t] = "u_high"
         \/ pc[t] = "t_new" /\ pc'[t] = "t_publish"
  BY <1>1, Mine, GotoMoves
<1>4. InDegree = {}
  <2> SUFFICES ASSUME NEW u \in InDegree PROVE FALSE
    OBVIOUS
  <2>1. u = t
    BY <1>3, OneAhead DEF InDegree, Registering
  <2> QED
    BY <1>3, <2>1 DEF InDegree
<1>5. t \in InDegree'
  BY <1>3 DEF InDegree
<1>6. /\ \A b \in BlockIx : InBlock(b)' = InBlock(b)
  BY <1>2, <1>3 DEF InBlock, Alone
<1>7. /\ BlockIx' = BlockIx /\ Len(blocks') = Len(blocks)
      /\ \A b : NumEdges(b)' = NumEdges(b) /\ High(b)' = High(b) /\ Below(b)' = Below(b)
  BY <1>1 DEF BlockIx, NumEdges, High, Below
<1>8. Below(Len(blocks))' = Below(Len(blocks))
  BY <1>1 DEF High, Below
<1>9. /\ degree = (Len(blocks) - 1) * BlockSize + Below(Len(blocks))
      /\ degree \in Nat
      /\ (Len(blocks) - 1) * BlockSize \in Int /\ Below(Len(blocks)) \in Int
  <2>1. degree \in Nat /\ Below(Len(blocks)) \in Int
    BY Mine, LastBlock DEF TypeOK, Typed, Below
  <2>2. (Len(blocks) - 1) * BlockSize \in Int
    BY LastBlock, BlockSizeAssumption
  <2> QED
    BY <1>4, <2>1, <2>2 DEF CInv, Counted
<1>10. degree' = (Len(blocks') - 1) * BlockSize + Below(Len(blocks))' + 1
  BY <1>1, <1>7, <1>8, <1>9
<1>11. Counted'
  BY <1>5, <1>6, <1>7, <1>10 DEF CInv, Counted
<1> QED
  BY <1>2, <1>11 DEF CInv

(* Only CountInBlock writes to the edges counted in a block.               *)
LEMMA NumEdgesKept ==
    ASSUME blocks \in Seq(Block), NEW b \in BlockIx, NEW k \in Slot,
           \/ \E x : blocks' = [blocks EXCEPT ![b].edges[k].timeFirst = x]
           \/ \E x : blocks' = [blocks EXCEPT ![b].edges[k].weight = x]
           \/ \E x : blocks' = [blocks EXCEPT ![b].edges[k].neighbor = x]
           \/ \E x, y : blocks' = [blocks EXCEPT ![b].edges[k] =
                                     [@ EXCEPT !.weight = x, !.timeFirst = y]]
           \/ \E x : blocks' = [blocks EXCEPT ![b].high = x]
    PROVE  \A c \in BlockIx : NumEdges(c)' = NumEdges(c)
<1>1. PICK x \in Block : x = blocks[b]
  BY ZenonT(30), LenProperties DEF BlockIx
<1>2. DOMAIN blocks = BlockIx
  BY LenProperties DEF BlockIx
<1>3. PICK y : /\ blocks' = [blocks EXCEPT ![b] = y]
               /\ (\E z : y = [x EXCEPT !.edges = z]) \/ (\E h : y = [x EXCEPT !.high = h])
  <2>1. CASE \E f : blocks' = [blocks EXCEPT ![b].edges[k].timeFirst = f]
    BY <1>1, <2>1
  <2>2. CASE \E f : blocks' = [blocks EXCEPT ![b].edges[k].weight = f]
    BY <1>1, <2>2
  <2>3. CASE \E f : blocks' = [blocks EXCEPT ![b].edges[k].neighbor = f]
    BY <1>1, <2>3
  <2>4. CASE \E f, g : blocks' = [blocks EXCEPT ![b].edges[k] =
                                     [@ EXCEPT !.weight = f, !.timeFirst = g]]
    BY <1>1, <2>4
  <2>5. CASE \E h : blocks' = [blocks EXCEPT ![b].high = h]
    BY <1>1, <2>5
  <2> QED
    BY <2>1, <2>2, <2>3, <2>4, <2>5
<1>4. y.numEdges = x.numEdges
  BY <1>3 DEF Block
<1>5. \A c \in BlockIx : blocks'[c] = IF c = b THEN y ELSE blocks[c]
  BY <1>2, <1>3
<1> QED
  BY <1>1, <1>4, <1>5 DEF NumEdges

(* A write to slot k of block b, or to no slot if it writes what is there. *)
LEMMA WrittenOwned ==
    ASSUME Owned, NEW t \in Threads, Alone(t), NEW b \in BlockIx, NEW k \in Slot,
           NEW n, NEW w, NEW f, NEW h, Written(b, k, n, w, f, h), next' = next,
           Holding(t) => \/ Holding(t)' /\ loc'[t].b = loc[t].b /\ loc'[t].k = loc[t].k
                         \/ At(t, b, k) /\ f = 0,
           Writing(t) => \/ Writing(t)' /\ loc'[t].b = loc[t].b /\ loc'[t].k = loc[t].k
                         \/ At(t, b, k) /\ w # MARKER,
           f = MARKER => f = TimeFirst(b, k) \/ (Holding(t)' /\ At(t, b, k)'),
           w = MARKER => w = Weight(b, k) \/ (Writing(t)' /\ At(t, b, k)'),
           pc[t] \notin AtTail
    PROVE  Owned'
<1>1. BlockIx' = BlockIx /\ 0 # MARKER
  BY MarkerAssumption DEF Written, BlockIx
<1>2. ASSUME NEW c \in BlockIx, NEW i \in Slot, TimeFirst(c, i)' = MARKER
      PROVE  \/ TimeFirst(c, i) = MARKER /\ ~(Holding(t) /\ At(t, c, i))
             \/ Holding(t)' /\ At(t, c, i)'
  <2>1. TimeFirst(c, i)' = IF c = b /\ i = k THEN f ELSE TimeFirst(c, i)
    BY DEF Written
  <2> QED
    BY <1>1, <1>2, <2>1 DEF At
<1>3. ASSUME NEW c \in BlockIx, NEW i \in Slot, Weight(c, i)' = MARKER
      PROVE  \/ Weight(c, i) = MARKER /\ ~(Writing(t) /\ At(t, c, i))
             \/ Writing(t)' /\ At(t, c, i)'
  <2>1. Weight(c, i)' = IF c = b /\ i = k THEN w ELSE Weight(c, i)
    BY DEF Written
  <2> QED
    BY <1>1, <1>3, <2>1 DEF At
<1> QED
  BY <1>1, <1>2, <1>3, OwnedKept

LEMMA WrittenUncounted ==
    ASSUME NEW t, NEW b \in BlockIx, NEW k \in Slot, NEW n, NEW w, NEW f,
           Written(b, k, n, w, f, High(b)), \A c \in BlockIx : NumEdges(c)' = NumEdges(c)
    PROVE  Uncounted(t)
BY DEF Written, Uncounted

LEMMA LocksCount ==
    ASSUME IInv, CInv, NEW t \in Threads, LockSlot(t) \/ LockWeight(t)
    PROVE  CInv'
<1>1. /\ next' = next /\ degree' = degree
      /\ pc[t] \in {"p2_lock", "u_lock"}
  BY DEF LockSlot, LockWeight
<1>2. PICK b \in BlockIx, k \in Slot : b = loc[t].b /\ k = loc[t].k
  BY <1>1, Mine DEF PlaceOf, Updating
<1>3. PICK q \in Locals : q = loc[t]
  BY <1>1, Mine DEF Typed
<1>4. ~Writing(t)
  BY <1>1 DEF Writing, Updating
<1>5. CASE LockSlot(t)
  <2>1. PICK r : r = [q EXCEPT !.slotHeld = TRUE]
    OBVIOUS
  <2>2. r.b = b /\ r.k = k /\ r.slotHeld = TRUE
    BY <1>2, <1>3, <2>1 DEF Locals
  <2>3. pc[t] = "p2_lock" /\ Goto(t, "p2_this", r)
    BY <1>3, <1>5, <2>1 DEF LockSlot
  <2>4. pc'[t] = "p2_this" /\ loc'[t] = r /\ Alone(t)
    BY <2>3, Mine, GotoMoves
  <2>5. blocks' = [blocks EXCEPT ![b].edges[k].timeFirst = MARKER]
    BY <1>2, <1>5 DEF LockSlot
  <2>6. Written(b, k, Neighbor(b, k), Weight(b, k), MARKER, High(b))
    BY <2>5, Mine, WriteForms DEF Typed
  <2>7. Uncounted(t)
    <3>1. \A c \in BlockIx : NumEdges(c)' = NumEdges(c)
      BY <2>5, Mine, NumEdgesKept DEF Typed
    <3> QED
      BY <2>6, <3>1, WrittenUncounted
  <2>8. Holding(t)' /\ At(t, b, k)' /\ ~Holding(t)
    BY <1>2, <2>2, <2>3, <2>4, Mine DEF Holding, At, PlaceOf, Updating
  <2>9. Owned'
    BY <1>1, <1>4, <2>4, <2>6, <2>8, WrittenOwned DEF CInv, AtTail
  <2>10. Counted'
    BY <1>1, <2>3, <2>4, <2>7, LastBlock, CountedKept DEF CInv
  <2> QED
    BY <2>9, <2>10 DEF CInv
<1>6. CASE LockWeight(t)
  <2>1. pc[t] = "u_lock" /\ Goto(t, "u_test", q)
    BY <1>3, <1>6 DEF LockWeight
  <2>2. pc'[t] = "u_test" /\ loc'[t] = q /\ Alone(t)
    BY <2>1, Mine, GotoMoves
  <2>3. blocks' = [blocks EXCEPT ![b].edges[k].weight = MARKER]
    BY <1>2, <1>6 DEF LockWeight
  <2>4. Written(b, k, Neighbor(b, k), MARKER, TimeFirst(b, k), High(b))
    BY <2>3, Mine, WriteForms DEF Typed
  <2>5. Uncounted(t)
    <3>1. \A c \in BlockIx : NumEdges(c)' = NumEdges(c)
      BY <2>3, Mine, NumEdgesKept DEF Typed
    <3> QED
      BY <2>4, <3>1, WrittenUncounted
  <2>6. Writing(t)' /\ At(t, b, k)' /\ (Holding(t) => Holding(t)')
    BY <1>2, <1>3, <2>1, <2>2 DEF Holding, At, Writing, Updating
  <2>7. Owned'
    BY <1>1, <1>2, <1>3, <1>4, <2>2, <2>4, <2>6, WrittenOwned DEF CInv, AtTail, At
  <2>8. Counted'
    BY <1>1, <2>1, <2>2, <2>5, LastBlock, CountedKept DEF CInv
  <2> QED
    BY <2>7, <2>8 DEF CInv
<1> QED
  BY <1>5, <1>6

LEMMA RecheckCounts ==
    ASSUME IInv, CInv, NEW t \in Threads, Recheck(t)
    PROVE  CInv'
<1>1. pc[t] = "p2_recheck" /\ next' = next /\ degree' = degree
  BY DEF Recheck
<1>2. PICK b \in BlockIx, k \in Slot : b = loc[t].b /\ k = loc[t].k
  BY <1>1, Mine DEF PlaceOf
<1>3. PICK q \in Locals : q = loc[t] /\ q.slotHeld = TRUE
  BY <1>1, Mine DEF Typed, PlaceOf
<1>4. High(b) \in Int /\ k + 1 \in Nat
  BY <1>1, Mine, BlockSizeAssumption DEF Slot, Typed
<1>5. PICK r : r = [q EXCEPT !.endk = High(b)]
  OBVIOUS
<1>6. r \in Locals /\ r.b = b /\ r.k = k /\ r.slotHeld = TRUE
  BY <1>2, <1>3, <1>4, <1>5 DEF Locals
<1>7. \/ Goto(t, "u_lock", r) /\ UNCHANGED blocks
      \/ /\ blocks' = [blocks EXCEPT ![r.b].edges[r.k].timeFirst = 0]
         /\ Goto(t, "p2_scan", [r EXCEPT !.k = @ + 1, !.slotHeld = FALSE])
  BY <1>2, <1>3, <1>5 DEF Recheck, High
<1>8. ~Writing(t) /\ pc[t] \notin AtTail /\ Holding(t) /\ At(t, b, k)
  BY <1>1, <1>2, <1>3 DEF Writing, Updating, AtTail, Holding, At
<1>9. CASE Goto(t, "u_lock", r) /\ UNCHANGED blocks
  <2>1. pc'[t] = "u_lock" /\ loc'[t] = r /\ Alone(t)
    BY <1>9, Mine, GotoMoves
  <2>2. StaysPut(t)
    BY <1>2, <1>3, <1>6, <1>8, <2>1 DEF StaysPut, Holding
  <2>3. Owned'
    BY <1>1, <1>9, <2>1, <2>2, NothingWrittenOwned DEF CInv
  <2>4. Counted'
    BY <1>1, <1>9, <2>1, SameUncounted, LastBlock, CountedKept DEF CInv
  <2> QED
    BY <2>3, <2>4 DEF CInv
<1>10. CASE /\ blocks' = [blocks EXCEPT ![r.b].edges[r.k].timeFirst = 0]
            /\ Goto(t, "p2_scan", [r EXCEPT !.k = @ + 1, !.slotHeld = FALSE])
  <2>1. pc'[t] = "p2_scan" /\ Alone(t)
    BY <1>10, Mine, GotoMoves
  <2>2. blocks' = [blocks EXCEPT ![b].edges[k].timeFirst = 0]
    BY <1>6, <1>10
  <2>3. Written(b, k, Neighbor(b, k), Weight(b, k), 0, High(b))
    BY <2>2, Mine, WriteForms DEF Typed
  <2>4. Uncounted(t)
    <3>1. \A c \in BlockIx : NumEdges(c)' = NumEdges(c)
      BY <2>2, Mine, NumEdgesKept DEF Typed
    <3> QED
      BY <2>3, <3>1, WrittenUncounted
  <2>5. Owned'
    BY <1>1, <1>8, <2>1, <2>3, MarkerAssumption, WrittenOwned DEF CInv
  <2>6. Counted'
    BY <1>1, <2>1, <2>4, LastBlock, CountedKept DEF CInv
  <2> QED
    BY <2>5, <2>6 DEF CInv
<1> QED
  BY <1>7, <1>9, <1>10

LEMMA RegisterNeighborCounts ==
    ASSUME IInv, CInv, NEW t \in Threads, RegisterNeighbor(t)
    PROVE  CInv'
<1>1. /\ pc[t] = "u_neighbor" /\ next' = next /\ degree' = degree
      /\ Goto(t, "u_numEdges", loc[t])
  BY DEF RegisterNeighbor
<1>2. PICK b \in BlockIx, k \in Slot : b = loc[t].b /\ k = loc[t].k
  BY <1>1, Mine DEF PlaceOf, Updating
<1>3. loc[t].dest \in Dests
  BY <1>1, Mine DEF Typed
<1>4. pc'[t] = "u_numEdges" /\ loc'[t] = loc[t] /\ Alone(t)
  BY <1>1, Mine, GotoMoves
<1>5. blocks' = [blocks EXCEPT ![b].edges[k].neighbor = loc[t].dest]
  BY <1>2 DEF RegisterNeighbor
<1>6. Written(b, k, loc[t].dest, Weight(b, k), TimeFirst(b, k), High(b))
  BY <1>3, <1>5, Mine, WriteForms DEF Typed
<1>7. Uncounted(t)
  <2>1. \A c \in BlockIx : NumEdges(c)' = NumEdges(c)
    BY <1>5, Mine, NumEdgesKept DEF Typed
  <2> QED
    BY <1>6, <2>1, WrittenUncounted
<1>8. /\ Holding(t) => Holding(t)'
      /\ Writing(t) => Writing(t)'
      /\ pc[t] \notin AtTail
  BY <1>1, <1>4 DEF Holding, Writing, Updating, AtTail
<1>9. Owned'
  BY <1>1, <1>4, <1>6, <1>8, WrittenOwned DEF CInv
<1>10. Counted'
  BY <1>1, <1>4, <1>7, LastBlock, CountedKept DEF CInv
<1> QED
  BY <1>9, <1>10 DEF CInv

LEMMA WriteWeightCounts ==
    ASSUME IInv, CInv, NEW t \in Threads, WriteWeight(t)
    PROVE  CInv'
<1>1. /\ pc[t] = "u_unlock" /\ next' = next /\ degree' = degree
      /\ Goto(t, "idle", <<>>)
  BY DEF WriteWeight
<1>2. PICK b \in BlockIx, k \in Slot : b = loc[t].b /\ k = loc[t].k
  BY <1>1, Mine DEF PlaceOf, Updating
<1>3. loc[t].weight \in Weights /\ loc[t].slotHeld \in BOOLEAN
  BY <1>1, Mine DEF Typed
<1>4. PICK f : f = IF loc[t].slotHeld THEN 0 ELSE TimeFirst(b, k)
  OBVIOUS
<1>5. f \in {0, MARKER}
  BY <1>4, Mine DEF Typed
<1>6. blocks' = [blocks EXCEPT ![b].edges[k] =
                    [@ EXCEPT !.weight = loc[t].weight, !.timeFirst = f]]
  BY <1>2, <1>4 DEF WriteWeight, TimeFirst
<1>7. Written(b, k, Neighbor(b, k), loc[t].weight, f, High(b))
  BY <1>3, <1>5, <1>6, Mine, WriteForms DEF Typed
<1>8. Uncounted(t)
  <2>1. \A c \in BlockIx : NumEdges(c)' = NumEdges(c)
    BY <1>6, Mine, NumEdgesKept DEF Typed
  <2> QED
    BY <1>7, <2>1, WrittenUncounted
<1>9. pc'[t] = "idle" /\ Alone(t)
  BY <1>1, Mine, GotoMoves
<1>10. /\ Holding(t) => At(t, b, k) /\ f = 0
       /\ At(t, b, k) /\ loc[t].weight # MARKER
       /\ f = MARKER => f = TimeFirst(b, k)
       /\ pc[t] \notin AtTail
  BY <1>1, <1>2, <1>3, <1>4, MarkerAssumption DEF Holding, At, AtTail
<1>11. Owned'
  BY <1>1, <1>7, <1>9, <1>10, WrittenOwned DEF CInv
<1>12. Counted'
  BY <1>1, <1>8, <1>9, LastBlock, CountedKept DEF CInv
<1> QED
  BY <1>11, <1>12 DEF CInv

LEMMA TailCounts ==
    ASSUME IInv, CInv, NEW t \in Threads, LockTail(t) \/ PutBack(t)
    PROVE  CInv'
<1>1. /\ blocks' = blocks /\ degree' = degree
      /\ pc[t] \in {"t_lock", "t_putback"}
  BY DEF LockTail, PutBack
<1>2. PICK b \in BlockIx : b = loc[t].b
  BY <1>1, Mine DEF PlaceOf
<1>3. DOMAIN blocks = BlockIx /\ next \in [BlockIx -> {"ptr", "MARKER"}]
  BY Mine DEF Typed, TypeOK
<1>4. /\ BlockIx' = BlockIx
      /\ \A c, i : TimeFirst(c, i)' = TimeFirst(c, i) /\ Weight(c, i)' = Weight(c, i)
  BY <1>1 DEF BlockIx, TimeFirst, Weight, EdgeAt
<1>5. ~Holding(t) /\ ~Writing(t)
  BY <1>1, Mine DEF Holding, Writing, PlaceOf, Updating
<1>6. CASE LockTail(t)
  <2>1. /\ next' = [next EXCEPT ![b] = "MARKER"] /\ pc[t] = "t_lock"
        /\ \E label \in {"t_new", "t_putback"} : Goto(t, label, loc[t])
    BY <1>2, <1>6 DEF LockTail
  <2>2. pc'[t] \in {"t_new", "t_putback"} /\ loc'[t] = loc[t] /\ Alone(t)
    BY <2>1, Mine, GotoMoves
  <2>3. \A c \in BlockIx : c # b => next'[c] = next[c]
    BY <1>3, <2>1
  <2>4. Owned'
    BY <1>2, <1>4, <1>5, <2>1, <2>2, <2>3, OwnedKept DEF CInv, AtTail
  <2>5. Counted'
    BY <1>1, <2>1, <2>2, SameUncounted, LastBlock, CountedKept DEF CInv
  <2> QED
    BY <2>4, <2>5 DEF CInv
<1>7. CASE PutBack(t)
  <2>1. /\ next' = [next EXCEPT ![b] = "ptr"] /\ pc[t] = "t_putback"
        /\ Goto(t, "p2_high", [loc[t] EXCEPT !.b = @ + 1])
    BY <1>2, <1>7 DEF PutBack
  <2>2. pc'[t] = "p2_high" /\ Alone(t)
    BY <2>1, Mine, GotoMoves
  <2>3. next'[b] = "ptr" /\ \A c \in BlockIx : c # b => next'[c] = next[c]
    BY <1>3, <2>1
  <2>4. Owned'
    BY <1>2, <1>4, <1>5, <2>2, <2>3, OwnedKept DEF CInv
  <2>5. Counted'
    BY <1>1, <2>1, <2>2, SameUncounted, LastBlock, CountedKept DEF CInv
  <2> QED
    BY <2>4, <2>5 DEF CInv
<1> QED
  BY <1>6, <1>7

LEMMA CountInBlockCounts ==
    ASSUME IInv, CInv, NEW t \in Threads, CountInBlock(t)
    PROVE  CInv'
<1>1. /\ pc[t] = "u_numEdges" /\ next' = next /\ degree' = degree
      /\ Goto(t, "u_degree", loc[t])
  BY DEF CountInBlock
<1>2. PICK b \in BlockIx, k \in Slot : b = loc[t].b /\ k = loc[t].k
  BY <1>1, Mine DEF PlaceOf, Updating
<1>3. pc'[t] = "u_degree" /\ loc'[t] = loc[t] /\ Alone(t)
  BY <1>1, Mine, GotoMoves
<1>4. blocks' = [blocks EXCEPT ![b].numEdges = @ + 1]
  BY <1>2 DEF CountInBlock
<1>5. Written(b, k, Neighbor(b, k), Weight(b, k), TimeFirst(b, k), High(b))
  BY <1>4, Mine, WriteForms DEF Typed
<1>6. \A c \in BlockIx : NumEdges(c)' = IF c = b THEN NumEdges(b) + 1 ELSE NumEdges(c)
  <2>1. PICK x \in Block : x = blocks[b]
    BY Mine, LenProperties DEF BlockIx, Typed
  <2>2. PICK y : y = [x EXCEPT !.numEdges = x.numEdges + 1]
    OBVIOUS
  <2>3. y.numEdges = x.numEdges + 1
    BY <2>2 DEF Block
  <2>4. \A c \in BlockIx : blocks'[c] = IF c = b THEN y ELSE blocks[c]
    BY <1>4, <2>1, <2>2, Mine DEF Typed
  <2> QED
    BY <2>1, <2>3, <2>4 DEF NumEdges
<1>7. /\ Holding(t) => Holding(t)'
      /\ Writing(t) => Writing(t)'
      /\ pc[t] \notin AtTail
  BY <1>1, <1>3 DEF Holding, Writing, Updating, AtTail
<1>8. Owned'
  BY <1>1, <1>3, <1>5, <1>7, WrittenOwned DEF CInv
<1>9. /\ BlockIx' = BlockIx /\ Len(blocks') = Len(blocks) /\ Len(blocks) \in BlockIx
      /\ \A c \in BlockIx : High(c)' = High(c) /\ Below(c)' = Below(c)
      /\ Below(Len(blocks))' = Below(Len(blocks))
  BY <1>5, LastBlock DEF Written, BlockIx, Below
<1>10. InBlock(b) = {}
  <2> SUFFICES ASSUME NEW u \in InBlock(b) PROVE FALSE
    OBVIOUS
  <2>1. u = t
    BY <1>1, OneAhead DEF InBlock, Registering
  <2> QED
    BY <1>1, <2>1 DEF InBlock
<1>11. /\ t \in InBlock(b)' /\ InDegree' = InDegree
       /\ \A c \in BlockIx : c # b => InBlock(c)' = InBlock(c)
  BY <1>1, <1>2, <1>3 DEF InBlock, InDegree, Alone
<1>12. NumEdges(b)' = Below(b)' + 1
  <2>1. NumEdges(b) = Below(b) /\ Below(b) \in Int
    BY <1>10, Mine DEF CInv, Counted, Below, Typed
  <2> QED
    BY <1>6, <1>9, <2>1
<1>13. Counted'
  BY <1>1, <1>6, <1>9, <1>11, <1>12 DEF CInv, Counted
<1> QED
  BY <1>8, <1>13 DEF CInv

LEMMA RaiseHighCounts ==
    ASSUME IInv, CInv, NEW t \in Threads, RaiseHigh(t)
    PROVE  CInv'
<1>1. /\ pc[t] = "u_raise" /\ next' = next /\ degree' = degree
      /\ Goto(t, "u_unlock", loc[t])
  BY DEF RaiseHigh
<1>2. PICK b \in BlockIx, k \in Slot : b = loc[t].b /\ k = loc[t].k
  BY <1>1, Mine DEF PlaceOf, Updating
<1>3. pc'[t] = "u_unlock" /\ loc'[t] = loc[t] /\ Alone(t)
  BY <1>1, Mine, GotoMoves
<1>4. blocks' = [blocks EXCEPT ![b].high = k + 1] /\ k \in Nat /\ k + 1 \in Int
  BY <1>2, BlockSizeAssumption DEF RaiseHigh, Slot
<1>5. Written(b, k, Neighbor(b, k), Weight(b, k), TimeFirst(b, k), k + 1)
  BY <1>4, Mine, WriteForms DEF Typed
<1>6. \A c \in BlockIx : NumEdges(c)' = NumEdges(c)
  BY <1>4, Mine, NumEdgesKept DEF Typed
<1>7. /\ Holding(t) => Holding(t)'
      /\ Writing(t) => Writing(t)'
      /\ pc[t] \notin AtTail
  BY <1>1, <1>3 DEF Holding, Writing, Updating, AtTail
<1>8. Owned'
  BY <1>1, <1>3, <1>5, <1>7, WrittenOwned DEF CInv
<1>9. High(b) <= k /\ b = Len(blocks) /\ High(b) \in Int
  BY <1>1, <1>2, FillsAtMark, Mine DEF Fills, Registering, Typed
<1>10. Below(b) = k
  <2>1. CASE k = 0
    BY <1>9, <2>1 DEF CInv, Counted, Below
  <2>2. CASE k # 0
    <3>1. k - 1 \in Slot /\ k - 1 < k
      BY <1>4, <2>2, BlockSizeAssumption DEF Slot
    <3>2. loc[t].slotHeld
      BY <1>1, Mine DEF PlaceOf, Registering
    <3>3. Passed(t, b, k - 1)
      BY <1>1, <1>2, <3>1, <3>2 DEF Passed, Updating
    <3>4. k - 1 < High(b)
      BY <3>1, <3>3, Mine DEF SearchedOf
    <3> QED
      BY <1>4, <1>9, <2>2, <3>4 DEF Below
  <2> QED
    BY <2>1, <2>2
<1>11. /\ BlockIx' = BlockIx /\ Len(blocks') = Len(blocks)
       /\ \A c \in BlockIx : High(c)' = IF c = b THEN k + 1 ELSE High(c)
       /\ \A c \in BlockIx : c # b => Below(c)' = Below(c)
       /\ High(b)' = k + 1 /\ Below(b)' = k + 1
  BY <1>4, <1>5 DEF Written, BlockIx, Below
<1>12. InBlock(b)' = {} /\ InDegree' = {}
  <2>1. ASSUME NEW u \in Threads, u # t
        PROVE  pc'[u] \notin Registering \cup {"t_new", "t_publish"}
    BY <1>1, <1>3, <2>1, OneAhead DEF Alone, Registering
  <2> QED
    BY <1>3, <2>1 DEF InBlock, InDegree, Registering
<1>13. /\ t \in InBlock(b) /\ t \in InDegree
       /\ \A c \in BlockIx : c # b => InBlock(c)' = InBlock(c)
  BY <1>1, <1>2, <1>3 DEF InBlock, InDegree, Alone
<1>14. NumEdges(b)' = Below(b)'
  <2>1. NumEdges(b) = Below(b) + 1
    BY <1>13 DEF CInv, Counted
  <2> QED
    BY <1>6, <1>10, <1>11, <2>1
<1>15. degree' = (Len(blocks') - 1) * BlockSize + Below(b)'
  <2>1. degree = (Len(blocks) - 1) * BlockSize + k + 1
    BY <1>9, <1>10, <1>13 DEF CInv, Counted
  <2>2. (Len(blocks) - 1) * BlockSize \in Int
    BY LastBlock, BlockSizeAssumption
  <2> QED
    BY <1>1, <1>4, <1>11, <2>1, <2>2
<1>16. Below(Len(blocks))' = Below(b)'
  BY <1>9, <1>11 DEF Below
<1>17. ASSUME NEW c \in BlockIx
       PROVE  /\ High(c)' >= 1 \/ (c = 1 /\ High(c)' = -1)
              /\ NumEdges(c)' = Below(c)' + IF InBlock(c)' = {} THEN 0 ELSE 1
  <2>1. CASE c = b
    <3>1. High(b)' >= 1 /\ Below(b)' + 0 = Below(b)'
      BY <1>4, <1>11
    <3> QED
      BY <1>12, <1>14, <2>1, <3>1
  <2>2. CASE c # b
    <3>1. /\ High(c) >= 1 \/ (c = 1 /\ High(c) = -1)
          /\ NumEdges(c) = Below(c) + IF InBlock(c) = {} THEN 0 ELSE 1
      BY DEF CInv, Counted
    <3> QED
      BY <1>6, <1>11, <1>13, <2>2, <3>1
  <2> QED
    BY <2>1, <2>2
<1>18. degree' = (Len(blocks') - 1) * BlockSize + Below(Len(blocks))'
                    + IF InDegree' = {} THEN 0 ELSE 1
  <2>1. degree' \in Int
    BY <1>1, Mine DEF TypeOK
  <2> QED
    BY <1>12, <1>15, <1>16, <2>1
<1>19. Counted'
  BY <1>11, <1>17, <1>18 DEF Counted
<1> QED
  BY <1>8, <1>19 DEF CInv

LEMMA PublishCounts ==
    ASSUME IInv, CInv, NEW t \in Threads, Publish(t)
    PROVE  CInv'
<1>1. pc[t] = "t_publish" /\ degree' = degree /\ Goto(t, "idle", <<>>)
  BY DEF Publish
<1>2. PICK n \in Nat : n = Len(blocks) /\ n >= 1 /\ BlockIx = 1 .. n /\ n \in BlockIx
  BY LastBlock DEF BlockIx
<1>3. PICK q \in Locals : q = loc[t] /\ q.weight \in Weights /\ q.b = n
  BY <1>1, <1>2, Mine DEF Typed, PlaceOf
<1>4. pc'[t] = "idle" /\ Alone(t)
  BY <1>1, Mine, GotoMoves
<1>5. PICK e : e = [neighbor |-> q.dest, weight |-> q.weight, timeFirst |-> 0]
  OBVIOUS
<1>6. PICK x : /\ x = [NewBlock EXCEPT !.edges[0] = e, !.numEdges = 1, !.high = 1]
               /\ x.numEdges = 1 /\ x.high = 1
               /\ \A i \in Slot : x.edges[i] = e \/ x.edges[i] = EmptyEdge
  <2>1. PICK empty : empty = [i \in Slot |-> EmptyEdge]
    OBVIOUS
  <2>2. PICK es : es = [empty EXCEPT ![0] = e]
    OBVIOUS
  <2>3. \A i \in Slot : es[i] = e \/ es[i] = EmptyEdge
    BY <2>1, <2>2
  <2>4. PICK y : y = [edges |-> empty, numEdges |-> 0, high |-> -1]
    OBVIOUS
  <2>5. NewBlock = y /\ y.edges = empty
    BY <2>1, <2>4 DEF NewBlock
  <2>6. PICK z : z = [y EXCEPT !.edges = es, !.numEdges = 1, !.high = 1]
    OBVIOUS
  <2>7. z.edges = es /\ z.numEdges = 1 /\ z.high = 1
    BY <2>4, <2>6
  <2>8. z = [NewBlock EXCEPT !.edges[0] = e, !.numEdges = 1, !.high = 1]
    BY <2>2, <2>5, <2>6
  <2> QED
    BY <2>3, <2>7, <2>8
<1>7. blocks' = Append(blocks, x)
  BY <1>3, <1>5, <1>6 DEF Publish
<1>8. /\ Len(blocks') = n + 1 /\ BlockIx' = 1 .. n + 1
      /\ blocks'[n + 1] = x /\ \A c \in BlockIx : blocks'[c] = blocks[c]
  <2>1. blocks \in Seq(Block)
    BY Mine DEF Typed
  <2>2. x \in {x} \cup Block /\ blocks \in Seq({x} \cup Block)
    BY <2>1
  <2>3. /\ Len(blocks') = n + 1 /\ blocks'[n + 1] = x
        /\ \A c \in 1 .. n : blocks'[c] = blocks[c]
    BY <1>2, <1>7, <2>2, AppendProperties
  <2> QED
    BY <1>2, <2>3 DEF BlockIx
<1>9. next'[n] = "ptr" /\ next'[n + 1] = "ptr" /\ \A c \in BlockIx : c # n => next'[c] = next[c]
  <2>1. next \in [1 .. n -> {"ptr", "MARKER"}]
    BY <1>2, Mine DEF Typed, TypeOK
  <2>2. PICK m : m = [next EXCEPT ![n] = "ptr"]
    OBVIOUS
  <2>3. /\ m \in [1 .. n -> {"ptr", "MARKER"}] /\ m[n] = "ptr"
        /\ \A c \in 1 .. n : c # n => m[c] = next[c]
    BY <1>2, <2>1, <2>2
  <2>4. m \in Seq({"ptr", "MARKER"}) /\ Len(m) = n
    BY <1>2, <2>3
  <2>5. next' = Append(m, "ptr")
    BY <1>3, <2>2 DEF Publish
  <2>6. next'[n + 1] = "ptr" /\ \A c \in 1 .. n : next'[c] = m[c]
    BY <2>4, <2>5, AppendProperties
  <2> QED
    BY <1>2, <2>3, <2>6
<1>10. /\ High(n + 1)' = 1 /\ NumEdges(n + 1)' = 1 /\ Below(n + 1)' = 1
       /\ \A i \in Slot : TimeFirst(n + 1, i)' = 0 /\ Weight(n + 1, i)' # MARKER
       /\ \A c \in BlockIx : High(c)' = High(c) /\ NumEdges(c)' = NumEdges(c)
                             /\ Below(c)' = Below(c)
       /\ \A c \in BlockIx, i \in Slot :
            Weight(c, i)' = Weight(c, i) /\ TimeFirst(c, i)' = TimeFirst(c, i)
  <2>1. \A i \in Slot : TimeFirst(n + 1, i)' = 0 /\ Weight(n + 1, i)' # MARKER
    BY <1>3, <1>5, <1>6, <1>8, MarkerAssumption DEF TimeFirst, Weight, EdgeAt, EmptyEdge
  <2>2. High(n + 1)' = 1 /\ NumEdges(n + 1)' = 1 /\ Below(n + 1)' = 1
    BY <1>6, <1>8 DEF High, NumEdges, Below
  <2>3. \A c \in BlockIx : High(c)' = High(c) /\ NumEdges(c)' = NumEdges(c)
    BY <1>8 DEF High, NumEdges
  <2> QED
    BY <1>8, <2>1, <2>2, <2>3 DEF Weight, TimeFirst, EdgeAt, Below
<1>11. ~Holding(t) /\ ~Writing(t)
  BY <1>1, Mine DEF Holding, Writing, PlaceOf, Updating
<1>12. \A c : c \in BlockIx' <=> c \in BlockIx \/ c = n + 1
  BY <1>2, <1>8
<1>13. Owned'
  <2>1. ASSUME NEW c \in BlockIx', NEW i \in Slot
        PROVE  /\ TimeFirst(c, i)' = MARKER => c \in BlockIx /\ TimeFirst(c, i) = MARKER
               /\ Weight(c, i)' = MARKER => c \in BlockIx /\ Weight(c, i) = MARKER
    BY <1>10, <1>12, MarkerAssumption
  <2>2. ASSUME NEW c \in BlockIx', next'[c] = "MARKER"
        PROVE  c \in BlockIx /\ next[c] = "MARKER" /\ loc[t].b # c
    BY <1>3, <1>9, <1>12, <2>2
  <2> QED
    BY <1>4, <1>11, <2>1, <2>2, OwnedKept DEF CInv
<1>14. InDegree' = {} /\ t \in InDegree
  <2>1. ASSUME NEW u \in Threads, u # t
        PROVE  pc'[u] \notin Registering \cup {"t_new", "t_publish"}
    BY <1>1, <1>4, <2>1, OneAhead DEF Alone
  <2> QED
    BY <1>1, <1>4, <2>1 DEF InDegree, Registering
<1>15. \A c : InBlock(c) = {} /\ InBlock(c)' = {}
  <2>1. ASSUME NEW u \in Threads
        PROVE  pc[u] \notin Registering
    BY <1>1, OneAhead DEF Registering
  <2>2. ASSUME NEW u \in Threads
        PROVE  pc'[u] \notin Registering
    BY <1>4, <2>1 DEF Alone, Registering
  <2> QED
    BY <2>1, <2>2 DEF InBlock, Registering
<1>16. ASSUME NEW c \in BlockIx'
       PROVE  /\ High(c)' >= 1 \/ (c = 1 /\ High(c)' = -1)
              /\ NumEdges(c)' = Below(c)' + IF InBlock(c)' = {} THEN 0 ELSE 1
  <2>1. CASE c \in BlockIx
    BY <1>10, <1>15, <2>1 DEF CInv, Counted
  <2>2. CASE c = n + 1
    BY <1>10, <1>15, <2>2
  <2> QED
    BY <1>12, <2>1, <2>2
<1>17. degree' = n * BlockSize + 1
  <2>1. degree = (n - 1) * BlockSize + Below(n) + 1
    BY <1>2, <1>14 DEF CInv, Counted
  <2>2. Below(n) = BlockSize
    <3>1. BlockSize - 1 \in Slot /\ BlockSize \in Nat
      BY BlockSizeAssumption DEF Slot
    <3>2. Passed(t, n, BlockSize - 1)
      BY <1>1, <1>3 DEF Passed, AtTail, Updating
    <3>3. BlockSize - 1 < High(n) /\ High(n) <= BlockSize /\ High(n) \in Int
      BY <1>2, <3>1, <3>2, Mine DEF SearchedOf, Filled, Typed
    <3> QED
      BY <3>1, <3>3 DEF Below
  <2>3. (n - 1) * BlockSize + BlockSize = n * BlockSize
    BY BlockSizeAssumption
  <2> QED
    BY <1>1, <2>1, <2>2, <2>3
<1>18. Below(Len(blocks))' = 1 /\ Len(blocks') - 1 = n
  BY <1>8, <1>10 DEF Below, High
<1>19. Counted'
  <2>1. n * BlockSize + 1 + 0 = n * BlockSize + 1
    BY BlockSizeAssumption
  <2> QED
    BY <1>14, <1>16, <1>17, <1>18, <2>1 DEF Counted
<1> QED
  BY <1>13, <1>19 DEF CInv

LEMMA CountsInvariant == Spec => []CInv
<1>1. IInv /\ IInv' /\ CInv /\ [Next]_vars => CInv'
  <2> SUFFICES ASSUME IInv, IInv', CInv, [Next]_vars PROVE CInv'
    OBVIOUS
  <2>1. CASE UNCHANGED vars
    <3>1. /\ BlockIx' = BlockIx /\ \A b : NumEdges(b)' = NumEdges(b) /\ Below(b)' = Below(b)
          /\ \A b : High(b)' = High(b) /\ InBlock(b)' = InBlock(b)
          /\ \A b, k : TimeFirst(b, k)' = TimeFirst(b, k) /\ Weight(b, k)' = Weight(b, k)
          /\ Below(Len(blocks))' = Below(Len(blocks)) /\ InDegree' = InDegree
          /\ next' = next /\ degree' = degree /\ blocks' = blocks /\ pc' = pc /\ loc' = loc
      BY <2>1 DEF vars, BlockIx, NumEdges, Below, High, InBlock, InDegree, TimeFirst, Weight,
                  EdgeAt
    <3>2. Owned'
      BY <3>1 DEF CInv, Owned, Holding, Writing, At
    <3>3. Counted'
      BY <3>1 DEF CInv, Counted
    <3> QED
      BY <3>2, <3>3 DEF CInv
  <2>2. ASSUME NEW t \in Threads, Start(t) \/ SearchAndInsert(t)
        PROVE  CInv'
    BY <2>2, SearchCounts, ReadsCount, DegreeCounts, LocksCount, RecheckCounts,
       RegisterNeighborCounts, WriteWeightCounts, TailCounts, CountInBlockCounts,
       RaiseHighCounts, PublishCounts DEF SearchAndInsert, UpdateEdgeData
  <2> QED
    BY <2>1, <2>2 DEF Next, Finished
<1> QED
  BY <1>1, InitCounts, InductiveInvariant, PTL DEF Spec

-----------------------------------------------------------------------------
(* The iterator.  Its cursor is a recursive function: what it does is      *)
(* proved by induction over a set of natural numbers.                      *)
Less == {p \in Nat \X Nat : p[1] < p[2]}

LEMMA LeastNatural ==
    ASSUME NEW S \in SUBSET Nat, S # {}
    PROVE  \E m \in S : \A n \in S : m <= n
<1>1. IsWellFoundedOn(Less, Nat)
  BY Zenon, NatLessThanWellFounded DEF OpToRel, Less
<1>2. PICK m \in S : \A n \in S : <<n, m>> \notin Less
  BY <1>1, WFMin
<1>3. \A n \in S : n \in Nat /\ m \in Nat /\ ~(n < m)
  BY <1>2 DEF Less
<1> QED
  BY <1>3

LEMMA SetInduction ==
    ASSUME NEW S, 0 \in S, \A n \in Nat : n \in S => n + 1 \in S
    PROVE  Nat \subseteq S
<1> DEFINE T == Nat \ S
<1>1. SUFFICES ASSUME T # {} PROVE FALSE
  OBVIOUS
<1>2. PICK m \in T : \A n \in T : m <= n
  BY <1>1, LeastNatural
<1>3. m # 0 /\ m - 1 \in Nat /\ m = (m - 1) + 1
  OBVIOUS
<1>4. m - 1 \notin T
  BY <1>2, <1>3
<1> QED
  BY <1>3, <1>4

Follow(c) == IF c = NullCursor THEN NullCursor ELSE Advance(c)
Steps(f, m) == f = [i \in 0 .. m |-> IF i = 0 THEN Begin ELSE Follow(f[i - 1])]

LEMMA StepsExist == \A m \in Nat : \E f : Steps(f, m)
<1> DEFINE S == {m \in Nat : \E f : Steps(f, m)}
<1>1. 0 \in S
  <2> DEFINE f == [i \in 0 .. 0 |-> IF i = 0 THEN Begin ELSE Follow(NullCursor)]
  <2>1. f = [i \in 0 .. 0 |-> IF i = 0 THEN Begin ELSE Follow(f[i - 1])]
    OBVIOUS
  <2> HIDE DEF f
  <2> QED
    BY <2>1 DEF Steps
<1>2. ASSUME NEW m \in Nat, m \in S PROVE m + 1 \in S
  <2>1. PICK f : f = [i \in 0 .. m |-> IF i = 0 THEN Begin ELSE Follow(f[i - 1])]
    BY <1>2 DEF Steps
  <2> DEFINE g == [i \in 0 .. m + 1 |-> IF i <= m THEN f[i] ELSE Follow(f[m])]
  <2>2. g = [i \in 0 .. m + 1 |-> IF i = 0 THEN Begin ELSE Follow(g[i - 1])]
    <3>1. ASSUME NEW i \in 0 .. m + 1
          PROVE  g[i] = IF i = 0 THEN Begin ELSE Follow(g[i - 1])
      <4>1. CASE i <= m
        <5>1. g[i] = f[i] /\ (i # 0 => g[i - 1] = f[i - 1])
          BY <4>1
        <5>2. f[i] = IF i = 0 THEN Begin ELSE Follow(f[i - 1])
          <6>1. i \in 0 .. m
            BY <4>1
          <6> QED
            BY <2>1, <6>1
        <5> QED
          BY <5>1, <5>2
      <4>2. CASE i = m + 1
        BY <4>2
      <4> QED
        BY <4>1, <4>2
    <3>2. g = [i \in 0 .. m + 1 |-> g[i]]
      OBVIOUS
    <3> HIDE DEF g
    <3> QED
      BY <3>1, <3>2
  <2> HIDE DEF g
  <2> QED
    BY <2>2 DEF Steps
<1> QED
  BY <1>1, <1>2, SetInduction

LEMMA CursorSteps ==
    ASSUME NEW m \in Nat, m = Len(blocks) * BlockSize
    PROVE  /\ Cursor[0] = Begin
           /\ \A i \in 0 .. m - 1 : Cursor[i + 1] = Follow(Cursor[i])
<1>1. PICK f : Steps(f, m)
  BY StepsExist
<1>2. Steps(Cursor, m)
  BY <1>1 DEF Steps, Cursor, Follow
<1> DEFINE C(i) == IF i = 0 THEN Begin ELSE Follow(Cursor[i - 1])
<1>3. Cursor = [i \in 0 .. m |-> C(i)]
  BY <1>2 DEF Steps
<1>4. \A i \in 0 .. m : Cursor[i] = C(i)
  <2> HIDE DEF C
  <2> QED
    BY <1>3
<1>5. 0 \in 0 .. m /\ \A i \in 0 .. m - 1 : i + 1 \in 0 .. m /\ i + 1 # 0 /\ (i + 1) - 1 = i
  OBVIOUS
<1> QED
  BY <1>4, <1>5

(* Where a slot comes in the list.                                         *)
Index(b, k) == (b - 1) * BlockSize + k

LEMMA IndexOrder ==
    ASSUME NEW b \in Int, NEW c \in Int, b < c, NEW k \in Int, k <= BlockSize
    PROVE  Index(b, k) <= (c - 1) * BlockSize
<1>1. BlockSize \in Nat
  BY BlockSizeAssumption
<1>2. PICK d \in Nat : c = b + 1 + d
  <2>1. c - b - 1 \in Nat /\ c = b + 1 + (c - b - 1)
    OBVIOUS
  <2> QED
    BY <2>1
<1>3. (c - 1) * BlockSize = b * BlockSize + d * BlockSize
  BY <1>1, <1>2
<1>4. (b - 1) * BlockSize = b * BlockSize - BlockSize
  BY <1>1
<1>5. d * BlockSize \in Nat /\ b * BlockSize \in Int
  BY <1>1
<1> QED
  BY <1>1, <1>3, <1>4, <1>5 DEF Index

LEMMA IndexTyped == \A b, k \in Int : Index(b, k) \in Int
BY BlockSizeAssumption DEF Index

LEMMA IndexInjective ==
    ASSUME NEW b \in Int, NEW c \in Int, NEW k \in Slot, NEW i \in Slot,
           Index(b, k) = Index(c, i)
    PROVE  b = c /\ k = i
<1>1. /\ BlockSize \in Nat /\ k \in Int /\ i \in Int /\ k + 1 <= BlockSize /\ i + 1 <= BlockSize
      /\ 0 <= k /\ 0 <= i /\ k + 1 \in Int /\ i + 1 \in Int
      /\ (b - 1) * BlockSize \in Int /\ (c - 1) * BlockSize \in Int
  BY BlockSizeAssumption DEF Slot
<1>2. ~(b < c)
  <2>1. b < c => Index(b, k + 1) <= (c - 1) * BlockSize
    BY <1>1, IndexOrder
  <2> QED
    BY <1>1, <2>1 DEF Index
<1>3. ~(c < b)
  <2>1. c < b => Index(c, i + 1) <= (b - 1) * BlockSize
    BY <1>1, IndexOrder
  <2> QED
    BY <1>1, <2>1 DEF Index
<1>4. b = c
  BY <1>2, <1>3
<1> QED
  BY <1>1, <1>4 DEF Index

(* A list at rest.                                                         *)
AtRest ==
    /\ Len(blocks) \in BlockIx /\ Len(blocks) \in Nat
    /\ degree = Index(Len(blocks), NumEdges(Len(blocks)))
    /\ \A b \in BlockIx :
        /\ b \in Int /\ 1 <= b /\ b <= Len(blocks)
        /\ NumEdges(b) \in 0 .. BlockSize
        /\ b < Len(blocks) => NumEdges(b) = BlockSize
        /\ NumEdges(b) = 0 => b = 1 /\ Len(blocks) = 1
        /\ High(b) = IF NumEdges(b) = 0 THEN -1 ELSE NumEdges(b)
        /\ \A k \in Slot : Neighbor(b, k) # NoNeighbor <=> k < NumEdges(b)

LEMMA Rests == ASSUME IInv, CInv, Quiescent PROVE AtRest
<1>1. InDegree = {} /\ \A b : InBlock(b) = {}
  BY DEF Quiescent, InDegree, InBlock
<1>2. \A b \in BlockIx : High(b) \in Int
  BY Types DEF IInv, Typed
<1>3. ASSUME NEW b \in BlockIx
      PROVE  /\ b \in Int /\ 1 <= b /\ b <= Len(blocks)
             /\ NumEdges(b) = Below(b) /\ NumEdges(b) \in 0 .. BlockSize
             /\ b < Len(blocks) => NumEdges(b) = BlockSize
             /\ NumEdges(b) = 0 => b = 1 /\ Len(blocks) = 1
             /\ High(b) = IF NumEdges(b) = 0 THEN -1 ELSE NumEdges(b)
  <2>1. b \in Int /\ 1 <= b /\ b <= Len(blocks)
    BY LastBlock DEF BlockIx
  <2>2. /\ High(b) >= 1 \/ (b = 1 /\ High(b) = -1)
        /\ NumEdges(b) = Below(b) + 0
    BY <1>1 DEF CInv, Counted
  <2>3. /\ High(b) <= BlockSize /\ BlockSize \in Nat \ {0}
        /\ b < Len(blocks) => High(b) = BlockSize
    BY BlockSizeAssumption DEF IInv, Filled
  <2>4. Len(blocks) \in Nat /\ High(b) \in Int
    BY <1>2, LastBlock
  <2>5. CASE High(b) = -1
    <3>1. b = 1 /\ Len(blocks) = 1
      <4>1. ~(b < Len(blocks))
        BY <2>3, <2>5
      <4>2. b = 1
        BY <2>2, <2>5
      <4>3. PICK n \in Nat : n = Len(blocks)
        BY <2>4
      <4>4. 1 <= n /\ ~(1 < n)
        BY <2>1, <4>1, <4>2, <4>3
      <4> QED
        BY <4>2, <4>3, <4>4
    <3>2. Below(b) = 0 /\ NumEdges(b) = 0
      BY <2>2, <2>5 DEF Below
    <3> QED
      BY <2>1, <2>3, <2>5, <3>1, <3>2
  <2>6. CASE High(b) # -1
    <3>1. Below(b) = High(b) /\ NumEdges(b) = High(b) /\ High(b) >= 1
      BY <2>2, <2>4, <2>6 DEF Below
    <3> QED
      BY <2>1, <2>3, <2>4, <3>1
  <2> QED
    BY <2>5, <2>6
<1>4. ASSUME NEW b \in BlockIx, NEW k \in Slot
      PROVE  Neighbor(b, k) # NoNeighbor <=> k < NumEdges(b)
  <2>1. k \in Nat
    BY BlockSizeAssumption DEF Slot
  <2>2. Neighbor(b, k) # NoNeighbor => ~(High(b) <= k)
    BY DEF IInv, Filled, Quiescent, Registering
  <2>3. k < High(b) => Neighbor(b, k) # NoNeighbor
    BY DEF IInv, Filled
  <2> QED
    BY <1>2, <1>3, <2>1, <2>2, <2>3
<1>5. degree = (Len(blocks) - 1) * BlockSize + NumEdges(Len(blocks))
  <2>1. degree = (Len(blocks) - 1) * BlockSize + Below(Len(blocks)) + 0
    BY <1>1 DEF CInv, Counted
  <2>2. /\ Below(Len(blocks)) = NumEdges(Len(blocks)) /\ NumEdges(Len(blocks)) \in Int
        /\ (Len(blocks) - 1) * BlockSize \in Int
    BY <1>3, LastBlock, BlockSizeAssumption
  <2> QED
    BY <2>1, <2>2
<1> QED
  BY <1>3, <1>4, <1>5, LastBlock DEF AtRest, Index

(* Each edge comes before the end of the list.                             *)
LEMMA BeforeEnd ==
    ASSUME AtRest, NEW b \in BlockIx, NEW k \in 0 .. NumEdges(b) - 1
    PROVE  k \in Slot /\ Index(b, k) \in Nat /\ Index(b, k) < degree
<1>1. /\ NumEdges(b) \in Nat /\ NumEdges(b) <= BlockSize /\ BlockSize \in Nat
      /\ k \in Nat /\ k + 1 <= NumEdges(b) /\ b \in Int /\ 1 <= b /\ b <= Len(blocks)
      /\ Len(blocks) \in Nat
  BY BlockSizeAssumption DEF AtRest
<1>2. PICK d \in Nat : b - 1 = d
  BY <1>1
<1>3. (b - 1) * BlockSize \in Nat
  BY <1>1, <1>2
<1>4. Index(b, k) \in Nat /\ Index(b, k + 1) = Index(b, k) + 1 /\ Index(b, k + 1) \in Nat
  BY <1>1, <1>3 DEF Index
<1>5. Index(b, k + 1) <= degree
  <2>1. CASE b = Len(blocks)
    BY <1>1, <1>3, <2>1 DEF AtRest, Index
  <2>2. CASE b < Len(blocks)
    <3>1. Index(b, k + 1) <= (Len(blocks) - 1) * BlockSize
      BY <1>1, <2>2, IndexOrder
    <3>2. degree = (Len(blocks) - 1) * BlockSize + NumEdges(Len(blocks))
          /\ NumEdges(Len(blocks)) \in Nat
      BY DEF AtRest, Index
    <3>3. (Len(blocks) - 1) * BlockSize \in Int
      BY <1>1
    <3> QED
      BY <1>4, <3>1, <3>2, <3>3
  <2> QED
    BY <1>1, <2>1, <2>2
<1>6. degree \in Int
  <2>1. degree = (Len(blocks) - 1) * BlockSize + NumEdges(Len(blocks))
        /\ NumEdges(Len(blocks)) \in Nat
    BY DEF AtRest, Index
  <2> QED
    BY <1>1, <2>1
<1> QED
  BY <1>1, <1>4, <1>5, <1>6 DEF Slot

(* After i increments the cursor is at the i-th edge, or at the end.       *)
CursorAt(i) ==
    /\ i < degree => \E b \in BlockIx : \E k \in 0 .. NumEdges(b) - 1 :
                        Cursor[i] = <<b, k>> /\ Index(b, k) = i
    /\ i = degree => Cursor[i] = NullCursor

LEMMA RestDegree ==
    ASSUME AtRest
    PROVE  degree \in Nat /\ degree <= Len(blocks) * BlockSize
           /\ Len(blocks) * BlockSize \in Nat
<1>1. /\ Len(blocks) \in Nat /\ 1 <= Len(blocks) /\ BlockSize \in Nat
      /\ NumEdges(Len(blocks)) \in 0 .. BlockSize
      /\ degree = (Len(blocks) - 1) * BlockSize + NumEdges(Len(blocks))
  BY BlockSizeAssumption DEF AtRest, Index
<1>2. PICK d \in Nat : Len(blocks) = d + 1
  <2>1. Len(blocks) - 1 \in Nat /\ Len(blocks) = (Len(blocks) - 1) + 1
    BY <1>1
  <2> QED
    BY <2>1
<1>3. Len(blocks) * BlockSize = d * BlockSize + BlockSize /\ (Len(blocks) - 1) = d
  BY <1>1, <1>2
<1>4. d * BlockSize \in Nat
  BY <1>1
<1> QED
  BY <1>1, <1>3, <1>4

LEMMA CursorBegins == ASSUME AtRest PROVE CursorAt(0)
<1>1. Cursor[0] = Begin
  BY RestDegree, CursorSteps
<1>2. /\ 1 \in BlockIx /\ NumEdges(1) \in 0 .. BlockSize /\ BlockSize \in Nat
      /\ degree \in Nat
  BY RestDegree, BlockSizeAssumption DEF AtRest, BlockIx
<1>3. CASE NumEdges(1) = 0
  <2>1. Len(blocks) = 1
    BY <1>2, <1>3 DEF AtRest
  <2>2. degree = 0
    BY <1>2, <1>3, <2>1 DEF AtRest, Index
  <2> QED
    BY <1>1, <1>3, <2>2 DEF CursorAt, Begin, NumEdges
<1>4. CASE NumEdges(1) # 0
  <2>1. 0 \in 0 .. NumEdges(1) - 1
    BY <1>2, <1>4
  <2>2. Index(1, 0) = 0
    BY <1>2 DEF Index
  <2>3. 0 < degree
    BY <1>2, <2>1, <2>2, BeforeEnd
  <2>4. Cursor[0] = <<1, 0>>
    BY <1>1, <1>4 DEF Begin, NumEdges
  <2> QED
    BY <1>2, <2>1, <2>2, <2>3, <2>4 DEF CursorAt
<1> QED
  BY <1>3, <1>4

LEMMA CursorMoves ==
    ASSUME AtRest, NEW i \in Nat, i < degree, CursorAt(i)
    PROVE  CursorAt(i + 1)
<1>1. Cursor[i + 1] = Follow(Cursor[i])
  BY RestDegree, CursorSteps
<1>2. PICK b \in BlockIx : \E k \in 0 .. NumEdges(b) - 1 :
            Cursor[i] = <<b, k>> /\ Index(b, k) = i
  BY DEF CursorAt
<1>3. PICK k \in 0 .. NumEdges(b) - 1 : Cursor[i] = <<b, k>> /\ Index(b, k) = i
  BY <1>2
<1>4. /\ NumEdges(b) \in Nat /\ NumEdges(b) <= BlockSize /\ BlockSize \in Nat
      /\ k \in Nat /\ b \in Int /\ 1 <= b /\ b <= Len(blocks) /\ Len(blocks) \in Nat
      /\ degree \in Nat
  BY RestDegree, BlockSizeAssumption DEF AtRest
<1>5. Cursor[i] # NullCursor
  BY <1>3, <1>4 DEF NullCursor
<1>6. Cursor[i + 1] = Advance(<<b, k>>)
  BY <1>1, <1>3, <1>5 DEF Follow
<1>7. (b - 1) * BlockSize \in Int
  BY <1>4
<1>8. Index(b, k + 1) = i + 1
  BY <1>3, <1>4, <1>7 DEF Index
<1>9. CASE k < NumEdges(b) - 1
  <2>1. Cursor[i + 1] = <<b, k + 1>>
    BY SMTT(30), <1>4, <1>6, <1>9 DEF Advance, NumEdges
  <2>2. k + 1 \in 0 .. NumEdges(b) - 1
    BY <1>4, <1>9
  <2>3. i + 1 < degree
    BY <1>8, <2>2, BeforeEnd
  <2> QED
    BY <1>8, <2>1, <2>2, <2>3 DEF CursorAt
<1>10. CASE k = NumEdges(b) - 1 /\ b < Len(blocks)
  <2>1. Cursor[i + 1] = <<b + 1, 0>>
    BY <1>4, <1>6, <1>10 DEF Advance, NumEdges
  <2>2. b + 1 \in BlockIx /\ NumEdges(b) = BlockSize
    BY <1>4, <1>10 DEF AtRest, BlockIx
  <2>3. 0 \in 0 .. NumEdges(b + 1) - 1
    BY <1>4, <1>10, <2>2 DEF AtRest
  <2>4. Index(b + 1, 0) = i + 1
    <3>1. (b - 1) * BlockSize + BlockSize = ((b + 1) - 1) * BlockSize
      BY <1>4
    <3> QED
      BY <1>4, <1>8, <1>10, <2>2, <3>1 DEF Index
  <2>5. i + 1 < degree
    BY <2>2, <2>3, <2>4, BeforeEnd
  <2> QED
    BY <2>1, <2>2, <2>3, <2>4, <2>5 DEF CursorAt
<1>11. CASE k = NumEdges(b) - 1 /\ b = Len(blocks)
  <2>1. Cursor[i + 1] = NullCursor
    BY <1>4, <1>6, <1>11 DEF Advance, NumEdges
  <2>2. i + 1 = degree
    BY <1>4, <1>8, <1>11 DEF AtRest
  <2> QED
    BY <2>1, <2>2 DEF CursorAt
<1> QED
  BY <1>4, <1>9, <1>10, <1>11

LEMMA CursorWalks == ASSUME AtRest PROVE \A i \in 0 .. degree : CursorAt(i)
<1> DEFINE S == {i \in Nat : i <= degree => CursorAt(i)}
<1>1. 0 \in S
  BY CursorBegins
<1>2. ASSUME NEW i \in Nat, i \in S PROVE i + 1 \in S
  BY <1>2, RestDegree, CursorMoves
<1>3. Nat \subseteq S
  <2> HIDE DEF S
  <2> QED
    BY <1>1, <1>2, SetInduction
<1> QED
  BY <1>3, RestDegree

(* The slots in use, each met once.                                        *)
LEMMA CursorMeets ==
    ASSUME AtRest, DOMAIN blocks = BlockIx, NEW edges,
           edges = {p \in Positions : InUse(p)}
    PROVE  /\ {Cursor[i] : i \in 0 .. degree - 1} = edges
           /\ Cardinality(edges) = degree
           /\ Cursor[degree] = NullCursor
<1> DEFINE I == 0 .. degree - 1
           f == [i \in I |-> Cursor[i]]
<1>1. degree \in Nat
  BY RestDegree
<1>2. \A p : p \in edges <=> \E b \in BlockIx : \E k \in 0 .. NumEdges(b) - 1 : p = <<b, k>>
  <2>1. ASSUME NEW b \in BlockIx, NEW k \in Slot
        PROVE  InUse(<<b, k>>) <=> k \in 0 .. NumEdges(b) - 1
    <3>1. InUse(<<b, k>>) <=> Neighbor(b, k) # NoNeighbor
      BY DEF InUse, Neighbor
    <3>2. k \in Nat /\ NumEdges(b) \in Nat
      BY BlockSizeAssumption DEF Slot, AtRest
    <3> QED
      BY <3>1, <3>2 DEF AtRest
  <2>2. \A b \in BlockIx : \A k \in 0 .. NumEdges(b) - 1 : k \in Slot
    BY BeforeEnd
  <2>3. \A p : p \in Positions <=> \E b \in BlockIx : \E k \in Slot : p = <<b, k>>
    BY DEF Positions
  <2> QED
    BY <2>1, <2>2, <2>3
<1>3. \A i \in I : CursorAt(i) /\ i < degree
  BY <1>1, CursorWalks
<1>4. \A i \in I : f[i] = Cursor[i] /\ f[i] \in edges
  BY <1>2, <1>3 DEF CursorAt
<1>5. ASSUME NEW p \in edges PROVE \E i \in I : f[i] = p
  <2>1. PICK b \in BlockIx : \E k \in 0 .. NumEdges(b) - 1 : p = <<b, k>>
    BY <1>2
  <2>2. PICK k \in 0 .. NumEdges(b) - 1 : p = <<b, k>>
    BY <2>1
  <2>3. PICK i \in I : i = Index(b, k)
    BY <1>1, BeforeEnd
  <2>4. PICK c \in BlockIx : \E j \in 0 .. NumEdges(c) - 1 :
            Cursor[i] = <<c, j>> /\ Index(c, j) = i
    BY <1>3 DEF CursorAt
  <2>5. PICK j \in 0 .. NumEdges(c) - 1 : Cursor[i] = <<c, j>> /\ Index(c, j) = i
    BY <2>4
  <2>6. b = c /\ k = j
    <3>1. k \in Slot /\ j \in Slot /\ b \in Int /\ c \in Int
      BY BeforeEnd DEF AtRest
    <3> QED
      BY <2>3, <2>5, <3>1, IndexInjective
  <2> QED
    BY <1>4, <2>2, <2>5, <2>6
<1>6. \A i, j \in I : f[i] = f[j] => i = j
  BY <1>3, <1>4 DEF CursorAt
<1>7. {Cursor[i] : i \in I} = edges
  BY <1>4, <1>5
<1>8. Cardinality(edges) = degree
  <2>1. f \in Bijection(I, edges)
    <3>1. f \in [I -> edges] /\ DOMAIN f = I
      BY <1>4
    <3> HIDE DEF f, I
    <3> QED
      BY <1>5, <1>6, <3>1 DEF Bijection, Injection, Surjection, IsInjective
  <2>2. IsFiniteSet(I) /\ Cardinality(I) = degree
    BY <1>1, FS_Interval
  <2> HIDE DEF f, I
  <2> QED
    BY <2>1, <2>2, FS_Bijection DEF ExistsBijection
<1>9. Cursor[degree] = NullCursor
  BY <1>1, CursorWalks DEF CursorAt
<1> QED
  BY <1>7, <1>8, <1>9

(* Between batches the iterator meets each edge of the list once and then  *)
(* ends, the degree is their number, the marks agree with the counters of  *)
(* the blocks, and no word has been left empty.                            *)
THEOREM TraversedInFull == Spec => []ReadyToTraverse
<1>1. IInv /\ CInv => ReadyToTraverse
  <2> SUFFICES ASSUME IInv, CInv, Quiescent
               PROVE  LET edges == {p \in Positions : InUse(p)} IN
                      /\ {Cursor[i] : i \in 0 .. Cardinality(edges) - 1} = edges
                      /\ Cursor[Cardinality(edges)] = NullCursor
                      /\ degree = Cardinality(edges)
                      /\ \A b \in DOMAIN blocks :
                            /\ blocks[b].high = IF blocks[b].numEdges = 0
                                                THEN -1 ELSE blocks[b].numEdges
                            /\ next[b] = "ptr"
                      /\ \A p \in Positions :
                            /\ EdgeAt(p[1], p[2]).timeFirst = 0
                            /\ EdgeAt(p[1], p[2]).weight # MARKER
    BY DEF ReadyToTraverse
  <2>1. AtRest
    BY Rests
  <2>2. DOMAIN blocks = BlockIx /\ next \in [BlockIx -> {"ptr", "MARKER"}] /\ Typed
    BY Types DEF IInv, TypeOK, Typed
  <2>3. PICK edges : edges = {p \in Positions : InUse(p)}
    OBVIOUS
  <2>4. /\ {Cursor[i] : i \in 0 .. degree - 1} = edges
        /\ Cardinality(edges) = degree
        /\ Cursor[degree] = NullCursor
    BY <2>1, <2>2, <2>3, CursorMeets
  <2>5. ASSUME NEW b \in BlockIx
        PROVE  /\ blocks[b].high = IF blocks[b].numEdges = 0
                                   THEN -1 ELSE blocks[b].numEdges
               /\ next[b] = "ptr"
    <3>1. next[b] # "MARKER"
      BY DEF CInv, Owned, Quiescent, AtTail
    <3> QED
      BY <2>1, <2>2, <3>1 DEF AtRest, NumEdges, High
  <2>6. ASSUME NEW p \in Positions
        PROVE  EdgeAt(p[1], p[2]).timeFirst = 0 /\ EdgeAt(p[1], p[2]).weight # MARKER
    <3>1. PICK b \in BlockIx, k \in Slot : p[1] = b /\ p[2] = k
      BY <2>2 DEF Positions
    <3>2. TimeFirst(b, k) # MARKER /\ Weight(b, k) # MARKER
      BY DEF CInv, Owned, Quiescent, Holding, Writing, Updating
    <3>3. TimeFirst(b, k) \in {0, MARKER}
      BY <2>2 DEF Typed
    <3> QED
      BY <3>1, <3>2, <3>3 DEF TimeFirst, Weight
  <2> QED
    BY <2>2, <2>3, <2>4, <2>5, <2>6
<1> QED
  BY <1>1, InductiveInvariant, CountsInvariant, PTL
=============================================================================
