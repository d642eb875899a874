------------------------------ MODULE Stinger -------------------------------
(***************************************************************************)
(* stinger.cc: concurrent insertion into the edge-block list of one vertex *)
(* (one direction).  A list is a chain of blocks of BlockSize slots.  The  *)
(* threads of update()'s parallel loop search it without locks, and add to *)
(* it under the full/empty bits of x86_full_empty.c: a word that holds     *)
(* MARKER is empty and whoever emptied it (readfe) owns it until it writes *)
(* a value back (writeef, writexf).  Three words of the list are used so:  *)
(* a slot's weight, a slot's timeFirst, and a block's next pointer.        *)
(*                                                                         *)
(* Each access to a shared word is a step of its own, but for the test of  *)
(* a slot whose weight is locked, which only the lock's owner fills.       *)
(* Lists of different vertices, and the two directions of one vertex,      *)
(* share nothing.                                                          *)
(***************************************************************************)
EXTENDS Integers, Sequences, FiniteSets

CONSTANTS
    Threads,
    Dests,      \* the neighbours that edges of this vertex lead to
    Weights,
    BlockSize,  \* NUM_EDGES_PER_BLOCK
    MARKER,     \* INT64_MAX: "empty"
    MaxOps      \* bound on the insertions started

ASSUME DestsAssumption == Dests \subseteq Nat
ASSUME BlockSizeAssumption == BlockSize \in Nat \ {0}
\* x86_full_empty.h reserves the value: a weight equal to it would hang.
ASSUME MarkerAssumption == MARKER \in Int /\ Weights \subseteq Int \ {MARKER, -1}
                           /\ MARKER \notin {-1, 0}
ASSUME MaxOpsAssumption == MaxOps \in Nat

NoNeighbor == -1
Slot == 0 .. BlockSize - 1

VARIABLES
    blocks, \* the chain: a sequence of blocks, each linked to its successor
    next,   \* per block: "ptr" (full: the successor or null) or "MARKER"
    degree, \* the vertex's in_degree or out_degree
    pc,     \* the control point of each thread
    loc,    \* each thread's locals
    ops     \* insertions started so far

vars == <<blocks, next, degree, pc, loc, ops>>

EmptyEdge == [neighbor |-> NoNeighbor, weight |-> -1, timeFirst |-> 0]
NewBlock == [edges |-> [k \in Slot |-> EmptyEdge], numEdges |-> 0, high |-> -1]

Locals == [dest : Dests, weight : Weights, b : Nat, k : Nat, endk : Int,
           this : Dests \cup {NoNeighbor}, slotHeld : BOOLEAN]

ControlPoints ==
    {"idle", "p1_high", "p1_scan", "p2_high", "p2_scan", "p2_lock", "p2_this",
     "p2_recheck", "u_lock", "u_test", "u_neighbor", "u_numEdges", "u_degree",
     "u_high", "u_raise", "u_unlock", "t_lock", "t_new", "t_publish", "t_putback"}

Block == [edges : [Slot -> [neighbor : Dests \cup {NoNeighbor},
                            weight : Weights \cup {-1, MARKER},
                            timeFirst : {0, MARKER}]],
          numEdges : Nat, high : Int]

TypeOK ==
    /\ blocks \in Seq(Block)
    /\ next \in [DOMAIN blocks -> {"ptr", "MARKER"}]
    /\ degree \in Nat
    /\ pc \in [Threads -> ControlPoints]
    /\ loc \in [Threads -> Locals \cup {<<>>}]
    /\ \A t \in Threads : pc[t] # "idle" => loc[t] \in Locals
    /\ ops \in 0 .. MaxOps

Init ==
    /\ blocks = <<NewBlock>>     \* made by the constructor
    /\ next = <<"ptr">>
    /\ degree = 0
    /\ pc = [t \in Threads |-> "idle"]
    /\ loc = [t \in Threads |-> <<>>]
    /\ ops = 0

-----------------------------------------------------------------------------
Goto(t, label, locals) ==
    /\ pc' = [pc EXCEPT ![t] = label]
    /\ loc' = [loc EXCEPT ![t] = locals]

(* The slot a thread is looking at.                                        *)
EdgeAt(b, k) == blocks[b].edges[k]
IsLast(b) == b = Len(blocks)
(* readff(&next) finds the pointer readable.                               *)
NextIsFull(b) == next[b] = "ptr"

(* search_and_insert_edge() is called.                                     *)
Start(t) ==
    /\ pc[t] = "idle"
    /\ ops < MaxOps
    /\ \E d \in Dests, w \in Weights :
          Goto(t, "p1_high", [dest |-> d, weight |-> w, b |-> 1, k |-> 0,
                              endk |-> -1, this |-> NoNeighbor,
                              slotHeld |-> FALSE])
    /\ ops' = ops + 1
    /\ UNCHANGED <<blocks, next, degree>>

Local(t) == UNCHANGED <<blocks, next, degree, ops>>

(* First pass: look for the edge in the slots below the high-water marks.  *)
ReadHigh(t, here, there) ==
    /\ pc[t] = here
    /\ Goto(t, there, [loc[t] EXCEPT !.endk = blocks[loc[t].b].high, !.k = 0])
    /\ Local(t)

FirstPassHigh(t) == ReadHigh(t, "p1_high", "p1_scan")

FirstPassScan(t) ==
    LET r == loc[t] IN
    /\ pc[t] = "p1_scan"
    /\ r.k < r.endk
    /\ IF EdgeAt(r.b, r.k).neighbor = r.dest
       THEN Goto(t, "u_lock", r)
       ELSE Goto(t, "p1_scan", [r EXCEPT !.k = @ + 1])
    /\ Local(t)

FirstPassNextBlock(t) ==
    LET r == loc[t] IN
    /\ pc[t] = "p1_scan"
    /\ r.k >= r.endk
    /\ NextIsFull(r.b)
    /\ IF IsLast(r.b)
       THEN Goto(t, "p2_high", [r EXCEPT !.b = 1])
       ELSE Goto(t, "p1_high", [r EXCEPT !.b = @ + 1])
    /\ Local(t)

(* Second pass: look again, and take the first slot that is not in use.    *)
SecondPassHigh(t) == ReadHigh(t, "p2_high", "p2_scan")

SecondPassScan(t) ==
    LET r == loc[t]
        n == EdgeAt(r.b, r.k).neighbor
    IN  /\ pc[t] = "p2_scan"
        /\ r.k < BlockSize
        /\ \/ /\ n = r.dest /\ r.k < r.endk
              /\ Goto(t, "u_lock", r)
           \/ /\ n = NoNeighbor \/ r.k >= r.endk
              /\ Goto(t, "p2_lock", r)
           \/ /\ n \notin {NoNeighbor, r.dest} /\ r.k < r.endk
              /\ Goto(t, "p2_scan", [r EXCEPT !.k = @ + 1])
        /\ Local(t)

(* The end of a block: on to the next one, or to the tail pointer.         *)
SecondPassNextBlock(t) ==
    LET r == loc[t] IN
    /\ pc[t] = "p2_scan"
    /\ r.k = BlockSize
    /\ NextIsFull(r.b)
    /\ IF IsLast(r.b)
       THEN Goto(t, "t_lock", r)
       ELSE Goto(t, "p2_high", [r EXCEPT !.b = @ + 1])
    /\ Local(t)

(* readfe(timeFirst): own the slot, then look at it again.                 *)
LockSlot(t) ==
    LET r == loc[t] IN
    /\ pc[t] = "p2_lock"
    /\ EdgeAt(r.b, r.k).timeFirst # MARKER
    /\ blocks' = [blocks EXCEPT ![r.b].edges[r.k].timeFirst = MARKER]
    /\ Goto(t, "p2_this", [r EXCEPT !.slotHeld = TRUE])
    /\ UNCHANGED <<next, degree, ops>>

ReadThis(t) ==
    LET r == loc[t] IN
    /\ pc[t] = "p2_this"
    /\ Goto(t, "p2_recheck", [r EXCEPT !.this = EdgeAt(r.b, r.k).neighbor])
    /\ Local(t)

(* Mutants: a slot that has just been filled with this very edge is taken  *)
(* for somebody else's; a slot filled with another edge is updated.        *)
RecheckOtherOnly(t) ==
    LET r == [loc[t] EXCEPT !.endk = blocks[loc[t].b].high] IN
    /\ pc[t] = "p2_recheck"
    /\ \/ /\ r.this = NoNeighbor
          /\ Goto(t, "u_lock", r)
          /\ UNCHANGED blocks
       \/ /\ r.this # NoNeighbor
          /\ blocks' = [blocks EXCEPT ![r.b].edges[r.k].timeFirst = 0]
          /\ Goto(t, "p2_scan", [r EXCEPT !.k = @ + 1, !.slotHeld = FALSE])
    /\ UNCHANGED <<next, degree, ops>>
RecheckSkipped(t) ==
    /\ pc[t] = "p2_recheck"
    /\ Goto(t, "u_lock", loc[t])
    /\ UNCHANGED <<blocks, next, degree, ops>>

(* Still empty, or just filled with this very edge: update it.  Filled     *)
(* with another edge: give the slot back and go on.                        *)
Recheck(t) ==
    LET r == [loc[t] EXCEPT !.endk = blocks[loc[t].b].high] IN
    /\ pc[t] = "p2_recheck"
    /\ \/ /\ r.this \in {NoNeighbor, r.dest} \/ r.k >= r.endk
          /\ Goto(t, "u_lock", r)
          /\ UNCHANGED blocks
       \/ /\ r.this \notin {NoNeighbor, r.dest} /\ r.k < r.endk
          /\ blocks' = [blocks EXCEPT ![r.b].edges[r.k].timeFirst = 0]
          /\ Goto(t, "p2_scan", [r EXCEPT !.k = @ + 1, !.slotHeld = FALSE])
    /\ UNCHANGED <<next, degree, ops>>

-----------------------------------------------------------------------------
(* update_edge_data(): own the slot's weight; register the edge if the     *)
(* slot was not in use; write the weight.                                  *)

LockWeight(t) ==
    LET r == loc[t] IN
    /\ pc[t] = "u_lock"
    /\ EdgeAt(r.b, r.k).weight # MARKER
    /\ blocks' = [blocks EXCEPT ![r.b].edges[r.k].weight = MARKER]
    /\ Goto(t, "u_test", r)
    /\ UNCHANGED <<next, degree, ops>>

TestNew(t) ==
    LET r == loc[t] IN
    /\ pc[t] = "u_test"
    /\ IF EdgeAt(r.b, r.k).neighbor = NoNeighbor \/ r.k >= blocks[r.b].high
       THEN Goto(t, "u_neighbor", r)
       ELSE Goto(t, "u_unlock", r)
    /\ Local(t)

RegisterNeighbor(t) ==
    LET r == loc[t] IN
    /\ pc[t] = "u_neighbor"
    /\ blocks' = [blocks EXCEPT ![r.b].edges[r.k].neighbor = r.dest]
    /\ Goto(t, "u_numEdges", r)
    /\ UNCHANGED <<next, degree, ops>>

CountInBlock(t) ==
    LET r == loc[t] IN
    /\ pc[t] = "u_numEdges"
    /\ blocks' = [blocks EXCEPT ![r.b].numEdges = @ + 1]
    /\ Goto(t, "u_degree", r)
    /\ UNCHANGED <<next, degree, ops>>

CountDegree(t) ==
    /\ pc[t] = "u_degree"
    /\ degree' = degree + 1
    /\ Goto(t, "u_high", loc[t])
    /\ UNCHANGED <<blocks, next, ops>>

TestHigh(t) ==
    LET r == loc[t] IN
    /\ pc[t] = "u_high"
    /\ Goto(t, IF r.k >= blocks[r.b].high THEN "u_raise" ELSE "u_unlock", r)
    /\ Local(t)

(* Mutant: the mark is the last slot in use, not the one after it.         *)
RaiseHighShort(t) ==
    LET r == loc[t] IN
    /\ pc[t] = "u_raise"
    /\ blocks' = [blocks EXCEPT ![r.b].high = r.k]
    /\ Goto(t, "u_unlock", r)
    /\ UNCHANGED <<next, degree, ops>>

RaiseHigh(t) ==
    LET r == loc[t] IN
    /\ pc[t] = "u_raise"
    /\ blocks' = [blocks EXCEPT ![r.b].high = r.k + 1]
    /\ Goto(t, "u_unlock", r)
    /\ UNCHANGED <<next, degree, ops>>

(* Mutant: the slot is not released.                                       *)
WriteWeightOnly(t) ==
    LET r == loc[t] IN
    /\ pc[t] = "u_unlock"
    /\ blocks' = [blocks EXCEPT ![r.b].edges[r.k].weight = r.weight]
    /\ Goto(t, "idle", <<>>)
    /\ UNCHANGED <<next, degree, ops>>

(* writeef(weight), then writexf(timeFirst) if the slot is held; nothing   *)
(* but the release of the slot lies between the two.                       *)
WriteWeight(t) ==
    LET r == loc[t]
        timeFirst == IF r.slotHeld THEN 0 ELSE EdgeAt(r.b, r.k).timeFirst
    IN  /\ pc[t] = "u_unlock"
        /\ blocks' = [blocks EXCEPT ![r.b].edges[r.k] =
                         [@ EXCEPT !.weight = r.weight, !.timeFirst = timeFirst]]
        /\ Goto(t, "idle", <<>>)
        /\ UNCHANGED <<next, degree, ops>>

-----------------------------------------------------------------------------
(* A new block at the end of the chain.                                    *)

(* readfe(&last->next)                                                     *)
LockTail(t) ==
    LET r == loc[t] IN
    /\ pc[t] = "t_lock"
    /\ NextIsFull(r.b)
    /\ next' = [next EXCEPT ![r.b] = "MARKER"]
    /\ Goto(t, IF IsLast(r.b) THEN "t_new" ELSE "t_putback", r)
    /\ UNCHANGED <<blocks, degree, ops>>

(* Mutant: the degree is not counted.                                      *)
FillNewBlockUncounted(t) ==
    /\ pc[t] = "t_new"
    /\ Goto(t, "t_publish", loc[t])
    /\ UNCHANGED <<blocks, next, degree, ops>>

(* The edge goes into slot 0 of a block nobody else can see yet; the only  *)
(* shared effect is on the degree.                                         *)
FillNewBlock(t) ==
    /\ pc[t] = "t_new"
    /\ degree' = degree + 1
    /\ Goto(t, "t_publish", loc[t])
    /\ UNCHANGED <<blocks, next, ops>>

(* writeef(&last->next, newBlock)                                          *)
Publish(t) ==
    LET r == loc[t]
        edge == [neighbor |-> r.dest, weight |-> r.weight, timeFirst |-> 0]
    IN  /\ pc[t] = "t_publish"
        /\ blocks' = Append(blocks,
                        [NewBlock EXCEPT !.edges[0] = edge,
                                         !.numEdges = 1, !.high = 1])
        /\ next' = Append([next EXCEPT ![r.b] = "ptr"], "ptr")
        /\ Goto(t, "idle", <<>>)
        /\ UNCHANGED <<degree, ops>>

(* Another thread was first: put its pointer back and search its block.    *)
PutBack(t) ==
    LET r == loc[t] IN
    /\ pc[t] = "t_putback"
    /\ next' = [next EXCEPT ![r.b] = "ptr"]
    /\ Goto(t, "p2_high", [r EXCEPT !.b = @ + 1])
    /\ UNCHANGED <<blocks, degree, ops>>

-----------------------------------------------------------------------------
UpdateEdgeData(t) ==
    \/ LockWeight(t) \/ TestNew(t) \/ RegisterNeighbor(t) \/ CountInBlock(t)
    \/ CountDegree(t) \/ TestHigh(t) \/ RaiseHigh(t) \/ WriteWeight(t)

SearchAndInsert(t) ==
    \/ FirstPassHigh(t) \/ FirstPassScan(t) \/ FirstPassNextBlock(t)
    \/ SecondPassHigh(t) \/ SecondPassScan(t) \/ SecondPassNextBlock(t)
    \/ LockSlot(t) \/ ReadThis(t) \/ Recheck(t)
    \/ LockTail(t) \/ FillNewBlock(t) \/ Publish(t) \/ PutBack(t)
    \/ UpdateEdgeData(t)

Quiescent == \A t \in Threads : pc[t] = "idle"

(* The last batch has been processed.                                      *)
Finished == ops = MaxOps /\ Quiescent /\ UNCHANGED vars

Next == (\E t \in Threads : Start(t) \/ SearchAndInsert(t)) \/ Finished

(* A running thread keeps running; a batch is finite, so no lock is        *)
(* contended forever and weak fairness is enough for the spinning readfe.  *)
Spec == Init /\ [][Next]_vars /\ \A t \in Threads : WF_vars(SearchAndInsert(t))

-----------------------------------------------------------------------------
(* traversal.h: the iterator over a list at rest.  Its cursor is a slot,   *)
(* which a slot past the numEdges of its block would never leave.          *)
NullCursor == <<0, 0>>

Begin == IF blocks[1].numEdges = 0 THEN NullCursor ELSE <<1, 0>>

Advance(c) ==
    LET last == blocks[c[1]].numEdges - 1 IN
    CASE c[2] < last -> <<c[1], c[2] + 1>>
      [] c[2] = last -> IF c[1] < Len(blocks) THEN <<c[1] + 1, 0>> ELSE NullCursor
      [] c[2] > last -> c

(* Where the cursor is after i increments.                                 *)
Cursor[i \in 0 .. Len(blocks) * BlockSize] ==
    IF i = 0 THEN Begin
    ELSE IF Cursor[i - 1] = NullCursor THEN NullCursor ELSE Advance(Cursor[i - 1])

Positions == {<<b, k>> : b \in DOMAIN blocks, k \in Slot}
InUse(p) == EdgeAt(p[1], p[2]).neighbor # NoNeighbor

(* No neighbour is listed twice, not even while threads race to add it.    *)
NoDuplicateNeighbors ==
    \A p, p2 \in Positions :
        /\ InUse(p) /\ InUse(p2)
        /\ EdgeAt(p[1], p[2]).neighbor = EdgeAt(p2[1], p2[2]).neighbor
        => p = p2

(* Between batches a traversal meets each edge of the list once and nothing *)
(* else, and ends; the degree counts the edges; high, which the searches   *)
(* of the next batch go by, agrees with numEdges; no word is left empty.   *)
ReadyToTraverse ==
    LET edges == {p \in Positions : InUse(p)} IN
    Quiescent =>
        /\ {Cursor[i] : i \in 0 .. Cardinality(edges) - 1} = edges
        /\ Cursor[Cardinality(edges)] = NullCursor
        /\ degree = Cardinality(edges)
        /\ \A b \in DOMAIN blocks :
              /\ blocks[b].high = IF blocks[b].numEdges = 0
                                  THEN -1 ELSE blocks[b].numEdges
              /\ next[b] = "ptr"
        /\ \A p \in Positions :
              /\ EdgeAt(p[1], p[2]).timeFirst = 0
              /\ EdgeAt(p[1], p[2]).weight # MARKER

(* An edge never moves or disappears once it is in a slot, and a block     *)
(* once linked stays linked: an unlocked reader never loses its place.     *)
EdgesStayPut ==
    [][\A p \in Positions : InUse(p) =>
          EdgeAt(p[1], p[2])'.neighbor = EdgeAt(p[1], p[2]).neighbor]_vars

(* Every insertion completes: no thread spins forever on an empty word.    *)
InsertionsComplete == \A t \in Threads : pc[t] # "idle" ~> pc[t] = "idle"

(* The list is linearizable: an insertion takes effect when its thread     *)
(* empties the weight word of the slot (what it will write is settled      *)
(* then), or when it publishes a new block.  The second conjunct ties the  *)
(* effect to the edge that the thread inserts.                             *)
Writer(p, t) ==
    /\ pc[t] \in {"u_test", "u_neighbor", "u_numEdges", "u_degree", "u_high",
                  "u_raise", "u_unlock"}
    /\ loc[t].b = p[1] /\ loc[t].k = p[2]
Effective ==
    {[dest |-> loc[t].dest, weight |-> loc[t].weight] :
        t \in {u \in Threads : \E p \in Positions : Writer(p, u)}}
    \cup
    {[dest |-> EdgeAt(p[1], p[2]).neighbor, weight |-> EdgeAt(p[1], p[2]).weight] :
        p \in {x \in Positions : InUse(x) /\ ~ \E t \in Threads : Writer(x, t)}}
Content == [d \in {x.dest : x \in Effective} |->
               (CHOOSE x \in Effective : x.dest = d).weight]
Linear == INSTANCE NeighborMap WITH content <- Content
ImplementsNeighborMap ==
    /\ Linear!MapSpec
    /\ [][\A t \in Threads : LockWeight(t) \/ Publish(t) =>
             Linear!PutEdge(loc[t].dest, loc[t].weight)]_vars
=============================================================================
