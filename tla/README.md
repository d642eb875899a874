# SAGA-Bench in TLA+

SAGA-Bench is a benchmark of streaming graph analytics: it reads a file of
edges in batches, applies each batch to a dynamic graph structure with several
threads (the *update* phase), then brings the result of a graph algorithm up to
date with several threads (the *compute* phase). Its structures use row
mutexes, per-partition queues or full/empty words; its incremental algorithms
share an array of values without any lock. This directory holds TLA+ models of
those parts, the TLC configurations that check them on small instances, and proofs,
checked by TLAPS, about both phases.

Paths below are relative to the repository's root; `dynamic/` stands for
`src/dynamic/`.

## 1. Inventory

### The system's parts

| Part | State | Operations | Modules |
|---|---|---|---|
| Edge reader and batch queue: `frontEnd.cc`, `fileReader.h`, `builder.cc` | stream position, `VMap`, `lastAssignedLogicalID`, the queue of batches, its mutex, the flag `loop` | read a batch; push; poll until empty; clear the flag; join. Builder: pop, update, perform the algorithm, sleep | `Pipeline` |
| Edges and rows: `types.h`, `abstract_data_struc.h` | (plain data) | reverse an edge; search a row; overwrite or append | `EdgeStream`, `EdgeStore` |
| `adList.h` | two vectors of rows, `affected`, `property`, counters | `update(batch)` | `AdList` |
| `adListShared.h` | the same, and a mutex per row and direction | parallel `update(batch)` | `AdListShared` |
| `adListChunked.h`, `adListPerChunk.h` | partitions, each with rows, a queue, a mutex and a thread; the flag `done` | `update(batch)`: spawn, enqueue every edge and its reverse, set `done`, join; `dequeue_loop` | `AdListChunked` |
| `stinger.cc`, `x86_full_empty.c` | per vertex and direction a chain of blocks of slots; words that can be empty (`MARKER`) | `search_and_insert_edge`, `update_edge_data`, `readfe`, `writeef` | `Stinger`, `NeighborMap` |
| Incremental SSSP, SSWP, CC, MC: `dyn_sssp.h`, `dyn_sswp.h`, `dyn_cc.h`, `dyn_mc.h` | `property`, the sliding queue, `visited`, the threads' local queues | `dynXAlg()`: first round over the affected vertices, then rounds over the queue | `PullEngine`, `Algorithms`, `DynSSSP`, `DynSSWP`, `DynCC`, `DynMC` |
| Incremental BFS: `dyn_bfs.h` | the same | first round pulls, later rounds push with compare-and-swap | `DynBFS` |
| From scratch: BFS and SSWP | `property`, the sliding queue, `visited` | rounds of offers with compare-and-swap | `PushRounds`, `FromScratch` |
| From scratch: SSSP | `dist`, thread-local bins, the frontier, `shared_indexes`, `frontier_tails` | delta-stepping: settle a bin, vote on the next, copy | `DeltaStepping`, `FromScratch` |
| From scratch: CC, MC | labels; values and queue | hook and compress; rounds over all vertices | `HookCompress`, `FromScratch`; `ScratchMC` |
| Dispatch: `topAlg.h`, `source_picker_dynamic.h` | algorithm, source | `performAlg()`, `PickNext()` | `Algorithm`, `Algorithms`, `FromScratch`, `SourcePicker` |
| `sliding_queue_dynamic.h`, `common/platform_atomics.h` | windows of a shared array, local queues | `slide_window`, `push_back`, `flush`, `compare_and_swap` | in `PullEngine`, `DynBFS` |
| Degree-aware Robin Hood hashing: `darhh.h`, `darhh_ld.h`, `darhh_hd.h`, `rhh.h` | per partition a low-degree table, a table per high-degree vertex, a queue, a thread; the flag `done` | `update(batch)`, `dequeue_loop`, insert, probe, double, move a vertex, degrees, iterate | `Darhh`, `RobinHood` |
| Iterators: `traversal.h` | a cursor | those of stinger and of degree-aware hashing | in `Stinger`, `Darhh` |
| PageRank: `dyn_pr.h` | | | not modelled, see section 7 |
| Command line, printing, timers, scripts | | | not modelled: no shared state |

### How they interact

Two threads: `main` reads and queues batches, the builder applies them. They
share the queue (under a mutex) and `loop`/`still_reading` (without one). The
builder calls `update()` of one structure and then `performAlg()`, so update and
compute phases alternate and never overlap; inside each of them OpenMP or
`std::thread` workers run concurrently. An update leaves the compute phase three
things: the rows, `num_nodes`, and `affected`, the endpoints of the batch. The
compute phase clears `affected` at its end and keeps `property` for the next
batch. The reader's flags `sourceExists`/`destExists` in an edge are relative
to every edge before it, so everything downstream relies on file order.

### What is hard, and what must hold

* **Pipeline**: the flag is cleared without the lock, possibly while the last
  batch is still being worked on. Batches must be applied once each, in file
  order; IDs must be dense; the output must be that of the whole file; the
  program must end.
* **Structures**: two edges of a batch may want the same row, slot or tail
  pointer. A neighbour must never be listed twice, no edge may be lost, counters
  and marks must come out as if edges came one by one, and the threads must get
  done.
* **adListChunked**: `done` is set outside the mutex; nothing may be left in a
  queue when `update()` returns, and the rounded-up chunk must hold every
  vertex that hashes to it.
* **stinger**: slots are searched without locks while others fill them; every
  path must refill the words it has emptied.
* **Degree-aware hashing**: a vertex' edges start out in one table and move to
  another; the slots they leave are tombstones, which a later insertion may take
  over and which still count as full. An early-ending search must never miss an
  edge, a table must never fill up, and a degree must count what a traversal
  shows, after doubling and wrapping around as well.
* **Compute phase**: values are read while other threads store better ones. An
  improvement must not be overlooked (a mark in `visited` may not swallow a
  later one), no vertex may be queued twice (the queue arrays have `num_nodes`
  entries), values of earlier batches must be safe to start from, and the
  rounds must come to an end.
* **From scratch**: compare-and-swaps fail and are repeated or not; hookings of
  one root overwrite each other; delta-stepping runs in one parallel region whose
  two sets of counters alternate by parity. Results must be exact all the same,
  the arrays must be long enough, and each call must return.

`PROJECT.json` lists these hazards one by one with the line where each bites and
the properties that cover it.

## 2. Modules and how they correspond to the code

Names follow the source. Definitions whose comment starts with `Mutant` are
deliberately wrong variants of the definition that follows them; no
specification uses them, but for `StartValuesForAll`, which is wrong for the incremental
algorithms and right for `mcfromscratch`. They document, for each property, one plausible mistake
in the code that the property would detect.

**`EdgeStream`**: edges with IDs the reader can emit (`Submittable(known)`:
an endpoint is an ID already given out, or the next one), and the search-and-put
on a row shared by the three adjacency lists. `NodeID` is an `int64_t`; IDs are
small numbers here.

**`EdgeStore`**: the abstract promise of every structure: a map from pairs of
vertices to weights in which the last weight submitted stays, the vertices
counted and marked. Undirected graphs insert both directions.

**`AdList`**: one variable `ds`, the object. `Update` runs `Examine` for the
source, then for the destination, as `adList::update` does; new vertices *append*
a row (`adList.h:65`), which is right only for dense IDs. It implements
`EdgeStore` (`ImplementsEdgeStore`).

**`AdListChunked`**: `Submit` and `Mirror` are the two `enqueue`s of one
iteration of `update()`; `Acquire`, `Wait`, `Drain`, `Insert`, `Exit` are
`dequeue_loop`. The number of partitions, `pt_hash`, `hash_within_chunk` and the
rounded-up chunk size are the code's formulas; `Setups` lists the kinds of graph
and numbers of threads that the constructor may be given. It implements
`AdList`: the refinement mapping applies to the rows, in queue order, everything
that is still in flight to them (`Settled`), so a submission is `AdList`'s
`Update` and the threads' work is invisible. `WithinChunk` is what keeps that
mapping defined.

**`RobinHood`**, **`Darhh`**: the table as pure operators, and the partitions with
their queues and threads around it. `Place` is the loop of `insert_elem`, the
displaced elements and the reused tombstones included, written as what it is after d
steps: the element in hand then is the one from the last slot that was nearer to
its home (`Richer`). `InsertElem` doubles first when the load is reached; `Doubled` inserts
the live elements with `Place`, because the check of the load inside `double_capacity`'s
own insertions cannot succeed for the capacities that `IsCapacity` allows
(`DoubledLoad` in the proofs). `InsertEdge` is `partition::insert`: the
choice of the table, and `TransferLowToHigh` at the threshold. `LdSlots` is the
walk of the low-degree iterator and of `get_degree`. An insertion is one step:
only the partition's thread touches its tables during an update. `Darhh`
implements `EdgeStore`, with what traversals show, and what is still in a queue,
as the stored edges.

**`AdListShared`**: each iteration of the parallel loop is a process
(`ProcessMetaData`, `Lock`, `Search`, `Write`, for the source, then for the
destination). The code's `parallel for` gives each thread a
run of consecutive iterations; with as many threads as edges every interleaving
of the model can happen, with fewer a subset of them. `stinger::update` and its counters are the
same loop. The structure does not implement `AdList` step by step: if a batch
contains a pair twice with different weights, the out and in rows may keep
different ones; `NoEdgeLost` says exactly how much is true, by a history
variable (`allowed`: the weights a pair has in the last batch that contains it).

**`Stinger`**: one list of one vertex and direction (lists share nothing). A
step is one access to a shared word. `LockSlot`, `LockWeight`, `LockTail` are
`readfe` on a slot's `timeFirst`, on its `weight` and on the `next` pointer of
the last block: they take the value and leave `MARKER`; the write-back releases.
`Begin`, `Advance` and `Cursor` are the iterator of `traversal.h` over a list at
rest. `x86_full_empty.h` says in a comment that it must not be compiled with
optimisation while the makefile uses `-O2`; the words are accessed through
`volatile` pointers and exchanged atomically, which is all the model assumes. It
implements **`NeighborMap`**, a map that changes in one step per insertion, at
the moment the new weight becomes readable.

**`Pipeline`**: line-by-line reading (blank lines, end of file with and without
a final newline, an empty last batch, batch size 0), the queue, both threads.
The structure is reduced to the vertex count and the list of edges applied.

**`PullEngine`**: the compute phase that four algorithms repeat. One action per
shared access: `Take` (an iteration reads its own value), `Pull` (one
neighbour's value), `Store`, `Push` (one neighbour: `visited` by
compare-and-swap, the local queue, a flush when it is full), `Flush` and the
barrier. Which value is better, what an edge offers and where a new vertex
starts is different for each algorithm: **`DynSSSP`**, **`DynSSWP`**, **`DynCC`** and
**`DynMC`** define it from each file, and **`Algorithms`** has one operator for each of
these, which chooses by the variable `alg`: the name, the kind of graph and the
source. **`ScratchMC`**, the from-scratch maximum, goes through the same rounds from
other starting values, begins with all vertices and leaves the marks. **`Algorithm`**
dispatches as `topAlg.h` does: `Options` are the command line's choices, and a
search picks its source (**`SourcePicker`**: every result that the bounded number
of random trials can have, "none" included) after the first batch that offers
one; until then batches are skipped and their marks stay in `affected`. A pull such as
`if (property[v] < m) m = property[v]` mentions the shared value twice; the
optimised build (`-O2` in the makefile) loads it once, so `Pull` reads it once.
Two abstractions: the local queue's capacity is a parameter (16384 in the code),
and a batch is a set of pairs with one weight each (the update phase has
already settled repeated pairs).

**`DynBFS`**: `dynBFSAlg` and `BFSIter0`: the first round pulls and stores with
a plain assignment, later rounds push, `ReadTarget`, `ReadOwn`, `Claim`,
`CompareAndSwap` and `Reload` being the accesses of the push loop in the code's
order. A push in the first round reads its own depth again, as the code does.
`team` is the set of threads the run has. The queue is one sequence: its local
buffers are those of `PullEngine`.

**`FromScratch`** dispatches one call from scratch: it picks the source and runs
one of three modules. **`PushRounds`** is `BFSStartFromScratch` and
`SSWPStartFromScratch`, which differ in their operators and in who queues a
vertex (`MarksFirst`). **`DeltaStepping`** is `SSSPStartFromScratch` with the
`delta` of 1 that `topAlg.h` passes: `Take` to `Reload` relax the frontier,
`Vote` proposes the next bin, `Single` is the single block behind the first
barrier, `Copy` reserves a part of the frontier, `NextIteration` is the second
barrier. **`HookCompress`** is `CCStartFromScratch`; the undirected loop reads a
vertex' label once, the directed one for each edge, as in the code. Nothing but
the source survives from one such call to the next, so one call on any graph is
all there is.

## 3. Runs

Twelve runs; each finishes within a few minutes with two workers.

| Run | Instance | What it shows |
|---|---|---|
| `adlist` | 3 vertices, 2 weights, 4 edges, both kinds of graph | The row arithmetic of `AdList` keeps the promise of `EdgeStore`: dense rows, no duplicates, last weight wins |
| `chunked` | 3 vertices, 2 weights, 2 edges, 3 threads: directed with a partition a side, undirected with two | `AdListChunked` implements `AdList` for every order of the threads; nothing is stranded in a queue; no local index leaves its chunk; `update()` returns |
| `darhh` | 4 vertices, 2 weights, 3 edges, tables of 4 slots with a load factor of 75 %; directed with a partition a side, undirected with one | Probe order and room in every table, degrees that agree with traversals, and the promise of `EdgeStore`, for every order of the threads |
| `shared` | 2 vertices, 2 weights, a batch of 3 concurrent edges, both kinds of graph | No duplicate neighbours, exact counters and marks, both halves of each edge present, no deadlock |
| `stinger_two` | 2 threads, 4 insertions, 3 neighbours, 2 weights, blocks of 2 slots | Linearizable map; between batches the iterator meets each edge once; marks, counters and words consistent; edges never move |
| `stinger_completes` | 3 threads, 3 insertions, blocks of 1 slot | Three threads after one slot and one tail pointer; every insertion ends |
| `pipeline` | every file of up to 3 lines over 3 names and blank lines, batches of 2 | File order, dense IDs, complete output, termination |
| `pull_engine` | CC on a directed graph: 3 vertices, 2 threads, local queues of 1 entry, batches of 2 and 1 edges | Convergence to the values of a computation from scratch, single queueing, single writer, improvement only, termination, with a first-round trigger and edges used both ways |
| `algorithms` | SSSP, SSWP, CC, MC, and MC from scratch, directed and undirected; 3 vertices, 2 threads, batches of 2 and 1 edges, any source | Values equal those of a computation from scratch after each batch, also when the first batch had no source to offer |
| `bfs` | teams of 1 and 2 threads; pairs of batches of up to 2 edges over 3 vertices (all of them, but for self loops in the first), and three over 4 vertices: a chain linked late, two ways to one vertex, a shortcut | Reached = reachable, no depth too small, single queueing, shortest depths with one thread, termination |
| `scratch` | BFS, SSWP, SSSP and CC from scratch; 2 threads, graphs of 4 vertices of six shapes with several weightings, edges of weight 0 included; every source | Exact depths, widths, lengths and components, bins settled in order, queues within their arrays, every call returns |
| `bfs_shortcut` | 4 vertices, one pair of batches | **violation**: with two threads the depths are not the shortest (section 6) |

Every property of a passing run has a mutant in `PROJECT.json`, a wrong variant
of one modelled definition under which TLC finds the property violated.

### Bounds, and why they are enough

* *Two vertices or three.* The races are about two threads meeting at one row,
  slot, partition or vertex. Three vertices give a path with a vertex in the
  middle (a value that travels over two rounds), a self loop, and in
  `AdListChunked` two vertices in one partition and one in another, with a chunk
  that is only partly used (3 = 2 * 2 - 1).
* *Two batches* in the compute phase: the second starts from values, marks and
  queues that the first left, and a third adds no new kind of state: between
  batches only `property` survives, and it has converged (`Converged` is proved
  for any number of batches).
* *Repeated edges*: all models enumerate edges with repetition, with two
  weights where weights matter.
* *Graphs of four vertices* in `scratch`: a diamond (two ways to one vertex, of
  different lengths, so that a vertex is put into one bin and then into a lower
  one, and two threads store at one vertex), a cycle, a shortcut, a path whose
  edges turn (labels that meet in the middle) and two components.
* *Tables of four slots* in `darhh`, with a load factor of 75 %: three elements
  make a table double, four vertices wrap around its end, and a third edge at one
  vertex makes it move, so that tombstones are left and taken over. In the code
  the tables start with 2^20 and 2^5 slots; the capacity matters only through the
  residue that hashing takes. `DistInf` and `MaxBin` are larger than any path,
  `FloatMax` than any depth, as in the code.
* *Local queues* of one and two entries are filled by a vertex with two
  neighbours; blocks of one and two slots are filled by two or three
  insertions.
* *Bounds by name*: `MaxEdges`, `MaxSubmitted`, `BatchSize`, `MaxLines`, `MaxOps`, `BatchSizes`,
  `Inputs`, `Setups`, `Options`. They bound the input, never the number of steps.
* Symmetry is used for threads and, in `darhh`, for weights, where only safety is
  checked.

Runs whose models may rest when the input is used up end in an explicit
`Finished` or `Terminated` step, so deadlock is checked everywhere.

### Fairness

* OpenMP workers, stinger threads (`WF` per thread): the runtime runs each
  thread of a parallel region until the region's barrier. The spinning `readfe`
  is enabled only while the word is full; a batch is finite and each thread
  takes part in finitely many contentions, so weak fairness is enough.
* `Begin \/ Slide \/ End`, and `PickSource \/ Main` of `FromScratch` (`WF`): the
  main thread between parallel regions.
* `AdListChunked`, `Pipeline` (`SF` per thread): the contended action is
  acquiring a `std::mutex`, which promises no fairness. Whoever finds a queue
  empty releases the mutex and sleeps before it tries again (`builder.cc:41`,
  `frontEnd.cc:64`, `adListChunked.h:186`), so the other side cannot be shut out
  forever. Arrival of input is not assumed.

Liveness is checked in `chunked`, `stinger_completes`, `pipeline`,
`pull_engine`, `bfs` and `scratch`. In `algorithms` it is not: the rounds are
those of `pull_engine`; nor in `darhh`, whose threads and queues are those of
`AdListChunked`.

## 4. What is proved

Each module `X_proofs` extends `X`; `EdgeStore_proofs` extends `AdList` and `Darhh`, the two
structures that are shown to implement `EdgeStore` directly. Every theorem is for any value of the
constants that satisfies the assumptions named, so for any number of vertices,
threads and edges. In the tables a property that a run checks too has the run's
name behind it.

### The compute phase: `PullEngine_proofs`

| Theorem | Statement |
|---|---|
| `InductiveInvariant` | `Spec => []IInv` |
| `TypeCorrect` | `Spec => []TypeOK` |
| `Exactness` | `Spec => []SameAsFromScratch` (`pull_engine`): after every batch the values are those of a computation from scratch |
| `Bounds` | `Spec => []InBounds`: no value, stored or in a thread's hands, is better than what a computation from scratch comes to |
| `Convergence` | `Spec => []Converged` (`pull_engine`): when a compute phase ends, no vertex can be improved by any neighbour |
| `NoDoubleQueueing` | `Spec => []QueuedOnce` (`pull_engine`) |
| `SingleWriter` | `Spec => []OneWriter` (`pull_engine`) |
| `NoOverflow` | `Spec => []QueueFits`: a queue never holds more than `num_nodes` entries, the size of the array `flush()` copies into |
| `Improvement` | `Spec => OnlyImproves` (`pull_engine`; every step of every thread) |
| `PerformInvariance` | `PerformSpec => []PerformInv` |
| `PerformExactness` | `PerformSpec => []ResultFromScratch` (`algorithms`): the same as `Exactness`, for the five algorithms as dispatched, skipped batches included |

The theorems about `Spec` are about the engine by itself, with the source of a search
given; the last two about the program as `performAlg()` runs it.

**Assumptions.** `NumNodes` and `LocalSize` are positive; there is a thread; `Options`
are options the model knows; lengths are positive (section 5) and widths are not
negative; `DistInf` is above any length of a path and any width. Nothing is assumed of the
algorithms: the laws the rounds need are lemmas about the definitions of the four files. `Better` is a
strict linear order on `Value` (`BetterLaws`); `Start`, `Base` and `Extend` stay in
`Value`, and the base of a pull is no better than the vertex's own value (`ValueLaws`); an
offer is no better than what it is made from, and no worse for coming from a better value
or over a weight that `Admits` has let replace another (`ExtendLaws`).

**The argument.** `Converged` is far from inductive: in mid-phase many edges
could still improve a vertex. `AllAccounted` says that none of them is
forgotten. For each edge from u to n over which n could be improved, one of
these holds: n has not been taken in this round; n is marked in `visited` and
so in some queue for the next; a thread is pulling for n and either has yet to
read u or already holds as good a value (`Forthcoming`); or the thread that
improved u has yet to push n (`ToBePushed`). The delicate step is a `Store` at u
while another thread has already read u's old value for n: the storing thread
then has n in its push set, and the push either marks n or finds it marked, in
which case n is queued (`VisitedQueued`) and will pull in the next round, after
the barrier, when u's value is stored. At the end of a round nothing is untaken
and no thread is busy, so what is accounted for is in the next queue; when that
is empty every edge is relaxed. `MarkedOrRelaxed` carries this through the
update phase: a batch can only make an improvement possible at vertices it
marks. It needs `Admits`: a repeated edge must not become worse than it was.
`OneWriter`, `WorkKnown` and `Valued` supply that what a thread read for
its own vertex is still current when it stores.

**Exactness.** `Scratch` improves the start values of all vertices over every edge
`NumNodes` times. The values are bounded by it from both sides. *Not better*
(`InBounds`): a value is the start value or was offered by a neighbour, over an edge
that the graph has now; values of earlier batches stay within the bound because
a batch only makes `Scratch` better (`ScratchMonotone`). That rests on `ScratchClosed`: after
`NumNodes` rounds no edge improves anything further. Its proof is Dijkstra's argument for any
`Better`: call a vertex settled after k rounds if later rounds leave its value alone. The next
round settles one more (`SettledGrow`): of the others, the one that gets the best from
its start or from settled vertices, since offers are no better than what they are made
from and nothing that comes by way of the others can beat it (`BoundKept`). *Not worse* (`NoneWorse`): with every edge relaxed
(`Converged`) and no value worse than the start, the values after k rounds are no
better than those stored, by induction over k. The induction is over sets of numbers
(`SetInduction`), as `Scratch` is a recursive function.

**The dispatch.** While a search has no source, `Converged` is false: batches add edges and
vertices, and no vertex gets a value. What holds instead is `Skipping`: no vertex has a
value, and every vertex is marked, as nobody clears the marks of a skipped batch. When a
source is found, `Start` changes under the values, which are all still `Uninit`
(`PickSourceInv`), and all vertices are in the first round. The rounds themselves are the same for
`mcfromscratch`: it begins with every vertex in the queue and start values again
for all (`BeginAllInv`), which is at least what the incremental `Begin` does, and leaves the marks,
which are then more than necessary (`EndInv`). Its first round triggers less than that of
`mcdyn`, only for improved vertices, and that is enough as all vertices are in it.

### Incremental BFS: `DynBFS_proofs`

| Theorem | Statement |
|---|---|
| `InductiveInvariant` | `Spec => []IInv` |
| `ReachableGetDepth` | `Spec => []ReachableReached` (`bfs`): when a compute phase ends exactly the reachable vertices have a depth |
| `ShortestWithOneThread` | `Spec => []DepthsAreShortestAlone` (`bfs`): one thread finds the distances |
| `NoDepthTooShallow` | `Spec => []NeverTooShallow` (`bfs`) |
| `NothingQueuedTwice` | `Spec => []QueuedOnce` (`bfs`) |
| `TypeCorrect` | `Spec => []TypeOK` |

**Assumptions.** There is a vertex, the source is one, the threads are finitely many,
a batch is a set of edges between vertices, and `FloatMax`, the code's
`numeric_limits<float>::max()`, is more than twice the number of vertices.

**The argument.** Depths do not only fall here: the plain store of a pull can put a
larger depth over one that another thread has just stored, and that is why the run
`bfs_shortcut` fails. So the improvable edges of `PullEngine_proofs` are of two kinds
(`Improvable`). Among several threads only an edge from a vertex that has a depth to one
that has none counts; for a single thread also one that would give a smaller depth.
`Accounted` says of those edges what `AllAccounted` says there. An overwritten depth
leaves its vertex reached, so nothing of the first kind comes back, and a thread that is
alone knows the depths as they are (`Current`). At the end of a phase the reached vertices
are therefore closed under edges and contain the source.

Type correctness is the surprise. Along a cycle a store can leave a vertex deeper than
the graph has vertices, so the depths are not bounded by `NumNodes`. But only a
pull that found its vertex without a depth stores more than was there, once for each vertex
(`Rising`); `Bounded` keeps all depths below `2 * NumNodes`, and so away from `FloatMax`,
which means "nothing to offer".

The distances are a recursive function, `Within`. What is needed of it is proved by
induction over a set of natural numbers (`SetInduction`, from the library's theorem that
the order of the natural numbers is well-founded): `WithinClosed`, that as many steps as
there are vertices lead wherever any number does, because a set that grows at each
step is larger than the graph in the end.

### Computation from scratch: `FromScratch_proofs`

| Theorem | Statement |
|---|---|
| `BestPathsFound` | `Spec => []PathsExact` (`scratch`): BFS, SSWP and SSSP return the depths, widths and lengths of the best paths |
| `LabelsAreComponents` | `Spec => []ComponentLabels` (`scratch`): CC ends with one label for two vertices exactly if they are connected |
| `BinsSettledInOrder` | `Spec => []BinsInOrder` (`scratch`): when a bin's turn comes, all shorter distances are final |
| `NothingOverflows` | `Spec => []QueuesFit` (`scratch`): the sliding queue and the frontier stay within their arrays |
| `LabelsDescend` | `CC!ParentsDescend` always: a label is never above its vertex, so a thread that compresses a path comes to a root |

**Assumptions.** There are a vertex and a thread; edges run between vertices, with
natural numbers as weights; an undirected graph lists both directions of each with one
weight; `kDistInf` is larger than the length of any path (the largest weight
times the number of vertices) and the bins reach up to it. The threads need not be
finitely many. Weights of zero, self loops and sources without a way out of their
component are included.

Each algorithm has an invariant of its own, and each of them says in its way what
`AllAccounted` says of the incremental engine: an edge that would still improve its
end is in somebody's hands.

**Shortest paths** (`SsspInv`). `AllSeenTo`: of an edge that would still shorten a
path the first vertex is in the bin of its distance, in this frontier at a distance not
below the current bin, or in the next frontier; or a thread has the vertex and
the edge still before it, or has made over it an offer that is as good as the
present distance deserves (`InHand`). The offer may have been computed from a distance that
another thread has lowered since; then the one who lowered it has put the vertex into
a bin. The skipping of frontier entries nearer than the bin (`dyn_sssp.h:160`)
is right because of `Settled`, distances below the current bin are final, which
is proved where the bins change: `BinsAhead` says that no entry lies below
the bin that is being settled or, for a thread that has voted, below the lowest vote, so
when all have voted every edge out of a nearer vertex is relaxed, and
`ShortestBelow` concludes that the distances below are final. `Barriers`
says what the two barriers are for: counters are reset and entries copied only
after all votes, and relaxing begins only after all copying. For the size of the
frontier, `EntriesDistinct`: no vertex is twice in one bin, or in a bin and in the
frontier being filled from it, since a thread enters a vertex only where its
compare-and-swap lowered the distance to that bin. All entries are ends of edges
(`Heads`), so there are no more of them than edges (`Room`); `Spliced` says what the
copying of one thread writes into the frontier and what it leaves.

**Depths** (`BfsInv`). A vertex without a depth gets one once and keeps it, as the
compare-and-swap is from -1 alone; the one who succeeds queues the vertex. The
queue being read holds vertices of one depth, the next one exactly those one
deeper (`BQueues`), and each depth came over an edge (`BTree`). When the next queue is
empty, no edge leads from a vertex with a depth to one that has none or a much
larger one; `TreeIsBest` concludes that the depths are those of breadth-first search.

**Widths** (`SswpInv`). Here a vertex is marked and queued *before* its value is
stored, and a compare-and-swap that fails is tried again. `WAllSeenTo`: an edge that
would still widen a path starts at a vertex that waits in this queue, or is marked and so
waits in the next (`WQueues`), or is in a thread's hands. That the storing comes after the
marking does no harm, since nobody takes a vertex from the next queue before the
barrier; that `WOffer` says the target of an offer is marked is what lets the store rely on
it. Whatever is offered is the width of a path (`WSound`), and at the end `NoWider` makes
the widths the greatest.

**Components** (`CC!IInv`). Hookings overwrite each other and a thread may hook with labels
that are no longer current, so while the labels change only one thing can be
said: every label names a vertex of the same component (`WithinComponent`). But any
thread that hooks sets `change`, and the loops are run again. The other half of
the invariant therefore speaks of a round in which nothing has changed *yet*
(`Unchanged`, `ReadsCurrent`): all labels are flat, each edge already looked at
agrees, what the threads have read is current and none of them is about to hook. A
round that ends like this has looked at every edge, so labels are equal along
every edge. `Compressed` says that the compressing loop makes the labels flat
again for the next round. Two vertices are `Connected` if no set that is closed under
edges separates them, which keeps induction along paths out of the proof.

**The best paths** are recursive functions, `Values` and `Lengths`: what everyone offers
everyone in `NumNodes` rounds. `StagesExist` proves once that such a definition has the
value it describes. `NumNodes` rounds are enough. For depths because there are
no more depths than vertices (`DepthsFew`); for lengths and widths by `StopsGrowing`, a
set of vertices cannot grow in each of `NumNodes` rounds: the vertices whose length is
the least possible already (`ShortestAttained`), or, given an edge, those reached
with the width that the edge would pass on (`WidestClosed`).

### The edge reader and the queue: `Pipeline_proofs`

| Theorem | Statement |
|---|---|
| `OrderKept` | `Spec => []FileOrderKept` (`pipeline`): the edges applied, popped, queued and being read are the lines read so far, in file order, with the IDs of their names |
| `VerticesCounted` | `Spec => []NodesCounted` (`pipeline`): after each batch the endpoints applied are exactly the IDs 0 .. `num_nodes` - 1 |
| `PrintedComplete` | `Spec => []PrintedWhenComplete` (`pipeline`): `main` prints when the whole file is in the structure and computed |
| `EdgesSubmittable` | `Spec => []Submitted`, if the names are finitely many: each edge is one that `EdgeStream` lets be submitted after those before it, with the number of names as `NumNodes` |
| `TypeCorrect` | `Spec => []TypeOK` |

**Assumptions.** `BatchSize` and `MaxLines`, the bound on the length of the file, are
natural numbers, so a batch size of 0 is included. Names are any set.

**The argument.** Edges change hands, from `el` to the queue to `taken` to `applied`, but
the sequence of all of them, `InSystem`, changes only when a line is read
(`InSystemKept`). The invariant says what that sequence is. `Numbered`: it is the lines read
so far, with the IDs that the map still gives their names. `Shaped`: the flags of an edge
compare its IDs with the number given out before (`Known`, counted from the flags of the
edges in front). `WellMapped`: an ID for each name, as many as have been given out, which keeps
them below the number of names. `EdgeAssigned` is the one step that matters: a line
whose names are both new, equal, or known keeps all three. By induction over the edges
(`EndpointsDense`) the endpoints are then dense, and since `update` adds to `num_nodes` what
its batch's flags say (`KnownConcat`), the counter agrees. `Control` relates the two
threads: `main` stops after everything has been read and pushed and the queue was empty,
and then nothing fills it again; the builder exits only after that, and never
between a pop and the algorithm. That the flag is cleared without the mutex does no harm.

`EdgesSubmittable` closes the gap between this module and those of the structures: what they
are given by the quantifier over `Submittable` includes whatever the reader produces.

The proofs need laws of `FlattenSeq` (`FlattenAppend`, `FlattenHead`, `FlattenPrefix`), which
are about the sequences of a set that joining does not leave.

### The update phase: adjacency lists

The structures rest on lemmas about what the reader submits (`SubmittableTyped`) and about a row
(`FirstFound`, `RowWritten`, `PutInRow`: putting a neighbour into a row without
duplicates lists the new weight and leaves the other entries alone). Each proof module
has those it needs.

| Theorem | Statement |
|---|---|
| `EdgeStore_proofs`: `StoreImplemented` | `Spec => ImplementsEdgeStore` (`adlist`): `adList` is a map of pairs to their last weights, and a call inserts its edge |
| `RowsDense` | `Spec => [](TypeOK /\ RowPerVertex)` (`adlist`) |
| `RowsDistinct` | `Spec => []NoDuplicateNeighbors` (`adlist`) |
| `AdListShared_proofs`: `EdgesKept` | `Spec => []NoEdgeLost` (`shared`) |
| `RowsDistinct`, `CountersExact`, `TypeCorrect` | `NoDuplicateNeighbors`, `MetaDataExact`, `TypeOK` (`shared`) |
| `AdListChunked_proofs`: `ChunksRespected` | `Spec => []WithinChunk` (`chunked`): no local index leaves its chunk |
| `BatchApplied` | `Spec => []NothingStranded` (`chunked`): a thread exits only with its queue empty, whenever the flag is set |
| `TypeCorrect` | `Spec => []TypeOK` (`chunked`) |
| `SequentialImplemented` | `Spec => ImplementsAdList` (`chunked`): the partitions and their threads are the list of `adList.h`, one submission one `update` |

**Assumptions.** `NumNodes` is positive, there is a weight, bounds are natural
numbers; `AdListChunked` is given at least two threads.

**The arguments.** *`AdList`*: the invariant `Good` says that rows, marks and
properties are as long as the vertices are many, and that rows are free of
duplicates; `ExamineLinks` says what one half of an edge does to them, from any
state that the other half can leave, a self loop on a new vertex included. *`AdListShared`*: at every moment what is missing from the
rows, the marks and the counters is due to a half of an iteration that has not come
to it (`Counting`, `RowsCurrent`); the mutex of a row is held by whoever has searched
it, so the search is still true at the write (`Locking`, `Searched`). When all
iterations are done nothing is missing. The counters are compared through the
number of halves that are still due, with the library's theorems on cardinality.
*`AdListChunked`*: `Routed` says that whatever is in a queue or with a thread hashes to
that partition, `QuotientBound` that a quotient by the rounded-up chunk stays below
it; `Drained`, that a thread which has seen the flag and then an empty queue under
the mutex leaves nothing, since the flag is set after the last submission
(`Control`).

The refinement of `AdListChunked` reads the single list off the rows *as they will be*
once everything pending has been put into them (`Settled`, `AsOneList`), so the threads'
work is a stutter and the order of the partitions does not show. Three parts. The
lemmas on `Applied`, by induction over the edges pending: what an edge in front or behind
contributes. The thread's steps (`PollSettles`, `DrainSettles`, `InsertSettles`,
`MirrorSettles`): what a step moves was pending before and stays in its place, and an edge
put into the rows is the first one pending; it disturbs no other row, because two
vertices of one partition have different local indices (`RowsApart`). And the
submission (`SubmitRows`, `SubmitMaps`): it appends the edge to the row of its source and
the reverse to where the destination keeps its own, which is what two calls of
`examine_and_insert` do, from any state, a self loop and two new vertices included
(`ExamineList`). The mapping needs one invariant more than the others, `Fresh`: a vertex
not yet known has nothing in its rows, settled or pending, so the row that the single
list creates for it is the one that the chunk has had, empty, since the start.

### The update phase: degree-aware hashing, in `EdgeStore_proofs`

| Theorem | Statement |
|---|---|
| `DarhhInvariance` | `DarhhSpec => []DarhhInv` |
| `Ordered` | `DarhhSpec => []ProbeOrder` (`darhh`): all tables are sorted by home and free of duplicates |
| `Room` | `DarhhSpec => []RoomLeft` (`darhh`): every table keeps a vacant slot |
| `Degrees` | `DarhhSpec => []DegreeExact` (`darhh`): a degree counts what a traversal shows, and nothing of the vertex is elsewhere |
| `EdgeStoreImplemented` | `DarhhSpec => DarhhImplementsEdgeStore` (`darhh`): tables, queues and threads together are a map of pairs to the last weight submitted |

**Assumptions.** A partition for each side (`SetupsAssumption`); a load factor from
10 % to 100 %, which the constructor of `rhh` asserts; and capacities at which a table
doubles before its last slot is taken, but not before it holds anything
(`CapacityAssumption`). The code's 2^20 and 2^5 slots at 90 % satisfy it, and so do
the four slots at 75 % of the run. A load factor of 100 % never does: a table that
is filled to the last slot would make the next search endless.

**One insertion.** The loop of `insert_elem` compares with the origin of the element it
started with, whichever it has in hand (`rhh.h:168`). In an orderly table that is right:
behind the first element that is nearer to its home than the search is, all are, up to the
next vacancy (`RicherOnwards`). So what the loop leaves is one of two things
(`PlaceFound`, `PlaceNew`): the value of the key overwritten, its tombstone revived; or a
run of elements moved up by one, the new one in front, the last one in a vacant slot or
over a tombstone (`Gap`, `Shifted`). The order, `SortedByHome`, is a relation
of each slot to the one before; `RunFromHome` turns it into a statement about the whole
way from an element's home. `InsertedSorted` and `InsertedDistinct` say that it
survives; that a tombstone taken over lies behind every slot in which the key could be is
what keeps keys distinct, tombstones included (`KeysDistinct`, stronger than the property).
`Loaded` bounds the slots taken by `size`, and `size` by the load factor. `size` is never
decreased for a tombstone, and `Place` adds one exactly if it takes a slot or a tombstone
(`KeptCounts`). In a chunk there are no tombstones, and `size` is exact (`Exact`), which is
what `hd_rhh::get_degree` relies on.

**The loops.** `Doubled` and `TransferLowToHigh` are recursive functions on the number of
slots passed. `Loop` and `MovedExists` prove once that each has the value it
describes, and `Doubling`, `Moving` then carry an invariant along the slots by
`SetInduction`: the new table holds exactly the live elements of the slots passed, and no
more than their number, so it stays orderly and below its load.

**A partition.** `Owns`: the low-degree table and the chunks are in order, a chunk is not
empty, and no live low-degree edge belongs to a vertex with a chunk. Then the iterator comes
across all edges of a vertex (`LdAll`), and each branch of `partition::insert` (`StoresLow`,
`StoresHigh`, `Transferred`) adds the edge, and disturbs no other (`EdgeInserted`).
One branch is right only because of the threads' order: an edge flagged as the first of its
source goes to the low-degree table without a look at the chunks. `Line` says that no edge
of the same source is in front of such an edge in its partition's queue or in the
thread's hand, and that its source has no chunk; `Joins` says it of the reversed edge
before it is queued. That is the invariant, `DarhhInv`: flags compare an edge with all
those submitted before, in either partition, and a vertex' edges of one side all go
through one queue.

**The refinement.** What is shown of a pair is the weight that a traversal finds,
overridden by the edges that are still in the queue or in hand, in their order (`Waiting`), and
after those by the reversed edge that is about to be queued. `Bookkeeping`: the threads all run
while edges are submitted, and one that has returned leaves nothing behind. A thread's
steps do not change what is shown (`SettledPopped`, `SettledInserted`,
`MirroredLast`), and a submission changes it at the pair of its edge and, for the
other side, at the reversed pair (`SeenSubmitted`, `SideSubmitted`), which is
`EdgeStore`'s `Insert` of that very edge (`SubmitPromised`).

### The update phase: stinger, `Stinger_proofs`

| Theorem | Statement |
|---|---|
| `InductiveInvariant` | `Spec => []IInv` |
| `Linearizable` | `Spec => ImplementsNeighborMap` (`stinger_two`): the list is a map in which each insertion takes effect at one step |
| `NeighborsDistinct` | `Spec => []NoDuplicateNeighbors` (`stinger_two`) |
| `EdgesStay` | `Spec => EdgesStayPut` (`stinger_two`): an edge never moves or disappears from its slot |
| `TraversedInFull` | `Spec => []ReadyToTraverse` (`stinger_two`): between batches the iterator meets each edge once and ends, and the counters, marks and words agree |
| `TypeCorrect` | `Spec => []TypeOK` (`stinger_two`) |

**Assumptions.** Neighbours are natural numbers, a block has a slot, `MARKER` is
neither -1 nor 0, and neither it nor -1 is a weight.

**The argument.** Nothing in the code says who may write a slot: a first search
reads without locks, a second one reads again, empties `timeFirst` of a slot that
looked free and looks a third time. The invariant says four things.
A word that is empty belongs to the one thread that emptied it (`OwnsOf`, `Apart`).
Slots are filled in order (`Filled`): below a block's mark (`high`) all are in use,
above it none but one whose thread is about to raise the mark, and only the last
block has free ones. A thread knows what its slot holds (`KnowsOf`). And the slots that a
thread has passed in its *second* search were in use, for other neighbours, and
below the mark (`SearchedOf`); they remain so, because edges stay. Two facts
follow that no single line of the code ensures. `OneFills`: at most one thread at a
time fills a free slot, for of two such threads the one with the higher slot has
passed the lower, which was therefore in use. `NewNeighbor`: the neighbour it adds is
in no other slot, for slots below were passed and slots above are free. For the
refinement, `Says` is what the slots, the emptied weights and the threads about to
write them say of a neighbour, and `OneWeight` that they say one thing; it changes when a
thread empties the weight of its slot or links a block, and in no other step.

`TraversedInFull` needs a second invariant, `CInv`. `Owned`: an empty word is some
thread's, so at rest none is empty. `Counted`: the counters of the blocks and the
degree are what the marks say, but for one edge that one thread has counted and not yet put
below the mark; one, because `OneAhead` extends `OneFills` to the threads that link a block.
At rest the edges of all blocks therefore stand in one row, without a gap
(`AtRest`), and `CursorWalks` shows by induction over the increments that
the iterator walks along it: after i of them it is at the edge whose `Index` is i.

## 5. What is only model-checked, and under which input assumptions

Out of the prover's reach, and checked by TLC alone:

* all liveness (fairness, `ENABLED`);
* what a recursive *operator* computes, and induction by a theorem that takes an operator.
  No module needs it: the models' recursive *functions* are reasoned about
  by induction over a set of numbers. `DynBFS_proofs` does so with the distances,
  `PullEngine_proofs` with the rounds from scratch,
  `FromScratch_proofs` with depths, widths and lengths, `Stinger_proofs` with the iterator,
  `AdListChunked_proofs` with the edges put into a row, `Pipeline_proofs` with the batches
  joined, `EdgeStore_proofs` with the doubling of a table and the move of a vertex.

The models assume of the input and the options what the code silently needs:

* `num_threads >= 2` for `AdListChunked`, and for `Darhh` with a directed graph:
  with one thread the number of partitions is 0 and the hash divides by it.
* No edge weight is `INT64_MAX`, which the full/empty words reserve.
* The weights that SSSP adds up are positive (`LengthsAssumption`). A negative cycle would be queued forever.
* A repeated edge does not become longer (SSSP) or narrower (SSWP): the code
  overwrites the weight but never takes a value back, so after such an edge the
  incremental result would differ from one from scratch (`Admits`).
* Fewer than 2^24 vertices, since CC and MC keep IDs in `float`s.
* IDs fit the option `num_nodes`.

## 6. A disagreement between the two compute models

The repository's `README.md:35` presents `dynBFSAlg()` and
`BFSStartFromScratch()` as two ways to compute the same algorithm. With more
than one thread the incremental one may end with depths that are too large
(run `bfs_shortcut`). In the first round a thread reads `old_depth` of n, pulls
a depth from in-neighbours that have not been improved yet, and stores it with a
plain assignment (`dyn_bfs.h:63`); between the read and the store another
thread may have improved an in-neighbour and lowered n by compare-and-swap, and
the assignment undoes that. n is queued, but in later rounds a vertex only
pushes, so n is not lowered again. In the run: chain 0-1-2, then the batch
{0->2, 2->3}; the depths may end as 0, 1, 1, 3. What does hold is checked in
`bfs` and proved in `DynBFS_proofs`: the vertices with a depth are exactly the reachable
ones, no depth is less than the distance, and with one thread the depths are the shortest.

## 7. Not modelled

* *PageRank* (`dyn_pr.h`). Which vertices a round visits and when the rounds stop are
  decided by comparing sums of `float`s with a tolerance, and the sums depend on the
  order of additions. A model with exact numbers would be another algorithm, and one
  with arbitrary outcomes has nothing to say about this one.
* *The adjacency lists' iterators* in `traversal.h` and the loops of
  `dyn_traverse.h`: an index into a row at rest.
* *Code that nothing calls*: `rhh_bsd.h` and `.darhh_hd.h` are included by
  nothing; of `rhh.h`, `delete_elem`, `get_elem`, `find_elem` and `avg_probe_dist` are
  called by nothing that is.
* *Command line, printing, timers, hardware counters, scripts, thread pinning*: no
  state that anything else reads.
* *Inputs under which the code promises nothing*, listed in section 5. Each is a hazard in
  `PROJECT.json` with a note, and no property.
