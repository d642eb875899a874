------------------------- MODULE PullEngine_proofs --------------------------
(***************************************************************************)
(* What the algorithms of Algorithms have in common makes the invariant    *)
(* RoundsInv of PullEngine inductive, for every graph size, every number   *)
(* of threads and each of the algorithms.  Then: the computation from      *)
(* scratch needs no more rounds than there are vertices, and the           *)
(* incremental one comes to the same values.                               *)
(***************************************************************************)
EXTENDS Algorithm, FiniteSetTheorems, WellFoundedInduction, TLAPS

-----------------------------------------------------------------------------
(* What the algorithms have in common: first the operators of each.        *)
LEMMA OfSSSP ==
    ASSUME NEW a, a.name = "ssspdyn"
    PROVE  /\ Value(a) = 0 .. DistInf /\ Weights(a) = Lengths
           /\ \A n : Start(a, n) = (IF n = a.source THEN 0 ELSE DistInf)
           /\ \A n, x : Base(a, n, x) = DistInf
           /\ \A x, w \in Int : Extend(a, x, w) = IF x + w < DistInf THEN x + w ELSE DistInf
           /\ \A x, y \in Int : Better(a, x, y) <=> x < y
           /\ \A v, w \in Int : Admits(a, v, w) <=> w <= v
BY DEF For, Value, SSSP!Value, Weights, Start, SSSP!Start, Base, SSSP!Base,
       Extend, SSSP!Extend, Better, SSSP!Better, Admits, SSSP!Admits

LEMMA OfSSWP ==
    ASSUME NEW a, a.name = "sswpdyn"
    PROVE  /\ Value(a) = 0 .. DistInf /\ Weights(a) = Widths
           /\ \A n : Start(a, n) = (IF n = a.source THEN DistInf ELSE 0)
           /\ \A n, x : Base(a, n, x) = 0
           /\ \A x, w \in Int : Extend(a, x, w) = IF x < w THEN x ELSE w
           /\ \A x, y \in Int : Better(a, x, y) <=> x > y
           /\ \A v, w \in Int : Admits(a, v, w) <=> w >= v
BY DEF For, Value, SSWP!Value, Weights, Start, SSWP!Start, Base, SSWP!Base,
       Extend, SSWP!Extend, Better, SSWP!Better, Admits, SSWP!Admits

LEMMA OfCC ==
    ASSUME NEW a, a.name = "ccdyn"
    PROVE  /\ Value(a) = NodeID /\ Weights(a) = {1}
           /\ \A n : Start(a, n) = n /\ \A x : Base(a, n, x) = x
           /\ \A x, w \in Int : Extend(a, x, w) = x
           /\ \A x, y \in Int : Better(a, x, y) <=> x < y
BY DEF For, NodeID, Value, CC!Value, Weights, Start, CC!Start, Base, CC!Base,
       Extend, CC!Extend, Better, CC!Better

LEMMA OfMC ==
    ASSUME NEW a, a.name \notin Searches, a.name # "ccdyn"
    PROVE  /\ Value(a) = NodeID /\ Weights(a) = {1}
           /\ \A n : Start(a, n) = n /\ \A x : Base(a, n, x) = x
           /\ \A x, w \in Int : Extend(a, x, w) = x
           /\ \A x, y \in Int : Better(a, x, y) <=> x > y
BY DEF For, Searches, NodeID, Value, MC!Value, Weights, Start, MC!Start, Base, MC!Base,
       Extend, MC!Extend, Better, MC!Better

LEMMA UninitLaws == \A a : Uninit \notin Value(a)
<1> SUFFICES ASSUME NEW a PROVE Uninit \notin Value(a)
  OBVIOUS
<1> USE NumNodesAssumption, DistInfAssumption DEF Uninit, NodeID
<1>1. CASE a.name = "ssspdyn"
  BY <1>1, OfSSSP
<1>2. CASE a.name = "sswpdyn"
  BY <1>2, OfSSWP
<1>3. CASE a.name = "ccdyn"
  BY <1>3, OfCC
<1>4. CASE a.name \notin Searches /\ a.name # "ccdyn"
  BY <1>4, OfMC
<1> QED
  BY <1>1, <1>2, <1>3, <1>4 DEF Searches

LEMMA Numbers == \A a : Value(a) \subseteq Nat /\ Weights(a) \subseteq Nat
<1> SUFFICES ASSUME NEW a PROVE Value(a) \subseteq Nat /\ Weights(a) \subseteq Nat
  OBVIOUS
<1> USE NumNodesAssumption, DistInfAssumption, LengthsAssumption, WidthsAssumption
    DEF NodeID
<1>1. CASE a.name = "ssspdyn"
  <2>1. Value(a) = 0 .. DistInf /\ Weights(a) = Lengths
    BY <1>1, OfSSSP
  <2>2. 0 .. DistInf \subseteq Nat /\ Lengths \subseteq Nat
    OBVIOUS
  <2> QED
    BY <2>1, <2>2
<1>2. CASE a.name = "sswpdyn"
  <2>1. Value(a) = 0 .. DistInf /\ Weights(a) = Widths
    BY <1>2, OfSSWP
  <2>2. 0 .. DistInf \subseteq Nat /\ Widths \subseteq Nat
    OBVIOUS
  <2> QED
    BY <2>1, <2>2
<1>3. CASE a.name = "ccdyn"
  BY <1>3, OfCC
<1>4. CASE a.name \notin Searches /\ a.name # "ccdyn"
  BY <1>4, OfMC
<1> QED
  BY <1>1, <1>2, <1>3, <1>4 DEF Searches

(* Better is the order of the numbers or its converse.                     *)
LEMMA BetterOrder ==
    ASSUME NEW a
    PROVE  \/ \A x, y \in Int : Better(a, x, y) <=> x < y
           \/ \A x, y \in Int : Better(a, x, y) <=> x > y
<1>1. CASE a.name = "ssspdyn"
  BY <1>1, OfSSSP
<1>2. CASE a.name = "sswpdyn"
  BY <1>2, OfSSWP
<1>3. CASE a.name = "ccdyn"
  BY <1>3, OfCC
<1>4. CASE a.name \notin Searches /\ a.name # "ccdyn"
  BY <1>4, OfMC
<1> QED
  BY <1>1, <1>2, <1>3, <1>4 DEF Searches

(* Better is a strict linear order of the values.                          *)
LEMMA BetterLaws ==
    /\ \A a : \A x \in Value(a) : ~Better(a, x, x)
    /\ \A a : \A x, y \in Value(a) : x = y \/ Better(a, x, y) \/ Better(a, y, x)
    /\ \A a : \A x, y, z \in Value(a) :
           Better(a, x, y) /\ Better(a, y, z) => Better(a, x, z)
<1> SUFFICES ASSUME NEW a, NEW x \in Value(a), NEW y \in Value(a), NEW z \in Value(a)
             PROVE  /\ ~Better(a, x, x)
                    /\ x = y \/ Better(a, x, y) \/ Better(a, y, x)
                    /\ Better(a, x, y) /\ Better(a, y, z) => Better(a, x, z)
  OBVIOUS
<1>1. x \in Int /\ y \in Int /\ z \in Int
  BY Numbers
<1> QED
  BY <1>1, BetterOrder

(* The values of new vertices, of pulls and of offers.                     *)
LEMMA ValueLaws ==
    /\ \A a : \A n \in NodeID : Start(a, n) \in Value(a)
    /\ \A a : \A n \in NodeID, x \in Value(a) :
           Base(a, n, x) \in Value(a) /\ ~Better(a, Base(a, n, x), x)
    /\ \A a : \A x \in Value(a), w \in Weights(a) : Extend(a, x, w) \in Value(a)
<1>1. ASSUME NEW a, NEW n \in NodeID PROVE Start(a, n) \in Value(a)
  <2>1. CASE a.name = "ssspdyn"
    BY <2>1, OfSSSP, DistInfAssumption
  <2>2. CASE a.name = "sswpdyn"
    BY <2>2, OfSSWP, DistInfAssumption
  <2>3. CASE a.name = "ccdyn"
    BY <2>3, OfCC
  <2>4. CASE a.name \notin Searches /\ a.name # "ccdyn"
    BY <2>4, OfMC
  <2> QED
    BY <2>1, <2>2, <2>3, <2>4 DEF Searches
<1>2. ASSUME NEW a, NEW n \in NodeID, NEW x \in Value(a)
      PROVE  Base(a, n, x) \in Value(a) /\ ~Better(a, Base(a, n, x), x)
  <2>1. CASE a.name = "ssspdyn"
    <3>1. Value(a) = 0 .. DistInf /\ Base(a, n, x) = DistInf
      BY <2>1, OfSSSP
    <3>2. Better(a, DistInf, x) <=> DistInf < x
      BY <2>1, <3>1, OfSSSP, DistInfAssumption
    <3> QED
      BY <3>1, <3>2, DistInfAssumption
  <2>2. CASE a.name = "sswpdyn"
    <3>1. Value(a) = 0 .. DistInf /\ Base(a, n, x) = 0
      BY <2>2, OfSSWP
    <3>2. Better(a, 0, x) <=> 0 > x
      BY <2>2, <3>1, OfSSWP, DistInfAssumption
    <3> QED
      BY <3>1, <3>2, DistInfAssumption
  <2>3. CASE a.name \notin Searches
    BY <2>3, OfCC, OfMC, BetterLaws DEF Searches
  <2> QED
    BY <2>1, <2>2, <2>3 DEF Searches
<1>3. ASSUME NEW a, NEW x \in Value(a), NEW w \in Weights(a)
      PROVE  Extend(a, x, w) \in Value(a)
  <2>1. x \in Int /\ w \in Int
    BY Numbers
  <2>2. CASE a.name = "ssspdyn"
    <3>1. Value(a) = 0 .. DistInf /\ Weights(a) = Lengths
      BY <2>2, OfSSSP
    <3>2. x \in 0 .. DistInf /\ w \in Nat /\ DistInf \in Nat
      BY <3>1, DistInfAssumption, LengthsAssumption
    <3>3. Extend(a, x, w) = IF x + w < DistInf THEN x + w ELSE DistInf
      BY <2>1, <2>2, OfSSSP
    <3>4. (IF x + w < DistInf THEN x + w ELSE DistInf) \in 0 .. DistInf
      BY <3>2
    <3> QED
      BY <3>1, <3>3, <3>4
  <2>3. CASE a.name = "sswpdyn"
    <3>1. Value(a) = 0 .. DistInf /\ Weights(a) = Widths
      BY <2>3, OfSSWP
    <3>2. x \in 0 .. DistInf /\ w \in Nat /\ DistInf \in Nat
      BY <3>1, DistInfAssumption, WidthsAssumption
    <3>3. Extend(a, x, w) = IF x < w THEN x ELSE w
      BY <2>1, <2>3, OfSSWP
    <3>4. (IF x < w THEN x ELSE w) \in 0 .. DistInf
      BY <3>2
    <3> QED
      BY <3>1, <3>3, <3>4
  <2>4. CASE a.name \notin Searches
    BY <2>1, <2>4, OfCC, OfMC DEF Searches
  <2> QED
    BY <2>2, <2>3, <2>4 DEF Searches
<1> QED
  BY <1>1, <1>2, <1>3

(* An offer is no better than what it is made from (no length is           *)
(* negative), and is no worse for coming from a better value or over an    *)
(* edge whose weight the input has changed.                                *)
LEMMA ExtendLaws ==
    \A a : \A x, y \in Value(a), w, v \in Weights(a) :
        /\ ~Better(a, Extend(a, x, w), x)
        /\ ~Better(a, x, y) => ~Better(a, Extend(a, x, w), Extend(a, y, w))
        /\ Admits(a, w, v) => ~Better(a, Extend(a, x, w), Extend(a, x, v))
<1> SUFFICES ASSUME NEW a, NEW x \in Value(a), NEW y \in Value(a),
                    NEW w \in Weights(a), NEW v \in Weights(a)
             PROVE  /\ ~Better(a, Extend(a, x, w), x)
                    /\ ~Better(a, x, y) => ~Better(a, Extend(a, x, w), Extend(a, y, w))
                    /\ Admits(a, w, v) => ~Better(a, Extend(a, x, w), Extend(a, x, v))
  OBVIOUS
<1>1. /\ x \in Int /\ y \in Int /\ w \in Int /\ v \in Int /\ w \in Nat
      /\ DistInf \in Nat /\ x \in Value(a) /\ y \in Value(a)
  BY Numbers, DistInfAssumption
<1>2. /\ Extend(a, x, w) \in Int /\ Extend(a, y, w) \in Int /\ Extend(a, x, v) \in Int
  BY Numbers, ValueLaws
<1>3. CASE a.name = "ssspdyn"
  <2>1. /\ x <= DistInf
        /\ Extend(a, x, w) = IF x + w < DistInf THEN x + w ELSE DistInf
        /\ Extend(a, y, w) = IF y + w < DistInf THEN y + w ELSE DistInf
        /\ Extend(a, x, v) = IF x + v < DistInf THEN x + v ELSE DistInf
    BY <1>1, <1>3, OfSSSP
  <2>2. /\ \A p, q \in Int : Better(a, p, q) <=> p < q
        /\ Admits(a, w, v) <=> v <= w
    BY <1>1, <1>3, OfSSSP
  <2> QED
    BY <1>1, <1>2, <2>1, <2>2
<1>4. CASE a.name = "sswpdyn"
  <2>1. /\ Extend(a, x, w) = IF x < w THEN x ELSE w
        /\ Extend(a, y, w) = IF y < w THEN y ELSE w
        /\ Extend(a, x, v) = IF x < v THEN x ELSE v
    BY <1>1, <1>4, OfSSWP
  <2>2. /\ \A p, q \in Int : Better(a, p, q) <=> p > q
        /\ Admits(a, w, v) <=> v >= w
    BY <1>1, <1>4, OfSSWP
  <2> QED
    BY <1>1, <1>2, <2>1, <2>2
<1>5. CASE a.name \notin Searches
  <2>1. Extend(a, x, w) = x /\ Extend(a, y, w) = y /\ Extend(a, x, v) = x
    BY <1>1, <1>5, OfCC, OfMC DEF Searches
  <2> QED
    BY <2>1, BetterLaws
<1> QED
  BY <1>3, <1>4, <1>5 DEF Searches

USE NumNodesAssumption, LocalSizeAssumption, ThreadsAssumption, UninitLaws

-----------------------------------------------------------------------------
(* Order and graph facts.                                                  *)

(* An edge that cannot improve y cannot improve what replaced y.           *)
LEMMA BetterKeeps ==
    ASSUME NEW x \in Value(alg), NEW y \in Value(alg), NEW z \in Value(alg),
           ~Better(alg, z, y), Better(alg, x, y)
    PROVE  ~Better(alg, z, x)
BY BetterLaws

LEMMA NotBetterTrans ==
    ASSUME NEW x \in Value(alg), NEW y \in Value(alg), NEW z \in Value(alg),
           ~Better(alg, x, y), ~Better(alg, y, z)
    PROVE  ~Better(alg, x, z)
BY BetterLaws

(* A vertex is pushed by every vertex it pulls from.                       *)
LEMMA PullPush ==
    ASSUME NEW n, NEW e \in PullFrom(n)
    PROVE  n \in PushTo(e[1])
BY DEF PullFrom, PushTo, InTo, OutOf

(* Both ends of an edge of the graph are vertices of the graph.            *)
LEMMA GraphKnown ==
    ASSUME TypeOK, NEW n \in Known
    PROVE  PullFrom(n) \subseteq Known \X Weights(alg) /\ PushTo(n) \subseteq Known
<1>1. \A p \in DOMAIN edges : p[1] \in Known /\ p[2] \in Known /\ edges[p] \in Weights(alg)
  BY DEF TypeOK, Known
<1>2. QED
  BY <1>1 DEF PullFrom, PushTo, InTo, OutOf

LEMMA KnownNodes == TypeOK => Known \subseteq NodeID
BY DEF TypeOK, Known, NodeID

LEMMA SameGraph ==
    ASSUME UNCHANGED graph
    PROVE  /\ \A n : PullFrom(n)' = PullFrom(n)
           /\ \A n : PushTo(n)' = PushTo(n)
           /\ Known' = Known
BY DEF graph, PullFrom, PushTo, InTo, OutOf, Known

LEMMA SameJob == alg' = alg => Job' = Job
BY DEF Job

(* The queue conjuncts depend on the queues alone, and the conjuncts about  *)
(* the time outside the rounds do not depend on the threads.               *)
LEMMA SameQueues ==
    ASSUME UNCHANGED <<curr, next, visited, lqueue>>, QueuedOnce, VisitedQueued
    PROVE  QueuedOnce' /\ VisitedQueued'
<1>1. QueuedOnce'
  <2>1. IsInjective(curr)' /\ IsInjective(next)' /\ \A t \in Threads : IsInjective(lqueue[t])'
    BY DEF QueuedOnce, IsInjective
  <2>2. \A t \in Threads : Range(lqueue[t])' = Range(lqueue[t]) /\ Range(next)' = Range(next)
    BY DEF Range
  <2>3. QED
    BY <2>1, <2>2 DEF QueuedOnce
<1>2. VisitedQueued'
  BY DEF VisitedQueued, Range
<1>3. QED
  BY <1>1, <1>2

-----------------------------------------------------------------------------
LEMMA NothingYetInv ==
    ASSUME alg \in Algs, NothingYet
    PROVE  RoundsInv /\ Converged
<1> USE DEF NothingYet
<1>1. TypeOK
  BY DEF TypeOK, NodeID
<1>2. AtRest /\ FlushedEmpty
  BY DEF AtRest, FlushedEmpty
<1>3. QueuedOnce /\ VisitedQueued
  BY DEF QueuedOnce, VisitedQueued, IsInjective, Range
<1>4. WorkKnown
  BY DEF WorkKnown, Range, Busy
<1>5. OneWriter /\ Valued /\ MarkedOrRelaxed /\ AllAccounted
  BY DEF OneWriter, Valued, MarkedOrRelaxed, AllAccounted
<1>6. Converged
  BY DEF Converged
<1>7. QED
  BY <1>1, <1>2, <1>3, <1>4, <1>5, <1>6 DEF RoundsInv

LEMMA TakeInv ==
    ASSUME RoundsInv, NEW t \in Threads, Take(t)
    PROVE  RoundsInv' /\ Converged'
<1> USE DEF RoundsInv
<1>1. UNCHANGED graph /\ UNCHANGED <<alg, affected, property, phase, curr, next, visited, lqueue>>
  BY DEF Take, graph
<1>2. PICK i \in todo :
          /\ todo' = todo \ {i}
          /\ job' = [job EXCEPT ![t] =
                        [n |-> curr[i], old |-> property[curr[i]],
                         acc |-> Base(alg, curr[i], property[curr[i]]),
                         left |-> PullFrom(curr[i]), push |-> {}]]
  BY DEF Take
<1>3. pc[t] = "take" /\ pc' = [pc EXCEPT ![t] = "pull"]
  BY DEF Take
<1> DEFINE n == curr[i]
<1>4. phase \in {"first", "rounds"}
  BY <1>3 DEF AtRest, TypeOK
<1>5. n \in Known /\ property[n] \in Value(alg) /\ n \in Untaken
  BY <1>2, <1>4 DEF WorkKnown, Valued, TypeOK, Range, Untaken
<1>6. PullFrom(n) \subseteq Known \X Weights(alg)
  BY <1>5, GraphKnown
<1>7. Known \subseteq NodeID
  BY KnownNodes
<1>8. TypeOK'
  <2>1. PICK r : r = [n |-> n, old |-> property[n], acc |-> Base(alg, n, property[n]),
                      left |-> PullFrom(n), push |-> {}]
    OBVIOUS
  <2>2. r \in Job
    BY <1>5, <1>6, <1>7, <2>1, ValueLaws DEF Job
  <2>3. job' = [job EXCEPT ![t] = r]
    BY <1>2, <2>1
  <2> QED
    BY <1>1, <1>2, <1>3, <2>2, <2>3, SameJob DEF TypeOK, graph
<1>9. Untaken' = Untaken \ {n}
  BY <1>1, <1>2 DEF Untaken, QueuedOnce, IsInjective, TypeOK
<1>10. AtRest' /\ MarkedOrRelaxed' /\ Converged'
  BY <1>1, <1>4 DEF AtRest, MarkedOrRelaxed, Converged
<1>11. FlushedEmpty'
  BY <1>1, <1>2, <1>3 DEF FlushedEmpty, TypeOK
<1>12. QueuedOnce' /\ VisitedQueued'
  BY <1>1, SameQueues
<1>13. Valued'
  BY <1>1 DEF Valued, graph, Known
<1>14. \A u \in Threads \ {t} : pc'[u] = pc[u] /\ job'[u] = job[u]
  BY <1>2, <1>3 DEF TypeOK
<1>15. /\ pc'[t] = "pull" /\ job'[t].n = n /\ job'[t].old = property[n]
       /\ job'[t].left = PullFrom(n) /\ job'[t].push = {}
  BY <1>2, <1>3 DEF TypeOK
<1>16. WorkKnown'
  <2>1. Known' = Known
    BY <1>1, SameGraph
  <2>2. ASSUME NEW u \in Threads, Busy(u)'
        PROVE  /\ job'[u].n \in Known /\ job'[u].n \notin Untaken'
               /\ job'[u].left \subseteq Known \X Weights(alg)
               /\ job'[u].push \subseteq Known
    <3>1. CASE u = t
      BY <3>1, <1>5, <1>6, <1>9, <1>15
    <3>2. CASE u # t
      BY <2>2, <3>2, <1>9, <1>14 DEF WorkKnown, Busy
    <3>3. QED
      BY <3>1, <3>2
  <2>3. QED
    BY <1>1, <2>1, <2>2 DEF WorkKnown, Range
<1>17. OneWriter'
  <2>1. \A u \in Threads \ {t} : Busy(u) => job[u].n # n
    BY <1>5 DEF WorkKnown
  <2>2. QED
    BY <1>1, <1>14, <1>15, <2>1 DEF OneWriter, Busy
<1>18. AllAccounted'
  <2> SUFFICES ASSUME NEW m \in Known, NEW e \in PullFrom(m)
               PROVE  Accounted(m, e)'
    BY <1>1, SameGraph DEF AllAccounted
  <2>1. Accounted(m, e)
    BY <1>4 DEF AllAccounted
  <2>2. CASE RelaxedFrom(m, e) \/ m \in visited
    BY <2>2, <1>1 DEF Accounted, RelaxedFrom
  <2>3. CASE m \in Untaken /\ m # n
    BY <2>3, <1>9 DEF Accounted
  <2>4. CASE m = n
    BY <2>4, <1>15 DEF Accounted, Forthcoming
  <2>5. CASE Forthcoming(m, e)
    BY <2>5, <1>1, <1>3, <1>14 DEF Accounted, Forthcoming
  <2>6. CASE ToBePushed(m, e)
    BY <2>6, <1>3, <1>14 DEF Accounted, ToBePushed
  <2>7. QED
    BY <2>1, <2>2, <2>3, <2>4, <2>5, <2>6 DEF Accounted
<1>19. QED
  BY <1>8, <1>10, <1>11, <1>12, <1>13, <1>16, <1>17, <1>18

(* A neighbour has been read: the value held is now at least as good as    *)
(* what that neighbour offers.                                             *)
LEMMA PullInv ==
    ASSUME RoundsInv, NEW t \in Threads, Pull(t)
    PROVE  RoundsInv' /\ Converged'
<1> USE DEF RoundsInv
<1>1. /\ UNCHANGED graph
      /\ UNCHANGED <<alg, affected, property, phase, curr, todo, next, visited, lqueue, pc>>
      /\ pc[t] = "pull"
  BY DEF Pull, graph
<1> DEFINE offer(e) == Extend(alg, property[e[1]], e[2])
<1>2. PICK e \in job[t].left :
        job' = [job EXCEPT
                   ![t].left = @ \ {e},
                   ![t].acc = IF Better(alg, offer(e), @) THEN offer(e) ELSE @]
  BY DEF Pull
<1>3. phase \in {"first", "rounds"}
  BY <1>1 DEF AtRest, TypeOK
<1>4. job[t] \in Job
  BY <1>1 DEF TypeOK
<1>5. \A x \in Known \X Weights(alg) : offer(x) \in Value(alg)
  BY <1>3, ValueLaws DEF Valued
<1>6. e \in Known \X Weights(alg)
  BY <1>1 DEF WorkKnown, Busy
<1>7. /\ job'[t].n = job[t].n /\ job'[t].old = job[t].old
      /\ job'[t].left = job[t].left \ {e} /\ job'[t].push = job[t].push
      /\ job'[t].acc = IF Better(alg, offer(e), job[t].acc) THEN offer(e) ELSE job[t].acc
      /\ job'[t] \in Job
      /\ job' = [u \in Threads |-> job'[u]]
  BY <1>2, <1>4, <1>5, <1>6 DEF TypeOK, Job
<1>8. \A u \in Threads \ {t} : job'[u] = job[u]
  BY <1>2 DEF TypeOK
<1>9. TypeOK'
  BY <1>1, <1>7, <1>8, SameJob DEF TypeOK, graph
<1>10. AtRest' /\ MarkedOrRelaxed' /\ Converged' /\ FlushedEmpty' /\ Valued'
  BY <1>1, <1>3 DEF AtRest, MarkedOrRelaxed, Converged, FlushedEmpty, Valued,
     graph, Known
<1>16. QueuedOnce' /\ VisitedQueued'
  BY <1>1, SameQueues
<1>11. Untaken' = Untaken /\ Known' = Known
  BY <1>1, SameGraph DEF Untaken
<1>12. WorkKnown'
  BY <1>1, <1>7, <1>8, <1>11 DEF WorkKnown, Busy, Range
<1>13. OneWriter'
  BY <1>1, <1>7, <1>8 DEF OneWriter
<1>14. AllAccounted'
  <2> SUFFICES ASSUME NEW m \in Known, NEW x \in PullFrom(m)
               PROVE  Accounted(m, x)'
    BY <1>1, SameGraph DEF AllAccounted
  <2>1. Accounted(m, x)
    BY <1>3 DEF AllAccounted
  <2>2. CASE RelaxedFrom(m, x) \/ m \in visited \/ m \in Untaken
    BY <2>2, <1>1, <1>11 DEF Accounted, RelaxedFrom
  <2>3. CASE ToBePushed(m, x)
    BY <2>3, <1>1, <1>8 DEF Accounted, ToBePushed
  <2>4. CASE Forthcoming(m, x)
    <3>1. PICK u \in Threads :
             /\ pc[u] = "pull" /\ job[u].n = m
             /\ x \in job[u].left \/ ~Better(alg, offer(x), job[u].acc)
      BY <2>4 DEF Forthcoming
    <3>2. CASE u # t
      BY <3>1, <3>2, <1>1, <1>8 DEF Accounted, Forthcoming
    <3>3. CASE u = t /\ x \in job[t].left \ {e}
      BY <3>1, <3>3, <1>1, <1>7 DEF Accounted, Forthcoming
    <3>4. ASSUME u = t, x \notin job[t].left \ {e}
          PROVE  ~Better(alg, offer(x), job'[t].acc)
      <4>1. x \in Known \X Weights(alg)
        BY GraphKnown
      <4>2. /\ offer(x) \in Value(alg) /\ offer(e) \in Value(alg) /\ job[t].acc \in Value(alg)
        BY <4>1, <1>4, <1>5, <1>6 DEF Job
      <4>3. CASE x = e
        BY <4>2, <4>3, <1>7, BetterLaws
      <4>4. CASE ~Better(alg, offer(x), job[t].acc)
        BY <4>2, <4>4, <1>7, BetterKeeps
      <4>5. QED
        BY <3>1, <3>4, <4>3, <4>4
    <3>5. QED
      BY <3>1, <3>2, <3>3, <3>4, <1>1, <1>7 DEF Accounted, Forthcoming
  <2>5. QED
    BY <2>1, <2>2, <2>3, <2>4 DEF Accounted
<1>15. QED
  BY <1>9, <1>10, <1>12, <1>13, <1>14, <1>16

(* An improvement of n's value opens edges of the vertices that pull from   *)
(* n: the thread will push them all.  If it does not improve, the value is  *)
(* already as good as anything n's neighbours offer.                        *)
LEMMA StoreInv ==
    ASSUME RoundsInv, NEW t \in Threads, Store(t)
    PROVE  RoundsInv' /\ Converged'
<1> USE DEF RoundsInv
<1> DEFINE n == job[t].n
           acc == job[t].acc
           offer(e) == Extend(alg, property[e[1]], e[2])
<1>1. /\ UNCHANGED graph
      /\ UNCHANGED <<alg, affected, phase, curr, todo, next, visited, lqueue>>
      /\ pc[t] = "pull" /\ job[t].left = {}
      /\ property' = IF Better(alg, acc, job[t].old)
                     THEN [property EXCEPT ![n] = acc] ELSE property
      /\ \/ job' = [job EXCEPT ![t].push = PushTo(n)] /\ pc' = [pc EXCEPT ![t] = "push"]
         \/ ~Better(alg, acc, job[t].old) /\ job' = job /\ pc' = [pc EXCEPT ![t] = "take"]
  BY DEF Store, Trigger, graph
<1>2. phase \in {"first", "rounds"}
  BY <1>1 DEF AtRest, TypeOK
<1>3. job[t] \in Job /\ n \in Known /\ property[n] = job[t].old
  BY <1>1 DEF TypeOK, WorkKnown, Busy, OneWriter
<1>4. Known \subseteq NodeID /\ PushTo(n) \subseteq Known
  BY <1>3, KnownNodes, GraphKnown
<1>5. acc \in Value(alg) /\ job[t].old \in Value(alg)
  BY <1>3 DEF Job
<1>6. /\ property'[n] = IF Better(alg, acc, property[n]) THEN acc ELSE property[n]
      /\ \A m \in NodeID \ {n} : property'[m] = property[m]
      /\ property' \in [NodeID -> Value(alg) \cup {Uninit}]
  BY <1>1, <1>3, <1>4, <1>5 DEF TypeOK
<1>7. \A u \in Threads \ {t} : job'[u] = job[u] /\ pc'[u] = pc[u]
  BY <1>1 DEF TypeOK
<1>8. /\ job'[t] \in Job /\ job'[t].n = n /\ job'[t].left = {}
      /\ job' = [u \in Threads |-> job'[u]]
      /\ \/ pc'[t] = "push" /\ job'[t].push = PushTo(n)
         \/ ~Better(alg, acc, property[n]) /\ pc'[t] = "take" /\ property' = property
  <2>1. CASE /\ job' = [job EXCEPT ![t].push = PushTo(n)]
             /\ pc' = [pc EXCEPT ![t] = "push"]
    <3>1. /\ pc'[t] = "push"
          /\ job'[t] = [job[t] EXCEPT !.push = PushTo(n)]
          /\ job' = [u \in Threads |-> job'[u]]
      BY <2>1 DEF TypeOK
    <3>2. job'[t] \in Job /\ job'[t].n = n /\ job'[t].left = {} /\ job'[t].push = PushTo(n)
      BY <3>1, <1>1, <1>3, <1>4 DEF Job
    <3>3. QED
      BY <3>1, <3>2
  <2>2. CASE /\ ~Better(alg, acc, job[t].old) /\ job' = job
             /\ pc' = [pc EXCEPT ![t] = "take"]
    BY <2>2, <1>1, <1>3 DEF TypeOK
  <2>3. QED
    BY <1>1, <2>1, <2>2
<1>9. TypeOK'
  <2>1. pc' \in [Threads -> {"take", "pull", "push", "flushed"}]
    BY <1>1 DEF TypeOK
  <2>2. \A u \in Threads : pc'[u] \in {"pull", "push"} => job'[u] \in Job
    BY <1>7, <1>8 DEF TypeOK
  <2>3. QED
    BY <1>1, <1>6, <1>8, <2>1, <2>2, SameJob DEF TypeOK, graph
<1>10. Untaken' = Untaken /\ Known' = Known
  BY <1>1, SameGraph DEF Untaken
<1>11. AtRest' /\ MarkedOrRelaxed' /\ Converged'
  BY <1>1, <1>2 DEF AtRest, MarkedOrRelaxed, Converged
<1>12. FlushedEmpty'
  BY <1>1, <1>7, <1>8 DEF FlushedEmpty
<1>13. QueuedOnce' /\ VisitedQueued'
  BY <1>1, SameQueues
<1>14. Valued'
  BY <1>1, <1>2, <1>4, <1>5, <1>6, <1>10 DEF Valued
<1>15. WorkKnown'
  <2>1. ASSUME NEW u \in Threads, Busy(u)'
        PROVE  /\ job'[u].n \in Known /\ job'[u].n \notin Untaken
               /\ job'[u].left \subseteq Known \X Weights(alg)
               /\ job'[u].push \subseteq Known
    <3>1. CASE u = t
      BY <2>1, <3>1, <1>1, <1>3, <1>4, <1>8 DEF WorkKnown, Busy
    <3>2. CASE u # t
      BY <2>1, <3>2, <1>7 DEF WorkKnown, Busy
    <3>3. QED
      BY <3>1, <3>2
  <2>2. QED
    BY <1>1, <1>10, <2>1 DEF WorkKnown, Range
<1>16. OneWriter'
  <2>1. \A u \in Threads \ {t} : Busy(u) => job[u].n # n
    BY <1>1 DEF OneWriter, Busy
  <2>2. \A u \in Threads \ {t} : pc[u] = "pull" => job[u].n \in NodeID \ {n}
    BY <2>1, <1>4 DEF WorkKnown, Busy
  <2>3. QED
    BY <1>6, <1>7, <1>8, <2>1, <2>2 DEF OneWriter, Busy
<1>17. AllAccounted'
  <2> SUFFICES ASSUME NEW m \in Known, NEW x \in PullFrom(m)
               PROVE  Accounted(m, x)'
    BY <1>1, SameGraph DEF AllAccounted
  <2>1. Accounted(m, x)
    BY <1>2 DEF AllAccounted
  <2>2. x \in Known \X Weights(alg) /\ property[x[1]] \in Value(alg) /\ offer(x) \in Value(alg)
    BY <1>2, GraphKnown, ValueLaws DEF Valued
  <2>3. CASE pc'[t] = "push" /\ x[1] = n
    BY <2>3, <1>8, PullPush DEF Accounted, ToBePushed
  <2>4. CASE x[1] # n \/ property' = property
    <3>1. property'[x[1]] = property[x[1]]
      BY <2>2, <2>4, <1>4, <1>6
    <3>2. CASE m \in Untaken \/ m \in visited
      BY <3>2, <1>1, <1>10 DEF Accounted
    <3>3. CASE ToBePushed(m, x)
      BY <3>3, <1>1, <1>7 DEF Accounted, ToBePushed
    <3>4. CASE RelaxedFrom(m, x)
      <4>1. property[m] \in Value(alg)
        BY <1>2 DEF Valued
      <4>2. ~Better(alg, offer(x), property'[m])
        BY <3>4, <4>1, <2>2, <1>4, <1>5, <1>6, BetterKeeps DEF RelaxedFrom
      <4>3. QED
        BY <4>2, <3>1, <1>1 DEF Accounted, RelaxedFrom
    <3>5. CASE Forthcoming(m, x)
      <4>1. PICK u \in Threads :
               /\ pc[u] = "pull" /\ job[u].n = m
               /\ x \in job[u].left \/ ~Better(alg, offer(x), job[u].acc)
        BY <3>5 DEF Forthcoming
      <4>2. CASE u # t
        BY <4>1, <4>2, <3>1, <1>1, <1>7 DEF Accounted, Forthcoming
      <4>3. CASE u = t
        <5>1. m = n /\ ~Better(alg, offer(x), acc)
          BY <4>1, <4>3, <1>1
        <5>2. ~Better(alg, offer(x), property'[n])
          BY <5>1, <2>2, <1>3, <1>5, <1>6, NotBetterTrans
        <5>3. QED
          BY <5>1, <5>2, <3>1, <1>1 DEF Accounted, RelaxedFrom
      <4>4. QED
        BY <4>2, <4>3
    <3>6. QED
      BY <2>1, <3>2, <3>3, <3>4, <3>5 DEF Accounted
  <2>5. QED
    BY <2>3, <2>4, <1>8
<1>18. QED
  BY <1>9, <1>11, <1>12, <1>13, <1>14, <1>15, <1>16, <1>17

LEMMA PushedInv ==
    ASSUME RoundsInv, NEW t \in Threads, Pushed(t)
    PROVE  RoundsInv' /\ Converged'
<1> USE DEF RoundsInv
<1>1. /\ UNCHANGED graph
      /\ UNCHANGED <<alg, affected, property, phase, curr, todo, next, visited, lqueue, job>>
      /\ pc[t] = "push" /\ job[t].push = {}
      /\ pc' = [pc EXCEPT ![t] = "take"]
  BY DEF Pushed, graph
<1>2. phase \in {"first", "rounds"}
  BY <1>1 DEF AtRest, TypeOK
<1>3. pc'[t] = "take" /\ \A u \in Threads \ {t} : pc'[u] = pc[u]
  BY <1>1 DEF TypeOK
<1>4. TypeOK'
  BY <1>1, <1>3, SameJob DEF TypeOK, graph
<1>5. Untaken' = Untaken /\ Known' = Known
  BY <1>1, SameGraph DEF Untaken
<1>6. AtRest' /\ MarkedOrRelaxed' /\ Converged' /\ Valued'
  BY <1>1, <1>2 DEF AtRest, MarkedOrRelaxed, Converged, Valued, graph, Known
<1>7. FlushedEmpty'
  BY <1>1, <1>3 DEF FlushedEmpty
<1>8. QueuedOnce' /\ VisitedQueued'
  BY <1>1, SameQueues
<1>9. WorkKnown'
  BY <1>1, <1>3, <1>5 DEF WorkKnown, Busy, Range
<1>10. OneWriter'
  BY <1>1, <1>3 DEF OneWriter
<1>11. AllAccounted'
  <2> SUFFICES ASSUME NEW m \in Known, NEW x \in PullFrom(m)
               PROVE  Accounted(m, x)'
    BY <1>1, SameGraph DEF AllAccounted
  <2>1. Accounted(m, x)
    BY <1>2 DEF AllAccounted
  <2>2. CASE RelaxedFrom(m, x) \/ m \in visited \/ m \in Untaken
    BY <2>2, <1>1, <1>5 DEF Accounted, RelaxedFrom
  <2>3. CASE ToBePushed(m, x)
    BY <2>3, <1>1, <1>3 DEF Accounted, ToBePushed
  <2>4. CASE Forthcoming(m, x)
    BY <2>4, <1>1, <1>3 DEF Accounted, Forthcoming
  <2>5. QED
    BY <2>1, <2>2, <2>3, <2>4 DEF Accounted
<1>12. QED
  BY <1>4, <1>6, <1>7, <1>8, <1>9, <1>10, <1>11

-----------------------------------------------------------------------------
(* Queues without repetitions.                                             *)

LEMMA AppendEntries ==
    ASSUME NEW S, NEW s \in Seq(S), NEW v \in S
    PROVE  /\ Range(Append(s, v)) = Range(s) \cup {v}
           /\ IsInjective(s) /\ v \notin Range(s) => IsInjective(Append(s, v))
<1> DEFINE q == Append(s, v)
<1>1. /\ DOMAIN q = 1 .. Len(s) + 1 /\ DOMAIN s = 1 .. Len(s) /\ Len(s) \in Nat
      /\ \A i \in 1 .. Len(s) : q[i] = s[i]
      /\ q[Len(s) + 1] = v
  OBVIOUS
<1> HIDE DEF q
<1>2. 1 .. Len(s) + 1 = (1 .. Len(s)) \cup {Len(s) + 1}
  BY <1>1
<1>3. Range(q) = Range(s) \cup {v}
  BY <1>1, <1>2 DEF Range
<1>4. ASSUME IsInjective(s), v \notin Range(s)  PROVE IsInjective(q)
  BY <1>1, <1>2, <1>4 DEF IsInjective, Range
<1>5. QED
  BY <1>3, <1>4 DEF q

LEMMA ConcatEntries ==
    ASSUME NEW S, NEW s \in Seq(S), NEW r \in Seq(S)
    PROVE  /\ Range(s \o r) = Range(s) \cup Range(r)
           /\ IsInjective(s) /\ IsInjective(r) /\ Range(s) \cap Range(r) = {}
                 => IsInjective(s \o r)
<1> DEFINE q == s \o r
<1>1. /\ DOMAIN q = 1 .. Len(s) + Len(r) /\ Len(s) \in Nat /\ Len(r) \in Nat
      /\ DOMAIN s = 1 .. Len(s) /\ DOMAIN r = 1 .. Len(r)
      /\ \A i \in 1 .. Len(s) : q[i] = s[i]
      /\ \A i \in 1 .. Len(s) + Len(r) : i > Len(s) => q[i] = r[i - Len(s)]
  OBVIOUS
<1> HIDE DEF q
<1>2. \A i \in DOMAIN q : \/ i \in DOMAIN s /\ q[i] = s[i]
                          \/ i - Len(s) \in DOMAIN r /\ q[i] = r[i - Len(s)]
  BY <1>1
<1>3. \A j \in DOMAIN r : j + Len(s) \in DOMAIN q /\ q[j + Len(s)] = r[j]
  BY <1>1
<1>4. \A i \in DOMAIN s : i \in DOMAIN q /\ q[i] = s[i]
  BY <1>1
<1>5. Range(q) = Range(s) \cup Range(r)
  <2>1. Range(q) \subseteq Range(s) \cup Range(r)
    BY <1>2 DEF Range
  <2>2. Range(s) \subseteq Range(q) /\ Range(r) \subseteq Range(q)
    BY <1>3, <1>4 DEF Range
  <2>3. QED
    BY <2>1, <2>2
<1>6. ASSUME IsInjective(s), IsInjective(r), Range(s) \cap Range(r) = {},
             NEW i \in DOMAIN q, NEW j \in DOMAIN q, q[i] = q[j]
      PROVE  i = j
  <2>1. CASE i \in DOMAIN s /\ q[i] = s[i] /\ j \in DOMAIN s /\ q[j] = s[j]
    BY <1>6, <2>1 DEF IsInjective
  <2>2. CASE /\ i - Len(s) \in DOMAIN r /\ q[i] = r[i - Len(s)]
             /\ j - Len(s) \in DOMAIN r /\ q[j] = r[j - Len(s)]
    <3>1. i - Len(s) = j - Len(s)
      BY <1>6, <2>2 DEF IsInjective
    <3>2. QED
      BY <3>1, <1>1
  <2>3. ASSUME NEW a \in DOMAIN s, NEW b \in DOMAIN r  PROVE s[a] # r[b]
    BY <1>6 DEF Range
  <2>4. QED
    BY <1>2, <1>6, <2>1, <2>2, <2>3
<1>7. QED
  BY <1>5, <1>6 DEF q, IsInjective

(* QueueBuffer::push_back() when there is room.                            *)
LEMMA AppendQueue ==
    ASSUME TypeOK, QueuedOnce, VisitedQueued,
           NEW t \in Threads, NEW v \in NodeID, v \notin visited,
           UNCHANGED <<curr, next>>, visited' = visited \cup {v},
           lqueue' = [lqueue EXCEPT ![t] = Append(@, v)]
    PROVE  QueuedOnce' /\ VisitedQueued'
<1>1. lqueue[t] \in Seq(NodeID) /\ lqueue'[t] = Append(lqueue[t], v)
  BY DEF TypeOK
<1>2. \A u \in Threads \ {t} : lqueue'[u] = lqueue[u]
  BY DEF TypeOK
<1>3. v \notin Range(next) /\ \A u \in Threads : v \notin Range(lqueue[u])
  BY DEF VisitedQueued
<1>4. Range(lqueue'[t]) = Range(lqueue[t]) \cup {v} /\ IsInjective(lqueue'[t])
  BY <1>1, <1>3, AppendEntries DEF QueuedOnce
<1>5. QueuedOnce'
  <2>1. IsInjective(curr') /\ IsInjective(next')
    BY DEF QueuedOnce
  <2>2. \A u \in Threads : IsInjective(lqueue'[u])
    BY <1>2, <1>4 DEF QueuedOnce
  <2>3. \A u \in Threads : Range(lqueue'[u]) \cap Range(next') = {}
    BY <1>2, <1>3, <1>4 DEF QueuedOnce
  <2>4. ASSUME NEW u \in Threads, NEW w \in Threads, u # w
        PROVE  Range(lqueue'[u]) \cap Range(lqueue'[w]) = {}
    <3>1. Range(lqueue[u]) \cap Range(lqueue[w]) = {}
      BY <2>4 DEF QueuedOnce
    <3>2. CASE u = t
      BY <3>1, <3>2, <2>4, <1>2, <1>3, <1>4
    <3>3. CASE w = t
      BY <3>1, <3>3, <2>4, <1>2, <1>3, <1>4
    <3>4. CASE u # t /\ w # t
      BY <3>1, <3>4, <1>2
    <3>5. QED
      BY <3>2, <3>3, <3>4
  <2>5. QED
    BY <2>1, <2>2, <2>3, <2>4 DEF QueuedOnce, IsInjective, Range
<1>6. VisitedQueued'
  <2>1. ASSUME NEW x
        PROVE  x \in visited' <=> \/ x \in Range(next')
                                  \/ \E u \in Threads : x \in Range(lqueue'[u])
    <3>1. x \in visited <=> \/ x \in Range(next)
                            \/ \E u \in Threads : x \in Range(lqueue[u])
      BY DEF VisitedQueued
    <3>2. \A u \in Threads \ {t} : Range(lqueue'[u]) = Range(lqueue[u])
      BY <1>2
    <3>3. QED
      BY <3>1, <3>2, <1>4
  <2>2. QED
    BY <2>1 DEF VisitedQueued, Range
<1>7. QED
  BY <1>5, <1>6

(* QueueBuffer::flush(), leaving the local queue with the entries of q.    *)
LEMMA FlushQueue ==
    ASSUME TypeOK, QueuedOnce, VisitedQueued,
           NEW t \in Threads, NEW q \in Seq(NodeID), IsInjective(q),
           Range(q) \cap visited = {},
           UNCHANGED curr, visited' = visited \cup Range(q),
           next' = next \o lqueue[t], lqueue' = [lqueue EXCEPT ![t] = q]
    PROVE  QueuedOnce' /\ VisitedQueued'
<1>1. lqueue[t] \in Seq(NodeID) /\ lqueue'[t] = q /\ next \in Seq(NodeID)
  BY DEF TypeOK
<1>2. \A u \in Threads \ {t} : lqueue'[u] = lqueue[u]
  BY DEF TypeOK
<1>3. /\ Range(q) \cap Range(next) = {}
      /\ \A u \in Threads : Range(q) \cap Range(lqueue[u]) = {}
  BY DEF VisitedQueued
<1>4. Range(next') = Range(next) \cup Range(lqueue[t]) /\ IsInjective(next')
  BY <1>1, ConcatEntries DEF QueuedOnce
<1>5. QueuedOnce'
  <2>1. IsInjective(curr')
    BY DEF QueuedOnce
  <2>2. \A u \in Threads : IsInjective(lqueue'[u])
    BY <1>1, <1>2 DEF QueuedOnce
  <2>3. \A u \in Threads : Range(lqueue'[u]) \cap Range(next') = {}
    BY <1>1, <1>2, <1>3, <1>4 DEF QueuedOnce
  <2>4. \A u, w \in Threads : u # w =>
           Range(lqueue'[u]) \cap Range(lqueue'[w]) = {}
    BY <1>1, <1>2, <1>3 DEF QueuedOnce
  <2>5. QED
    BY <1>4, <2>1, <2>2, <2>3, <2>4 DEF QueuedOnce, IsInjective, Range
<1>6. VisitedQueued'
  <2>1. ASSUME NEW x
        PROVE  x \in visited' <=> \/ x \in Range(next')
                                  \/ \E u \in Threads : x \in Range(lqueue'[u])
    <3>1. x \in visited <=> \/ x \in Range(next)
                            \/ \E u \in Threads : x \in Range(lqueue[u])
      BY DEF VisitedQueued
    <3>2. \A u \in Threads \ {t} : Range(lqueue'[u]) = Range(lqueue[u])
      BY <1>2
    <3>3. Range(lqueue'[t]) = Range(q)
      BY <1>1
    <3>4. QED
      BY <3>1, <3>2, <3>3, <1>4
  <2>2. visited' = Range(next') \cup UNION {Range(lqueue'[u]) : u \in Threads}
    BY ONLY <2>1
  <2>3. QED
    BY <2>2 DEF VisitedQueued, Range
<1>7. QED
  BY <1>5, <1>6

-----------------------------------------------------------------------------
(* A pushed vertex is marked in visited before the thread forgets it.      *)
LEMMA PushInv ==
    ASSUME RoundsInv, NEW t \in Threads, Push(t)
    PROVE  RoundsInv' /\ Converged'
<1> USE DEF RoundsInv
<1>1. /\ UNCHANGED graph
      /\ UNCHANGED <<alg, affected, property, phase, curr, todo, pc>>
      /\ pc[t] = "push"
  BY DEF Push, graph
<1>2. PICK v \in job[t].push :
        /\ job' = [job EXCEPT ![t].push = @ \ {v}]
        /\ \/ v \in visited /\ UNCHANGED <<visited, lqueue, next>>
           \/ /\ v \notin visited /\ visited' = visited \cup {v}
              /\ next' = next \o lqueue[t]
              /\ lqueue' = [lqueue EXCEPT ![t] = <<v>>]
           \/ /\ v \notin visited /\ visited' = visited \cup {v}
              /\ lqueue' = [lqueue EXCEPT ![t] = Append(@, v)]
              /\ UNCHANGED next
  BY DEF Push
<1>3. phase \in {"first", "rounds"}
  BY <1>1 DEF AtRest, TypeOK
<1>4. job[t] \in Job /\ v \in Known /\ v \in NodeID
  BY <1>1, KnownNodes DEF TypeOK, WorkKnown, Busy
<1>5. visited' = visited \cup {v}
  BY <1>2
<1>6. /\ job'[t] \in Job /\ job'[t].n = job[t].n /\ job'[t].left = job[t].left
      /\ job'[t].push = job[t].push \ {v}
      /\ job' = [u \in Threads |-> job'[u]]
  BY <1>2, <1>4 DEF TypeOK, Job
<1>7. \A u \in Threads \ {t} : job'[u] = job[u] /\ lqueue'[u] = lqueue[u]
  BY <1>2 DEF TypeOK
<1>8. QueuedOnce' /\ VisitedQueued'
  <2>1. CASE v \in visited
    BY <2>1, <1>1, <1>2, SameQueues
  <2>2. CASE /\ v \notin visited /\ UNCHANGED next
             /\ lqueue' = [lqueue EXCEPT ![t] = Append(@, v)]
    BY <2>2, <1>1, <1>4, <1>5, AppendQueue
  <2>3. CASE /\ v \notin visited /\ next' = next \o lqueue[t]
             /\ lqueue' = [lqueue EXCEPT ![t] = <<v>>]
    <3>1. <<v>> \in Seq(NodeID) /\ Range(<<v>>) = {v} /\ IsInjective(<<v>>)
      BY <1>4 DEF Range, IsInjective
    <3>2. Range(<<v>>) \cap visited = {} /\ visited' = visited \cup Range(<<v>>)
      BY <2>3, <3>1, <1>5
    <3>3. QED
      BY <2>3, <3>1, <3>2, <1>1, FlushQueue
  <2>4. QED
    BY <1>2, <2>1, <2>2, <2>3
<1>9. TypeOK'
  <2>1. next' \in Seq(NodeID) /\ lqueue' \in [Threads -> Seq(NodeID)]
    <3>1. /\ next \in Seq(NodeID) /\ lqueue \in [Threads -> Seq(NodeID)]
          /\ next \o lqueue[t] \in Seq(NodeID)
          /\ <<v>> \in Seq(NodeID) /\ Append(lqueue[t], v) \in Seq(NodeID)
      BY <1>4 DEF TypeOK
    <3>2. QED
      BY <1>2, <3>1
  <2>2. \A u \in Threads : pc'[u] \in {"pull", "push"} => job'[u] \in Job
    BY <1>1, <1>6, <1>7 DEF TypeOK
  <2>3. QED
    BY <1>1, <1>4, <1>5, <1>6, <2>1, <2>2, SameJob DEF TypeOK, graph
<1>10. Untaken' = Untaken /\ Known' = Known
  BY <1>1, SameGraph DEF Untaken
<1>11. AtRest' /\ MarkedOrRelaxed' /\ Converged' /\ Valued'
  BY <1>1, <1>3 DEF AtRest, MarkedOrRelaxed, Converged, Valued, graph, Known
<1>12. FlushedEmpty'
  BY <1>1, <1>7 DEF FlushedEmpty
<1>13. WorkKnown'
  BY <1>1, <1>4, <1>5, <1>6, <1>7, <1>10 DEF WorkKnown, Busy, Range
<1>14. OneWriter'
  BY <1>1, <1>6, <1>7 DEF OneWriter
<1>15. AllAccounted'
  <2> SUFFICES ASSUME NEW m \in Known, NEW x \in PullFrom(m)
               PROVE  Accounted(m, x)'
    BY <1>1, SameGraph DEF AllAccounted
  <2>1. Accounted(m, x)
    BY <1>3 DEF AllAccounted
  <2>2. CASE RelaxedFrom(m, x) \/ m \in visited \/ m \in Untaken
    BY <2>2, <1>1, <1>5, <1>10 DEF Accounted, RelaxedFrom
  <2>3. CASE ToBePushed(m, x)
    BY <2>3, <1>1, <1>5, <1>6, <1>7 DEF Accounted, ToBePushed
  <2>4. CASE Forthcoming(m, x)
    BY <2>4, <1>1, <1>7 DEF Accounted, Forthcoming
  <2>5. QED
    BY <2>1, <2>2, <2>3, <2>4 DEF Accounted
<1>16. QED
  BY <1>8, <1>9, <1>11, <1>12, <1>13, <1>14, <1>15

LEMMA FlushInv ==
    ASSUME RoundsInv, NEW t \in Threads, Flush(t)
    PROVE  RoundsInv' /\ Converged'
<1> USE DEF RoundsInv
<1>1. /\ UNCHANGED graph
      /\ UNCHANGED <<alg, affected, property, phase, curr, todo, visited, job>>
      /\ pc[t] = "take" /\ todo = {}
      /\ next' = next \o lqueue[t]
      /\ lqueue' = [lqueue EXCEPT ![t] = <<>>]
      /\ pc' = [pc EXCEPT ![t] = "flushed"]
  BY DEF Flush, graph
<1>2. phase \in {"first", "rounds"}
  BY <1>1 DEF AtRest, TypeOK
<1>3. pc'[t] = "flushed" /\ lqueue'[t] = <<>>
  BY <1>1 DEF TypeOK
<1>4. \A u \in Threads \ {t} : pc'[u] = pc[u] /\ lqueue'[u] = lqueue[u]
  BY <1>1 DEF TypeOK
<1>5. QueuedOnce' /\ VisitedQueued'
  <2>1. <<>> \in Seq(NodeID) /\ Range(<<>>) = {} /\ IsInjective(<<>>)
    BY DEF Range, IsInjective
  <2>2. QED
    BY <2>1, <1>1, FlushQueue
<1>6. TypeOK'
  <2>1. next' \in Seq(NodeID) /\ lqueue' \in [Threads -> Seq(NodeID)]
    BY <1>1 DEF TypeOK
  <2>2. \A u \in Threads : pc'[u] \in {"pull", "push"} => job'[u] \in Job
    BY <1>1, <1>3, <1>4 DEF TypeOK
  <2>3. QED
    BY <1>1, <2>1, <2>2, SameJob DEF TypeOK, graph
<1>7. Untaken' = Untaken /\ Known' = Known
  BY <1>1, SameGraph DEF Untaken
<1>8. AtRest' /\ MarkedOrRelaxed' /\ Converged' /\ Valued'
  BY <1>1, <1>2 DEF AtRest, MarkedOrRelaxed, Converged, Valued, graph, Known
<1>9. FlushedEmpty'
  BY <1>1, <1>3, <1>4 DEF FlushedEmpty
<1>10. WorkKnown'
  BY <1>1, <1>3, <1>4, <1>7 DEF WorkKnown, Busy, Range
<1>11. OneWriter'
  BY <1>1, <1>3, <1>4 DEF OneWriter
<1>12. AllAccounted'
  <2> SUFFICES ASSUME NEW m \in Known, NEW x \in PullFrom(m)
               PROVE  Accounted(m, x)'
    BY <1>1, SameGraph DEF AllAccounted
  <2>1. Accounted(m, x)
    BY <1>2 DEF AllAccounted
  <2>2. CASE RelaxedFrom(m, x) \/ m \in visited \/ m \in Untaken
    BY <2>2, <1>1, <1>7 DEF Accounted, RelaxedFrom
  <2>3. CASE ToBePushed(m, x)
    BY <2>3, <1>1, <1>4 DEF Accounted, ToBePushed
  <2>4. CASE Forthcoming(m, x)
    BY <2>4, <1>1, <1>4 DEF Accounted, Forthcoming
  <2>5. QED
    BY <2>1, <2>2, <2>3, <2>4 DEF Accounted
<1>13. QED
  BY <1>5, <1>6, <1>8, <1>9, <1>10, <1>11, <1>12

-----------------------------------------------------------------------------
(* The steps of the main thread.                                           *)

(* A vertex that is no endpoint of the batch keeps its edges and weights.  *)
LEMMA UpdateInv ==
    ASSUME RoundsInv, NewBatch, Converged \/ Known \subseteq affected
    PROVE  RoundsInv' /\ Converged'
<1> USE DEF RoundsInv
<1>0. PICK pairs \in SUBSET (NodeID \X NodeID) :
          \E w \in [Symmetric(pairs) -> Weights(alg)] : Update(pairs, w)
  BY DEF NewBatch
<1>1. PICK w \in [Symmetric(pairs) -> Weights(alg)] : Update(pairs, w)
  BY <1>0
<1> DEFINE sym == Symmetric(pairs)
<1>2. /\ phase = "idle" /\ phase' = "updated" /\ batches' = batches + 1
      /\ edges' = [p \in DOMAIN edges \cup sym |-> IF p \in sym THEN w[p] ELSE edges[p]]
      /\ affected' = affected \cup Endpoints(pairs)
      /\ UNCHANGED <<alg, property, curr, todo, next, visited, lqueue, pc, job>>
  BY <1>1 DEF Update
<1>3. PICK m \in num_nodes .. NumNodes :
          /\ pairs \subseteq (0 .. m - 1) \X (0 .. m - 1)
          /\ num_nodes .. m - 1 \subseteq Endpoints(pairs)
          /\ num_nodes' = m
  BY <1>1 DEF Update
<1>4. num_nodes \in 0 .. NumNodes /\ m \in 0 .. NumNodes
  BY <1>3 DEF TypeOK
<1>5. Known' = 0 .. m - 1 /\ Known \subseteq Known' /\ Known' \subseteq NodeID
  BY <1>3, <1>4 DEF Known, NodeID
<1>6. \A p \in sym : /\ p \in Known' \X Known'
                     /\ p[1] \in Endpoints(pairs) /\ p[2] \in Endpoints(pairs)
  <2>1. ASSUME NEW p \in pairs
        PROVE  /\ p \in Known' \X Known' /\ <<p[2], p[1]>> \in Known' \X Known'
               /\ p[1] \in Endpoints(pairs) /\ p[2] \in Endpoints(pairs)
    BY <1>3, <1>5 DEF Endpoints
  <2>2. ASSUME NEW p \in pairs
        PROVE  /\ <<p[2], p[1]>>[1] \in Endpoints(pairs)
               /\ <<p[2], p[1]>>[2] \in Endpoints(pairs)
    BY <2>1
  <2>3. sym \subseteq pairs \cup {<<p[2], p[1]>> : p \in pairs}
    BY DEF Symmetric
  <2>4. ASSUME NEW p \in sym
        PROVE  /\ p \in Known' \X Known'
               /\ p[1] \in Endpoints(pairs) /\ p[2] \in Endpoints(pairs)
    <3>1. CASE p \in pairs
      BY <3>1, <2>1
    <3>2. CASE \E q \in pairs : p = <<q[2], q[1]>>
      <4>1. PICK q \in pairs : p = <<q[2], q[1]>>
        BY <3>2
      <4>2. QED
        BY <4>1, <2>1, <2>2
    <3>3. QED
      BY <2>3, <3>1, <3>2
  <2>5. QED
    BY <2>4
<1>7. Endpoints(pairs) \subseteq Known'
  BY <1>3, <1>5 DEF Endpoints
<1>8. DOMAIN edges' \subseteq Known' \X Known' /\ edges' \in [DOMAIN edges' -> Weights(alg)]
  <2>1. DOMAIN edges \subseteq Known \X Known /\ edges \in [DOMAIN edges -> Weights(alg)]
    BY DEF TypeOK, Known
  <2>2. QED
    BY <1>2, <1>5, <1>6, <2>1
<1>9. TypeOK'
  <2>1. batches' \in Nat /\ affected' \subseteq NodeID
    BY <1>2, <1>5, <1>7 DEF TypeOK
  <2>2. DOMAIN edges' \subseteq (0 .. num_nodes' - 1) \X (0 .. num_nodes' - 1)
    BY <1>3, <1>5, <1>8
  <2>3. QED
    BY <1>2, <1>3, <1>4, <1>8, <2>1, <2>2, SameJob DEF TypeOK
<1>10. AtRest' /\ FlushedEmpty' /\ OneWriter' /\ AllAccounted' /\ Converged'
  BY <1>2 DEF AtRest, FlushedEmpty, OneWriter, AllAccounted, Converged
<1>11. QueuedOnce' /\ VisitedQueued'
  BY <1>2, SameQueues
<1>12. WorkKnown'
  <2>1. \A u \in Threads : ~Busy(u)'
    BY <1>2 DEF AtRest, Busy
  <2>2. affected' \subseteq Known'
    BY <1>2, <1>5, <1>7 DEF WorkKnown
  <2>3. curr' = <<>> /\ visited' = {}
    BY <1>2 DEF AtRest
  <2>4. QED
    BY <2>1, <2>2, <2>3 DEF WorkKnown, Range
<1>13. \A n \in Known \ affected :
           /\ property[n] \in Value(alg)
           /\ \A e \in PullFrom(n) : property[e[1]] \in Value(alg) /\ RelaxedFrom(n, e)
  <2> SUFFICES ASSUME Converged, NEW n \in Known
               PROVE  /\ property[n] \in Value(alg)
                      /\ \A e \in PullFrom(n) :
                             property[e[1]] \in Value(alg) /\ RelaxedFrom(n, e)
    OBVIOUS
  <2>1. \A u \in Known : property[u] \in Value(alg) /\ \A e \in PullFrom(u) : RelaxedFrom(u, e)
    BY <1>2 DEF Converged, Known
  <2>2. \A e \in PullFrom(n) : e[1] \in Known
    BY GraphKnown
  <2> QED
    BY <2>1, <2>2
<1>14. Valued'
  <2>1. ASSUME NEW n \in Known', property[n] = Uninit, n \notin affected
        PROVE  n \in Endpoints(pairs)
    <3>1. n \notin Known
      BY <1>13, <2>1
    <3>2. n \in 0 .. m - 1
      BY <1>5
    <3>3. n \notin 0 .. num_nodes - 1
      BY <3>1 DEF Known
    <3>4. n \in num_nodes .. m - 1
      BY <3>2, <3>3, <1>4
    <3>5. QED
      BY <3>4, <1>3
  <2>2. QED
    BY <1>2, <2>1 DEF Valued
<1>15. MarkedOrRelaxed'
  <2> SUFFICES ASSUME NEW n \in Known', n \notin affected', NEW e \in PullFrom(n)'
               PROVE  property[e[1]] \in Value(alg) /\ RelaxedFrom(n, e)
    BY <1>2 DEF MarkedOrRelaxed, RelaxedFrom
  <2>1. \A p \in DOMAIN edges' : p[1] = n \/ p[2] = n =>
            p \in DOMAIN edges /\ edges'[p] = edges[p]
    BY <1>2, <1>6
  <2>2. e \in PullFrom(n)
    <3>1. CASE e \in {<<p[1], edges'[p]>> : p \in InTo(n)'}
      BY <3>1, <2>1 DEF PullFrom, InTo
    <3>2. CASE BothWays(alg) /\ e \in {<<p[2], edges'[p]>> : p \in OutOf(n)'}
      BY <3>2, <2>1 DEF PullFrom, OutOf
    <3>3. QED
      BY <3>1, <3>2, <1>2 DEF PullFrom
  <2>3. n \in Known
    BY <2>2 DEF PullFrom, InTo, OutOf, TypeOK, Known
  <2>4. n \notin affected
    BY <1>2
  <2>5. QED
    BY <2>2, <2>3, <2>4, <1>13
<1>16. QED
  BY <1>9, <1>10, <1>11, <1>12, <1>14, <1>15

(* A round starts with every vertex of its queue to be taken.              *)
LEMMA RoundBegins ==
    ASSUME RoundsInv, NEW work \in Seq(NodeID), IsInjective(work), BeginRound(work),
           \A u \in Threads : pc[u] = "flushed",
           UNCHANGED lqueue
    PROVE  /\ QueuedOnce' /\ VisitedQueued' /\ FlushedEmpty' /\ OneWriter'
           /\ Untaken' = Range(work) /\ visited' = {}
           /\ \A u \in Threads : ~Busy(u)'
<1> USE DEF RoundsInv
<1>1. /\ curr' = work /\ todo' = DOMAIN work /\ next' = <<>> /\ visited' = {}
      /\ \A u \in Threads : pc'[u] = "take" /\ lqueue'[u] = <<>>
  BY DEF BeginRound, FlushedEmpty
<1>2. Range(<<>>) = {} /\ IsInjective(<<>>)
  BY DEF Range, IsInjective
<1>3. /\ IsInjective(curr') /\ IsInjective(next') /\ Range(next') = {}
      /\ \A u \in Threads : IsInjective(lqueue'[u]) /\ Range(lqueue'[u]) = {}
  BY <1>1, <1>2
<1>4. QueuedOnce'
  BY <1>3 DEF QueuedOnce, IsInjective, Range
<1>5. VisitedQueued'
  <2>1. visited' = Range(next') \cup UNION {Range(lqueue'[u]) : u \in Threads}
    BY <1>1, <1>3
  <2>2. QED
    BY <2>1 DEF VisitedQueued, Range
<1>6. FlushedEmpty' /\ OneWriter' /\ \A u \in Threads : ~Busy(u)'
  BY <1>1 DEF FlushedEmpty, OneWriter, Busy
<1>7. Untaken' = Range(work)
  BY <1>1 DEF Untaken, Range
<1>8. QED
  BY <1>1, <1>4, <1>5, <1>6, <1>7

(* In the first round exactly the marked vertices wait.                    *)
LEMMA BeginInv ==
    ASSUME RoundsInv, Begin
    PROVE  RoundsInv' /\ Converged'
<1> USE DEF RoundsInv
<1>1. /\ phase = "updated" /\ phase' = "first"
      /\ UNCHANGED graph /\ UNCHANGED <<alg, affected, lqueue, job>>
      /\ property' = [n \in NodeID |->
                         IF n < num_nodes /\ property[n] = Uninit
                         THEN Start(alg, n) ELSE property[n]]
  BY DEF Begin, StartValues, graph
<1>2. PICK work \in [1 .. Cardinality(affected) -> affected] :
          /\ \A n \in affected : \E i \in DOMAIN work : work[i] = n
          /\ \A i, j \in DOMAIN work : i < j => work[i] < work[j]
          /\ BeginRound(work)
  BY DEF Begin
<1>3. Cardinality(affected) \in Nat
  <2>1. IsFiniteSet(NodeID)
    BY FS_Interval DEF NodeID
  <2>2. QED
    BY <2>1, FS_Subset, FS_CardinalityType DEF TypeOK
<1>4. work \in Seq(NodeID) /\ Range(work) = affected
  <2>1. work \in [1 .. Cardinality(affected) -> NodeID]
    BY <1>2 DEF TypeOK
  <2>2. work \in Seq(NodeID)
    BY <2>1, <1>3
  <2>3. Range(work) = affected
    BY <1>2 DEF Range
  <2>4. QED
    BY <2>2, <2>3
<1>5. IsInjective(work)
  <2>1. DOMAIN work = 1 .. Cardinality(affected)
    BY <1>2
  <2>2. ASSUME NEW i \in DOMAIN work, NEW j \in DOMAIN work, work[i] = work[j]
        PROVE  i = j
    <3>1. work[i] \in NodeID /\ work[i] \in Int /\ work[j] \in Int /\ i \in Int /\ j \in Int
      BY <1>3, <2>1 DEF TypeOK, NodeID
    <3>2. ~(i < j) /\ ~(j < i)
      BY <1>2, <2>2, <3>1
    <3>3. QED
      BY <3>1, <3>2
  <2>3. QED
    BY <2>2 DEF IsInjective
<1>6. \A u \in Threads : pc[u] = "flushed"
  BY <1>1 DEF AtRest
<1>7. /\ QueuedOnce' /\ VisitedQueued' /\ FlushedEmpty' /\ OneWriter'
      /\ Untaken' = affected /\ visited' = {} /\ \A u \in Threads : ~Busy(u)'
  BY <1>1, <1>2, <1>4, <1>5, <1>6, RoundBegins
<1>8. curr' = work /\ todo' = DOMAIN work /\ next' = <<>> /\ pc' = [u \in Threads |-> "take"]
  BY <1>2 DEF BeginRound
<1>9. Known' = Known /\ Known \subseteq NodeID
  BY <1>1, SameGraph, KnownNodes
<1>10. property' \in [NodeID -> Value(alg) \cup {Uninit}]
  <2>1. \A n \in NodeID : /\ property[n] \in Value(alg) \cup {Uninit}
                          /\ Start(alg, n) \in Value(alg) \cup {Uninit}
    BY ValueLaws DEF TypeOK
  <2>2. QED
    BY <1>1, <2>1
<1>11. TypeOK'
  BY <1>1, <1>4, <1>7, <1>8, <1>10, SameJob DEF TypeOK, graph
<1>12. AtRest' /\ MarkedOrRelaxed' /\ Converged'
  BY <1>1 DEF AtRest, MarkedOrRelaxed, Converged
<1>13. WorkKnown'
  <2>1. Range(curr') \subseteq Known /\ affected' \subseteq Known
    BY <1>1, <1>4, <1>8 DEF WorkKnown
  <2>2. QED
    BY <1>7, <1>9, <2>1 DEF WorkKnown, Range
<1>14. \A n \in Known : /\ property'[n] \in Value(alg)
                        /\ property[n] \in Value(alg) => property'[n] = property[n]
  <2>1. ASSUME NEW n \in Known
        PROVE  /\ n \in NodeID /\ n < num_nodes
               /\ property[n] \in Value(alg) \cup {Uninit} /\ Start(alg, n) \in Value(alg)
    BY <1>9, ValueLaws DEF TypeOK, Known
  <2>2. QED
    BY <1>1, <2>1
<1>15. Valued'
  BY <1>1, <1>9, <1>14 DEF Valued
<1>16. AllAccounted'
  <2> SUFFICES ASSUME NEW m \in Known, NEW x \in PullFrom(m)
               PROVE  Accounted(m, x)'
    BY <1>1, SameGraph DEF AllAccounted
  <2>1. CASE m \in affected
    BY <2>1, <1>7 DEF Accounted
  <2>2. CASE m \notin affected
    <3>1. property[x[1]] \in Value(alg) /\ RelaxedFrom(m, x)
      BY <2>2, <1>1 DEF MarkedOrRelaxed
    <3>2. property[m] \in Value(alg)
      BY <2>2, <1>1, <1>9 DEF Valued, TypeOK
    <3>3. x[1] \in Known
      BY GraphKnown
    <3>4. property'[m] = property[m] /\ property'[x[1]] = property[x[1]]
      BY <3>1, <3>2, <3>3, <1>14
    <3>5. QED
      BY <3>1, <3>4, <1>1 DEF Accounted, RelaxedFrom
  <2>3. QED
    BY <2>1, <2>2
<1>17. QED
  BY <1>7, <1>11, <1>12, <1>13, <1>15, <1>16

(* mcfromscratch: all vertices wait, with their start values.              *)
LEMMA BeginAllInv ==
    ASSUME RoundsInv, BeginAll
    PROVE  RoundsInv' /\ Converged'
<1> USE DEF RoundsInv
<1> DEFINE work == [i \in 1 .. num_nodes |-> i - 1]
<1>1. /\ phase = "updated" /\ phase' = "first"
      /\ UNCHANGED graph /\ UNCHANGED <<alg, affected, lqueue, job>>
      /\ property' = [n \in NodeID |->
                         IF n < num_nodes THEN Start(alg, n) ELSE property[n]]
      /\ BeginRound(work)
  BY DEF BeginAll, StartValuesForAll, graph
<1>2. num_nodes \in Nat /\ Known' = Known /\ Known \subseteq NodeID
  BY <1>1, SameGraph, KnownNodes DEF TypeOK
<1>3. /\ work \in [1 .. num_nodes -> NodeID] /\ work \in Seq(NodeID)
      /\ Range(work) = Known /\ IsInjective(work)
  <2>1. work \in [1 .. num_nodes -> NodeID]
    BY <1>2 DEF Known
  <2>2. work \in Seq(NodeID)
    BY <1>2, <2>1
  <2>3. \A n \in Known : n + 1 \in 1 .. num_nodes /\ work[n + 1] = n
    BY <1>2 DEF Known
  <2>4. Range(work) = Known
    BY <1>2, <2>3 DEF Known, Range
  <2>5. IsInjective(work)
    BY <1>2 DEF IsInjective
  <2> QED
    BY <2>1, <2>2, <2>4, <2>5
<1> HIDE DEF work
<1>4. \A u \in Threads : pc[u] = "flushed"
  BY <1>1 DEF AtRest
<1>5. /\ QueuedOnce' /\ VisitedQueued' /\ FlushedEmpty' /\ OneWriter'
      /\ Untaken' = Known /\ visited' = {} /\ \A u \in Threads : ~Busy(u)'
  BY <1>1, <1>3, <1>4, RoundBegins
<1>6. curr' = work /\ todo' = DOMAIN work /\ next' = <<>> /\ pc' = [u \in Threads |-> "take"]
  BY <1>1 DEF BeginRound
<1>7. /\ property' \in [NodeID -> Value(alg) \cup {Uninit}]
      /\ \A n \in Known : property'[n] \in Value(alg)
  <2>1. \A n \in NodeID : /\ property[n] \in Value(alg) \cup {Uninit}
                          /\ Start(alg, n) \in Value(alg)
    BY ValueLaws DEF TypeOK
  <2>2. \A n \in Known : n \in NodeID /\ n < num_nodes
    BY <1>2 DEF Known
  <2> QED
    BY <1>1, <2>1, <2>2
<1>8. TypeOK'
  BY <1>1, <1>3, <1>5, <1>6, <1>7, SameJob DEF TypeOK, graph
<1>9. AtRest' /\ MarkedOrRelaxed' /\ Converged'
  BY <1>1 DEF AtRest, MarkedOrRelaxed, Converged
<1>10. WorkKnown'
  <2>1. Range(curr') \subseteq Known /\ affected' \subseteq Known
    BY <1>1, <1>3, <1>6 DEF WorkKnown
  <2> QED
    BY <1>2, <1>5, <2>1 DEF WorkKnown, Range
<1>11. Valued'
  BY <1>1, <1>2, <1>7 DEF Valued
<1>12. AllAccounted'
  BY <1>2, <1>5 DEF AllAccounted, Accounted
<1> QED
  BY <1>5, <1>8, <1>9, <1>10, <1>11, <1>12

(* With every thread at the barrier only queued vertices can be improved.  *)
LEMMA RoundOverFacts ==
    ASSUME RoundsInv, RoundOver
    PROVE  /\ todo = {} /\ Untaken = {} /\ visited = Range(next)
           /\ \A n \in Known : \A e \in PullFrom(n) :
                 RelaxedFrom(n, e) \/ n \in visited
<1> USE DEF RoundsInv
<1>1. \A u \in Threads : pc[u] = "flushed"
  BY DEF RoundOver
<1>2. todo = {} /\ \A u \in Threads : lqueue[u] = <<>>
  BY <1>1 DEF FlushedEmpty
<1>3. Untaken = {}
  BY <1>2 DEF Untaken
<1>4. visited = Range(next)
  <2>1. \A u \in Threads : Range(lqueue[u]) = {}
    BY <1>2 DEF Range
  <2>2. QED
    BY <2>1 DEF VisitedQueued
<1>5. \A n \in Known : \A e \in PullFrom(n) : RelaxedFrom(n, e) \/ n \in visited
  BY <1>1, <1>3 DEF RoundOver, AllAccounted, Accounted, Forthcoming, ToBePushed
<1>6. QED
  BY <1>2, <1>3, <1>4, <1>5

LEMMA SlideInv ==
    ASSUME RoundsInv, Slide
    PROVE  RoundsInv' /\ Converged'
<1> USE DEF RoundsInv
<1>1. /\ RoundOver /\ BeginRound(next) /\ phase' = "rounds"
      /\ UNCHANGED graph /\ UNCHANGED <<alg, affected, property, lqueue, job>>
  BY DEF Slide, graph
<1>2. next \in Seq(NodeID) /\ IsInjective(next) /\ \A u \in Threads : pc[u] = "flushed"
  BY <1>1 DEF TypeOK, QueuedOnce, RoundOver
<1>3. /\ QueuedOnce' /\ VisitedQueued' /\ FlushedEmpty' /\ OneWriter'
      /\ Untaken' = Range(next) /\ visited' = {} /\ \A u \in Threads : ~Busy(u)'
  BY <1>1, <1>2, RoundBegins
<1>4. curr' = next /\ todo' = DOMAIN next /\ next' = <<>> /\ pc' = [u \in Threads |-> "take"]
  BY <1>1 DEF BeginRound
<1>5. TypeOK'
  BY <1>1, <1>2, <1>3, <1>4, SameJob DEF TypeOK, graph
<1>6. AtRest' /\ MarkedOrRelaxed' /\ Converged' /\ Valued'
  BY <1>1 DEF RoundOver, AtRest, MarkedOrRelaxed, Converged, Valued, graph, Known
<1>7. WorkKnown'
  <2>1. Known' = Known /\ Range(curr') \subseteq Known /\ affected' \subseteq Known
    BY <1>1, <1>4, SameGraph, RoundOverFacts DEF WorkKnown
  <2>2. QED
    BY <1>3, <2>1 DEF WorkKnown, Range
<1>8. AllAccounted'
  <2> SUFFICES ASSUME NEW m \in Known, NEW x \in PullFrom(m)
               PROVE  Accounted(m, x)'
    BY <1>1, SameGraph DEF AllAccounted
  <2>1. RelaxedFrom(m, x) \/ m \in Untaken'
    BY <1>1, <1>3, RoundOverFacts
  <2>2. QED
    BY <2>1, <1>1 DEF Accounted, RelaxedFrom
<1>9. QED
  BY <1>3, <1>5, <1>6, <1>7, <1>8

LEMMA EndInv ==
    ASSUME RoundsInv, End \/ EndUncleared
    PROVE  RoundsInv' /\ Converged'
<1> USE DEF RoundsInv
<1>1. /\ RoundOver /\ next = <<>> /\ affected' \subseteq affected /\ phase' = "idle" /\ curr' = <<>>
      /\ UNCHANGED graph
      /\ UNCHANGED <<alg, property, todo, next, visited, lqueue, pc, job>>
  BY DEF End, EndUncleared, graph
<1>2. /\ todo = {} /\ visited = {} /\ \A u \in Threads : pc[u] = "flushed"
      /\ \A n \in Known : \A e \in PullFrom(n) : RelaxedFrom(n, e)
  BY <1>1, RoundOverFacts DEF Range, RoundOver
<1>3. TypeOK'
  BY <1>1, <1>2, SameJob DEF TypeOK, graph
<1>4. AtRest' /\ FlushedEmpty' /\ MarkedOrRelaxed' /\ AllAccounted' /\ OneWriter' /\ Valued'
  BY <1>1, <1>2 DEF AtRest, FlushedEmpty, MarkedOrRelaxed, AllAccounted, OneWriter, Valued
<1>5. QueuedOnce' /\ VisitedQueued'
  <2>1. IsInjective(curr')
    BY <1>1 DEF IsInjective
  <2>2. IsInjective(next') /\ \A u \in Threads : IsInjective(lqueue'[u])
    BY <1>1 DEF QueuedOnce
  <2>3. /\ \A u \in Threads : Range(lqueue'[u]) \cap Range(next') = {}
        /\ \A u, w \in Threads : u # w =>
              Range(lqueue'[u]) \cap Range(lqueue'[w]) = {}
    BY <1>1 DEF QueuedOnce
  <2>4. QueuedOnce'
    BY <2>1, <2>2, <2>3 DEF QueuedOnce, IsInjective, Range
  <2>5. VisitedQueued'
    BY <1>1 DEF VisitedQueued, Range
  <2>6. QED
    BY <2>4, <2>5
<1>6. WorkKnown'
  <2>1. Known' = Known /\ Range(curr') = {}
    BY <1>1, SameGraph DEF Range
  <2> QED
    BY <1>1, <1>2, <2>1 DEF WorkKnown, Busy
<1>7. Converged'
  <2>1. \A n \in Known : property[n] \in Value(alg)
    BY <1>1 DEF RoundOver, Valued
  <2>2. Known' = 0 .. num_nodes' - 1 /\ Known' = Known /\ \A n : PullFrom(n)' = PullFrom(n)
    BY <1>1, SameGraph DEF Known
  <2>3. QED
    BY <1>1, <1>2, <2>1, <2>2 DEF Converged, RelaxedFrom
<1>8. QED
  BY <1>3, <1>4, <1>5, <1>6, <1>7

LEMMA StutterInv ==
    ASSUME RoundsInv, UNCHANGED vars
    PROVE  RoundsInv' /\ (Converged => Converged')
<1> USE DEF RoundsInv
<1>1. /\ UNCHANGED <<alg, num_nodes, edges, batches>>
      /\ UNCHANGED <<affected, property, phase, curr, todo, next, visited, lqueue, pc, job>>
  BY DEF vars, graph
<1>2. TypeOK' /\ AtRest' /\ FlushedEmpty' /\ OneWriter'
  BY <1>1, SameJob DEF TypeOK, AtRest, FlushedEmpty, OneWriter
<1>3. QueuedOnce' /\ VisitedQueued'
  BY <1>1, SameQueues
<1>4. /\ Known' = Known /\ Untaken' = Untaken
      /\ \A n : PullFrom(n)' = PullFrom(n)
      /\ \A n, e : RelaxedFrom(n, e)' = RelaxedFrom(n, e)
  BY <1>1, SameGraph DEF graph, Untaken, RelaxedFrom
<1>5. WorkKnown' /\ Valued' /\ MarkedOrRelaxed'
  BY <1>1, <1>4 DEF WorkKnown, Valued, MarkedOrRelaxed, Busy, Range
<1>6. AllAccounted'
  BY <1>1, <1>4 DEF AllAccounted, Accounted, Forthcoming, ToBePushed
<1>7. Converged => Converged'
  BY <1>1, <1>4 DEF Converged
<1>8. QED
  BY <1>2, <1>3, <1>5, <1>6, <1>7

-----------------------------------------------------------------------------
(* A step of the engine, or of MCStartFromScratch().                       *)
EngineStep ==
    \/ Begin \/ BeginAll \/ Slide \/ End \/ EndUncleared
    \/ \E t \in Threads : Worker(t)

LEMMA EngineStepInv ==
    ASSUME RoundsInv, EngineStep
    PROVE  RoundsInv' /\ Converged'
<1>1. ASSUME NEW t \in Threads, Worker(t) PROVE RoundsInv' /\ Converged'
  BY <1>1, TakeInv, PullInv, StoreInv, PushInv, PushedInv, FlushInv DEF Worker
<1> QED
  BY <1>1, BeginInv, BeginAllInv, SlideInv, EndInv DEF EngineStep

(* IInv holds in every state of the computation.                           *)
THEOREM InductiveInvariant == Spec => []IInv
<1>1. Init => IInv
  BY NothingYetInv DEF Init, IInv
<1>2. IInv /\ [Next]_vars => IInv'
  <2> SUFFICES ASSUME IInv, [Next]_vars PROVE RoundsInv' /\ Converged'
    BY DEF IInv
  <2>1. CASE NewBatch
    BY <2>1, UpdateInv DEF IInv
  <2>2. CASE EngineStep
    BY <2>2, EngineStepInv DEF IInv
  <2>3. CASE UNCHANGED vars
    BY <2>3, StutterInv DEF IInv
  <2> QED
    BY <2>1, <2>2, <2>3 DEF Next, Finished, EngineStep
<1> QED
  BY <1>1, <1>2, PTL DEF Spec

(* Every variable keeps its type.                                          *)
THEOREM TypeCorrect == Spec => []TypeOK
BY InductiveInvariant, PTL DEF IInv, RoundsInv

(* Whatever the threads' reads and stores were interleaved with, when a    *)
(* compute phase ends no vertex can be improved by a neighbour.            *)
THEOREM Convergence == Spec => []Converged
BY InductiveInvariant, PTL DEF IInv, RoundsInv

(* No vertex is ever queued twice for one round.                           *)
THEOREM NoDoubleQueueing == Spec => []QueuedOnce
BY InductiveInvariant, PTL DEF IInv, RoundsInv

(* No two threads work on a vertex in one round.                           *)
THEOREM SingleWriter == Spec => []OneWriter
BY InductiveInvariant, PTL DEF IInv, RoundsInv

LEMMA InSmaller ==
    ASSUME NEW S, NEW T, NEW s \in Seq(S), Range(s) \subseteq T
    PROVE  s \in Seq(T)
<1>1. Len(s) \in Nat /\ s \in [1 .. Len(s) -> T]
  BY DEF Range
<1>2. QED
  BY <1>1

(* A queue without repetitions is no longer than the graph has vertices.   *)
LEMMA QueueLength ==
    ASSUME NEW m \in Nat, NEW s \in Seq(0 .. m - 1), IsInjective(s)
    PROVE  Len(s) <= m
<1>1. /\ Len(s) \in Nat
      /\ \E f : f \in Injection(1 .. Len(s), 0 .. m - 1)
  BY DEF Injection
<1>2. IsFiniteSet(0 .. m - 1) /\ Cardinality(0 .. m - 1) = m
  BY FS_Interval
<1>3. Cardinality(1 .. Len(s)) = Len(s)
  <2>1. PICK l \in Nat : l = Len(s)
    BY <1>1
  <2>2. Cardinality(1 .. l) = l
    BY FS_Interval
  <2> QED
    BY <2>1, <2>2
<1>4. Cardinality(1 .. Len(s)) <= Cardinality(0 .. m - 1)
  <2>1. PICK f : f \in Injection(1 .. Len(s), 0 .. m - 1)
    BY <1>1
  <2>2. PICK D, R : D = 1 .. Len(s) /\ R = 0 .. m - 1
    OBVIOUS
  <2>3. f \in Injection(D, R) /\ IsFiniteSet(R)
    BY <1>2, <2>1, <2>2
  <2>4. Cardinality(D) <= Cardinality(R)
    BY <2>3, FS_Injection
  <2> QED
    BY <2>2, <2>4
<1>5. QED
  BY <1>2, <1>3, <1>4

(* The arrays of the sliding queue, which have num_nodes entries, hold     *)
(* every queue.                                                            *)
THEOREM NoOverflow == Spec => []QueueFits
<1>1. IInv => QueueFits
  <2> SUFFICES ASSUME IInv PROVE QueueFits
    OBVIOUS
  <2>1. num_nodes \in Nat
    BY DEF IInv, RoundsInv, TypeOK
  <2>2. Range(next) \subseteq Known /\ Range(curr) \subseteq Known
    BY DEF IInv, RoundsInv, VisitedQueued, WorkKnown
  <2>3. next \in Seq(0 .. num_nodes - 1) /\ curr \in Seq(0 .. num_nodes - 1)
    BY <2>2, InSmaller DEF IInv, RoundsInv, TypeOK, Known
  <2>4. IsInjective(next) /\ IsInjective(curr)
    BY DEF IInv, RoundsInv, QueuedOnce
  <2>5. QED
    BY <2>1, <2>3, <2>4, QueueLength DEF QueueFits
<1>2. QED
  BY <1>1, InductiveInvariant, PTL

(* A vertex's value never gets worse.                                      *)
THEOREM Improvement == Spec => OnlyImproves
<1> DEFINE Improves == \A n \in NodeID : \/ property'[n] = property[n]
                                         \/ property[n] = Uninit
                                         \/ Better(alg, property'[n], property[n])
<1>1. IInv /\ [Next]_vars => [Improves]_vars
  <2> SUFFICES ASSUME IInv, Next PROVE Improves \/ UNCHANGED vars
    OBVIOUS
  <2>1. CASE NewBatch \/ Slide \/ End \/ Finished
    BY <2>1 DEF NewBatch, Update, Slide, End, Finished, vars
  <2>2. CASE Begin
    BY <2>2 DEF Begin, StartValues
  <2>3. ASSUME NEW t \in Threads, Store(t)  PROVE Improves
    <3>1. property[job[t].n] = job[t].old
      BY <2>3 DEF Store, IInv, RoundsInv, OneWriter
    <3>2. QED
      BY <2>3, <3>1 DEF Store, IInv, RoundsInv, TypeOK
  <2>4. ASSUME NEW t \in Threads, Worker(t)  PROVE Improves
    BY <2>3, <2>4 DEF Worker, Take, Pull, Push, Pushed, Flush
  <2>5. QED
    BY <2>1, <2>2, <2>4 DEF Next
<1>2. QED
  BY <1>1, InductiveInvariant, PTL DEF OnlyImproves, Spec

-----------------------------------------------------------------------------
(* Induction on natural numbers, for a set instead of a predicate.         *)
Less == {p \in Nat \X Nat : p[1] < p[2]}

LEMMA LeastNatural ==
    ASSUME NEW S \in SUBSET Nat, S # {}
    PROVE  \E m \in S : \A n \in S : m <= n
<1>1. IsWellFoundedOn(Less, Nat)
  BY Zenon, NatLessThanWellFounded DEF OpToRel, Less
<1>2. PICK m \in S : \A n \in S : <<n, m>> \notin Less
  BY <1>1, WFMin
<1>3. \A n \in S : n \in Nat /\ m \in Nat /\ ~(n < m)
  BY <1>2 DEF Less
<1> QED
  BY <1>3

LEMMA SetInduction ==
    ASSUME NEW S, 0 \in S, \A n \in Nat : n \in S => n + 1 \in S
    PROVE  Nat \subseteq S
<1> DEFINE T == Nat \ S
<1>1. SUFFICES ASSUME T # {} PROVE FALSE
  OBVIOUS
<1>2. PICK m \in T : \A n \in T : m <= n
  BY <1>1, LeastNatural
<1>3. m # 0 /\ m - 1 \in Nat /\ m = (m - 1) + 1
  OBVIOUS
<1>4. m - 1 \notin T
  BY <1>2, <1>3
<1> QED
  BY <1>3, <1>4

(* A step repeated m times.                                                *)
IsRun(f, D, first, step, m) ==
    f \in [0 .. m -> D] /\ f[0] = first /\ \A k \in 0 .. m - 1 : f[k + 1] = step[f[k]]

LEMMA RunExists ==
    ASSUME NEW D, NEW first \in D, NEW step \in [D -> D], NEW m \in Nat
    PROVE  \E f : IsRun(f, D, first, step, m)
<1> DEFINE P(k) == \E f : IsRun(f, D, first, step, k)
           S == {k \in Nat : P(k)}
<1>1. 0 \in S
  <2> DEFINE g == [k \in 0 .. 0 |-> first]
  <2>1. g \in [0 .. 0 -> D] /\ g[0] = first
    OBVIOUS
  <2> HIDE DEF g
  <2>2. IsRun(g, D, first, step, 0)
    BY <2>1 DEF IsRun
  <2> QED
    BY <2>2
<1>2. ASSUME NEW k \in Nat, k \in S PROVE k + 1 \in S
  <2>1. PICK f : IsRun(f, D, first, step, k)
    BY <1>2
  <2> DEFINE g == [j \in 0 .. k + 1 |-> IF j <= k THEN f[j] ELSE step[f[k]]]
  <2>2. g \in [0 .. k + 1 -> D] /\ g[0] = first
    BY <2>1 DEF IsRun
  <2>3. \A j \in 0 .. (k + 1) - 1 : g[j + 1] = step[g[j]]
    BY <2>1 DEF IsRun
  <2> HIDE DEF g
  <2>4. IsRun(g, D, first, step, k + 1)
    BY <2>2, <2>3 DEF IsRun
  <2> QED
    BY <2>4
<1>3. Nat \subseteq S
  <2> HIDE DEF S
  <2> QED
    BY <1>1, <1>2, SetInduction
<1> HIDE DEF P
<1>4. P(m)
  BY <1>3
<1> QED
  BY <1>4 DEF P

-----------------------------------------------------------------------------
(* The from-scratch computation.                                           *)

LEMMA NodesFinite == IsFiniteSet(NodeID) /\ Cardinality(NodeID) = NumNodes
BY FS_Interval DEF NodeID

LEMMA PulledTyped ==
    ASSUME TypeOK, NEW n
    PROVE  PullFrom(n) \subseteq NodeID \X Weights(alg)
<1>1. \A p \in DOMAIN edges : p[1] \in NodeID /\ p[2] \in NodeID /\ edges[p] \in Weights(alg)
  BY DEF TypeOK, NodeID
<1> QED
  BY <1>1 DEF PullFrom, InTo, OutOf

LEMMA PulledFinite ==
    ASSUME TypeOK, NEW n
    PROVE  IsFiniteSet(PullFrom(n))
<1>1. DOMAIN edges \subseteq NodeID \X NodeID
  BY DEF TypeOK, NodeID
<1>2. IsFiniteSet(NodeID \X NodeID)
  BY NodesFinite, FS_Product
<1>3. IsFiniteSet(InTo(n)) /\ IsFiniteSet(OutOf(n))
  BY <1>1, <1>2, FS_Subset DEF InTo, OutOf
<1>4. IsFiniteSet({<<p[1], edges[p]>> : p \in InTo(n)})
  <2> DEFINE f == [p \in InTo(n) |-> <<p[1], edges[p]>>]
             T == {<<p[1], edges[p]>> : p \in InTo(n)}
  <2>1. f \in Surjection(InTo(n), T)
    BY DEF Surjection
  <2> HIDE DEF f, T
  <2>2. IsFiniteSet(T)
    BY <1>3, <2>1, FS_Surjection
  <2> QED
    BY <2>2 DEF T
<1>5. IsFiniteSet({<<p[2], edges[p]>> : p \in OutOf(n)})
  <2> DEFINE f == [p \in OutOf(n) |-> <<p[2], edges[p]>>]
             T == {<<p[2], edges[p]>> : p \in OutOf(n)}
  <2>1. f \in Surjection(OutOf(n), T)
    BY DEF Surjection
  <2> HIDE DEF f, T
  <2>2. IsFiniteSet(T)
    BY <1>3, <2>1, FS_Surjection
  <2> QED
    BY <2>2 DEF T
<1> QED
  BY <1>4, <1>5, FS_Union, FS_EmptySet DEF PullFrom

(* Of finitely many things there is one whose value nobody's is better than. *)
LEMMA BestAmong ==
    ASSUME NEW S, IsFiniteSet(S), S # {}, NEW f \in [S -> Value(alg)]
    PROVE  \E s \in S : \A r \in S : ~Better(alg, f[r], f[s])
<1> DEFINE Has(T) == \E s \in T : \A r \in T : ~Better(alg, f[r], f[s])
           P == {k \in Nat : \A T \in SUBSET S : Cardinality(T) = k + 1 => Has(T)}
<1>0. \A T \in SUBSET S : IsFiniteSet(T) /\ Cardinality(T) \in Nat
  BY FS_Subset, FS_CardinalityType
<1>1. 0 \in P
  <2> SUFFICES ASSUME NEW T \in SUBSET S, Cardinality(T) = 1 PROVE Has(T)
    OBVIOUS
  <2>1. PICK s : T = {s}
    BY <1>0, FS_Singleton
  <2> QED
    BY <2>1, BetterLaws
<1>2. ASSUME NEW k \in Nat, k \in P PROVE k + 1 \in P
  <2> SUFFICES ASSUME NEW T \in SUBSET S, Cardinality(T) = (k + 1) + 1 PROVE Has(T)
    OBVIOUS
  <2>1. T # {}
    BY FS_EmptySet
  <2>2. PICK s \in T : TRUE
    BY <2>1
  <2>3. Cardinality(T \ {s}) = k + 1
    BY <1>0, <2>2, FS_RemoveElement
  <2>4. PICK q \in T \ {s} : \A r \in T \ {s} : ~Better(alg, f[r], f[q])
    BY <1>2, <2>3
  <2>5. \A r \in T : f[r] \in Value(alg)
    OBVIOUS
  <2>6. CASE Better(alg, f[s], f[q])
    <3>1. \A r \in T : ~Better(alg, f[r], f[s])
      BY <2>4, <2>5, <2>6, BetterLaws
    <3> QED
      BY <2>2, <3>1
  <2>7. CASE ~Better(alg, f[s], f[q])
    BY <2>4, <2>7
  <2> QED
    BY <2>6, <2>7
<1>3. Nat \subseteq P
  <2> HIDE DEF P
  <2> QED
    BY <1>1, <1>2, SetInduction
<1>4. PICK k \in Nat : Cardinality(S) = k + 1
  <2>1. Cardinality(S) \in Nat /\ Cardinality(S) # 0
    BY <1>0, FS_EmptySet
  <2> QED
    BY <2>1
<1> QED
  BY <1>3, <1>4

(* The best of a value and the offers over finitely many edges.            *)
LEMMA BestOfOffers ==
    ASSUME NEW x \in Value(alg), NEW E, IsFiniteSet(E), NEW f \in [E -> Value(alg)],
           NEW T, \A y : y \in T <=> y = x \/ \E e \in E : y = f[e]
    PROVE  /\ Best(T) \in T /\ Best(T) \in Value(alg)
           /\ \A y \in T : ~Better(alg, y, Best(T))
<1>1. \E z \in T : \A y \in T : ~Better(alg, y, z)
  <2>1. CASE E = {}
    BY <2>1, BetterLaws
  <2>2. CASE E # {}
    <3>1. PICK s \in E : \A r \in E : ~Better(alg, f[r], f[s])
      BY <2>2, BestAmong
    <3>2. CASE Better(alg, f[s], x)
      <4>1. \A y \in T : ~Better(alg, y, f[s])
        BY <3>1, <3>2, BetterLaws
      <4> QED
        BY <4>1
    <3>3. CASE ~Better(alg, f[s], x)
      <4>1. \A r \in E : ~Better(alg, f[r], x)
        BY <3>1, <3>3, NotBetterTrans
      <4>2. \A y \in T : ~Better(alg, y, x)
        BY <4>1, BetterLaws
      <4> QED
        BY <4>2
    <3> QED
      BY <3>2, <3>3
  <2> QED
    BY <2>1, <2>2
<1>2. T \subseteq Value(alg)
  OBVIOUS
<1>3. Best(T) \in T /\ \A y \in T : ~Better(alg, y, Best(T))
  BY <1>1 DEF Best
<1> QED
  BY <1>2, <1>3

(* A round of it.                                                          *)
Candidates(g, n) == {g[n]} \cup {Extend(alg, g[e[1]], e[2]) : e \in PullFrom(n)}
Offering(g) == [n \in NodeID |-> Best(Candidates(g, n))]
Starting == [n \in NodeID |-> Start(alg, n)]

LEMMA BestCandidate ==
    ASSUME TypeOK, NEW g \in [NodeID -> Value(alg)], NEW n \in NodeID
    PROVE  /\ Best(Candidates(g, n)) \in Value(alg)
           /\ Best(Candidates(g, n)) \in Candidates(g, n)
           /\ \A y \in Candidates(g, n) : ~Better(alg, y, Best(Candidates(g, n)))
<1> DEFINE f == [e \in PullFrom(n) |-> Extend(alg, g[e[1]], e[2])]
<1>1. f \in [PullFrom(n) -> Value(alg)]
  BY PulledTyped, ValueLaws
<1>2. Candidates(g, n) = {g[n]} \cup {f[e] : e \in PullFrom(n)}
  BY DEF Candidates
<1>3. g[n] \in Value(alg) /\ IsFiniteSet(PullFrom(n))
  BY PulledFinite
<1> HIDE DEF f
<1>4. PICK x, E, T : x = g[n] /\ E = PullFrom(n) /\ T = Candidates(g, n)
  OBVIOUS
<1>5. /\ x \in Value(alg) /\ IsFiniteSet(E) /\ f \in [E -> Value(alg)]
      /\ \A y : y \in T <=> y = x \/ \E e \in E : y = f[e]
  BY <1>1, <1>2, <1>3, <1>4
<1>6. Best(T) \in T /\ Best(T) \in Value(alg) /\ \A y \in T : ~Better(alg, y, Best(T))
  BY SMTT(60), <1>5, BestOfOffers
<1> QED
  BY <1>4, <1>6

LEMMA ScratchInRounds ==
    ASSUME TypeOK
    PROVE  /\ \A k \in 0 .. NumNodes : Scratch[k] \in [NodeID -> Value(alg)]
           /\ Scratch[0] = Starting
           /\ \A k \in 0 .. NumNodes - 1 : Scratch[k + 1] = Offering(Scratch[k])
<1> DEFINE D == [NodeID -> Value(alg)]
           step == [g \in D |-> Offering(g)]
<1>1. Starting \in D
  BY ValueLaws DEF Starting
<1>2. step \in [D -> D]
  BY BestCandidate DEF Offering
<1> HIDE DEF step
<1>3. NumNodes \in Nat
  OBVIOUS
<1>4. PICK f \in [0 .. NumNodes -> D] :
          f[0] = Starting /\ \A k \in 0 .. NumNodes - 1 : f[k + 1] = step[f[k]]
  <2> HIDE DEF D
  <2>1. \E f : IsRun(f, D, Starting, step, NumNodes)
    BY Zenon, <1>1, <1>2, <1>3, RunExists
  <2> QED
    BY <2>1 DEF IsRun
<1>5. \A k \in 0 .. NumNodes - 1 : step[f[k]] = Offering(f[k])
  BY <1>3, <1>4 DEF step
<1>6. \A k \in 0 .. NumNodes : k # 0 => k - 1 \in 0 .. NumNodes - 1 /\ (k - 1) + 1 = k
  BY <1>3
<1>7. f = [k \in 0 .. NumNodes |-> IF k = 0 THEN Starting ELSE Offering(f[k - 1])]
  <2>1. \A k \in 0 .. NumNodes :
            f[k] = IF k = 0 THEN Starting ELSE Offering(f[k - 1])
    <3> HIDE DEF D
    <3> QED
      BY <1>4, <1>5, <1>6
  <2>2. f = [k \in 0 .. NumNodes |-> f[k]]
    BY <1>4
  <2> QED
    BY <2>1, <2>2
<1> DEFINE Body(g, k) ==
              IF k = 0 THEN [n \in NodeID |-> Start(alg, n)]
              ELSE [n \in NodeID |->
                      Best({g[k - 1][n]}
                              \cup {Extend(alg, g[k - 1][e[1]], e[2]) : e \in PullFrom(n)})]
<1>8. ASSUME NEW g, NEW k \in 0 .. NumNodes
      PROVE  Body(g, k) = IF k = 0 THEN Starting ELSE Offering(g[k - 1])
  BY Zenon DEF Starting, Offering, Candidates
<1> HIDE DEF Body
<1>9. Scratch = [k \in 0 .. NumNodes |-> Body(Scratch, k)]
  <2>1. Scratch = CHOOSE g : g = [k \in 0 .. NumNodes |-> Body(g, k)]
    BY Zenon DEF Scratch, Body
  <2>2. f = [k \in 0 .. NumNodes |-> Body(f, k)]
    BY <1>7, <1>8
  <2> QED
    BY <2>1, <2>2
<1>10. \A k \in 0 .. NumNodes :
          Scratch[k] = IF k = 0 THEN Starting ELSE Offering(Scratch[k - 1])
  BY <1>8, <1>9
<1>11. /\ 0 \in 0 .. NumNodes
       /\ \A k \in 0 .. NumNodes - 1 : k + 1 \in 0 .. NumNodes /\ k + 1 # 0 /\ (k + 1) - 1 = k
  BY <1>3
<1>12. /\ Scratch[0] = Starting
       /\ \A k \in 0 .. NumNodes - 1 : Scratch[k + 1] = Offering(Scratch[k])
  BY <1>10, <1>11
<1> DEFINE S == {k \in Nat : k <= NumNodes => Scratch[k] \in D}
<1>13. 0 \in S
  BY <1>1, <1>12
<1>14. ASSUME NEW k \in Nat, k \in S PROVE k + 1 \in S
  <2> SUFFICES ASSUME k + 1 <= NumNodes PROVE Scratch[k + 1] \in D
    OBVIOUS
  <2>1. k \in 0 .. NumNodes - 1 /\ k <= NumNodes
    BY <1>3
  <2>2. Scratch[k] \in D /\ Scratch[k + 1] = step[Scratch[k]]
    BY <1>12, <1>14, <2>1 DEF step
  <2> QED
    BY <1>2, <2>2
<1>15. Nat \subseteq S
  <2> HIDE DEF S
  <2> QED
    BY <1>13, <1>14, SetInduction
<1> QED
  BY <1>12, <1>15, <1>3

(* What a round does to a value.                                           *)
LEMMA ScratchRules ==
    ASSUME TypeOK
    PROVE  /\ \A k \in 0 .. NumNodes : \A n \in NodeID : Scratch[k][n] \in Value(alg)
           /\ \A n \in NodeID : Scratch[0][n] = Start(alg, n)
           /\ \A k \in 0 .. NumNodes - 1 : \A n \in NodeID :
                /\ ~Better(alg, Scratch[k][n], Scratch[k + 1][n])
                /\ \A e \in PullFrom(n) :
                      ~Better(alg, Extend(alg, Scratch[k][e[1]], e[2]), Scratch[k + 1][n])
                /\ \/ Scratch[k + 1][n] = Scratch[k][n]
                   \/ \E e \in PullFrom(n) :
                         Scratch[k + 1][n] = Extend(alg, Scratch[k][e[1]], e[2])
<1>1. /\ \A k \in 0 .. NumNodes : \A n \in NodeID : Scratch[k][n] \in Value(alg)
      /\ \A n \in NodeID : Scratch[0][n] = Start(alg, n)
  BY ScratchInRounds DEF Starting
<1>2. ASSUME NEW k \in 0 .. NumNodes - 1, NEW n \in NodeID
      PROVE  /\ ~Better(alg, Scratch[k][n], Scratch[k + 1][n])
             /\ \A e \in PullFrom(n) :
                   ~Better(alg, Extend(alg, Scratch[k][e[1]], e[2]), Scratch[k + 1][n])
             /\ \/ Scratch[k + 1][n] = Scratch[k][n]
                \/ \E e \in PullFrom(n) :
                      Scratch[k + 1][n] = Extend(alg, Scratch[k][e[1]], e[2])
  <2>1. PICK g \in [NodeID -> Value(alg)] : g = Scratch[k]
    BY ScratchInRounds
  <2>2. PICK x : x = Scratch[k + 1][n]
    OBVIOUS
  <2>3. x = Best(Candidates(g, n))
    BY <2>1, <2>2, ScratchInRounds DEF Offering
  <2>4. x \in Candidates(g, n) /\ \A y \in Candidates(g, n) : ~Better(alg, y, x)
    BY <2>3, BestCandidate
  <2> QED
    BY <2>1, <2>2, <2>4 DEF Candidates
<1> QED
  BY <1>1, <1>2

(* Rounds never make a value worse.                                        *)
LEMMA ScratchImproves ==
    ASSUME TypeOK, NEW n \in NodeID, NEW i \in 0 .. NumNodes
    PROVE  \A j \in i .. NumNodes : ~Better(alg, Scratch[i][n], Scratch[j][n])
<1> DEFINE S == {d \in Nat : i + d <= NumNodes => ~Better(alg, Scratch[i][n], Scratch[i + d][n])}
<1>1. 0 \in S
  BY ScratchRules, BetterLaws
<1>2. ASSUME NEW d \in Nat, d \in S PROVE d + 1 \in S
  <2> SUFFICES ASSUME i + (d + 1) <= NumNodes
               PROVE  ~Better(alg, Scratch[i][n], Scratch[i + (d + 1)][n])
    OBVIOUS
  <2>1. PICK j \in Nat : j = i + d
    OBVIOUS
  <2>2. j \in 0 .. NumNodes - 1 /\ j + 1 \in 0 .. NumNodes /\ i + (d + 1) = j + 1
    BY <2>1
  <2>3. ~Better(alg, Scratch[i][n], Scratch[j][n])
    BY <1>2, <2>1, <2>2
  <2>4. ~Better(alg, Scratch[j][n], Scratch[j + 1][n])
    BY <2>2, ScratchRules
  <2>5. /\ Scratch[i][n] \in Value(alg) /\ Scratch[j][n] \in Value(alg)
        /\ Scratch[j + 1][n] \in Value(alg)
    BY <2>2, ScratchRules
  <2>6. ~Better(alg, Scratch[i][n], Scratch[j + 1][n])
    BY <2>3, <2>4, <2>5, NotBetterTrans
  <2> QED
    BY <2>2, <2>6
<1>3. Nat \subseteq S
  <2> HIDE DEF S
  <2> QED
    BY <1>1, <1>2, SetInduction
<1>4. ASSUME NEW j \in i .. NumNodes PROVE ~Better(alg, Scratch[i][n], Scratch[j][n])
  <2>1. PICK d \in Nat : j = i + d
    <3>1. j - i \in Nat /\ j = i + (j - i)
      OBVIOUS
    <3> QED
      BY <3>1
  <2> QED
    BY <1>3, <2>1
<1> QED
  BY <1>4

(* The vertices whose values later rounds leave alone.                     *)
Settled(k) ==
    {n \in NodeID : \A j \in k .. NumNodes : Scratch[j][n] = Scratch[k][n]}

(* As in Dijkstra's algorithm: what vertices outside V cannot get from     *)
(* their start or over an edge from V they never get.                      *)
LEMMA BoundKept ==
    ASSUME TypeOK, NEW k \in 0 .. NumNodes, NEW V \in SUBSET Settled(k), NEW b \in Value(alg),
           \A n \in NodeID \ V : ~Better(alg, Start(alg, n), b),
           \A n \in NodeID \ V : \A e \in PullFrom(n) :
               e[1] \in V => ~Better(alg, Extend(alg, Scratch[k][e[1]], e[2]), b)
    PROVE  \A j \in 0 .. NumNodes : \A n \in NodeID \ V : ~Better(alg, Scratch[j][n], b)
<1> DEFINE S == {j \in Nat : j <= NumNodes => \A n \in NodeID \ V : ~Better(alg, Scratch[j][n], b)}
<1>1. 0 \in S
  BY ScratchRules
<1>2. ASSUME NEW j \in Nat, j \in S PROVE j + 1 \in S
  <2> SUFFICES ASSUME j + 1 <= NumNodes, NEW n \in NodeID \ V
               PROVE  ~Better(alg, Scratch[j + 1][n], b)
    OBVIOUS
  <2>1. j \in 0 .. NumNodes - 1 /\ j \in 0 .. NumNodes /\ j + 1 \in 0 .. NumNodes
    OBVIOUS
  <2>2. CASE Scratch[j + 1][n] = Scratch[j][n]
    BY <1>2, <2>1, <2>2
  <2>3. ASSUME NEW e \in PullFrom(n), Scratch[j + 1][n] = Extend(alg, Scratch[j][e[1]], e[2])
        PROVE  ~Better(alg, Scratch[j + 1][n], b)
    <3>1. PICK u \in NodeID, w \in Weights(alg) : e[1] = u /\ e[2] = w
      BY PulledTyped
    <3>2. PICK x \in Value(alg) : x = Scratch[j][u]
      BY <2>1, ScratchRules
    <3>3. Extend(alg, x, w) \in Value(alg)
      BY ValueLaws
    <3>4. CASE u \in V
      <4>1. PICK y \in Value(alg) : y = Scratch[k][u]
        BY ScratchRules
      <4>2. ~Better(alg, x, y)
        <5>1. CASE j <= k
          BY <2>1, <3>2, <4>1, <5>1, ScratchImproves
        <5>2. CASE k <= j
          BY <2>1, <3>2, <3>4, <4>1, <5>2, BetterLaws DEF Settled
        <5> QED
          BY <5>1, <5>2
      <4>3. ~Better(alg, Extend(alg, x, w), Extend(alg, y, w)) /\ Extend(alg, y, w) \in Value(alg)
        BY <4>2, ExtendLaws, ValueLaws
      <4>4. ~Better(alg, Extend(alg, y, w), b)
        BY <3>1, <3>4, <4>1
      <4> QED
        BY <2>3, <3>1, <3>2, <3>3, <4>3, <4>4, NotBetterTrans
    <3>5. CASE u \notin V
      <4>1. ~Better(alg, x, b)
        BY <1>2, <2>1, <3>2, <3>5
      <4>2. ~Better(alg, Extend(alg, x, w), x)
        BY ExtendLaws
      <4> QED
        BY <2>3, <3>1, <3>2, <3>3, <4>1, <4>2, NotBetterTrans
    <3> QED
      BY <3>4, <3>5
  <2> QED
    BY <2>1, <2>2, <2>3, ScratchRules
<1>3. Nat \subseteq S
  <2> HIDE DEF S
  <2> QED
    BY <1>1, <1>2, SetInduction
<1> QED
  BY <1>3

(* A vertex with the best start keeps it.                                  *)
LEMMA FirstSettled == ASSUME TypeOK PROVE Settled(0) # {}
<1> DEFINE f == [n \in NodeID |-> Start(alg, n)]
<1>1. f \in [NodeID -> Value(alg)] /\ IsFiniteSet(NodeID) /\ 0 \in NodeID
  BY ValueLaws, NodesFinite DEF NodeID
<1>2. PICK s \in NodeID : \A r \in NodeID : ~Better(alg, f[r], f[s])
  <2> HIDE DEF f
  <2> QED
    BY <1>1, BestAmong
<1>3. Start(alg, s) \in Value(alg) /\ \A n \in NodeID : ~Better(alg, Start(alg, n), Start(alg, s))
  BY <1>2, ValueLaws
<1>4. \A j \in 0 .. NumNodes : \A n \in NodeID \ {} : ~Better(alg, Scratch[j][n], Start(alg, s))
  <2>1. PICK b \in Value(alg) : b = Start(alg, s)
    BY <1>3
  <2>2. 0 \in 0 .. NumNodes /\ {} \in SUBSET Settled(0)
    OBVIOUS
  <2>3. \A n \in NodeID \ {} : ~Better(alg, Start(alg, n), b)
    BY <1>3, <2>1
  <2>4. \A j \in 0 .. NumNodes : \A n \in NodeID \ {} : ~Better(alg, Scratch[j][n], b)
    BY <2>2, <2>3, BoundKept
  <2> QED
    BY <2>1, <2>4
<1>5. \A j \in 0 .. NumNodes : Scratch[j][s] = Start(alg, s)
  <2> SUFFICES ASSUME NEW j \in 0 .. NumNodes PROVE Scratch[j][s] = Start(alg, s)
    OBVIOUS
  <2>1. 0 \in 0 .. NumNodes /\ Scratch[0][s] = Start(alg, s) /\ Scratch[j][s] \in Value(alg)
    BY ScratchRules
  <2>2. ~Better(alg, Start(alg, s), Scratch[j][s])
    BY <2>1, ScratchImproves
  <2> QED
    BY <1>3, <1>4, <2>1, <2>2, BetterLaws
<1>6. s \in Settled(0)
  BY <1>5 DEF Settled
<1> QED
  BY <1>6

(* The best of the vertices not settled is settled by the next round.      *)
LEMMA SettledGrow ==
    ASSUME TypeOK, NEW k \in 0 .. NumNodes - 1, Settled(k) # NodeID
    PROVE  \E s \in Settled(k + 1) : s \notin Settled(k)
<1>0. PICK V \in SUBSET NodeID : V = Settled(k)
  BY DEF Settled
<1> DEFINE From(n) == {e \in PullFrom(n) : e[1] \in V}
           Offers(n) == {Start(alg, n)} \cup {Extend(alg, Scratch[k][e[1]], e[2]) : e \in From(n)}
           c == [n \in NodeID \ V |-> Best(Offers(n))]
<1>1. k \in 0 .. NumNodes /\ k + 1 \in 0 .. NumNodes /\ 0 \in 0 .. NumNodes
  OBVIOUS
<1>2. ASSUME NEW n \in NodeID \ V
      PROVE  /\ c[n] \in Value(alg) /\ ~Better(alg, Start(alg, n), c[n])
             /\ \A e \in PullFrom(n) :
                   e[1] \in V => ~Better(alg, Extend(alg, Scratch[k][e[1]], e[2]), c[n])
             /\ \/ c[n] = Start(alg, n)
                \/ \E e \in PullFrom(n) : c[n] = Extend(alg, Scratch[k][e[1]], e[2])
  <2> DEFINE f == [e \in From(n) |-> Extend(alg, Scratch[k][e[1]], e[2])]
  <2>1. f \in [From(n) -> Value(alg)]
    BY <1>1, PulledTyped, ScratchRules, ValueLaws
  <2>2. IsFiniteSet(From(n))
    BY PulledFinite, FS_Subset
  <2>3. PICK x \in Value(alg) : x = Start(alg, n)
    BY ValueLaws
  <2>4. PICK T : T = Offers(n)
    OBVIOUS
  <2>5. \A y : y \in T <=> y = x \/ \E e \in From(n) : y = f[e]
    BY <2>3, <2>4
  <2>6. Best(T) \in T /\ Best(T) \in Value(alg) /\ \A y \in T : ~Better(alg, y, Best(T))
    <3> HIDE DEF f, From
    <3> QED
      BY <2>1, <2>2, <2>5, BestOfOffers
  <2>7. c[n] = Best(T)
    BY <2>4
  <2> HIDE DEF c
  <2> QED
    BY <2>3, <2>4, <2>6, <2>7
<1>3. NodeID \ V # {} /\ IsFiniteSet(NodeID \ V)
  BY <1>0, NodesFinite, FS_Subset
<1>4. c \in [NodeID \ V -> Value(alg)]
  BY <1>2
<1> HIDE DEF c
<1>5. PICK s \in NodeID \ V : \A r \in NodeID \ V : ~Better(alg, c[r], c[s])
  BY <1>3, <1>4, BestAmong
<1>6. PICK b \in Value(alg) : b = c[s]
  BY <1>4, <1>5
<1>7. \A n \in NodeID \ V : ~Better(alg, Start(alg, n), b)
  <2> SUFFICES ASSUME NEW n \in NodeID \ V PROVE ~Better(alg, Start(alg, n), b)
    OBVIOUS
  <2>1. /\ Start(alg, n) \in Value(alg) /\ c[n] \in Value(alg)
        /\ ~Better(alg, Start(alg, n), c[n]) /\ ~Better(alg, c[n], b)
    BY <1>2, <1>5, <1>6, ValueLaws
  <2> QED
    BY <2>1, NotBetterTrans
<1>8. \A n \in NodeID \ V : \A e \in PullFrom(n) :
          e[1] \in V => ~Better(alg, Extend(alg, Scratch[k][e[1]], e[2]), b)
  <2> SUFFICES ASSUME NEW n \in NodeID \ V, NEW e \in PullFrom(n), e[1] \in V
               PROVE  ~Better(alg, Extend(alg, Scratch[k][e[1]], e[2]), b)
    OBVIOUS
  <2>1. PICK y : y = Extend(alg, Scratch[k][e[1]], e[2])
    OBVIOUS
  <2>2. y \in Value(alg)
    BY <1>1, <2>1, PulledTyped, ScratchRules, ValueLaws
  <2>3. c[n] \in Value(alg) /\ ~Better(alg, y, c[n]) /\ ~Better(alg, c[n], b)
    BY <1>2, <1>5, <1>6, <2>1
  <2> QED
    BY <2>1, <2>2, <2>3, NotBetterTrans
<1>9. \A j \in 0 .. NumNodes : \A n \in NodeID \ V : ~Better(alg, Scratch[j][n], b)
  BY <1>0, <1>1, <1>7, <1>8, BoundKept
<1>10. ~Better(alg, b, Scratch[k + 1][s])
  <2>1. CASE b = Start(alg, s)
    BY <1>1, <2>1, ScratchRules, ScratchImproves
  <2>2. ASSUME NEW e \in PullFrom(s), b = Extend(alg, Scratch[k][e[1]], e[2])
        PROVE  ~Better(alg, b, Scratch[k + 1][s])
    BY <2>2, ScratchRules
  <2> QED
    BY <1>2, <1>6, <2>1, <2>2
<1>11. \A j \in k + 1 .. NumNodes : Scratch[j][s] = b
  <2> SUFFICES ASSUME NEW j \in k + 1 .. NumNodes PROVE Scratch[j][s] = b
    OBVIOUS
  <2>1. PICK x \in Value(alg), y \in Value(alg) : x = Scratch[k + 1][s] /\ y = Scratch[j][s]
    BY <1>1, ScratchRules
  <2>2. ~Better(alg, x, y)
    BY <1>1, <2>1, ScratchImproves
  <2>3. ~Better(alg, b, y)
    BY <1>10, <2>1, <2>2, NotBetterTrans
  <2>4. ~Better(alg, y, b)
    BY <1>9, <2>1
  <2> QED
    BY <2>1, <2>3, <2>4, BetterLaws
<1>12. s \in Settled(k + 1)
  BY <1>1, <1>11 DEF Settled
<1> QED
  BY <1>0, <1>5, <1>12

LEMMA SettledStay ==
    ASSUME NEW k \in 0 .. NumNodes - 1
    PROVE  Settled(k) \subseteq Settled(k + 1)
BY DEF Settled

(* As many rounds as there are vertices leave nothing to improve.          *)
LEMMA ScratchClosed ==
    ASSUME TypeOK, NEW n \in NodeID
    PROVE  /\ Scratch[NumNodes][n] \in Value(alg)
           /\ ~Better(alg, Start(alg, n), Scratch[NumNodes][n])
           /\ \A e \in PullFrom(n) :
                 ~Better(alg, Extend(alg, Scratch[NumNodes][e[1]], e[2]), Scratch[NumNodes][n])
<1>1. \A k \in Nat : /\ IsFiniteSet(Settled(k)) /\ Cardinality(Settled(k)) \in Nat
                     /\ Cardinality(Settled(k)) <= NumNodes
                     /\ Cardinality(Settled(k)) = NumNodes => Settled(k) = NodeID
  <2> SUFFICES ASSUME NEW k \in Nat
               PROVE  /\ IsFiniteSet(Settled(k)) /\ Cardinality(Settled(k)) \in Nat
                      /\ Cardinality(Settled(k)) <= NumNodes
                      /\ Cardinality(Settled(k)) = NumNodes => Settled(k) = NodeID
    OBVIOUS
  <2>1. Settled(k) \subseteq NodeID
    BY DEF Settled
  <2> QED
    BY <2>1, NodesFinite, FS_Subset, FS_CardinalityType
<1> DEFINE S == {k \in Nat : k < NumNodes => Cardinality(Settled(k)) >= k + 1}
<1>2. 0 \in S
  <2>1. Cardinality(Settled(0)) # 0
    BY <1>1, FirstSettled, FS_EmptySet
  <2> QED
    BY <1>1, <2>1
<1>3. ASSUME NEW k \in Nat, k \in S PROVE k + 1 \in S
  <2> SUFFICES ASSUME k + 1 < NumNodes PROVE Cardinality(Settled(k + 1)) >= k + 2
    OBVIOUS
  <2>1. k \in 0 .. NumNodes - 1 /\ Cardinality(Settled(k)) >= k + 1
    BY <1>3
  <2>2. Settled(k) \subseteq Settled(k + 1)
    BY <2>1, SettledStay
  <2>3. CASE Settled(k) = NodeID
    <3>1. Settled(k + 1) = NodeID
      BY <2>2, <2>3 DEF Settled
    <3> QED
      BY <3>1, NodesFinite
  <2>4. CASE Settled(k) # NodeID
    <3>1. Settled(k) # Settled(k + 1)
      BY <2>1, <2>4, SettledGrow
    <3>2. /\ Cardinality(Settled(k)) <= Cardinality(Settled(k + 1))
          /\ Cardinality(Settled(k)) # Cardinality(Settled(k + 1))
      BY <1>1, <2>2, <3>1, FS_Subset
    <3> QED
      BY <1>1, <2>1, <3>2
  <2> QED
    BY <2>3, <2>4
<1>4. Nat \subseteq S
  <2> HIDE DEF S
  <2> QED
    BY <1>2, <1>3, SetInduction
<1>5. PICK m \in 0 .. NumNodes - 1 : m + 1 = NumNodes
  <2>1. NumNodes - 1 \in 0 .. NumNodes - 1 /\ (NumNodes - 1) + 1 = NumNodes
    OBVIOUS
  <2> QED
    BY <2>1
<1>6. Settled(m) = NodeID
  BY <1>1, <1>4, <1>5
<1>7. \A u \in NodeID : Scratch[NumNodes][u] = Scratch[m][u]
  BY <1>5, <1>6 DEF Settled
<1>8. Scratch[NumNodes][n] \in Value(alg)
  BY ScratchRules
<1>9. ~Better(alg, Start(alg, n), Scratch[NumNodes][n])
  <2>1. 0 \in 0 .. NumNodes /\ NumNodes \in 0 .. NumNodes
    OBVIOUS
  <2> QED
    BY <2>1, ScratchRules, ScratchImproves
<1>10. ASSUME NEW e \in PullFrom(n)
       PROVE  ~Better(alg, Extend(alg, Scratch[NumNodes][e[1]], e[2]), Scratch[NumNodes][n])
  <2>1. e[1] \in NodeID
    BY PulledTyped
  <2>2. ~Better(alg, Extend(alg, Scratch[m][e[1]], e[2]), Scratch[m + 1][n])
    BY ScratchRules
  <2> QED
    BY <1>5, <1>7, <2>1, <2>2
<1> QED
  BY <1>8, <1>9, <1>10

-----------------------------------------------------------------------------
(* Values stay between the vertex' start and what the computation from     *)
(* scratch comes to.                                                       *)
LEMMA SameScratch == ASSUME UNCHANGED graph PROVE Scratch' = Scratch
BY DEF Scratch, Best, graph, PullFrom, InTo, OutOf

(* An offer made from a value in bounds is in bounds.                      *)
LEMMA OfferInBounds ==
    ASSUME TypeOK, NEW n \in NodeID, NEW e \in PullFrom(n), NEW x \in Value(alg),
           ~Better(alg, x, Scratch[NumNodes][e[1]])
    PROVE  /\ Extend(alg, x, e[2]) \in Value(alg)
           /\ ~Better(alg, Extend(alg, x, e[2]), Scratch[NumNodes][n])
<1>1. PICK u \in NodeID, w \in Weights(alg) : e[1] = u /\ e[2] = w
  BY PulledTyped
<1>2. PICK y \in Value(alg), z \in Value(alg) : y = Scratch[NumNodes][u] /\ z = Scratch[NumNodes][n]
  BY ScratchClosed
<1>3. /\ ~Better(alg, Extend(alg, x, w), Extend(alg, y, w))
      /\ Extend(alg, x, w) \in Value(alg) /\ Extend(alg, y, w) \in Value(alg)
  BY <1>1, <1>2, ExtendLaws, ValueLaws
<1>4. ~Better(alg, Extend(alg, y, w), z)
  BY <1>1, <1>2, ScratchClosed
<1> QED
  BY <1>1, <1>2, <1>3, <1>4, NotBetterTrans

LEMMA BoundsKept ==
    ASSUME InBounds, UNCHANGED graph, UNCHANGED property,
           \A t \in Threads : pc'[t] = "pull" =>
               /\ pc[t] = "pull" /\ job'[t].n = job[t].n
               /\ job'[t].left = job[t].left /\ job'[t].acc = job[t].acc
    PROVE  InBounds'
BY SameScratch, SameGraph DEF InBounds, graph

LEMMA BoundsInit == NothingYet => InBounds
BY DEF NothingYet, InBounds

LEMMA BoundsTake ==
    ASSUME RoundsInv, InBounds, NEW t \in Threads, Take(t)
    PROVE  InBounds'
<1>1. UNCHANGED graph /\ UNCHANGED <<alg, property, phase>>
  BY DEF Take, graph
<1>2. PICK i \in todo :
          job' = [job EXCEPT ![t] =
                     [n |-> curr[i], old |-> property[curr[i]],
                      acc |-> Base(alg, curr[i], property[curr[i]]),
                      left |-> PullFrom(curr[i]), push |-> {}]]
  BY DEF Take
<1>3. pc[t] = "take" /\ pc' = [pc EXCEPT ![t] = "pull"]
  BY DEF Take
<1> DEFINE n == curr[i]
<1>4. n \in NodeID /\ property[n] \in Value(alg)
  <2>1. phase \in {"first", "rounds"}
    BY <1>3 DEF AtRest, RoundsInv, TypeOK
  <2>2. n \in Known
    BY <1>2 DEF WorkKnown, RoundsInv, TypeOK, Range
  <2> QED
    BY <2>1, <2>2, KnownNodes DEF RoundsInv, Valued
<1>5. ~Better(alg, Base(alg, n, property[n]), Scratch[NumNodes][n])
  <2>1. PICK x \in Value(alg), y \in Value(alg) : x = property[n] /\ y = Scratch[NumNodes][n]
    BY <1>4, ScratchClosed DEF RoundsInv
  <2>2. ~Better(alg, x, y)
    BY <1>4, <2>1 DEF InBounds
  <2>3. Base(alg, n, x) \in Value(alg) /\ ~Better(alg, Base(alg, n, x), x)
    BY <1>4, ValueLaws
  <2>4. ~Better(alg, Base(alg, n, x), y)
    BY <2>2, <2>3, NotBetterTrans
  <2> QED
    BY <2>1, <2>4
<1>6. \A u \in Threads \ {t} : pc'[u] = pc[u] /\ job'[u] = job[u]
  BY <1>2, <1>3 DEF RoundsInv, TypeOK
<1>7. /\ job'[t].n = n /\ job'[t].acc = Base(alg, n, property[n]) /\ job'[t].left = PullFrom(n)
  BY <1>2 DEF RoundsInv, TypeOK
<1>8. Scratch' = Scratch /\ \A m : PullFrom(m)' = PullFrom(m)
  BY <1>1, SameScratch, SameGraph
<1>9. \A m \in NodeID : property'[m] # Uninit =>
          /\ ~Better(alg, property'[m], Scratch'[NumNodes][m])
          /\ ~Better(alg, Start(alg, m), property'[m])
  BY <1>1, <1>8 DEF InBounds
<1>10. ASSUME NEW u \in Threads, pc'[u] = "pull"
       PROVE  /\ job'[u].left \subseteq PullFrom(job'[u].n)
              /\ ~Better(alg, job'[u].acc, Scratch'[NumNodes][job'[u].n])
  <2>1. CASE u = t
    BY <1>5, <1>7, <1>8, <2>1
  <2>2. CASE u # t
    BY <1>6, <1>8, <1>10, <2>2 DEF InBounds
  <2> QED
    BY <2>1, <2>2
<1> QED
  BY <1>1, <1>8, <1>9, <1>10 DEF InBounds

LEMMA BoundsPull ==
    ASSUME RoundsInv, InBounds, NEW t \in Threads, Pull(t)
    PROVE  InBounds'
<1>1. UNCHANGED graph /\ UNCHANGED <<alg, property, phase, pc>> /\ pc[t] = "pull"
  BY DEF Pull, graph
<1>2. PICK e \in job[t].left :
          job' = [job EXCEPT
                     ![t].left = @ \ {e},
                     ![t].acc = IF Better(alg, Extend(alg, property[e[1]], e[2]), @)
                                THEN Extend(alg, property[e[1]], e[2]) ELSE @]
  BY DEF Pull
<1> DEFINE n == job[t].n
           offer == Extend(alg, property[e[1]], e[2])
<1>3. phase \in {"first", "rounds"}
  BY <1>1 DEF AtRest, RoundsInv, TypeOK
<1>4. n \in NodeID /\ e \in PullFrom(n) /\ job[t] \in Job
  BY <1>1, <1>2 DEF InBounds, RoundsInv, TypeOK, Job
<1>5. e[1] \in NodeID /\ property[e[1]] \in Value(alg)
  <2>1. e[1] \in Known
    BY <1>1, <1>2 DEF RoundsInv, WorkKnown, Busy
  <2> QED
    BY <1>3, <2>1, KnownNodes DEF RoundsInv, Valued
<1>6. ~Better(alg, offer, Scratch[NumNodes][n])
  <2>1. property[e[1]] # Uninit
    BY <1>5
  <2>2. ~Better(alg, property[e[1]], Scratch[NumNodes][e[1]])
    BY <1>5, <2>1 DEF InBounds
  <2> QED
    BY <1>4, <1>5, <2>2, OfferInBounds DEF RoundsInv
<1>7. \A u \in Threads \ {t} : job'[u] = job[u]
  BY <1>2 DEF RoundsInv, TypeOK
<1>8. /\ job'[t].n = n /\ job'[t].left \subseteq job[t].left
      /\ job'[t].acc = job[t].acc \/ job'[t].acc = offer
  <2>1. job'[t] = [job[t] EXCEPT !.left = @ \ {e},
                                 !.acc = IF Better(alg, offer, @) THEN offer ELSE @]
    BY <1>2 DEF RoundsInv, TypeOK
  <2> QED
    BY <1>4, <2>1 DEF Job
<1>9. Scratch' = Scratch /\ \A m : PullFrom(m)' = PullFrom(m)
  BY <1>1, SameScratch, SameGraph
<1>10. \A m \in NodeID : property'[m] # Uninit =>
          /\ ~Better(alg, property'[m], Scratch'[NumNodes][m])
          /\ ~Better(alg, Start(alg, m), property'[m])
  BY <1>1, <1>9 DEF InBounds
<1>11. ASSUME NEW u \in Threads, pc'[u] = "pull"
       PROVE  /\ job'[u].left \subseteq PullFrom(job'[u].n)
              /\ ~Better(alg, job'[u].acc, Scratch'[NumNodes][job'[u].n])
  <2>1. CASE u = t
    BY <1>1, <1>6, <1>8, <1>9, <2>1 DEF InBounds
  <2>2. CASE u # t
    BY <1>1, <1>7, <1>9, <1>11, <2>2 DEF InBounds
  <2> QED
    BY <2>1, <2>2
<1> QED
  BY <1>1, <1>9, <1>10, <1>11 DEF InBounds

LEMMA BoundsStore ==
    ASSUME RoundsInv, InBounds, NEW t \in Threads, Store(t)
    PROVE  InBounds'
<1> DEFINE n == job[t].n
           acc == job[t].acc
<1>1. /\ UNCHANGED graph /\ alg' = alg /\ pc[t] = "pull"
      /\ property' = IF Better(alg, acc, job[t].old)
                     THEN [property EXCEPT ![n] = acc] ELSE property
      /\ \/ /\ job' = [job EXCEPT ![t].push = PushTo(n)]
            /\ pc' = [pc EXCEPT ![t] = "push"]
         \/ job' = job /\ pc' = [pc EXCEPT ![t] = "take"]
  BY DEF Store, graph
<1>2. job[t] \in Job /\ property[n] = job[t].old
  BY <1>1 DEF RoundsInv, TypeOK, OneWriter
<1>3. n \in NodeID /\ acc \in Value(alg) /\ property[n] \in Value(alg)
  BY <1>2 DEF Job
<1>4. Scratch' = Scratch /\ \A m : PullFrom(m)' = PullFrom(m)
  BY <1>1, SameScratch, SameGraph
<1>5. ASSUME NEW m \in NodeID, property'[m] # Uninit
      PROVE  /\ ~Better(alg, property'[m], Scratch[NumNodes][m])
             /\ ~Better(alg, Start(alg, m), property'[m])
  <2>1. CASE property'[m] = property[m]
    BY <1>5, <2>1 DEF InBounds
  <2>2. CASE property'[m] # property[m]
    <3>1. m = n /\ property'[m] = acc /\ Better(alg, acc, property[n])
      BY <1>1, <1>2, <1>3, <2>2 DEF RoundsInv, TypeOK
    <3>2. ~Better(alg, acc, Scratch[NumNodes][n])
      BY <1>1 DEF InBounds
    <3>3. property[n] # Uninit
      BY <1>3
    <3>4. ~Better(alg, Start(alg, n), property[n]) /\ Start(alg, n) \in Value(alg)
      BY <1>3, <3>3, ValueLaws DEF InBounds
    <3>5. ~Better(alg, Start(alg, n), acc)
      BY <1>3, <3>1, <3>4, BetterLaws
    <3> QED
      BY <3>1, <3>2, <3>5
  <2> QED
    BY <2>1, <2>2
<1>6. ASSUME NEW u \in Threads, pc'[u] = "pull"
      PROVE  /\ job'[u].left \subseteq PullFrom(job'[u].n)
             /\ ~Better(alg, job'[u].acc, Scratch'[NumNodes][job'[u].n])
  <2>1. u # t /\ pc'[u] = pc[u] /\ job'[u] = job[u]
    BY <1>1, <1>6 DEF RoundsInv, TypeOK
  <2> QED
    BY <1>4, <1>6, <2>1 DEF InBounds
<1> QED
  BY <1>1, <1>4, <1>5, <1>6 DEF InBounds

LEMMA BoundsWorker ==
    ASSUME RoundsInv, InBounds, NEW t \in Threads, Worker(t)
    PROVE  InBounds'
<1>1. CASE Push(t)
  <2>1. /\ UNCHANGED graph /\ UNCHANGED <<alg, property, pc>> /\ pc[t] = "push"
        /\ \E v \in job[t].push : job' = [job EXCEPT ![t].push = @ \ {v}]
    BY <1>1 DEF Push, graph
  <2>2. \A u \in Threads : pc'[u] = "pull" =>
            /\ pc[u] = "pull" /\ job'[u].n = job[u].n
            /\ job'[u].left = job[u].left /\ job'[u].acc = job[u].acc
    BY <2>1 DEF RoundsInv, TypeOK
  <2> QED
    BY <2>1, <2>2, BoundsKept
<1>2. CASE Pushed(t) \/ Flush(t)
  <2>1. /\ UNCHANGED graph /\ UNCHANGED <<alg, property, job>>
        /\ pc' = [pc EXCEPT ![t] = "take"] \/ pc' = [pc EXCEPT ![t] = "flushed"]
    BY <1>2 DEF Pushed, Flush, graph
  <2>2. \A u \in Threads : pc'[u] = "pull" => pc[u] = "pull" /\ job'[u] = job[u]
    BY <2>1 DEF RoundsInv, TypeOK
  <2> QED
    BY <2>1, <2>2, BoundsKept
<1> QED
  BY <1>1, <1>2, BoundsTake, BoundsPull, BoundsStore DEF Worker

(* New vertices start within the bounds.                                   *)
LEMMA BoundsStart ==
    ASSUME TypeOK, InBounds, UNCHANGED graph,
           \A n \in NodeID : property'[n] = property[n] \/ property'[n] = Start(alg, n),
           \A t \in Threads : pc'[t] # "pull"
    PROVE  InBounds'
<1>1. Scratch' = Scratch /\ alg' = alg
  BY SameScratch DEF graph
<1>2. ASSUME NEW n \in NodeID, property'[n] # Uninit
      PROVE  /\ ~Better(alg, property'[n], Scratch[NumNodes][n])
             /\ ~Better(alg, Start(alg, n), property'[n])
  <2>1. CASE property'[n] = property[n]
    BY <1>2, <2>1 DEF InBounds
  <2>2. CASE property'[n] = Start(alg, n)
    BY <2>2, ScratchClosed, ValueLaws, BetterLaws
  <2> QED
    BY <2>1, <2>2
<1> QED
  BY <1>1, <1>2 DEF InBounds

(* What the rounds do, of one state and of the next.                       *)
RoundRules ==
    /\ \A k \in 0 .. NumNodes : \A n \in NodeID : Scratch[k][n] \in Value(alg)
    /\ \A n \in NodeID : Scratch[0][n] = Start(alg, n)
    /\ \A k \in 0 .. NumNodes - 1 : \A n \in NodeID :
         /\ ~Better(alg, Scratch[k][n], Scratch[k + 1][n])
         /\ \A e \in PullFrom(n) :
               ~Better(alg, Extend(alg, Scratch[k][e[1]], e[2]), Scratch[k + 1][n])
         /\ \/ Scratch[k + 1][n] = Scratch[k][n]
            \/ \E e \in PullFrom(n) :
                  Scratch[k + 1][n] = Extend(alg, Scratch[k][e[1]], e[2])

LEMMA RoundRulesHold == TypeOK => RoundRules
BY ScratchRules DEF RoundRules

LEMMA PulledTypedAlways == TypeOK => \A n : PullFrom(n) \subseteq NodeID \X Weights(alg)
BY PulledTyped

(* More edges, and edges of weights the input may change to, take nothing  *)
(* away from the computation from scratch.                                 *)
LEMMA ScratchMonotone ==
    ASSUME TypeOK, TypeOK', alg' = alg, NEW n \in NodeID,
           \A m \in NodeID : \A e \in PullFrom(m) :
               \E v \in Weights(alg) : /\ <<e[1], v>> \in PullFrom(m)'
                                       /\ v = e[2] \/ Admits(alg, e[2], v)
    PROVE  Scratch'[NumNodes][n] \in Value(alg)
           /\ ~Better(alg, Scratch[NumNodes][n], Scratch'[NumNodes][n])
<1>1. RoundRules /\ RoundRules'
  BY RoundRulesHold, PTL
<1>2. \A m : PullFrom(m) \subseteq NodeID \X Weights(alg)
  BY PulledTyped
<1> DEFINE S == {k \in Nat : k <= NumNodes =>
                    \A m \in NodeID : ~Better(alg, Scratch[k][m], Scratch'[k][m])}
<1>3. 0 \in S
  BY <1>1, ValueLaws, BetterLaws DEF RoundRules
<1>4. ASSUME NEW k \in Nat, k \in S PROVE k + 1 \in S
  <2> SUFFICES ASSUME k + 1 <= NumNodes, NEW m \in NodeID
               PROVE  ~Better(alg, Scratch[k + 1][m], Scratch'[k + 1][m])
    OBVIOUS
  <2>1. k \in 0 .. NumNodes - 1 /\ k \in 0 .. NumNodes /\ k + 1 \in 0 .. NumNodes
    OBVIOUS
  <2>2. PICK a \in Value(alg), b \in Value(alg), z \in Value(alg) :
            a = Scratch[k][m] /\ b = Scratch'[k][m] /\ z = Scratch'[k + 1][m]
    BY <1>1, <2>1 DEF RoundRules
  <2>3. ~Better(alg, a, b) /\ ~Better(alg, b, z)
    BY <1>1, <1>4, <2>1, <2>2 DEF RoundRules
  <2>4. CASE Scratch[k + 1][m] = Scratch[k][m]
    BY <2>2, <2>3, <2>4, NotBetterTrans
  <2>5. ASSUME NEW e \in PullFrom(m), Scratch[k + 1][m] = Extend(alg, Scratch[k][e[1]], e[2])
        PROVE  ~Better(alg, Scratch[k + 1][m], Scratch'[k + 1][m])
    <3>1. PICK u \in NodeID, w \in Weights(alg) : e[1] = u /\ e[2] = w
      BY <1>2
    <3>2. PICK v \in Weights(alg) : <<u, v>> \in PullFrom(m)' /\ (v = w \/ Admits(alg, w, v))
      BY <3>1
    <3>3. PICK x \in Value(alg), y \in Value(alg) : x = Scratch[k][u] /\ y = Scratch'[k][u]
      BY <1>1, <2>1 DEF RoundRules
    <3>4. ~Better(alg, x, y)
      BY <1>4, <2>1, <3>3
    <3>5. /\ Extend(alg, x, w) \in Value(alg) /\ Extend(alg, y, w) \in Value(alg)
          /\ Extend(alg, y, v) \in Value(alg)
          /\ ~Better(alg, Extend(alg, x, w), Extend(alg, y, w))
      BY <3>4, ExtendLaws, ValueLaws
    <3>6. ~Better(alg, Extend(alg, y, w), Extend(alg, y, v))
      BY <3>2, <3>5, ExtendLaws, BetterLaws
    <3>7. ~Better(alg, Extend(alg, y, v), z)
      BY <1>1, <2>1, <2>2, <3>2, <3>3 DEF RoundRules
    <3>8. ~Better(alg, Extend(alg, x, w), z)
      BY <3>5, <3>6, <3>7, NotBetterTrans
    <3> QED
      BY <2>2, <2>5, <3>1, <3>3, <3>8
  <2> QED
    BY <1>1, <2>1, <2>4, <2>5 DEF RoundRules
<1>5. Nat \subseteq S
  <2> HIDE DEF S
  <2> QED
    BY <1>3, <1>4, SetInduction
<1> QED
  BY <1>1, <1>5 DEF RoundRules

LEMMA BoundsUpdate ==
    ASSUME RoundsInv, InBounds, NewBatch, Converged \/ Known \subseteq affected
    PROVE  InBounds'
<1>1. PICK pairs \in SUBSET (NodeID \X NodeID) :
          \E w \in [Symmetric(pairs) -> Weights(alg)] : Update(pairs, w)
  BY DEF NewBatch
<1>2. PICK w \in [Symmetric(pairs) -> Weights(alg)] : Update(pairs, w)
  BY <1>1
<1> DEFINE sym == Symmetric(pairs)
<1>3. /\ phase = "idle" /\ UNCHANGED <<alg, property, pc>>
      /\ edges' = [p \in DOMAIN edges \cup sym |-> IF p \in sym THEN w[p] ELSE edges[p]]
      /\ \A p \in sym \cap DOMAIN edges : Admits(alg, edges[p], w[p])
  BY <1>2 DEF Update
<1>4. TypeOK /\ TypeOK'
  BY UpdateInv DEF RoundsInv
<1>5. \A p \in DOMAIN edges :
          /\ p \in DOMAIN edges' /\ edges'[p] \in Weights(alg) /\ edges[p] \in Weights(alg)
          /\ edges'[p] = edges[p] \/ Admits(alg, edges[p], edges'[p])
  BY <1>3, <1>4 DEF TypeOK
<1>6. ASSUME NEW m \in NodeID, NEW e \in PullFrom(m)
      PROVE  \E v \in Weights(alg) : /\ <<e[1], v>> \in PullFrom(m)'
                                     /\ v = e[2] \/ Admits(alg, e[2], v)
  <2>1. CASE \E p \in DOMAIN edges : p[2] = m /\ e = <<p[1], edges[p]>>
    <3>1. PICK p \in DOMAIN edges : p[2] = m /\ e = <<p[1], edges[p]>>
      BY <2>1
    <3>2. <<p[1], edges'[p]>> \in PullFrom(m)'
      BY <1>5, <3>1 DEF PullFrom, InTo
    <3> QED
      BY <1>5, <3>1, <3>2
  <2>2. CASE BothWays(alg) /\ \E p \in DOMAIN edges : p[1] = m /\ e = <<p[2], edges[p]>>
    <3>1. PICK p \in DOMAIN edges : p[1] = m /\ e = <<p[2], edges[p]>>
      BY <2>2
    <3>2. <<p[2], edges'[p]>> \in PullFrom(m)'
      BY <1>3, <1>5, <2>2, <3>1 DEF PullFrom, OutOf
    <3> QED
      BY <1>5, <3>1, <3>2
  <2> QED
    BY <2>1, <2>2 DEF PullFrom, InTo, OutOf
<1>7. ASSUME NEW n \in NodeID, property'[n] # Uninit
      PROVE  /\ ~Better(alg, property'[n], Scratch'[NumNodes][n])
             /\ ~Better(alg, Start(alg, n), property'[n])
  <2>1. PICK x \in Value(alg), y \in Value(alg) : x = property[n] /\ y = Scratch[NumNodes][n]
    BY <1>3, <1>4, <1>7, ScratchClosed DEF TypeOK
  <2>2. ~Better(alg, x, y) /\ ~Better(alg, Start(alg, n), x)
    BY <1>3, <1>7, <2>1 DEF InBounds
  <2>3. Scratch'[NumNodes][n] \in Value(alg) /\ ~Better(alg, y, Scratch'[NumNodes][n])
    BY <1>3, <1>4, <1>6, <2>1, ScratchMonotone
  <2> QED
    BY <1>3, <2>1, <2>2, <2>3, NotBetterTrans
<1>8. \A t \in Threads : pc'[t] # "pull"
  BY <1>3 DEF RoundsInv, AtRest
<1> QED
  BY <1>3, <1>7, <1>8 DEF InBounds

LEMMA BoundsEngine ==
    ASSUME RoundsInv, InBounds, EngineStep
    PROVE  InBounds'
<1>1. CASE Begin \/ BeginAll
  <2>1. /\ UNCHANGED graph /\ pc' = [t \in Threads |-> "take"]
        /\ property' = StartValues \/ property' = StartValuesForAll
    BY <1>1 DEF Begin, BeginAll, BeginRound
  <2>2. /\ \A n \in NodeID : property'[n] = property[n] \/ property'[n] = Start(alg, n)
        /\ \A t \in Threads : pc'[t] # "pull"
    BY <2>1 DEF StartValues, StartValuesForAll
  <2> QED
    BY <2>1, <2>2, BoundsStart DEF RoundsInv
<1>2. CASE Slide
  <2>1. UNCHANGED graph /\ UNCHANGED property /\ pc' = [t \in Threads |-> "take"]
    BY <1>2 DEF Slide, BeginRound
  <2> QED
    BY <2>1, BoundsKept
<1>3. CASE End \/ EndUncleared
  <2>1. UNCHANGED graph /\ UNCHANGED <<property, pc, job>>
    BY <1>3 DEF End, EndUncleared
  <2> QED
    BY <2>1, BoundsKept
<1> QED
  BY <1>1, <1>2, <1>3, BoundsWorker DEF EngineStep

(* No value, stored or in a thread's hands, is better than what a          *)
(* computation from scratch comes to on the graph of the moment.           *)
THEOREM Bounds == Spec => []InBounds
<1>1. Init => InBounds
  BY BoundsInit DEF Init
<1>2. IInv /\ InBounds /\ [Next]_vars => InBounds'
  <2> SUFFICES ASSUME IInv, InBounds, [Next]_vars PROVE InBounds'
    OBVIOUS
  <2>1. CASE NewBatch
    BY <2>1, BoundsUpdate DEF IInv
  <2>2. CASE EngineStep
    BY <2>2, BoundsEngine DEF IInv
  <2>3. CASE UNCHANGED vars
    <3>1. UNCHANGED graph /\ UNCHANGED <<property, pc, job>>
      BY <2>3 DEF vars
    <3> QED
      BY <3>1, BoundsKept
  <2> QED
    BY <2>1, <2>2, <2>3 DEF Next, Finished, EngineStep
<1> QED
  BY <1>1, <1>2, InductiveInvariant, PTL DEF Spec

(* Nothing to improve, from values no worse than the starts: none is worse *)
(* than what the computation from scratch comes to.                        *)
LEMMA NoneWorse ==
    ASSUME RoundsInv, Converged, InBounds, phase = "idle", NEW n \in Known
    PROVE  ~Better(alg, Scratch[NumNodes][n], property[n])
<1>1. Known \subseteq NodeID
  BY KnownNodes DEF RoundsInv
<1>2. \A m \in Known : /\ property[m] \in Value(alg)
                       /\ \A e \in PullFrom(m) : RelaxedFrom(m, e)
  BY DEF RoundsInv, Converged, Known
<1> DEFINE S == {k \in Nat : k <= NumNodes =>
                    \A m \in Known : ~Better(alg, Scratch[k][m], property[m])}
<1>3. 0 \in S
  <2> SUFFICES ASSUME NEW m \in Known PROVE ~Better(alg, Scratch[0][m], property[m])
    OBVIOUS
  <2>1. property[m] # Uninit
    BY <1>2
  <2>2. ~Better(alg, Start(alg, m), property[m])
    BY <1>1, <2>1 DEF InBounds
  <2> QED
    BY <1>1, <2>2, ScratchRules DEF RoundsInv
<1>4. ASSUME NEW k \in Nat, k \in S PROVE k + 1 \in S
  <2> SUFFICES ASSUME k + 1 <= NumNodes, NEW m \in Known
               PROVE  ~Better(alg, Scratch[k + 1][m], property[m])
    OBVIOUS
  <2>1. k \in 0 .. NumNodes - 1 /\ k \in 0 .. NumNodes /\ m \in NodeID
    BY <1>1
  <2>2. CASE Scratch[k + 1][m] = Scratch[k][m]
    BY <1>4, <2>1, <2>2
  <2>3. ASSUME NEW e \in PullFrom(m), Scratch[k + 1][m] = Extend(alg, Scratch[k][e[1]], e[2])
        PROVE  ~Better(alg, Scratch[k + 1][m], property[m])
    <3>1. PICK u \in Known, w \in Weights(alg) : e[1] = u /\ e[2] = w
      BY GraphKnown DEF RoundsInv
    <3>2. PICK x \in Value(alg), y \in Value(alg), z \in Value(alg) :
              x = Scratch[k][u] /\ y = property[u] /\ z = property[m]
      BY <1>1, <1>2, <2>1, ScratchRules DEF RoundsInv
    <3>3. ~Better(alg, x, y)
      BY <1>4, <2>1, <3>2
    <3>4. /\ ~Better(alg, Extend(alg, x, w), Extend(alg, y, w))
          /\ Extend(alg, x, w) \in Value(alg) /\ Extend(alg, y, w) \in Value(alg)
      BY <3>3, ExtendLaws, ValueLaws
    <3>5. ~Better(alg, Extend(alg, y, w), z)
      BY <1>2, <3>1, <3>2 DEF RelaxedFrom
    <3> QED
      BY <2>3, <3>1, <3>2, <3>4, <3>5, NotBetterTrans
  <2> QED
    BY <2>1, <2>2, <2>3, ScratchRules DEF RoundsInv
<1>5. Nat \subseteq S
  <2> HIDE DEF S
  <2> QED
    BY <1>3, <1>4, SetInduction
<1> QED
  BY <1>5

LEMMA ExactAtEnd == RoundsInv /\ Converged /\ InBounds => SameAsFromScratch
<1> SUFFICES ASSUME RoundsInv, Converged, InBounds, phase = "idle", NEW n \in Known
             PROVE  property[n] = Scratch[NumNodes][n]
  BY DEF SameAsFromScratch, Known
<1>1. n \in NodeID /\ property[n] \in Value(alg)
  BY KnownNodes DEF RoundsInv, Converged, Known
<1>2. property[n] # Uninit
  BY <1>1
<1>3. ~Better(alg, property[n], Scratch[NumNodes][n])
  BY <1>1, <1>2 DEF InBounds
<1>4. ~Better(alg, Scratch[NumNodes][n], property[n])
  BY NoneWorse
<1>5. Scratch[NumNodes][n] \in Value(alg)
  BY <1>1, ScratchClosed DEF RoundsInv
<1> QED
  BY <1>1, <1>3, <1>4, <1>5, BetterLaws

(* Whatever the batches were and however the threads were interleaved, the *)
(* incremental computation ends with what the computation from scratch on  *)
(* the current graph comes to.                                             *)
THEOREM Exactness == Spec => []SameAsFromScratch
BY ExactAtEnd, InductiveInvariant, Bounds, PTL DEF IInv

-----------------------------------------------------------------------------
(* The program as performAlg() runs it, batch after batch.                 *)

LEMMA PerformStart == PerformInit => PerformInv
<1> SUFFICES ASSUME PerformInit PROVE PerformInv
  OBVIOUS
<1>1. alg \in Algs /\ alg.source = NoSource /\ NothingYet
  BY DEF PerformInit
<1>2. RoundsInv /\ Converged /\ InBounds
  BY <1>1, NothingYetInv, BoundsInit
<1>3. Sourceless => Skipping
  BY <1>1 DEF NothingYet, Skipping, Known
<1> QED
  BY <1>2, <1>3 DEF PerformInv

(* A batch that is skipped leaves its marks for the first one that is not; *)
(* the source then picked finds no vertex with a value.                    *)
LEMMA PickSourceInv ==
    ASSUME PerformInv, PickSource
    PROVE  PerformInv'
<1>1. /\ RoundsInv /\ InBounds /\ Skipping /\ phase = "updated" /\ alg.name \in Searches
      /\ UNCHANGED <<num_nodes, edges, batches, affected, property, curr, todo, next,
                     visited, lqueue, pc, job>>
  BY DEF PickSource, PerformInv, Sourceless
<1>2. PICK s \in PickNext(num_nodes, out_degree) :
          /\ alg' = [alg EXCEPT !.source = s]
          /\ phase' = IF s = NoSource THEN "idle" ELSE phase
  BY DEF PickSource
<1>3. /\ alg \in Algs /\ alg' \in Algs /\ alg'.source = s
      /\ alg'.name = alg.name /\ alg'.directed = alg.directed
  <2>1. alg \in Algs /\ num_nodes \in 0 .. NumNodes
    BY <1>1 DEF RoundsInv, TypeOK
  <2>2. s \in NodeID \cup {NoSource}
    BY <2>1 DEF PickNext, NodeID
  <2>3. PICK o \in Options, x \in NodeID \cup {NoSource} :
            alg = [name |-> o[1], directed |-> o[2], source |-> x]
    BY <2>1 DEF Algs
  <2>4. alg' = [name |-> o[1], directed |-> o[2], source |-> s]
    BY <1>2, <2>3
  <2> QED
    BY <2>1, <2>2, <2>3, <2>4 DEF Algs
<1>4. Value(alg') = Value(alg) /\ Weights(alg') = Weights(alg) /\ BothWays(alg') = BothWays(alg)
  BY <1>3 DEF Value, Weights, BothWays, For
<1>5. Known' = Known /\ Untaken' = Untaken /\ Job' = Job
  BY <1>1, <1>4 DEF Known, Untaken, Job
<1>6. \A n \in Known : property[n] = Uninit /\ n \in affected
  BY <1>1, KnownNodes DEF Skipping, RoundsInv
<1>7. /\ curr = <<>> /\ next = <<>> /\ visited = {}
      /\ \A t \in Threads : pc[t] = "flushed"
  BY <1>1 DEF RoundsInv, AtRest
<1>8. RoundsInv'
  <2>1. TypeOK'
    BY <1>1, <1>2, <1>3, <1>4, <1>5 DEF RoundsInv, TypeOK
  <2>2. AtRest' /\ FlushedEmpty' /\ OneWriter' /\ AllAccounted'
    BY <1>1, <1>2, <1>7 DEF RoundsInv, AtRest, FlushedEmpty, OneWriter, AllAccounted
  <2>3. QueuedOnce' /\ VisitedQueued'
    BY <1>1, SameQueues DEF RoundsInv
  <2>4. WorkKnown'
    BY <1>1, <1>5, <1>7 DEF RoundsInv, WorkKnown, Busy, Range
  <2>5. Valued' /\ MarkedOrRelaxed'
    BY <1>1, <1>2, <1>5, <1>6 DEF Valued, MarkedOrRelaxed
  <2> QED
    BY <2>1, <2>2, <2>3, <2>4, <2>5 DEF RoundsInv
<1>9. InBounds'
  BY <1>1, <1>7 DEF InBounds, Skipping
<1>10. IF Sourceless' THEN Skipping' ELSE Converged'
  <2>1. Skipping'
    BY <1>1, <1>2, <1>5 DEF Skipping
  <2>2. ~Sourceless' => phase' = "updated"
    BY <1>1, <1>2, <1>3 DEF Sourceless
  <2> QED
    BY <2>1, <2>2 DEF Converged
<1> QED
  BY <1>8, <1>9, <1>10 DEF PerformInv

LEMMA PerformStutter ==
    ASSUME PerformInv, UNCHANGED vars
    PROVE  PerformInv'
<1>1. RoundsInv /\ InBounds /\ IF Sourceless THEN Skipping ELSE Converged
  BY DEF PerformInv
<1>2. RoundsInv' /\ (Converged => Converged')
  BY <1>1, StutterInv
<1>3. InBounds'
  <2>1. UNCHANGED graph /\ UNCHANGED <<property, pc, job>>
    BY DEF vars
  <2> QED
    BY <1>1, <2>1, BoundsKept
<1>4. Sourceless' = Sourceless /\ Skipping' = Skipping
  BY DEF vars, graph, Sourceless, Skipping, Known
<1> QED
  BY <1>1, <1>2, <1>3, <1>4 DEF PerformInv

(* A step of the algorithm, which has its source, or an update.            *)
LEMMA StepInv ==
    ASSUME PerformInv, Step
    PROVE  PerformInv'
<1>1. RoundsInv /\ InBounds /\ IF Sourceless THEN Skipping ELSE Converged
  BY DEF PerformInv
<1>2. NewBatch \/ EngineStep \/ UNCHANGED vars
  BY DEF Step, ScratchNext, Next, Finished, EngineStep
<1>3. CASE NewBatch
  <2>1. Converged \/ Known \subseteq affected
    BY <1>1 DEF Skipping
  <2>2. RoundsInv' /\ Converged' /\ InBounds'
    BY <1>1, <1>3, <2>1, UpdateInv, BoundsUpdate
  <2>3. ASSUME Sourceless PROVE Skipping'
    <3>1. PICK pairs \in SUBSET (NodeID \X NodeID) :
              \E w \in [Symmetric(pairs) -> Weights(alg)] : Update(pairs, w)
      BY <1>3 DEF NewBatch
    <3>2. /\ phase' = "updated" /\ UNCHANGED property
          /\ affected' = affected \cup Endpoints(pairs)
          /\ \E m \in num_nodes .. NumNodes :
                num_nodes .. m - 1 \subseteq Endpoints(pairs) /\ num_nodes' = m
      BY <3>1 DEF Update
    <3>3. num_nodes \in Nat /\ Known \subseteq affected
      BY <1>1, <2>3 DEF RoundsInv, TypeOK, Skipping
    <3>4. Known' \subseteq affected'
      BY <3>2, <3>3 DEF Known
    <3> QED
      BY <1>1, <2>3, <3>2, <3>4 DEF Skipping
  <2>4. Sourceless' = Sourceless
    BY <1>3 DEF NewBatch, Update, Sourceless
  <2> QED
    BY <2>2, <2>3, <2>4 DEF PerformInv
<1>4. CASE EngineStep
  <2>1. ~Sourceless
    <3>1. phase # "idle"
      <4>1. \A t \in Threads : Worker(t) => pc[t] # "flushed"
        BY DEF Worker, Take, Pull, Store, Push, Pushed, Flush
      <4> QED
        BY <1>1, <1>4, <4>1 DEF EngineStep, RoundsInv, AtRest, Begin, BeginAll, Slide,
           End, EndUncleared, RoundOver
    <3> QED
      BY <3>1 DEF Step
  <2>2. RoundsInv' /\ Converged' /\ InBounds'
    BY <1>1, <1>4, EngineStepInv, BoundsEngine
  <2>3. alg' = alg
    BY <1>4 DEF EngineStep, Begin, BeginAll, Slide, End, EndUncleared, Worker,
       Take, Pull, Store, Push, Pushed, Flush, graph
  <2> QED
    BY <2>1, <2>2, <2>3 DEF PerformInv, Sourceless
<1>5. CASE UNCHANGED vars
  BY <1>5, PerformStutter
<1> QED
  BY <1>2, <1>3, <1>4, <1>5

(* PerformInv holds in every state of the program.                         *)
THEOREM PerformInvariance == PerformSpec => []PerformInv
<1>1. PerformInv /\ [PerformNext]_vars => PerformInv'
  BY PickSourceInv, StepInv, PerformStutter DEF PerformNext
<1> QED
  BY <1>1, PerformStart, PTL DEF PerformSpec

(* Whatever algorithm and kind of graph the program is run with, and       *)
(* however many batches it skips for want of a source: after every batch   *)
(* of which it does not, each vertex has the value that a computation from *)
(* scratch on the graph of that moment comes to.                           *)
THEOREM PerformExactness == PerformSpec => []ResultFromScratch
<1>1. PerformInv => ResultFromScratch
  BY ExactAtEnd DEF PerformInv, ResultFromScratch
<1> QED
  BY <1>1, PerformInvariance, PTL
=============================================================================
