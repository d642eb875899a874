----------------------------- MODULE RobinHood ------------------------------
(***************************************************************************)
(* rhh.h: a hash table with open addressing and Robin Hood probing, as the *)
(* degree-aware structure uses it: insert_elem, with the doubling and the  *)
(* tombstones it meets on its way.  (delete_elem and get_elem are called   *)
(* by nobody: a deletion is only ever the mark that darhh.h puts in a slot *)
(* itself.)  A key is a tuple whose first component alone is hashed: that  *)
(* is what EdgeID::operator% does for <<source, destination>>, and a       *)
(* NodeID is the tuple <<node>>.                                           *)
(***************************************************************************)
EXTENDS Integers, FiniteSets, SequencesExt

CONSTANT LoadPercent    \* load_factor, in percent

ASSUME LoadPercentAssumption == LoadPercent \in 10 .. 100

(* An initial capacity: a table is doubled before its last slot is taken,  *)
(* but not before it holds anything.  (2^20 and 2^5 in the code, at 90%.)  *)
IsCapacity(cap) ==
    /\ cap \in Nat
    /\ 100 <= cap * LoadPercent /\ cap * LoadPercent <= 100 * (cap - 1)

Vacant == [vacant |-> TRUE]

(* hash stands for desired_pos(hash): the slot that the element would have *)
(* in an empty table; deleted is the top bit of the same word.             *)
Slot(key, val, hash) ==
    [key |-> key, val |-> val, hash |-> hash, deleted |-> FALSE]

NewTable(cap) ==
    [capacity |-> cap, size |-> 0, arr |-> [i \in 0 .. cap - 1 |-> Vacant]]

Hash(t, key) == key[1] % t.capacity

ProbeDist(t, origin, cursor) ==
    (cursor + t.capacity - origin) % t.capacity

Occupied(t) == {i \in DOMAIN t.arr : t.arr[i] # Vacant}
Live(t) == {i \in Occupied(t) : ~t.arr[i].deleted}

(* How far the element in slot i is from home.                             *)
Displacement(t, i) == ProbeDist(t, t.arr[i].hash, i)

-----------------------------------------------------------------------------
(* insert_elem's loop.  It visits the slots from origin on, d = 0, 1, ...  *)
(* with an element in hand, at first the new one.  In front of an element  *)
(* nearer to its home than d it puts down what it has and goes on with     *)
(* that element; origin stays what it was, so d is compared with the       *)
(* displacement of what is in the slot, whoever is in hand.                *)

At(t, origin, d) == (origin + d) % t.capacity

(* Mutant: linear probing, nobody is displaced.                            *)
RicherNever(t, origin, d) == FALSE

Richer(t, origin, d) ==
    LET i == At(t, origin, d) IN
    t.arr[i] # Vacant /\ d > Displacement(t, i)

(* One lap is enough when there is any room.                               *)
Place(t, key, val) ==
    LET origin == Hash(t, key)
        Steps == 0 .. t.capacity - 1
        slot(d) == t.arr[At(t, origin, d)]
        hand(d) ==
            LET before == {k \in Steps : k < d /\ Richer(t, origin, k)} IN
            IF before = {} THEN Slot(key, val, origin) ELSE slot(Max(before))
        same(d) == slot(d) # Vacant /\ slot(d).key = hand(d).key
        ends(d) ==
            \/ slot(d) = Vacant
            \/ same(d)
            \/ Richer(t, origin, d) /\ slot(d).deleted
        last == Min({d \in Steps : ends(d)})
        steps == {d \in 0 .. last - 1 : Richer(t, origin, d)}
        put(d) == IF d = last /\ same(d)
                  THEN [slot(d) EXCEPT !.val = hand(d).val, !.deleted = FALSE]
                  ELSE hand(d)
        changed == {last} \cup steps
    IN  [t EXCEPT
          !.arr = [i \in DOMAIN t.arr |->
                     IF \E d \in changed : i = At(t, origin, d)
                     THEN put(CHOOSE d \in changed : i = At(t, origin, d))
                     ELSE t.arr[i]],
          !.size = IF same(last) THEN @ ELSE @ + 1]

IsFull(t) == t.size * 100 >= t.capacity * LoadPercent

(* double_capacity: a table of twice the capacity gets the live elements,  *)
(* slot by slot; tombstones are left behind.  The code inserts them with   *)
(* insert_elem, which might double again; with the capacities that         *)
(* IsCapacity allows there are fewer elements than that takes.             *)
Doubled(t) ==
    LET filled[i \in 0 .. t.capacity] ==
            IF i = 0 THEN NewTable(2 * t.capacity)
            ELSE IF i - 1 \in Live(t)
                 THEN Place(filled[i - 1], t.arr[i - 1].key, t.arr[i - 1].val)
                 ELSE filled[i - 1]
    IN  filled[t.capacity]

(* Mutant: nobody looks at the load.                                       *)
InsertElemNoDoubling(t, key, val) == Place(t, key, val)

InsertElem(t, key, val) == Place(IF IsFull(t) THEN Doubled(t) ELSE t, key, val)

-----------------------------------------------------------------------------
(* Vocabulary of the properties.                                           *)

(* Along the table the displacement grows by one from a slot to the next   *)
(* at most, and an element out of its home has a neighbour before it: the  *)
(* elements, tombstones included, are sorted by home, so a search may stop *)
(* at the first one that is nearer to its home than the search is.         *)
SortedByHome(t) ==
    \A i \in Occupied(t) :
        Displacement(t, i) > 0 =>
            LET before == (i + t.capacity - 1) % t.capacity IN
            /\ before \in Occupied(t)
            /\ Displacement(t, before) >= Displacement(t, i) - 1

NoDuplicateKeys(t) ==
    \A i, j \in Live(t) : t.arr[i].key = t.arr[j].key => i = j

HasRoom(t) == Occupied(t) # DOMAIN t.arr
=============================================================================
