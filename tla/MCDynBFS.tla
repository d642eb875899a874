------------------------------ MODULE MCDynBFS ------------------------------
(* TLC instances of DynBFS: the inputs.                                    *)
EXTENDS DynBFS, TLC

(* Two batches of up to two edges each over three vertices, the second     *)
(* with self loops.                                                        *)
Batches(N, K) ==
    {b \in SUBSET ((0 .. N - 1) \X (0 .. N - 1)) : Cardinality(b) \in 1 .. K}
Loopless(b) == \A e \in b : e[1] # e[2]
SmallInputs ==
    {<<b, c>> : b \in {x \in Batches(3, 2) : Loopless(x)}, c \in Batches(3, 2)}

(* A chain that is linked to the source last, so that its end is reached   *)
(* through the queue; two ways to one vertex, linked at once, so that two  *)
(* threads push it in one round.                                           *)
LateInputs == {<<{<<1, 2>>, <<2, 3>>}, {<<0, 1>>}>>,
               <<{<<1, 3>>, <<2, 3>>}, {<<0, 1>>, <<0, 2>>}>>}

(* A chain, then a shortcut to its end together with an edge beyond it.    *)
ShortcutInputs == {<<{<<0, 1>>, <<1, 2>>}, {<<0, 2>>, <<2, 3>>}>>}

AllInputs == SmallInputs \cup LateInputs \cup ShortcutInputs

AllTeams == (SUBSET Threads) \ {{}}

=============================================================================
