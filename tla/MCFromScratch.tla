--------------------------- MODULE MCFromScratch ----------------------------
(* TLC instance of FromScratch: the graphs.                                *)
EXTENDS FromScratch

(* Two ways to vertex 3, alone, with a way between them, and with a cycle; *)
(* a chain with a shortcut; a path of edges in turning directions; two     *)
(* components.                                                             *)
Diamond == {<<0, 1>>, <<0, 2>>, <<1, 3>>, <<2, 3>>}
Zigzag == {<<0, 1>>, <<2, 3>>, <<1, 3>>}
Shapes == {Diamond, Diamond \cup {<<1, 2>>}, Diamond \cup {<<3, 1>>},
           {<<0, 1>>, <<1, 2>>, <<2, 3>>, <<0, 3>>}, Zigzag,
           {<<0, 1>>, <<2, 3>>, <<3, 3>>}}

(* An edge to vertex 3, or all of vertex 1, are longer or wider than the   *)
(* others; an edge out of vertex 1 may have no length or width at all. *)
Weightings(S) ==
    {[e \in S |-> IF e \in H THEN 2 ELSE 1] :
            H \in {{e} : e \in {x \in S : x[2] = 3}} \cup {{e \in S : 1 \in {e[1], e[2]}}}}
        \cup {[e \in S |-> IF e = x THEN 0 ELSE 1] : x \in {e \in S : e[1] = 1}}

BothWays(f) ==
    [e \in DOMAIN f \cup {<<d[2], d[1]>> : d \in DOMAIN f} |->
        IF e \in DOMAIN f THEN f[e] ELSE f[<<e[2], e[1]>>]]

Graphs ==
    UNION {{<<TRUE, f>> : f \in Weightings(S)} : S \in Shapes}
        \cup UNION {{<<FALSE, BothWays(f)>> : f \in Weightings(S)} : S \in {Diamond, Zigzag}}

=============================================================================
