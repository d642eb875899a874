-------------------------- MODULE MCAdListChunked ---------------------------
(* TLC instance of AdListChunked: a directed graph with one partition a    *)
(* side, and an undirected one with two, of an odd number of threads.      *)
EXTENDS AdListChunked

MCSetups == {<<TRUE, 3>>, <<FALSE, 3>>}
=============================================================================
