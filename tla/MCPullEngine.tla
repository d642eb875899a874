---------------------------- MODULE MCPullEngine ----------------------------
(* TLC instance of PullEngine by itself: components along edges of either  *)
(* direction.                                                              *)
EXTENDS PullEngine

DirectedCC == {<<"ccdyn", TRUE>>}
TwoThenOne == <<2, 1>>
=============================================================================
