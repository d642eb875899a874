-------------------------- MODULE MCAdListShared ----------------------------
(* TLC instance of AdListShared: the constants are set in the .cfg files.  *)
EXTENDS AdListShared
=============================================================================
