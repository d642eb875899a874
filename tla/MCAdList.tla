------------------------------ MODULE MCAdList ------------------------------
(* TLC instance of AdList: the constants are set in the .cfg files.        *)
EXTENDS AdList
=============================================================================
