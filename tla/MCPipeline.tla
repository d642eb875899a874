----------------------------- MODULE MCPipeline -----------------------------
(* TLC instance of Pipeline: the constants are set in the .cfg files.      *)
EXTENDS Pipeline
=============================================================================
