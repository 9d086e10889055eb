--------------------------- MODULE MC_CleanedLoop ---------------------------
(* The cleaned workers in the second layout of MC_Pipeline.                *)
EXTENDS CleanedLoop, MC_Pipeline
=============================================================================
