-------------------------- MODULE MCTaskExtraction --------------------------
(* Instances of TaskExtraction for TLC: the constants are in the cfg files. *)
EXTENDS TaskExtraction
=============================================================================
