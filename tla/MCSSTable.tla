------------------------------ MODULE MCSSTable ------------------------------
(* Small instances of SSTable for TLC. *)
EXTENDS SSTable
==============================================================================
