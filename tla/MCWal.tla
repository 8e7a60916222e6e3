------------------------------- MODULE MCWal -------------------------------
(* A small instance of Wal for TLC. *)
EXTENDS Wal

CONSTANTS w1, w2

MCModes == {"always", "periodic", "async"}
============================================================================
