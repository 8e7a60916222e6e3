------------------------------ MODULE MCUring ------------------------------
(* A small instance of WalUring for TLC. *)
EXTENDS WalUring
============================================================================
