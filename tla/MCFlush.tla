------------------------------ MODULE MCFlush ------------------------------
(* A small instance of FlushFile for TLC. *)
EXTENDS FlushFile

\* The empty key has length 0.
MCKeyLen == [k \in Keys |-> k]

\* The bits of two keys overlap; of one, the second hash is 0; of one, all positions
\* are the same bit.
MCHash == [k \in Keys |-> CASE k = 0 -> <<5, 0>> [] k = 1 -> <<9, 64>> [] OTHER -> <<8, 3>>]
=============================================================================
