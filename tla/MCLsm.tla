------------------------------- MODULE MCLsm -------------------------------
(* Small instances of Lsm for TLC. *)
EXTENDS Lsm

\* Single puts, one batch of two keys, and one batch with a key twice.
MCBatches == {<<k>> : k \in Keys} \cup {<<1, 2>>, <<2, 2>>}

MCPuts == {<<k>> : k \in Keys}
=============================================================================
