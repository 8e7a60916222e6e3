------------------------------ MODULE MCFaults ------------------------------
(* A small instance of LsmFaults for TLC. *)
EXTENDS LsmFaults

MCPuts == {<<k>> : k \in Keys}
MCBatches == MCPuts \cup {<<1, 2>>}
=============================================================================
