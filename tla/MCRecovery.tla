----------------------------- MODULE MCRecovery -----------------------------
(* Small instances of LsmRecovery for TLC. *)
EXTENDS LsmRecovery

MCPuts == {<<k>> : k \in Keys}
=============================================================================
