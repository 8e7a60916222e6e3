------------------------------ MODULE KVStore ------------------------------
(***************************************************************************)
(* What the engine promises: a map from keys to values, written by batches *)
(* and deletes that take effect one after the other, newest version wins.  *)
(* A value is named by the timestamp its write was given, so the map is    *)
(* the set of pairs [key, ts] that are live.                               *)
(***************************************************************************)
EXTENDS Integers, Sequences

CONSTANTS Keys,     \* the keys clients write
          Batches   \* the batches clients pass to PutBatch: sequences of keys

VARIABLES live,     \* the live pairs [key, ts], at most one for each key
          now       \* the timestamp of the latest write

kvvars == <<live, now>>

\* The pairs of keys that the writes ws leave alone.
Untouched(ws) == {p \in live : \A w \in ws : w.key # p.key}

\* The last occurrence of each key of a batch is the one that counts.
LastWrites(kvs) ==
  {[key |-> kvs[i], ts |-> now + i] :
     i \in {i \in 1 .. Len(kvs) : \A j \in i + 1 .. Len(kvs) : kvs[j] # kvs[i]}}

KVInit == live = {} /\ now = 0

KVPutBatch(kvs) ==
  /\ now' = now + Len(kvs)
  /\ live' = Untouched(LastWrites(kvs)) \cup LastWrites(kvs)

KVDelete(k) ==
  /\ now' = now + 1
  /\ live' = {p \in live : p.key # k}

KVNext == \/ \E kvs \in Batches : KVPutBatch(kvs)
          \/ \E k \in Keys : KVDelete(k)

KVSpec == KVInit /\ [][KVNext]_kvvars
=============================================================================
