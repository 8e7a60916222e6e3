------------------------------ MODULE MemTable ------------------------------
(***************************************************************************)
(* The memtable (package memtable): a map, the size that decides when it   *)
(* is flushed and that is kept up to date by differences, and the sorted   *)
(* keys that Entries caches between calls.                                 *)
(*                                                                         *)
(* Lsm counts every entry as 1 and sees the memtable as the set of its     *)
(* versions; here are the sizes, and the cache behind that set.  FlushFile *)
(* extends this module by the file the entries go to.                      *)
(***************************************************************************)
EXTENDS Integers, Sequences, FiniteSets

FSE == INSTANCE FiniteSetsExt

CONSTANTS Keys,        \* integers, in the order of the strings
          KeyLen,      \* their lengths, in bytes
          ValueLens,   \* the lengths of the values clients write
          MaxNow       \* bound on the number of writes

ASSUME MemTableAssumption ==
  /\ Keys \subseteq Int
  /\ KeyLen \in [Keys -> Nat]
  /\ ValueLens \subseteq Nat
  /\ MaxNow \in Nat

VARIABLES m,        \* the entries
          keys,     \* the cached keys; << >> for nil as well
          size,
          dirty,    \* a key was added since keys was made
          result,   \* what the last call of Entries returned
          now       \* the timestamp of the last write

vars == <<m, keys, size, dirty, result, now>>

KeysOf(es) == {e.key : e \in es}

At(k) == CHOOSE e \in m : e.key = k

Init ==
  /\ m = {} /\ keys = << >> /\ size = 0 /\ dirty = FALSE
  /\ result = << >> /\ now = 0
-----------------------------------------------------------------------------
Overhead == 16

\* Broken: what is replaced is counted as if it had the length of what comes.
ReplacedSameLen(e) ==
  IF e.key \in KeysOf(m) THEN KeyLen[e.key] + e.len + Overhead ELSE 0

\* What the entry that e replaces has counted for.
Replaced(e) == IF e.key \in KeysOf(m) THEN KeyLen[e.key] + At(e.key).len + Overhead ELSE 0

\* Broken: the map is written before it is asked whether it has the key.
StoreNeverDirty(e) ==
  /\ now < MaxNow
  /\ m' = {f \in m : f.key # e.key} \cup {e}
  /\ size' = size - Replaced(e) + KeyLen[e.key] + e.len + Overhead
  /\ UNCHANGED dirty
  /\ now' = now + 1
  /\ UNCHANGED <<keys, result>>

Store(e) ==
  /\ now < MaxNow
  /\ m' = {f \in m : f.key # e.key} \cup {e}
  /\ size' = size - Replaced(e) + KeyLen[e.key] + e.len + Overhead
  /\ dirty' = (dirty \/ e.key \notin KeysOf(m))
  /\ now' = now + 1
  /\ UNCHANGED <<keys, result>>

Put(k, len) == Store([key |-> k, len |-> len, ts |-> now + 1, tombstone |-> FALSE])

\* A tombstone has no value, and takes the place of the one there was.
Delete(k) == Store([key |-> k, len |-> 0, ts |-> now + 1, tombstone |-> TRUE])

\* sort.Strings on keys of which no two are equal.
Ascending(ks) ==
  CHOOSE s \in [1 .. Cardinality(ks) -> ks] : \A i, j \in DOMAIN s : i < j => s[i] < s[j]

\* The keys are listed and sorted again only if one was added.
Entries ==
  /\ keys' = IF dirty \/ keys = << >> THEN Ascending(KeysOf(m)) ELSE keys
  /\ dirty' = FALSE
  /\ result' = [n \in DOMAIN keys' |-> At(keys'[n])]
  /\ UNCHANGED <<m, size, now>>

Next ==
  \/ \E k \in Keys : Delete(k) \/ \E len \in ValueLens : Put(k, len)
  \/ Entries

Spec == Init /\ [][Next]_vars
-----------------------------------------------------------------------------
(* What makes it correct.                                                  *)

\* PutBatch flushes when Size says so: it is the sum over the entries there
\* are, however often they were overwritten or deleted.
SizeExact ==
  size = FSE!MapThenSumSet(LAMBDA e : KeyLen[e.key] + e.len + Overhead, m)
=============================================================================
