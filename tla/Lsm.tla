-------------------------------- MODULE Lsm --------------------------------
(***************************************************************************)
(* The running engine (package lsm): clients that call PutBatch, Put,      *)
(* Delete and Get, and the background goroutine compactionLoop.            *)
(*                                                                         *)
(* lsm.mu is held through PutBatch (with the flush and the compaction it   *)
(* may end in), through Delete and through Get, so each is one step.  The  *)
(* goroutine holds it through one whole turn; the turn is cut into one     *)
(* step per compaction so that the states between them can be inspected.   *)
(*                                                                         *)
(* No I/O fails and nothing crashes here: LsmRecovery is about that.  The  *)
(* clock is assumed to advance between calls, by at least one nanosecond   *)
(* per entry of the previous batch.                                        *)
(***************************************************************************)
EXTENDS Tables

CONSTANTS Batches,          \* what clients pass to PutBatch: sequences of keys
          FlushThreshold,   \* Options.FlushThreshold, in entries
          BaseLevelSize,    \* lsm.baseLevelSize, in entries
          LevelMultiplier,  \* compaction.LevelMultiplier, 10 in the code
          MaxNow            \* bound on the number of entries ever written

ASSUME WorkloadAssumption ==
  /\ Batches \subseteq Seq(Keys)
  /\ FlushThreshold \in Nat \ {0}
  /\ BaseLevelSize \in Nat /\ LevelMultiplier \in Nat
  /\ MaxNow \in Nat

VARIABLES memtable,   \* lsm.memtable: the versions it holds, one per key
          tree,       \* lsm.levels, lsm.stats.LevelSizes and lsm.nextID
          compactCh,  \* whether the channel of capacity 1 holds its token
          pc,         \* where compactionLoop stands: "select", "lock", "levels"
          level,      \* the level its for loop has reached, 0 outside of it
          now         \* the latest timestamp given to an entry

vars == <<memtable, tree, compactCh, pc, level, now>>

\* lsm.mu is free: the goroutine does not hold it for its turn.
MuFree == pc # "levels"

Init ==
  /\ memtable = {}
  /\ tree = [levels |-> [l \in Level |-> {}], sizes |-> [l \in Level |-> 0],
             nextID |-> 1]
  /\ compactCh = FALSE
  /\ pc = "select"
  /\ level = 0
  /\ now = 0
-----------------------------------------------------------------------------
(* The clients.                                                            *)

\* flushMemtable on the memtable m: the file joins L0, the memtable starts
\* afresh and the goroutine is signalled, unless a token is there already.
Flush(m) ==
  /\ memtable' = {}
  /\ tree' = FlushMemtable(tree, m)
  /\ compactCh' = TRUE

PutBatch(kvs) ==
  /\ MuFree
  /\ kvs # << >>
  /\ now + Len(kvs) <= MaxNow
  /\ now' = now + Len(kvs)
  /\ LET m == Overwrite(memtable, Stamped(kvs, now))
     IN  \/ /\ Cardinality(m) < FlushThreshold
            /\ memtable' = m
            /\ UNCHANGED <<tree, compactCh>>
         \/ /\ Cardinality(m) >= FlushThreshold
            /\ Flush(m)
  /\ UNCHANGED <<pc, level>>

\* Delete never looks at the size of the memtable.
Delete(k) ==
  /\ MuFree
  /\ now + 1 <= MaxNow
  /\ now' = now + 1
  /\ memtable' = Overwrite(memtable,
                           {[key |-> k, ts |-> now + 1, tombstone |-> TRUE]})
  /\ UNCHANGED <<tree, compactCh, pc, level>>
-----------------------------------------------------------------------------
(* compactionLoop.                                                         *)

CompactorReceive ==
  /\ pc = "select"
  /\ compactCh
  /\ compactCh' = FALSE
  /\ pc' = "lock"
  /\ UNCHANGED <<memtable, tree, level, now>>

\* Broken: the goroutine has the threshold of the writers.
CompactorLockLate ==
  /\ pc = "lock"
  /\ tree' = IF Cardinality(tree.levels[0]) > 2 * MaxL0Files
             THEN CompactL0ToL1(tree) ELSE tree
  /\ pc' = "levels"
  /\ level' = 1
  /\ UNCHANGED <<memtable, compactCh, now>>

\* lsm.mu.Lock() and the first if of the turn.
CompactorLock ==
  /\ pc = "lock"
  /\ tree' = IF Cardinality(tree.levels[0]) > MaxL0Files
             THEN CompactL0ToL1(tree) ELSE tree
  /\ pc' = "levels"
  /\ level' = 1
  /\ UNCHANGED <<memtable, compactCh, now>>

LevelLimit(l) == BaseLevelSize * LevelMultiplier ^ l

\* One iteration of the for loop.  compactLevel calls itself for the next
\* level when that is now too large; the next iteration asks the same.
CompactorLevel ==
  /\ pc = "levels"
  /\ level < NumLevels - 1
  /\ tree' = IF tree.sizes[level] > LevelLimit(level)
             THEN CompactLevel(tree, level) ELSE tree
  /\ level' = level + 1
  /\ UNCHANGED <<memtable, compactCh, pc, now>>

CompactorUnlock ==
  /\ pc = "levels"
  /\ level = NumLevels - 1
  /\ pc' = "select"
  /\ level' = 0
  /\ UNCHANGED <<memtable, tree, compactCh, now>>

Compactor == CompactorReceive \/ CompactorLock \/ CompactorLevel \/ CompactorUnlock

Next == \/ \E kvs \in Batches : PutBatch(kvs)
        \/ \E k \in Keys : Delete(k)
        \/ Compactor

Spec == Init /\ [][Next]_vars

\* The goroutine is scheduled, and Go's mutex is starvation free.
FairSpec == Spec /\ WF_vars(Compactor)
-----------------------------------------------------------------------------
(* Reading.                                                                *)

None == [key |-> EmptyKey, ts |-> 0, tombstone |-> TRUE]

\* Broken: the levels are searched from the bottom.
LookupUpwards(k) ==
  LET holders(l) == {t \in tree.levels[l] : k \in KeysOf(t.ents)}
      hit == {l \in Level : holders(l) # {}}
      l0  == CHOOSE l \in hit : \A j \in hit : l >= j
      t   == CHOOSE t \in holders(l0) : \A u \in holders(l0) : t.id <= u.id
  IN  IF k \in KeysOf(memtable) THEN CHOOSE v \in memtable : v.key = k
      ELSE IF hit = {} THEN None
      ELSE CHOOSE v \in t.ents : v.key = k

\* What Get finds for k: the memtable, then the levels from the top, in each
\* the first table that holds k.  (The bloom filter and the sparse index only
\* skip tables and offsets that do not hold k.)
Lookup(k) ==
  LET holders(l) == {t \in tree.levels[l] : k \in KeysOf(t.ents)}
      hit == {l \in Level : holders(l) # {}}
      l0  == CHOOSE l \in hit : \A j \in hit : l <= j
      t   == CHOOSE t \in holders(l0) : \A u \in holders(l0) : t.id <= u.id
  IN  IF k \in KeysOf(memtable) THEN CHOOSE v \in memtable : v.key = k
      ELSE IF hit = {} THEN None
      ELSE CHOOSE v \in t.ents : v.key = k

\* The pair Get answers with, or the empty set for "not found".
Get(k) == LET v == Lookup(k)
          IN  IF v.tombstone THEN {} ELSE {[key |-> k, ts |-> v.ts]}

\* The map the engine holds.
View == LiveOf(HeldBy(memtable, tree))
-----------------------------------------------------------------------------
(* What makes the engine correct.                                          *)

\* vs holds one version of a key.
SingleKeyed(vs) == \A v, w \in vs : v.key = w.key => v = w

\* The types of the variables; a table and the memtable hold one version of
\* a key (PutBatch, the map of the memtable, the merge of DoCompact), and
\* nothing is stamped later than the clock.
TypeOK ==
  /\ memtable \subseteq Version /\ SingleKeyed(memtable)
  /\ tree.levels \in [Level -> SUBSET Table]
  /\ \A l \in Level : \A t \in tree.levels[l] : SingleKeyed(t.ents)
  /\ \A v \in HeldBy(memtable, tree) : v.ts <= now
  /\ tree.sizes \in [Level -> Int]
  /\ tree.nextID \in Nat
  /\ compactCh \in BOOLEAN
  /\ pc \in {"select", "lock", "levels"}
  /\ level \in Level
  /\ now \in Nat

\* The order reads and merges rely on survives every interleaving of writes, flushes and
\* compactions.
AgeOrder == Ordered(memtable, tree)

\* The promise of the README, "newest version wins": the map the engine holds
\* changes as KVStore says, a batch or a delete at a time, and no flush or
\* compaction (compactL0ToL1, compactLevel) changes it.
KV == INSTANCE KVStore WITH live <- View
ImplementsKVStore == KV!KVSpec

\* A Get that meets at most one file of L0 and one of L1 holding its key
\* answers with the live value: the memtable and the levels are searched from
\* the newest to the oldest.
Shadowed(k) ==
  \E l \in {0, 1} : \E t, u \in tree.levels[l] :
    t # u /\ k \in KeysOf(t.ents) /\ k \in KeysOf(u.ents)

LiveValue(k) == {p \in View : p.key = k}

GetNewestWhenUnshadowed ==
  \A k \in Keys : ~Shadowed(k) => Get(k) = LiveValue(k)

\* README "newest version wins": a Get answers with the newest version.
GetNewest == \A k \in Keys : Get(k) = LiveValue(k)

\* The ranges of keys that the tables of T store do not overlap.
KeyRangesDisjoint(T) ==
  \A t, u \in T :
    t # u => \/ \A j \in KeysOf(t.ents), k \in KeysOf(u.ents) : j < k
             \/ \A j \in KeysOf(t.ents), k \in KeysOf(u.ents) : k < j

\* compaction_test.go, "no overlapping SSTables in L1+".  In L1 compactL0ToL1
\* can leave overlaps, for MaxKey is the last indexed key; L2 and the levels
\* below are always the outputs of one merge (compactLevel merges the whole of
\* both levels), so there the claim does hold.
DeepLevelsDisjoint ==
  \A l \in Level \ {0, 1} : KeyRangesDisjoint(tree.levels[l])

\* The incrementally maintained LevelSizes, which decide compactions, never
\* drift from the sizes updateLevelStats would compute.
SizesExact ==
  \A l \in Level : tree.sizes[l] = DataSize(tree.levels[l])

\* No file ever takes the number of one that is still in use, and the next
\* number is above them all: nextID moves by the outputs of each compaction.
FreshNumbers ==
  /\ \A l \in Level : \A t \in tree.levels[l] : t.id < tree.nextID
  /\ \A l, m \in Level : \A t \in tree.levels[l], u \in tree.levels[m] :
       t.id = u.id => l = m /\ t = u

\* However far the goroutine falls behind, the writers' own compaction
\* (flushMemtable, len(levels[0]) > 2 * maxL0Files) bounds L0.
L0Bounded == Cardinality(tree.levels[0]) <= 2 * MaxL0Files

\* When a signal is pending and L0 holds too many files, the oldest of them is
\* compacted away: no signal is lost between the goroutine and the writers.
\* (Asked of the first files; what comes later finds the same situations.)
OldestInL0(i) ==
  \E t \in tree.levels[0] : t.id = i /\ \A u \in tree.levels[0] : i <= u.id

OverflowDrains ==
  \A i \in 1 .. MaxNow \div 2 + 1 :
    (compactCh /\ Cardinality(tree.levels[0]) > MaxL0Files /\ OldestInL0(i))
      ~> ~(\E t \in tree.levels[0] : t.id = i)
=============================================================================
