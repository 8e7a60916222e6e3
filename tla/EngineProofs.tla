---------------------------- MODULE EngineProofs ----------------------------
(***************************************************************************)
(* Theorems about Lsm, for every value of its constants: the order of the  *)
(* versions, the refinement of KVStore, then what the engine counts and    *)
(* what a Get answers.  The numbers of the files, the sizes of the levels, *)
(* the files in L0 and the ranges of keys below L1 come before the reads;  *)
(* with them the first version the search from the top meets is the newest *)
(* one, if no two files of L0 or of L1 hold the key.                       *)
(*                                                                         *)
(* The last part is about Compaction, for any tables and any sizes of      *)
(* files: the merge as it runs is the one that Lsm takes in one step.      *)
(***************************************************************************)
EXTENDS Lsm, Compaction, TablesProofs

(* The inductive invariant.                                                *)

IInv ==
  /\ memtable \subseteq Version /\ IsFiniteSet(memtable)
  /\ Shape(tree)
  /\ Ordered(memtable, tree)
  /\ Stale(HeldBy(memtable, tree), now)
  /\ compactCh \in BOOLEAN
  /\ pc \in {"select", "lock", "levels"}
  /\ level \in Level
  /\ now \in Nat

\* Writing ws into the memtable keeps everything but the map, and the map
\* changes by ws.
LEMMA WriteKeeps ==
  ASSUME IInv, NEW ws, ws \subseteq Version, IsFiniteSet(ws),
         NEW t \in Nat, now <= t, \A w \in ws : w.ts > now /\ w.ts <= t,
         \A v, w \in ws : v.key = w.key => v = w
  PROVE  LET m == Overwrite(memtable, ws)
         IN  /\ m \subseteq Version /\ IsFiniteSet(m)
             /\ Ordered(m, tree)
             /\ Stale(HeldBy(m, tree), t)
             /\ Settled(HeldBy(memtable, tree)) =>
                  /\ Settled(HeldBy(m, tree))
                  /\ LiveOf(HeldBy(m, tree)) = Applied(LiveOf(HeldBy(memtable, tree)), ws)
<1> DEFINE m == Overwrite(memtable, ws)
<1>1. /\ m \subseteq memtable \cup ws /\ ws \subseteq m
      /\ \A v \in memtable \ m : \E w \in ws : w.key = v.key
  BY DEF Overwrite
<1>2. /\ memtable \subseteq Version /\ IsFiniteSet(memtable) /\ Shape(tree)
      /\ Ordered(memtable, tree) /\ Stale(HeldBy(memtable, tree), now) /\ now \in Nat
  BY DEF IInv
<1> HIDE DEF m
<1>3. m \subseteq Version /\ IsFiniteSet(m)
  <2>1. IsFiniteSet(memtable \cup ws)
    BY <1>2, FS_Union
  <2> QED BY <1>1, <1>2, <2>1, FS_Subset
<1>4. Ordered(m, tree) /\ Stale(HeldBy(m, tree), t)
  BY <1>1, <1>2, WritesOrdered
<1>5. ASSUME Settled(HeldBy(memtable, tree))
      PROVE  /\ Settled(HeldBy(m, tree))
             /\ LiveOf(HeldBy(m, tree)) = Applied(LiveOf(HeldBy(memtable, tree)), ws)
  BY <1>1, <1>2, <1>5, WritesApplied
<1> QED BY <1>3, <1>4, <1>5 DEF m
-----------------------------------------------------------------------------
(* The steps.                                                              *)

\* A tombstone for k, stamped with the next tick of the clock.
Tomb(k) == [key |-> k, ts |-> now + 1, tombstone |-> TRUE]

\* It is a version, and newer than all there are.
LEMMA TombVersion ==
  ASSUME IInv, NEW k \in Keys
  PROVE  /\ {Tomb(k)} \subseteq Version /\ IsFiniteSet({Tomb(k)})
         /\ now <= now + 1 /\ now + 1 \in Nat
         /\ \A w \in {Tomb(k)} : w.ts > now /\ w.ts <= now + 1
<1>1. now \in Nat
  BY DEF IInv
<1>2. Tomb(k) \in Version /\ Tomb(k).ts = now + 1
  BY <1>1 DEF Tomb, Version
<1>3. IsFiniteSet({Tomb(k)})
  BY FS_Singleton
<1>4. QED BY <1>1, <1>2, <1>3

\* A set of versions that shrinks stays stale.
LEMMA StillStale ==
  ASSUME NEW m, NEW tr, NEW n, NEW new, NEW t,
         Keeps(m, tr, n, new), Stale(HeldBy(m, tr), t)
  PROVE  Stale(HeldBy(n, new), t)
BY DEF Keeps, Stale

\* An engine without entries satisfies the inductive invariant.
THEOREM InitIInv == Init => IInv
<1> SUFFICES ASSUME Init PROVE IInv
  OBVIOUS
<1>1. /\ tree.levels = [l \in Level |-> {}] /\ tree.sizes = [l \in Level |-> 0]
      /\ tree.nextID = 1
  BY DEF Init
<1>2. 0 \in Level /\ IsFiniteSet({})
  BY ShapeAssumption, FS_EmptySet DEF Level
<1>3. Shape(tree)
  BY <1>1, <1>2 DEF Shape
<1>4. \A l \in Level : EntriesOf(tree.levels[l]) = {}
  BY <1>1 DEF EntriesOf
<1>5. HeldBy(memtable, tree) = {}
  BY <1>4 DEF HeldBy, Init
<1>6. Ordered(memtable, tree)
  BY <1>1, <1>2, <1>4 DEF Ordered, MemtableNewest, L0ByAge, LevelsByAge, Newer
<1>7. QED BY <1>2, <1>3, <1>5, <1>6 DEF IInv, Init, Stale

\* One step per action.
THEOREM StepIInv == IInv /\ [Next]_vars => IInv'
<1> SUFFICES ASSUME IInv, [Next]_vars PROVE IInv'
  OBVIOUS
<1>1. CASE UNCHANGED vars
  BY <1>1 DEF vars, IInv
<1>2. ASSUME NEW kvs \in Batches, PutBatch(kvs) PROVE IInv'
  <2> DEFINE ws == Stamped(kvs, now)
             m  == Overwrite(memtable, ws)
             t  == now + Len(kvs)
  <2>1. kvs \in Seq(Keys) /\ now \in Nat
    BY WorkloadAssumption DEF IInv
  <2>2. Len(kvs) \in Nat /\ t \in Nat /\ now <= t
    BY <2>1
  <2>3. /\ ws \subseteq Version /\ IsFiniteSet(ws)
        /\ \A w \in ws : w.ts > now /\ w.ts <= t
        /\ \A v, w \in ws : v.key = w.key => v = w
    BY <2>1, StampedVersions
  <2> HIDE DEF ws, t
  <2>4. /\ m \subseteq Version /\ IsFiniteSet(m)
        /\ Ordered(m, tree) /\ Stale(HeldBy(m, tree), t)
    BY <2>2, <2>3, WriteKeeps
  <2>5. now' = t /\ UNCHANGED <<pc, level>>
    BY <1>2 DEF PutBatch, t
  <2>6. CASE memtable' = m /\ UNCHANGED <<tree, compactCh>>
    BY <2>2, <2>4, <2>5, <2>6 DEF IInv
  <2>7. CASE Flush(m)
    <3>1. Keeps(m, tree, {}, FlushMemtable(tree, m))
      BY <2>4, FlushKeeps DEF IInv
    <3>2. Stale(HeldBy({}, FlushMemtable(tree, m)), t)
      BY <2>4, <3>1, StillStale
    <3>3. memtable' = {} /\ tree' = FlushMemtable(tree, m) /\ compactCh' = TRUE
      BY <2>7 DEF Flush
    <3> HIDE DEF m
    <3>4. Shape(tree') /\ Ordered(memtable', tree') /\ Stale(HeldBy(memtable', tree'), now')
      BY <2>5, <3>1, <3>2, <3>3 DEF Keeps
    <3> QED BY <2>2, <2>5, <3>3, <3>4, FS_EmptySet DEF IInv
  <2>8. QED BY <1>2, <2>6, <2>7 DEF PutBatch, ws
<1>3. ASSUME NEW k \in Keys, Delete(k) PROVE IInv'
  <2> DEFINE m == Overwrite(memtable, {Tomb(k)})
  <2>1. \A v, w \in {Tomb(k)} : v.key = w.key => v = w
    OBVIOUS
  <2>2. /\ m \subseteq Version /\ IsFiniteSet(m)
        /\ Ordered(m, tree) /\ Stale(HeldBy(m, tree), now + 1)
    BY <2>1, TombVersion, WriteKeeps
  <2>3. memtable' = m /\ now' = now + 1 /\ UNCHANGED <<tree, compactCh, pc, level>>
    BY <1>3 DEF Delete, Tomb
  <2> HIDE DEF m
  <2> QED BY <2>2, <2>3, TombVersion DEF IInv
<1>4. ASSUME NEW new, Keeps(memtable, tree, memtable, new), tree' = new,
             UNCHANGED <<memtable, compactCh, now>>,
             pc' \in {"select", "lock", "levels"}, level' \in Level
      PROVE  IInv'
  <2>1. Stale(HeldBy(memtable, new), now)
    BY <1>4, StillStale DEF IInv
  <2> QED BY <1>4, <2>1 DEF IInv, Keeps
<1>5. 0 \in Level /\ 1 \in Level /\ \A l \in Level : l < NumLevels - 1 => l + 1 \in Level
  BY ShapeAssumption DEF Level
<1>6. CASE CompactorReceive
  BY <1>6 DEF CompactorReceive, IInv
<1>7. CASE CompactorLock
  <2>1. Keeps(memtable, tree, memtable, CompactL0ToL1(tree))
    BY L0Keeps DEF IInv
  <2>2. Keeps(memtable, tree, memtable, tree)
    BY DEF Keeps, IInv
  <2>3. Keeps(memtable, tree, memtable, tree')
    BY <1>7, <2>1, <2>2 DEF CompactorLock
  <2> QED BY <1>4, <1>5, <1>7, <2>3 DEF CompactorLock
<1>8. CASE CompactorLevel
  <2>1. Keeps(memtable, tree, memtable, CompactLevel(tree, level))
    BY LevelKeeps DEF IInv
  <2>2. Keeps(memtable, tree, memtable, tree)
    BY DEF Keeps, IInv
  <2>3. Keeps(memtable, tree, memtable, tree')
    BY <1>8, <2>1, <2>2 DEF CompactorLevel
  <2>4. level' \in Level
    BY <1>5, <1>8 DEF CompactorLevel, IInv
  <2> QED BY <1>4, <1>8, <2>3, <2>4 DEF CompactorLevel, IInv
<1>9. CASE CompactorUnlock
  BY <1>5, <1>9 DEF CompactorUnlock, IInv
<1>10. QED
  BY <1>1, <1>2, <1>3, <1>6, <1>7, <1>8, <1>9 DEF Next, Compactor

\* The inductive invariant holds in every run.
THEOREM IInvAlways == Spec => []IInv
BY InitIInv, StepIInv, PTL DEF Spec

\* The memtable is newer than the files, L0 is in the order of its numbers and
\* the levels are in order, for any number of keys, levels and files, whatever
\* the sparse index hides: what the search of Get from the top and the merges
\* of compactions rely on.
THEOREM AgeOrderAlways == Spec => []AgeOrder
<1>1. IInv => AgeOrder
  BY DEF IInv, AgeOrder
<1>2. QED BY <1>1, IInvAlways, PTL
-----------------------------------------------------------------------------
(* The engine implements KVStore.                                          *)

\* What a compaction needs to keep the map.
MapInv == IInv /\ Settled(HeldBy(memtable, tree))

\* The pairs of a batch are the ones KVStore writes.
LEMMA BatchPairs ==
  ASSUME NEW kvs \in Seq(Keys), now \in Nat
  PROVE  {[key |-> w.key, ts |-> w.ts] : w \in {w \in Stamped(kvs, now) : ~w.tombstone}}
           = KV!LastWrites(kvs)
<1> DEFINE last == {i \in 1 .. Len(kvs) : \A j \in i + 1 .. Len(kvs) : kvs[j] # kvs[i]}
           write(i) == [key |-> kvs[i], ts |-> now + i, tombstone |-> FALSE]
           pair(w) == [key |-> w.key, ts |-> w.ts]
<1>1. Stamped(kvs, now) = {write(i) : i \in last}
  BY DEF Stamped
<1>2. {w \in Stamped(kvs, now) : ~w.tombstone} = {write(i) : i \in last}
  BY <1>1
<1>3. KV!LastWrites(kvs) = {pair(write(i)) : i \in last}
  BY DEF KV!LastWrites
<1>4. {pair(w) : w \in {write(i) : i \in last}} = {pair(write(i)) : i \in last}
  <2> HIDE DEF last, write, pair
  <2> QED OBVIOUS
<1>5. QED BY <1>2, <1>3, <1>4

\* A batch changes the map as KVPutBatch says.
LEMMA PutBatchSimulates ==
  ASSUME Config, MapInv, NEW kvs \in Batches, PutBatch(kvs)
  PROVE  Settled(HeldBy(memtable, tree))' /\ KV!KVPutBatch(kvs)
<1> DEFINE ws == Stamped(kvs, now)
           m  == Overwrite(memtable, ws)
           t  == now + Len(kvs)
           pairs == {[key |-> w.key, ts |-> w.ts] : w \in {w \in ws : ~w.tombstone}}
           after == {p \in View : \A w \in ws : w.key # p.key} \cup pairs
<1>1. kvs \in Seq(Keys) /\ now \in Nat
  BY WorkloadAssumption DEF MapInv, IInv
<1>2. Len(kvs) \in Nat /\ t \in Nat /\ now <= t
  BY <1>1
<1>3. /\ ws \subseteq Version /\ IsFiniteSet(ws)
      /\ \A w \in ws : w.ts > now /\ w.ts <= t /\ ~w.tombstone
      /\ \A v, w \in ws : v.key = w.key => v = w
  BY <1>1, StampedVersions
<1>4. pairs = KV!LastWrites(kvs)
  BY <1>1, BatchPairs
<1> HIDE DEF ws, t
<1>5. /\ m \subseteq Version /\ IsFiniteSet(m) /\ Ordered(m, tree)
      /\ Settled(HeldBy(m, tree))
      /\ LiveOf(HeldBy(m, tree)) = after
  <2>1. IInv /\ Settled(HeldBy(memtable, tree))
    BY DEF MapInv
  <2> QED BY <1>2, <1>3, <2>1, WriteKeeps DEF View, Applied
<1>6. Settled(HeldBy(memtable', tree')) /\ LiveOf(HeldBy(memtable', tree')) = after
  <2>1. CASE memtable' = m /\ UNCHANGED tree
    <3> HIDE DEF m, after
    <3> QED BY <1>5, <2>1
  <2>2. CASE Flush(m)
    <3>1. Keeps(m, tree, {}, FlushMemtable(tree, m))
      BY <1>5, FlushKeeps DEF MapInv, IInv
    <3>2. memtable' = {} /\ tree' = FlushMemtable(tree, m)
      BY <2>2 DEF Flush
    <3> HIDE DEF m, after
    <3> QED BY <1>5, <3>1, <3>2 DEF Keeps
  <2>3. QED BY <2>1, <2>2 DEF PutBatch, ws
<1>7. after = KV!Untouched(KV!LastWrites(kvs)) \cup KV!LastWrites(kvs)
  <2>1. \A p : (\A w \in ws : w.key # p.key) <=> (\A q \in pairs : q.key # p.key)
    <3>1. \A w \in ws : [key |-> w.key, ts |-> w.ts] \in pairs
      BY <1>3
    <3>2. \A q \in pairs : \E w \in ws : q.key = w.key
      OBVIOUS
    <3>3. \A w \in ws : \E q \in pairs : q.key = w.key
      BY <3>1
    <3> HIDE DEF pairs
    <3> QED BY <3>2, <3>3
  <2> HIDE DEF pairs
  <2> QED BY <1>4, <2>1 DEF KV!Untouched
<1>8. now' = now + Len(kvs)
  BY DEF PutBatch
<1> HIDE DEF after
<1>9. QED BY <1>6, <1>7, <1>8 DEF KV!KVPutBatch, View

\* A delete changes the map as KVDelete says.
LEMMA DeleteSimulates ==
  ASSUME MapInv, NEW k \in Keys, Delete(k)
  PROVE  Settled(HeldBy(memtable, tree))' /\ KV!KVDelete(k)
<1> DEFINE ws == {Tomb(k)}
           m  == Overwrite(memtable, ws)
<1>1. IInv /\ Settled(HeldBy(memtable, tree))
  BY DEF MapInv
<1>2. /\ ws \subseteq Version /\ IsFiniteSet(ws)
      /\ now <= now + 1 /\ now + 1 \in Nat
      /\ \A w \in ws : w.ts > now /\ w.ts <= now + 1
      /\ \A v, w \in ws : v.key = w.key => v = w
  BY <1>1, TombVersion
<1>3. Tomb(k).key = k /\ Tomb(k).tombstone
  BY DEF Tomb
<1>4. memtable' = m /\ tree' = tree /\ now' = now + 1
  BY DEF Delete, Tomb
<1> HIDE DEF ws
<1>5. /\ Settled(HeldBy(m, tree))
      /\ LiveOf(HeldBy(m, tree)) =
           {p \in View : \A w \in ws : w.key # p.key}
             \cup {[key |-> w.key, ts |-> w.ts] : w \in {w \in ws : ~w.tombstone}}
  BY <1>1, <1>2, WriteKeeps DEF View, Applied
<1>6. {w \in ws : ~w.tombstone} = {}
  BY <1>3 DEF ws
<1>7. LiveOf(HeldBy(m, tree)) = {p \in View : p.key # k}
  BY <1>3, <1>5, <1>6 DEF ws
<1> HIDE DEF m
<1>8. QED BY <1>4, <1>5, <1>7 DEF KV!KVDelete, View

\* Every step of Lsm is a step of KVStore, or leaves the map alone.
THEOREM StepSimulates ==
  ASSUME Config, MapInv, [Next]_vars
  PROVE  Settled(HeldBy(memtable, tree))' /\ [KV!KVNext]_(KV!kvvars)
<1>1. CASE UNCHANGED vars
  BY <1>1 DEF vars, MapInv, KV!kvvars, View
<1>2. ASSUME NEW kvs \in Batches, PutBatch(kvs)
      PROVE  Settled(HeldBy(memtable, tree))' /\ [KV!KVNext]_(KV!kvvars)
  BY <1>2, PutBatchSimulates DEF KV!KVNext
<1>3. ASSUME NEW k \in Keys, Delete(k)
      PROVE  Settled(HeldBy(memtable, tree))' /\ [KV!KVNext]_(KV!kvvars)
  BY <1>3, DeleteSimulates DEF KV!KVNext
<1>4. ASSUME Keeps(memtable, tree, memtable, tree'), UNCHANGED <<memtable, now>>
      PROVE  Settled(HeldBy(memtable, tree))' /\ [KV!KVNext]_(KV!kvvars)
  <2>1. Settled(HeldBy(memtable, tree')) /\ LiveOf(HeldBy(memtable, tree')) = View
    BY <1>4 DEF Keeps, MapInv, View
  <2> QED BY <1>4, <2>1 DEF KV!kvvars, View
<1>5. Keeps(memtable, tree, memtable, tree)
  BY DEF Keeps, MapInv, IInv
<1>6. CASE CompactorReceive \/ CompactorUnlock
  BY <1>4, <1>5, <1>6 DEF CompactorReceive, CompactorUnlock
<1>7. CASE CompactorLock
  <2>1. Keeps(memtable, tree, memtable, CompactL0ToL1(tree))
    BY L0Keeps DEF MapInv, IInv
  <2>2. Keeps(memtable, tree, memtable, tree') /\ UNCHANGED <<memtable, now>>
    BY <1>5, <1>7, <2>1 DEF CompactorLock
  <2> QED BY <1>4, <2>2
<1>8. CASE CompactorLevel
  <2>1. Keeps(memtable, tree, memtable, CompactLevel(tree, level))
    BY LevelKeeps DEF MapInv, IInv
  <2>2. Keeps(memtable, tree, memtable, tree') /\ UNCHANGED <<memtable, now>>
    BY <1>5, <1>8, <2>1 DEF CompactorLevel
  <2> QED BY <1>4, <2>2
<1>9. QED
  BY <1>1, <1>2, <1>3, <1>6, <1>7, <1>8 DEF Next, Compactor

\* The initial states of Lsm are initial states of KVStore.
THEOREM InitSimulates == Init => KV!KVInit /\ Settled(HeldBy(memtable, tree))
<1> SUFFICES ASSUME Init PROVE KV!KVInit /\ Settled(HeldBy(memtable, tree))
  OBVIOUS
<1>1. \A l \in Level : EntriesOf(tree.levels[l]) = {}
  BY DEF EntriesOf, Init
<1>2. HeldBy(memtable, tree) = {}
  BY <1>1 DEF HeldBy, Init
<1>3. QED
  BY <1>2 DEF KV!KVInit, View, LiveOf, Newest, Settled, HasNewest, OneVersion, Init

\* The README's "newest version wins" for what the engine holds, whatever the
\* workload, the thresholds and the interleaving of the goroutine: the writes
\* take effect one at a time, and no flush and no compaction loses a version
\* that counts or brings back one that does not.
THEOREM Refinement ==
  ASSUME Config
  PROVE  Spec => ImplementsKVStore
<1>1. Init => MapInv /\ KV!KVInit
  BY InitIInv, InitSimulates DEF MapInv
<1>2. MapInv /\ [Next]_vars => MapInv' /\ [KV!KVNext]_(KV!kvvars)
  BY StepIInv, StepSimulates DEF MapInv
<1>3. QED BY <1>1, <1>2, PTL DEF Spec, ImplementsKVStore, KV!KVSpec
-----------------------------------------------------------------------------
(* The levels below L1.                                                    *)

\* The files DoCompact cuts the merged stream into do not overlap.
LEMMA DoCompactDisjoint ==
  ASSUME NEW T, EntriesOf(T) \subseteq Version, IsFiniteSet(EntriesOf(T)),
         NEW lv, NEW id \in Nat
  PROVE  KeyRangesDisjoint(DoCompact(T, lv, id))
<1> DEFINE merged   == Merge(T, lv)
           part(v) == Rank(v.key, KeysOf(merged)) \div TargetEntries
           chunks   == {part(v) : v \in merged}
           table(c) == [id |-> id + c, ents |-> {v \in merged : part(v) = c}]
           out      == {table(c) : c \in chunks}
<1>1. DoCompact(T, lv, id) = out
  BY DEF DoCompact
<1>2. merged \subseteq Version /\ IsFiniteSet(merged)
  BY MergeSubset, FS_Subset
<1>3. IsFiniteSet(KeysOf(merged)) /\ \A v \in merged : v.key \in Nat
  <2>1. [v \in merged |-> v.key] \in Surjection(merged, KeysOf(merged))
    BY DEF Surjection, KeysOf
  <2> QED BY <1>2, <2>1, KeysAssumption, FS_Surjection DEF Version
<1>4. \A v \in merged : Rank(v.key, KeysOf(merged)) \in Nat
  BY <1>3, RankNat
<1>5. \A v \in merged : part(v) \in Nat
  BY <1>4, ShapeAssumption
\* A version of an earlier file has a smaller key.
<1>6. ASSUME NEW v \in merged, NEW w \in merged, part(v) < part(w)
      PROVE  v.key < w.key
  <2> DEFINE below(k) == {j \in KeysOf(merged) : j < k}
  <2>1. SUFFICES ASSUME w.key <= v.key PROVE FALSE
    BY <1>3
  <2>2. below(w.key) \subseteq below(v.key)
    <3>1. \A j \in KeysOf(merged) : j \in Nat
      BY <1>3 DEF KeysOf
    <3> HIDE DEF merged
    <3> QED BY <1>3, <2>1, <3>1
  <2>3. IsFiniteSet(below(v.key))
    BY <1>3, FS_Subset
  <2>4. Cardinality(below(w.key)) <= Cardinality(below(v.key))
    <3> HIDE DEF below
    <3> QED BY <2>2, <2>3, FS_Subset
  <2>5. Rank(w.key, KeysOf(merged)) <= Rank(v.key, KeysOf(merged))
    BY <2>4 DEF Rank
  <2>6. part(w) <= part(v)
    <3> HIDE DEF merged
    <3> QED BY <1>4, <2>5, ChunkMonotone
  <2> QED BY <1>5, <1>6, <2>6
<1>7. chunks \subseteq Nat
  BY <1>5
<1> HIDE DEF merged, part
<1>8. ASSUME NEW c \in chunks, NEW d \in chunks, c < d
      PROVE  \A j \in KeysOf(table(c).ents), k \in KeysOf(table(d).ents) : j < k
  <2>1. \A j \in KeysOf(table(c).ents) : \E v \in merged : part(v) = c /\ j = v.key
    BY DEF KeysOf
  <2>2. \A k \in KeysOf(table(d).ents) : \E w \in merged : part(w) = d /\ k = w.key
    BY DEF KeysOf
  <2> HIDE DEF table
  <2> QED BY <1>6, <1>8, <2>1, <2>2
<1> HIDE DEF table, chunks
<1>9. ASSUME NEW t \in out, NEW u \in out, t # u
      PROVE  \/ \A j \in KeysOf(t.ents), k \in KeysOf(u.ents) : j < k
             \/ \A j \in KeysOf(t.ents), k \in KeysOf(u.ents) : k < j
  <2>1. PICK c \in chunks, d \in chunks : t = table(c) /\ u = table(d)
    OBVIOUS
  <2>2. c < d \/ d < c
    BY <1>7, <1>9, <2>1
  <2> QED BY <1>8, <2>1, <2>2
<1>10. QED BY <1>1, <1>9 DEF KeyRangesDisjoint

DeepDisjoint(tr) ==
  \A l \in Level \ {0, 1} : KeyRangesDisjoint(tr.levels[l])

\* compactL0ToL1 does not touch them.
LEMMA L0Deep ==
  ASSUME NEW tr, Shape(tr), DeepDisjoint(tr)
  PROVE  DeepDisjoint(CompactL0ToL1(tr))
<1>1. CASE tr.levels[0] = {}
  BY <1>1 DEF CompactL0ToL1
<1>2. CASE tr.levels[0] # {}
  <2>1. \A from, into, out : \A l \in Level \ {0, 1} :
          Compacted(tr, 0, from, into, out).levels[l] = tr.levels[l]
    BY DEF Compacted, Shape
  <2>2. \A l \in Level \ {0, 1} : CompactL0ToL1(tr).levels[l] = tr.levels[l]
    BY <1>2, <2>1 DEF CompactL0ToL1
  <2> QED BY <2>2 DEF DeepDisjoint
<1>3. QED BY <1>1, <1>2

\* compactLevel leaves a level empty and the next one with its outputs alone.
LEMMA LevelDeep ==
  ASSUME NEW tr, Shape(tr), DeepDisjoint(tr), NEW l \in Level
  PROVE  DeepDisjoint(CompactLevel(tr, l))
<1>1. CASE l < 1 \/ l >= NumLevels - 1 \/ tr.levels[l] = {}
  BY <1>1 DEF CompactLevel
<1>2. CASE ~(l < 1 \/ l >= NumLevels - 1 \/ tr.levels[l] = {})
  <2> DEFINE in  == tr.levels[l] \cup tr.levels[l + 1]
             out == DoCompact(in, l + 1, tr.nextID)
             new == Compacted(tr, l, tr.levels[l], tr.levels[l + 1], out)
  <2>1. l + 1 \in Level /\ l # l + 1
    BY <1>2, ShapeAssumption DEF Level
  <2>2. EntriesOf(in) \subseteq Version /\ tr.nextID \in Nat
    BY <2>1 DEF EntriesOf, Shape, Table
  <2>3. IsFiniteSet(in) /\ \A t \in in : IsFiniteSet(t.ents)
    BY <2>1, FS_Union DEF Shape
  <2> HIDE DEF in
  <2>4. KeyRangesDisjoint(out)
    BY <2>2, <2>3, FiniteEntries, DoCompactDisjoint
  <2> HIDE DEF out
  <2>5. new.levels[l] = {} /\ new.levels[l + 1] = out
    BY <2>1 DEF Compacted, Shape
  <2>6. \A k \in Level \ {l, l + 1} : new.levels[k] = tr.levels[k]
    BY DEF Compacted, Shape
  <2>7. KeyRangesDisjoint({})
    BY DEF KeyRangesDisjoint
  <2> HIDE DEF new
  <2>8. DeepDisjoint(new)
    BY <2>4, <2>5, <2>6, <2>7 DEF DeepDisjoint
  <2> QED BY <1>2, <2>8 DEF CompactLevel, new, out, in
<1>3. QED BY <1>1, <1>2

\* A flush does not touch them either.
LEMMA FlushDeep ==
  ASSUME NEW m, NEW tr, Shape(tr), Shape(AddToL0(tr, m)), DeepDisjoint(tr)
  PROVE  DeepDisjoint(FlushMemtable(tr, m))
<1>1. \A l \in Level \ {0, 1} : AddToL0(tr, m).levels[l] = tr.levels[l]
  BY DEF AddToL0, Shape
<1>2. DeepDisjoint(AddToL0(tr, m))
  BY <1>1 DEF DeepDisjoint
<1>3. QED BY <1>2, L0Deep DEF FlushMemtable, WriterCompaction
-----------------------------------------------------------------------------
(* The running engine.                                                     *)

\* Numbers, sizes, the bound of L0 and the ranges of the deep levels.
NumbersInv == IInv /\ Books(tree) /\ L0Bounded /\ DeepDisjoint(tree)

\* An engine without files has its books in order.
THEOREM InitNumbers == Init => NumbersInv
<1> SUFFICES ASSUME Init PROVE NumbersInv
  OBVIOUS
<1>1. IInv
  BY InitIInv
<1>2. /\ \A l \in Level : tree.levels[l] = {} /\ tree.sizes[l] = 0
      /\ 0 \in Level
  BY ShapeAssumption DEF Init, Level
<1>3. DataSize({}) = 0 /\ Cardinality({}) = 0
  BY FS_EmptySet DEF DataSize
<1>4. Numbered(tree) /\ Counted(tree)
  BY <1>2, <1>3 DEF Numbered, Counted
<1>5. L0Bounded
  BY <1>2, <1>3, ShapeAssumption DEF L0Bounded
<1>6. DeepDisjoint(tree)
  BY <1>2 DEF DeepDisjoint, KeyRangesDisjoint
<1>7. QED BY <1>1, <1>4, <1>5, <1>6 DEF NumbersInv, Books, IInv

\* One step per action.
THEOREM StepNumbers == NumbersInv /\ [Next]_vars => NumbersInv'
<1> SUFFICES ASSUME NumbersInv, [Next]_vars PROVE NumbersInv'
  OBVIOUS
<1>1. IInv /\ Books(tree) /\ L0Bounded /\ DeepDisjoint(tree)
  BY DEF NumbersInv
<1>2. IInv'
  BY <1>1, StepIInv
<1>3. CASE UNCHANGED tree
  BY <1>1, <1>2, <1>3 DEF NumbersInv, L0Bounded
<1>4. 0 \in Level /\ IsFiniteSet(tree.levels[0]) /\ Cardinality(tree.levels[0]) \in Nat
  BY <1>1, ShapeAssumption, FS_CardinalityType DEF Level, Books, Shape
<1>5. ASSUME NEW kvs \in Batches, PutBatch(kvs) PROVE NumbersInv'
  <2> DEFINE ws == Stamped(kvs, now)
             m  == Overwrite(memtable, ws)
             t  == now + Len(kvs)
  <2>1. kvs \in Seq(Keys) /\ now \in Nat
    BY <1>1, WorkloadAssumption DEF IInv
  <2>2. t \in Nat /\ now <= t
    BY <2>1
  <2>3. /\ ws \subseteq Version /\ IsFiniteSet(ws)
        /\ \A w \in ws : w.ts > now /\ w.ts <= t
        /\ \A v, w \in ws : v.key = w.key => v = w
    BY <2>1, StampedVersions
  <2> HIDE DEF ws, t
  <2>4. m \subseteq Version /\ IsFiniteSet(m) /\ Ordered(m, tree)
    BY <1>1, <2>2, <2>3, WriteKeeps
  <2>5. CASE Flush(m)
    <3>1. tree' = FlushMemtable(tree, m)
      BY <2>5 DEF Flush
    <3> HIDE DEF m
    <3>2. /\ Books(FlushMemtable(tree, m))
          /\ Cardinality(FlushMemtable(tree, m).levels[0]) <= 2 * MaxL0Files
      BY <1>1, <2>4, FlushBooks DEF L0Bounded
    <3>3. DeepDisjoint(FlushMemtable(tree, m))
      BY <1>1, <2>4, AddKeeps, FlushDeep DEF Books, Keeps
    <3> QED BY <1>2, <3>1, <3>2, <3>3 DEF NumbersInv, L0Bounded
  <2>6. QED BY <1>3, <1>5, <2>5 DEF PutBatch, ws
<1>6. CASE CompactorLock
  <2>1. /\ Books(CompactL0ToL1(tree))
        /\ Cardinality(CompactL0ToL1(tree).levels[0]) <= Cardinality(tree.levels[0])
    BY <1>1, L0Books
  <2>2. CASE tree' = CompactL0ToL1(tree)
    <3>1. Books(tree') /\ Cardinality(tree'.levels[0]) <= Cardinality(tree.levels[0])
      BY <2>1, <2>2
    <3>2. Cardinality(tree'.levels[0]) \in Nat
      BY <1>4, <3>1, FS_CardinalityType DEF Books, Shape
    <3>3. DeepDisjoint(tree')
      BY <1>1, <2>2, L0Deep DEF Books
    <3>4. L0Bounded'
      BY <1>1, <1>4, <3>1, <3>2, ShapeAssumption DEF L0Bounded
    <3> QED BY <1>2, <3>1, <3>3, <3>4 DEF NumbersInv
  <2>3. QED BY <1>3, <1>6, <2>2 DEF CompactorLock
<1>7. CASE CompactorLevel
  <2>1. CASE tree' = CompactLevel(tree, level)
    <3>1. Books(tree') /\ tree'.levels[0] = tree.levels[0]
      BY <1>1, <2>1, LevelBooks DEF IInv
    <3>2. DeepDisjoint(tree')
      BY <1>1, <2>1, LevelDeep DEF Books, IInv
    <3> QED BY <1>1, <1>2, <3>1, <3>2 DEF NumbersInv, L0Bounded
  <2>2. QED BY <1>3, <1>7, <2>1 DEF CompactorLevel
<1>8. CASE \/ UNCHANGED vars \/ CompactorReceive \/ CompactorUnlock
           \/ \E k \in Keys : Delete(k)
  BY <1>3, <1>8 DEF vars, CompactorReceive, CompactorUnlock, Delete
<1>9. QED BY <1>5, <1>6, <1>7, <1>8 DEF Next, Compactor

\* The books of the engine are in order in every run.
LEMMA NumbersAlways == Spec => []NumbersInv
BY InitNumbers, StepNumbers, PTL DEF Spec

\* A file number is never used twice, whatever the compactions and whatever
\* they drop: DoCompact numbers its outputs without gaps, so nextID, which
\* moves by how many there are, passes them all.
THEOREM FreshNumbersAlways == Spec => []FreshNumbers
<1>1. NumbersInv => FreshNumbers
  BY DEF NumbersInv, Books, Numbered, FreshNumbers
<1>2. QED BY <1>1, NumbersAlways, PTL

\* The LevelSizes that flushes and compactions adjust step by step are the
\* sizes of the levels, always.
THEOREM SizesExactAlways == Spec => []SizesExact
<1>1. NumbersInv => SizesExact
  BY DEF NumbersInv, Books, Counted, SizesExact
<1>2. QED BY <1>1, NumbersAlways, PTL

\* However far the goroutine falls behind, L0 holds at most twice maxL0Files
\* files: each flush adds one, and the writer that finds one too many takes at
\* least one away.
THEOREM L0BoundedAlways == Spec => []L0Bounded
<1>1. NumbersInv => L0Bounded
  BY DEF NumbersInv
<1>2. QED BY <1>1, NumbersAlways, PTL

\* Below L1 the files of a level never overlap: compactLevel always merges the
\* whole of two levels, so its outputs have no neighbours.
THEOREM DeepLevelsDisjointAlways == Spec => []DeepLevelsDisjoint
<1>1. NumbersInv => DeepLevelsDisjoint
  BY DEF NumbersInv, DeepDisjoint, DeepLevelsDisjoint
<1>2. QED BY <1>1, NumbersAlways, PTL
-----------------------------------------------------------------------------
(* One version of a key.                                                   *)

SingleTables(tr) == \A l \in Level : \A t \in tr.levels[l] : SingleKeyed(t.ents)

Single(m, tr) ==
  /\ SingleKeyed(m)
  /\ SingleTables(tr)
  /\ OneVersion(HeldBy(m, tr))

\* A merge keeps one version of a key in every file it writes.
LEMMA DoCompactSingle ==
  ASSUME NEW T, EntriesOf(T) \subseteq Version, OneVersion(EntriesOf(T)), NEW lv, NEW id
  PROVE  \A t \in DoCompact(T, lv, id) : SingleKeyed(t.ents)
<1>1. \A t \in DoCompact(T, lv, id) : t.ents \subseteq Merge(T, lv)
  BY DEF DoCompact
<1>2. \A v \in EntriesOf(T) : v.ts \in Nat
  BY DEF Version
<1>3. SingleKeyed(Newest(EntriesOf(T)))
  BY <1>2 DEF SingleKeyed, Newest, OneVersion
<1>4. QED BY <1>1, <1>3, MergeSubset DEF SingleKeyed

\* So does a compaction in every file of the tree.
LEMMA CompactionSingle ==
  ASSUME NEW tr, Shape(tr), SingleTables(tr),
         NEW m, OneVersion(HeldBy(m, tr)),
         NEW src \in Level, src + 1 \in Level,
         NEW from \in SUBSET tr.levels[src], NEW into \in SUBSET tr.levels[src + 1],
         NEW lv
  PROVE  SingleTables(Compacted(tr, src, from, into,
                                DoCompact(from \cup into, lv, tr.nextID)))
<1> DEFINE in  == from \cup into
           out == DoCompact(in, lv, tr.nextID)
           new == Compacted(tr, src, from, into, out)
<1>1. EntriesOf(in) \subseteq Version /\ EntriesOf(in) \subseteq HeldBy(m, tr)
  BY DEF EntriesOf, HeldBy, Shape, Table
<1>2. OneVersion(EntriesOf(in))
  BY <1>1 DEF OneVersion
<1> HIDE DEF in
<1>3. \A t \in out : SingleKeyed(t.ents)
  BY <1>1, <1>2, DoCompactSingle
<1> HIDE DEF out
<1>4. \A l \in Level : new.levels[l] \subseteq tr.levels[l] \cup out
  BY DEF Compacted, Shape
<1> HIDE DEF new
<1>5. SingleTables(new)
  BY <1>3, <1>4 DEF SingleTables
<1>6. QED BY <1>5 DEF new, out, in

\* compactL0ToL1.
LEMMA L0Single ==
  ASSUME NEW m, NEW tr, Shape(tr), SingleTables(tr), OneVersion(HeldBy(m, tr))
  PROVE  SingleTables(CompactL0ToL1(tr))
<1> DEFINE victims == OldestOf(tr.levels[0])
           overlap == Overlapping(tr.levels[1], victims)
<1>1. 0 \in Level /\ 0 + 1 = 1 /\ 0 + 1 \in Level
  BY ShapeAssumption DEF Level
<1>2. victims \in SUBSET tr.levels[0] /\ overlap \in SUBSET tr.levels[0 + 1]
  BY <1>1 DEF OldestOf, Overlapping
<1> HIDE DEF victims, overlap
<1>3. SingleTables(Compacted(tr, 0, victims, overlap,
                             DoCompact(victims \cup overlap, 1, tr.nextID)))
  BY <1>1, <1>2, CompactionSingle
<1>4. QED BY <1>3 DEF CompactL0ToL1, victims, overlap

\* compactLevel.
LEMMA LevelSingle ==
  ASSUME NEW m, NEW tr, Shape(tr), SingleTables(tr), OneVersion(HeldBy(m, tr)),
         NEW l \in Level
  PROVE  SingleTables(CompactLevel(tr, l))
<1>1. CASE l < 1 \/ l >= NumLevels - 1 \/ tr.levels[l] = {}
  BY <1>1 DEF CompactLevel
<1>2. CASE ~(l < 1 \/ l >= NumLevels - 1 \/ tr.levels[l] = {})
  <2>1. l + 1 \in Level
    BY <1>2, ShapeAssumption DEF Level
  <2>2. SingleTables(Compacted(tr, l, tr.levels[l], tr.levels[l + 1],
              DoCompact(tr.levels[l] \cup tr.levels[l + 1], l + 1, tr.nextID)))
    BY <2>1, CompactionSingle
  <2> QED BY <1>2, <2>2 DEF CompactLevel
<1>3. QED BY <1>1, <1>2

\* flushMemtable: the memtable, a map, becomes a file.
LEMMA FlushSingle ==
  ASSUME NEW m, m \subseteq Version, IsFiniteSet(m),
         NEW tr, Shape(tr), Ordered(m, tr), Single(m, tr)
  PROVE  Single({}, FlushMemtable(tr, m))
<1> DEFINE new == AddToL0(tr, m)
           end == FlushMemtable(tr, m)
<1>1. Keeps(m, tr, {}, new) /\ Keeps(m, tr, {}, end)
  BY AddKeeps, FlushKeeps
<1>2. OneVersion(HeldBy({}, new)) /\ OneVersion(HeldBy({}, end))
  BY <1>1 DEF Keeps, Single, OneVersion
<1>3. SingleTables(new)
  <2>1. \A l \in Level : \A t \in new.levels[l] : t \in tr.levels[l] \/ t.ents = m
    BY DEF AddToL0, Shape
  <2> HIDE DEF new
  <2> QED BY <2>1 DEF Single, SingleTables
<1> HIDE DEF new
<1>4. SingleTables(CompactL0ToL1(new))
  BY <1>1, <1>2, <1>3, L0Single DEF Keeps
<1>5. SingleTables(end)
  BY <1>3, <1>4 DEF FlushMemtable, WriterCompaction, new
<1> HIDE DEF end
<1>6. QED BY <1>2, <1>5 DEF Single, SingleKeyed, end

\* Writes that are newer than all there is and name each key once.
LEMMA WriteSingle ==
  ASSUME IInv, Single(memtable, tree),
         NEW ws, ws \subseteq Version, \A w \in ws : w.ts > now,
         SingleKeyed(ws)
  PROVE  Single(Overwrite(memtable, ws), tree)
<1> DEFINE m == Overwrite(memtable, ws)
<1>1. SingleKeyed(m)
  BY DEF Overwrite, Single, SingleKeyed
<1>2. HeldBy(m, tree) \subseteq HeldBy(memtable, tree) \cup ws
  BY DEF HeldBy, Overwrite
<1>3. \A v \in HeldBy(memtable, tree) : v.ts <= now /\ v.ts \in Nat
  BY HeldVersions DEF IInv, Stale, Version
<1>4. now \in Nat /\ \A w \in ws : w.ts \in Nat
  BY DEF IInv, Version
<1>5. OneVersion(HeldBy(memtable, tree) \cup ws)
  <2> DEFINE held == HeldBy(memtable, tree)
  <2>1. OneVersion(held) /\ OneVersion(ws)
    BY DEF Single, SingleKeyed, OneVersion
  <2>2. \A v \in held, w \in ws : v.ts # w.ts
    BY <1>3, <1>4
  <2> HIDE DEF held
  <2>3. OneVersion(held \cup ws)
    BY <2>1, <2>2 DEF OneVersion
  <2> QED BY <2>3 DEF held
<1> HIDE DEF m
<1>6. OneVersion(HeldBy(m, tree))
  BY <1>2, <1>5 DEF OneVersion
<1>7. QED BY <1>1, <1>6 DEF Single, m
-----------------------------------------------------------------------------
(* The search.                                                             *)

\* What the search relies on: the order and the books, and one version of a
\* key in a file.
ReadsInv == NumbersInv /\ Single(memtable, tree)

\* What View says of a key is what its newest version says.
LEMMA LiveOfNewest ==
  ASSUME OneVersion(HeldBy(memtable, tree)), HeldBy(memtable, tree) \subseteq Version,
         NEW k, NEW v \in Newest(HeldBy(memtable, tree)), v.key = k
  PROVE  LiveValue(k) = IF v.tombstone THEN {} ELSE {[key |-> k, ts |-> v.ts]}
<1> DEFINE held == HeldBy(memtable, tree)
           pair(w) == [key |-> w.key, ts |-> w.ts]
<1>1. \A w \in Newest(held) : w.key = k => w = v
  <2> SUFFICES ASSUME NEW w \in Newest(held), w.key = k PROVE w = v
    OBVIOUS
  <2>1. w \in held /\ v \in held /\ w.ts <= v.ts /\ v.ts <= w.ts
    BY DEF Newest
  <2>2. w.ts \in Nat /\ v.ts \in Nat
    BY <2>1 DEF Version
  <2> QED BY <2>1, <2>2 DEF OneVersion
<1>2. LiveValue(k) = {p \in {pair(w) : w \in {w \in Newest(held) : ~w.tombstone}} : p.key = k}
  BY DEF LiveValue, View, LiveOf
<1>3. \A w : pair(w).key = w.key
  OBVIOUS
<1>4. pair(v) = [key |-> k, ts |-> v.ts]
  OBVIOUS
<1> HIDE DEF pair, held
<1>5. CASE v.tombstone
  <2>1. LiveValue(k) = {}
    BY <1>1, <1>2, <1>3, <1>5
  <2> QED BY <1>5, <2>1
<1>6. CASE ~v.tombstone
  <2>1. pair(v) \in LiveValue(k)
    BY <1>2, <1>3, <1>6 DEF held
  <2>2. \A p \in LiveValue(k) : p = pair(v)
    BY <1>1, <1>2, <1>3
  <2>3. LiveValue(k) = {pair(v)}
    BY <2>1, <2>2
  <2> QED BY <1>4, <1>6, <2>3
<1>7. QED BY <1>5, <1>6

\* The version the search answers with is the newest one of the key.
LEMMA LookupNewest ==
  ASSUME ReadsInv, NEW k \in Keys, ~Shadowed(k),
         \E v \in HeldBy(memtable, tree) : v.key = k
  PROVE  Lookup(k) \in Newest(HeldBy(memtable, tree)) /\ Lookup(k).key = k
<1> DEFINE held == HeldBy(memtable, tree)
           holders(l) == {t \in tree.levels[l] : k \in KeysOf(t.ents)}
           hit == {l \in Level : holders(l) # {}}
           l0  == CHOOSE l \in hit : \A j \in hit : l <= j
           t0  == CHOOSE t \in holders(l0) : \A u \in holders(l0) : t.id <= u.id
\* Where a version of k can be.
<1>1. \A w \in held : w.key = k =>
        \/ w \in memtable
        \/ \E l \in hit : \E u \in holders(l) : w \in u.ents
  BY DEF HeldBy, EntriesOf, KeysOf
<1>2. /\ MemtableNewest(memtable, tree) /\ LevelsByAge(tree)
      /\ SingleKeyed(memtable) /\ SingleTables(tree)
      /\ DeepDisjoint(tree) /\ Shape(tree)
      /\ held \subseteq Version
  BY HeldVersions DEF ReadsInv, NumbersInv, IInv, Ordered, Single
<1>3. \A w \in held : w.ts \in Nat
  BY <1>2 DEF Version
<1>4. CASE k \in KeysOf(memtable)
  <2> DEFINE v == CHOOSE v \in memtable : v.key = k
  <2>1. v \in memtable /\ v.key = k
    BY <1>4 DEF KeysOf
  <2>2. Lookup(k) = v
    BY <1>4 DEF Lookup
  <2> HIDE DEF v
  <2>3. v \in held
    BY <2>1 DEF HeldBy
  <2>4. ASSUME NEW w \in held, w.key = k PROVE w.ts <= v.ts
    <3>1. CASE w \in memtable
      <4>1. w = v
        BY <1>2, <2>1, <2>4, <3>1 DEF SingleKeyed
      <4> HIDE DEF held
      <4> QED BY <1>3, <2>3, <4>1
    <3>2. CASE \E l \in hit : \E u \in holders(l) : w \in u.ents
      <4>1. \E l \in Level : w \in EntriesOf(tree.levels[l])
        BY <3>2 DEF EntriesOf
      <4>2. v.ts > w.ts
        BY <1>2, <2>1, <2>4, <4>1 DEF MemtableNewest, Newer
      <4> QED BY <1>3, <2>3, <4>2
    <3> QED BY <1>1, <2>4, <3>1, <3>2
  <2> QED BY <2>1, <2>2, <2>3, <2>4 DEF Newest
<1>5. CASE k \notin KeysOf(memtable)
  <2> DEFINE v == CHOOSE v \in t0.ents : v.key = k
  <2>1. \A w \in held : w.key = k => \E l \in hit : \E u \in holders(l) : w \in u.ents
    BY <1>1, <1>5 DEF KeysOf
  <2>2. hit # {}
    BY <2>1
  <2>3. l0 \in hit /\ \A j \in hit : l0 <= j
    <3>1. hit \in SUBSET Nat
      BY DEF Level
    <3> HIDE DEF hit
    <3> QED BY <2>2, <3>1, LeastNumber
  <2>4. l0 \in Level /\ holders(l0) # {} /\ holders(l0) \subseteq tree.levels[l0]
    BY <2>3
  <2> HIDE DEF l0
  <2>5. \E t \in holders(l0) : \A u \in holders(l0) : t.id <= u.id
    <3> DEFINE ids == {t.id : t \in holders(l0)}
    <3>1. ids \in SUBSET Nat /\ ids # {}
      BY <1>2, <2>4 DEF Shape, Table
    <3> HIDE DEF holders
    <3>2. PICK i \in ids : \A j \in ids : i <= j
      <4> HIDE DEF ids
      <4> QED BY <3>1, LeastNumber
    <3> QED BY <3>2
  <2>6. t0 \in holders(l0)
    <3> HIDE DEF holders
    <3> QED BY <2>5
  <2>7. Lookup(k) = v
    <3>1. Lookup(k) = IF hit = {} THEN None ELSE v
      BY <1>5 DEF Lookup, l0
    <3> HIDE DEF hit, v
    <3> QED BY <2>2, <3>1
  <2> HIDE DEF t0
  <2>8. v \in t0.ents /\ v.key = k
    BY <2>6 DEF KeysOf
  <2> HIDE DEF v
  <2>9. v \in EntriesOf(tree.levels[l0]) /\ v \in held
    BY <2>4, <2>6, <2>8 DEF EntriesOf, HeldBy
  \* No other file of that level holds the key.
  <2>10. \A u \in holders(l0) : u = t0
    <3> SUFFICES ASSUME NEW u \in holders(l0), u # t0 PROVE FALSE
      OBVIOUS
    <3>1. /\ u \in tree.levels[l0] /\ t0 \in tree.levels[l0]
          /\ k \in KeysOf(u.ents) /\ k \in KeysOf(t0.ents) /\ ~(k < k)
      BY <2>6, KeysAssumption
    <3>2. CASE l0 \in {0, 1}
      BY <3>1, <3>2 DEF Shadowed
    <3>3. CASE l0 \notin {0, 1}
      <4>1. KeyRangesDisjoint(tree.levels[l0])
        BY <1>2, <2>4, <3>3 DEF DeepDisjoint
      <4> QED BY <3>1, <4>1 DEF KeyRangesDisjoint
    <3> QED BY <3>2, <3>3
  <2>11. ASSUME NEW w \in held, w.key = k PROVE w.ts <= v.ts
    <3>1. PICK l \in hit : \E u \in holders(l) : w \in u.ents
      BY <2>1, <2>11
    <3>2. CASE l = l0
      <4>1. w \in t0.ents
        BY <2>10, <3>1, <3>2
      <4>2. SingleKeyed(t0.ents)
        BY <1>2, <2>4, <2>6 DEF SingleTables
      <4>3. w = v
        BY <2>8, <2>11, <4>1, <4>2 DEF SingleKeyed
      <4> QED BY <1>3, <2>9, <4>3
    <3>3. CASE l # l0
      <4>1. l \in Level /\ l0 < l
        BY <2>3, <2>4, <3>1, <3>3 DEF Level
      <4>2. w \in EntriesOf(tree.levels[l])
        BY <3>1 DEF EntriesOf
      <4>3. v.ts > w.ts
        BY <1>2, <2>4, <2>8, <2>9, <2>11, <4>1, <4>2 DEF LevelsByAge, Newer
      <4> QED BY <1>3, <2>9, <4>3
    <3> QED BY <3>2, <3>3
  <2> QED BY <2>7, <2>8, <2>9, <2>11 DEF Newest
<1>6. QED BY <1>4, <1>5

\* A key no version of which is held is answered with "not found".
LEMMA LookupMisses ==
  ASSUME NEW k, ~\E v \in HeldBy(memtable, tree) : v.key = k
  PROVE  Lookup(k) = None /\ LiveValue(k) = {}
<1>1. k \notin KeysOf(memtable)
  BY DEF KeysOf, HeldBy
<1>2. \A l \in Level : {t \in tree.levels[l] : k \in KeysOf(t.ents)} = {}
  BY DEF KeysOf, HeldBy, EntriesOf
<1>3. Lookup(k) = None
  BY <1>1, <1>2 DEF Lookup
<1>4. LiveValue(k) = {}
  BY DEF LiveValue, View, LiveOf, Newest
<1>5. QED BY <1>3, <1>4

\* A Get answers with the live value.
LEMMA ReadsNewest == ReadsInv => GetNewestWhenUnshadowed
<1> SUFFICES ASSUME ReadsInv, NEW k \in Keys, ~Shadowed(k)
             PROVE  Get(k) = LiveValue(k)
  BY DEF GetNewestWhenUnshadowed
<1>1. CASE \E v \in HeldBy(memtable, tree) : v.key = k
  <2>1. Lookup(k) \in Newest(HeldBy(memtable, tree)) /\ Lookup(k).key = k
    BY <1>1, LookupNewest
  <2>2. /\ OneVersion(HeldBy(memtable, tree))
        /\ HeldBy(memtable, tree) \subseteq Version
    BY HeldVersions DEF ReadsInv, NumbersInv, IInv, Single
  <2> QED BY <2>1, <2>2, LiveOfNewest DEF Get
<1>2. CASE ~\E v \in HeldBy(memtable, tree) : v.key = k
  BY <1>2, LookupMisses DEF Get, None
<1>3. QED BY <1>1, <1>2
-----------------------------------------------------------------------------
(* The running engine.                                                     *)

\* An engine without entries has no key twice.
THEOREM InitReads == Init => ReadsInv
<1> SUFFICES ASSUME Init PROVE ReadsInv
  OBVIOUS
<1>1. \A l \in Level : tree.levels[l] = {}
  BY DEF Init
<1>2. HeldBy(memtable, tree) = {}
  BY <1>1 DEF Init, HeldBy, EntriesOf
<1>3. Single(memtable, tree)
  BY <1>1, <1>2 DEF Init, Single, SingleKeyed, SingleTables, OneVersion
<1>4. QED BY <1>3, InitNumbers DEF ReadsInv

\* One step per action.
THEOREM StepReads == ReadsInv /\ [Next]_vars => ReadsInv'
<1> SUFFICES ASSUME ReadsInv, [Next]_vars PROVE ReadsInv'
  OBVIOUS
<1>1. NumbersInv /\ IInv /\ Single(memtable, tree)
  BY DEF ReadsInv, NumbersInv
<1>2. NumbersInv'
  BY <1>1, StepNumbers
<1>3. CASE UNCHANGED <<memtable, tree>>
  BY <1>1, <1>2, <1>3 DEF ReadsInv
<1>4. ASSUME NEW kvs \in Batches, PutBatch(kvs) PROVE ReadsInv'
  <2> DEFINE ws == Stamped(kvs, now)
             m  == Overwrite(memtable, ws)
             t  == now + Len(kvs)
  <2>1. kvs \in Seq(Keys) /\ now \in Nat /\ t \in Nat /\ now <= t
    BY <1>1, WorkloadAssumption DEF IInv
  <2>2. /\ ws \subseteq Version /\ IsFiniteSet(ws)
        /\ \A w \in ws : w.ts > now /\ w.ts <= t
        /\ \A v, w \in ws : v.key = w.key => v = w
    BY <2>1, StampedVersions
  <2> HIDE DEF ws, t
  <2>3. m \subseteq Version /\ IsFiniteSet(m) /\ Ordered(m, tree)
    BY <1>1, <2>1, <2>2, WriteKeeps
  <2>4. Single(m, tree)
    BY <1>1, <2>2, WriteSingle DEF SingleKeyed
  <2> HIDE DEF m
  <2>5. CASE memtable' = m /\ UNCHANGED tree
    BY <1>2, <2>4, <2>5 DEF ReadsInv
  <2>6. CASE Flush(m)
    <3>1. Single({}, FlushMemtable(tree, m))
      BY <1>1, <2>3, <2>4, FlushSingle DEF IInv
    <3>2. memtable' = {} /\ tree' = FlushMemtable(tree, m)
      BY <2>6 DEF Flush
    <3> QED BY <1>2, <3>1, <3>2 DEF ReadsInv
  <2>7. QED BY <1>4, <2>5, <2>6 DEF PutBatch, m, ws
<1>5. ASSUME NEW k \in Keys, Delete(k) PROVE ReadsInv'
  <2>1. Single(Overwrite(memtable, {Tomb(k)}), tree)
    BY <1>1, TombVersion, WriteSingle DEF SingleKeyed
  <2>2. memtable' = Overwrite(memtable, {Tomb(k)}) /\ tree' = tree
    BY <1>5 DEF Delete, Tomb
  <2> QED BY <1>2, <2>1, <2>2 DEF ReadsInv
<1>6. ASSUME Keeps(memtable, tree, memtable, tree'), SingleTables(tree'),
             memtable' = memtable
      PROVE  ReadsInv'
  <2>1. OneVersion(HeldBy(memtable, tree'))
    BY <1>1, <1>6 DEF Keeps, Single, OneVersion
  <2>2. Single(memtable, tree')
    BY <1>1, <1>6, <2>1 DEF Single
  <2> QED BY <1>2, <1>6, <2>2 DEF ReadsInv
<1>7. CASE CompactorLock
  <2>1. CASE tree' = CompactL0ToL1(tree)
    BY <1>1, <1>6, <1>7, <2>1, L0Keeps, L0Single DEF CompactorLock, IInv, Single
  <2>2. QED BY <1>3, <1>7, <2>1 DEF CompactorLock
<1>8. CASE CompactorLevel
  <2>1. CASE tree' = CompactLevel(tree, level)
    BY <1>1, <1>6, <1>8, <2>1, LevelKeeps, LevelSingle DEF CompactorLevel, IInv, Single
  <2>2. QED BY <1>3, <1>8, <2>1 DEF CompactorLevel
<1>9. CASE UNCHANGED vars \/ CompactorReceive \/ CompactorUnlock
  BY <1>3, <1>9 DEF vars, CompactorReceive, CompactorUnlock
<1>10. QED BY <1>4, <1>5, <1>7, <1>8, <1>9 DEF Next, Compactor

\* The invariant of the reads holds in every run.
LEMMA ReadsAlways == Spec => []ReadsInv
BY InitReads, StepReads, PTL DEF Spec

\* README "newest version wins", for the keys that no two files of L0 and no
\* two of L1 hold: the memtable first and then the levels from the top is the
\* order of age, below L1 the files do not overlap, and a file stores one
\* version of a key, so the first version met is the newest one held.
THEOREM GetNewestWhenUnshadowedAlways == Spec => []GetNewestWhenUnshadowed
BY ReadsAlways, ReadsNewest, PTL

\* The types of Lsm hold in every run: among them that PutBatch, the memtable and
\* DoCompact leave one version of a key wherever they put it, and that no version is
\* stamped later than the clock.
THEOREM TypeCorrect == Spec => []TypeOK
<1>1. ReadsInv => TypeOK
  BY DEF ReadsInv, NumbersInv, IInv, Shape, Stale, Single, SingleTables, TypeOK
<1>2. QED BY <1>1, ReadsAlways, PTL
-----------------------------------------------------------------------------
(* The merge, and its inductive invariant.                                 *)

Dropped(v) == v.tombstone /\ outLevel >= BottomLevel

\* The heap holds the next entry of every input that has one.
Heads ==
  /\ heap \subseteq [src : inputs, v : Version]
  /\ unread \in [inputs -> SUBSET Version]
  /\ \A e \in heap : /\ e.v \in e.src.ents
                     /\ \A u \in unread[e.src] : e.v.key < u.key
  /\ \A t \in inputs : /\ unread[t] \subseteq t.ents
                       /\ unread[t] # {} => \E e \in heap : e.src = t

\* What is behind lastKey has been read, what is ahead of it has not.
Frontier ==
  /\ lastKey \in Nat /\ EmptyKey <= lastKey
  /\ \A v \in Unread : lastKey <= v.key
  /\ \A v \in EntriesOf(inputs) : v \in Unread \/ v.key <= lastKey

\* What was written is the merge, up to lastKey.
WrittenSoFar == Written = {v \in Merge(inputs, outLevel) : v.key <= lastKey}

\* The invariant of the merge.
MergeInv == inputs \in Inputs /\ Heads /\ Frontier /\ WrittenSoFar

\* The entry an iterator returns next has the least key that is left.
LEMMA FirstLeast ==
  ASSUME NEW vs, vs \subseteq Version, vs # {}
  PROVE  First(vs) \in vs /\ \A u \in vs : First(vs).key <= u.key
<1> DEFINE keys == {v.key : v \in vs}
<1>1. keys \in SUBSET Nat /\ keys # {}
  BY KeysAssumption DEF Version
<1>2. PICK k \in keys : \A j \in keys : k <= j
  <2> HIDE DEF keys
  <2> QED BY <1>1, LeastNumber
<1>3. \E v \in vs : \A u \in vs : v.key <= u.key
  BY <1>2
<1>4. QED BY <1>3 DEF First

\* What the inputs hold: versions, of which no two of a key tie.
LEMMA InputVersions ==
  ASSUME inputs \in Inputs
  PROVE  /\ inputs \subseteq Table
         /\ EntriesOf(inputs) \subseteq Version
         /\ OneVersion(EntriesOf(inputs))
         /\ \A t \in inputs : \A v, w \in t.ents : v.key = w.key => v = w
         /\ \A v \in Version : v.key \in Nat /\ v.ts \in Nat /\ EmptyKey <= v.key
<1>1. inputs \subseteq Table
  BY InputsAssumption
<1>2. EntriesOf(inputs) \subseteq Version
  BY <1>1 DEF EntriesOf, Table
<1>3. \A t, u \in inputs : \A v \in t.ents, w \in u.ents :
        v.key = w.key /\ (t = u \/ v.ts = w.ts) => v = w
  BY InputsAssumption
<1>4. OneVersion(EntriesOf(inputs))
  BY <1>3 DEF OneVersion, EntriesOf
<1>5. \A v \in Version : v.key \in Nat /\ v.ts \in Nat /\ EmptyKey <= v.key
  BY KeysAssumption DEF Version
<1>6. QED BY <1>1, <1>2, <1>3, <1>4, <1>5

\* heap.Pop returns a least version of what is left, the newest of its key,
\* and with the push of its successor only that one is gone.
LEMMA PopPushLeast ==
  ASSUME inputs \in Inputs, Heads, NEW e \in heap, PopPush(e), inputs' = inputs
  PROVE  /\ Heads'
         /\ e.v \in Unread /\ e.v \in EntriesOf(inputs) /\ Unread \subseteq EntriesOf(inputs)
         /\ \A v \in Unread : e.v.key <= v.key /\ (v.key = e.v.key => v.ts <= e.v.ts)
         /\ Unread' \subseteq Unread
         /\ Unread \subseteq Unread' \cup {e.v}
<1> DEFINE s     == e.src
           next  == First(unread[s])
           pushed == [src |-> s, v |-> next]
           rest  == {v \in unread[s] : v # next}
<1>1. /\ heap \subseteq [src : inputs, v : Version]
      /\ unread \in [inputs -> SUBSET Version]
      /\ \A f \in heap : f.v \in f.src.ents /\ \A u \in unread[f.src] : f.v.key < u.key
      /\ \A t \in inputs : unread[t] \subseteq t.ents
      /\ \A t \in inputs : unread[t] # {} => \E f \in heap : f.src = t
  BY DEF Heads
<1>2. s \in inputs /\ e.v \in Version /\ \A f \in heap : f.src \in inputs /\ f.v \in Version
  BY <1>1
<1>3. /\ heap' = (heap \ {e}) \cup (IF unread[s] = {} THEN {} ELSE {pushed})
      /\ unread' = [unread EXCEPT ![s] = rest]
      /\ \A f \in heap : ~Less(f, e)
  BY <1>1, <1>2 DEF PopPush
<1>4. /\ unread'[s] = rest
      /\ \A t \in inputs : t # s => unread'[t] = unread[t]
      /\ \A t \in inputs : unread'[t] \subseteq unread[t]
      /\ unread' \in [inputs -> SUBSET Version]
  BY <1>1, <1>2, <1>3
<1>5. \A v \in Version : v.key \in Nat /\ v.ts \in Nat
  BY InputVersions
<1>6. unread[s] # {} => next \in unread[s] /\ \A u \in rest : next.key < u.key
  <2> SUFFICES ASSUME unread[s] # {}
               PROVE  next \in unread[s] /\ \A u \in rest : next.key < u.key
    OBVIOUS
  <2>1. next \in unread[s] /\ \A u \in unread[s] : next.key <= u.key
    BY <1>1, <1>2, FirstLeast
  <2>2. \A u \in rest : next.key # u.key
    BY <1>1, <1>2, <2>1, InputVersions
  <2>3. \A u \in rest : u \in Version /\ next \in Version
    BY <1>1, <1>2, <2>1
  <2> HIDE DEF next
  <2> QED BY <1>5, <2>1, <2>2, <2>3
<1>7. Unread \subseteq EntriesOf(inputs)
  BY <1>1, <1>2 DEF Unread, EntriesOf
<1>8. e.v \in Unread /\ e.v \in EntriesOf(inputs)
  BY <1>1, <1>2 DEF Unread, EntriesOf
\* The head of the heap is the least of what is left.
<1>9. \A f \in heap : e.v.key <= f.v.key /\ (f.v.key = e.v.key => f.v.ts <= e.v.ts)
  BY <1>2, <1>3, <1>5 DEF Less
<1>10. ASSUME NEW v \in Unread
       PROVE  e.v.key <= v.key /\ (v.key = e.v.key => v.ts <= e.v.ts)
  <2>1. CASE \E f \in heap : v = f.v
    BY <1>9, <2>1
  <2>2. CASE \E t \in inputs : v \in unread[t]
    <3>1. PICK t \in inputs : v \in unread[t]
      BY <2>2
    <3>2. PICK f \in heap : f.src = t
      BY <1>1, <3>1
    <3>3. f.v.key < v.key /\ v \in Version
      BY <1>1, <3>1, <3>2
    <3> QED BY <1>2, <1>5, <1>9, <3>3
  <2> QED BY <2>1, <2>2 DEF Unread
<1> HIDE DEF next, rest
<1>11. pushed.src = s /\ pushed.v = next
  OBVIOUS
<1>12. unread[s] # {} => pushed \in [src : inputs, v : Version]
  BY <1>1, <1>2, <1>6
<1> HIDE DEF pushed
<1>13. \A f \in heap' : f \in heap \/ (f = pushed /\ unread[s] # {})
  BY <1>3
<1>14. Heads'
  <2>1. heap' \subseteq [src : inputs, v : Version]
    BY <1>1, <1>12, <1>13
  <2>2. ASSUME NEW f \in heap'
        PROVE  f.v \in f.src.ents /\ \A u \in unread'[f.src] : f.v.key < u.key
    <3>1. CASE f \in heap
      BY <1>1, <1>2, <1>4, <3>1
    <3>2. CASE f = pushed /\ unread[s] # {}
      BY <1>1, <1>2, <1>4, <1>6, <1>11, <3>2
    <3> QED BY <1>13, <3>1, <3>2
  <2>3. \A t \in inputs : unread'[t] \subseteq t.ents
    BY <1>1, <1>4
  <2>4. ASSUME NEW t \in inputs, unread'[t] # {} PROVE \E f \in heap' : f.src = t
    <3>1. unread[t] # {}
      BY <1>4, <2>4
    <3>2. CASE t = s
      BY <1>3, <1>11, <3>1, <3>2
    <3>3. CASE t # s
      <4>1. PICK f \in heap : f.src = t
        BY <1>1, <3>1
      <4> QED BY <1>3, <3>3, <4>1
    <3> QED BY <3>2, <3>3
  <2> QED BY <1>4, <2>1, <2>2, <2>3, <2>4 DEF Heads
<1>15. Unread' = {f.v : f \in heap'} \cup UNION {unread'[t] : t \in inputs}
  BY DEF Unread
<1>16. Unread' \subseteq Unread
  <2>1. \A f \in heap' : f.v \in Unread
    BY <1>2, <1>6, <1>11, <1>13 DEF Unread
  <2>2. \A t \in inputs : unread'[t] \subseteq Unread
    BY <1>4 DEF Unread
  <2> QED BY <1>15, <2>1, <2>2
<1>17. Unread \subseteq Unread' \cup {e.v}
  <2>1. \A f \in heap : f.v \in Unread' \cup {e.v}
    BY <1>3, <1>15
  <2>2. ASSUME NEW t \in inputs, NEW v \in unread[t] PROVE v \in Unread'
    <3>1. CASE v \in unread'[t]
      BY <1>15, <3>1
    <3>2. CASE v \notin unread'[t]
      <4>1. t = s /\ v = next
        BY <1>4, <2>2, <3>2 DEF rest
      <4>2. pushed \in heap' /\ pushed.v = v
        BY <1>3, <1>11, <2>2, <4>1
      <4> QED BY <1>15, <4>2
    <3> QED BY <3>1, <3>2
  <2> QED BY <2>1, <2>2 DEF Unread
<1>18. QED BY <1>7, <1>8, <1>10, <1>14, <1>16, <1>17
-----------------------------------------------------------------------------
(* The steps.                                                              *)

\* The invariant says of the rest what NeverLosesNewest says.
LEMMA FrontierMerge ==
  ASSUME inputs \in Inputs, Frontier, Unread \subseteq EntriesOf(inputs)
  PROVE  {v \in Merge(inputs, outLevel) : lastKey < v.key} =
           {v \in Newest(Unread) : v.key # lastKey /\ ~Dropped(v)}
<1> DEFINE all == EntriesOf(inputs)
<1>1. all \subseteq Version /\ \A v \in all : v.key \in Nat /\ EmptyKey <= v.key
  BY InputVersions
<1>2. /\ lastKey \in Nat /\ EmptyKey <= lastKey
      /\ \A v \in Unread : lastKey <= v.key
      /\ \A v \in all : v \in Unread \/ v.key <= lastKey
  BY DEF Frontier
<1>3. EmptyKey \in Nat
  BY KeysAssumption
<1>4. \A v : v \in Merge(inputs, outLevel) <=>
               v \in Newest(all) /\ v.key # EmptyKey /\ ~Dropped(v)
  BY DEF Merge, Dropped
<1> HIDE DEF all
<1>5. ASSUME NEW v \in Merge(inputs, outLevel), lastKey < v.key
      PROVE  v \in Newest(Unread) /\ v.key # lastKey /\ ~Dropped(v)
  <2>1. v \in all /\ v \in Newest(all) /\ ~Dropped(v)
    BY <1>4 DEF Newest
  <2>2. v \in Unread
    BY <1>1, <1>2, <1>5, <2>1
  <2>3. v \in Newest(Unread)
    BY <2>1, <2>2 DEF Newest, all
  <2> QED BY <1>2, <1>5, <2>1, <2>3
<1>6. ASSUME NEW v \in Newest(Unread), v.key # lastKey, ~Dropped(v)
      PROVE  v \in Merge(inputs, outLevel) /\ lastKey < v.key
  <2>1. v \in Unread /\ v \in all
    BY DEF Newest, all
  <2>2. v.key \in Nat /\ lastKey < v.key
    BY <1>1, <1>2, <1>6, <2>1
  <2>3. \A w \in all : w.key = v.key => w \in Unread
    BY <1>1, <1>2, <2>2
  <2>4. v \in Newest(all)
    BY <2>1, <2>3 DEF Newest
  <2>5. v.key # EmptyKey
    BY <1>2, <1>3, <2>2
  <2> QED BY <1>4, <1>6, <2>2, <2>4, <2>5
<1>7. QED BY <1>5, <1>6

\* What is left belongs to the inputs.
LEMMA UnreadInputs ==
  ASSUME inputs \in Inputs, Heads
  PROVE  Unread \subseteq EntriesOf(inputs)
BY DEF Heads, Unread, EntriesOf

\* Popping an entry of another key than lastKey, which is then lastKey, keeps
\* the invariant if the entry is written unless it is to be dropped.
LEMMA AdvanceKeeps ==
  ASSUME MergeInv, NEW e \in heap, PopPush(e), UNCHANGED <<inputs, outLevel>>,
         ~Skipped(e.v), lastKey' = e.v.key,
         Written' = Written \cup (IF Dropped(e.v) THEN {} ELSE {e.v})
  PROVE  MergeInv' /\ e.v.key > lastKey
<1> DEFINE m   == e.v
           all == EntriesOf(inputs)
           mrg == Merge(inputs, outLevel)
<1>1. /\ Heads'
      /\ m \in Unread /\ m \in all /\ Unread \subseteq all
      /\ \A v \in Unread : m.key <= v.key /\ (v.key = m.key => v.ts <= m.ts)
      /\ Unread' \subseteq Unread
      /\ Unread \subseteq Unread' \cup {m}
  BY PopPushLeast DEF MergeInv
<1>2. /\ inputs \in Inputs /\ Frontier /\ WrittenSoFar
      /\ inputs' = inputs /\ outLevel' = outLevel
  BY DEF MergeInv
<1>3. /\ all \subseteq Version /\ OneVersion(all)
      /\ \A v \in all : v.key \in Nat /\ v.ts \in Nat /\ EmptyKey <= v.key
  BY <1>2, InputVersions
<1>4. /\ lastKey \in Nat /\ EmptyKey <= lastKey
      /\ \A v \in Unread : lastKey <= v.key
      /\ \A v \in all : v \in Unread \/ v.key <= lastKey
  BY <1>2 DEF Frontier
<1>5. lastKey < m.key
  BY <1>1, <1>3, <1>4 DEF Skipped
<1>6. Frontier'
  <2>1. lastKey' \in Nat /\ EmptyKey <= lastKey'
    BY <1>1, <1>3
  <2>2. \A v \in Unread' : lastKey' <= v.key
    BY <1>1
  <2>3. \A v \in all : v \in Unread' \/ v.key <= lastKey'
    <3> SUFFICES ASSUME NEW v \in all, v \notin Unread' PROVE v.key <= m.key
      OBVIOUS
    <3>1. v = m \/ v \notin Unread
      BY <1>1
    <3> QED BY <1>1, <1>3, <1>4, <1>5, <3>1
  <2> HIDE DEF all
  <2> QED BY <1>2, <2>1, <2>2, <2>3 DEF Frontier, all
\* The next version of the merge is m, if m is not dropped.
<1>7. \A v : v \in mrg /\ lastKey < v.key <=>
               v \in Newest(Unread) /\ v.key # lastKey /\ ~Dropped(v)
  <2>1. {v \in mrg : lastKey < v.key} =
          {v \in Newest(Unread) : v.key # lastKey /\ ~Dropped(v)}
    BY <1>1, <1>2, FrontierMerge
  <2> HIDE DEF mrg
  <2> QED BY <2>1
<1>8. m \in Newest(Unread)
  BY <1>1 DEF Newest
<1>9. \A v : v \in mrg /\ lastKey < v.key /\ v.key <= m.key <=> v = m /\ ~Dropped(m)
  <2>1. ASSUME NEW v, v \in mrg, lastKey < v.key, v.key <= m.key
        PROVE  v = m /\ ~Dropped(m)
    <3>1. v \in Newest(Unread) /\ ~Dropped(v)
      BY <1>7, <2>1
    <3>2. v \in Unread /\ v \in all /\ m.key <= v.key /\ v.ts <= m.ts /\ m.ts <= v.ts
      <4>1. v \in Unread /\ v \in all
        BY <1>1, <3>1 DEF Newest
      <4>2. m.key = v.key
        BY <1>1, <1>3, <2>1, <4>1
      <4> QED BY <1>1, <3>1, <4>1, <4>2 DEF Newest
    <3>3. v.key = m.key /\ v.ts = m.ts
      BY <1>1, <1>3, <2>1, <3>2
    <3>4. v = m
      BY <1>1, <1>3, <3>2, <3>3 DEF OneVersion
    <3> QED BY <3>1, <3>4
  <2>2. ~Dropped(m) => m \in mrg /\ lastKey < m.key /\ m.key <= m.key
    BY <1>1, <1>3, <1>5, <1>7, <1>8, <1>4
  <2> QED BY <2>1, <2>2
<1>10. \A v \in mrg : v.key \in Nat
  BY <1>3, MergeSubset
<1>11. WrittenSoFar'
  <2>1. Written = {v \in mrg : v.key <= lastKey}
    BY <1>2 DEF WrittenSoFar
  <2>2. m.key \in Nat
    BY <1>1, <1>3
  <2> HIDE DEF mrg
  <2>3. Written' = {v \in mrg : v.key <= m.key}
    <3>1. \A v : v \in Written' <=> v \in Written \/ (v = m /\ ~Dropped(m))
      OBVIOUS
    <3>2. \A v : v \in Written' => v \in mrg /\ v.key <= m.key
      BY <1>4, <1>5, <1>9, <1>10, <2>1, <2>2, <3>1
    <3>3. \A v : v \in mrg /\ v.key <= m.key => v \in Written'
      BY <1>4, <1>9, <1>10, <2>1, <2>2, <3>1
    <3> QED BY <3>2, <3>3
  <2>4. WrittenSoFar' <=> Written' = {v \in Merge(inputs', outLevel') : v.key <= lastKey'}
    BY DEF WrittenSoFar
  <2> QED BY <1>2, <2>3, <2>4 DEF mrg
<1>12. QED BY <1>1, <1>2, <1>5, <1>6, <1>11 DEF MergeInv

\* It holds when every input has given its first entry to the heap.
THEOREM InitMerge == MergeInit => MergeInv
<1> SUFFICES ASSUME MergeInit PROVE MergeInv
  OBVIOUS
<1> DEFINE nonempty == {t \in inputs : t.ents # {}}
           head(t)  == [src |-> t, v |-> First(t.ents)]
<1>1. /\ inputs \in Inputs /\ lastKey = EmptyKey
      /\ heap = {head(t) : t \in nonempty}
      /\ unread = [t \in inputs |-> {v \in t.ents : v # First(t.ents)}]
      /\ Written = {}
  BY DEF MergeInit, Written, EntriesOf
<1>2. /\ inputs \subseteq Table
      /\ EntriesOf(inputs) \subseteq Version
      /\ \A t \in inputs : \A v, w \in t.ents : v.key = w.key => v = w
      /\ \A v \in Version : v.key \in Nat /\ EmptyKey <= v.key
  BY <1>1, InputVersions
<1>3. ASSUME NEW t \in nonempty
      PROVE  /\ First(t.ents) \in t.ents
             /\ \A u \in unread[t] : First(t.ents).key < u.key
  <2>1. t.ents \subseteq Version /\ t.ents # {} /\ t \in inputs
    BY <1>2 DEF Table
  <2>2. First(t.ents) \in t.ents /\ \A u \in t.ents : First(t.ents).key <= u.key
    BY <2>1, FirstLeast
  <2>3. unread[t] = {v \in t.ents : v # First(t.ents)}
    BY <1>1, <2>1
  <2>4. \A u \in t.ents : u # First(t.ents) => u.key # First(t.ents).key
    BY <1>2, <2>1, <2>2
  <2>5. \A u \in t.ents : u.key \in Nat
    BY <1>2, <2>1
  <2> QED BY <2>2, <2>3, <2>4, <2>5
<1>4. \A t \in nonempty : head(t).src = t /\ head(t).v = First(t.ents)
  OBVIOUS
<1>5. \A t \in nonempty : First(t.ents) \in Version
  BY <1>2, <1>3 DEF Table
<1>6. Heads
  <2>1. heap \subseteq [src : inputs, v : Version]
    BY <1>1, <1>5
  <2>2. unread \in [inputs -> SUBSET Version]
    BY <1>1, <1>2 DEF Table
  <2> HIDE DEF head
  <2>3. \A e \in heap : /\ e.v \in e.src.ents
                        /\ \A u \in unread[e.src] : e.v.key < u.key
    BY <1>1, <1>3, <1>4
  <2>4. \A t \in inputs : /\ unread[t] \subseteq t.ents
                          /\ unread[t] # {} => \E e \in heap : e.src = t
    <3> TAKE t \in inputs
    <3>1. unread[t] \subseteq t.ents
      BY <1>1
    <3>2. unread[t] # {} => t \in nonempty
      BY <3>1
    <3> HIDE DEF nonempty
    <3> QED BY <1>1, <1>4, <3>1, <3>2
  <2> QED BY <2>1, <2>2, <2>3, <2>4 DEF Heads
<1>7. EntriesOf(inputs) \subseteq Unread
  <2> SUFFICES ASSUME NEW t \in inputs, NEW v \in t.ents PROVE v \in Unread
    BY DEF EntriesOf
  <2>1. CASE v = First(t.ents)
    <3>1. t \in nonempty
      OBVIOUS
    <3>2. head(t) \in heap /\ head(t).v = v
      BY <1>1, <1>4, <2>1, <3>1
    <3> HIDE DEF head
    <3> QED BY <3>2 DEF Unread
  <2>2. CASE v # First(t.ents)
    BY <1>1, <2>2 DEF Unread
  <2> QED BY <2>1, <2>2
<1>8. Unread \subseteq EntriesOf(inputs)
  BY <1>1, <1>6, UnreadInputs
<1>9. Frontier
  BY <1>1, <1>2, <1>7, <1>8, KeysAssumption DEF Frontier
<1>10. \A v \in Merge(inputs, outLevel) : ~(v.key <= lastKey)
  <2>1. \A v \in Merge(inputs, outLevel) : v \in Version /\ v.key # EmptyKey
    BY <1>2, MergeSubset DEF Merge
  <2> QED BY <1>1, <1>2, <2>1, KeysAssumption
<1>11. QED BY <1>1, <1>6, <1>9, <1>10 DEF MergeInv, WrittenSoFar

\* An entry of the key that came last is older: what is written stays.
LEMMA SkipKeeps == MergeInv /\ Skip => MergeInv'
<1> SUFFICES ASSUME MergeInv, Skip PROVE MergeInv'
  OBVIOUS
<1>1. PICK e \in heap : Skipped(e.v) /\ PopPush(e)
  BY DEF Skip
<1>2. UNCHANGED <<inputs, outLevel, lastKey, chunk, outputs>>
  BY DEF Skip
<1>3. /\ Heads'
      /\ e.v \in EntriesOf(inputs)
      /\ Unread' \subseteq Unread
      /\ Unread \subseteq Unread' \cup {e.v}
  BY <1>1, <1>2, PopPushLeast DEF MergeInv
<1>4. Frontier'
  <2>1. e.v.key = lastKey /\ lastKey \in Nat
    BY <1>1 DEF Skipped, MergeInv, Frontier
  <2>2. \A v \in EntriesOf(inputs) : v \in Unread' \/ v.key <= lastKey
    BY <1>3, <2>1 DEF MergeInv, Frontier
  <2> QED BY <1>2, <1>3, <2>2 DEF MergeInv, Frontier
<1>5. WrittenSoFar'
  BY <1>2 DEF MergeInv, WrittenSoFar, Written
<1>6. QED BY <1>2, <1>3, <1>4, <1>5 DEF MergeInv

\* Dropping a tombstone at the bottom moves lastKey and writes nothing.
LEMMA DropKeeps == MergeInv /\ Drop => MergeInv'
<1> SUFFICES ASSUME MergeInv, Drop PROVE MergeInv'
  OBVIOUS
<1>1. PICK e \in heap : /\ ~Skipped(e.v)
                        /\ e.v.tombstone /\ outLevel >= BottomLevel
                        /\ PopPush(e)
                        /\ lastKey' = e.v.key
  BY DEF Drop
<1>2. UNCHANGED <<inputs, outLevel, chunk, outputs>>
  BY DEF Drop
<1>3. Written' = Written \cup (IF Dropped(e.v) THEN {} ELSE {e.v})
  BY <1>1, <1>2 DEF Written, Dropped
<1>4. QED BY <1>1, <1>2, <1>3, AdvanceKeeps

\* Closing the open file moves its versions.
LEMMA CloseWrites ==
  ASSUME NEW out, out = IF chunk = {} THEN outputs ELSE outputs \cup {Closed}
  PROVE  EntriesOf(out) = Written
<1>1. Closed.ents = chunk
  BY DEF Closed
<1>2. CASE chunk = {}
  BY <1>2 DEF Written
<1>3. CASE chunk # {}
  <2>1. out = outputs \cup {Closed}
    BY <1>3
  <2> QED BY <1>1, <2>1 DEF Written, EntriesOf
<1>4. QED BY <1>2, <1>3

\* Emitting adds the popped version to what is written, in either file.
LEMMA EmitWrites ==
  ASSUME Emit
  PROVE  \E e \in heap : /\ ~Skipped(e.v) /\ ~Dropped(e.v)
                         /\ PopPush(e) /\ lastKey' = e.v.key
                         /\ Written' = Written \cup {e.v}
<1>1. PICK e \in heap :
        /\ ~Skipped(e.v) /\ ~Dropped(e.v) /\ PopPush(e) /\ lastKey' = e.v.key
        /\ \/ chunk' = chunk \cup {e.v} /\ outputs' = outputs
           \/ /\ outputs' = IF chunk = {} THEN outputs ELSE outputs \cup {Closed}
              /\ chunk' = {e.v}
  BY DEF Emit, Dropped
<1>2. CASE chunk' = chunk \cup {e.v} /\ outputs' = outputs
  BY <1>1, <1>2 DEF Written
<1>3. CASE /\ outputs' = IF chunk = {} THEN outputs ELSE outputs \cup {Closed}
           /\ chunk' = {e.v}
  <2>1. EntriesOf(outputs') = Written
    BY <1>3, CloseWrites
  <2>2. Written' = chunk' \cup EntriesOf(outputs')
    BY DEF Written, EntriesOf
  <2> QED BY <1>1, <1>3, <2>1, <2>2
<1>4. QED BY <1>1, <1>2, <1>3

\* So it keeps the invariant.
LEMMA EmitKeeps == MergeInv /\ Emit => MergeInv'
<1> SUFFICES ASSUME MergeInv, Emit PROVE MergeInv'
  OBVIOUS
<1>1. PICK e \in heap : /\ ~Skipped(e.v) /\ ~Dropped(e.v)
                        /\ PopPush(e) /\ lastKey' = e.v.key
                        /\ Written' = Written \cup {e.v}
  BY EmitWrites
<1>2. UNCHANGED <<inputs, outLevel>>
  BY DEF Emit
<1>3. Written' = Written \cup (IF Dropped(e.v) THEN {} ELSE {e.v})
  BY <1>1
<1>4. QED BY <1>1, <1>2, <1>3, AdvanceKeeps

\* Closing the last file moves what is written.
LEMMA FinishKeeps == MergeInv /\ Finish => MergeInv'
<1> SUFFICES ASSUME MergeInv, Finish PROVE MergeInv'
  OBVIOUS
<1>1. /\ UNCHANGED <<inputs, outLevel, unread, heap, lastKey>>
      /\ chunk' = {}
      /\ outputs' = IF chunk = {} THEN outputs ELSE outputs \cup {Closed}
  BY DEF Finish
<1>2. Written' = Written
  <2>1. EntriesOf(outputs') = Written
    BY <1>1, CloseWrites
  <2>2. Written' = chunk' \cup EntriesOf(outputs')
    BY DEF Written, EntriesOf
  <2> QED BY <1>1, <2>1, <2>2
<1>3. Heads' /\ Frontier'
  BY <1>1 DEF MergeInv, Heads, Frontier, Unread
<1>4. WrittenSoFar'
  BY <1>1, <1>2 DEF MergeInv, WrittenSoFar
<1>5. QED BY <1>1, <1>3, <1>4 DEF MergeInv

\* The steps of DoCompact keep the invariant.
THEOREM StepMerge == MergeInv /\ [MergeNext]_mergeVars => MergeInv'
<1>1. MergeInv /\ UNCHANGED mergeVars => MergeInv'
  BY DEF mergeVars, MergeInv, Heads, Frontier, WrittenSoFar, Unread, Written
<1>2. QED BY <1>1, SkipKeeps, DropKeeps, EmitKeeps, FinishKeeps DEF MergeNext

\* The invariant of the merge holds in every run of DoCompact.
THEOREM MergeInvAlways == MergeSpec => []MergeInv
BY InitMerge, StepMerge, PTL DEF MergeSpec

\* README "streaming k-way merge heap": at every step of DoCompact, for any
\* number of inputs, the newest version of each key but the empty one, which is lost,
\* is written or still the newest of what the heap and the inputs have to offer, or it
\* is a tombstone at the bottom; and nothing but newest versions is written.  The heap
\* needs only the first entry of each input for it.
THEOREM NeverLosesNewestAlways == MergeSpec => []NeverLosesNewest
<1>1. MergeInv => NeverLosesNewest
  <2> SUFFICES ASSUME MergeInv PROVE NeverLosesNewest
    OBVIOUS
  <2>1. Written = {v \in Merge(inputs, outLevel) : v.key <= lastKey}
    BY DEF MergeInv, WrittenSoFar
  <2>2. {v \in Merge(inputs, outLevel) : lastKey < v.key} =
          {v \in Newest(Unread) : v.key # lastKey /\ ~Dropped(v)}
    BY UnreadInputs, FrontierMerge DEF MergeInv
  <2>3. lastKey \in Nat /\ \A v \in Merge(inputs, outLevel) : v.key \in Nat
    BY InputVersions, MergeSubset DEF MergeInv, Frontier
  <2>4. Merge(inputs, outLevel) \ Written =
          {v \in Merge(inputs, outLevel) : lastKey < v.key}
    BY <2>1, <2>3
  <2>5. Written \subseteq Newest(EntriesOf(inputs))
    BY <2>1, MergeSubset
  <2>6. ASSUME NEW v \in Newest(EntriesOf(inputs)), v.key # EmptyKey, ~Dropped(v)
        PROVE  v \in Written \/ (v \in Newest(Unread) /\ v.key # lastKey)
    <3>1. v \in Merge(inputs, outLevel)
      BY <2>6 DEF Merge, Dropped
    <3>2. QED BY <2>2, <2>4, <3>1
  <2>7. QED BY <2>5, <2>6 DEF NeverLosesNewest, Dropped
<1>2. QED BY <1>1, MergeInvAlways, PTL
-----------------------------------------------------------------------------
(* The cut into files.                                                     *)

\* The file, counted from 0, that version v of the merged stream M belongs to,
\* and file c with those of its versions that are in vs.
FileOf(v, M) == Rank(v.key, KeysOf(M)) \div TargetEntries

FileWith(c, vs, M) ==
  [id |-> FirstID + c, ents |-> {v \in vs : FileOf(v, M) = c}]

\* vs fills the first q files, and each of them has some of it.
Fills(M, vs, q) ==
  /\ q \in Nat
  /\ \A v \in vs : FileOf(v, M) \in 0 .. q - 1
  /\ \A c \in 0 .. q - 1 : \E v \in vs : FileOf(v, M) = c

\* vs has been written to q files: the closed ones out, which are full, and
\* the open one, which holds ch.
Cut(M, vs, out, ch, q) ==
  /\ Fills(M, vs, q)
  /\ IsFiniteSet(vs)
  /\ ch = {v \in vs : FileOf(v, M) = q - 1}
  /\ out = {FileWith(c, vs, M) : c \in 0 .. q - 2}
  /\ q = 0 => vs = {}
  /\ q > 0 => /\ Cardinality(ch) \in 1 .. TargetEntries
              /\ Cardinality(vs) = (q - 1) * TargetEntries + Cardinality(ch)

\* The file numbers within a file and at the end of it.
LEMMA Division ==
  ASSUME NEW q \in Nat, NEW c \in Nat, c < TargetEntries
  PROVE  (q * TargetEntries + c) \div TargetEntries = q
<1> DEFINE T == TargetEntries
           n == q * T + c
           d == n \div T
<1>1. T \in Nat \ {0} /\ c < T
  BY ShapeAssumption
<1> HIDE DEF T
<1>2. q * T \in Nat
  BY <1>1
<1>3. n \in Nat
  BY <1>2
<1>4. d \in Nat /\ d * T <= n /\ n < d * T + T
  <2> HIDE DEF n
  <2> QED BY <1>1, <1>3
<1> HIDE DEF d
<1>5. ASSUME d < q PROVE FALSE
  <2>1. PICK i \in Nat : q = (d + 1) + i
    <3>1. q - (d + 1) \in Nat /\ q = (d + 1) + (q - (d + 1))
      BY <1>4, <1>5
    <3> QED BY <3>1
  <2>2. q * T = d * T + T + i * T /\ i * T \in Nat /\ d * T \in Nat
    BY <1>1, <1>4, <2>1
  <2> QED BY <1>1, <1>4, <2>2
<1>6. ASSUME q < d PROVE FALSE
  <2>1. PICK i \in Nat : d = (q + 1) + i
    <3>1. d - (q + 1) \in Nat /\ d = (q + 1) + (d - (q + 1))
      BY <1>4, <1>6
    <3> QED BY <3>1
  <2>2. d * T = q * T + T + i * T /\ i * T \in Nat
    BY <1>1, <2>1
  <2> QED BY <1>1, <1>2, <1>4, <2>2
<1>7. d = q
  BY <1>4, <1>5, <1>6
<1>8. QED BY <1>7 DEF d, n, T

\* Closing the open file makes all files full.
LEMMA CutClosed ==
  ASSUME NEW M, NEW vs, NEW out, NEW ch, NEW q, Cut(M, vs, out, ch, q)
  PROVE  (IF ch = {} THEN out ELSE out \cup {[id |-> FirstID + (q - 1), ents |-> ch]})
           = {FileWith(c, vs, M) : c \in 0 .. q - 1}
<1>1. q \in Nat /\ out = {FileWith(c, vs, M) : c \in 0 .. q - 2}
  BY DEF Cut, Fills
<1>2. [id |-> FirstID + (q - 1), ents |-> ch] = FileWith(q - 1, vs, M)
  BY DEF Cut, FileWith
<1>3. CASE q = 0
  <2>1. ch = {}
    BY <1>3 DEF Cut
  <2> QED BY <1>1, <1>3, <2>1
<1>4. CASE q > 0
  <2>1. ch # {}
    <3>1. Cardinality(ch) \in 1 .. TargetEntries
      BY <1>4 DEF Cut
    <3>2. Cardinality(ch) # 0
      BY <3>1
    <3> QED BY <3>2, FS_EmptySet
  <2>2. \A c : c \in 0 .. q - 1 <=> c \in 0 .. q - 2 \/ c = q - 1
    BY <1>1, <1>4
  <2> QED BY <1>1, <1>2, <2>1, <2>2
<1>5. QED BY <1>1, <1>3, <1>4

\* The next version in the order of the keys goes to the open file while that
\* has room.
LEMMA CutGrows ==
  ASSUME NEW M, NEW vs, NEW out, NEW ch, NEW q, Cut(M, vs, out, ch, q),
         NEW m, m \notin vs, Rank(m.key, KeysOf(M)) = Cardinality(vs),
         ch # {}, Cardinality(ch) < TargetEntries
  PROVE  Cut(M, vs \cup {m}, out, ch \cup {m}, q)
<1> DEFINE ws == vs \cup {m}
<1>1. /\ q \in Nat /\ IsFiniteSet(vs)
      /\ \A v \in vs : FileOf(v, M) \in 0 .. q - 1
      /\ \A c \in 0 .. q - 1 : \E v \in vs : FileOf(v, M) = c
      /\ ch = {v \in vs : FileOf(v, M) = q - 1}
      /\ out = {FileWith(c, vs, M) : c \in 0 .. q - 2}
  BY DEF Cut, Fills
<1>2. TargetEntries \in Nat \ {0}
  BY ShapeAssumption
<1>3. q > 0
  BY <1>1 DEF Cut
<1>4. /\ Cardinality(ch) \in Nat
      /\ Cardinality(vs) = (q - 1) * TargetEntries + Cardinality(ch)
  BY <1>2, <1>3 DEF Cut
<1>5. FileOf(m, M) = q - 1
  <2>1. q - 1 \in Nat
    BY <1>1, <1>3
  <2> QED BY <1>4, <2>1, Division DEF FileOf
<1>6. Fills(M, ws, q)
  BY <1>1, <1>3, <1>5 DEF Fills
<1>7. ch \cup {m} = {v \in ws : FileOf(v, M) = q - 1}
  BY <1>1, <1>5
<1>8. out = {FileWith(c, ws, M) : c \in 0 .. q - 2}
  <2>1. \A c \in 0 .. q - 2 : FileWith(c, ws, M) = FileWith(c, vs, M)
    <3> TAKE c \in 0 .. q - 2
    <3>1. FileOf(m, M) # c
      BY <1>1, <1>5
    <3>2. {v \in ws : FileOf(v, M) = c} = {v \in vs : FileOf(v, M) = c}
      BY <3>1
    <3> QED BY <3>2 DEF FileWith
  <2> QED BY <1>1, <2>1
<1>9. IsFiniteSet(ch) /\ m \notin ch
  BY <1>1, FS_Subset
<1>10. /\ IsFiniteSet(ws)
       /\ Cardinality(ws) = Cardinality(vs) + 1
       /\ Cardinality(ch \cup {m}) = Cardinality(ch) + 1
  BY <1>1, <1>9, FS_AddElement
<1>11. Cardinality(ws) = (q - 1) * TargetEntries + Cardinality(ch \cup {m})
  <2>1. (q - 1) * TargetEntries \in Int
    BY <1>1, <1>2
  <2> QED BY <1>4, <1>10, <2>1
<1>12. Cardinality(ch \cup {m}) \in 1 .. TargetEntries
  BY <1>2, <1>4, <1>10
<1> HIDE DEF ws
<1>13. QED BY <1>3, <1>6, <1>7, <1>8, <1>10, <1>11, <1>12 DEF Cut, ws

\* ... and to a new one when there is none with room.
LEMMA CutOpens ==
  ASSUME NEW M, NEW vs, NEW out, NEW ch, NEW q, Cut(M, vs, out, ch, q),
         NEW m, m \notin vs, Rank(m.key, KeysOf(M)) = Cardinality(vs),
         ch = {} \/ Cardinality(ch) >= TargetEntries
  PROVE  Cut(M, vs \cup {m}, {FileWith(c, vs, M) : c \in 0 .. q - 1}, {m}, q + 1)
<1> DEFINE ws == vs \cup {m}
<1>1. /\ q \in Nat /\ IsFiniteSet(vs)
      /\ \A v \in vs : FileOf(v, M) \in 0 .. q - 1
      /\ \A c \in 0 .. q - 1 : \E v \in vs : FileOf(v, M) = c
  BY DEF Cut, Fills
<1>2. TargetEntries \in Nat \ {0}
  BY ShapeAssumption
<1>3. Cardinality(vs) = q * TargetEntries
  <2>1. CASE q = 0
    BY <1>2, <2>1, FS_EmptySet DEF Cut
  <2>2. CASE q > 0
    <3>1. /\ Cardinality(ch) \in 1 .. TargetEntries
          /\ Cardinality(vs) = (q - 1) * TargetEntries + Cardinality(ch)
      BY <2>2 DEF Cut
    <3>2. Cardinality(ch) = TargetEntries
      <4>1. Cardinality(ch) # 0
        BY <3>1
      <4>2. ch # {}
        BY <4>1, FS_EmptySet
      <4>3. Cardinality(ch) >= TargetEntries
        BY <4>2
      <4> QED BY <1>2, <3>1, <4>3
    <3>3. (q - 1) * TargetEntries + TargetEntries = q * TargetEntries
      BY <1>1, <1>2
    <3> QED BY <3>1, <3>2, <3>3
  <2> QED BY <1>1, <2>1, <2>2
<1>4. FileOf(m, M) = q
  <2>1. q * TargetEntries \in Nat /\ q * TargetEntries + 0 = q * TargetEntries
    BY <1>1, <1>2
  <2>2. (q * TargetEntries + 0) \div TargetEntries = q
    BY <1>1, <1>2, Division
  <2> QED BY <1>3, <2>1, <2>2 DEF FileOf
<1>5. Fills(M, ws, q + 1)
  <2>1. \A v \in ws : FileOf(v, M) \in 0 .. (q + 1) - 1
    BY <1>1, <1>4
  <2>2. \A c \in 0 .. (q + 1) - 1 : \E v \in ws : FileOf(v, M) = c
    <3> SUFFICES ASSUME NEW c \in 0 .. (q + 1) - 1 PROVE \E v \in ws : FileOf(v, M) = c
      OBVIOUS
    <3>1. c = q \/ c \in 0 .. q - 1
      BY <1>1
    <3> QED BY <1>1, <1>4, <3>1
  <2> QED BY <1>1, <2>1, <2>2 DEF Fills
<1>6. {m} = {v \in ws : FileOf(v, M) = (q + 1) - 1}
  <2>1. (q + 1) - 1 = q /\ \A v \in vs : FileOf(v, M) # q
    BY <1>1
  <2> QED BY <1>4, <2>1
<1>7. {FileWith(c, vs, M) : c \in 0 .. q - 1} =
        {FileWith(c, ws, M) : c \in 0 .. (q + 1) - 2}
  <2>1. \A c \in 0 .. q - 1 : FileWith(c, ws, M) = FileWith(c, vs, M)
    <3> TAKE c \in 0 .. q - 1
    <3>1. FileOf(m, M) # c
      BY <1>1, <1>4
    <3>2. {v \in ws : FileOf(v, M) = c} = {v \in vs : FileOf(v, M) = c}
      BY <3>1
    <3> QED BY <3>2 DEF FileWith
  <2>2. (q + 1) - 2 = q - 1
    BY <1>1
  <2> QED BY <2>1, <2>2
<1>8. /\ IsFiniteSet(ws)
      /\ Cardinality(ws) = Cardinality(vs) + 1
      /\ Cardinality({m}) = 1
  BY <1>1, FS_AddElement, FS_Singleton
<1>9. /\ q + 1 > 0 /\ (q + 1) - 1 = q /\ q + 1 # 0
      /\ Cardinality({m}) \in 1 .. TargetEntries
  BY <1>1, <1>2, <1>8
<1>10. Cardinality(ws) = ((q + 1) - 1) * TargetEntries + Cardinality({m})
  BY <1>3, <1>8, <1>9
<1> HIDE DEF ws
<1>11. QED BY <1>5, <1>6, <1>7, <1>8, <1>9, <1>10 DEF Cut, ws
-----------------------------------------------------------------------------
(* The files DoCompact returns.                                            *)

\* The whole merge, and the number of files that were begun.
Merged == Merge(inputs, outLevel)
Begun  == fileID - FirstID

\* While DoCompact runs the open file is the last one, and the others are
\* full; when it is done all are closed.
CutInv ==
  /\ MergeInv
  /\ fileID \in Int
  /\ ~done => Cut(Merged, Written, outputs, chunk, Begun)
  /\ done => /\ heap = {} /\ chunk = {}
             /\ Fills(Merged, Written, Begun)
             /\ outputs = {FileWith(c, Written, Merged) : c \in 0 .. Begun - 1}

\* The merge holds one version of a key.
LEMMA MergedSingle ==
  ASSUME inputs \in Inputs
  PROVE  /\ Merged \subseteq Version
         /\ \A v, w \in Merged : v.key = w.key => v = w
<1>1. /\ EntriesOf(inputs) \subseteq Version
      /\ OneVersion(EntriesOf(inputs))
      /\ \A v \in EntriesOf(inputs) : v.ts \in Nat
  BY InputVersions
<1>2. /\ Merged \subseteq Newest(EntriesOf(inputs))
      /\ Newest(EntriesOf(inputs)) \subseteq EntriesOf(inputs)
  BY MergeSubset DEF Merged
<1>3. \A v, w \in Newest(EntriesOf(inputs)) : v.key = w.key => v = w
  BY <1>1 DEF Newest, OneVersion
<1>4. QED BY <1>1, <1>2, <1>3

\* Versions of different keys are as many as their keys.
LEMMA KeysCount ==
  ASSUME NEW vs, IsFiniteSet(vs), \A v, w \in vs : v.key = w.key => v = w
  PROVE  Cardinality(KeysOf(vs)) = Cardinality(vs)
<1> DEFINE f == [v \in vs |-> v.key]
<1>1. f \in Surjection(vs, KeysOf(vs))
  BY DEF Surjection, KeysOf
<1>2. f \in Injection(vs, KeysOf(vs))
  <2>1. f \in [vs -> KeysOf(vs)]
    BY DEF KeysOf
  <2> QED BY <2>1 DEF Injection, IsInjective
<1> HIDE DEF f
<1>3. QED BY <1>1, <1>2, FS_Surjection

\* The version that is written next comes, in the merge, right after those
\* that are written.
LEMMA EmitRank ==
  ASSUME MergeInv, IsFiniteSet(Written), Emit
  PROVE  \E m : /\ Written' = Written \cup {m} /\ m \notin Written
                /\ Rank(m.key, KeysOf(Merged)) = Cardinality(Written)
                /\ \/ /\ chunk # {} /\ Cardinality(chunk) < TargetEntries
                      /\ chunk' = chunk \cup {m}
                      /\ UNCHANGED <<outputs, fileID>>
                   \/ /\ chunk = {} \/ Cardinality(chunk) >= TargetEntries
                      /\ outputs' = IF chunk = {} THEN outputs
                                    ELSE outputs \cup {Closed}
                      /\ chunk' = {m}
                      /\ fileID' = fileID + 1
<1>1. PICK e \in heap :
        /\ ~Skipped(e.v) /\ ~Dropped(e.v)
        /\ PopPush(e) /\ lastKey' = e.v.key
        /\ \/ /\ chunk # {} /\ Cardinality(chunk) < TargetEntries
              /\ chunk' = chunk \cup {e.v}
              /\ UNCHANGED <<outputs, fileID>>
           \/ /\ chunk = {} \/ Cardinality(chunk) >= TargetEntries
              /\ outputs' = IF chunk = {} THEN outputs ELSE outputs \cup {Closed}
              /\ chunk' = {e.v}
              /\ fileID' = fileID + 1
  BY DEF Emit, Dropped
<1> DEFINE m == e.v
<1>2. Written' = Written \cup {m}
  <2>1. CASE chunk' = chunk \cup {m} /\ outputs' = outputs
    BY <2>1 DEF Written
  <2>2. CASE /\ outputs' = IF chunk = {} THEN outputs ELSE outputs \cup {Closed}
             /\ chunk' = {m}
    <3>1. EntriesOf(outputs') = Written
      BY <2>2, CloseWrites
    <3>2. Written' = chunk' \cup EntriesOf(outputs')
      BY DEF Written, EntriesOf
    <3> QED BY <2>2, <3>1, <3>2
  <2> QED BY <1>1, <2>1, <2>2
<1>3. UNCHANGED <<inputs, outLevel>>
  BY DEF Emit
<1>4. MergeInv' /\ m.key > lastKey
  <2>1. Written' = Written \cup (IF Dropped(m) THEN {} ELSE {m})
    BY <1>1, <1>2
  <2> QED BY <1>1, <1>3, <2>1, AdvanceKeeps
<1>5. /\ Written = {v \in Merged : v.key <= lastKey}
      /\ Written \cup {m} = {v \in Merged : v.key <= m.key}
  <2>1. WrittenSoFar /\ WrittenSoFar'
    BY <1>4 DEF MergeInv
  <2>2. Written' = {v \in Merge(inputs', outLevel') : v.key <= lastKey'}
    BY <2>1 DEF WrittenSoFar
  <2> QED BY <1>1, <1>2, <1>3, <2>1, <2>2 DEF WrittenSoFar, Merged
<1>6. /\ inputs \in Inputs /\ lastKey \in Nat
      /\ \A v \in Merged : v.key \in Nat
      /\ \A v, w \in Merged : v.key = w.key => v = w
  BY MergedSingle, InputVersions DEF MergeInv, Frontier
<1> HIDE DEF m
<1>7. m \in Merged /\ m \notin Written /\ Written \subseteq Merged
  <2>1. m \in Merged
    BY <1>5
  <2> QED BY <1>4, <1>5, <1>6, <2>1
<1>8. Rank(m.key, KeysOf(Merged)) = Cardinality(Written)
  <2>1. \A v \in Merged : v.key < m.key <=> v \in Written
    <3> TAKE v \in Merged
    <3>1. ASSUME v.key < m.key PROVE v \in Written
      <4>1. v \in Written \cup {m}
        BY <1>5, <1>6, <1>7, <3>1
      <4>2. v # m
        BY <1>6, <3>1
      <4> QED BY <4>1, <4>2
    <3>2. ASSUME v \in Written PROVE v.key < m.key
      BY <1>4, <1>5, <1>6, <1>7, <3>2
    <3> QED BY <3>1, <3>2
  <2>2. {j \in KeysOf(Merged) : j < m.key} = KeysOf(Written)
    BY <1>7, <2>1 DEF KeysOf
  <2>3. Cardinality(KeysOf(Written)) = Cardinality(Written)
    BY <1>6, <1>7, KeysCount
  <2> QED BY <2>2, <2>3 DEF Rank
<1>9. QED BY <1>1, <1>2, <1>7, <1>8 DEF m

\* Before the first entry there is no file.
THEOREM InitCut == MergeInit => CutInv
<1> SUFFICES ASSUME MergeInit PROVE CutInv
  OBVIOUS
<1>1. /\ chunk = {} /\ outputs = {} /\ fileID = FirstID /\ done = FALSE
      /\ FirstID \in Nat
  BY InputsAssumption DEF MergeInit
<1>2. Begun = 0 /\ Written = {}
  BY <1>1 DEF Begun, Written, EntriesOf
<1>3. Cut(Merged, {}, {}, {}, 0)
  BY FS_EmptySet DEF Cut, Fills
<1>4. QED BY <1>1, <1>2, <1>3, InitMerge DEF CutInv

\* One step per action.
THEOREM StepCut == CutInv /\ [MergeNext]_mergeVars => CutInv'
<1> SUFFICES ASSUME CutInv, [MergeNext]_mergeVars PROVE CutInv'
  OBVIOUS
<1>1. MergeInv /\ MergeInv'
  BY StepMerge DEF CutInv
<1>2. CASE UNCHANGED mergeVars
  <2>1. /\ UNCHANGED <<heap, chunk, outputs, fileID, done>>
        /\ Written' = Written /\ Merged' = Merged /\ Begun' = Begun
    BY <1>2 DEF mergeVars, Written, Merged, Begun
  <2> QED BY <1>1, <2>1 DEF CutInv
<1>3. ASSUME UNCHANGED <<inputs, outLevel>> PROVE Merged' = Merged
  BY <1>3 DEF Merged
<1>4. CASE Skip \/ Drop
  <2>1. heap # {} /\ UNCHANGED <<inputs, outLevel, chunk, outputs, fileID, done>>
    BY <1>4 DEF Skip, Drop
  <2>2. ~done
    BY <2>1 DEF CutInv
  <2>3. Written' = Written /\ Begun' = Begun /\ Merged' = Merged
    BY <1>3, <2>1 DEF Written, Begun
  <2> QED BY <1>1, <2>1, <2>2, <2>3 DEF CutInv
<1>5. CASE Emit
  <2>1. heap # {} /\ UNCHANGED <<inputs, outLevel, done>>
    BY <1>5 DEF Emit
  <2>2. ~done
    BY <2>1 DEF CutInv
  <2>3. Cut(Merged, Written, outputs, chunk, Begun) /\ fileID \in Int /\ FirstID \in Nat
    BY <2>2, InputsAssumption DEF CutInv
  <2>4. IsFiniteSet(Written)
    BY <2>3 DEF Cut
  <2>5. PICK m :
          /\ Written' = Written \cup {m} /\ m \notin Written
          /\ Rank(m.key, KeysOf(Merged)) = Cardinality(Written)
          /\ \/ /\ chunk # {} /\ Cardinality(chunk) < TargetEntries
                /\ chunk' = chunk \cup {m}
                /\ UNCHANGED <<outputs, fileID>>
             \/ /\ chunk = {} \/ Cardinality(chunk) >= TargetEntries
                /\ outputs' = IF chunk = {} THEN outputs ELSE outputs \cup {Closed}
                /\ chunk' = {m}
                /\ fileID' = fileID + 1
    BY <1>1, <1>5, <2>4, EmitRank
  <2>6. Merged' = Merged
    BY <1>3, <2>1
  <2>7. CASE /\ chunk # {} /\ Cardinality(chunk) < TargetEntries
             /\ chunk' = chunk \cup {m}
             /\ UNCHANGED <<outputs, fileID>>
    <3>1. Cut(Merged, Written \cup {m}, outputs, chunk \cup {m}, Begun)
      BY <2>3, <2>5, <2>7, CutGrows
    <3>2. Begun' = Begun
      BY <2>7 DEF Begun
    <3> QED BY <1>1, <2>1, <2>2, <2>3, <2>5, <2>6, <2>7, <3>1, <3>2 DEF CutInv
  <2>8. CASE /\ chunk = {} \/ Cardinality(chunk) >= TargetEntries
             /\ outputs' = IF chunk = {} THEN outputs ELSE outputs \cup {Closed}
             /\ chunk' = {m}
             /\ fileID' = fileID + 1
    <3>1. Closed = [id |-> FirstID + (Begun - 1), ents |-> chunk]
      BY <2>3 DEF Closed, Begun
    <3>2. outputs' = {FileWith(c, Written, Merged) : c \in 0 .. Begun - 1}
      BY <2>3, <2>8, <3>1, CutClosed
    <3>3. Cut(Merged, Written \cup {m},
              {FileWith(c, Written, Merged) : c \in 0 .. Begun - 1}, {m}, Begun + 1)
      BY <2>3, <2>5, <2>8, CutOpens
    <3>4. Begun' = Begun + 1 /\ fileID' \in Int
      BY <2>3, <2>8 DEF Begun
    <3>5. Cut(Merged', Written', outputs', chunk', Begun')
      BY <2>5, <2>6, <2>8, <3>2, <3>3, <3>4
    <3> QED BY <1>1, <2>1, <2>2, <3>4, <3>5 DEF CutInv
  <2>9. QED BY <2>5, <2>7, <2>8
<1>6. CASE Finish
  <2>1. /\ heap = {} /\ ~done /\ done' = TRUE /\ chunk' = {}
        /\ outputs' = IF chunk = {} THEN outputs ELSE outputs \cup {Closed}
        /\ UNCHANGED <<inputs, outLevel, heap, fileID>>
    BY <1>6 DEF Finish
  <2>2. Cut(Merged, Written, outputs, chunk, Begun) /\ fileID \in Int /\ FirstID \in Nat
    BY <2>1, InputsAssumption DEF CutInv
  <2>3. Written' = Written /\ Merged' = Merged /\ Begun' = Begun
    <3>1. EntriesOf(outputs') = Written
      BY <2>1, CloseWrites
    <3>2. Written' = chunk' \cup EntriesOf(outputs')
      BY DEF Written, EntriesOf
    <3> QED BY <1>3, <2>1, <3>1, <3>2 DEF Begun
  <2>4. outputs' = {FileWith(c, Written, Merged) : c \in 0 .. Begun - 1}
    <3>1. Closed = [id |-> FirstID + (Begun - 1), ents |-> chunk]
      BY <2>2 DEF Closed, Begun
    <3> QED BY <2>1, <2>2, <3>1, CutClosed
  <2>5. Fills(Merged, Written, Begun)
    BY <2>2 DEF Cut
  <2> QED BY <1>1, <2>1, <2>2, <2>3, <2>4, <2>5 DEF CutInv
<1>7. QED BY <1>2, <1>4, <1>5, <1>6 DEF MergeNext

\* DoCompact, entry by entry, returns what the engine's model puts into the
\* next level in one step, and moves nextID past it: for any inputs, level and
\* size of files the two descriptions of a compaction agree.
THEOREM ReturnsMergeAlways == MergeSpec => []ReturnsMerge
<1>1. CutInv => ReturnsMerge
  <2> SUFFICES ASSUME CutInv, done
               PROVE  /\ outputs = DoCompact(inputs, outLevel, FirstID)
                      /\ fileID = FirstID + Cardinality(outputs)
    BY DEF ReturnsMerge
  <2>1. /\ MergeInv /\ heap = {} /\ fileID \in Int /\ FirstID \in Nat
        /\ Fills(Merged, Written, Begun)
        /\ outputs = {FileWith(c, Written, Merged) : c \in 0 .. Begun - 1}
    BY InputsAssumption DEF CutInv
  <2>2. Unread = {}
    BY <2>1 DEF MergeInv, Heads, Unread
  <2>3. Written = Merged
    <3>1. \A v \in EntriesOf(inputs) : v.key <= lastKey
      BY <2>1, <2>2 DEF MergeInv, Frontier
    <3>2. Merged \subseteq EntriesOf(inputs)
      BY MergeSubset DEF Merged
    <3> QED BY <2>1, <3>1, <3>2 DEF MergeInv, WrittenSoFar, Merged
  <2>4. {FileOf(v, Merged) : v \in Merged} = 0 .. Begun - 1
    BY <2>1, <2>3 DEF Fills
  <2>5. DoCompact(inputs, outLevel, FirstID) =
          {FileWith(c, Merged, Merged) : c \in {FileOf(v, Merged) : v \in Merged}}
    BY DEF DoCompact, FileWith, FileOf, Merged
  <2>6. outputs = DoCompact(inputs, outLevel, FirstID)
    BY <2>1, <2>3, <2>4, <2>5
  <2>7. Cardinality(outputs) = Begun
    <3> DEFINE files == 0 .. Begun - 1
               f     == [c \in files |-> FileWith(c, Merged, Merged)]
    <3>1. Begun \in Nat
      BY <2>1 DEF Fills
    <3>2. IsFiniteSet(files) /\ Cardinality(files) = Begun
      BY <3>1, FS_Interval
    <3>3. outputs = {FileWith(c, Merged, Merged) : c \in files}
      BY <2>1, <2>3
    <3>4. f \in Surjection(files, outputs)
      BY <3>3 DEF Surjection
    <3>5. f \in Injection(files, outputs)
      <4>1. \A c \in files : FileWith(c, Merged, Merged).id = FirstID + c
        BY DEF FileWith
      <4>2. \A c, d \in files :
              FileWith(c, Merged, Merged) = FileWith(d, Merged, Merged) => c = d
        BY <2>1, <3>1, <4>1
      <4>3. f \in [files -> outputs]
        BY <3>3
      <4> QED BY <4>2, <4>3 DEF Injection, IsInjective
    <3> HIDE DEF f, files
    <3> QED BY <3>2, <3>4, <3>5, FS_Surjection
  <2>8. fileID = FirstID + Begun
    BY <2>1 DEF Begun
  <2> QED BY <2>6, <2>7, <2>8
<1>2. QED BY <1>1, InitCut, StepCut, PTL DEF MergeSpec
=============================================================================
