--------------------------- MODULE RecoveryProofs ---------------------------
(***************************************************************************)
(* Theorems about the engine with its disk and its faults: what Open       *)
(* rebuilds, what it leaves on the disk, the order of the files it loads,  *)
(* that the engine between Open and Close or a kill implements Lsm, and    *)
(* that no write is lost to the running engine, or to the disk, outside of *)
(* the windows that LsmFaults names.                                       *)
(***************************************************************************)
EXTENDS LsmFaults, TablesProofs

(* What is stored anywhere are versions that were written: Held, whatever  *)
(* the faults.                                                             *)

\* A tree of tables of versions of V.
Sound(tr, V) ==
  /\ tr = [levels |-> tr.levels, sizes |-> tr.sizes, nextID |-> tr.nextID]
  /\ tr.levels = [l \in Level |-> tr.levels[l]]
  /\ \A l \in Level : \A t \in tr.levels[l] : t.ents \subseteq V

\* All that is stored is in V, but for what a process that is stuck was about to append.
Holds(V) ==
  /\ pc # "stuck" => memtable \subseteq V
  /\ wal.recs \subseteq V
  /\ \A f \in files : f.level \in Level /\ f.ents \subseteq V
  /\ Sound(tree, V) /\ Sound(target, V)

\* V is a past: the clock is behind none of it, and no two of its versions tie.
Held ==
  /\ memtable \subseteq Version /\ IsFiniteSet(memtable)
  /\ wal \in [recs : SUBSET Version, grown : BOOLEAN] /\ IsFiniteSet(wal.recs)
  /\ now \in Nat
  /\ \E V \in SUBSET Version : Holds(V) /\ OneVersion(V) /\ Stale(V, now)

LEMMA SoundFiles ==
  ASSUME NEW V, NEW tr, Sound(tr, V)
  PROVE  \A f \in FilesOf(tr) : f.level \in Level /\ f.ents \subseteq V
BY DEF Sound, FilesOf

LEMMA SoundEmpty == \A id, V : Sound(EmptyTree(id), V)
BY DEF Sound, EmptyTree

LEMMA SoundAdd ==
  ASSUME NEW V, NEW tr, Sound(tr, V), NEW m, m \subseteq V
  PROVE  Sound(AddToL0(tr, m), V)
<1> DEFINE new == AddToL0(tr, m)
<1>1. new = [levels |-> new.levels, sizes |-> new.sizes, nextID |-> new.nextID]
  BY DEF AddToL0
<1>2. new.levels = [tr.levels EXCEPT ![0] = @ \cup {[id |-> tr.nextID, ents |-> m]}]
  BY DEF AddToL0
<1> HIDE DEF new
<1>3. new.levels = [l \in Level |-> new.levels[l]]
  BY <1>2 DEF Sound
<1>4. \A l \in Level : \A t \in new.levels[l] :
        t \in tr.levels[l] \/ t = [id |-> tr.nextID, ents |-> m]
  BY <1>2 DEF Sound
<1>5. \A l \in Level : \A t \in new.levels[l] : t.ents \subseteq V
  BY <1>4 DEF Sound
<1> QED BY <1>1, <1>3, <1>5 DEF Sound, new

LEMMA SoundCompacted ==
  ASSUME NEW V, NEW tr, Sound(tr, V), NEW src, NEW from, NEW into, NEW out,
         \A t \in out : t.ents \subseteq V
  PROVE  Sound(Compacted(tr, src, from, into, out), V)
BY DEF Sound, Compacted

\* A merge writes nothing but what it has read.
LEMMA SoundMerge ==
  ASSUME NEW V, NEW T, \A t \in T : t.ents \subseteq V, NEW lv, NEW id
  PROVE  \A t \in DoCompact(T, lv, id) : t.ents \subseteq V
<1>1. EntriesOf(T) \subseteq V
  BY DEF EntriesOf
<1>2. Merge(T, lv) \subseteq V
  BY <1>1, MergeSubset
<1> QED BY <1>2 DEF DoCompact

LEMMA SoundL0 ==
  ASSUME NEW V, NEW tr, Sound(tr, V)
  PROVE  Sound(CompactL0ToL1(tr), V)
<1> DEFINE victims == OldestOf(tr.levels[0])
           overlap == Overlapping(tr.levels[1], victims)
<1>1. 0 \in Level /\ 1 \in Level
  BY ShapeAssumption DEF Level
<1>2. \A t \in victims \cup overlap : t.ents \subseteq V
  BY <1>1 DEF Sound, OldestOf, Overlapping
<1> HIDE DEF victims, overlap
<1>3. Sound(Compacted(tr, 0, victims, overlap,
                      DoCompact(victims \cup overlap, 1, tr.nextID)), V)
  BY <1>2, SoundMerge, SoundCompacted
<1> QED BY <1>3 DEF CompactL0ToL1, victims, overlap

LEMMA SoundLevel ==
  ASSUME NEW V, NEW tr, Sound(tr, V), NEW l \in Nat
  PROVE  Sound(CompactLevel(tr, l), V)
<1>1. CASE l < 1 \/ l >= NumLevels - 1 \/ tr.levels[l] = {}
  BY <1>1 DEF CompactLevel
<1>2. CASE ~(l < 1 \/ l >= NumLevels - 1 \/ tr.levels[l] = {})
  <2> DEFINE in == tr.levels[l] \cup tr.levels[l + 1]
  <2>1. l \in Level /\ l + 1 \in Level
    BY <1>2, ShapeAssumption DEF Level
  <2>2. \A t \in in : t.ents \subseteq V
    BY <2>1 DEF Sound
  <2> HIDE DEF in
  <2>3. Sound(Compacted(tr, l, tr.levels[l], tr.levels[l + 1],
                        DoCompact(in, l + 1, tr.nextID)), V)
    BY <2>2, SoundMerge, SoundCompacted
  <2> QED BY <1>2, <2>3 DEF CompactLevel, in
<1> QED BY <1>1, <1>2

LEMMA SoundWriter ==
  ASSUME NEW V, NEW tr, Sound(tr, V)
  PROVE  Sound(WriterCompaction(tr), V)
BY SoundL0 DEF WriterCompaction

\* What a write that is over may have added.
Fresh(ws) ==
  /\ ws \subseteq Version /\ IsFiniteSet(ws)
  /\ \A w \in ws : w.ts > now /\ w.ts <= now'
  /\ \A v, w \in ws : v.key = w.key => v = w

\* A past and a write are a past.
LEMMA PastGrows ==
  ASSUME now \in Nat, now' \in Nat, now <= now', NEW ws, Fresh(ws),
         NEW V, V \subseteq Version, OneVersion(V), Stale(V, now)
  PROVE  /\ V \cup ws \subseteq Version /\ OneVersion(V \cup ws)
         /\ Stale(V \cup ws, now')
<1>1. \A v \in V \cup ws : v.ts \in Nat
  BY DEF Fresh, Version
<1>2. \A v \in V : v.ts <= now /\ v.ts <= now'
  BY <1>1 DEF Stale
<1>3. \A w \in ws : ~(w.ts <= now)
  BY <1>1 DEF Fresh
<1>4. \A v \in V, w \in ws : v.ts # w.ts
  BY <1>2, <1>3
<1>5. OneVersion(V \cup ws)
  BY <1>4 DEF OneVersion, Fresh
<1> QED BY <1>2, <1>5 DEF Fresh, Stale

\* What a write adds to memtable and log.
LEMMA WritesAreVersions ==
  ASSUME now \in Nat
  PROVE  /\ \A kvs \in Batches :
              /\ Stamped(kvs, now) \subseteq Version /\ IsFiniteSet(Stamped(kvs, now))
              /\ now + Len(kvs) \in Nat /\ now <= now + Len(kvs)
              /\ now' = now + Len(kvs) => Fresh(Stamped(kvs, now))
         /\ \A k \in Keys :
              /\ Tombstone(k) \subseteq Version /\ IsFiniteSet(Tombstone(k))
              /\ now' = now + 1 => Fresh(Tombstone(k))
<1>1. ASSUME NEW kvs \in Batches
      PROVE  /\ Stamped(kvs, now) \subseteq Version /\ IsFiniteSet(Stamped(kvs, now))
             /\ now + Len(kvs) \in Nat /\ now <= now + Len(kvs)
             /\ now' = now + Len(kvs) => Fresh(Stamped(kvs, now))
  <2>1. kvs \in Seq(Keys)
    BY RecoveryAssumption
  <2>2. Len(kvs) \in Nat
    BY <2>1
  <2> QED BY <2>1, <2>2, StampedVersions DEF Fresh
<1>2. ASSUME NEW k \in Keys
      PROVE  /\ Tombstone(k) \subseteq Version /\ IsFiniteSet(Tombstone(k))
             /\ now' = now + 1 => Fresh(Tombstone(k))
  <2>1. [key |-> k, ts |-> now + 1, tombstone |-> TRUE] \in Version
    BY DEF Version
  <2>2. Tombstone(k) \subseteq Version /\ IsFiniteSet(Tombstone(k))
    BY <2>1, FS_Singleton DEF Tombstone
  <2> QED BY <2>2 DEF Fresh, Tombstone
<1> QED BY <1>1, <1>2

LEMMA OverwriteHeld ==
  ASSUME NEW m, m \subseteq Version, IsFiniteSet(m),
         NEW ws, ws \subseteq Version, IsFiniteSet(ws)
  PROVE  /\ Overwrite(m, ws) \subseteq Version /\ IsFiniteSet(Overwrite(m, ws))
         /\ m \cup ws \subseteq Version /\ IsFiniteSet(m \cup ws)
<1>1. IsFiniteSet(m \cup ws)
  BY FS_Union
<1>2. Overwrite(m, ws) \subseteq m \cup ws
  BY DEF Overwrite
<1> QED BY <1>1, <1>2, FS_Subset

LEMMA HeldInit == FaultInit => Held
<1> SUFFICES ASSUME FaultInit PROVE Held
  OBVIOUS
<1>1. Sound(tree, {}) /\ Sound(target, {})
  BY SoundEmpty DEF FaultInit, Init
<1>2. IsFiniteSet({})
  BY FS_EmptySet
<1>3. Holds({}) /\ OneVersion({}) /\ Stale({}, now)
  BY <1>1 DEF FaultInit, Init, Holds, OneVersion, Stale
<1> QED BY <1>2, <1>3 DEF FaultInit, Init, Held

\* Memtable and log have nothing but what was written.
LEMMA MemoryStep ==
  ASSUME Held, NEW V, Holds(V), [FaultNext]_allVars
  PROVE  /\ memtable' \subseteq Version /\ IsFiniteSet(memtable')
         /\ wal' \in [recs : SUBSET Version, grown : BOOLEAN] /\ IsFiniteSet(wal'.recs)
         /\ now' \in Nat /\ now <= now'
         /\ \E ws : /\ Fresh(ws)
                    /\ pc' # "stuck" => memtable' \subseteq V \cup ws
                    /\ wal'.recs \subseteq V \cup ws
<1> DEFINE Typed == /\ memtable' \subseteq Version /\ IsFiniteSet(memtable')
                    /\ wal' \in [recs : SUBSET Version, grown : BOOLEAN]
                    /\ IsFiniteSet(wal'.recs)
                    /\ now' \in Nat /\ now <= now'
           In(ws) == /\ Fresh(ws)
                     /\ pc' # "stuck" => memtable' \subseteq V \cup ws
                     /\ wal'.recs \subseteq V \cup ws
           Good == Typed /\ \E ws : In(ws)
<1> SUFFICES Good
  OBVIOUS
<1>12. /\ IsFiniteSet({}) /\ IsFiniteSet(wal.recs) /\ IsFiniteSet(memtable)
       /\ memtable \subseteq Version /\ wal \in [recs : SUBSET Version, grown : BOOLEAN]
       /\ now \in Nat /\ now <= now
  BY FS_EmptySet DEF Held
<1>13. Fresh({}) /\ wal.recs \subseteq V
  BY <1>12 DEF Fresh, Holds
\* Nothing is written.
<1>14. ASSUME Typed, wal'.recs \subseteq wal.recs, memtable' \subseteq wal.recs \/ pc' = "stuck"
       PROVE  Good
  <2>1. In({})
    BY <1>13, <1>14
  <2> QED BY <1>14, <2>1
<1>15. ASSUME Typed, wal'.recs \subseteq wal.recs, memtable' \subseteq memtable, pc # "stuck"
       PROVE  Good
  <2>1. In({})
    BY <1>13, <1>15 DEF Holds
  <2> QED BY <1>15, <2>1
<1>1. ASSUME UNCHANGED <<memtable, wal, now>>, pc # "stuck" \/ pc' = "stuck" PROVE Good
  <2>1. Typed
    BY <1>1, <1>12
  <2> HIDE DEF Typed
  <2> QED BY <1>1, <1>14, <1>15, <2>1
<1>2. CASE \/ OpenLoad \/ FlushCreate \/ FlushInstall \/ CompactOutputs
           \/ CompactRemove \/ CompactInstall \/ CompactorReceive \/ CompactorLock
           \/ CompactorLevel \/ CompactorUnlock \/ UNCHANGED allVars
  <2>1. UNCHANGED <<memtable, wal, now>> /\ (pc # "stuck" \/ pc' = "stuck")
    BY <1>2 DEF OpenLoad, FlushCreate, FlushInstall, CompactOutputs, CompactRemove,
                CompactInstall, CompactorReceive, CompactorLock, CompactorLevel,
                CompactorUnlock, Turn, disk, memory, vars, allVars
  <2> QED BY <1>1, <2>1
<1>3. CASE \/ FlushCreateFails \/ FlushOpenFails \/ FlushManifestFails \/ CompactFails
           \/ CompactOpenFails \/ CompactManifestFails \/ OpenSkips \/ OpenScan
  <2>1. UNCHANGED <<memtable, wal, now>> /\ pc # "stuck"
    BY <1>3 DEF FlushCreateFails, FlushOpenFails, FlushManifestFails, CompactFails,
                CompactOpenFails, CompactManifestFails, OpenSkips, OpenScan, Failed,
                CompactReturns, Loaded, disk
  <2> QED BY <1>1, <2>1
\* A log that is opened, closed or reset, and a process that ends.
<1>4. CASE OpenWal
  <2>1. Newest(wal.recs) \subseteq wal.recs
    BY DEF Newest
  <2>2. IsFiniteSet(Newest(wal.recs))
    BY <1>12, <2>1, FS_Subset
  <2>3. Typed /\ wal'.recs \subseteq wal.recs /\ memtable' \subseteq wal.recs
    BY <1>12, <1>4, <2>1, <2>2 DEF OpenWal, EmptyLog
  <2> QED BY <1>14, <2>3
<1>5. CASE Kill \/ Close \/ CloseBroken
  <2>1. memtable' = {} /\ now' = now
    BY <1>5 DEF Kill, Close, CloseBroken, Gone
  <2>2. wal'.recs = wal.recs /\ wal' \in [recs : SUBSET Version, grown : BOOLEAN]
    BY <1>12, <1>5 DEF Kill, Close, CloseBroken, disk
  <2>3. Typed
    BY <1>12, <2>1, <2>2
  <2> QED BY <1>14, <2>1, <2>2, <2>3
<1>6. CASE FlushReset \/ FlushResetFails \/ OpenResetFails
  <2>1. wal' = wal \/ wal' \in [recs : {{}}, grown : BOOLEAN]
    <3>1. CASE FlushReset
      BY <3>1 DEF FlushReset, EmptyLog
    <3>2. CASE FlushResetFails
      BY <3>2 DEF FlushResetFails
    <3>3. CASE OpenResetFails
      BY <3>3 DEF OpenResetFails
    <3> QED BY <1>6, <3>1, <3>2, <3>3
  <2>2. memtable' \in {{}, memtable} /\ now' = now /\ pc # "stuck"
    BY <1>6 DEF FlushReset, FlushResetFails, OpenResetFails, Failed, memory
  <2>3. Typed
    BY <1>12, <2>1, <2>2
  <2> QED BY <1>15, <2>1, <2>2, <2>3
\* Writes.
<1>7. ASSUME NEW ws, ws \subseteq Version, IsFiniteSet(ws), now' \in Nat, now <= now',
             memtable' \in {memtable, Overwrite(memtable, ws)},
             wal' \in {wal, [wal EXCEPT !.recs = @ \cup ws]}
      PROVE  /\ Typed
             /\ memtable' \subseteq memtable \cup ws /\ wal'.recs \subseteq wal.recs \cup ws
  <2>1. /\ memtable' \subseteq Version /\ IsFiniteSet(memtable')
        /\ memtable' \subseteq memtable \cup ws
    <3>1. Overwrite(memtable, ws) \subseteq memtable \cup ws
      BY DEF Overwrite
    <3>2. /\ Overwrite(memtable, ws) \subseteq Version
          /\ IsFiniteSet(Overwrite(memtable, ws))
      BY <1>7, <1>12, OverwriteHeld
    <3>3. CASE memtable' = memtable
      BY <1>12, <3>3
    <3>4. CASE memtable' = Overwrite(memtable, ws)
      BY <3>1, <3>2, <3>4
    <3> QED BY <1>7, <3>3, <3>4
  <2>2. wal.recs \cup ws \subseteq Version /\ IsFiniteSet(wal.recs \cup ws)
    BY <1>7, <1>12, OverwriteHeld
  <2> QED BY <1>12, <1>7, <2>1, <2>2
<1>8. ASSUME NEW ws, Fresh(ws), pc = "run", now' \in Nat, now <= now',
             memtable' \in {memtable, Overwrite(memtable, ws)},
             wal' \in {wal, [wal EXCEPT !.recs = @ \cup ws]}
      PROVE  Good
  <2>1. /\ Typed
        /\ memtable' \subseteq memtable \cup ws /\ wal'.recs \subseteq wal.recs \cup ws
    BY <1>7, <1>8 DEF Fresh
  <2>2. In(ws)
    BY <1>8, <2>1 DEF Holds
  <2> QED BY <2>1, <2>2
<1>9. ASSUME NEW ws, ws \subseteq Version, IsFiniteSet(ws), AppendForever(ws) PROVE Good
  <2>1. wal' = wal /\ now' = now /\ pc' = "stuck"
        /\ memtable' \in {memtable, Overwrite(memtable, ws)}
    BY <1>9 DEF AppendForever, disk
  <2>2. Typed
    BY <1>7, <1>9, <1>12, <2>1
  <2> QED BY <1>14, <2>1, <2>2
<1>10. ASSUME NEW kvs \in Batches, PutBatch(kvs) \/ PutBatchFails(kvs)
               \/ AppendForever(Stamped(kvs, now))
      PROVE  Good
  <2> DEFINE ws == Stamped(kvs, now)
  <2>1. /\ ws \subseteq Version /\ IsFiniteSet(ws) /\ now + Len(kvs) \in Nat
        /\ now <= now + Len(kvs) /\ (now' = now + Len(kvs) => Fresh(ws))
    BY <1>12, WritesAreVersions
  <2> HIDE DEF Good
  <2>2. CASE PutBatch(kvs)
    BY <1>8, <2>1, <2>2 DEF PutBatch, Write
  <2>3. CASE PutBatchFails(kvs)
    BY <1>8, <2>1, <2>3 DEF PutBatchFails
  <2>4. CASE AppendForever(ws)
    BY <1>9, <2>1, <2>4
  <2> QED BY <1>10, <2>2, <2>3, <2>4
<1>11. ASSUME NEW k \in Keys, Delete(k) \/ DeleteFails(k) \/ AppendForever(Tombstone(k))
      PROVE  Good
  <2> DEFINE ws == Tombstone(k)
  <2>1. /\ ws \subseteq Version /\ IsFiniteSet(ws) /\ now + 1 \in Nat /\ now <= now + 1
        /\ (now' = now + 1 => Fresh(ws))
    BY <1>12, WritesAreVersions
  <2> HIDE DEF Good
  <2>2. CASE Delete(k)
    BY <1>8, <2>1, <2>2 DEF Delete, Write, Tombstone
  <2>3. CASE DeleteFails(k)
    BY <1>8, <2>1, <2>3 DEF DeleteFails, memory
  <2>4. CASE AppendForever(ws)
    BY <1>9, <2>1, <2>4
  <2> QED BY <1>11, <2>2, <2>3, <2>4
<1> HIDE DEF Good
<1>16. CASE Well
  BY <1>16, <1>2, <1>4, <1>5, <1>6, <1>10, <1>11 DEF Well
<1>17. CASE Faults
  BY <1>17, <1>3, <1>6, <1>10, <1>11 DEF Faults
<1> QED BY <1>2, <1>16, <1>17 DEF FaultNext

\* A tree that Open builds from files of versions.
LEMMA SoundLoaded ==
  ASSUME NEW V, NEW fs, \A f \in fs : f.ents \subseteq V, NEW sizes, NEW id, NEW tr,
         tr = [levels |-> [l \in Level |-> {[id |-> f.id, ents |-> f.ents] :
                                             f \in {g \in fs : g.level = l}}],
               sizes  |-> sizes,
               nextID |-> id]
  PROVE  Sound(tr, V)
BY DEF Sound

\* Files and trees have nothing but what the memtable had.
LEMMA DiskStep ==
  ASSUME NEW V, Holds(V), level \in Nat, [FaultNext]_allVars,
         NEW W, V \subseteq W, pc' # "stuck" => memtable' \subseteq W
  PROVE  /\ \A f \in files' : f.level \in Level /\ f.ents \subseteq W
         /\ Sound(tree, W)' /\ Sound(target, W)'
<1> DEFINE Good == /\ \A f \in files' : f.level \in Level /\ f.ents \subseteq W
                   /\ Sound(tree', W) /\ Sound(target', W)
<1> SUFFICES Good
  BY DEF Sound
<1>20. Sound(tree, W) /\ Sound(target, W)
  BY DEF Holds, Sound
<1>21. \A f \in files \cup FilesOf(tree) \cup FilesOf(target) :
         f.level \in Level /\ f.ents \subseteq W
  <2>1. \A f \in FilesOf(tree) \cup FilesOf(target) : f.level \in Level /\ f.ents \subseteq W
    BY <1>20, SoundFiles
  <2> QED BY <2>1 DEF Holds
<1>1. ASSUME files' \subseteq files \cup FilesOf(tree) \cup FilesOf(target),
             tree' \in {tree, target},
             Sound(target', W)
      PROVE  Good
  <2>1. Sound(tree', W)
    BY <1>20, <1>21, <1>1
  <2> QED BY <1>20, <1>21, <1>1, <2>1
<1>2. CASE \/ OpenWal \/ FlushReset \/ CompactorReceive \/ CompactorUnlock
           \/ \E k \in Keys : Delete(k)
           \/ UNCHANGED allVars
  <2>1. UNCHANGED <<files, tree, target>>
    BY <1>2 DEF OpenWal, FlushReset, CompactorReceive, CompactorUnlock, Delete, Write,
                disk, memory, vars, allVars
  <2> QED BY <1>20, <1>21, <1>1, <2>1
<1>3. CASE \/ \E kvs \in Batches : PutBatchFails(kvs) \/ AppendForever(Stamped(kvs, now))
           \/ \E k \in Keys : DeleteFails(k) \/ AppendForever(Tombstone(k))
           \/ OpenResetFails
  <2>1. UNCHANGED <<files, tree, target>>
    BY <1>3 DEF PutBatchFails, AppendForever, DeleteFails, OpenResetFails, disk, memory
  <2> QED BY <1>20, <1>21, <1>1, <2>1
\* Open, Close and SIGKILL.
<1>4. CASE OpenLoad
  <2>1. files' = Listed /\ target' = tree' /\ Listed \subseteq files
    BY <1>4 DEF OpenLoad, Listed
  <2>2. \A f \in Listed : f.ents \subseteq W
    BY <1>20, <1>21, <2>1
  <2>3. Sound(tree', W)
    BY <1>4, <2>2, SoundLoaded DEF OpenLoad
  <2> QED BY <1>20, <1>21, <2>1, <2>3
<1>5. CASE Kill \/ Close \/ CloseBroken
  <2>1. /\ tree' = EmptyTree(tree.nextID) /\ target' = EmptyTree(tree.nextID)
        /\ files' = files
    BY <1>5 DEF Kill, Close, CloseBroken, Gone, disk
  <2>2. Sound(tree', W) /\ Sound(target', W)
    BY <2>1, SoundEmpty
  <2> QED BY <1>20, <1>21, <2>1, <2>2
<1>6. CASE OpenSkips \/ OpenScan
  <2>1. PICK fs \in SUBSET files : Loaded(fs)
    BY <1>6 DEF OpenSkips, OpenScan, Listed
  <2>2. files' \subseteq files
    BY <1>6 DEF OpenSkips, OpenScan, Listed
  <2>3. \A f \in fs : f.ents \subseteq W
    BY <1>20, <1>21
  <2>4. Sound(TreeOf(fs), W)
    BY <2>3, SoundLoaded DEF TreeOf
  <2>5. tree' = TreeOf(fs) /\ target' = tree'
    BY <2>1 DEF Loaded
  <2>6. Sound(tree', W) /\ Sound(target', W)
    BY <2>4, <2>5
  <2> QED BY <1>20, <1>21, <2>2, <2>6
\* Writes and flushes.
<1>7. ASSUME NEW kvs \in Batches, PutBatch(kvs) PROVE Good
  <2>1. UNCHANGED <<files, tree>>
    BY <1>7 DEF PutBatch
  <2>2. target' = target \/ (pc' = "create" /\ target' = AddToL0(tree, memtable'))
    BY <1>7 DEF PutBatch
  <2>3. CASE target' = target
    BY <1>20, <1>1, <2>1, <2>3
  <2>4. CASE pc' = "create" /\ target' = AddToL0(tree, memtable')
    <3>1. Sound(AddToL0(tree, memtable'), W)
      BY <1>20, <2>4, SoundAdd
    <3>2. Sound(target', W)
      BY <2>4, <3>1
    <3> QED BY <1>1, <2>1, <3>2
  <2> QED BY <2>2, <2>3, <2>4
<1>8. CASE FlushCreate \/ CompactOutputs
  <2>1. files' = Written(files, FilesOf(target) \ FilesOf(tree)) /\ UNCHANGED <<tree, target>>
    BY <1>8 DEF FlushCreate, CompactOutputs
  <2> QED BY <1>20, <1>21, <1>1, <2>1 DEF Written
<1>9. CASE FlushInstall
  <2>1. /\ UNCHANGED files /\ tree' = target
        /\ target' \in {target, WriterCompaction(target)}
    BY <1>9 DEF FlushInstall
  <2>2. Sound(target', W)
    BY <1>20, <1>21, <2>1, SoundWriter
  <2> QED BY <1>1, <2>1, <2>2
<1>10. ASSUME files' \subseteq files, Failed PROVE Good
  <2>1. tree' = [tree EXCEPT !.nextID = @ + 1] /\ target' = tree'
    BY <1>10 DEF Failed
  <2>2. Sound(tree', W)
    BY <1>20, <1>21, <2>1 DEF Sound
  <2> QED BY <1>20, <1>21, <1>10, <2>1, <2>2
<1>11. CASE FlushCreateFails \/ FlushResetFails \/ FlushOpenFails
  <2>1. files' \subseteq files /\ Failed
    BY <1>11 DEF FlushCreateFails, FlushResetFails, FlushOpenFails, disk
  <2> QED BY <1>10, <2>1
<1>12. CASE FlushManifestFails
  <2>1. files' = files /\ tree' = target /\ target' = target
    BY <1>12 DEF FlushManifestFails, disk
  <2> QED BY <1>20, <1>21, <1>1, <2>1
\* Compactions.
<1>13. CASE CompactRemove \/ CompactInstall
  <2>1. files' \subseteq files /\ tree' \in {tree, target} /\ target' = target
    BY <1>13 DEF CompactRemove, CompactInstall, memory
  <2> QED BY <1>20, <1>21, <1>1, <2>1
<1>14. CASE CompactorLock \/ CompactorLevel
  <2>1. UNCHANGED <<files, tree>>
    BY <1>14 DEF CompactorLock, CompactorLevel, Turn, disk
  <2>2. target' \in {target, CompactL0ToL1(tree), CompactLevel(tree, level)}
    BY <1>14 DEF CompactorLock, CompactorLevel, Turn
  <2>3. Sound(target', W)
    BY <1>20, <1>21, <2>2, SoundL0, SoundLevel
  <2> QED BY <1>1, <2>1, <2>3
<1>15. CASE CompactFails
  <2>1. files' \subseteq files \cup FilesOf(target) /\ tree' = tree /\ target' = tree
    BY <1>15 DEF CompactFails, Written, Outputs
  <2> QED BY <1>20, <1>21, <1>1, <2>1
<1>16. CASE CompactOpenFails
  <2> DEFINE left(missing) == [l \in Level |-> target.levels[l] \ missing[l]]
  <2>1. PICK missing, sizes :
          tree' = [target EXCEPT !.levels = left(missing), !.sizes = sizes]
    <3>1. PICK first \in Outputs :
            LET missing(l) == {t \in target.levels[l] : l = first.level /\ t.id >= first.id}
            IN  tree' = [target EXCEPT
                           !.levels = [l \in Level |-> @[l] \ missing(l)],
                           !.sizes = [l \in Level |-> @[l] - DataSize(missing(l))]]
      BY <1>16 DEF CompactOpenFails
    <3> DEFINE gone == [l \in Level |-> {t \in target.levels[l] :
                                           l = first.level /\ t.id >= first.id}]
               sizes == [l \in Level |-> target.sizes[l] - DataSize(gone[l])]
    <3>2. tree' = [target EXCEPT !.levels = left(gone), !.sizes = sizes]
      BY <3>1
    <3> QED BY <3>2
  <2>2. target' = tree' /\ files' = files
    BY <1>16 DEF CompactOpenFails
  <2>3. Sound(tree', W)
    BY <1>20, <1>21, <2>1 DEF Sound
  <2> QED BY <1>20, <1>21, <2>2, <2>3
<1>17. CASE CompactManifestFails
  <2>1. files' = files /\ tree' = target /\ target' = target
    BY <1>17 DEF CompactManifestFails
  <2> QED BY <1>20, <1>21, <1>1, <2>1
<1>18. CASE Well
  BY <1>18, <1>2, <1>4, <1>5, <1>7, <1>8, <1>9, <1>13, <1>14 DEF Well
<1>19. CASE Faults
  BY <1>19, <1>3, <1>6, <1>11, <1>12, <1>15, <1>16, <1>17 DEF Faults
<1> QED BY <1>2, <1>18, <1>19 DEF FaultNext
\* What was written is the past of the next state.
LEMMA HeldStep ==
  ASSUME Held, level \in Nat, [FaultNext]_allVars
  PROVE  Held'
<1>1. PICK V \in SUBSET Version : Holds(V) /\ OneVersion(V) /\ Stale(V, now)
  BY DEF Held
<1>2. /\ memtable' \subseteq Version /\ IsFiniteSet(memtable')
      /\ wal' \in [recs : SUBSET Version, grown : BOOLEAN] /\ IsFiniteSet(wal'.recs)
      /\ now' \in Nat /\ now <= now'
  BY <1>1, MemoryStep
<1>3. PICK ws : /\ Fresh(ws)
                /\ pc' # "stuck" => memtable' \subseteq V \cup ws
                /\ wal'.recs \subseteq V \cup ws
  BY <1>1, MemoryStep
<1> DEFINE W == V \cup ws
<1>4. W \subseteq Version /\ OneVersion(W) /\ Stale(W, now')
  BY <1>1, <1>2, <1>3, PastGrows DEF Held
<1>5. /\ \A f \in files' : f.level \in Level /\ f.ents \subseteq W
      /\ Sound(tree, W)' /\ Sound(target, W)'
  BY <1>1, <1>3, DiskStep
<1>6. Holds(W)'
  BY <1>3, <1>5 DEF Holds
<1>7. \E U \in SUBSET Version : Holds(U)' /\ OneVersion(U) /\ Stale(U, now')
  BY <1>4, <1>6
<1> QED BY <1>2, <1>7 DEF Held

\* In particular, there are only versions.
LEMMA HeldTyped == Held => Holds(Version)
<1> SUFFICES ASSUME NEW V \in SUBSET Version, Holds(V) PROVE Holds(Version)
  BY DEF Held
<1> QED BY DEF Holds, Sound
-----------------------------------------------------------------------------
(* Who holds lsm.mu, and what he is about to install.                      *)

\* The flush in progress is that of the batch kvs.
FlushOf(kvs) ==
  LET m == Overwrite(before.memtable, Stamped(kvs, before.now))
  IN  /\ kvs # << >>
      /\ now = before.now + Len(kvs) /\ now <= MaxNow
      /\ Cardinality(m) >= FlushThreshold
      /\ target = AddToL0(tree, m)

Control ==
  /\ level \in Nat
  /\ pc \in {"outputs", "remove", "level"} \/ level = 0
  /\ pc = "level" => level > 0
  /\ level > 0 => ~woken
  /\ pc \in {"run", "level", "stuck"} => target = tree
  /\ pc = "install" => memtable = {}
  /\ pc \in {"create", "reset"} => target = AddToL0(tree, memtable)
  /\ Flushing => \E kvs \in Batches : FlushOf(kvs)

LEMMA ControlInit == FaultInit => Control
BY DEF FaultInit, Init, Control, Flushing

LEMMA ControlStep ==
  ASSUME Control, [FaultNext]_allVars
  PROVE  Control'
<1>1. CASE UNCHANGED allVars
  BY <1>1 DEF allVars, vars, disk, memory, Control, Flushing, FlushOf
<1>2. CASE OpenWal \/ OpenLoad \/ Kill \/ Close \/ CloseBroken
  BY <1>2 DEF OpenWal, OpenLoad, Kill, Close, CloseBroken, Gone, Control, Flushing
<1>3. CASE OpenResetFails
  BY <1>3 DEF OpenResetFails, memory, Control, Flushing
<1>4. CASE OpenSkips \/ OpenScan
  <2>1. pc = "load" /\ \E fs : Loaded(fs)
    BY <1>4 DEF OpenSkips, OpenScan
  <2>2. pc' = "run" /\ target' = tree' /\ UNCHANGED <<level, woken>>
    BY <2>1 DEF Loaded
  <2> QED BY <2>1, <2>2 DEF Control, Flushing
<1>5. ASSUME NEW kvs \in Batches, PutBatch(kvs) PROVE Control'
  <2>1. CASE UNCHANGED <<pc, target, before>>
    BY <1>5, <2>1 DEF PutBatch, Write, Control, Flushing
  <2>2. CASE /\ Cardinality(memtable') >= FlushThreshold
             /\ pc' = "create"
             /\ target' = AddToL0(tree, memtable')
             /\ before' = [memtable |-> memtable, now |-> now]
    <3>1. /\ kvs # << >> /\ now' = now + Len(kvs) /\ now' <= MaxNow
          /\ memtable' = Overwrite(memtable, Stamped(kvs, now)) /\ tree' = tree
          /\ pc = "run" /\ level' = level
      BY <1>5 DEF PutBatch, Write
    <3>2. FlushOf(kvs)'
      BY <2>2, <3>1 DEF FlushOf
    <3> QED BY <2>2, <3>1, <3>2 DEF Control, Flushing
  <2> QED BY <1>5, <2>1, <2>2 DEF PutBatch
<1>6. ASSUME NEW k \in Keys, Delete(k) PROVE Control'
  BY <1>6 DEF Delete, Write, Control, Flushing
<1>7. ASSUME NEW kvs \in Batches, PutBatchFails(kvs) PROVE Control'
  BY <1>7 DEF PutBatchFails, Control, Flushing
<1>8. ASSUME NEW k \in Keys, DeleteFails(k) PROVE Control'
  BY <1>8 DEF DeleteFails, memory, Control, Flushing
<1>9. ASSUME NEW ws, AppendForever(ws) PROVE Control'
  BY <1>9 DEF AppendForever, Control, Flushing
<1>10. CASE FlushCreate \/ FlushReset
  BY <1>10 DEF FlushCreate, FlushReset, Control, Flushing, FlushOf
<1>11. CASE FlushInstall
  BY <1>11 DEF FlushInstall, Control, Flushing
<1>12. CASE FlushCreateFails \/ FlushResetFails \/ FlushOpenFails
  BY <1>12 DEF FlushCreateFails, FlushResetFails, FlushOpenFails, Failed, Control, Flushing
<1>13. CASE FlushManifestFails
  BY <1>13 DEF FlushManifestFails, Control, Flushing
<1>14. CASE CompactOutputs \/ CompactRemove \/ CompactInstall
  BY <1>14 DEF CompactOutputs, CompactRemove, CompactInstall, memory, Control, Flushing
<1>15. CASE CompactFails \/ CompactOpenFails \/ CompactManifestFails
  <2>1. pc \in {"outputs", "remove"} /\ target' = tree' /\ CompactReturns
    <3>1. CASE CompactFails
      BY <3>1 DEF CompactFails
    <3>2. CASE CompactOpenFails
      BY <3>2 DEF CompactOpenFails
    <3>3. CASE CompactManifestFails
      BY <3>3 DEF CompactManifestFails
    <3> QED BY <1>15, <3>1, <3>2, <3>3
  <2>2. /\ UNCHANGED <<level, woken>>
        /\ (level = 0 /\ pc' = "run") \/ (level # 0 /\ pc' = "level")
    BY <2>1 DEF CompactReturns
  <2> QED BY <2>1, <2>2 DEF Control, Flushing
<1>16. CASE CompactorReceive
  BY <1>16 DEF CompactorReceive, Control, Flushing, FlushOf
<1>17. CASE CompactorLock \/ CompactorLevel \/ CompactorUnlock
  BY <1>17 DEF CompactorLock, CompactorLevel, CompactorUnlock, Turn, Control, Flushing
<1>18. CASE Well
  BY <1>18, <1>2, <1>5, <1>6, <1>10, <1>11, <1>14, <1>16, <1>17 DEF Well
<1>19. CASE Faults
  BY <1>19, <1>3, <1>4, <1>7, <1>8, <1>9, <1>12, <1>13, <1>15 DEF Faults
<1> QED BY <1>1, <1>18, <1>19 DEF FaultNext
-----------------------------------------------------------------------------
(* The faults there were.                                                  *)

LEMMA HitGrows ==
  ASSUME [FaultNext]_allVars
  PROVE  hit \subseteq hit'
<1> DEFINE Grows == hit' = hit \/ \E kind : Fault(kind)
<1>1. CASE UNCHANGED allVars \/ Well
  <2>1. hit' = hit
    BY <1>1 DEF allVars, faultVars, Well, Writing, Forgetting, Ending
  <2> QED BY <2>1
<1>2. CASE Faults
  <2>1. \A kvs : PutBatchFails(kvs) => Grows
    BY DEF PutBatchFails, AppendFails
  <2>2. \A k : DeleteFails(k) => Grows
    BY DEF DeleteFails, AppendFails
  <2>3. \A ws : AppendForever(ws) => Grows
    BY DEF AppendForever, faultVars
  <2>4. FlushCreateFails \/ FlushResetFails \/ FlushOpenFails \/ FlushManifestFails => Grows
    BY DEF FlushCreateFails, FlushResetFails, FlushOpenFails, FlushManifestFails, ManifestFails
  <2>5. CompactFails \/ CompactOpenFails \/ CompactManifestFails => Grows
    BY DEF CompactFails, CompactOpenFails, CompactManifestFails, ManifestFails
  <2>6. OpenResetFails \/ OpenSkips \/ OpenScan => Grows
    BY DEF OpenResetFails, OpenSkips, OpenScan
  <2>7. Grows
    BY <1>2, <2>1, <2>2, <2>3, <2>4, <2>5, <2>6 DEF Faults
  <2> QED BY <2>7 DEF Fault
<1> QED BY <1>1, <1>2 DEF FaultNext

\* How a fault may have left the log, and where a map besides acked and tried matters:
\* a fault comes alone, and nobody flushes to a log that is not mapped.
Fate ==
  /\ \A j, k \in hit : j = k
  /\ mapping \in {"ok", "dangling", "nil", "kept"}
  /\ mapping \in {"dangling", "nil"} => pc \in {"run", "level", "outputs", "remove", "stuck"}
  /\ mapping = "kept" => "cut" \in hit /\ Running /\ other = {}
  /\ mapping = "dangling" => hit = {"grow"}
  /\ mapping = "nil" => "reset" \in hit \/ "cut" \in hit
  /\ pc = "stuck" => mapping = "nil"
  /\ other # {} => hit # {} /\ Running /\ pc # "install"
  /\ pc \in {"run", "level"} \/ level > 0 \/ (mapping \in {"dangling", "nil"} /\ pc # "stuck")
       => acked = tried
  /\ pc = "load" => wal.recs = {}

\* The first fault is the only one.
LEMMA OneFault ==
  ASSUME Fate, NEW kind, Fault(kind)
  PROVE  hit = {} /\ hit' = {kind} /\ mapping = "ok" /\ other = {}
<1>1. hit = {}
  <2> SUFFICES ASSUME NEW k \in hit PROVE FALSE
    OBVIOUS
  <2>1. hit = {k}
    BY DEF Fate
  <2>2. Cardinality(hit) = 1
    BY <2>1, FS_Singleton
  <2> QED BY <2>2, FaultsAssumption DEF Fault
<1> QED BY <1>1 DEF Fate, Fault

LEMMA FateInit == FaultInit => Fate
BY DEF FaultInit, Init, Fate

LEMMA FateStep ==
  ASSUME Held, Control, Fate, [FaultNext]_allVars
  PROVE  Fate'
<1> USE DEF Running
<1>1. CASE UNCHANGED allVars
  BY <1>1 DEF allVars, vars, disk, memory, faultVars, Fate
\* Open, Close and SIGKILL.
<1>2. CASE OpenWal /\ UNCHANGED faultVars
  BY <1>2 DEF OpenWal, EmptyLog, faultVars, Fate, Control
<1>3. CASE OpenLoad /\ UNCHANGED faultVars
  BY <1>3 DEF OpenLoad, faultVars, Fate
<1>4. CASE (Kill \/ Close \/ CloseBroken) /\ Ending
  BY <1>4 DEF Kill, Close, CloseBroken, Gone, Ending, Fate
\* Writes.
<1>5. ASSUME NEW kvs \in Batches, PutBatch(kvs), Writing(Stamped(kvs, now)) PROVE Fate'
  <2>1. other' # {} => other # {}
    BY <1>5 DEF Writing
  <2> QED BY <1>5, <2>1 DEF PutBatch, Write, Writing, Fate, Control
<1>6. ASSUME NEW k \in Keys, Delete(k), Writing(Tombstone(k)) PROVE Fate'
  <2>1. other' # {} => other # {}
    BY <1>6 DEF Writing
  <2> QED BY <1>6, <2>1 DEF Delete, Write, Writing, Fate, Control
<1>7. ASSUME AppendFails PROVE /\ mapping' = "dangling" /\ hit' = {"grow"}
                               /\ mapping \in {"ok", "dangling"}
  BY <1>7, OneFault DEF AppendFails, Fate
<1>8. ASSUME NEW kvs \in Batches, PutBatchFails(kvs) PROVE Fate'
  <2>1. pc = "run" /\ pc' = pc /\ level' = level /\ acked' = tried'
    BY <1>8 DEF PutBatchFails
  <2>2. CASE AppendFails
    BY <1>7, <2>1, <2>2 DEF Fate
  <2>3. CASE Fault("sync") /\ UNCHANGED mapping
    BY <2>1, <2>3, OneFault DEF Fate
  <2> QED BY <1>8, <2>2, <2>3 DEF PutBatchFails
<1>9. ASSUME NEW k \in Keys, DeleteFails(k) PROVE Fate'
  <2>1. pc = "run" /\ UNCHANGED <<pc, level, acked, tried>>
    BY <1>9 DEF DeleteFails, memory
  <2>2. CASE AppendFails
    BY <1>7, <2>1, <2>2 DEF Fate
  <2>3. CASE Fault("sync") /\ UNCHANGED mapping
    BY <2>1, <2>3, OneFault DEF Fate
  <2> QED BY <1>9, <2>2, <2>3 DEF DeleteFails
<1>10. ASSUME NEW ws, AppendForever(ws) PROVE Fate'
  BY <1>10 DEF AppendForever, disk, faultVars, Fate, Control
\* Flushes.
<1>11. CASE (FlushCreate \/ FlushInstall) /\ UNCHANGED faultVars
  BY <1>11 DEF FlushCreate, FlushInstall, faultVars, Fate, Control
<1>12. CASE FlushReset /\ Forgetting
  BY <1>12 DEF FlushReset, Forgetting, Fate, Control
<1>13. CASE FlushCreateFails \/ FlushOpenFails \/ FlushManifestFails
  <2>1. /\ pc \in {"create", "install"} /\ pc' = "run" /\ level' = level
        /\ acked' = tried /\ tried' = tried /\ UNCHANGED <<mapping, other>>
        /\ \E kind : Fault(kind)
    BY <1>13 DEF FlushCreateFails, FlushOpenFails, FlushManifestFails, ManifestFails, Failed
  <2> QED BY <2>1, OneFault DEF Fate
<1>14. CASE FlushResetFails
  <2>1. /\ pc = "reset" /\ pc' = "run" /\ level' = level /\ acked' = tried /\ tried' = tried
        /\ mapping' \in {"nil", "kept"} /\ UNCHANGED other
        /\ \E kind \in {"reset", "cut"} : Fault(kind) /\ (mapping' = "kept" => kind = "cut")
    BY <1>14 DEF FlushResetFails, Failed
  <2> QED BY <2>1, OneFault DEF Fate
\* Compactions.
<1>15. CASE /\ \/ CompactOutputs \/ CompactRemove \/ CompactorReceive
               \/ CompactorLock \/ CompactorLevel \/ CompactorUnlock
            /\ UNCHANGED faultVars
  BY <1>15 DEF CompactOutputs, CompactRemove, CompactorReceive, CompactorLock,
               CompactorLevel, CompactorUnlock, Turn, disk, memory, faultVars, Fate, Control
<1>16. CASE CompactInstall /\ UNCHANGED faultVars
  BY <1>16 DEF CompactInstall, faultVars, Fate, Control
<1>17. CASE CompactFails \/ CompactOpenFails \/ CompactManifestFails
  <2>1. /\ pc \in {"outputs", "remove"} /\ CompactReturns /\ \E kind : Fault(kind)
    BY <1>17 DEF CompactFails, CompactOpenFails, CompactManifestFails, ManifestFails
  <2>2. /\ UNCHANGED <<level, tried, mapping, other>>
        /\ \/ level = 0 /\ pc' = "run" /\ acked' = tried
           \/ level > 0 /\ pc' = "level" /\ acked' = acked
    BY <2>1 DEF CompactReturns, Control
  <2> QED BY <2>1, <2>2, OneFault DEF Fate
\* Open, with a fault.
<1>18. CASE OpenResetFails
  <2>1. Fault("cut") /\ pc = "down" /\ UNCHANGED <<pc, level, acked, tried, mapping, other>>
    BY <1>18 DEF OpenResetFails, memory
  <2> QED BY <2>1, OneFault DEF Fate
<1>19. CASE OpenSkips \/ OpenScan
  <2>1. pc = "load" /\ (\E kind : Fault(kind)) /\ \E fs : Loaded(fs)
    BY <1>19 DEF OpenSkips, OpenScan
  <2>2. pc' = "run" /\ acked' = tried' /\ UNCHANGED <<mapping, other>>
    BY <2>1 DEF Loaded
  <2> QED BY <2>1, <2>2, OneFault DEF Fate
<1>20. CASE Well
  BY <1>20, <1>2, <1>3, <1>4, <1>5, <1>6, <1>11, <1>12, <1>15, <1>16 DEF Well
<1>21. CASE Faults
  BY <1>21, <1>8, <1>9, <1>10, <1>13, <1>14, <1>17, <1>18, <1>19 DEF Faults
<1> QED BY <1>1, <1>20, <1>21 DEF FaultNext
-----------------------------------------------------------------------------
(* While the process runs, it implements Lsm.  The instance L has its own  *)
(* copy of the operators of Tables; they are the same operators.           *)

LEMMA SameCardinality == \A s : L!Cardinality(s) = Cardinality(s)
BY DEF L!Cardinality, Cardinality

LEMMA SameRank == \A k, ks : L!Rank(k, ks) = Rank(k, ks)
BY SameCardinality DEF L!Rank, Rank

LEMMA SameWrites ==
  /\ \A m, ws : L!Overwrite(m, ws) = Overwrite(m, ws)
  /\ \A kvs, t : L!Stamped(kvs, t) = Stamped(kvs, t)
BY DEF L!Overwrite, Overwrite, L!Stamped, Stamped

LEMMA SameSize == \A T : L!DataSize(T) = DataSize(T)
BY SameCardinality DEF L!DataSize, DataSize

LEMMA SameKeys ==
  /\ \A vs : L!KeysOf(vs) = KeysOf(vs)
  /\ \A t : L!MinKey(t) = MinKey(t) /\ L!MaxKey(t) = MaxKey(t)
<1>1. \A vs : L!KeysOf(vs) = KeysOf(vs)
  BY DEF L!KeysOf, KeysOf
<1>2. \A t : L!IndexedKeys(t) = IndexedKeys(t)
  BY <1>1, SameRank DEF L!IndexedKeys, IndexedKeys
<1> QED BY <1>1, <1>2 DEF L!MinKey, MinKey, L!MaxKey, MaxKey, L!FSE!Min, FSE!Min,
                          L!FSE!Max, FSE!Max

LEMMA SameChoice ==
  /\ \A T : L!OldestOf(T) = OldestOf(T)
  /\ \A T, victims : L!Overlapping(T, victims) = Overlapping(T, victims)
<1>1. \A c : L!VictimCount(c) = VictimCount(c)
  BY DEF L!VictimCount, VictimCount
<1>2. \A T : L!OldestOf(T) = OldestOf(T)
  BY <1>1, SameCardinality DEF L!OldestOf, OldestOf
<1>3. \A T, victims : L!Overlapping(T, victims) = Overlapping(T, victims)
  BY SameKeys DEF L!Overlapping, Overlapping, L!FSE!Min, FSE!Min, L!FSE!Max, FSE!Max
<1> QED BY <1>2, <1>3

LEMMA SameMerge == \A T, lv, id : L!DoCompact(T, lv, id) = DoCompact(T, lv, id)
<1>1. \A T : L!EntriesOf(T) = EntriesOf(T)
  BY DEF L!EntriesOf, EntriesOf
<1>2. \A vs : L!Newest(vs) = Newest(vs)
  BY DEF L!Newest, Newest
<1>3. \A T, lv : L!Merge(T, lv) = Merge(T, lv)
  BY <1>1, <1>2 DEF L!Merge, Merge
<1> QED BY <1>3, SameRank, SameKeys DEF L!DoCompact, DoCompact

LEMMA SameCompactions ==
  /\ \A tr : L!CompactL0ToL1(tr) = CompactL0ToL1(tr)
  /\ \A tr, l : L!CompactLevel(tr, l) = CompactLevel(tr, l)
<1>1. ASSUME NEW tr, NEW src, NEW from, NEW into, NEW out
      PROVE  L!Compacted(tr, src, from, into, out) = Compacted(tr, src, from, into, out)
  <2>1. /\ L!DataSize(from) = DataSize(from) /\ L!DataSize(into) = DataSize(into)
        /\ L!DataSize(out) = DataSize(out) /\ L!Cardinality(out) = Cardinality(out)
    BY SameSize, SameCardinality
  <2> QED BY <2>1 DEF L!Compacted, Compacted
<1>2. \A tr : L!CompactL0ToL1(tr) = CompactL0ToL1(tr)
  BY <1>1, SameChoice, SameMerge DEF L!CompactL0ToL1, CompactL0ToL1
<1>3. \A tr, l : L!CompactLevel(tr, l) = CompactLevel(tr, l)
  BY <1>1, SameMerge DEF L!CompactLevel, CompactLevel
<1> QED BY <1>2, <1>3

LEMMA SameFlush ==
  \A tr, m : L!FlushMemtable(tr, m) = WriterCompaction(AddToL0(tr, m))
<1>1. \A tr, m : L!AddToL0(tr, m) = AddToL0(tr, m)
  BY SameSize DEF L!AddToL0, AddToL0
<1>2. \A tr : L!WriterCompaction(tr) = WriterCompaction(tr)
  BY SameCardinality, SameCompactions DEF L!WriterCompaction, WriterCompaction
<1> QED BY <1>1, <1>2 DEF L!FlushMemtable

LEMMA FaultsAreSeen == ASSUME NEW kind, Fault(kind) PROVE hit' # hit
BY DEF Fault

\* A step without a new fault goes well, if the log is mapped or nobody writes.
LEMMA WellSteps ==
  ASSUME FaultNext, hit' = hit, mapping = "ok" \/ pc # "run"
  PROVE  Well
<1>1. \A kind : ~Fault(kind)
  BY FaultsAreSeen
<1>2. mapping = "ok" => ~AppendFails
  BY <1>1 DEF AppendFails
<1>3. /\ \A kvs : ~PutBatchFails(kvs)
      /\ \A k : ~DeleteFails(k)
  BY <1>1, <1>2 DEF PutBatchFails, DeleteFails
<1>4. \A ws : ~AppendForever(ws)
  BY DEF AppendForever
<1>5. ~(FlushCreateFails \/ FlushResetFails \/ FlushOpenFails \/ FlushManifestFails)
  BY <1>1 DEF FlushCreateFails, FlushResetFails, FlushOpenFails, FlushManifestFails, ManifestFails
<1>6. ~(CompactFails \/ CompactOpenFails \/ CompactManifestFails)
  BY <1>1 DEF CompactFails, CompactOpenFails, CompactManifestFails, ManifestFails
<1>7. ~(OpenResetFails \/ OpenSkips \/ OpenScan)
  BY <1>1 DEF OpenResetFails, OpenSkips, OpenScan
<1> QED BY <1>3, <1>4, <1>5, <1>6, <1>7 DEF FaultNext, Faults

LEMMA LsmStep ==
  ASSUME Control, Well, Running, Running'
  PROVE  [L!Next]_(L!vars)
<1>1. ASSUME NEW kvs \in Batches, PutBatch(kvs) PROVE [L!Next]_(L!vars)
  <2> DEFINE ws == Stamped(kvs, now)
  <2>1. /\ pc = "run" /\ kvs # << >> /\ now + Len(kvs) <= MaxNow /\ now' = now + Len(kvs)
        /\ memtable' = Overwrite(memtable, ws)
        /\ UNCHANGED <<tree, compactCh, woken, level>>
    BY <1>1 DEF PutBatch, Write
  <2>2. level = 0 /\ target = tree /\ ~Flushing
    BY <2>1 DEF Control, Flushing
  \* Nothing is flushed.
  <2>3. CASE Cardinality(memtable') < FlushThreshold /\ UNCHANGED <<pc, target, before>>
    <3>1. ~Flushing'
      BY <2>1, <2>3 DEF Flushing
    <3>2. L!PutBatch(kvs)
      BY <2>1, <2>2, <2>3, <3>1, SameWrites, SameCardinality DEF L!PutBatch, L!MuFree
    <3> QED BY <3>2 DEF L!Next
  \* A flush begins, which is taken as its last step.
  <2>4. CASE /\ pc' = "create" /\ target' = AddToL0(tree, memtable')
             /\ before' = [memtable |-> memtable, now |-> now]
    <3>1. Flushing'
      BY <2>4 DEF Flushing
    <3> QED BY <2>1, <2>2, <2>4, <3>1 DEF L!vars
  <2> QED BY <1>1, <2>3, <2>4 DEF PutBatch
<1>2. ASSUME NEW k \in Keys, Delete(k) PROVE [L!Next]_(L!vars)
  <2>1. /\ pc = "run" /\ now + 1 <= MaxNow /\ now' = now + 1
        /\ memtable' = Overwrite(memtable, {[key |-> k, ts |-> now + 1, tombstone |-> TRUE]})
        /\ UNCHANGED <<tree, compactCh, woken, level, pc, target, before>>
    BY <1>2 DEF Delete, Write
  <2>2. level = 0 /\ ~Flushing /\ ~Flushing'
    BY <2>1 DEF Control, Flushing
  <2>3. L!Delete(k)
    BY <2>1, <2>2, SameWrites DEF L!Delete, L!MuFree
  <2> QED BY <2>3 DEF L!Next
\* Steps of a flush or a compaction on the disk.
<1>3. CASE FlushCreate \/ FlushReset
  <2>1. /\ Flushing /\ Flushing'
        /\ UNCHANGED <<tree, compactCh, woken, level, before>>
    BY <1>3 DEF FlushCreate, FlushReset, Flushing
  <2> QED BY <2>1 DEF L!vars
<1>4. CASE CompactOutputs \/ CompactRemove \/ CompactInstall
  <2>1. /\ ~Flushing /\ ~Flushing'
        /\ UNCHANGED <<memtable, target, compactCh, woken, level, now>>
    BY <1>4 DEF CompactOutputs, CompactRemove, CompactInstall, memory, Flushing
  <2> QED BY <2>1 DEF L!vars
\* The flush is over: the whole of PutBatch.
<1>5. CASE FlushInstall
  <2>1. /\ pc = "install" /\ memtable = {} /\ level = 0 /\ Flushing /\ ~Flushing'
        /\ memtable' = {} /\ target' = WriterCompaction(target) /\ compactCh' = TRUE
        /\ UNCHANGED <<level, woken, now>>
    BY <1>5 DEF FlushInstall, Control, Flushing
  <2>2. PICK kvs \in Batches : FlushOf(kvs)
    BY <2>1 DEF Control
  <2> DEFINE m == Overwrite(before.memtable, Stamped(kvs, before.now))
  <2>3. /\ kvs # << >> /\ now = before.now + Len(kvs) /\ now <= MaxNow
        /\ Cardinality(m) >= FlushThreshold
        /\ target' = WriterCompaction(AddToL0(tree, m))
    BY <2>1, <2>2 DEF FlushOf
  <2>4. L!Overwrite(before.memtable, L!Stamped(kvs, before.now)) = m
    BY SameWrites
  <2> HIDE DEF m
  <2>5. L!FlushMemtable(tree, m) = target' /\ L!Cardinality(m) >= FlushThreshold
    BY <2>3, SameFlush, SameCardinality
  <2>6. L!Flush(m)
    BY <2>1, <2>5 DEF L!Flush
  <2>7. L!MuFree
    BY <2>1 DEF L!MuFree
  <2>8. L!PutBatch(kvs)
    BY <2>1, <2>3, <2>4, <2>5, <2>6, <2>7 DEF L!PutBatch
  <2> QED BY <2>8 DEF L!Next
\* compactionLoop.
<1>6. CASE CompactorReceive
  <2>1. /\ level = 0 /\ ~woken /\ compactCh /\ woken' = TRUE /\ compactCh' = FALSE
        /\ Flushing' = Flushing
        /\ UNCHANGED <<memtable, tree, pc, level, target, now, before>>
    BY <1>6 DEF CompactorReceive, Flushing
  <2>2. L!CompactorReceive
    BY <2>1 DEF L!CompactorReceive
  <2> QED BY <2>2 DEF L!Next, L!Compactor
<1>7. CASE CompactorLock
  <2>1. /\ woken /\ pc = "run" /\ woken' = FALSE /\ level = 0 /\ level' = 1
        /\ target = tree /\ ~Flushing /\ ~Flushing'
        /\ UNCHANGED <<memtable, tree, compactCh, now>>
    BY <1>7 DEF CompactorLock, Turn, Control, Flushing, disk
  <2>2. target' = IF Cardinality(tree.levels[0]) > MaxL0Files
                  THEN CompactL0ToL1(tree) ELSE tree
    BY <1>7, <2>1 DEF CompactorLock, Turn
  <2>3. L!CompactorLock
    BY <2>1, <2>2, SameCardinality, SameCompactions DEF L!CompactorLock
  <2> QED BY <2>3 DEF L!Next, L!Compactor
<1>8. CASE CompactorLevel
  <2>1. /\ pc = "level" /\ level \in Nat /\ level > 0 /\ level < NumLevels - 1
        /\ level' = level + 1 /\ target = tree /\ ~Flushing /\ ~Flushing'
        /\ UNCHANGED <<memtable, tree, compactCh, woken, now>>
    BY <1>8 DEF CompactorLevel, Turn, Control, Flushing, disk
  <2>2. target' = IF tree.sizes[level] > BaseLevelSize * LevelMultiplier ^ level
                  THEN CompactLevel(tree, level) ELSE tree
    BY <1>8, <2>1 DEF CompactorLevel, Turn
  <2>3. L!CompactorLevel
    BY <2>1, <2>2, SameCompactions DEF L!CompactorLevel, L!LevelLimit
  <2> QED BY <2>3 DEF L!Next, L!Compactor
<1>9. CASE CompactorUnlock
  <2>1. /\ pc = "level" /\ level > 0 /\ level = NumLevels - 1 /\ level' = 0 /\ ~woken
        /\ ~Flushing /\ ~Flushing'
        /\ UNCHANGED <<memtable, target, compactCh, woken, now>>
    BY <1>9 DEF CompactorUnlock, Control, Flushing, disk
  <2>2. L!CompactorUnlock
    BY <2>1 DEF L!CompactorUnlock
  <2> QED BY <2>2 DEF L!Next, L!Compactor
\* Open, Close and SIGKILL.
<1>10. CASE OpenWal \/ OpenLoad \/ Kill \/ Close \/ CloseBroken
  BY <1>10 DEF OpenWal, OpenLoad, Kill, Close, CloseBroken, Gone, Running
<1> QED BY <1>1, <1>2, <1>3, <1>4, <1>5, <1>6, <1>7, <1>8, <1>9, <1>10 DEF Well
-----------------------------------------------------------------------------
(* Trees and their files.                                                  *)

File == [level : Level, id : Nat, ents : SUBSET Version]

\* Files as the tree that lists them has them: a number names one file.
LEMMA BookedFiles ==
  ASSUME NEW tr, Books(tr)
  PROVE  /\ FilesOf(tr) \subseteq File /\ IsFiniteSet(FilesOf(tr))
         /\ \A f \in FilesOf(tr) : IsFiniteSet(f.ents) /\ f.id < tr.nextID
         /\ \A f, g \in FilesOf(tr) : f.id = g.id => f = g
<1> DEFINE file(l, t) == [level |-> l, id |-> t.id, ents |-> t.ents]
           at(l)      == {file(l, t) : t \in tr.levels[l]}
<1>1. \A f \in FilesOf(tr) : \E l \in Level : \E t \in tr.levels[l] : f = file(l, t)
  BY DEF FilesOf
<1>2. \A l \in Level : \A t \in tr.levels[l] :
        /\ file(l, t) \in File /\ IsFiniteSet(t.ents) /\ t.id < tr.nextID
  BY DEF Books, Shape, Numbered, Table, File
<1>3. \A f, g \in FilesOf(tr) : f.id = g.id => f = g
  <2> SUFFICES ASSUME NEW f \in FilesOf(tr), NEW g \in FilesOf(tr), f.id = g.id
               PROVE  f = g
    OBVIOUS
  <2>1. PICK l \in Level : \E t \in tr.levels[l] : f = file(l, t)
    BY <1>1
  <2>2. PICK m \in Level : \E u \in tr.levels[m] : g = file(m, u)
    BY <1>1
  <2>3. l = m /\ \A t \in tr.levels[l], u \in tr.levels[m] : t.id = u.id => t = u
    BY <2>1, <2>2 DEF Books, Numbered
  <2> QED BY <2>1, <2>2, <2>3
<1>4. ASSUME NEW l \in Level PROVE IsFiniteSet(at(l))
  <2>1. IsFiniteSet(tr.levels[l])
    BY DEF Books, Shape
  <2>2. [t \in tr.levels[l] |-> file(l, t)] \in Surjection(tr.levels[l], at(l))
    BY DEF Surjection
  <2> HIDE DEF at
  <2> QED BY <2>1, <2>2, FS_Surjection
<1>5. IsFiniteSet(UNION {at(l) : l \in Level})
  <2> DEFINE all == {at(l) : l \in Level}
  <2>1. IsFiniteSet(Level)
    BY ShapeAssumption, FS_Interval DEF Level
  <2>2. [l \in Level |-> at(l)] \in Surjection(Level, all)
    BY DEF Surjection
  <2>3. \A S \in all : IsFiniteSet(S)
    BY <1>4
  <2> HIDE DEF all
  <2>4. IsFiniteSet(all)
    BY <2>1, <2>2, FS_Surjection
  <2> QED BY <2>3, <2>4, FS_UNION DEF all
<1>6. FilesOf(tr) = UNION {at(l) : l \in Level}
  BY DEF FilesOf
<1> QED BY <1>1, <1>2, <1>3, <1>5, <1>6

\* The tree Open makes of listed files.
Built(fs, id) ==
  LET tables(l) == {[id |-> f.id, ents |-> f.ents] : f \in {g \in fs : g.level = l}}
  IN  [levels |-> [l \in Level |-> tables(l)],
       sizes  |-> [l \in Level |-> DataSize(tables(l))],
       nextID |-> id]

\* It has the files it was built from.
LEMMA LoadedBooks ==
  ASSUME NEW fs, fs \subseteq File, IsFiniteSet(fs), NEW id \in Nat,
         \A f \in fs : IsFiniteSet(f.ents) /\ f.id < id,
         \A f, g \in fs : f.id = g.id => f = g,
         NEW tr, tr = Built(fs, id)
  PROVE  Books(tr) /\ FilesOf(tr) = fs
<1> DEFINE at(l)     == {f \in fs : f.level = l}
           table(f)  == [id |-> f.id, ents |-> f.ents]
           tables(l) == {table(f) : f \in at(l)}
<1>1. /\ tr.levels = [l \in Level |-> tables(l)]
      /\ tr.sizes = [l \in Level |-> DataSize(tables(l))]
      /\ tr.nextID = id
  BY DEF Built
<1>2. \A f \in fs : /\ f.level \in Level /\ f.id \in Nat /\ f.ents \subseteq Version
                    /\ f = [level |-> f.level, id |-> f.id, ents |-> f.ents]
  BY DEF File
<1>3. ASSUME NEW l \in Level
      PROVE  /\ tables(l) \subseteq Table /\ IsFiniteSet(tables(l))
             /\ \A t \in tables(l) : IsFiniteSet(t.ents) /\ t.id < id
  <2>1. IsFiniteSet(at(l))
    BY FS_Subset
  <2>2. [f \in at(l) |-> table(f)] \in Surjection(at(l), tables(l))
    BY DEF Surjection
  <2>3. \A t \in tables(l) : \E f \in fs : t = table(f)
    OBVIOUS
  <2>4. \A t \in tables(l) : t \in Table /\ IsFiniteSet(t.ents) /\ t.id < id
    BY <1>2, <2>3 DEF Table
  <2> HIDE DEF at, tables
  <2>5. IsFiniteSet(tables(l))
    BY <2>1, <2>2, FS_Surjection
  <2> QED BY <2>4, <2>5
<1>4. ASSUME NEW l \in Level, NEW t \in tables(l)
      PROVE  \E f \in fs : f.level = l /\ t = table(f)
  OBVIOUS
<1>5. \A l, m \in Level : \A t \in tables(l), u \in tables(m) : t.id = u.id => l = m /\ t = u
  <2> SUFFICES ASSUME NEW l \in Level, NEW m \in Level, NEW t \in tables(l),
                      NEW u \in tables(m), t.id = u.id
               PROVE  l = m /\ t = u
    OBVIOUS
  <2>1. PICK f \in fs : f.level = l /\ t = table(f)
    BY <1>4
  <2>2. PICK g \in fs : g.level = m /\ u = table(g)
    BY <1>4
  <2>3. f.id = g.id
    BY <2>1, <2>2
  <2> QED BY <2>1, <2>2, <2>3
<1>6. FilesOf(tr) = fs
  <2>1. FilesOf(tr) = UNION {{[level |-> l, id |-> t.id, ents |-> t.ents] : t \in tables(l)} :
                               l \in Level}
    BY <1>1 DEF FilesOf
  <2>2. \A f \in fs : f \in FilesOf(tr)
    <3> TAKE f \in fs
    <3>1. table(f) \in tables(f.level) /\ f.level \in Level
      BY <1>2
    <3>2. f = [level |-> f.level, id |-> table(f).id, ents |-> table(f).ents]
      BY <1>2
    <3> QED BY <2>1, <3>1, <3>2
  <2>3. \A f \in FilesOf(tr) : f \in fs
    <3> TAKE f \in FilesOf(tr)
    <3>1. PICK l \in Level :
            \E u \in tables(l) : f = [level |-> l, id |-> u.id, ents |-> u.ents]
      BY <2>1
    <3>2. PICK t \in tables(l) : f = [level |-> l, id |-> t.id, ents |-> t.ents]
      BY <3>1
    <3>3. PICK g \in fs : g.level = l /\ t = table(g)
      BY <1>4
    <3> QED BY <1>2, <3>2, <3>3
  <2> QED BY <2>2, <2>3
<1> HIDE DEF tables
<1>7. \A l \in Level : DataSize(tables(l)) \in Nat
  BY <1>3, DataSizeNat
<1>8. 0 \in Level
  BY ShapeAssumption DEF Level
<1>9. Shape(tr)
  <2>1. tr.levels \in [Level -> SUBSET Table]
    BY <1>1, <1>3
  <2>2. tr.sizes \in [Level -> Int]
    BY <1>1, <1>7
  <2>3. \A l \in Level : /\ IsFiniteSet(tr.levels[l])
                         /\ \A t \in tr.levels[l] : IsFiniteSet(t.ents) /\ t.id < id
    BY <1>1, <1>3
  <2> QED BY <1>1, <1>8, <2>1, <2>2, <2>3 DEF Shape
<1>10. Numbered(tr) /\ Counted(tr)
  BY <1>1, <1>3, <1>5 DEF Numbered, Counted
<1> QED BY <1>6, <1>9, <1>10 DEF Books

\* What a flush or a compaction of tr is about to install: its new files have
\* numbers that no file of tr has or had.
Successor(tr, new) ==
  /\ Books(new)
  /\ tr.nextID <= new.nextID
  /\ \A f \in FilesOf(new) \ FilesOf(tr) : f.id >= tr.nextID

LEMMA AddSuccessor ==
  ASSUME NEW tr, Books(tr), NEW m, m \subseteq Version, IsFiniteSet(m)
  PROVE  Successor(tr, AddToL0(tr, m))
<1> DEFINE new == AddToL0(tr, m)
<1>1. Books(new)
  BY AddBooks
<1>2. \A l \in Level : \A t \in new.levels[l] :
        t \in tr.levels[l] \/ t.id = tr.nextID
  BY DEF AddToL0, Books, Shape
<1>4. tr.nextID \in Nat /\ tr.nextID <= new.nextID
  BY DEF Books, Shape, AddToL0
<1> HIDE DEF new
<1>5. \A f \in FilesOf(new) \ FilesOf(tr) : f.id >= tr.nextID
  BY <1>2, <1>4 DEF FilesOf
<1> QED BY <1>1, <1>4, <1>5 DEF Successor, new

LEMMA CompactedSuccessor ==
  ASSUME NEW tr, Books(tr), NEW src \in Level, src + 1 \in Level,
         NEW from \in SUBSET tr.levels[src], NEW into \in SUBSET tr.levels[src + 1],
         NEW lv
  PROVE  Successor(tr, Compacted(tr, src, from, into,
                                 DoCompact(from \cup into, lv, tr.nextID)))
<1> DEFINE in  == from \cup into
           out == DoCompact(in, lv, tr.nextID)
           new == Compacted(tr, src, from, into, out)
<1>1. Books(new)
  BY CompactionBooks
<1>2. EntriesOf(in) \subseteq Version /\ tr.nextID \in Nat
  BY DEF EntriesOf, Books, Shape, Table
<1>3. IsFiniteSet(EntriesOf(in))
  <2>1. IsFiniteSet(from) /\ IsFiniteSet(into)
    BY FS_Subset DEF Books, Shape
  <2>2. IsFiniteSet(in)
    BY <2>1, FS_Union
  <2>3. \A t \in in : IsFiniteSet(t.ents)
    BY DEF Books, Shape
  <2> HIDE DEF in
  <2> QED BY <2>2, <2>3, FiniteEntries
<1> HIDE DEF in
<1>4. \A t \in out : t.id >= tr.nextID
  <2>1. \A t \in out : tr.nextID <= t.id /\ t.id < tr.nextID + Cardinality(out)
    BY <1>2, <1>3, DoCompactNumbers
  <2>2. \A t \in out : t.id \in Nat
    BY <1>2, <1>3, DoCompactTables DEF Table
  <2> HIDE DEF out
  <2> QED BY <1>2, <2>1, <2>2
<1>8. IsFiniteSet(out)
  BY <1>2, <1>3, DoCompactTables
<1> HIDE DEF out
<1>5. \A l \in Level : \A t \in new.levels[l] : t \in tr.levels[l] \/ t \in out
  BY DEF Compacted, Books, Shape
<1>9. tr.nextID <= new.nextID
  BY <1>2, <1>8, FS_CardinalityType DEF Compacted
<1> HIDE DEF new
<1>6. \A f \in FilesOf(new) \ FilesOf(tr) : f.id >= tr.nextID
  BY <1>4, <1>5 DEF FilesOf
<1>7. Successor(tr, new)
  BY <1>1, <1>6, <1>9 DEF Successor
<1> QED BY <1>7 DEF new, out, in

LEMMA SameSuccessor == ASSUME NEW tr, Books(tr) PROVE Successor(tr, tr)
BY DEF Successor, Books, Shape

LEMMA L0Successor ==
  ASSUME NEW tr, Books(tr)
  PROVE  Successor(tr, CompactL0ToL1(tr))
<1>1. CASE tr.levels[0] = {}
  BY <1>1, SameSuccessor DEF CompactL0ToL1
<1>2. CASE tr.levels[0] # {}
  <2> DEFINE victims == OldestOf(tr.levels[0])
             overlap == Overlapping(tr.levels[1], victims)
             out     == DoCompact(victims \cup overlap, 1, tr.nextID)
  <2>1. 0 \in Level /\ 0 + 1 \in Level /\ 0 + 1 = 1
    BY ShapeAssumption DEF Level
  <2>2. victims \in SUBSET tr.levels[0] /\ overlap \in SUBSET tr.levels[0 + 1]
    BY <2>1 DEF OldestOf, Overlapping
  <2>3. CompactL0ToL1(tr) = Compacted(tr, 0, victims, overlap, out)
    BY <1>2 DEF CompactL0ToL1
  <2> HIDE DEF victims, overlap
  <2>4. Successor(tr, Compacted(tr, 0, victims, overlap, out))
    BY <2>1, <2>2, CompactedSuccessor
  <2> QED BY <2>3, <2>4
<1> QED BY <1>1, <1>2

LEMMA LevelSuccessor ==
  ASSUME NEW tr, Books(tr), NEW l \in Level
  PROVE  Successor(tr, CompactLevel(tr, l))
<1>1. CASE l < 1 \/ l >= NumLevels - 1 \/ tr.levels[l] = {}
  BY <1>1, SameSuccessor DEF CompactLevel
<1>2. CASE ~(l < 1 \/ l >= NumLevels - 1 \/ tr.levels[l] = {})
  <2> DEFINE out == DoCompact(tr.levels[l] \cup tr.levels[l + 1], l + 1, tr.nextID)
             new == Compacted(tr, l, tr.levels[l], tr.levels[l + 1], out)
  <2>1. l + 1 \in Level
    BY <1>2, ShapeAssumption DEF Level
  <2>2. Successor(tr, new)
    BY <2>1, CompactedSuccessor
  <2>3. CompactLevel(tr, l) = new
    BY <1>2 DEF CompactLevel
  <2> HIDE DEF new
  <2> QED BY <2>2, <2>3
<1> QED BY <1>1, <1>2

LEMMA WriterSuccessor ==
  ASSUME NEW tr, Books(tr)
  PROVE  Successor(tr, WriterCompaction(tr))
BY L0Successor, SameSuccessor DEF WriterCompaction
-----------------------------------------------------------------------------
(* Numbers and ages: the tree and the files that are listed, after all     *)
(* faults but a scan of the directory.                                     *)

\* The numbers of the files fs and the names mf of a manifest, all below id.
Numbers(fs, mf, id) ==
  /\ fs \subseteq File /\ IsFiniteSet(fs) /\ \A f \in fs : IsFiniteSet(f.ents)
  /\ \A f, g \in fs : Name(f) = Name(g) => f = g
  /\ id \in Nat
  /\ \A n \in mf : n.id \in Nat /\ n.id < id
  /\ \A m, n \in mf : m.id = n.id => m = n

\* The files fs have what the tree has, where they have its names.
Agrees(fs, tr) == \A f \in fs, g \in FilesOf(tr) : Name(f) = Name(g) => f = g

\* The order of a tree, asked of its files.
Aged(young, fs) ==
  /\ Newer(young, EntriesOf(fs))
  /\ \A f, g \in fs :
       f.level < g.level \/ (f.level = 0 /\ g.level = 0 /\ f.id > g.id)
         => Newer(f.ents, g.ents)

LEMMA AgedFewer ==
  ASSUME NEW young, NEW fs, Aged(young, fs), NEW fewer, fewer \subseteq young,
         NEW gs, gs \subseteq fs
  PROVE  Aged(fewer, gs)
<1>1. EntriesOf(gs) \subseteq EntriesOf(fs)
  BY DEF EntriesOf
<1> QED BY <1>1 DEF Aged, Newer

\* The tables of a tree and its files are the same thing.
LEMMA TableFiles ==
  ASSUME NEW tr
  PROVE  /\ \A l \in Level : \A t \in tr.levels[l] :
              \E f \in FilesOf(tr) : f.level = l /\ f.id = t.id /\ f.ents = t.ents
         /\ \A f \in FilesOf(tr) :
              f.level \in Level /\ \E t \in tr.levels[f.level] : f.id = t.id /\ f.ents = t.ents
<1> DEFINE file(l, t) == [level |-> l, id |-> t.id, ents |-> t.ents]
<1>1. ASSUME NEW l \in Level, NEW t \in tr.levels[l]
      PROVE  \E f \in FilesOf(tr) : f.level = l /\ f.id = t.id /\ f.ents = t.ents
  <2>1. file(l, t) \in FilesOf(tr)
    BY DEF FilesOf
  <2>2. file(l, t).level = l /\ file(l, t).id = t.id /\ file(l, t).ents = t.ents
    OBVIOUS
  <2> HIDE DEF file
  <2> QED BY <2>1, <2>2
<1>2. ASSUME NEW f \in FilesOf(tr)
      PROVE  f.level \in Level /\ \E t \in tr.levels[f.level] : f.id = t.id /\ f.ents = t.ents
  <2>1. PICK l \in Level : \E t \in tr.levels[l] : f = file(l, t)
    BY DEF FilesOf
  <2>2. PICK t \in tr.levels[l] : f = file(l, t)
    BY <2>1
  <2>3. f.level = l /\ f.id = t.id /\ f.ents = t.ents
    BY <2>2
  <2> HIDE DEF file
  <2> QED BY <2>3
<1> QED BY <1>1, <1>2

LEMMA OrderedFiles ==
  ASSUME NEW tr, Books(tr), NEW young
  PROVE  Ordered(young, tr) <=> Aged(young, FilesOf(tr))
<1> DEFINE fs   == FilesOf(tr)
           E(l) == EntriesOf(tr.levels[l])
<1>1. 0 \in Level /\ \A l \in Level : l \in Nat
  BY ShapeAssumption DEF Level
<1>2. /\ \A l \in Level : \A t \in tr.levels[l] :
           \E f \in fs : f.level = l /\ f.id = t.id /\ f.ents = t.ents
      /\ \A f \in fs :
           f.level \in Level /\ \E t \in tr.levels[f.level] : f.id = t.id /\ f.ents = t.ents
  BY TableFiles
<1> HIDE DEF fs
<1>3. \A l \in Level : \A v : v \in E(l) <=> \E t \in tr.levels[l] : v \in t.ents
  BY DEF EntriesOf
<1>4. \A v : v \in EntriesOf(fs) <=> \E f \in fs : v \in f.ents
  BY DEF EntriesOf
<1> HIDE DEF E
<1>5. \A v : v \in EntriesOf(fs) <=> \E l \in Level : v \in E(l)
  BY <1>2, <1>3, <1>4
<1>6. Newer(young, EntriesOf(fs)) <=> \A l \in Level : Newer(young, E(l))
  BY <1>5 DEF Newer
<1>7. \A f \in fs : f.ents \subseteq E(f.level)
  BY <1>2, <1>3
<1>8. ASSUME Ordered(young, tr) PROVE Aged(young, fs)
  <2>1. ASSUME NEW f \in fs, NEW g \in fs, f.level < g.level PROVE Newer(f.ents, g.ents)
    <3>1. Newer(E(f.level), E(g.level))
      BY <1>2, <1>8, <2>1 DEF Ordered, LevelsByAge, E
    <3> QED BY <1>7, <3>1 DEF Newer
  <2>2. ASSUME NEW f \in fs, NEW g \in fs, f.level = 0, g.level = 0, f.id > g.id
        PROVE  Newer(f.ents, g.ents)
    <3>1. PICK t \in tr.levels[0] : f.id = t.id /\ f.ents = t.ents
      BY <1>2, <2>2
    <3>2. PICK u \in tr.levels[0] : g.id = u.id /\ g.ents = u.ents
      BY <1>2, <2>2
    <3>3. t.id \in Nat /\ u.id \in Nat
      BY <1>1 DEF Books, Shape, Table
    <3>4. u.id < t.id
      BY <2>2, <3>1, <3>2, <3>3
    <3> QED BY <1>8, <3>1, <3>2, <3>4 DEF Ordered, L0ByAge
  <2>3. Newer(young, EntriesOf(fs))
    BY <1>6, <1>8 DEF Ordered, MemtableNewest, E
  <2> QED BY <2>1, <2>2, <2>3 DEF Aged
<1>9. ASSUME Aged(young, fs) PROVE Ordered(young, tr)
  <2>1. MemtableNewest(young, tr)
    BY <1>6, <1>9 DEF Aged, MemtableNewest, E
  <2>2. ASSUME NEW t \in tr.levels[0], NEW u \in tr.levels[0], t.id < u.id
        PROVE  Newer(u.ents, t.ents)
    <3>1. PICK f \in fs : f.level = 0 /\ f.id = t.id /\ f.ents = t.ents
      BY <1>1, <1>2
    <3>2. PICK g \in fs : g.level = 0 /\ g.id = u.id /\ g.ents = u.ents
      BY <1>1, <1>2
    <3>3. t.id \in Nat /\ u.id \in Nat
      BY <1>1 DEF Books, Shape, Table
    <3>4. g.id > f.id
      BY <2>2, <3>1, <3>2, <3>3
    <3>5. Newer(g.ents, f.ents)
      BY <1>9, <3>1, <3>2, <3>4 DEF Aged
    <3> QED BY <3>1, <3>2, <3>5
  <2>3. ASSUME NEW i \in Level, NEW j \in Level, i < j PROVE Newer(E(i), E(j))
    <3> SUFFICES ASSUME NEW v \in E(i), NEW w \in E(j), v.key = w.key PROVE v.ts > w.ts
      BY DEF Newer
    <3>1. PICK f \in fs : f.level = i /\ v \in f.ents
      BY <1>2, <1>3
    <3>2. PICK g \in fs : g.level = j /\ w \in g.ents
      BY <1>2, <1>3
    <3>3. Newer(f.ents, g.ents)
      BY <1>9, <2>3, <3>1, <3>2 DEF Aged
    <3> QED BY <3>1, <3>2, <3>3 DEF Newer
  <2> QED BY <2>1, <2>2, <2>3 DEF Ordered, L0ByAge, LevelsByAge, E
<1> QED BY <1>8, <1>9 DEF fs

LEMMA AgedWrites ==
  ASSUME NEW young, NEW fs, Aged(young, fs), EntriesOf(fs) \subseteq Version,
         NEW s \in Nat, Stale(EntriesOf(fs), s),
         NEW ws, ws \subseteq Version, \A w \in ws : w.ts > s,
         NEW more, more \subseteq young \cup ws
  PROVE  Aged(more, fs)
<1>1. \A v \in EntriesOf(fs) : v.ts \in Nat /\ v.ts <= s
  BY DEF Stale, Version
<1>2. \A w \in ws : w.ts \in Nat /\ w.ts > s
  BY DEF Version
<1>3. Newer(ws, EntriesOf(fs))
  BY <1>1, <1>2 DEF Newer
<1> QED BY <1>3 DEF Aged, Newer

\* A manifest that lists a tree lists nothing else, if the files are the tree's.
LEMMA ListingFiles ==
  ASSUME NEW fs, NEW tr, Agrees(fs, tr)
  PROVE  {f \in fs : Name(f) \in Names(FilesOf(tr))} \subseteq FilesOf(tr)
BY DEF Agrees, Names

LEMMA NumbersOf ==
  ASSUME NEW fs, NEW mf, NEW id, Numbers(fs, mf, id), NEW tr, Books(tr)
  PROVE  Numbers(fs, Names(FilesOf(tr)), tr.nextID)
<1>1. /\ \A f \in FilesOf(tr) : f.id \in Nat /\ f.id < tr.nextID
      /\ \A f, g \in FilesOf(tr) : f.id = g.id => f = g
  BY BookedFiles DEF File
<1>2. tr.nextID \in Nat
  BY DEF Books, Shape
<1>3. /\ \A n \in Names(FilesOf(tr)) : n.id \in Nat /\ n.id < tr.nextID
      /\ \A m, n \in Names(FilesOf(tr)) : m.id = n.id => m = n
  BY <1>1 DEF Names, Name
<1> QED BY <1>2, <1>3 DEF Numbers

LEMMA NumbersFewer ==
  ASSUME NEW fs, NEW mf, NEW id, Numbers(fs, mf, id), NEW gs, gs \subseteq fs,
         NEW nf, nf \subseteq mf, NEW next \in Nat, id <= next
  PROVE  Numbers(gs, nf, next)
<1>1. IsFiniteSet(gs)
  BY FS_Subset DEF Numbers
<1>2. \A n \in nf : n.id < next
  BY DEF Numbers
<1> QED BY <1>1, <1>2 DEF Numbers

\* New files of a flush or a compaction: they replace none the manifest lists.
LEMMA Overwriting ==
  ASSUME NEW fs, NEW mf, NEW tr, Numbers(fs, mf, tr.nextID), Books(tr), Agrees(fs, tr),
         NEW new, Successor(tr, new),
         NEW out, out \subseteq FilesOf(new) \ FilesOf(tr)
  PROVE  LET gs == Written(fs, out)
         IN  /\ Numbers(gs, mf, tr.nextID)
             /\ \A g \in gs : Name(g) \in mf => g \in fs
             /\ Agrees(gs, tr)
             /\ out = FilesOf(new) \ FilesOf(tr) => Agrees(gs, new)
<1> DEFINE gs == Written(fs, out)
<1>1. /\ FilesOf(new) \subseteq File /\ IsFiniteSet(FilesOf(new))
      /\ \A f \in FilesOf(new) : IsFiniteSet(f.ents)
      /\ \A f, g \in FilesOf(new) : f.id = g.id => f = g
  BY BookedFiles DEF Successor
<1>2. \A f \in FilesOf(tr) : f.id \in Nat /\ f.id < tr.nextID
  BY BookedFiles DEF File
<1>3. tr.nextID \in Nat /\ \A f \in out : f.id \in Nat /\ f.id >= tr.nextID
  BY <1>1 DEF Successor, File, Numbers
<1>4. \A f, g \in gs : Name(f) = Name(g) => f = g
  BY <1>1 DEF Written, Names, Name, Numbers
<1>5. IsFiniteSet(gs)
  <2>1. IsFiniteSet(out)
    BY <1>1, FS_Subset
  <2>2. IsFiniteSet(fs \cup out)
    BY <2>1, FS_Union DEF Numbers
  <2> QED BY <2>2, FS_Subset DEF Written
<1>6. Numbers(gs, mf, tr.nextID)
  BY <1>1, <1>4, <1>5 DEF Numbers, Written
<1>7. ASSUME NEW f \in out, Name(f) \in mf PROVE FALSE
  <2>1. Name(f).id < tr.nextID
    BY <1>7 DEF Numbers
  <2>2. Name(f).id = f.id
    BY DEF Name
  <2> QED BY <1>3, <2>1, <2>2
<1>8. \A f \in out, g \in FilesOf(tr) : Name(f) # Name(g)
  BY <1>2, <1>3 DEF Name
<1>9. Agrees(gs, tr)
  BY <1>8 DEF Agrees, Written
<1>10. ASSUME out = FilesOf(new) \ FilesOf(tr) PROVE Agrees(gs, new)
  <2> SUFFICES ASSUME NEW f \in gs, NEW g \in FilesOf(new), Name(f) = Name(g) PROVE f = g
    BY DEF Agrees
  <2>1. CASE g \in FilesOf(tr)
    BY <1>9, <2>1 DEF Agrees
  <2>2. CASE g \in out
    <3>1. Name(f) \in Names(out)
      BY <2>2 DEF Names
    <3>2. f \in out
      BY <3>1 DEF Written
    <3> QED BY <1>1, <2>2, <3>2 DEF Name
  <2> QED BY <1>10, <2>1, <2>2
<1> QED BY <1>6, <1>7, <1>9, <1>10 DEF Written

LEMMA Loading ==
  ASSUME NEW fs, NEW mf, NEW id, Numbers(fs, mf, id),
         NEW gs, gs \subseteq fs, \A f \in gs : Name(f) \in mf,
         NEW tr, tr = Built(gs, id)
  PROVE  /\ Books(tr) /\ FilesOf(tr) = gs /\ tr.nextID = id /\ Agrees(fs, tr)
         /\ \A young : Aged(young, gs) => Ordered(young, tr)
<1>1. gs \subseteq File /\ IsFiniteSet(gs)
  BY FS_Subset DEF Numbers
<1>2. /\ \A f \in gs : f \in fs /\ Name(f) \in mf /\ Name(f).id = f.id
      /\ id \in Nat
  BY DEF Numbers, Name
<1>8. /\ \A f \in gs : IsFiniteSet(f.ents) /\ f.id < id
      /\ \A f, g \in gs : f.id = g.id => f = g
  <2>1. \A f \in gs : IsFiniteSet(f.ents) /\ f.id < id
    BY <1>2 DEF Numbers
  <2>2. ASSUME NEW f \in gs, NEW g \in gs, f.id = g.id PROVE f = g
    <3>1. /\ Name(f) \in mf /\ Name(f).id = f.id /\ f \in fs
          /\ Name(g) \in mf /\ Name(g).id = g.id /\ g \in fs
      BY <1>2
    <3>2. /\ \A m, n \in mf : m.id = n.id => m = n
          /\ \A m, n \in fs : Name(m) = Name(n) => m = n
      BY DEF Numbers
    <3> QED BY <2>2, <3>1, <3>2
  <2> QED BY <2>1, <2>2
<1>3. Books(tr) /\ FilesOf(tr) = gs
  BY <1>1, <1>2, <1>8, LoadedBooks
<1>5. \A young : Aged(young, gs) => Ordered(young, tr)
  BY <1>3, OrderedFiles
<1>6. Agrees(fs, tr)
  BY <1>3 DEF Agrees, Numbers
<1>7. tr.nextID = id
  BY DEF Built
<1> QED BY <1>3, <1>5, <1>6, <1>7

\* The number after that of all files.
LEMMA NextNumber ==
  ASSUME NEW fs, fs \subseteq File, IsFiniteSet(fs), NEW id \in Nat
  PROVE  LET n == FSE!Max({id} \cup {f.id + 1 : f \in fs})
         IN  n \in Nat /\ id <= n /\ \A f \in fs : f.id < n
<1> DEFINE S == {f.id + 1 : f \in fs}
           T == {id} \cup S
<1>1. T \subseteq Nat /\ T # {}
  BY DEF File
<1>2. IsFiniteSet(T)
  <2>1. [f \in fs |-> f.id + 1] \in Surjection(fs, S)
    BY DEF Surjection
  <2> HIDE DEF S
  <2>2. IsFiniteSet(S)
    BY <2>1, FS_Surjection
  <2> QED BY <2>2, FS_Singleton, FS_Union
<1>3. PICK n \in T : \A m \in T : m <= n
  <2> HIDE DEF T
  <2> QED BY <1>1, <1>2, GreatestNumber
<1>4. \A m \in T : FSE!Max(T) >= m
  <2> HIDE DEF T
  <2>1. \A m \in T : n >= m
    BY <1>1, <1>3
  <2> QED BY <2>1 DEF FSE!Max
<1>5. FSE!Max(T) \in T
  <2> HIDE DEF T
  <2>1. \A m \in T : n >= m
    BY <1>1, <1>3
  <2> QED BY <2>1 DEF FSE!Max
<1>6. id \in T /\ \A f \in fs : f.id \in Nat /\ f.id + 1 \in T
  BY DEF File
<1> HIDE DEF S, T
<1>7. FSE!Max(T) \in Nat /\ id <= FSE!Max(T) /\ \A f \in fs : f.id < FSE!Max(T)
  <2>1. FSE!Max(T) \in Nat /\ FSE!Max(T) >= id
    BY <1>1, <1>4, <1>5, <1>6
  <2>2. \A f \in fs : f.id \in Nat /\ FSE!Max(T) >= f.id + 1
    BY <1>4, <1>6
  <2> QED BY <2>1, <2>2
<1> QED BY <1>7 DEF S, T
-----------------------------------------------------------------------------
(* Numbers, after all faults, and the order of the ages, after all but a   *)
(* scan of the directory.                                                  *)

\* What this process or the next one has in its memtable.
Young == memtable \cup wal.recs

\* The order of the ages is known.
Aging == "scan" \notin hit

\* The tree is in order, and so is the one the holder of lsm.mu will install; the
\* files there are agree with both.
Treed ==
  /\ Books(tree) /\ Agrees(files, tree)
  /\ pc \in {"create", "reset", "install", "outputs", "remove"} => Successor(tree, target)
  /\ pc \in {"reset", "install", "remove"} => Agrees(files, target)
  /\ pc = "install" => Young = {}
  /\ Aging => /\ Ordered(Young, tree)
              /\ pc \in {"create", "reset"} => Ordered({}, target)
              /\ pc \in {"install", "outputs", "remove"} => Ordered(Young, target)

Ranked ==
  /\ Numbers(files, manifest, tree.nextID)
  /\ Aging => Aged(Young, Listed)
  /\ Running => Treed

LEMMA RankedInit == FaultInit => Ranked
<1> SUFFICES ASSUME FaultInit PROVE Ranked
  OBVIOUS
<1>1. files = {} /\ manifest = {} /\ tree.nextID = 1 /\ ~Running
  BY DEF FaultInit, Init, EmptyTree, Running
<1>2. IsFiniteSet(files)
  BY <1>1, FS_EmptySet
<1>3. Numbers(files, manifest, tree.nextID)
  BY <1>1, <1>2 DEF Numbers
<1>4. Aged(Young, Listed)
  BY <1>1 DEF Aged, Listed, Newer, EntriesOf
<1> QED BY <1>1, <1>3, <1>4 DEF Ranked

LEMMA OrderedFewer ==
  ASSUME NEW m, NEW tr, Ordered(m, tr), NEW n, n \subseteq m
  PROVE  Ordered(n, tr)
BY DEF Ordered, MemtableNewest, Newer

\* All that is stored is of the past.
LEMMA Past ==
  ASSUME Held
  PROVE  \E V \in SUBSET Version :
           /\ Stale(V, now) /\ OneVersion(V)
           /\ pc # "stuck" => Young \subseteq V
           /\ wal.recs \subseteq V
           /\ EntriesOf(files) \subseteq V
           /\ EntriesOf(FilesOf(tree)) \subseteq V /\ EntriesOf(FilesOf(target)) \subseteq V
<1>1. PICK V \in SUBSET Version : Holds(V) /\ OneVersion(V) /\ Stale(V, now)
  BY DEF Held
<1>2. /\ EntriesOf(files) \subseteq V
      /\ pc # "stuck" => Young \subseteq V
      /\ wal.recs \subseteq V
  BY <1>1 DEF Holds, EntriesOf, Young
<1>3. Sound(tree, V) /\ Sound(target, V)
  BY <1>1 DEF Holds
<1>4. EntriesOf(FilesOf(tree)) \subseteq V /\ EntriesOf(FilesOf(target)) \subseteq V
  BY <1>3, SoundFiles DEF EntriesOf
<1> QED BY <1>1, <1>2, <1>4

\* A write to memtable or log.
LEMMA RankedWrite ==
  ASSUME Held, Ranked, pc = "run", UNCHANGED <<files, manifest, tree>>,
         NEW ws, ws \subseteq Version, \A w \in ws : w.ts > now,
         Young' \subseteq Young \cup ws
  PROVE  /\ Numbers(files', manifest', tree'.nextID)
         /\ Books(tree') /\ Agrees(files', tree')
         /\ Aging => Aged(Young', Listed') /\ Ordered(Young', tree')
<1>1. /\ Numbers(files, manifest, tree.nextID)
      /\ Books(tree) /\ Agrees(files, tree)
      /\ Aging => Aged(Young, Listed) /\ Ordered(Young, tree)
  BY DEF Ranked, Treed, Running
<1>2. PICK V \in SUBSET Version :
         /\ Stale(V, now) /\ EntriesOf(files) \subseteq V
         /\ EntriesOf(FilesOf(tree)) \subseteq V
  BY Past
<1>3. /\ EntriesOf(Listed) \subseteq Version /\ Stale(EntriesOf(Listed), now)
      /\ EntriesOf(FilesOf(tree)) \subseteq Version /\ Stale(EntriesOf(FilesOf(tree)), now)
  <2>1. EntriesOf(Listed) \subseteq EntriesOf(files)
    BY DEF Listed, EntriesOf
  <2> QED BY <1>2, <2>1 DEF Stale
<1>4. now \in Nat
  BY DEF Held
<1>5. ASSUME Aging PROVE Aged(Young', Listed) /\ Ordered(Young', tree)
  <2>1. Aged(Young', Listed)
    BY <1>1, <1>3, <1>4, <1>5, AgedWrites
  <2>2. Aged(Young, FilesOf(tree))
    BY <1>1, <1>5, OrderedFiles
  <2>3. Aged(Young', FilesOf(tree))
    BY <1>3, <1>4, <2>2, AgedWrites
  <2>4. Ordered(Young', tree)
    BY <1>1, <2>3, OrderedFiles
  <2> QED BY <2>1, <2>4
<1>9. Listed' = Listed
  BY DEF Listed
<1> QED BY <1>1, <1>5, <1>9

\* What a step that leaves the trees alone has to show.
LEMMA RankedSame ==
  ASSUME Ranked, files' \subseteq files, manifest' \subseteq manifest,
         tree'.nextID \in Nat, tree.nextID <= tree'.nextID, Young' \subseteq Young
  PROVE  /\ Numbers(files', manifest', tree'.nextID)
         /\ Aging => Aged(Young', Listed')
         /\ \A tr : Agrees(files, tr) => Agrees(files', tr)
         /\ \A tr : Ordered(Young, tr) => Ordered(Young', tr)
<1>1. Numbers(files', manifest', tree'.nextID)
  BY NumbersFewer DEF Ranked
<1>2. Listed' \subseteq Listed
  BY DEF Listed
<1>3. Aging => Aged(Young', Listed')
  BY <1>2, AgedFewer DEF Ranked
<1> QED BY <1>1, <1>3, OrderedFewer DEF Agrees

\* The target becomes the tree, and is listed or is not yet.
LEMMA RankedInstall ==
  ASSUME Ranked, pc \in {"install", "remove"}, tree' = target,
         manifest' \in {manifest, Names(FilesOf(target))}, files' = files, Young' = Young
  PROVE  /\ Numbers(files', manifest', tree'.nextID)
         /\ Books(tree') /\ Agrees(files', tree')
         /\ Aging => Aged(Young', Listed') /\ Ordered(Young', tree')
<1>1. /\ Numbers(files, manifest, tree.nextID)
      /\ Successor(tree, target) /\ Agrees(files, target)
      /\ Aging => Aged(Young, Listed) /\ Ordered(Young, target)
  BY DEF Ranked, Treed, Running
<1>2. Books(target) /\ target.nextID \in Nat /\ tree.nextID <= target.nextID
  BY <1>1 DEF Successor, Books, Shape
<1>3. CASE manifest' = manifest
  <2>1. Numbers(files', manifest', tree'.nextID)
    BY <1>1, <1>2, <1>3, NumbersFewer
  <2>2. Listed' = Listed
    BY <1>3 DEF Listed
  <2> QED BY <1>1, <1>2, <2>1, <2>2
<1>4. CASE manifest' = Names(FilesOf(target))
  <2>1. Numbers(files', manifest', tree'.nextID)
    BY <1>1, <1>2, <1>4, NumbersOf
  <2>2. Listed' \subseteq FilesOf(target)
    BY <1>1, <1>4, ListingFiles DEF Listed
  <2>3. Aging => Aged(Young, FilesOf(target))
    BY <1>1, <1>2, OrderedFiles
  <2>4. Aging => Aged(Young', Listed')
    BY <2>2, <2>3, AgedFewer
  <2> QED BY <1>1, <1>2, <2>1, <2>4
<1> QED BY <1>3, <1>4

\* A flush that fails before its file is installed leaves a number out.
LEMMA BooksSkipNumber ==
  ASSUME NEW tr, Books(tr), NEW new, new.levels = tr.levels, new.sizes = tr.sizes,
         new = [levels |-> new.levels, sizes |-> new.sizes, nextID |-> new.nextID],
         new.nextID = tr.nextID + 1
  PROVE  Books(new) /\ FilesOf(new) = FilesOf(tr)
<1>1. tr.nextID \in Nat /\ 0 \in Level
  BY ShapeAssumption DEF Books, Shape, Level
<1>2. \A l \in Level : \A t \in tr.levels[l] : t.id \in Nat /\ t.id < tr.nextID
  BY DEF Books, Shape, Numbered, Table
<1>3. \A l \in Level : \A t \in tr.levels[l] : t.id < tr.nextID + 1
  BY <1>1, <1>2
<1>4. Shape(new)
  BY <1>1, <1>3 DEF Books, Shape
<1>5. Numbered(new) /\ Counted(new)
  BY <1>1, <1>3 DEF Books, Numbered, Counted
<1> QED BY <1>4, <1>5 DEF Books, FilesOf

\* A tree without the files of a compaction that cannot be opened.
Without(tr, missing) ==
  [tr EXCEPT !.levels = [l \in Level |-> @[l] \ missing[l]],
             !.sizes = [l \in Level |-> @[l] - DataSize(missing[l])]]

LEMMA BooksMissing ==
  ASSUME NEW tr, Books(tr), NEW missing, \A l \in Level : missing[l] \subseteq tr.levels[l],
         NEW new, new = Without(tr, missing),
         tr = [levels |-> tr.levels, sizes |-> tr.sizes, nextID |-> tr.nextID]
  PROVE  Books(new) /\ FilesOf(new) \subseteq FilesOf(tr) /\ new.nextID = tr.nextID
<1>1. /\ new.levels = [l \in Level |-> tr.levels[l] \ missing[l]]
      /\ new.sizes = [l \in Level |-> tr.sizes[l] - DataSize(missing[l])]
      /\ new.nextID = tr.nextID
  BY DEF Without
<1>2. ASSUME NEW l \in Level
      PROVE  /\ IsFiniteSet(new.levels[l]) /\ new.levels[l] \subseteq tr.levels[l]
             /\ DataSize(new.levels[l]) \in Nat /\ DataSize(missing[l]) \in Nat
             /\ DataSize(tr.levels[l]) = DataSize(new.levels[l]) + DataSize(missing[l])
  <2>1. /\ new.levels[l] \subseteq tr.levels[l] /\ missing[l] \subseteq tr.levels[l]
        /\ tr.levels[l] = new.levels[l] \cup missing[l]
        /\ new.levels[l] \cap missing[l] = {}
    BY <1>1
  <2>2. IsFiniteSet(tr.levels[l]) /\ \A t \in tr.levels[l] : IsFiniteSet(t.ents)
    BY DEF Books, Shape
  <2>3. IsFiniteSet(new.levels[l]) /\ IsFiniteSet(missing[l])
    BY <2>1, <2>2, FS_Subset
  <2>4. \A t \in new.levels[l], u \in missing[l] : t.id # u.id
    BY <2>1 DEF Books, Numbered
  <2>5. /\ \A t \in new.levels[l] : IsFiniteSet(t.ents)
        /\ \A t \in missing[l] : IsFiniteSet(t.ents)
    BY <2>1, <2>2
  <2>6. DataSize(new.levels[l] \cup missing[l]) = DataSize(new.levels[l]) + DataSize(missing[l])
    BY <2>3, <2>4, <2>5, DataSizeAdds
  <2>7. DataSize(new.levels[l]) \in Nat /\ DataSize(missing[l]) \in Nat
    BY <2>3, <2>5, DataSizeNat
  <2> QED BY <2>1, <2>3, <2>6, <2>7
<1>3. \A l \in Level : new.sizes[l] \in Int /\ new.sizes[l] = DataSize(new.levels[l])
  <2> TAKE l \in Level
  <2>1. tr.sizes[l] = DataSize(tr.levels[l])
    BY DEF Books, Counted
  <2>2. new.sizes[l] = DataSize(tr.levels[l]) - DataSize(missing[l])
    BY <1>1, <2>1
  <2>3. /\ DataSize(new.levels[l]) \in Nat /\ DataSize(missing[l]) \in Nat
        /\ DataSize(tr.levels[l]) = DataSize(new.levels[l]) + DataSize(missing[l])
    BY <1>2
  <2> QED BY <2>2, <2>3
<1>4. 0 \in Level
  BY ShapeAssumption DEF Level
<1>5. Shape(new)
  <2>1. new.levels \in [Level -> SUBSET Table]
    BY <1>1 DEF Books, Shape
  <2>2. new.sizes \in [Level -> Int]
    BY <1>1, <1>3
  <2>3. \A l \in Level : IsFiniteSet(new.levels[l]) /\ \A t \in new.levels[l] : IsFiniteSet(t.ents)
    BY <1>2 DEF Books, Shape
  <2> QED BY <1>1, <1>2, <1>4, <2>1, <2>2, <2>3 DEF Books, Shape
<1>6. Numbered(new) /\ Counted(new)
  BY <1>1, <1>2, <1>3 DEF Books, Numbered, Counted
<1>7. FilesOf(new) \subseteq FilesOf(tr)
  BY <1>2 DEF FilesOf
<1> QED BY <1>1, <1>5, <1>6, <1>7 DEF Books

\* The files that a compaction could not open are not in the tree.
LEMMA MissingFiles ==
  ASSUME Held, Ranked, CompactOpenFails
  PROVE  /\ Books(tree') /\ FilesOf(tree') \subseteq FilesOf(target)
         /\ tree'.nextID = target.nextID
<1>1. PICK first \in Outputs :
        LET gone(l) == {t \in target.levels[l] : l = first.level /\ t.id >= first.id}
        IN  tree' = [target EXCEPT
                       !.levels = [l \in Level |-> @[l] \ gone(l)],
                       !.sizes = [l \in Level |-> @[l] - DataSize(gone(l))]]
  BY DEF CompactOpenFails
<1> DEFINE gone == [l \in Level |-> {t \in target.levels[l] :
                                       l = first.level /\ t.id >= first.id}]
<1>2. tree' = Without(target, gone)
  BY <1>1 DEF Without
<1>3. \A l \in Level : gone[l] \subseteq target.levels[l]
  OBVIOUS
<1> HIDE DEF gone
<1>4. Books(target)
  BY DEF CompactOpenFails, Ranked, Treed, Successor, Running
<1>5. target = [levels |-> target.levels, sizes |-> target.sizes, nextID |-> target.nextID]
  BY HeldTyped DEF Holds, Sound
<1> QED BY <1>2, <1>3, <1>4, <1>5, BooksMissing

\* All that the files of the directory have in common with a tree, as long as no fault
\* has left any besides: a number names one file.
Single == hit = {} => \A f, g \in files : f.id = g.id => f = g

\* The tree of all files of the directory.
LEMMA Scanning ==
  ASSUME Ranked, Single, hit = {}, OpenScan
  PROVE  Books(tree') /\ FilesOf(tree') = files
<1> DEFINE id == FSE!Max({tree.nextID} \cup {f.id + 1 : f \in files})
<1>1. /\ files \subseteq File /\ IsFiniteSet(files) /\ tree.nextID \in Nat
      /\ \A f \in files : IsFiniteSet(f.ents)
      /\ \A f, g \in files : f.id = g.id => f = g
  BY DEF Ranked, Numbers, Single
<1>2. id \in Nat /\ \A f \in files : f.id < id
  BY <1>1, NextNumber
<1>3. tree' = TreeOf(files)
  BY DEF OpenScan, Loaded
<1>4. tree' = Built(files, id)
  BY <1>3 DEF TreeOf, Built
<1> HIDE DEF id
<1> QED BY <1>1, <1>2, <1>4, LoadedBooks

LEMMA RankedStep ==
  ASSUME Held, Control, Fate, Ranked, Single, [FaultNext]_allVars
  PROVE  Ranked'
<1>0. Aging' => Aging
  BY HitGrows DEF Aging
<1>1. ASSUME Numbers(files', manifest', tree'.nextID), Books(tree'), Agrees(files', tree'),
             Aging' => Aged(Young', Listed') /\ Ordered(Young', tree'),
             pc' \in {"run", "level", "stuck"}
      PROVE  Ranked'
  <2>1. Treed'
    BY <1>1 DEF Treed
  <2> QED BY <1>1, <2>1 DEF Ranked
<1>2. ASSUME Running, UNCHANGED <<manifest, tree, target>>, files' \subseteq files,
             Young' \subseteq Young,
             \/ pc' = pc
             \/ pc' \in {"run", "level", "stuck"}
             \/ pc = "reset" /\ pc' = "install" /\ Young' = {}
      PROVE  Ranked'
  <2>1. Treed /\ tree.nextID \in Nat
    BY <1>2 DEF Ranked, Numbers
  <2>2. /\ Numbers(files', manifest', tree'.nextID)
        /\ Aging => Aged(Young', Listed')
        /\ \A tr : Agrees(files, tr) => Agrees(files', tr)
        /\ \A tr : Ordered(Young, tr) => Ordered(Young', tr)
    BY <1>2, <2>1, RankedSame
  <2>3. Young = {} => Young' = {}
    BY <1>2
  <2>4. Treed'
    BY <1>0, <1>2, <2>1, <2>2, <2>3 DEF Treed
  <2> QED BY <1>0, <2>2, <2>4 DEF Ranked
<1>3. CASE UNCHANGED allVars
  <2>1. UNCHANGED <<files, manifest, tree, target, pc, Young, Aging>>
    BY <1>3 DEF allVars, vars, faultVars, disk, memory, Young, Aging
  <2>2. Listed' = Listed /\ Running' = Running
    BY <2>1 DEF Listed, Running
  <2>3. Treed' = Treed
    BY <2>1 DEF Treed
  <2> QED BY <2>1, <2>2, <2>3 DEF Ranked
\* Open, Close and SIGKILL.
<1>4. CASE OpenWal \/ OpenResetFails \/ Kill \/ Close \/ CloseBroken
  <2>1. /\ UNCHANGED <<files, manifest>> /\ ~Running'
        /\ tree' = tree \/ tree' = EmptyTree(tree.nextID)
    BY <1>4 DEF OpenWal, OpenResetFails, Kill, Close, CloseBroken, Gone, Running, disk, memory
  <2>2. tree'.nextID = tree.nextID /\ tree.nextID \in Nat
    BY <2>1 DEF EmptyTree, Ranked, Numbers
  <2>3. Young' \subseteq Young
    <3>1. CASE OpenWal
      BY <3>1 DEF OpenWal, EmptyLog, Newest, Young
    <3>2. CASE OpenResetFails
      BY <3>2 DEF OpenResetFails, Young, memory
    <3>3. CASE Kill \/ Close \/ CloseBroken
      <4>1. memtable' = {} /\ wal'.recs = wal.recs
        BY <3>3 DEF Kill, Close, CloseBroken, Gone, disk, Held
      <4> QED BY <4>1 DEF Young
    <3> QED BY <1>4, <3>1, <3>2, <3>3
  <2>4. Numbers(files', manifest', tree'.nextID) /\ (Aging => Aged(Young', Listed'))
    BY <2>1, <2>2, <2>3, RankedSame
  <2> QED BY <1>0, <2>1, <2>4 DEF Ranked
<1>5. ASSUME NEW fs \in SUBSET Listed, UNCHANGED <<memtable, wal>>,
             files' = Listed, manifest' = Names(fs), pc' = "run",
             tree' = Built(fs, tree.nextID)
      PROVE  Ranked'
  <2>1. Numbers(files, manifest, tree.nextID) /\ (Aging => Aged(Young, fs))
    BY AgedFewer DEF Ranked
  <2>6. fs \subseteq files /\ \A f \in fs : Name(f) \in manifest
    BY DEF Listed
  <2>2. /\ Books(tree') /\ FilesOf(tree') = fs /\ tree'.nextID = tree.nextID
        /\ Agrees(files, tree') /\ (Aging => Ordered(Young, tree'))
    BY <1>5, <2>1, <2>6, Loading
  <2>3. Names(fs) \subseteq manifest /\ files' \subseteq files /\ Young' = Young
    BY <1>5 DEF Listed, Names, Young
  <2>4. Numbers(files', manifest', tree'.nextID) /\ (Aging => Aged(Young', Listed'))
    <3>1. tree.nextID \in Nat
      BY <2>1 DEF Numbers
    <3> QED BY <1>5, <2>2, <2>3, <3>1, RankedSame
  <2>5. Agrees(files', tree')
    BY <2>2, <2>3 DEF Agrees
  <2> QED BY <1>0, <1>1, <1>5, <2>2, <2>3, <2>4, <2>5
<1>6. CASE OpenLoad
  <2>1. tree' = Built(Listed, tree.nextID)
    BY <1>6 DEF OpenLoad, Built
  <2> QED BY <1>5, <1>6, <2>1 DEF OpenLoad
<1>7. CASE OpenSkips
  <2>1. PICK fs \in SUBSET Listed : Loaded(fs)
    BY <1>7 DEF OpenSkips
  <2>2. /\ files' = Listed /\ manifest' = Names(fs) /\ pc' = "run"
        /\ tree' = TreeOf(fs) /\ UNCHANGED <<memtable, wal>>
    BY <1>7, <2>1 DEF OpenSkips, Loaded
  <2>3. FSE!Max({tree.nextID} \cup {f.id + 1 : f \in fs}) = tree.nextID
    <3> DEFINE ids == {tree.nextID} \cup {f.id + 1 : f \in fs}
    <3>1. tree.nextID \in Nat /\ \A f \in fs : f.id \in Nat /\ f.id < tree.nextID
      BY DEF Ranked, Numbers, Listed, Name
    <3>2. tree.nextID \in ids /\ \A i \in ids : i \in Nat /\ i <= tree.nextID
      BY <3>1
    <3> HIDE DEF ids
    <3>3. \A i \in ids : (\A j \in ids : i >= j) => i = tree.nextID
      BY <3>1, <3>2
    <3>4. \A j \in ids : tree.nextID >= j
      BY <3>1, <3>2
    <3>5. FSE!Max(ids) = tree.nextID
      BY <3>2, <3>3, <3>4 DEF FSE!Max
    <3> QED BY <3>5 DEF ids
  <2>4. tree' = Built(fs, tree.nextID)
    BY <2>2, <2>3 DEF TreeOf, Built
  <2> QED BY <1>5, <2>2, <2>4
\* Writes.
<1>8. ASSUME NEW ws, ws \subseteq Version, \A w \in ws : w.ts > now, pc = "run",
             UNCHANGED <<files, manifest, tree>>, Young' \subseteq Young \cup ws,
             pc' \in {"run", "stuck"}
      PROVE  Ranked'
  BY <1>0, <1>1, <1>8, RankedWrite
<1>9. /\ \A kvs \in Batches : /\ Stamped(kvs, now) \subseteq Version
                              /\ \A w \in Stamped(kvs, now) : w.ts > now
      /\ \A k \in Keys : /\ Tombstone(k) \subseteq Version
                         /\ \A w \in Tombstone(k) : w.ts > now
  <2>1. now \in Nat
    BY DEF Held
  <2>2. ASSUME NEW kvs \in Batches PROVE \A w \in Stamped(kvs, now) : w.ts > now
    BY <2>1, StampedVersions, RecoveryAssumption
  <2>3. ASSUME NEW k \in Keys PROVE \A w \in Tombstone(k) : w.ts > now
    BY <2>1 DEF Tombstone
  <2> QED BY <2>1, <2>2, <2>3, WritesAreVersions
<1>10. ASSUME NEW ws, memtable' \in {memtable, Overwrite(memtable, ws)},
              wal' \in {wal, [wal EXCEPT !.recs = @ \cup ws]}
       PROVE  Young' \subseteq Young \cup ws
  <2>1. wal'.recs \subseteq wal.recs \cup ws
    BY <1>10 DEF Held
  <2> QED BY <1>10, <2>1 DEF Young, Overwrite
<1>11. ASSUME NEW kvs \in Batches, PutBatch(kvs) PROVE Ranked'
  <2> DEFINE ws == Stamped(kvs, now)
  <2>1. /\ pc = "run" /\ UNCHANGED <<files, manifest, tree>>
        /\ memtable' = Overwrite(memtable, ws)
        /\ wal' \in {wal, [wal EXCEPT !.recs = @ \cup ws]}
    BY <1>11 DEF PutBatch, Write
  <2>2. ws \subseteq Version /\ \A w \in ws : w.ts > now
    BY <1>9
  <2> HIDE DEF ws
  <2>3. Young' \subseteq Young \cup ws
    BY <1>10, <2>1
  <2>4. CASE pc' = pc
    BY <1>8, <2>1, <2>2, <2>3, <2>4
  <2>5. CASE pc' = "create" /\ target' = AddToL0(tree, memtable')
    <3>1. /\ Numbers(files', manifest', tree'.nextID)
          /\ Books(tree') /\ Agrees(files', tree')
          /\ Aging => Aged(Young', Listed') /\ Ordered(Young', tree')
      BY <2>1, <2>2, <2>3, RankedWrite
    <3>2. memtable' \subseteq Version /\ IsFiniteSet(memtable')
      BY HeldTyped, MemoryStep
    <3>3. Aging => Ordered(memtable', tree)
      BY <2>1, <3>1, OrderedFewer DEF Young
    <3>4. Books(tree)
      BY <2>1, <3>1
    <3>5. Successor(tree, AddToL0(tree, memtable'))
      BY <3>2, <3>4, AddSuccessor
    <3>6. Aging => Ordered({}, AddToL0(tree, memtable'))
      BY <3>2, <3>3, <3>4, AddKeeps DEF Keeps, Books
    <3>7. Treed'
      BY <1>0, <2>1, <2>5, <3>1, <3>5, <3>6 DEF Treed
    <3> QED BY <1>0, <3>1, <3>7 DEF Ranked
  <2> QED BY <1>11, <2>4, <2>5 DEF PutBatch
<1>12. ASSUME NEW k \in Keys, Delete(k) PROVE Ranked'
  <2>1. /\ pc = "run" /\ pc' = "run" /\ UNCHANGED <<files, manifest, tree>>
        /\ memtable' = Overwrite(memtable, Tombstone(k))
        /\ wal' \in {wal, [wal EXCEPT !.recs = @ \cup Tombstone(k)]}
    BY <1>12 DEF Delete, Write, Tombstone
  <2> QED BY <1>8, <1>9, <1>10, <2>1
<1>13. ASSUME NEW kvs \in Batches, PutBatchFails(kvs) PROVE Ranked'
  <2>1. /\ pc = "run" /\ pc' = "run" /\ UNCHANGED <<files, manifest, tree>>
        /\ memtable' = Overwrite(memtable, Stamped(kvs, now))
        /\ wal' \in {wal, [wal EXCEPT !.recs = @ \cup Stamped(kvs, now)]}
    BY <1>13 DEF PutBatchFails
  <2> QED BY <1>8, <1>9, <1>10, <2>1
<1>14. ASSUME NEW k \in Keys, DeleteFails(k) PROVE Ranked'
  <2>1. /\ pc = "run" /\ pc' = "run" /\ UNCHANGED <<files, manifest, tree>>
        /\ memtable' = memtable
        /\ wal' \in {wal, [wal EXCEPT !.recs = @ \cup Tombstone(k)]}
    BY <1>14 DEF DeleteFails, memory
  <2> QED BY <1>8, <1>9, <1>10, <2>1
<1>15. ASSUME NEW ws, ws \subseteq Version, \A w \in ws : w.ts > now, AppendForever(ws)
       PROVE  Ranked'
  <2>1. /\ pc = "run" /\ pc' = "stuck" /\ UNCHANGED <<files, manifest, tree, wal>>
        /\ memtable' \in {memtable, Overwrite(memtable, ws)}
    BY <1>15 DEF AppendForever, disk
  <2> QED BY <1>8, <1>10, <1>15, <2>1
\* New files.
<1>16. CASE FlushCreate \/ CompactOutputs
  <2>1. /\ Running /\ UNCHANGED <<manifest, tree, target, memtable, wal>>
        /\ files' = Written(files, FilesOf(target) \ FilesOf(tree))
        /\ \/ pc = "create" /\ pc' = "reset"
           \/ pc = "outputs" /\ pc' = "remove"
    BY <1>16 DEF FlushCreate, CompactOutputs, Running
  <2>2. Treed /\ Numbers(files, manifest, tree.nextID) /\ (Aging => Aged(Young, Listed))
    BY <2>1 DEF Ranked
  <2>6. /\ Numbers(files', manifest, tree.nextID)
        /\ \A f \in files' : Name(f) \in manifest => f \in files
        /\ Agrees(files', tree) /\ Agrees(files', target)
    BY <2>1, <2>2, Overwriting DEF Treed
  <2>3. Listed' \subseteq Listed
    BY <2>1, <2>6 DEF Listed
  <2>4. Young' = Young /\ (Aging => Aged(Young, Listed'))
    BY <2>1, <2>2, <2>3, AgedFewer DEF Young
  <2>5. Treed'
    BY <1>0, <2>1, <2>2, <2>4, <2>6 DEF Treed
  <2> QED BY <1>0, <2>1, <2>4, <2>5, <2>6 DEF Ranked
<1>17. CASE CompactFails
  <2>1. PICK new \in SUBSET (FilesOf(target) \ FilesOf(tree)) : files' = Written(files, new)
    <3>1. PICK n : files' = Written(files, {f \in Outputs : f.id < tree.nextID + n})
      BY <1>17 DEF CompactFails
    <3> QED BY <3>1 DEF Outputs
  <2>2. /\ pc = "outputs" /\ pc' \in {"run", "level"}
        /\ UNCHANGED <<manifest, tree, memtable, wal>>
    BY <1>17 DEF CompactFails, CompactReturns
  <2>3. Treed /\ Numbers(files, manifest, tree.nextID) /\ (Aging => Aged(Young, Listed))
    BY <2>2 DEF Ranked, Running
  <2>4. /\ Numbers(files', manifest, tree.nextID) /\ Agrees(files', tree)
        /\ \A f \in files' : Name(f) \in manifest => f \in files
    BY <2>1, <2>2, <2>3, Overwriting DEF Treed
  <2>6. Listed' \subseteq Listed
    BY <2>2, <2>4 DEF Listed
  <2>5. Young' = Young /\ (Aging => Aged(Young, Listed'))
    BY <2>2, <2>3, <2>6, AgedFewer DEF Young
  <2> QED BY <1>0, <1>1, <2>2, <2>3, <2>4, <2>5 DEF Treed
\* Flushes.
<1>18. CASE FlushReset
  <2>1. /\ pc = "reset" /\ pc' = "install" /\ Running
        /\ UNCHANGED <<files, manifest, tree, target>> /\ Young' = {}
    BY <1>18 DEF FlushReset, EmptyLog, Young, Running
  <2> QED BY <1>2, <2>1
<1>19. ASSUME pc \in {"create", "reset", "install"}, Failed, files' \subseteq files,
              manifest' = manifest, Young' \subseteq Young
       PROVE  Ranked'
  <2>1. tree' = [tree EXCEPT !.nextID = @ + 1] /\ pc' = "run"
    BY <1>19 DEF Failed
  <2>2. Books(tree) /\ Agrees(files, tree) /\ (Aging => Ordered(Young, tree))
    BY <1>19 DEF Ranked, Treed, Running
  <2>3. tree = [levels |-> tree.levels, sizes |-> tree.sizes, nextID |-> tree.nextID]
    BY HeldTyped DEF Holds, Sound
  <2>4. Books(tree') /\ FilesOf(tree') = FilesOf(tree)
    BY <2>1, <2>2, <2>3, BooksSkipNumber
  <2>5. tree.nextID \in Nat /\ tree'.nextID = tree.nextID + 1 /\ tree'.levels = tree.levels
    BY <2>1, <2>2, <2>3 DEF Books, Shape
  <2>6. /\ Numbers(files', manifest', tree'.nextID) /\ Agrees(files', tree)
        /\ Aging => Aged(Young', Listed') /\ Ordered(Young', tree)
    BY <1>19, <2>2, <2>5, RankedSame
  <2>7. Agrees(files', tree')
    BY <2>4, <2>6 DEF Agrees
  <2>8. Aging => Ordered(Young', tree')
    BY <2>5, <2>6 DEF Ordered, MemtableNewest, L0ByAge, LevelsByAge
  <2> QED BY <1>0, <1>1, <2>1, <2>4, <2>6, <2>7, <2>8
<1>20. CASE FlushCreateFails \/ FlushOpenFails \/ FlushResetFails
  <2>1. /\ pc \in {"create", "reset", "install"} /\ Failed /\ files' \subseteq files
        /\ manifest' = manifest
    BY <1>20 DEF FlushCreateFails, FlushOpenFails, FlushResetFails, disk
  <2>2. memtable' \in {{}, memtable} /\ wal'.recs \in {{}, wal.recs}
    <3>1. CASE FlushCreateFails \/ FlushOpenFails
      BY <3>1 DEF FlushCreateFails, FlushOpenFails, disk
    <3>2. CASE FlushResetFails
      BY <3>2 DEF FlushResetFails
    <3> QED BY <1>20, <3>1, <3>2
  <2>3. Young' \subseteq Young
    BY <2>2 DEF Young
  <2> QED BY <1>19, <2>1, <2>3
\* What is installed.
<1>21. ASSUME pc \in {"install", "remove"}, tree' = target,
              manifest' \in {manifest, Names(FilesOf(target))}, files' = files, Young' = Young,
              pc' \in {"run", "level"}
       PROVE  Ranked'
  BY <1>0, <1>1, <1>21, RankedInstall
<1>22. CASE FlushManifestFails \/ CompactInstall \/ CompactManifestFails
  <2>1. /\ pc \in {"install", "remove"} /\ tree' = target /\ files' = files
        /\ manifest' \in {manifest, Names(FilesOf(target))} /\ pc' \in {"run", "level"}
        /\ UNCHANGED <<memtable, wal>>
    BY <1>22 DEF FlushManifestFails, ManifestFails, CompactInstall, CompactManifestFails, CompactReturns,
                 disk
  <2> QED BY <1>21, <2>1 DEF Young
<1>23. CASE FlushInstall
  <2>1. /\ pc = "install" /\ tree' = target /\ files' = files
        /\ manifest' = Names(FilesOf(target)) /\ UNCHANGED <<memtable, wal>>
        /\ \/ pc' = "run"
           \/ pc' = "outputs" /\ target' = WriterCompaction(target)
    BY <1>23 DEF FlushInstall
  <2>2. Young' = Young /\ Young = {}
    BY <2>1 DEF Ranked, Treed, Running, Young
  <2>3. CASE pc' = "run"
    BY <1>21, <2>1, <2>2, <2>3
  <2>4. CASE pc' = "outputs" /\ target' = WriterCompaction(target)
    <3>1. /\ Numbers(files', manifest', tree'.nextID)
          /\ Books(tree') /\ Agrees(files', tree')
          /\ Aging => Aged(Young', Listed') /\ Ordered(Young', tree')
      BY <2>1, <2>2, RankedInstall
    <3>2. Successor(tree', target')
      BY <2>1, <2>4, <3>1, WriterSuccessor
    <3>3. Aging => Ordered({}, CompactL0ToL1(target))
      BY <2>1, <2>2, <3>1, L0Keeps DEF Keeps, Books
    <3>4. Aging => Ordered(Young', target')
      BY <2>1, <2>2, <2>4, <3>1, <3>3 DEF WriterCompaction
    <3>5. Treed'
      BY <1>0, <2>4, <3>1, <3>2, <3>4 DEF Treed
    <3> QED BY <1>0, <3>1, <3>5 DEF Ranked
  <2> QED BY <2>1, <2>3, <2>4
<1>24. CASE CompactOpenFails
  <2>1. /\ pc = "remove" /\ pc' \in {"run", "level"}
        /\ UNCHANGED <<files, manifest, memtable, wal>>
    BY <1>24 DEF CompactOpenFails, CompactReturns
  <2>2. Treed /\ Young' = Young
    BY <2>1 DEF Ranked, Running, Young
  <2>3. Books(target) /\ tree.nextID <= target.nextID /\ target.nextID \in Nat
    BY <2>1, <2>2 DEF Treed, Successor, Books, Shape
  <2>4. /\ Books(tree') /\ FilesOf(tree') \subseteq FilesOf(target)
        /\ tree'.nextID = target.nextID
    BY <1>24, MissingFiles
  <2>5. Numbers(files', manifest', tree'.nextID) /\ (Aging => Aged(Young', Listed'))
    BY <2>1, <2>2, <2>3, <2>4, RankedSame
  <2>6. Agrees(files', tree')
    BY <2>1, <2>2, <2>4 DEF Treed, Agrees
  <2>7. Aging => Aged(Young, FilesOf(target))
    BY <2>1, <2>2, <2>3, OrderedFiles DEF Treed
  <2>8. Aging => Ordered(Young', tree')
    BY <2>2, <2>4, <2>7, AgedFewer, OrderedFiles
  <2> QED BY <1>0, <1>1, <2>1, <2>4, <2>5, <2>6, <2>8
\* Compactions.
<1>25. CASE CompactRemove
  <2>1. /\ Running /\ pc' = pc /\ files' \subseteq files
        /\ UNCHANGED <<manifest, tree, target, memtable, wal>>
    BY <1>25 DEF CompactRemove, Running, memory
  <2> QED BY <1>2, <2>1 DEF Young
<1>26. CASE CompactorReceive \/ CompactorUnlock
  <2>1. /\ Running /\ (pc' = pc \/ pc' = "run")
        /\ UNCHANGED <<files, manifest, tree, target, memtable, wal>>
    BY <1>26 DEF CompactorReceive, CompactorUnlock, Running, disk
  <2> QED BY <1>2, <2>1 DEF Young
<1>27. CASE CompactorLock \/ CompactorLevel
  <2>1. /\ pc \in {"run", "level"} /\ Running
        /\ UNCHANGED <<files, manifest, tree, memtable, wal>>
    BY <1>27 DEF CompactorLock, CompactorLevel, Turn, disk, Running
  <2>2. Treed /\ Young' = Young /\ Books(tree) /\ (Aging => Ordered(Young, tree))
    BY <2>1 DEF Ranked, Treed, Young
  <2>3. CASE pc' = "level" /\ target' = target
    BY <1>2, <2>1, <2>2, <2>3
  <2>4. ASSUME pc' = "outputs", Successor(tree, target'), Aging => Ordered(Young, target')
        PROVE  Ranked'
    <3>1. Treed'
      BY <1>0, <2>1, <2>2, <2>4 DEF Treed
    <3>2. Listed' = Listed
      BY <2>1 DEF Listed
    <3> QED BY <1>0, <2>1, <2>2, <3>1, <3>2 DEF Ranked
  <2>5. Young \subseteq Version /\ Shape(tree)
    BY <2>2 DEF Held, Young, Books
  <2>6. CASE CompactorLock
    <3>1. /\ Successor(tree, CompactL0ToL1(tree))
          /\ Aging => Ordered(Young, CompactL0ToL1(tree))
      BY <2>2, <2>5, L0Successor, L0Keeps DEF Keeps
    <3> QED BY <2>3, <2>4, <2>6, <3>1 DEF CompactorLock, Turn
  <2>7. CASE CompactorLevel
    <3>1. level \in Level
      BY <2>7, ShapeAssumption DEF CompactorLevel, Control, Level
    <3>2. /\ Successor(tree, CompactLevel(tree, level))
          /\ Aging => Ordered(Young, CompactLevel(tree, level))
      BY <2>2, <2>5, <3>1, LevelSuccessor, LevelKeeps DEF Keeps
    <3> QED BY <2>3, <2>4, <2>7, <3>2 DEF CompactorLevel, Turn
  <2> QED BY <1>27, <2>6, <2>7
<1>28. CASE Well
  BY <1>28, <1>4, <1>6, <1>11, <1>12, <1>16, <1>18, <1>23, <1>25, <1>22, <1>26, <1>27
     DEF Well
\* All files are loaded; no two had the same number, as this is the first fault.
<1>29. CASE OpenScan
  <2>1. /\ files' = files /\ manifest' = Names(files) /\ pc' = "run" /\ ~Aging'
        /\ hit = {}
    BY <1>29, OneFault DEF OpenScan, Loaded, Fault, Aging
  <2>2. Books(tree') /\ FilesOf(tree') = files
    BY <1>29, <2>1, Scanning
  <2>3. Numbers(files, Names(files), tree'.nextID)
    BY <2>2, NumbersOf DEF Ranked
  <2>4. Agrees(files, tree')
    BY <2>2 DEF Agrees, Ranked, Numbers
  <2> QED BY <1>1, <2>1, <2>2, <2>3, <2>4
<1>30. ASSUME NEW kvs \in Batches, PutBatchFails(kvs) \/ AppendForever(Stamped(kvs, now))
       PROVE  Ranked'
  BY <1>9, <1>13, <1>15, <1>30
<1>31. ASSUME NEW k \in Keys, DeleteFails(k) \/ AppendForever(Tombstone(k))
       PROVE  Ranked'
  BY <1>9, <1>14, <1>15, <1>31
<1>32. CASE Faults
  BY <1>32, <1>4, <1>7, <1>17, <1>20, <1>22, <1>24, <1>29, <1>30, <1>31 DEF Faults
<1> QED BY <1>3, <1>28, <1>32 DEF FaultNext
-----------------------------------------------------------------------------
(* The files of the tree are there.                                        *)

Present ==
  Running => /\ pc # "remove" => FilesOf(tree) \subseteq files
             /\ pc \in {"reset", "install", "remove"} => FilesOf(target) \subseteq files

LEMMA AddFiles ==
  ASSUME NEW tr, Books(tr), NEW m
  PROVE  FilesOf(tr) \subseteq FilesOf(AddToL0(tr, m))
<1> DEFINE new == AddToL0(tr, m)
<1>1. \A l \in Level : tr.levels[l] \subseteq new.levels[l]
  BY DEF AddToL0, Books, Shape
<1> HIDE DEF new
<1> QED BY <1>1 DEF FilesOf, new

LEMMA AddedEntries ==
  ASSUME NEW tr, Books(tr), NEW m
  PROVE  EntriesOf(FilesOf(AddToL0(tr, m))) \subseteq EntriesOf(FilesOf(tr)) \cup m
<1> DEFINE new == AddToL0(tr, m)
<1>1. \A l \in Level : \A t \in new.levels[l] : t \in tr.levels[l] \/ t.ents = m
  BY DEF AddToL0, Books, Shape
<1> HIDE DEF new
<1>2. \A f \in FilesOf(new) : f.ents = m \/ \E g \in FilesOf(tr) : f.ents = g.ents
  <2> TAKE f \in FilesOf(new)
  <2>1. PICK t \in new.levels[f.level] : f.level \in Level /\ f.ents = t.ents
    BY TableFiles
  <2>2. t \in tr.levels[f.level] \/ t.ents = m
    BY <1>1, <2>1
  <2>3. CASE t \in tr.levels[f.level]
    BY <2>1, <2>3, TableFiles
  <2> QED BY <2>1, <2>2, <2>3
<1>3. EntriesOf(FilesOf(new)) \subseteq EntriesOf(FilesOf(tr)) \cup m
  BY <1>2 DEF EntriesOf
<1> QED BY <1>3 DEF new

\* Files of new numbers overwrite none of the tree.
LEMMA NothingOverwritten ==
  ASSUME NEW fs, NEW tr, Books(tr), FilesOf(tr) \subseteq fs, NEW new, Successor(tr, new),
         NEW out, out \subseteq FilesOf(new) \ FilesOf(tr)
  PROVE  FilesOf(tr) \cup out \subseteq Written(fs, out)
<1>1. \A f \in FilesOf(tr) : f.id < tr.nextID /\ f.id \in Nat
  BY BookedFiles DEF File
<1>2. \A f \in FilesOf(new) \ FilesOf(tr) : f.id >= tr.nextID /\ f.id \in Nat
  BY BookedFiles DEF Successor, File
<1>3. tr.nextID \in Nat
  BY DEF Books, Shape
<1>4. \A f \in FilesOf(tr), g \in out : Name(f) # Name(g)
  BY <1>1, <1>2, <1>3 DEF Name
<1>5. \A f \in FilesOf(tr) : Name(f) \notin Names(out)
  BY <1>4 DEF Names
<1> QED BY <1>5 DEF Written

LEMMA PresentStep ==
  ASSUME Held, Control, Fate, Ranked, Present, Single, [FaultNext]_allVars
  PROVE  Present'
<1>1. ASSUME Running, files' = files, UNCHANGED <<tree, target>>,
             \/ pc' = pc
             \/ pc # "remove" /\ pc' \in {"run", "level", "stuck"}
             \/ pc = "reset" /\ pc' = "install"
      PROVE  Present'
  BY <1>1 DEF Present
<1>2. ASSUME Running, FilesOf(tree') \subseteq files',
             pc' \notin {"reset", "install", "remove"}
      PROVE  Present'
  BY <1>2 DEF Present
<1>3. CASE UNCHANGED allVars
  <2>1. UNCHANGED <<files, tree, target, pc>>
    BY <1>3 DEF allVars, vars, disk, memory
  <2> QED BY <2>1 DEF Present, Running
\* Open, Close and SIGKILL.
<1>4. CASE OpenWal \/ OpenResetFails \/ Kill \/ Close \/ CloseBroken
  <2>1. ~Running'
    BY <1>4 DEF OpenWal, OpenResetFails, Kill, Close, CloseBroken, Gone, Running, memory
  <2> QED BY <2>1 DEF Present
<1>5. CASE OpenLoad \/ OpenSkips
  <2>1. PICK fs \in SUBSET Listed :
          pc' = "run" /\ files' = Listed /\ \E id : tree' = Built(fs, id)
    <3>1. CASE OpenLoad
      BY <3>1 DEF OpenLoad, Built
    <3>2. CASE OpenSkips
      BY <3>2 DEF OpenSkips, Loaded, TreeOf, Built
    <3> QED BY <1>5, <3>1, <3>2
  <2>2. FilesOf(tree') \subseteq fs
    <3> SUFFICES ASSUME NEW f \in FilesOf(tree') PROVE f \in fs
      OBVIOUS
    <3>1. f.level \in Level /\ \E t \in tree'.levels[f.level] : f.id = t.id /\ f.ents = t.ents
      BY TableFiles
    <3>2. PICK g \in fs : g.level = f.level /\ f.id = g.id /\ f.ents = g.ents
      BY <2>1, <3>1 DEF Built
    <3>3. g \in File
      BY DEF Ranked, Numbers, Listed
    <3>4. f = [level |-> f.level, id |-> f.id, ents |-> f.ents]
      BY DEF FilesOf
    <3>5. f = g
      BY <3>2, <3>3, <3>4 DEF File
    <3> QED BY <3>5
  <2> QED BY <2>1, <2>2 DEF Present
\* Files are written.
<1>6. CASE FlushCreate \/ CompactOutputs
  <2>1. /\ Running /\ UNCHANGED <<tree, target>> /\ pc # "remove"
        /\ files' = Written(files, FilesOf(target) \ FilesOf(tree))
        /\ pc \in {"create", "outputs"} /\ pc' \in {"reset", "remove"}
    BY <1>6 DEF FlushCreate, CompactOutputs, Running
  <2>2. Books(tree) /\ Successor(tree, target) /\ FilesOf(tree) \subseteq files
    BY <2>1 DEF Ranked, Treed, Present
  <2>3. FilesOf(tree) \cup (FilesOf(target) \ FilesOf(tree)) \subseteq files'
    BY <2>1, <2>2, NothingOverwritten
  <2> QED BY <2>1, <2>3 DEF Present
<1>7. CASE CompactFails
  <2>1. PICK new \in SUBSET (FilesOf(target) \ FilesOf(tree)) : files' = Written(files, new)
    <3>1. PICK n : files' = Written(files, {f \in Outputs : f.id < tree.nextID + n})
      BY <1>7 DEF CompactFails
    <3> QED BY <3>1 DEF Outputs
  <2>2. pc = "outputs" /\ Running /\ pc' \in {"run", "level"} /\ UNCHANGED tree
    BY <1>7 DEF CompactFails, CompactReturns, Running
  <2>3. Books(tree) /\ Successor(tree, target) /\ FilesOf(tree) \subseteq files
    BY <2>2 DEF Ranked, Treed, Present
  <2>4. FilesOf(tree) \subseteq files'
    BY <2>1, <2>3, NothingOverwritten
  <2> QED BY <1>2, <2>2, <2>4
\* Writes.
<1>8. ASSUME NEW kvs \in Batches, PutBatch(kvs) PROVE Present'
  <2>1. pc = "run" /\ Running /\ UNCHANGED <<files, tree>> /\ pc' \in {"run", "create"}
    BY <1>8 DEF PutBatch, Write, Running
  <2>2. FilesOf(tree) \subseteq files
    BY <2>1 DEF Present
  <2> QED BY <1>2, <2>1, <2>2
<1>9. ASSUME NEW k \in Keys, Delete(k) \/ DeleteFails(k) PROVE Present'
  <2>1. Running /\ pc' = pc /\ UNCHANGED <<files, tree, target>>
    BY <1>9 DEF Delete, Write, DeleteFails, Running, memory
  <2> QED BY <1>1, <2>1
<1>10. ASSUME NEW kvs \in Batches, PutBatchFails(kvs) PROVE Present'
  BY <1>1, <1>10 DEF PutBatchFails, Running
<1>11. ASSUME NEW ws, AppendForever(ws) PROVE Present'
  BY <1>1, <1>11 DEF AppendForever, Running, disk
\* Flushes.
<1>12. CASE FlushReset
  BY <1>1, <1>12 DEF FlushReset, Running
<1>13. CASE FlushCreateFails \/ FlushOpenFails \/ FlushResetFails
  <2>1. /\ pc \in {"create", "reset", "install"} /\ Failed
        /\ files \ (FilesOf(target) \ FilesOf(tree)) \subseteq files'
    BY <1>13 DEF FlushCreateFails, FlushOpenFails, FlushResetFails, disk
  <2>2. tree' = [tree EXCEPT !.nextID = @ + 1] /\ pc' = "run"
    BY <2>1 DEF Failed
  <2>3. tree = [levels |-> tree.levels, sizes |-> tree.sizes, nextID |-> tree.nextID]
    BY HeldTyped DEF Holds, Sound
  <2>4. FilesOf(tree') = FilesOf(tree)
    BY <2>2, <2>3 DEF FilesOf
  <2>5. FilesOf(tree) \subseteq files /\ Running
    BY <2>1 DEF Present, Running
  <2> QED BY <1>2, <2>1, <2>2, <2>4, <2>5
\* What is installed.
<1>14. CASE FlushInstall \/ FlushManifestFails \/ CompactInstall \/ CompactManifestFails
  <2>1. /\ pc \in {"install", "remove"} /\ tree' = target /\ files' = files
        /\ pc' \in {"run", "level", "outputs"}
    BY <1>14 DEF FlushInstall, FlushManifestFails, CompactInstall, CompactManifestFails,
                 CompactReturns, disk
  <2>2. FilesOf(target) \subseteq files /\ Running
    BY <2>1 DEF Present, Running
  <2> QED BY <1>2, <2>1, <2>2
<1>15. CASE CompactOpenFails
  <2>1. pc = "remove" /\ pc' \in {"run", "level"} /\ files' = files
    BY <1>15 DEF CompactOpenFails, CompactReturns
  <2>2. FilesOf(tree') \subseteq FilesOf(target)
    BY <1>15, MissingFiles
  <2> QED BY <1>2, <2>1, <2>2 DEF Present, Running
\* Compactions.
<1>16. CASE CompactRemove
  <2>1. /\ pc = "remove" /\ pc' = pc /\ UNCHANGED <<tree, target>>
        /\ files \ Inputs \subseteq files'
    BY <1>16 DEF CompactRemove, memory
  <2> QED BY <2>1 DEF Present, Inputs, Running
<1>17. CASE CompactorReceive
  BY <1>1, <1>17 DEF CompactorReceive, Running, disk
<1>18. CASE CompactorUnlock
  BY <1>1, <1>18 DEF CompactorUnlock, Running, disk
<1>19. CASE CompactorLock \/ CompactorLevel
  <2>1. /\ pc \in {"run", "level"} /\ Running /\ UNCHANGED <<files, tree>>
        /\ pc' \in {"level", "outputs"}
    BY <1>19 DEF CompactorLock, CompactorLevel, Turn, disk, Running
  <2>2. FilesOf(tree) \subseteq files
    BY <2>1 DEF Present
  <2> QED BY <1>2, <2>1, <2>2
<1>20. CASE Well
  BY <1>20, <1>4, <1>5, <1>6, <1>8, <1>9, <1>12, <1>14, <1>16, <1>17, <1>18, <1>19 DEF Well
<1>21. CASE OpenScan
  <2>1. hit = {} /\ files' = files /\ pc' = "run"
    BY <1>21, OneFault DEF OpenScan, Loaded
  <2>2. FilesOf(tree') = files
    BY <1>21, <2>1, Scanning
  <2> QED BY <2>1, <2>2 DEF Present
<1>22. CASE Faults
  BY <1>22, <1>4, <1>5, <1>7, <1>9, <1>10, <1>11, <1>13, <1>14, <1>15, <1>21 DEF Faults
<1> QED BY <1>3, <1>20, <1>22 DEF FaultNext
-----------------------------------------------------------------------------
(* The disk, the manifest and the tree, after faults of the log only.      *)

LogKinds == {"grow", "sync", "reset", "cut"}

Quiet == hit \subseteq LogKinds

\* There are no other files than those of the tree, and of the step in progress.
Matched ==
  Running => /\ manifest = Names(FilesOf(tree))
             /\ pc \notin {"reset", "install", "remove"} => files \subseteq FilesOf(tree)
             /\ files \subseteq FilesOf(tree) \cup FilesOf(target)

LEMMA MatchedInit == FaultInit => Present /\ Matched /\ Single
BY DEF FaultInit, Init, Present, Matched, Single, Running

LEMMA MatchedStep ==
  ASSUME Held, Control, Ranked, Matched, Quiet', [FaultNext]_allVars
  PROVE  Matched'
<1>1. ASSUME Running, UNCHANGED <<files, manifest, tree>>,
             \/ pc' = pc /\ target' = target
             \/ pc \notin {"reset", "install", "remove"}
             \/ pc = "reset" /\ pc' = "install" /\ target' = target
      PROVE  Matched'
  BY <1>1 DEF Matched
<1>2. ASSUME files' \subseteq FilesOf(tree'), manifest' = Names(FilesOf(tree'))
      PROVE  Matched'
  BY <1>2 DEF Matched, Names
<1>3. CASE UNCHANGED allVars
  <2>1. UNCHANGED <<files, manifest, tree, target, pc>>
    BY <1>3 DEF allVars, vars, disk, memory
  <2> QED BY <2>1 DEF Matched, Running
\* Open, Close and SIGKILL.
<1>4. CASE OpenWal \/ OpenResetFails \/ Kill \/ Close \/ CloseBroken
  <2>1. ~Running'
    BY <1>4 DEF OpenWal, OpenResetFails, Kill, Close, CloseBroken, Gone, Running, memory
  <2> QED BY <2>1 DEF Matched
<1>5. CASE OpenLoad
  <2>1. tree' = Built(Listed, tree.nextID) /\ files' = Listed /\ manifest' = Names(Listed)
    BY <1>5 DEF OpenLoad, Built
  <2>2. Listed \subseteq files /\ \A f \in Listed : Name(f) \in manifest
    BY DEF Listed
  <2>3. FilesOf(tree') = Listed
    BY <2>1, <2>2, Loading DEF Ranked
  <2> QED BY <1>2, <2>1, <2>3
\* Writes.
<1>6. ASSUME pc = "run", UNCHANGED <<files, manifest, tree>> PROVE Matched'
  BY <1>1, <1>6 DEF Running
<1>7. ASSUME NEW kvs \in Batches, PutBatch(kvs) \/ PutBatchFails(kvs) PROVE Matched'
  BY <1>6, <1>7 DEF PutBatch, Write, PutBatchFails
<1>8. ASSUME NEW k \in Keys, Delete(k) \/ DeleteFails(k) PROVE Matched'
  BY <1>6, <1>8 DEF Delete, Write, DeleteFails, memory
<1>9. ASSUME NEW ws, AppendForever(ws) PROVE Matched'
  BY <1>6, <1>9 DEF AppendForever, disk
\* Flushes.
<1>10. CASE FlushCreate \/ CompactOutputs
  <2>1. /\ Running /\ UNCHANGED <<manifest, tree, target>>
        /\ files' \subseteq files \cup FilesOf(target)
        /\ pc' \in {"reset", "remove"}
    BY <1>10 DEF FlushCreate, CompactOutputs, Written, Running
  <2> QED BY <2>1 DEF Matched
<1>11. CASE FlushReset
  BY <1>1, <1>11 DEF FlushReset, Running
<1>12. CASE FlushInstall
  <2>1. /\ pc = "install" /\ Running /\ Flushing /\ UNCHANGED files
        /\ tree' = target /\ manifest' = Names(FilesOf(target))
    BY <1>12 DEF FlushInstall, Running, Flushing
  <2>2. FilesOf(tree) \subseteq FilesOf(target)
    BY <2>1, AddFiles DEF Control, FlushOf, Ranked, Treed
  <2> QED BY <1>2, <2>1, <2>2 DEF Matched
\* A Reset that fails: the new file is removed, and one number is left out.
<1>13. CASE FlushResetFails
  <2>1. /\ pc = "reset" /\ Running /\ UNCHANGED manifest
        /\ files' = files \ (FilesOf(target) \ FilesOf(tree))
        /\ tree' = [tree EXCEPT !.nextID = @ + 1]
    BY <1>13 DEF FlushResetFails, Failed, Running
  <2>2. tree = [levels |-> tree.levels, sizes |-> tree.sizes, nextID |-> tree.nextID]
    BY HeldTyped DEF Holds, Sound
  <2>3. FilesOf(tree') = FilesOf(tree)
    BY <2>1, <2>2 DEF FilesOf
  <2> QED BY <1>2, <2>1, <2>3 DEF Matched
\* Compactions.
<1>14. CASE CompactRemove
  <2>1. /\ pc = "remove" /\ pc' = pc /\ Running /\ files' \subseteq files
        /\ UNCHANGED <<manifest, tree, target>>
    BY <1>14 DEF CompactRemove, Running, memory
  <2> QED BY <2>1 DEF Matched
<1>15. CASE CompactInstall
  <2>1. /\ pc = "remove" /\ Running /\ Inputs = {} /\ UNCHANGED files
        /\ tree' = target /\ manifest' = Names(FilesOf(target))
    BY <1>15 DEF CompactInstall, Running
  <2> QED BY <1>2, <2>1 DEF Matched, Inputs
\* compactionLoop.
<1>16. CASE CompactorReceive
  BY <1>1, <1>16 DEF CompactorReceive, Running, disk
<1>17. CASE CompactorLock \/ CompactorLevel \/ CompactorUnlock
  <2>1. pc \in {"run", "level"} /\ UNCHANGED <<files, manifest, tree>>
    BY <1>17 DEF CompactorLock, CompactorLevel, CompactorUnlock, Turn, disk
  <2> QED BY <1>1, <2>1 DEF Running
<1>18. CASE Well
  BY <1>18, <1>4, <1>5, <1>7, <1>8, <1>10, <1>11, <1>12, <1>14, <1>15, <1>16, <1>17 DEF Well
\* Other faults than the log's are over.
<1>19. /\ ~(FlushCreateFails \/ FlushOpenFails \/ FlushManifestFails)
       /\ ~(CompactFails \/ CompactOpenFails \/ CompactManifestFails)
       /\ ~(OpenSkips \/ OpenScan)
  <2>1. \A kind : Fault(kind) => kind \in LogKinds
    BY DEF Quiet, Fault
  <2>2. \A kind \in {"write", "open", "manifest", "skip", "scan"} : ~Fault(kind)
    BY <2>1 DEF LogKinds
  <2> QED BY <2>2 DEF FlushCreateFails, FlushOpenFails, FlushManifestFails, ManifestFails,
                      CompactFails, CompactOpenFails, CompactManifestFails, OpenSkips, OpenScan
<1>20. CASE Faults
  BY <1>20, <1>4, <1>7, <1>8, <1>9, <1>13, <1>19 DEF Faults
<1> QED BY <1>3, <1>18, <1>20 DEF FaultNext

LEMMA SingleRunning ==
  Ranked /\ Matched /\ Running => \A f, g \in files : f.id = g.id => f = g
<1> SUFFICES ASSUME Ranked, Matched, Running PROVE \A f, g \in files : f.id = g.id => f = g
  OBVIOUS
<1>1. Treed /\ Books(tree)
  BY DEF Ranked, Treed
<1>2. /\ \A f \in FilesOf(tree) : f.id \in Nat /\ f.id < tree.nextID
      /\ \A f, g \in FilesOf(tree) : f.id = g.id => f = g
  BY <1>1, BookedFiles DEF File
<1>3. CASE pc \notin {"reset", "install", "remove"}
  BY <1>2, <1>3 DEF Matched
<1>4. CASE pc \in {"reset", "install", "remove"}
  <2>1. Successor(tree, target) /\ files \subseteq FilesOf(tree) \cup FilesOf(target)
    BY <1>1, <1>4 DEF Treed, Matched
  <2>2. /\ \A f \in FilesOf(target) : f.id \in Nat
        /\ \A f, g \in FilesOf(target) : f.id = g.id => f = g
    BY <2>1, BookedFiles DEF Successor, File
  <2>3. tree.nextID \in Nat
    BY <1>1 DEF Books, Shape
  <2>4. \A f \in FilesOf(tree), g \in FilesOf(target) \ FilesOf(tree) : f.id # g.id
    BY <1>2, <2>1, <2>2, <2>3 DEF Successor
  <2> QED BY <1>2, <2>1, <2>2, <2>4
<1> QED BY <1>3, <1>4

\* A process that ends leaves the files as they are.
LEMMA SingleStep ==
  ASSUME Single, hit \subseteq hit', [FaultNext]_allVars, Running' => Ranked' /\ (Quiet' => Matched')
  PROVE  Single'
<1> SUFFICES ASSUME hit' = {} PROVE \A f, g \in files' : f.id = g.id => f = g
  BY DEF Single
<1>1. CASE Running'
  <2>1. Ranked' /\ Matched'
    BY <1>1 DEF Quiet
  <2>2. (Ranked /\ Matched /\ Running => \A f, g \in files : f.id = g.id => f = g)'
    BY SingleRunning, PTL
  <2> QED BY <1>1, <2>1, <2>2
<1>2. CASE ~Running'
  <2>1. hit = {} /\ \A kind : ~Fault(kind)
    BY DEF Fault
  <2>2. files' = files
    <3>1. CASE UNCHANGED allVars
      BY <3>1 DEF allVars, vars, disk
    <3>2. CASE Well
      BY <1>2, <3>2 DEF Well, Running, PutBatch, Delete, Write, FlushReset, Kill, Close,
         CloseBroken, disk, OpenWal, OpenLoad, FlushCreate, FlushInstall, CompactOutputs,
         CompactRemove, CompactInstall, CompactorReceive, CompactorLock, CompactorLevel,
         CompactorUnlock, Turn, memory
    <3>3. CASE Faults
      <4>1. /\ \A kvs : PutBatchFails(kvs) => files' = files
            /\ \A k : DeleteFails(k) => files' = files
            /\ \A ws : AppendForever(ws) => files' = files
        BY DEF PutBatchFails, DeleteFails, AppendForever, disk
      <4>2. ~(FlushCreateFails \/ FlushResetFails \/ FlushOpenFails \/ FlushManifestFails)
        BY <2>1 DEF FlushCreateFails, FlushResetFails, FlushOpenFails, FlushManifestFails, ManifestFails
      <4>3. ~(CompactFails \/ CompactOpenFails \/ CompactManifestFails)
        BY <2>1 DEF CompactFails, CompactOpenFails, CompactManifestFails, ManifestFails
      <4>4. ~(OpenResetFails \/ OpenSkips \/ OpenScan)
        BY <2>1 DEF OpenResetFails, OpenSkips, OpenScan
      <4> QED BY <3>3, <4>1, <4>2, <4>3, <4>4 DEF Faults
    <3> QED BY <3>1, <3>2, <3>3 DEF FaultNext
  <2> QED BY <2>1, <2>2 DEF Single
<1> QED BY <1>1, <1>2
-----------------------------------------------------------------------------
(* The map of the running engine and the map on the disk, in the           *)
(* configurations in which compactions keep the map: flushes and           *)
(* compactions do not change it.                                           *)

\* What the holder of lsm.mu will install is the same map, with the memtable of this
\* process, or with what the log has of it.
Alike ==
  /\ pc \in {"create", "reset"} => MapOf({}, target) = MapOf(memtable, tree)
  /\ pc \in {"outputs", "remove"} =>
       \A m \in SUBSET Young : MapOf(m, target) = MapOf(m, tree)

LEMMA HeldFiles ==
  ASSUME NEW m, NEW tr
  PROVE  HeldBy(m, tr) = m \cup EntriesOf(FilesOf(tr))
<1>1. \A v : v \in HeldBy(m, tr)
               <=> v \in m \/ \E l \in Level : \E t \in tr.levels[l] : v \in t.ents
  BY DEF HeldBy, EntriesOf
<1>2. \A v : v \in EntriesOf(FilesOf(tr)) <=> \E f \in FilesOf(tr) : v \in f.ents
  BY DEF EntriesOf
<1>3. \A v : v \in EntriesOf(FilesOf(tr))
               <=> \E l \in Level : \E t \in tr.levels[l] : v \in t.ents
  BY <1>2, TableFiles
<1> QED BY <1>1, <1>3

\* A tree and a part of what is younger are of the past, and each key has a newest
\* version in them.
LEMMA Settling ==
  ASSUME Held, NEW tr \in {tree, target}, Books(tr), pc # "stuck", NEW m \in SUBSET Young
  PROVE  /\ m \subseteq Version /\ IsFiniteSet(m)
         /\ Settled(HeldBy(m, tr)) /\ Stale(HeldBy(m, tr), now)
<1>1. PICK V \in SUBSET Version :
        /\ Stale(V, now) /\ OneVersion(V) /\ Young \subseteq V
        /\ EntriesOf(FilesOf(tree)) \subseteq V /\ EntriesOf(FilesOf(target)) \subseteq V
  BY Past
<1>2. HeldBy(m, tr) \subseteq V
  BY <1>1, HeldFiles
<1>3. IsFiniteSet(m)
  BY FS_Union, FS_Subset DEF Held, Young
<1>4. IsFiniteSet(HeldBy(m, tr))
  <2>1. IsFiniteSet(EntriesOf(FilesOf(tr)))
    BY BookedFiles, FiniteEntries
  <2> QED BY <1>3, <2>1, HeldFiles, FS_Union
<1>5. HasNewest(HeldBy(m, tr))
  BY <1>2, <1>4, FiniteHasNewest
<1>6. OneVersion(HeldBy(m, tr)) /\ Stale(HeldBy(m, tr), now)
  BY <1>1, <1>2 DEF OneVersion, Stale
<1> QED BY <1>1, <1>3, <1>5, <1>6 DEF Settled

\* A write changes the map of memtable and tree, or that of the log and the tree.
LEMMA MapWrites ==
  ASSUME Held, Books(tree), pc = "run", NEW ws, Fresh(ws),
         NEW m \in SUBSET Young, NEW n, n \subseteq m \cup ws, ws \subseteq n,
         \A v \in m \ n : \E w \in ws : w.key = v.key
  PROVE  Settled(HeldBy(n, tree)) /\ MapOf(n, tree) = Applied(MapOf(m, tree), ws)
<1>1. /\ m \subseteq Version /\ Settled(HeldBy(m, tree)) /\ Stale(HeldBy(m, tree), now)
  BY Settling
<1>2. Shape(tree) /\ now \in Nat
  BY DEF Books, Held
<1>3. /\ ws \subseteq Version /\ \A w \in ws : w.ts > now
      /\ \A v, w \in ws : v.key = w.key => v = w
  BY DEF Fresh
<1> QED BY <1>1, <1>2, <1>3, WritesApplied DEF MapOf

LEMMA AlikeStep ==
  ASSUME Config, Held, Control, Ranked, Alike, Aging', [FaultNext]_allVars
  PROVE  Alike'
<1>0. Aging
  BY HitGrows DEF Aging
<1>1. ASSUME pc' \notin {"create", "reset", "outputs", "remove"} PROVE Alike'
  BY <1>1 DEF Alike
<1>2. ASSUME UNCHANGED <<memtable, wal, tree, target>>,
             \/ pc' = pc
             \/ pc = "create" /\ pc' = "reset"
             \/ pc = "outputs" /\ pc' = "remove"
      PROVE  Alike'
  BY <1>2 DEF Alike, Young
\* A flush begins.
<1>3. ASSUME NEW kvs \in Batches, PutBatch(kvs) PROVE Alike'
  <2> DEFINE ws == Stamped(kvs, now)
  <2>1. /\ pc = "run" /\ tree' = tree /\ now' = now + Len(kvs)
        /\ memtable' = Overwrite(memtable, ws)
    BY <1>3 DEF PutBatch, Write
  <2>2. CASE pc' = pc
    BY <1>1, <2>1, <2>2
  <2>3. CASE pc' = "create" /\ target' = AddToL0(tree, memtable')
    <3>1. Fresh(ws)
      BY <2>1, WritesAreVersions DEF Held
    <3> HIDE DEF ws
    <3>2. Treed
      BY <2>1 DEF Ranked, Running
    <3>3. Settled(HeldBy(memtable', tree))
      BY <2>1, <3>1, <3>2, MapWrites DEF Treed, Young, Overwrite
    <3>4. memtable' \subseteq Version /\ IsFiniteSet(memtable')
      BY HeldTyped, MemoryStep
    <3>5. Ordered(memtable', tree)
      <4>1. ws \subseteq Version /\ \A w \in ws : w.ts > now
        BY <3>1 DEF Fresh
      <4>2. UNCHANGED <<files, manifest>> /\ wal' \in {wal, [wal EXCEPT !.recs = @ \cup ws]}
        BY <1>3 DEF PutBatch, Write, ws
      <4>3. wal'.recs \subseteq wal.recs \cup ws
        BY <4>2 DEF Held
      <4>4. Young' \subseteq Young \cup ws
        BY <2>1, <4>3 DEF Young, Overwrite
      <4>5. Ordered(Young', tree')
        BY <1>0, <2>1, <4>1, <4>2, <4>4, RankedWrite
      <4> QED BY <2>1, <4>5, OrderedFewer DEF Young
    <3>6. Keeps(memtable', tree, {}, AddToL0(tree, memtable'))
      BY <3>2, <3>4, <3>5, AddKeeps DEF Treed, Books
    <3>7. MapOf({}, AddToL0(tree, memtable')) = MapOf(memtable', tree)
      BY <3>3, <3>6 DEF Keeps, MapOf
    <3> QED BY <2>1, <2>3, <3>7 DEF Alike
  <2> QED BY <1>3, <2>2, <2>3 DEF PutBatch
\* A compaction begins.
<1>4. ASSUME pc # "stuck", tree' \in {tree, target}, Books(tree'), Ordered(Young, tree'),
             Young' = Young, pc' = "outputs",
             target' = CompactL0ToL1(tree') \/ \E l \in Level : target' = CompactLevel(tree', l)
      PROVE  Alike'
  <2>1. ASSUME NEW m \in SUBSET Young PROVE MapOf(m, target') = MapOf(m, tree')
    <3>1. m \subseteq Version /\ Settled(HeldBy(m, tree'))
      BY <1>4, Settling
    <3>2. Shape(tree') /\ Ordered(m, tree')
      BY <1>4, OrderedFewer DEF Books
    <3>3. Keeps(m, tree', m, target')
      BY <1>4, <3>1, <3>2, L0Keeps, LevelKeeps
    <3> QED BY <3>1, <3>3 DEF Keeps, MapOf
  <2> QED BY <1>4, <2>1 DEF Alike
<1>5. CASE FlushInstall
  <2>1. /\ pc = "install" /\ tree' = target /\ UNCHANGED <<memtable, wal>>
        /\ \/ pc' = "run"
           \/ /\ pc' = "outputs" /\ target' = WriterCompaction(target)
              /\ target' # target
    BY <1>5 DEF FlushInstall
  <2>2. Books(target) /\ Ordered(Young, target)
    BY <1>0, <2>1 DEF Ranked, Treed, Running, Successor
  <2>3. CASE pc' = "run"
    BY <1>1, <2>3
  <2>4. CASE pc' = "outputs" /\ target' = CompactL0ToL1(target)
    BY <1>4, <2>1, <2>2, <2>4 DEF Young
  <2> QED BY <2>1, <2>3, <2>4 DEF WriterCompaction
<1>6. CASE CompactorLock \/ CompactorLevel
  <2>1. pc \in {"run", "level"} /\ UNCHANGED <<memtable, wal, tree>> /\ pc' \in {"outputs", "level"}
    BY <1>6 DEF CompactorLock, CompactorLevel, Turn, disk
  <2>2. Books(tree) /\ Ordered(Young, tree)
    BY <1>0, <2>1 DEF Ranked, Treed, Running
  <2>3. CASE pc' = "level"
    BY <1>1, <2>3
  <2>4. CASE pc' = "outputs"
    <3>1. level \in Level \/ CompactorLock
      BY <1>6, ShapeAssumption DEF CompactorLevel, Control, Level
    <3>2. target' = CompactL0ToL1(tree) \/ \E l \in Level : target' = CompactLevel(tree, l)
      BY <1>6, <2>4, <3>1 DEF CompactorLock, CompactorLevel, Turn
    <3> QED BY <1>4, <2>1, <2>2, <2>4, <3>2 DEF Young
  <2> QED BY <2>1, <2>3, <2>4
\* Nothing changes, or the flush or compaction is over.
<1>7. CASE \/ FlushCreate \/ CompactOutputs \/ CompactRemove \/ CompactorReceive
           \/ UNCHANGED allVars
  BY <1>2, <1>7 DEF FlushCreate, CompactOutputs, CompactRemove, CompactorReceive,
                    allVars, vars, disk, memory
<1>8. CASE \/ OpenWal \/ OpenLoad \/ Kill \/ Close \/ CloseBroken
           \/ FlushReset \/ CompactInstall \/ CompactorUnlock
  BY <1>1, <1>8 DEF OpenWal, OpenLoad, Kill, Close, CloseBroken, Gone, FlushReset,
                    CompactInstall, CompactorUnlock
<1>9. CASE Well
  <2>1. \A k : Delete(k) => Alike'
    BY <1>1 DEF Delete, Write
  <2> QED BY <1>9, <1>3, <1>5, <1>6, <1>7, <1>8, <2>1 DEF Well
<1>10. CASE Faults
  <2>1. \A kvs : PutBatchFails(kvs) => Alike'
    BY <1>1 DEF PutBatchFails
  <2>2. \A k : DeleteFails(k) => Alike'
    BY <1>1 DEF DeleteFails, memory
  <2>3. \A ws : AppendForever(ws) => Alike'
    BY <1>1 DEF AppendForever
  <2>4. FlushCreateFails \/ FlushResetFails \/ FlushOpenFails \/ FlushManifestFails => Alike'
    BY <1>1 DEF FlushCreateFails, FlushResetFails, FlushOpenFails, FlushManifestFails, Failed
  <2>5. CompactFails \/ CompactOpenFails \/ CompactManifestFails => Alike'
    BY <1>1 DEF CompactFails, CompactOpenFails, CompactManifestFails, CompactReturns
  <2>6. OpenResetFails \/ OpenSkips \/ OpenScan => Alike'
    BY <1>1 DEF OpenResetFails, OpenSkips, OpenScan, Loaded, memory
  <2> QED BY <1>10, <2>1, <2>2, <2>3, <2>4, <2>5, <2>6 DEF Faults
<1> QED BY <1>7, <1>9, <1>10 DEF FaultNext
-----------------------------------------------------------------------------
(* What memtable, log and tree say was written.                            *)

\* Memtable, log and tree are the map that was written; the log and the tree alone say
\* so while the log is in order, or they lack one write that has failed.
LogStory ==
  /\ mapping = "ok" => MapOf(Young, tree) \in (IF other = {} THEN {tried} ELSE other)
  /\ mapping = "dangling" => /\ MapOf(Young, tree) = tried
                             /\ \A m \in other : MapOf(wal.recs, tree) = m
  /\ mapping = "nil" /\ "cut" \notin hit => MapOf(wal.recs, tree) = acked

Story ==
  hit \cap {"open", "scan"} = {} /\ Running =>
    /\ mapping \in {"ok", "dangling"} =>
         MapOf(memtable, IF pc = "install" THEN target ELSE tree) = tried
    /\ pc # "install" => LogStory

LEMMA StoryInit == FaultInit => Alike /\ Story
BY DEF FaultInit, Init, Alike, Story, Running

LEMMA StoryStep ==
  ASSUME Config, Held, Control, Ranked, Fate, Fate', Alike, Story, Running,
         hit' \cap {"open", "scan"} = {}, hit \subseteq hit', FaultNext
  PROVE  Story'
<1>1. /\ mapping \in {"ok", "dangling"} =>
           MapOf(memtable, IF pc = "install" THEN target ELSE tree) = tried
      /\ pc # "install" => LogStory
  BY DEF Story
\* A write in the memtable, the log, or both.
<1>2. ASSUME NEW ws, Fresh(ws), pc = "run", tree' = tree,
             memtable' \in {memtable, Overwrite(memtable, ws)},
             wal' \in {wal, [wal EXCEPT !.recs = @ \cup ws]}
      PROVE  /\ memtable' = Overwrite(memtable, ws) =>
                  MapOf(memtable', tree') = Applied(MapOf(memtable, tree), ws)
             /\ memtable' = Overwrite(memtable, ws) \/ wal' # wal =>
                  MapOf(Young', tree') = Applied(MapOf(Young, tree), ws)
             /\ wal' = wal => MapOf(wal'.recs, tree') = MapOf(wal.recs, tree)
  <2>1. Books(tree)
    BY <1>2 DEF Ranked, Treed, Running
  <2>2. memtable' = Overwrite(memtable, ws) =>
          MapOf(memtable', tree') = Applied(MapOf(memtable, tree), ws)
    BY <1>2, <2>1, MapWrites DEF Overwrite, Young
  <2>3. wal'.recs = wal.recs \/ (wal' # wal /\ wal'.recs = wal.recs \cup ws)
    BY <1>2 DEF Held
  <2>4. ASSUME memtable' = Overwrite(memtable, ws) \/ wal' # wal
        PROVE  MapOf(Young', tree') = Applied(MapOf(Young, tree), ws)
    <3>1. Young' \subseteq Young \cup ws
      BY <1>2, <2>3 DEF Young, Overwrite
    <3>2. ws \subseteq Young'
      BY <1>2, <2>3, <2>4 DEF Young, Overwrite, Held
    <3>3. \A v \in Young \ Young' : \E w \in ws : w.key = v.key
      BY <1>2, <2>3 DEF Young, Overwrite
    <3> QED BY <1>2, <2>1, <3>1, <3>2, <3>3, MapWrites
  <2> QED BY <1>2, <2>2, <2>3, <2>4
<1>3. /\ \A kvs \in Batches : now' = now + Len(kvs) => Fresh(Stamped(kvs, now))
      /\ \A k \in Keys : now' = now + 1 => Fresh(Tombstone(k))
  BY WritesAreVersions DEF Held
<1>4. pc = "run" => acked = tried
  BY DEF Fate
\* A write that goes well.
<1>5. ASSUME NEW ws, Fresh(ws), Writing(ws), pc = "run", pc' # "install", tree' = tree,
             memtable' = Overwrite(memtable, ws),
             wal' \in {wal, [wal EXCEPT !.recs = @ \cup ws]}, tried' = Applied(acked, ws)
      PROVE  Story'
  <2>1. /\ MapOf(memtable', tree') = Applied(MapOf(memtable, tree), ws)
        /\ MapOf(Young', tree') = Applied(MapOf(Young, tree), ws)
    BY <1>2, <1>5
  <2>2. CASE mapping = "kept"
    BY <1>5, <2>2 DEF Writing, Story, LogStory
  <2>3. CASE mapping = "ok"
    <3>1. /\ mapping' = "ok" /\ tried' = Applied(tried, ws)
          /\ other' = {Applied(m, ws) : m \in other}
      BY <1>4, <1>5, <2>3 DEF Writing
    <3>2. /\ MapOf(memtable, tree) = tried
          /\ MapOf(Young, tree) \in (IF other = {} THEN {tried} ELSE other)
      BY <1>1, <1>5, <2>3 DEF LogStory
    <3>3. MapOf(Young', tree') \in (IF other' = {} THEN {tried'} ELSE other')
      BY <2>1, <3>1, <3>2
    <3> QED BY <1>5, <2>1, <3>1, <3>2, <3>3 DEF Story, LogStory
  <2> QED BY <1>5, <2>2, <2>3 DEF Writing
<1>6. ASSUME NEW kvs \in Batches, PutBatch(kvs), Writing(Stamped(kvs, now)) PROVE Story'
  BY <1>3, <1>5, <1>6 DEF PutBatch, Write
<1>7. ASSUME NEW k \in Keys, Delete(k), Writing(Tombstone(k)) PROVE Story'
  <2>1. /\ now' = now + 1 /\ pc = "run" /\ pc' = "run" /\ tree' = tree
        /\ memtable' = Overwrite(memtable, Tombstone(k))
        /\ wal' \in {wal, [wal EXCEPT !.recs = @ \cup Tombstone(k)]}
        /\ tried' = Applied(acked, Tombstone(k))
    BY <1>7 DEF Delete, Write, Tombstone
  <2> QED BY <1>3, <1>5, <1>7, <2>1
\* A write whose append fails.
<1>8. Unlogged = {} => Young = wal.recs
  BY DEF Unlogged, Young
<1>9. AppendFails => /\ mapping' = "dangling" /\ mapping \in {"ok", "dangling"}
                     /\ mapping = "ok" => other = {}
  BY OneFault DEF AppendFails
<1>10. pc = "run" /\ mapping \in {"ok", "dangling"} /\ (mapping = "ok" => other = {}) =>
         MapOf(memtable, tree) = tried /\ MapOf(Young, tree) = tried
  BY <1>1 DEF LogStory
<1>11. ASSUME NEW kvs \in Batches, PutBatchFails(kvs) PROVE Story'
  <2> DEFINE ws == Stamped(kvs, now)
  <2>1. /\ pc = "run" /\ pc' = "run" /\ tree' = tree /\ now' = now + Len(kvs)
        /\ memtable' = Overwrite(memtable, ws)
        /\ wal' \in {wal, [wal EXCEPT !.recs = @ \cup ws]}
        /\ tried' = Applied(acked, ws) /\ acked' = tried'
    BY <1>11 DEF PutBatchFails
  <2>2. Fresh(ws)
    BY <1>3, <2>1
  <2>3. \/ AppendFails /\ OneWithout /\ wal' = wal
        \/ Fault("sync") /\ mapping' = mapping /\ other' = {Applied(m, ws) : m \in other}
    BY <1>11 DEF PutBatchFails
  <2> HIDE DEF ws
  <2>4. /\ MapOf(memtable', tree') = Applied(MapOf(memtable, tree), ws)
        /\ MapOf(Young', tree') = Applied(MapOf(Young, tree), ws)
        /\ wal' = wal => MapOf(wal'.recs, tree') = MapOf(wal.recs, tree)
    BY <1>2, <2>1, <2>2
  <2>5. CASE AppendFails /\ OneWithout /\ wal' = wal
    <3>1. /\ mapping' = "dangling"
          /\ MapOf(memtable', tree') = tried' /\ MapOf(Young', tree') = tried'
      BY <1>4, <1>9, <1>10, <2>1, <2>4, <2>5
    <3>2. ASSUME NEW m \in other' PROVE MapOf(wal.recs, tree) = m
      <4>1. CASE mapping = "dangling"
        BY <1>1, <2>1, <2>5, <3>2, <4>1 DEF OneWithout, LogStory
      <4>2. CASE mapping = "ok"
        <5>1. Unlogged = {} /\ m = acked
          BY <1>9, <2>5, <3>2, <4>2 DEF OneWithout
        <5> QED BY <1>4, <1>8, <1>9, <1>10, <2>1, <2>5, <5>1
      <4> QED BY <1>9, <2>5, <4>1, <4>2
    <3> QED BY <2>1, <2>4, <2>5, <3>1, <3>2 DEF Story, LogStory
  <2>6. CASE Fault("sync") /\ mapping' = mapping /\ other' = {Applied(m, ws) : m \in other}
    <3>1. mapping = "ok" /\ other = {} /\ other' = {}
      BY <2>6, OneFault
    <3>2. MapOf(memtable', tree') = tried' /\ MapOf(Young', tree') = tried'
      BY <1>4, <1>10, <2>1, <2>4, <3>1
    <3> QED BY <2>1, <2>6, <3>1, <3>2 DEF Story, LogStory
  <2> QED BY <2>3, <2>5, <2>6
<1>12. ASSUME NEW k \in Keys, DeleteFails(k) PROVE Story'
  <2> DEFINE ws == Tombstone(k)
  <2>1. /\ pc = "run" /\ pc' = "run" /\ UNCHANGED <<tree, memtable, acked, tried>>
        /\ now' = now + 1
        /\ wal' \in {wal, [wal EXCEPT !.recs = @ \cup ws]}
    BY <1>12 DEF DeleteFails, memory
  <2>2. Fresh(ws)
    BY <1>3, <2>1
  <2>3. \/ AppendFails /\ wal' = wal /\ other' \in {other, {}}
        \/ /\ Fault("sync") /\ mapping' = mapping
           /\ \/ wal' = wal /\ other' = other
              \/ wal' = [wal EXCEPT !.recs = @ \cup ws] /\ other' = {Applied(acked, ws)}
    BY <1>12 DEF DeleteFails
  <2> HIDE DEF ws
  <2>4. CASE AppendFails /\ wal' = wal /\ other' \in {other, {}}
    <3>1. mapping' = "dangling" /\ MapOf(memtable, tree) = tried /\ MapOf(Young, tree) = tried
      BY <1>9, <1>10, <2>1, <2>4
    <3>2. \A m \in other' : MapOf(wal.recs, tree) = m
      BY <1>1, <1>9, <2>1, <2>4 DEF LogStory
    <3>3. Young' = Young
      BY <2>1, <2>4 DEF Young
    <3> QED BY <2>1, <2>4, <3>1, <3>2, <3>3 DEF Story, LogStory
  <2>5. CASE Fault("sync") /\ mapping' = mapping
    <3>1. /\ mapping = "ok" /\ other = {}
          /\ MapOf(memtable, tree) = tried /\ MapOf(Young, tree) = tried
      BY <1>10, <2>1, <2>5, OneFault
    <3>2. CASE wal' = wal /\ other' = other
      BY <2>1, <2>5, <3>1, <3>2 DEF Story, LogStory, Young
    <3>3. CASE wal' = [wal EXCEPT !.recs = @ \cup ws] /\ other' = {Applied(acked, ws)}
      <4>1. wal'.recs = wal.recs \cup ws
        BY <3>3 DEF Held
      <4>2. Young' = Young \cup ws
        BY <2>1, <4>1 DEF Young
      <4>3. MapOf(Young', tree') = Applied(MapOf(Young, tree), ws)
        <5>1. Books(tree)
          BY <2>1 DEF Ranked, Treed, Running
        <5> QED BY <2>1, <2>2, <4>2, <5>1, MapWrites
      <4>4. MapOf(Young', tree') \in other'
        BY <1>4, <2>1, <3>1, <3>3, <4>3
      <4> QED BY <2>1, <2>5, <3>1, <4>4 DEF Story, LogStory
    <3> QED BY <2>3, <2>5, <3>1, <3>2, <3>3, <1>9
  <2> QED BY <2>3, <2>4, <2>5
<1>13. ASSUME NEW ws, AppendForever(ws) PROVE Story'
  <2>1. /\ pc = "run" /\ pc' = "stuck" /\ mapping = "nil"
        /\ UNCHANGED <<wal, tree, acked, mapping, hit>>
    BY <1>13 DEF AppendForever, disk, faultVars
  <2> QED BY <1>1, <2>1 DEF Story, LogStory
\* Nothing of the map changes.
<1>14. ASSUME UNCHANGED <<memtable, wal, tried, mapping, other>>, tree'.levels = tree.levels,
              pc # "install", pc' # "install",
              acked' = acked \/ (acked' = tried /\ pc # "stuck")
       PROVE  Story'
  <2>1. /\ MapOf(memtable', tree') = MapOf(memtable, tree)
        /\ MapOf(wal'.recs, tree') = MapOf(wal.recs, tree)
        /\ MapOf(Young', tree') = MapOf(Young, tree)
    BY <1>14 DEF MapOf, HeldBy, Young
  <2>2. mapping = "nil" => acked' = acked
    BY <1>14 DEF Fate
  <2> QED BY <1>1, <1>14, <2>1, <2>2 DEF Story, LogStory
<1>15. CASE /\ \/ FlushCreate \/ CompactOutputs \/ CompactRemove
               \/ CompactorLock \/ CompactorLevel \/ CompactorUnlock
            /\ UNCHANGED faultVars
  <2>1. /\ UNCHANGED <<memtable, wal, tree, tried, acked, mapping, other>>
        /\ pc # "install" /\ pc' # "install"
    BY <1>15 DEF FlushCreate, CompactOutputs, CompactRemove, CompactorLock, CompactorLevel,
                 CompactorUnlock, Turn, disk, memory, faultVars
  <2> QED BY <1>14, <2>1
<1>16. CASE CompactorReceive /\ UNCHANGED faultVars
  <2>1. UNCHANGED <<memtable, wal, tree, target, pc, tried, acked, hit, mapping, other>>
    BY <1>16 DEF CompactorReceive, disk, faultVars
  <2> QED BY <1>1, <2>1 DEF Story, LogStory, Young
<1>17. CASE CompactFails
  <2>1. /\ UNCHANGED <<memtable, wal, tree, tried, mapping, other>>
        /\ pc = "outputs" /\ pc' # "install" /\ acked' \in {acked, tried}
    BY <1>17 DEF CompactFails, CompactReturns
  <2> QED BY <1>14, <2>1
\* Flushes.
<1>18. tree = [levels |-> tree.levels, sizes |-> tree.sizes, nextID |-> tree.nextID]
  BY HeldTyped DEF Holds, Sound
<1>19. CASE FlushCreateFails
  <2>1. /\ UNCHANGED <<memtable, wal, tried, mapping, other>>
        /\ pc = "create" /\ pc' = "run" /\ acked' = tried
        /\ tree' = [tree EXCEPT !.nextID = @ + 1]
    BY <1>19 DEF FlushCreateFails, Failed, disk
  <2> QED BY <1>14, <1>18, <2>1
<1>20. CASE FlushReset /\ Forgetting
  <2>1. /\ pc = "reset" /\ pc' = "install" /\ memtable' = {}
        /\ UNCHANGED <<tree, target, tried, mapping>>
    BY <1>20 DEF FlushReset, Forgetting
  <2>2. MapOf({}, target) = MapOf(memtable, tree)
    BY <2>1 DEF Alike
  <2>3. mapping \in {"ok", "dangling"} => MapOf(memtable, tree) = tried
    BY <1>1, <2>1
  <2> QED BY <2>1, <2>2, <2>3 DEF Story
<1>21. CASE FlushResetFails
  <2>1. /\ pc = "reset" /\ pc' = "run" /\ acked' = tried
        /\ tree' = [tree EXCEPT !.nextID = @ + 1]
        /\ \/ Fault("reset") /\ Unlogged = {} /\ wal' = wal /\ mapping' = "nil"
           \/ Fault("cut") /\ mapping' \in {"nil", "kept"}
    BY <1>21 DEF FlushResetFails, Failed
  <2>2. CASE Fault("reset") /\ Unlogged = {} /\ wal' = wal /\ mapping' = "nil"
    <3>1. mapping = "ok" /\ other = {}
      BY <2>2, OneFault
    <3>2. MapOf(wal.recs, tree) = tried
      BY <1>1, <1>8, <2>1, <2>2, <3>1 DEF LogStory
    <3>3. MapOf(wal'.recs, tree') = MapOf(wal.recs, tree)
      BY <1>18, <2>1, <2>2 DEF MapOf, HeldBy
    <3> QED BY <2>1, <3>2, <3>3 DEF Story, LogStory
  <2>3. CASE Fault("cut") /\ mapping' \in {"nil", "kept"}
    BY <2>1, <2>3 DEF Fault, Story, LogStory
  <2> QED BY <2>1, <2>2, <2>3
<1>22. CASE (FlushInstall /\ UNCHANGED faultVars) \/ FlushManifestFails
  <2>1. /\ pc = "install" /\ pc' # "install" /\ tree' = target
        /\ UNCHANGED <<memtable, wal, tried, mapping, other>>
    BY <1>22 DEF FlushInstall, FlushManifestFails, faultVars, disk
  <2>2. /\ Young = {} /\ memtable = {} /\ Young' = {}
        /\ mapping \in {"ok", "kept"} /\ other = {}
    BY <2>1 DEF Ranked, Treed, Running, Young, Fate
  <2>3. mapping = "ok" => MapOf({}, target) = tried
    BY <1>1, <2>1, <2>2
  <2> QED BY <2>1, <2>2, <2>3 DEF Story, LogStory
\* Compactions.
<1>23. CASE (CompactInstall /\ UNCHANGED faultVars) \/ CompactManifestFails
  <2>1. /\ pc = "remove" /\ pc' # "install" /\ tree' = target
        /\ UNCHANGED <<memtable, wal, tried, mapping, other>> /\ acked' \in {acked, tried}
    BY <1>23 DEF CompactInstall, CompactManifestFails, CompactReturns, faultVars
  <2>2. mapping = "nil" => acked' = acked
    BY <2>1 DEF Fate
  <2>3. \A m \in SUBSET Young : MapOf(m, target) = MapOf(m, tree)
    BY <2>1 DEF Alike
  <2>4. /\ MapOf(memtable', tree') = MapOf(memtable, tree)
        /\ MapOf(wal'.recs, tree') = MapOf(wal.recs, tree)
        /\ MapOf(Young', tree') = MapOf(Young, tree)
    BY <2>1, <2>3 DEF Young
  <2> QED BY <1>1, <2>1, <2>2, <2>4 DEF Story, LogStory
\* The process ends, or what it lacks is lost.
<1>24. CASE Kill \/ Close \/ CloseBroken
  BY <1>24 DEF Kill, Close, CloseBroken, Gone, Story, Running
<1>25. ~(FlushOpenFails \/ CompactOpenFails)
  BY DEF FlushOpenFails, CompactOpenFails, Fault
<1>26. ~(OpenWal \/ OpenLoad \/ OpenResetFails \/ OpenSkips \/ OpenScan)
  BY DEF Running, OpenWal, OpenLoad, OpenResetFails, OpenSkips, OpenScan
<1>27. CASE Well
  BY <1>27, <1>6, <1>7, <1>15, <1>16, <1>20, <1>22, <1>23, <1>24, <1>26 DEF Well
<1>28. CASE Faults
  BY <1>28, <1>11, <1>12, <1>13, <1>17, <1>19, <1>21, <1>22, <1>23, <1>25, <1>26 DEF Faults
<1> QED BY <1>27, <1>28 DEF FaultNext

\* Open begins the map anew, with what it has loaded.
LEMMA StoryOpens ==
  ASSUME Fate, ~Running, hit' \cap {"open", "scan"} = {}, FaultNext
  PROVE  Story'
<1>1. ASSUME Running' PROVE (OpenLoad /\ UNCHANGED faultVars) \/ OpenSkips
  <2>1. ASSUME Well PROVE OpenLoad /\ UNCHANGED faultVars
    BY <1>1, <2>1 DEF Well, Running, PutBatch, Delete, Write, FlushReset, Kill, Close, CloseBroken,
         Gone, OpenWal, FlushCreate, FlushInstall, CompactOutputs, CompactRemove,
         CompactInstall, CompactorReceive, CompactorLock, CompactorLevel, CompactorUnlock
  <2>2. ASSUME Faults PROVE OpenSkips
    <3>1. /\ \A kvs : ~PutBatchFails(kvs)
          /\ \A k : ~DeleteFails(k)
          /\ \A ws : ~AppendForever(ws)
      BY DEF Running, PutBatchFails, DeleteFails, AppendForever
    <3>2. ~(FlushCreateFails \/ FlushResetFails \/ FlushOpenFails \/ FlushManifestFails)
      BY DEF Running, FlushCreateFails, FlushResetFails, FlushOpenFails, FlushManifestFails
    <3>3. ~(CompactFails \/ CompactOpenFails \/ CompactManifestFails)
      BY DEF Running, CompactFails, CompactOpenFails, CompactManifestFails
    <3>4. ~(OpenResetFails \/ OpenScan)
      BY <1>1 DEF Running, OpenResetFails, OpenScan, Fault, memory
    <3> QED BY <2>2, <3>1, <3>2, <3>3, <3>4 DEF Faults
  <2> QED BY <2>1, <2>2 DEF FaultNext
<1>2. ASSUME Running' PROVE Story'
  <2>1. /\ pc = "load" /\ pc' = "run" /\ UNCHANGED <<memtable, wal, mapping, other>>
        /\ tried' = MapOf(memtable, tree')
    <3>1. CASE OpenLoad /\ UNCHANGED faultVars
      BY <3>1 DEF OpenLoad, faultVars
    <3>2. CASE OpenSkips
      BY <3>2 DEF OpenSkips, Loaded
    <3> QED BY <1>1, <1>2, <3>1, <3>2
  <2>2. wal.recs = {} /\ mapping = "ok" /\ other = {}
    BY <2>1 DEF Fate, Running
  <2>3. Young' = memtable
    BY <2>1, <2>2 DEF Young
  <2> QED BY <2>1, <2>2, <2>3 DEF Story, LogStory
<1> QED BY <1>2 DEF Story
-----------------------------------------------------------------------------
(* The newest version of every key, in the memtable, in the log or in      *)
(* files that stay, after all faults but a listed file that does not open. *)

Pair == [key : Keys, ts : Nat \ {0}]

VersionOf(p) == [key |-> p.key, ts |-> p.ts, tombstone |-> FALSE]

NoneNewer(p, vs) == \A v \in vs : v.key = p.key => v.ts <= p.ts

\* What was written, as far as the process gets on.
Owed == IF pc = "stuck" THEN acked ELSE tried

Stored == EntriesOf(files) \cup EntriesOf(FilesOf(tree)) \cup EntriesOf(FilesOf(target))

\* Nothing newer than p is anywhere: in the log, unless it may be a write that has failed.
Latest(p) ==
  /\ pc # "stuck" => NoneNewer(p, memtable)
  /\ NoneNewer(p, Stored)
  /\ (\A m \in other : p \in m) => NoneNewer(p, wal.recs)

\* The files that the step in progress neither removes nor overwrites.
Staying ==
  LET older == {f \in files : f.id < tree.nextID}
  IN  IF pc \in {"install", "remove"} THEN (older \ FilesOf(tree)) \cup FilesOf(target)
                                      ELSE older

\* After a failed Reset the memtable is no help any more, and after one that has
\* truncated the log neither is the log.
Kept(p) ==
  /\ mapping \in {"ok", "dangling"} => VersionOf(p) \in memtable \cup EntriesOf(Staying)
  /\ mapping = "nil" /\ "cut" \notin hit => VersionOf(p) \in wal.recs \cup EntriesOf(Staying)

\* A compaction in progress writes what it will remove.
Copied(p) ==
  /\ pc \in {"outputs", "remove"}
  /\ VersionOf(p) \in EntriesOf(FilesOf(tree))
  => VersionOf(p) \in EntriesOf(FilesOf(target))

Living ==
  Running /\ "skip" \notin hit =>
    \A p \in Owed : p \in Pair /\ Latest(p) /\ Kept(p) /\ Copied(p)

LEMMA MoreEntries ==
  ASSUME NEW fs, NEW gs, fs \subseteq gs
  PROVE  EntriesOf(fs) \subseteq EntriesOf(gs)
BY DEF EntriesOf

LEMMA LatestFewer ==
  ASSUME NEW p, Latest(p), memtable' \subseteq memtable, wal'.recs \subseteq wal.recs,
         Stored' \subseteq Stored, other' = other \/ wal'.recs = {},
         pc # "stuck" \/ pc' = "stuck"
  PROVE  Latest(p)'
BY DEF Latest, NoneNewer

\* What stays is there, and its numbers are used up when the target is installed.
LEMMA StayingFiles ==
  ASSUME Ranked, Present, Running
  PROVE  /\ Staying \subseteq files /\ tree.nextID \in Nat
         /\ \A f \in files : f.id \in Nat
         /\ pc \in {"create", "reset", "install", "outputs", "remove"} =>
              /\ tree.nextID <= target.nextID /\ target.nextID \in Nat
              /\ \A f \in FilesOf(target) : f.id \in Nat /\ f.id < target.nextID
              /\ \A f \in FilesOf(target) \ FilesOf(tree) : f.id >= tree.nextID
         /\ pc \in {"install", "remove"} =>
              Staying \subseteq {f \in files : f.id < target.nextID}
<1>1. Treed /\ Numbers(files, manifest, tree.nextID)
  BY DEF Ranked
<1>2. tree.nextID \in Nat /\ \A f \in files : f.id \in Nat
  BY <1>1 DEF Numbers, File
<1>3. ASSUME pc \in {"create", "reset", "install", "outputs", "remove"}
      PROVE  /\ tree.nextID <= target.nextID /\ target.nextID \in Nat
             /\ \A f \in FilesOf(target) : f.id \in Nat /\ f.id < target.nextID
             /\ \A f \in FilesOf(target) \ FilesOf(tree) : f.id >= tree.nextID
  <2>1. Successor(tree, target)
    BY <1>1, <1>3 DEF Treed
  <2>2. Books(target) /\ target.nextID \in Nat
    BY <2>1 DEF Successor, Books, Shape
  <2> QED BY <2>1, <2>2, BookedFiles DEF Successor, File
<1>4. pc \in {"install", "remove"} => FilesOf(target) \subseteq files
  BY DEF Present
<1>5. Staying \subseteq files
  BY <1>4 DEF Staying
<1>6. ASSUME pc \in {"install", "remove"}, NEW f \in Staying PROVE f.id < target.nextID
  <2>1. f \in files /\ f.id \in Nat
    BY <1>2, <1>5, <1>6
  <2>2. f.id < tree.nextID \/ f \in FilesOf(target)
    BY <1>6 DEF Staying
  <2>3. /\ tree.nextID <= target.nextID /\ target.nextID \in Nat
        /\ \A g \in FilesOf(target) : g.id < target.nextID
    BY <1>3, <1>6
  <2> QED BY <1>2, <2>1, <2>2, <2>3
<1> QED BY <1>2, <1>3, <1>5, <1>6

\* A step that writes nothing.
LEMMA LivingSame ==
  ASSUME Living, Running, hit \subseteq hit', Owed' = Owed,
         memtable' \subseteq memtable, wal'.recs \subseteq wal.recs,
         Stored' \subseteq Stored, other' = other \/ wal'.recs = {},
         pc # "stuck" \/ pc' = "stuck",
         \A p \in Pair : Latest(p)' /\ Kept(p) /\ Copied(p) => Kept(p)' /\ Copied(p)'
  PROVE  Living'
<1> SUFFICES ASSUME "skip" \notin hit, NEW p \in Owed
             PROVE  p \in Pair /\ Latest(p)' /\ Kept(p)' /\ Copied(p)'
  BY DEF Living
<1>1. p \in Pair /\ Latest(p) /\ Kept(p) /\ Copied(p)
  BY DEF Living
<1>2. Latest(p)'
  BY <1>1, LatestFewer
<1> QED BY <1>1, <1>2

\* A step that moves no version out of the memtable, the log and the files that stay.
LEMMA LivingSteady ==
  ASSUME Living, Running, hit \subseteq hit', UNCHANGED <<memtable, mapping, other, tried>>,
         wal'.recs = wal.recs,
         (pc # "stuck" /\ pc' # "stuck") \/ UNCHANGED <<pc, acked>>,
         Stored' \subseteq Stored, Staying \subseteq Staying',
         \A p \in Pair : Latest(p)' /\ Copied(p) => Copied(p)'
  PROVE  Living'
<1>1. Owed' = Owed
  BY DEF Owed
<1>2. EntriesOf(Staying) \subseteq EntriesOf(Staying')
  BY MoreEntries
<1>3. \A p : Kept(p) => Kept(p)'
  BY <1>2 DEF Kept
<1> QED BY <1>1, <1>3, LivingSame

\* A write in the memtable: older pairs of its keys are no longer owed, and no version is
\* newer than its own.
LEMMA LivingWrite ==
  ASSUME Held, Fate, Living, hit \subseteq hit', pc = "run", pc' \in {"run", "create"},
         NEW ws, Fresh(ws), UNCHANGED <<files, tree>>,
         memtable' = Overwrite(memtable, ws), tried' = Applied(acked, ws),
         wal'.recs \in {wal.recs, wal.recs \cup ws}, Stored' \subseteq Stored \cup memtable',
         \/ mapping \in {"ok", "dangling"} /\ mapping' \in {"ok", "dangling"}
         \/ mapping = "kept" /\ mapping' = "kept",
         other' \in {other, {Applied(m, ws) : m \in other}} \/ other = {}
  PROVE  Living'
<1>1. PICK V \in SUBSET Version : Stale(V, now) /\ Young \subseteq V /\ Stored \subseteq V
  BY Past DEF Stored
<1>2. /\ \A v \in V : v.ts \in Nat /\ v.ts <= now
      /\ \A w \in ws : /\ w.ts \in Nat \ {0} /\ w.key \in Keys /\ w.ts > now
                       /\ w = [key |-> w.key, ts |-> w.ts, tombstone |-> w.tombstone]
                       /\ \A v \in ws : v.key = w.key => v = w
      /\ now \in Nat
  BY <1>1 DEF Stale, Version, Fresh, Held
<1>3. /\ memtable' \subseteq V \cup ws /\ wal'.recs \subseteq V \cup ws
      /\ Stored' \subseteq V \cup ws
  BY <1>1 DEF Overwrite, Young
<1>4. Owed' = Applied(Owed, ws) /\ Running
  BY DEF Owed, Fate, Running
<1>5. Staying' = Staying
  BY DEF Staying
\* A pair of this write.
<1>6. ASSUME NEW w \in ws, ~w.tombstone, NEW p, p = [key |-> w.key, ts |-> w.ts]
      PROVE  p \in Pair /\ Latest(p)' /\ Kept(p)'
  <2>1. NoneNewer(p, V \cup ws)
    BY <1>2, <1>6 DEF NoneNewer
  <2>2. \A vs : vs \subseteq V \cup ws => NoneNewer(p, vs)
    BY <2>1 DEF NoneNewer
  <2>3. Latest(p)'
    BY <1>3, <2>2 DEF Latest
  <2>4. w.tombstone = FALSE /\ w \in memtable'
    BY <1>1, <1>6 DEF Overwrite, Fresh, Version
  <2>5. VersionOf(p) = w
    BY <1>2, <1>6, <2>4 DEF VersionOf
  <2> QED BY <1>2, <1>6, <2>3, <2>4, <2>5 DEF Pair, Kept
\* A pair of earlier.
<1>7. ASSUME NEW p, Latest(p), Kept(p), \A w \in ws : w.key # p.key
      PROVE  Latest(p)' /\ Kept(p)'
  <2>1. \A vs : NoneNewer(p, vs) => NoneNewer(p, vs \cup ws)
    BY <1>7 DEF NoneNewer
  <2>2. \A vs, us : NoneNewer(p, vs) /\ us \subseteq vs => NoneNewer(p, us)
    BY DEF NoneNewer
  <2>3. NoneNewer(p, memtable') /\ NoneNewer(p, Stored')
    <3>1. NoneNewer(p, memtable) /\ NoneNewer(p, Stored)
      BY <1>7 DEF Latest
    <3>2. NoneNewer(p, memtable')
      <4>1. NoneNewer(p, memtable \cup ws) /\ memtable' \subseteq memtable \cup ws
        BY <2>1, <3>1 DEF Overwrite
      <4> QED BY <2>2, <4>1
    <3>3. NoneNewer(p, Stored \cup memtable')
      BY <3>1, <3>2 DEF NoneNewer
    <3> QED BY <2>2, <3>2, <3>3
  <2>4. ASSUME \A m \in other' : p \in m PROVE NoneNewer(p, wal'.recs)
    <3>1. \A m \in other : p \in Applied(m, ws) => p \in m
      BY <1>7 DEF Applied
    <3>2. \A m \in other : p \in m
      BY <2>4, <3>1
    <3>3. NoneNewer(p, wal.recs)
      BY <1>7, <3>2 DEF Latest
    <3> QED BY <2>1, <3>3
  <2>5. mapping' # "kept" => VersionOf(p) \in memtable' \cup EntriesOf(Staying')
    <3> SUFFICES ASSUME mapping' # "kept"
                 PROVE  VersionOf(p) \in memtable' \cup EntriesOf(Staying')
      OBVIOUS
    <3>1. VersionOf(p) \in memtable \cup EntriesOf(Staying) /\ VersionOf(p).key = p.key
      BY <1>7 DEF Kept, VersionOf
    <3> QED BY <1>5, <1>7, <3>1 DEF Overwrite
  <2> QED BY <2>3, <2>4, <2>5 DEF Latest, Kept
<1> SUFFICES ASSUME "skip" \notin hit, NEW p \in Applied(Owed, ws)
             PROVE  p \in Pair /\ Latest(p)' /\ Kept(p)' /\ Copied(p)'
  BY <1>4 DEF Living
<1>8. Copied(p)'
  BY DEF Copied
<1>9. CASE \E w \in ws : ~w.tombstone /\ p = [key |-> w.key, ts |-> w.ts]
  BY <1>6, <1>8, <1>9
<1>10. CASE p \in Owed /\ \A w \in ws : w.key # p.key
  <2>1. p \in Pair /\ Latest(p) /\ Kept(p)
    BY <1>4, <1>10 DEF Living
  <2> QED BY <1>7, <1>8, <1>10, <2>1
<1> QED BY <1>9, <1>10 DEF Applied

\* The map of a tree that Open has just built.
LEMMA LivingOpens ==
  ASSUME Held, Fate, pc = "load", pc' = "run", UNCHANGED <<memtable, wal, mapping>>,
         tried' = MapOf(memtable, tree'), Books(tree'), target' = tree',
         FilesOf(tree') = files'
  PROVE  Living'
<1>1. wal'.recs = {} /\ mapping' \in {"ok", "dangling"}
  BY DEF Fate, Running
<1>2. \A f \in files' : f.id < tree'.nextID
  BY BookedFiles
<1>3. Staying' = files' /\ Stored' = EntriesOf(files') /\ Owed' = tried'
  BY <1>2 DEF Staying, Stored, Owed
<1>4. HeldBy(memtable, tree') = memtable \cup EntriesOf(files')
  BY HeldFiles
<1>5. memtable \cup EntriesOf(files') \subseteq Version
  BY BookedFiles DEF Held, EntriesOf, File
<1> SUFFICES ASSUME NEW p \in tried'
             PROVE  p \in Pair /\ Latest(p)' /\ Kept(p)' /\ Copied(p)'
  BY <1>3 DEF Living
<1>6. PICK v \in memtable \cup EntriesOf(files') :
        /\ \A w \in memtable \cup EntriesOf(files') : w.key = v.key => w.ts <= v.ts
        /\ ~v.tombstone /\ p = [key |-> v.key, ts |-> v.ts]
  BY <1>4 DEF MapOf, LiveOf, Newest
<1>7. p \in Pair /\ VersionOf(p) = v
  BY <1>5, <1>6 DEF Pair, VersionOf, Version
<1>8. Latest(p)'
  BY <1>1, <1>3, <1>6 DEF Latest, NoneNewer
<1>9. Kept(p)' /\ Copied(p)'
  BY <1>1, <1>3, <1>6, <1>7 DEF Kept, Copied
<1> QED BY <1>7, <1>8, <1>9

LEMMA SkippedNumber ==
  ASSUME Held, Ranked, pc \in {"create", "reset", "install"}, Failed
  PROVE  /\ FilesOf(tree') = FilesOf(tree) /\ target' = tree' /\ pc' = "run"
         /\ tree'.nextID = tree.nextID + 1 /\ tree.nextID \in Nat
<1>1. tree = [levels |-> tree.levels, sizes |-> tree.sizes, nextID |-> tree.nextID]
  BY HeldTyped DEF Holds, Sound
<1>2. tree'.levels = tree.levels /\ tree'.nextID = tree.nextID + 1
  BY <1>1 DEF Failed
<1> QED BY <1>2 DEF Failed, FilesOf, Ranked, Numbers

\* Writing new files leaves those of smaller numbers.
LEMMA OlderFiles ==
  ASSUME Ranked, Present, pc \in {"create", "outputs"},
         NEW out \in SUBSET (FilesOf(target) \ FilesOf(tree))
  PROVE  /\ {f \in files : f.id < tree.nextID} \subseteq Written(files, out)
         /\ EntriesOf(Written(files, out)) \subseteq Stored
<1>1. /\ tree.nextID \in Nat /\ \A f \in files : f.id \in Nat
      /\ \A f \in out : f.id \in Nat /\ f.id >= tree.nextID
  BY StayingFiles DEF Running
<1>2. \A f \in files, g \in out : f.id < tree.nextID => Name(f) # Name(g)
  BY <1>1 DEF Name
<1>3. {f \in files : f.id < tree.nextID} \subseteq Written(files, out)
  BY <1>2 DEF Written, Names
<1>4. Written(files, out) \subseteq files \cup FilesOf(target)
  BY DEF Written
<1> QED BY <1>3, <1>4 DEF Stored, EntriesOf

\* A compaction that begins takes over the newest version of every key.
LEMMA Copying ==
  ASSUME EmptyKey \notin Keys, Books(tree'), files' = files, tree' \in {tree, target},
         \/ target' = CompactL0ToL1(tree')
         \/ \E l \in Level : target' = CompactLevel(tree', l)
  PROVE  /\ \A p \in Pair : Latest(p)' => Copied(p)'
         /\ Stored' \subseteq Stored
<1>1. Lossless(tree', target')
  BY L0Lossless, LevelLossless DEF Books
<1>2. /\ HeldBy({}, tree') = EntriesOf(FilesOf(tree'))
      /\ HeldBy({}, target') = EntriesOf(FilesOf(target'))
  BY HeldFiles
<1>3. EntriesOf(FilesOf(target')) \subseteq EntriesOf(FilesOf(tree'))
  BY <1>1, <1>2 DEF Lossless
<1>4. Stored' \subseteq Stored
  BY <1>3 DEF Stored
<1>5. ASSUME NEW p \in Pair, Latest(p)' PROVE Copied(p)'
  <2> DEFINE v == VersionOf(p)
  <2>1. SUFFICES ASSUME v \in EntriesOf(FilesOf(tree')) PROVE v \in EntriesOf(FilesOf(target'))
    BY DEF Copied
  <2>2. v.key = p.key /\ v.ts = p.ts /\ ~v.tombstone /\ v.key # EmptyKey
    BY <1>5 DEF VersionOf, Pair
  <2>3. NoneNewer(p, EntriesOf(FilesOf(tree')))
    BY <1>5 DEF Latest, Stored, NoneNewer
  <2> HIDE DEF v
  <2>4. v \in Newest(HeldBy({}, tree'))
    BY <1>2, <2>1, <2>2, <2>3 DEF Newest, NoneNewer
  <2> QED BY <1>1, <1>2, <2>2, <2>4 DEF Lossless
<1> QED BY <1>4, <1>5

LEMMA LivingFlush ==
  ASSUME EmptyKey \notin Keys, Held, Control, Fate, Ranked, Present, Living, hit \subseteq hit',
         \/ (FlushCreate \/ FlushInstall) /\ UNCHANGED faultVars
         \/ FlushReset /\ Forgetting
         \/ FlushCreateFails \/ FlushResetFails \/ FlushOpenFails \/ FlushManifestFails
  PROVE  Living'
<1>1. /\ tree.nextID \in Nat /\ \A f \in files : f.id \in Nat
      /\ pc \in {"create", "reset", "install"} =>
           /\ Running /\ target.nextID = tree.nextID + 1
           /\ FilesOf(tree) \subseteq FilesOf(target)
           /\ \A f \in FilesOf(target) \ FilesOf(tree) : f.id >= tree.nextID
           /\ mapping \in {"ok", "kept"}
  <2>1. tree.nextID \in Nat /\ \A f \in files : f.id \in Nat
    BY DEF Ranked, Numbers, File
  <2>2. ASSUME pc \in {"create", "reset", "install"}
        PROVE  /\ Running /\ target.nextID = tree.nextID + 1
               /\ FilesOf(tree) \subseteq FilesOf(target)
               /\ \A f \in FilesOf(target) \ FilesOf(tree) : f.id >= tree.nextID
               /\ mapping \in {"ok", "kept"}
    <3>1. Running /\ mapping \in {"ok", "kept"} /\ Books(tree)
      BY <2>2 DEF Running, Fate, Ranked, Treed
    <3>2. PICK m : target = AddToL0(tree, m)
      BY <2>2 DEF Control, Flushing, FlushOf
    <3>3. target.nextID = tree.nextID + 1 /\ FilesOf(tree) \subseteq FilesOf(target)
      BY <3>1, <3>2, AddFiles DEF AddToL0
    <3> QED BY <2>2, <3>1, <3>3, StayingFiles
  <2> QED BY <2>1, <2>2
<1>2. ASSUME pc \in {"create", "install"}, UNCHANGED <<memtable, wal, mapping, other, tried>>,
             pc' # "stuck", Stored' \subseteq Stored, Staying \subseteq Staying',
             \A p \in Pair : Latest(p)' => Copied(p)'
      PROVE  Living'
  BY <1>1, <1>2, LivingSteady
<1>3. CASE FlushCreate /\ UNCHANGED faultVars
  <2>1. /\ pc = "create" /\ pc' = "reset" /\ UNCHANGED <<memtable, wal, tried, tree, target>>
        /\ files' = Written(files, FilesOf(target) \ FilesOf(tree))
        /\ UNCHANGED <<mapping, other>>
    BY <1>3 DEF FlushCreate, faultVars
  <2>2. /\ {f \in files : f.id < tree.nextID} \subseteq files'
        /\ EntriesOf(files') \subseteq Stored
    BY <2>1, OlderFiles
  <2>3. Stored' \subseteq Stored
    BY <2>1, <2>2 DEF Stored
  <2>4. Staying \subseteq Staying'
    BY <2>1, <2>2 DEF Staying
  <2>5. \A p \in Pair : Copied(p)'
    BY <2>1 DEF Copied
  <2> QED BY <1>2, <2>1, <2>3, <2>4, <2>5
\* The memtable is in the new file.
<1>4. CASE FlushReset /\ Forgetting
  <2>1. /\ pc = "reset" /\ pc' = "install" /\ memtable' = {} /\ wal'.recs = {}
        /\ UNCHANGED <<files, tree, target, tried, mapping>>
    BY <1>4 DEF FlushReset, EmptyLog, Forgetting
  <2>2. target = AddToL0(tree, memtable) /\ Books(tree)
    BY <1>1, <2>1 DEF Control, Ranked, Treed
  <2>3. memtable \subseteq EntriesOf(FilesOf(target))
    <3>1. 0 \in Level
      BY ShapeAssumption DEF Level
    <3>2. [id |-> tree.nextID, ents |-> memtable] \in target.levels[0]
      BY <2>2, <3>1 DEF AddToL0, Books, Shape
    <3>3. \E f \in FilesOf(target) : f.ents = memtable
      BY <3>1, <3>2, TableFiles
    <3> QED BY <3>3 DEF EntriesOf
  <2>4. Staying \subseteq Staying' /\ FilesOf(target) \subseteq Staying'
    BY <1>1, <2>1 DEF Staying
  <2>5. memtable \cup EntriesOf(Staying) \subseteq EntriesOf(Staying')
    BY <2>3, <2>4 DEF EntriesOf
  <2>6. \A p \in Pair : Kept(p) => Kept(p)' /\ Copied(p)'
    BY <1>1, <2>1, <2>5 DEF Kept, Copied
  <2>7. Owed' = Owed /\ Stored' = Stored
    BY <2>1 DEF Owed, Stored
  <2> QED BY <1>1, <2>1, <2>6, <2>7, LivingSame
<1>5. CASE FlushInstall /\ UNCHANGED faultVars
  <2>1. /\ pc = "install" /\ UNCHANGED <<files, memtable, wal, tried, mapping, other>>
        /\ tree' = target
        /\ \/ pc' = "run" /\ target' = target
           \/ pc' = "outputs" /\ target' = CompactL0ToL1(target)
    BY <1>5 DEF FlushInstall, faultVars, WriterCompaction
  <2>2. Staying \subseteq Staying'
    <3>1. Staying \subseteq {f \in files : f.id < target.nextID}
      BY <1>1, <2>1, StayingFiles
    <3> QED BY <2>1, <3>1 DEF Staying
  <2>3. CASE pc' = "run" /\ target' = target
    <3>1. Stored' \subseteq Stored /\ \A p \in Pair : Copied(p)'
      BY <2>1, <2>3 DEF Stored, Copied
    <3> QED BY <1>2, <2>1, <2>2, <2>3, <3>1
  <2>4. CASE pc' = "outputs" /\ target' = CompactL0ToL1(target)
    <3>1. Books(target)
      BY <1>1, <2>1 DEF Ranked, Treed, Successor
    <3>2. Stored' \subseteq Stored /\ \A p \in Pair : Latest(p)' => Copied(p)'
      BY <2>1, <2>4, <3>1, Copying
    <3> QED BY <1>2, <2>1, <2>2, <2>4, <3>2
  <2> QED BY <2>1, <2>3, <2>4
<1>6. ASSUME pc \in {"create", "reset", "install"}, Failed,
             \/ files' = files
             \/ pc = "reset" /\ files' = files \ (FilesOf(target) \ FilesOf(tree))
      PROVE  /\ Stored' \subseteq Stored /\ Staying \subseteq Staying' /\ tried' = tried
             /\ pc' = "run" /\ \A p \in Pair : Copied(p)'
  <2>1. /\ FilesOf(tree') = FilesOf(tree) /\ target' = tree' /\ pc' = "run"
        /\ tree'.nextID = tree.nextID + 1 /\ tried' = tried
    BY <1>6, SkippedNumber DEF Failed
  <2>2. Stored' \subseteq Stored
    BY <1>6, <2>1 DEF Stored, EntriesOf
  <2>3. Staying' = {f \in files' : f.id < tree.nextID + 1}
    BY <2>1 DEF Staying
  <2>4. Staying \subseteq {f \in files : f.id < tree.nextID + 1}
    <3>1. CASE pc = "install"
      BY <1>1, <1>6, <3>1, StayingFiles
    <3>2. CASE pc # "install"
      BY <1>1, <1>6, <3>2 DEF Staying
    <3> QED BY <3>1, <3>2
  <2>5. Staying \subseteq files'
    <3>1. CASE files' = files
      BY <2>4, <3>1
    <3>2. CASE pc = "reset" /\ files' = files \ (FilesOf(target) \ FilesOf(tree))
      <4>1. \A f \in Staying : f \in files /\ f.id < tree.nextID
        BY <3>2 DEF Staying
      <4> QED BY <1>1, <3>2, <4>1
    <3> QED BY <1>6, <3>1, <3>2
  <2> QED BY <2>1, <2>2, <2>3, <2>4, <2>5 DEF Copied
<1>7. CASE FlushCreateFails \/ FlushOpenFails
  <2>1. /\ pc \in {"create", "install"} /\ Failed
        /\ UNCHANGED <<files, memtable, wal, mapping, other>>
    BY <1>7 DEF FlushCreateFails, FlushOpenFails, disk
  <2> QED BY <1>2, <1>6, <2>1
<1>8. CASE FlushManifestFails
  <2>1. /\ pc = "install" /\ pc' = "run" /\ tree' = target
        /\ UNCHANGED <<files, memtable, wal, mapping, other, tried, target>>
    BY <1>8 DEF FlushManifestFails, disk
  <2>2. Staying \subseteq Staying'
    <3>1. Staying \subseteq {f \in files : f.id < target.nextID}
      BY <1>1, <2>1, StayingFiles
    <3> QED BY <2>1, <3>1 DEF Staying
  <2>3. Stored' \subseteq Stored /\ \A p \in Pair : Copied(p)'
    BY <2>1 DEF Stored, Copied
  <2> QED BY <1>2, <2>1, <2>2, <2>3
\* The log still has what the memtable had, or has been truncated.
<1>9. CASE FlushResetFails
  <2>1. /\ pc = "reset" /\ Failed /\ memtable' = {} /\ other' = other
        /\ files' = files \ (FilesOf(target) \ FilesOf(tree))
        /\ \/ "reset" \in hit' /\ Unlogged = {} /\ wal' = wal
           \/ "cut" \in hit' /\ wal'.recs \in {{}, wal.recs}
        /\ mapping' \in {"nil", "kept"}
    BY <1>9 DEF FlushResetFails, Fault
  <2>2. /\ Stored' \subseteq Stored /\ Staying \subseteq Staying' /\ tried' = tried
        /\ pc' = "run" /\ \A p \in Pair : Copied(p)'
    BY <1>6, <2>1
  <2>3. Owed' = Owed
    BY <2>1, <2>2 DEF Owed
  <2>4. EntriesOf(Staying) \subseteq EntriesOf(Staying')
    BY <2>2, MoreEntries
  <2>5. ASSUME NEW p \in Pair, Kept(p) PROVE Kept(p)'
    <3>1. CASE "cut" \in hit'
      BY <2>1, <3>1 DEF Kept
    <3>2. CASE "cut" \notin hit'
      <4>1. mapping = "ok"
        BY <1>1, <2>1, <3>2 DEF Fate
      <4>2. VersionOf(p) \in memtable \cup EntriesOf(Staying)
        BY <2>5, <4>1 DEF Kept
      <4>3. memtable \subseteq wal.recs
        BY <2>1, <3>2 DEF Unlogged
      <4> QED BY <2>1, <2>4, <3>2, <4>2, <4>3 DEF Kept
    <3> QED BY <3>1, <3>2
  <2> QED BY <1>1, <2>1, <2>2, <2>3, <2>5, LivingSame
<1> QED BY <1>3, <1>4, <1>5, <1>7, <1>8, <1>9

LEMMA LivingCompact ==
  ASSUME EmptyKey \notin Keys, Held, Control, Fate, Ranked, Present, Living, hit \subseteq hit',
         \/ /\ \/ CompactOutputs \/ CompactRemove \/ CompactInstall
               \/ CompactorReceive \/ CompactorLock \/ CompactorLevel \/ CompactorUnlock
            /\ UNCHANGED faultVars
         \/ CompactFails \/ CompactOpenFails \/ CompactManifestFails
  PROVE  Living'
<1>1. Running => /\ Treed /\ tree.nextID \in Nat /\ \A f \in files : f.id \in Nat
                 /\ pc \in {"install", "remove"} =>
                      Staying \subseteq {f \in files : f.id < target.nextID}
  BY StayingFiles DEF Ranked
\* The inputs have been copied.
<1>2. CASE CompactOutputs /\ UNCHANGED faultVars
  <2>1. /\ pc = "outputs" /\ pc' = "remove" /\ Running
        /\ UNCHANGED <<memtable, wal, tried, tree, target, mapping, other>>
        /\ files' = Written(files, FilesOf(target) \ FilesOf(tree))
    BY <1>2 DEF CompactOutputs, faultVars, Running
  <2>2. /\ {f \in files : f.id < tree.nextID} \subseteq files'
        /\ EntriesOf(files') \subseteq Stored
    BY <2>1, OlderFiles
  <2>3. Stored' \subseteq Stored
    BY <2>1, <2>2 DEF Stored
  <2>4. Staying \ FilesOf(tree) \subseteq Staying' /\ FilesOf(target) \subseteq Staying'
    BY <2>1, <2>2 DEF Staying
  <2>5. ASSUME NEW p \in Pair, Kept(p), Copied(p) PROVE Kept(p)' /\ Copied(p)'
    <3>1. ASSUME VersionOf(p) \in EntriesOf(Staying) PROVE VersionOf(p) \in EntriesOf(Staying')
      <4>1. PICK f \in Staying : VersionOf(p) \in f.ents
        BY <3>1 DEF EntriesOf
      <4>2. CASE f \in FilesOf(tree)
        <5>1. VersionOf(p) \in EntriesOf(FilesOf(target))
          BY <2>1, <2>5, <4>1, <4>2 DEF Copied, EntriesOf
        <5> QED BY <2>4, <5>1, MoreEntries
      <4>3. CASE f \notin FilesOf(tree)
        BY <2>4, <4>1, <4>3 DEF EntriesOf
      <4> QED BY <4>2, <4>3
    <3>2. Kept(p)'
      BY <2>1, <2>5, <3>1 DEF Kept
    <3> QED BY <2>1, <2>5, <3>2 DEF Copied
  <2>6. Owed' = Owed
    BY <2>1 DEF Owed
  <2> QED BY <2>1, <2>3, <2>5, <2>6, LivingSame
<1>3. ASSUME Running, UNCHANGED <<memtable, wal, mapping, other, tried>>,
             (pc # "stuck" /\ pc' # "stuck") \/ UNCHANGED <<pc, acked>>,
             Stored' \subseteq Stored, Staying \subseteq Staying',
             \A p \in Pair : Latest(p)' /\ Copied(p) => Copied(p)'
      PROVE  Living'
  BY <1>3, LivingSteady
\* Only inputs are removed.
<1>4. CASE CompactRemove /\ UNCHANGED faultVars
  <2>1. /\ pc = "remove" /\ Running
        /\ UNCHANGED <<pc, memtable, wal, tried, tree, target, mapping, other>>
        /\ files' \subseteq files /\ files \ Inputs \subseteq files'
    BY <1>4 DEF CompactRemove, faultVars, Running, memory
  <2>2. Stored' \subseteq Stored
    BY <2>1 DEF Stored, EntriesOf
  <2>3. Staying \subseteq Staying'
    BY <2>1 DEF Staying, Inputs
  <2>4. \A p \in Pair : Copied(p) => Copied(p)'
    BY <2>1 DEF Copied
  <2> QED BY <1>3, <2>1, <2>2, <2>3, <2>4
\* What is there is installed.
<1>5. ASSUME pc = "remove", UNCHANGED <<files, memtable, wal, mapping, other, tried>>,
             pc' \in {"run", "level"}, tree'.nextID = target.nextID,
             FilesOf(tree') \subseteq FilesOf(target), target' \in {target, tree'}
      PROVE  Living'
  <2>1. Stored' \subseteq Stored
    BY <1>5 DEF Stored, EntriesOf
  <2>2. Staying \subseteq Staying'
    BY <1>1, <1>5 DEF Staying, Running
  <2>3. \A p \in Pair : Copied(p)'
    BY <1>5 DEF Copied
  <2> QED BY <1>3, <1>5, <2>1, <2>2, <2>3 DEF Running
<1>6. CASE (CompactInstall /\ UNCHANGED faultVars) \/ CompactManifestFails
  <2>1. /\ pc = "remove" /\ UNCHANGED <<files, memtable, wal, mapping, other, tried>>
        /\ pc' \in {"run", "level"} /\ tree' = target /\ target' = target
    BY <1>6 DEF CompactInstall, CompactManifestFails, CompactReturns, faultVars
  <2> QED BY <1>5, <2>1
<1>7. CASE CompactOpenFails
  <2>1. /\ pc = "remove" /\ UNCHANGED <<files, memtable, wal, mapping, other, tried>>
        /\ pc' \in {"run", "level"} /\ target' = tree'
    BY <1>7 DEF CompactOpenFails, CompactReturns
  <2>2. tree'.nextID = target.nextID /\ FilesOf(tree') \subseteq FilesOf(target)
    BY <1>7, MissingFiles
  <2> QED BY <1>5, <2>1, <2>2
<1>8. CASE CompactFails
  <2>1. PICK out \in SUBSET (FilesOf(target) \ FilesOf(tree)) : files' = Written(files, out)
    <3>1. PICK n : files' = Written(files, {f \in Outputs : f.id < tree.nextID + n})
      BY <1>8 DEF CompactFails
    <3> QED BY <3>1 DEF Outputs
  <2>2. /\ pc = "outputs" /\ Running /\ pc' \in {"run", "level"} /\ tree' = tree /\ target' = tree
        /\ UNCHANGED <<memtable, wal, mapping, other, tried>>
    BY <1>8 DEF CompactFails, CompactReturns, Running
  <2>3. /\ {f \in files : f.id < tree.nextID} \subseteq files'
        /\ EntriesOf(files') \subseteq Stored
    BY <2>1, <2>2, OlderFiles
  <2>4. Stored' \subseteq Stored
    BY <2>2, <2>3 DEF Stored
  <2>5. Staying \subseteq Staying'
    BY <2>2, <2>3 DEF Staying
  <2>6. \A p \in Pair : Copied(p)'
    BY <2>2 DEF Copied
  <2> QED BY <1>3, <2>2, <2>4, <2>5, <2>6
<1>9. CASE (CompactorReceive \/ CompactorUnlock) /\ UNCHANGED faultVars
  <2>1. /\ Running /\ UNCHANGED <<files, tree, target, memtable, wal, mapping, other, tried, acked>>
        /\ pc' = pc \/ (pc = "level" /\ pc' = "run")
    BY <1>9 DEF CompactorReceive, CompactorUnlock, disk, faultVars, Running
  <2>2. Stored' = Stored /\ Staying' = Staying
    BY <2>1 DEF Stored, Staying
  <2>3. \A p \in Pair : Copied(p) => Copied(p)'
    BY <2>1 DEF Copied
  <2> QED BY <1>3, <2>1, <2>2, <2>3
\* A compaction begins.
<1>10. CASE (CompactorLock \/ CompactorLevel) /\ UNCHANGED faultVars
  <2>1. /\ Running /\ UNCHANGED <<files, tree, memtable, wal, mapping, other, tried>>
        /\ pc \in {"run", "level"} /\ pc' \in {"level", "outputs"}
        /\ pc' = "level" => target' = target
    BY <1>10 DEF CompactorLock, CompactorLevel, Turn, disk, faultVars, Running
  <2>2. Staying' = Staying
    BY <2>1 DEF Staying
  <2>3. CASE pc' = "level"
    <3>1. Stored' = Stored /\ \A p \in Pair : Copied(p)'
      BY <2>1, <2>3 DEF Stored, Copied
    <3> QED BY <1>3, <2>1, <2>2, <3>1
  <2>4. CASE pc' = "outputs"
    <3>1. level \in Level \/ CompactorLock
      BY <1>10, ShapeAssumption DEF CompactorLevel, Control, Level
    <3>2. target' = CompactL0ToL1(tree) \/ \E l \in Level : target' = CompactLevel(tree, l)
      BY <1>10, <2>4, <3>1 DEF CompactorLock, CompactorLevel, Turn
    <3>3. Books(tree)
      BY <1>1, <2>1 DEF Treed
    <3>4. Stored' \subseteq Stored /\ \A p \in Pair : Latest(p)' => Copied(p)'
      BY <2>1, <3>2, <3>3, Copying
    <3> QED BY <1>3, <2>1, <2>2, <2>4, <3>4
  <2> QED BY <2>1, <2>3, <2>4
<1> QED BY <1>2, <1>4, <1>6, <1>7, <1>8, <1>9, <1>10

LEMMA LivingWrites ==
  ASSUME Held, Control, Fate, Ranked, Living, hit \subseteq hit',
         \/ \E kvs \in Batches : \/ PutBatch(kvs) /\ Writing(Stamped(kvs, now))
                                 \/ PutBatchFails(kvs) \/ AppendForever(Stamped(kvs, now))
         \/ \E k \in Keys : \/ Delete(k) /\ Writing(Tombstone(k))
                            \/ DeleteFails(k) \/ AppendForever(Tombstone(k))
  PROVE  Living'
<1>1. /\ \A kvs \in Batches : now' = now + Len(kvs) => Fresh(Stamped(kvs, now))
      /\ \A k \in Keys : now' = now + 1 => Fresh(Tombstone(k))
  BY WritesAreVersions DEF Held
<1>2. \A ws : wal' \in {wal, [wal EXCEPT !.recs = @ \cup ws]} =>
                wal'.recs \in {wal.recs, wal.recs \cup ws}
  BY DEF Held
<1>3. ASSUME NEW kvs \in Batches, PutBatch(kvs), Writing(Stamped(kvs, now)) PROVE Living'
  <2> DEFINE ws == Stamped(kvs, now)
  <2>1. /\ pc = "run" /\ now' = now + Len(kvs) /\ UNCHANGED <<files, tree>>
        /\ memtable' = Overwrite(memtable, ws) /\ tried' = Applied(acked, ws)
        /\ wal' \in {wal, [wal EXCEPT !.recs = @ \cup ws]}
        /\ \/ pc' = "run" /\ target' = target
           \/ pc' = "create" /\ target' = AddToL0(tree, memtable')
    BY <1>3 DEF PutBatch, Write
  <2>2. /\ mapping \in {"ok", "kept"} /\ mapping' = mapping
        /\ other' = {Applied(m, ws) : m \in other}
    BY <1>3 DEF Writing
  <2> HIDE DEF ws
  <2>3. Fresh(ws)
    BY <1>1, <2>1 DEF ws
  <2>4. Stored' \subseteq Stored \cup memtable'
    <3>1. CASE target' = target
      BY <2>1, <3>1 DEF Stored
    <3>2. CASE target' = AddToL0(tree, memtable')
      <4>1. Books(tree)
        BY <2>1 DEF Ranked, Treed, Running
      <4>2. EntriesOf(FilesOf(target')) \subseteq EntriesOf(FilesOf(tree)) \cup memtable'
        BY <3>2, <4>1, AddedEntries
      <4> QED BY <2>1, <4>2 DEF Stored
    <3> QED BY <2>1, <3>1, <3>2
  <2>5. wal'.recs \in {wal.recs, wal.recs \cup ws}
    BY <1>2, <2>1
  <2> QED BY <2>1, <2>2, <2>3, <2>4, <2>5, LivingWrite
<1>4. ASSUME NEW k \in Keys, Delete(k), Writing(Tombstone(k)) PROVE Living'
  <2> DEFINE ws == Tombstone(k)
  <2>1. /\ pc = "run" /\ pc' = "run" /\ now' = now + 1 /\ UNCHANGED <<files, tree, target>>
        /\ memtable' = Overwrite(memtable, ws) /\ tried' = Applied(acked, ws)
        /\ wal' \in {wal, [wal EXCEPT !.recs = @ \cup ws]}
    BY <1>4 DEF Delete, Write, Tombstone
  <2>2. /\ mapping \in {"ok", "kept"} /\ mapping' = mapping
        /\ other' = {Applied(m, ws) : m \in other}
    BY <1>4 DEF Writing
  <2> HIDE DEF ws
  <2>3. Fresh(ws)
    BY <1>1, <2>1 DEF ws
  <2>4. Stored' \subseteq Stored \cup memtable'
    BY <2>1 DEF Stored
  <2>5. wal'.recs \in {wal.recs, wal.recs \cup ws}
    BY <1>2, <2>1
  <2> QED BY <2>1, <2>2, <2>3, <2>4, <2>5, LivingWrite
\* Appends that fail.
<1>5. ASSUME AppendFails PROVE (mapping = "ok" /\ other = {}) \/ mapping = "dangling"
  BY <1>5, OneFault DEF AppendFails
<1>6. ASSUME NEW kvs \in Batches, PutBatchFails(kvs) PROVE Living'
  <2> DEFINE ws == Stamped(kvs, now)
  <2>1. /\ pc = "run" /\ pc' = "run" /\ now' = now + Len(kvs)
        /\ UNCHANGED <<files, tree, target>>
        /\ memtable' = Overwrite(memtable, ws) /\ tried' = Applied(acked, ws)
        /\ wal' \in {wal, [wal EXCEPT !.recs = @ \cup ws]}
    BY <1>6 DEF PutBatchFails
  <2>2. /\ mapping \in {"ok", "dangling"} /\ mapping' \in {"ok", "dangling"}
        /\ other' \in {other, {Applied(m, ws) : m \in other}} \/ other = {}
    <3>1. CASE AppendFails /\ OneWithout
      <4>1. mapping \in {"ok", "dangling"} /\ mapping' \in {"ok", "dangling"}
        BY <3>1 DEF AppendFails
      <4>2. mapping = "dangling" => other' = other
        BY <3>1 DEF OneWithout
      <4> QED BY <1>5, <3>1, <4>1, <4>2
    <3>2. CASE /\ mapping = "ok" /\ mapping' = mapping
               /\ other' = {Applied(m, ws) : m \in other}
      BY <3>2
    <3> QED BY <1>6, <3>1, <3>2 DEF PutBatchFails
  <2> HIDE DEF ws
  <2>3. Fresh(ws)
    BY <1>1, <2>1 DEF ws
  <2>4. Stored' \subseteq Stored \cup memtable'
    BY <2>1 DEF Stored
  <2>5. wal'.recs \in {wal.recs, wal.recs \cup ws}
    BY <1>2, <2>1
  <2> QED BY <2>1, <2>2, <2>3, <2>4, <2>5, LivingWrite
\* Neither memtable nor files have changed.
<1>7. ASSUME NEW k \in Keys, DeleteFails(k) PROVE Living'
  <2> DEFINE ws == Tombstone(k)
  <2>1. /\ pc = "run" /\ pc' = "run" /\ Running /\ UNCHANGED <<files, tree, target, memtable, tried>>
        /\ wal' \in {wal, [wal EXCEPT !.recs = @ \cup ws]}
    BY <1>7 DEF DeleteFails, memory, Running
  <2>2. /\ mapping \in {"ok", "dangling"} /\ mapping' \in {"ok", "dangling"}
        /\ \/ wal' = wal /\ (other' = other \/ other = {})
           \/ other' = {Applied(acked, ws)} /\ other = {}
    <3>1. CASE AppendFails /\ UNCHANGED wal
                /\ other' = IF Unlogged = {} \/ mapping = "dangling" THEN other ELSE {}
      BY <1>5, <3>1 DEF AppendFails
    <3>2. CASE /\ Fault("sync") /\ mapping = "ok" /\ mapping' = mapping
               /\ wal' = IF deaf THEN wal ELSE [wal EXCEPT !.recs = @ \cup ws]
               /\ other' = IF deaf THEN other ELSE {Applied(acked, ws)}
      BY <3>2, OneFault
    <3> QED BY <1>7, <3>1, <3>2 DEF DeleteFails
  <2>3. Stored' = Stored /\ Staying' = Staying /\ Owed' = Owed /\ acked = tried
    BY <2>1 DEF Stored, Staying, Owed, Fate
  <2>4. wal'.recs \in {wal.recs, wal.recs \cup ws}
    BY <1>2, <2>1
  <2>5. ASSUME NEW p \in tried, Latest(p) PROVE Latest(p)'
    <3>1. NoneNewer(p, memtable) /\ NoneNewer(p, Stored)
      BY <2>1, <2>5 DEF Latest
    <3>2. ASSUME \A m \in other' : p \in m PROVE NoneNewer(p, wal'.recs)
      <4>1. CASE wal' = wal /\ (other' = other \/ other = {})
        BY <2>5, <3>2, <4>1 DEF Latest
      <4>2. CASE other' = {Applied(acked, ws)} /\ other = {}
        <5>1. NoneNewer(p, wal.recs)
          BY <2>5, <4>2 DEF Latest
        <5>2. p \in Applied(acked, ws)
          BY <3>2, <4>2
        <5>3. \A w \in ws : w.key # p.key
          BY <5>2 DEF Applied, Tombstone
        <5> HIDE DEF ws
        <5> QED BY <2>4, <5>1, <5>3 DEF NoneNewer
      <4> QED BY <2>2, <4>1, <4>2
    <3> QED BY <2>1, <2>3, <3>1, <3>2 DEF Latest
  <2>6. \A p : Kept(p) => Kept(p)'
    BY <2>1, <2>2, <2>3 DEF Kept
  <2>7. \A p : Copied(p)'
    BY <2>1 DEF Copied
  <2>8. Owed = tried
    BY <2>1 DEF Owed
  <2> SUFFICES ASSUME "skip" \notin hit, NEW p \in Owed
               PROVE  p \in Pair /\ Latest(p)' /\ Kept(p)' /\ Copied(p)'
    BY <2>3 DEF Living
  <2>9. p \in Pair /\ Latest(p) /\ Kept(p)
    BY <2>1 DEF Living
  <2> QED BY <2>5, <2>6, <2>7, <2>8, <2>9
<1>8. ASSUME NEW ws, AppendForever(ws) PROVE Living'
  <2>1. /\ pc = "run" /\ pc' = "stuck" /\ mapping = "nil" /\ Running
        /\ UNCHANGED <<files, wal, tree, target, acked, hit, mapping, other>>
    BY <1>8 DEF AppendForever, disk, faultVars, Running
  <2>2. Stored' = Stored /\ Staying' = Staying /\ Owed' = Owed
    BY <2>1 DEF Stored, Staying, Owed, Fate
  <2>3. \A p : (Latest(p) => Latest(p)') /\ (Kept(p) => Kept(p)') /\ Copied(p)'
    BY <2>1, <2>2 DEF Latest, Kept, Copied
  <2> QED BY <2>1, <2>2, <2>3 DEF Living, Running
<1> QED BY <1>3, <1>4, <1>6, <1>7, <1>8

LEMMA LivingStep ==
  ASSUME EmptyKey \notin Keys, Held, Control, Fate, Ranked, Present, Single, Living,
         hit \subseteq hit', [FaultNext]_allVars
  PROVE  Living'
<1>1. CASE UNCHANGED allVars
  <2>1. UNCHANGED <<wal, files, memtable, tree, target, pc, tried, acked, hit, mapping, other>>
    BY <1>1 DEF allVars, vars, disk, memory, faultVars
  <2>2. Stored' = Stored /\ Staying' = Staying /\ Owed' = Owed /\ Running' = Running
    BY <2>1 DEF Stored, Staying, Owed, Running
  <2>3. \A p : Latest(p)' = Latest(p) /\ Kept(p)' = Kept(p) /\ Copied(p)' = Copied(p)
    BY <2>1, <2>2 DEF Latest, Kept, Copied
  <2> QED BY <2>1, <2>2, <2>3 DEF Living
<1>2. CASE OpenWal \/ OpenResetFails \/ Kill \/ Close \/ CloseBroken
  <2>1. ~Running'
    BY <1>2 DEF OpenWal, OpenResetFails, Kill, Close, CloseBroken, Gone, Running, memory
  <2> QED BY <2>1 DEF Living
<1>3. CASE OpenLoad /\ UNCHANGED faultVars
  <2>1. /\ pc = "load" /\ pc' = "run" /\ UNCHANGED <<memtable, wal, mapping>>
        /\ tried' = MapOf(memtable, tree') /\ target' = tree'
        /\ files' = Listed /\ tree' = Built(Listed, tree.nextID)
    BY <1>3 DEF OpenLoad, Built, faultVars
  <2>2. Listed \subseteq files /\ \A f \in Listed : Name(f) \in manifest
    BY DEF Listed
  <2>3. Books(tree') /\ FilesOf(tree') = Listed
    BY <2>1, <2>2, Loading DEF Ranked
  <2> QED BY <2>1, <2>3, LivingOpens
<1>4. CASE OpenScan
  <2>1. /\ hit = {} /\ pc = "load" /\ pc' = "run" /\ UNCHANGED <<files, memtable, wal, mapping>>
        /\ tried' = MapOf(memtable, tree') /\ target' = tree'
    BY <1>4, OneFault DEF OpenScan, Loaded
  <2>2. Books(tree') /\ FilesOf(tree') = files
    BY <1>4, <2>1, Scanning
  <2> QED BY <2>1, <2>2, LivingOpens
\* A file that is skipped is beyond what this is about.
<1>5. CASE OpenSkips
  <2>1. "skip" \in hit'
    BY <1>5 DEF OpenSkips, Fault
  <2> QED BY <2>1 DEF Living
<1>6. CASE Well
  BY <1>2, <1>3, <1>6, LivingFlush, LivingCompact, LivingWrites DEF Well
<1>7. CASE Faults
  BY <1>2, <1>4, <1>5, <1>7, LivingFlush, LivingCompact, LivingWrites DEF Faults
<1> QED BY <1>1, <1>6, <1>7 DEF FaultNext
-----------------------------------------------------------------------------
(* The theorems.                                                           *)

IInv ==
  /\ Held /\ Control /\ Fate
  /\ Ranked /\ Present /\ Single
  /\ Quiet => Matched

\* An empty directory satisfies the invariant of all theorems here (Open).
THEOREM InitIInv == FaultInit => IInv
BY HeldInit, ControlInit, FateInit, RankedInit, MatchedInit DEF IInv

\* Without a fault, Open gets on by its own two steps.
LEMMA OpenSteps ==
  ASSUME FaultNext, hit' = hit
  PROVE  /\ pc = "down" /\ pc' = "load" => OpenWal
         /\ pc = "load" /\ pc' = "run" => OpenLoad
<1> SUFFICES ASSUME pc \in {"down", "load"}
             PROVE  /\ pc = "down" /\ pc' = "load" => OpenWal
                    /\ pc = "load" /\ pc' = "run" => OpenLoad
  OBVIOUS
<1>1. Well
  BY WellSteps
<1>2. /\ \A kvs : ~PutBatch(kvs)
      /\ \A k : ~Delete(k)
      /\ ~(FlushReset \/ FlushCreate \/ FlushInstall)
      /\ ~(CompactOutputs \/ CompactRemove \/ CompactInstall)
      /\ ~(CompactorReceive \/ CompactorLock \/ CompactorLevel \/ CompactorUnlock)
  BY DEF PutBatch, Write, Delete, FlushReset, FlushCreate, FlushInstall, CompactOutputs,
         CompactRemove, CompactInstall, CompactorReceive, CompactorLock, CompactorLevel,
         CompactorUnlock
<1>3. OpenWal \/ OpenLoad \/ Kill \/ Close \/ CloseBroken
  BY <1>1, <1>2 DEF Well
<1> QED BY <1>3 DEF OpenWal, OpenLoad, Kill, Close, CloseBroken, Gone

\* Every step of a call, of Open and of a kill keeps it, and every call that fails.
THEOREM StepIInv == IInv /\ [FaultNext]_allVars => IInv'
<1> SUFFICES ASSUME IInv, [FaultNext]_allVars PROVE IInv'
  OBVIOUS
<1>1. Held'
  BY HeldStep DEF IInv, Control
<1>2. Control' /\ Fate'
  BY ControlStep, FateStep DEF IInv
<1>3. Ranked' /\ Present'
  BY RankedStep, PresentStep DEF IInv
<1>4. Quiet' => Matched'
  BY HitGrows, MatchedStep DEF IInv, Quiet, LogKinds
<1>5. Single'
  BY HitGrows, SingleStep, <1>3, <1>4 DEF IInv
<1> QED BY <1>1, <1>2, <1>3, <1>4, <1>5 DEF IInv

\* The inductive invariant.  Memtable, log, files and trees hold versions of one past,
\* and a holder of lsm.mu is about to install what his flush or compaction makes of the
\* tree (flushMemtable, compactLevel).  New files have new numbers, the files of the tree
\* are on the disk, and unless a directory was scanned, newer files are above older ones;
\* and while no fault but the log's has happened there are no other files, but those of
\* the step in progress.
THEOREM IInvAlways == FaultSpec => []IInv
<1>1. IInv /\ [FaultNext]_allVars => IInv'
  BY StepIInv
<1> QED BY InitIInv, <1>1, PTL DEF FaultSpec

\* Nobody holding lsm.mu, disk, manifest and tree agree, after any kills, restarts and
\* faults of the log (recoverOrphans, and the order of os.Rename and os.Remove in
\* flushMemtable and compactLevel).
THEOREM DiskMatchesTreeAlways == FaultSpec => []DiskMatchesTree
<1>1. IInv => DiskMatchesTree
  <2> SUFFICES ASSUME IInv, pc = "run", Quiet
               PROVE  files = FilesOf(tree) /\ manifest = Names(FilesOf(tree))
    BY DEF DiskMatchesTree, Quiet, LogKinds
  <2>1. Present /\ Matched
    BY DEF IInv, Quiet, LogKinds
  <2> QED BY <2>1 DEF Present, Matched, Running
<1> QED BY <1>1, IInvAlways, PTL

LEMMA SameOrder == \A m, tr : L!Ordered(m, tr) <=> Ordered(m, tr)
<1>1. \A vs, ws : L!Newer(vs, ws) <=> Newer(vs, ws)
  BY DEF L!Newer, Newer
<1>2. \A T : L!EntriesOf(T) = EntriesOf(T)
  BY DEF L!EntriesOf, EntriesOf
<1>3. L!Level = Level
  BY DEF L!Level, Level
<1> QED BY <1>1, <1>2, <1>3 DEF L!Ordered, Ordered, L!MemtableNewest, MemtableNewest,
                                L!L0ByAge, L0ByAge, L!LevelsByAge, LevelsByAge

\* What compactions and reads assume of the order of the files and of the memtable, in
\* the running process and on the disk a kill would leave, after any kills, restarts and
\* faults but a scan of the directory.
THEOREM FaultAgeOrderAlways == FaultSpec => []FaultAgeOrder
<1>1. IInv => FaultAgeOrder
  <2> SUFFICES ASSUME IInv, "scan" \notin hit
               PROVE  DiskAgeOrder /\ (pc = "run" => L!AgeOrder)
    BY DEF FaultAgeOrder
  <2>1. Ranked /\ Aging
    BY DEF IInv, Aging
  <2>2. DiskAgeOrder
    BY <2>1 DEF Ranked, Aged, Young, Newer, DiskAgeOrder
  <2>3. ASSUME pc = "run" PROVE L!AgeOrder
    <3>1. Ordered(Young, tree) /\ target = tree /\ ~Flushing
      BY <2>1, <2>3 DEF Ranked, Treed, Running, IInv, Control, Flushing
    <3>2. Ordered(memtable, tree)
      BY <3>1, OrderedFewer DEF Young
    <3> QED BY <3>1, <3>2, SameOrder DEF L!AgeOrder
  <2> QED BY <2>2, <2>3
<1> QED BY <1>1, IInvAlways, PTL

\* Open rebuilds exactly the map that the disk holds, from any disk a kill or a fault
\* has left: the newest version of each key of the log is as good as the log
\* (recoverWAL), and the listed files are all loaded (loadExistingSSTables).
THEOREM RecoveryRebuildsAlways == FaultSpec => RecoveryRebuilds
<1> DEFINE Rebuilt == hit' = hit =>
             /\ pc = "down" /\ pc' = "load" =>
                  LiveOf(memtable' \cup EntriesOf(Listed')) = DurableMap
             /\ pc = "load" /\ pc' = "run" =>
                  MapOf(memtable, tree)' = LiveOf(memtable \cup EntriesOf(Listed))
<1>1. ASSUME IInv, FaultNext, hit' = hit, pc = "down", pc' = "load"
      PROVE  LiveOf(memtable' \cup EntriesOf(Listed')) = DurableMap
  <2>1. OpenWal
    BY <1>1, OpenSteps
  <2>2. memtable' = Newest(wal.recs) /\ Listed' = Listed
    BY <2>1 DEF OpenWal, Listed
  <2>3. wal.recs \subseteq Version /\ HasNewest(wal.recs)
    BY <1>1, FiniteHasNewest DEF IInv, Held
  <2>4. EntriesOf(Listed) \subseteq Version
    BY <1>1, HeldTyped DEF IInv, Holds, Listed, EntriesOf
  <2> QED BY <2>2, <2>3, <2>4, NewestSuffices DEF DurableMap
<1>2. ASSUME IInv, FaultNext, hit' = hit, pc = "load", pc' = "run"
      PROVE  MapOf(memtable, tree)' = LiveOf(memtable \cup EntriesOf(Listed))
  <2> DEFINE at(l)     == {f \in Listed : f.level = l}
             tables(l) == {[id |-> f.id, ents |-> f.ents] : f \in at(l)}
  <2>1. OpenLoad
    BY <1>2, OpenSteps
  <2>2. memtable' = memtable /\ tree'.levels = [l \in Level |-> tables(l)]
    BY <2>1 DEF OpenLoad
  <2>3. \A f \in Listed : f.level \in Level
    BY <1>2, HeldTyped DEF IInv, Holds, Listed
  <2>4. \A l \in Level : EntriesOf(tables(l)) = EntriesOf(at(l))
    <3> TAKE l \in Level
    <3> DEFINE table(f) == [id |-> f.id, ents |-> f.ents]
    <3>1. \A T : \A v : v \in EntriesOf({table(f) : f \in T})
                      <=> \E f \in T : v \in table(f).ents
      BY DEF EntriesOf
    <3>2. \A v : v \in EntriesOf(tables(l)) <=> \E f \in at(l) : v \in f.ents
      <4> HIDE DEF at
      <4>1. \A f : table(f).ents = f.ents
        OBVIOUS
      <4> QED BY <3>1, <4>1
    <3>3. \A v : v \in EntriesOf(at(l)) <=> \E f \in at(l) : v \in f.ents
      BY DEF EntriesOf
    <3> QED BY <3>2, <3>3
  <2> HIDE DEF tables
  <2>5. UNION {EntriesOf(tables(l)) : l \in Level} = EntriesOf(Listed)
    <3>1. UNION {EntriesOf(tables(l)) : l \in Level} = UNION {EntriesOf(at(l)) : l \in Level}
      BY <2>4
    <3>2. UNION {EntriesOf(at(l)) : l \in Level} = EntriesOf(Listed)
      BY <2>3 DEF EntriesOf
    <3> QED BY <3>1, <3>2
  <2>6. HeldBy(memtable', tree') = memtable \cup EntriesOf(Listed)
    BY <2>2, <2>5 DEF HeldBy
  <2>7. MapOf(memtable, tree)' = LiveOf(HeldBy(memtable', tree'))
    BY DEF MapOf, HeldBy
  <2> QED BY <2>6, <2>7
<1>3. IInv /\ [FaultNext]_allVars => [Rebuilt]_allVars
  BY <1>1, <1>2
<1> QED BY <1>3, IInvAlways, PTL DEF FaultSpec, RecoveryRebuilds

\* Each step of the running process is one of Lsm, or none: file by file, with kills and
\* restarts between, is as good as at once, as lsm.mu is held throughout.
THEOREM ImplementsLsmAlways == FaultSpec => ImplementsLsm
<1> DEFINE Same == Running /\ Running' /\ hit' = hit /\ mapping = "ok" => L!Next
<1>1. ASSUME IInv, FaultNext PROVE [Same]_(L!vars)
  BY <1>1, WellSteps, LsmStep DEF IInv
<1>2. ASSUME UNCHANGED allVars PROVE UNCHANGED L!vars
  BY <1>2 DEF allVars, vars, disk, memory, L!vars, Flushing
<1>3. IInv /\ [FaultNext]_allVars => [Same]_(L!vars)
  BY <1>1, <1>2
<1> QED BY <1>3, IInvAlways, PTL DEF FaultSpec, ImplementsLsm
-----------------------------------------------------------------------------
(* The theorems about the map.                                             *)

\* The inductive invariant of the two theorems that follow: what IInv says of numbers,
\* ages and files, and that the log, the memtable and the trees of a flush or compaction
\* are the map that was written.
MapInv == IInv /\ (Aging => Alike) /\ Story

LEMMA StepMapInv ==
  ASSUME Config, MapInv, [FaultNext]_allVars
  PROVE  MapInv'
<1>1. hit \subseteq hit' /\ IInv /\ Held /\ Control /\ Fate /\ Ranked
  BY HitGrows DEF MapInv, IInv
<1>2. IInv'
  BY StepIInv DEF MapInv
<1>3. Fate'
  BY <1>2 DEF IInv
<1>4. Aging' => Alike
  BY <1>1 DEF MapInv, Aging
<1>5. Aging' => Alike'
  BY <1>1, <1>4, AlikeStep
<1>6. Story'
  <2>1. CASE UNCHANGED allVars
    <3>1. UNCHANGED <<memtable, wal, tree, target, pc, hit, mapping, other, acked, tried>>
      BY <2>1 DEF allVars, vars, disk, memory, faultVars
    <3>2. Story' = Story
      BY <3>1 DEF Story, LogStory, Young, Running
    <3> QED BY <3>2 DEF MapInv
  <2>2. CASE FaultNext /\ hit' \cap {"open", "scan"} = {} /\ Running
    <3>1. Alike
      BY <1>4, <2>2 DEF Aging
    <3> QED BY <1>1, <1>3, <2>2, <3>1, StoryStep DEF MapInv
  <2>3. CASE FaultNext /\ hit' \cap {"open", "scan"} = {} /\ ~Running
    BY <1>1, <2>3, StoryOpens DEF MapInv
  <2>4. CASE hit' \cap {"open", "scan"} # {}
    BY <2>4 DEF Story
  <2> QED BY <2>1, <2>2, <2>3, <2>4
<1> QED BY <1>2, <1>3, <1>5, <1>6 DEF MapInv

\* Flushes and compactions do not change the map of the process or of the disk, at any of
\* their steps, and every write changes both (flushMemtable, compactLevel, PutBatch).
THEOREM MapInvAlways ==
  ASSUME Config
  PROVE  FaultSpec => []MapInv
<1>1. FaultInit => MapInv
  BY InitIInv, StoryInit DEF MapInv
<1>2. MapInv /\ [FaultNext]_allVars => MapInv'
  BY StepMapInv
<1> QED BY <1>1, <1>2, PTL DEF FaultSpec

\* Memtable and tree together stand for the map of the writes that returned and of the
\* batches whose append failed, after any writes, flushes, compactions, kills, restarts and
\* faults, until a Reset fails (and from the next restart on), a file does not open or Open
\* scans the directory (PutBatch, flushMemtable, compactL0ToL1, compactLevel, loadSSTables).
THEOREM RunningMapAlways ==
  ASSUME Config
  PROVE  FaultSpec => []RunningMap
<1>1. MapInv => RunningMap
  <2> SUFFICES ASSUME MapInv, pc = "run", mapping \in {"ok", "dangling"},
                      hit \cap {"open", "scan"} = {}
               PROVE  MapOf(memtable, tree) = acked
    BY DEF RunningMap, NoResetFailed
  <2>1. MapOf(memtable, tree) = tried /\ acked = tried
    BY DEF MapInv, IInv, Story, Fate, Running
  <2> QED BY <2>1
<1> QED BY <1>1, MapInvAlways, PTL

\* No kill outside of the three windows loses a write that has returned: what Open would
\* make of the disk is that map, with the write in progress or a failed one as a whole
\* or not at all.  Faults included, but for a file that did not open, a scan of the
\* directory and, until the next restart, a Reset that may have truncated the log or
\* could not unmap it (PutBatch, flushMemtable, compactLevel, recoverOrphans).
THEOREM DurableUnderFaultsAlways ==
  ASSUME Config
  PROVE  FaultSpec => []DurableUnderFaults
<1>1. MapInv => DurableUnderFaults
  <2> SUFFICES ASSUME MapInv, pc \notin {"down", "load", "install"},
                      Unlogged = {} \/ (mapping = "dangling" /\ other # {}),
                      pc # "remove" \/ FilesOf(tree) \subseteq files,
                      manifest = Names(FilesOf(tree)), hit \cap {"open", "scan"} = {},
                      "cut" \notin hit \/ mapping \in {"ok", "dangling"}
               PROVE  DurableMap \in {acked, tried} \cup other
    BY DEF DurableUnderFaults, NoResetFailed
  <2>1. Ranked /\ Present /\ Running
    BY DEF MapInv, IInv, Running
  <2>2. Listed = FilesOf(tree)
    <3>1. FilesOf(tree) \subseteq files /\ Agrees(files, tree)
      BY <2>1 DEF Present, Ranked, Treed
    <3>2. Listed \subseteq FilesOf(tree)
      BY <3>1, ListingFiles DEF Listed
    <3>3. FilesOf(tree) \subseteq Listed
      BY <3>1 DEF Listed, Names
    <3> QED BY <3>2, <3>3
  <2>3. DurableMap = MapOf(wal.recs, tree)
    BY <2>2, HeldFiles DEF DurableMap, MapOf
  <2>4. /\ LogStory /\ mapping \in {"ok", "dangling", "nil"}
        /\ mapping = "nil" => "cut" \notin hit
    BY <2>1 DEF MapInv, IInv, Story, Fate
  <2>5. Unlogged = {} => Young = wal.recs
    BY DEF Unlogged, Young
  <2>6. CASE mapping = "ok"
    BY <2>3, <2>4, <2>5, <2>6 DEF LogStory
  <2>7. CASE mapping = "dangling" /\ other = {}
    BY <2>3, <2>4, <2>5, <2>7 DEF LogStory
  <2>8. CASE mapping = "dangling" /\ other # {}
    BY <2>3, <2>4, <2>8 DEF LogStory
  <2>9. CASE mapping = "nil"
    BY <2>3, <2>4, <2>9 DEF LogStory
  <2> QED BY <2>4, <2>6, <2>7, <2>8, <2>9
<1> QED BY <1>1, MapInvAlways, PTL

\* The newest version of every key the process owes is in its memtable, its log or in files
\* that stay, and none newer is anywhere (PutBatch, flushMemtable, compactL0ToL1,
\* compactLevel): Living, whatever the faults, until a listed file does not open.
THEOREM LivingAlways ==
  ASSUME EmptyKey \notin Keys
  PROVE  FaultSpec => [](IInv /\ Living)
<1>1. FaultInit => IInv /\ Living
  BY InitIInv DEF FaultInit, Init, Living, Running
<1>2. IInv /\ Living /\ [FaultNext]_allVars => IInv' /\ Living'
  BY StepIInv, HitGrows, LivingStep DEF IInv
<1> QED BY <1>1, <1>2, PTL DEF FaultSpec

\* In a flush and in a compaction, between wal.Reset or os.Remove and writeManifest too,
\* what has been written is in the log or in a file, unless it is in memory only since it
\* was replayed or went to a deaf log.  Not so once Open has skipped a file, nor, until
\* the next restart, after a Reset that may have truncated the log or could not unmap it.
\* So it is Open's rule to delete what no manifest lists that loses it (recoverOrphans).
THEOREM LiveValuesOnDiskAlways ==
  ASSUME EmptyKey \notin Keys
  PROVE  FaultSpec => []LiveValuesOnDisk
<1>1. IInv /\ Living => LiveValuesOnDisk
  <2> SUFFICES ASSUME IInv, Living, Running, "skip" \notin hit,
                      "cut" \notin hit \/ mapping \in {"ok", "dangling"},
                      NEW p \in acked, p \in tried, \A m \in other : p \in m,
                      ~\E v \in OnlyInMemory : v.ts = p.ts
               PROVE  p \in LiveOf(wal.recs \cup EntriesOf(files))
    BY DEF LiveValuesOnDisk, NoResetFailed, Running
  <2>1. p \in Pair /\ Latest(p) /\ Kept(p)
    BY DEF Living, Owed
  <2>2. NoneNewer(p, wal.recs \cup EntriesOf(files))
    BY <2>1 DEF Latest, Stored, NoneNewer
  <2>3. Staying \subseteq files
    BY StayingFiles DEF IInv
  <2>4. EntriesOf(Staying) \subseteq EntriesOf(files)
    BY <2>3, MoreEntries
  <2>5. VersionOf(p) \in memtable => VersionOf(p) \in wal.recs \cup EntriesOf(files)
    BY DEF OnlyInMemory, Unlogged, VersionOf
  <2>6. VersionOf(p) \in wal.recs \cup EntriesOf(files)
    <3>1. mapping \in {"ok", "dangling"} \/ (mapping = "nil" /\ "cut" \notin hit)
      BY DEF IInv, Fate
    <3> QED BY <2>1, <2>4, <2>5, <3>1 DEF Kept
  <2>7. /\ VersionOf(p).key = p.key /\ VersionOf(p).ts = p.ts /\ ~VersionOf(p).tombstone
        /\ p = [key |-> p.key, ts |-> p.ts]
    BY <2>1 DEF VersionOf, Pair
  <2>8. VersionOf(p) \in Newest(wal.recs \cup EntriesOf(files))
    BY <2>2, <2>6, <2>7 DEF Newest, NoneNewer
  <2> QED BY <2>7, <2>8 DEF LiveOf
<1> QED BY <1>1, LivingAlways, PTL
=============================================================================
