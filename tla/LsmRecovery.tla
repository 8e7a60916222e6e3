---------------------------- MODULE LsmRecovery ----------------------------
(***************************************************************************)
(* The engine of Lsm with its disk: Open, Close, SIGKILL at any point, and *)
(* flushes and compactions cut into the steps a kill can fall between.     *)
(*                                                                         *)
(*  - A killed process leaves its page cache behind, so what was written   *)
(*    (to a file, or to a mapped log) before the kill is there afterwards. *)
(*    Loss of power is not modelled.                                       *)
(*  - A log record or an SSTable cut short by the kill counts as absent:   *)
(*    the record fails its CRC, the table is not in the manifest.  MANIFEST *)
(*    is renamed into place, so it is the old one or the new one.          *)
(*  - Steps that only change memory are merged with a neighbour.           *)
(*  - SyncAlways, SyncPeriodic and SyncAsync differ in when they sync, not *)
(*    in what survives a kill; io_uring and NoWAL are left out.            *)
(***************************************************************************)
EXTENDS Tables

CONSTANTS Batches, FlushThreshold, BaseLevelSize, LevelMultiplier, MaxNow

\* As in Lsm.
ASSUME RecoveryAssumption ==
  /\ Batches \subseteq Seq(Keys)
  /\ FlushThreshold \in Nat \ {0}
  /\ BaseLevelSize \in Nat /\ LevelMultiplier \in Nat
  /\ MaxNow \in Nat

VARIABLES
  (* on disk *)
  wal,        \* wal.log: recs, the entries Replay would find; grown, whether
              \* the file is longer than the version byte when it is opened
  files,      \* the .sst files: [level, id] of the name, and the entries
  manifest,   \* the names MANIFEST lists
  (* in memory *)
  memtable,
  tree,
  deaf,       \* wal.writeAt lies behind zeros that Replay does not get past
  compactCh,
  woken,      \* compactionLoop holds the token and waits for lsm.mu
  pc,         \* what the process does, or the next step of the holder of lsm.mu
  level,      \* the level compactionLoop's for loop has reached, 0 outside of it
  target,     \* the tree the flush or compaction in progress will install
  now,
  (* history *)
  acked,      \* the map after the writes that have returned
  tried,      \* that map with the write in progress, if there is one
  before      \* memtable and now before the write in progress

disk == <<wal, files, manifest>>
memory == <<memtable, tree, deaf, compactCh, woken, pc, level, target>>
vars == <<disk, memory, now, acked, tried, before>>

EmptyTree(id) ==
  [levels |-> [l \in Level |-> {}], sizes |-> [l \in Level |-> 0], nextID |-> id]

FilesOf(tr) ==
  UNION {{[level |-> l, id |-> t.id, ents |-> t.ents] : t \in tr.levels[l]} : l \in Level}

Name(f) == [level |-> f.level, id |-> f.id]
Names(fs) == {Name(f) : f \in fs}

\* os.Create: a file of the same name is overwritten.
Written(fs, new) == {f \in fs : Name(f) \notin Names(new)} \cup new

\* The map of the engine with memtable m and tree tr, and the one a process
\* that starts on this disk would have after Open.
MapOf(m, tr) == LiveOf(HeldBy(m, tr))

Listed == {f \in files : Name(f) \in manifest}

DurableMap == LiveOf(wal.recs \cup EntriesOf(Listed))

Init ==
  /\ wal = [recs |-> {}, grown |-> FALSE] /\ files = {} /\ manifest = {}
  /\ memtable = {} /\ tree = EmptyTree(1) /\ target = EmptyTree(1)
  /\ deaf = FALSE /\ compactCh = FALSE /\ woken = FALSE
  /\ pc = "down" /\ level = 0 /\ now = 0
  /\ acked = {} /\ tried = {} /\ before = [memtable |-> {}, now |-> 0]
-----------------------------------------------------------------------------
(* Open, Close and SIGKILL.                                                *)

\* wal.Reset: the file is truncated, and mapped anew with writeAt = 1.
EmptyLog == [recs |-> {}, grown |-> TRUE]

\* Broken: deletes in the log are not replayed.
OpenWalPutsOnly ==
  /\ pc = "down"
  /\ pc' = "load"
  /\ memtable' = {v \in Newest(wal.recs) : ~v.tombstone}
  /\ wal' = EmptyLog
  /\ deaf' = (wal.recs = {} /\ wal.grown)
  /\ UNCHANGED <<files, manifest, tree, compactCh, woken, level, target, now,
                 acked, tried, before>>

\* wal.New and recoverWAL.  A log with entries is replayed into the memtable
\* and reset.  A log without is not, and if its file is longer than the
\* version byte, writeAt starts at the end of the file: behind zeros, which
\* Replay reads as empty batches of 5 bytes until what is left of them, 3
\* bytes of 64 MB, takes the next record out of step.
OpenWal ==
  /\ pc = "down"
  /\ pc' = "load"
  /\ memtable' = Newest(wal.recs)
  /\ wal' = EmptyLog
  /\ deaf' = (wal.recs = {} /\ wal.grown)
  /\ UNCHANGED <<files, manifest, tree, compactCh, woken, level, target, now,
                 acked, tried, before>>

\* Broken: recoverOrphans is not called.
OpenLoadKeepsOrphans ==
  /\ pc = "load"
  /\ pc' = "run"
  /\ LET tables(l) == {[id |-> f.id, ents |-> f.ents] : f \in {g \in Listed : g.level = l}}
     IN  tree' = [levels |-> [l \in Level |-> tables(l)],
                  sizes  |-> [l \in Level |-> DataSize(tables(l))],
                  nextID |-> tree.nextID]
  /\ manifest' = Names(Listed)
  /\ target' = tree'
  /\ acked' = MapOf(memtable, tree') /\ tried' = acked'
  /\ UNCHANGED <<wal, files, memtable, deaf, compactCh, woken, level, now, before>>

\* loadExistingSSTables, recoverOrphans, updateLevelStats and writeManifest.
\* A second run of these steps finds what the first one left, so a kill
\* between them is a kill before them.
OpenLoad ==
  /\ pc = "load"
  /\ pc' = "run"
  /\ files' = Listed
  /\ LET tables(l) == {[id |-> f.id, ents |-> f.ents] : f \in {g \in Listed : g.level = l}}
     IN  tree' = [levels |-> [l \in Level |-> tables(l)],
                  sizes  |-> [l \in Level |-> DataSize(tables(l))],
                  nextID |-> tree.nextID]
  /\ manifest' = Names(Listed)
  /\ target' = tree'
  /\ acked' = MapOf(memtable, tree') /\ tried' = acked'
  /\ UNCHANGED <<wal, memtable, deaf, compactCh, woken, level, now, before>>

\* What is left of the process: nothing but its clock, which nextID follows.
Gone ==
  /\ pc' = "down" /\ level' = 0
  /\ memtable' = {} /\ tree' = EmptyTree(tree.nextID) /\ target' = tree'
  /\ deaf' = FALSE /\ compactCh' = FALSE /\ woken' = FALSE

Kill ==
  /\ pc # "down"
  /\ Gone
  /\ UNCHANGED <<disk, now, acked, tried, before>>

\* Close waits for the goroutine, drops a pending signal, does not flush the
\* memtable, and cuts the log at writeAt.
Close ==
  /\ pc = "run"
  /\ ~woken
  /\ Gone
  /\ wal' = [wal EXCEPT !.grown = (wal.recs # {} \/ deaf)]
  /\ UNCHANGED <<files, manifest, now, acked, tried, before>>
-----------------------------------------------------------------------------
(* Writes and flushes.                                                     *)

\* The log record is appended and the memtable changed: PutBatch does the
\* second first, which a kill between the two cannot tell.
Write(ws, t) ==
  /\ pc = "run"
  /\ t <= MaxNow
  /\ now' = t
  /\ wal' = IF deaf THEN wal ELSE [wal EXCEPT !.recs = @ \cup ws]
  /\ memtable' = Overwrite(memtable, ws)
  /\ tried' = Applied(acked, ws)

PutBatch(kvs) ==
  /\ kvs # << >>
  /\ Write(Stamped(kvs, now), now + Len(kvs))
  /\ \/ /\ Cardinality(memtable') < FlushThreshold
        /\ acked' = tried'
        /\ UNCHANGED <<pc, target, before>>
     \/ /\ Cardinality(memtable') >= FlushThreshold
        /\ pc' = "create"
        /\ target' = AddToL0(tree, memtable')
        /\ before' = [memtable |-> memtable, now |-> now]
        /\ UNCHANGED acked
  /\ UNCHANGED <<files, manifest, tree, deaf, compactCh, woken, level>>

Delete(k) ==
  /\ Write({[key |-> k, ts |-> now + 1, tombstone |-> TRUE]}, now + 1)
  /\ acked' = tried'
  /\ UNCHANGED <<files, manifest, tree, deaf, compactCh, woken, pc, level,
                 target, before>>

\* flushMemtable writes the new file ...
FlushCreate ==
  /\ pc = "create"
  /\ pc' = "reset"
  /\ files' = Written(files, FilesOf(target) \ FilesOf(tree))
  /\ UNCHANGED <<wal, manifest, memtable, tree, deaf, compactCh, woken, level,
                 target, now, acked, tried, before>>

\* Broken: the log is not reset.
FlushKeepsLog ==
  /\ pc = "reset"
  /\ pc' = "install"
  /\ memtable' = {}
  /\ UNCHANGED <<wal, deaf, files, manifest, tree, compactCh, woken, level, target,
                 now, acked, tried, before>>

\* ... empties the memtable and the log ...
FlushReset ==
  /\ pc = "reset"
  /\ pc' = "install"
  /\ memtable' = {}
  /\ wal' = EmptyLog
  /\ deaf' = FALSE
  /\ UNCHANGED <<files, manifest, tree, compactCh, woken, level, target, now,
                 acked, tried, before>>

\* Broken: the goroutine is signalled only if it is not busy.
FlushInstallBusy ==
  /\ pc = "install"
  /\ tree' = target
  /\ manifest' = Names(FilesOf(target))
  /\ compactCh' = (compactCh \/ ~woken)
  /\ \/ /\ WriterCompaction(target) = target
        /\ pc' = "run"
        /\ acked' = tried
        /\ UNCHANGED target
     \/ /\ WriterCompaction(target) # target
        /\ pc' = "outputs"
        /\ target' = WriterCompaction(target)
        /\ UNCHANGED acked
  /\ UNCHANGED <<wal, files, memtable, deaf, woken, level, now, tried, before>>

\* ... and only then lists the file in the manifest.  It signals the goroutine
\* and compacts in the caller if L0 holds too many files.
FlushInstall ==
  /\ pc = "install"
  /\ tree' = target
  /\ manifest' = Names(FilesOf(target))
  /\ compactCh' = TRUE
  /\ \/ /\ WriterCompaction(target) = target
        /\ pc' = "run"
        /\ acked' = tried
        /\ UNCHANGED target
     \/ /\ WriterCompaction(target) # target
        /\ pc' = "outputs"
        /\ target' = WriterCompaction(target)
        /\ UNCHANGED acked
  /\ UNCHANGED <<wal, files, memtable, deaf, woken, level, now, tried, before>>
-----------------------------------------------------------------------------
(* Compactions: the outputs are written, the inputs removed one by one,    *)
(* and then the manifest is written.                                       *)

CompactOutputs ==
  /\ pc = "outputs"
  /\ pc' = "remove"
  /\ files' = Written(files, FilesOf(target) \ FilesOf(tree))
  /\ UNCHANGED <<wal, manifest, memtable, tree, deaf, compactCh, woken, level,
                 target, now, acked, tried, before>>

\* The inputs go in the order of their levels, and of their numbers within one.
Inputs == (files \cap FilesOf(tree)) \ FilesOf(target)
Before(f, g) == f.level < g.level \/ (f.level = g.level /\ f.id <= g.id)

CompactRemove ==
  /\ pc = "remove"
  /\ \E f \in Inputs : /\ \A g \in Inputs : Before(f, g)
                       /\ files' = files \ {f}
  /\ UNCHANGED <<wal, manifest, memory, now, acked, tried, before>>

CompactInstall ==
  /\ pc = "remove"
  /\ Inputs = {}
  /\ tree' = target
  /\ manifest' = Names(FilesOf(target))
  /\ IF level = 0 THEN pc' = "run" /\ acked' = tried
                  ELSE pc' = "level" /\ UNCHANGED acked
  /\ UNCHANGED <<wal, files, memtable, deaf, compactCh, woken, level, target, now,
                 tried, before>>

\* compactionLoop, as in Lsm.
CompactorReceive ==
  /\ pc \notin {"down", "load"}
  /\ level = 0 /\ ~woken /\ compactCh
  /\ woken' = TRUE /\ compactCh' = FALSE
  /\ UNCHANGED <<disk, memtable, tree, deaf, pc, level, target, now, acked, tried,
                 before>>

\* The goroutine starts the compaction of level l, if there is to be one, and
\* its loop moves on.
Turn(l, compact, result) ==
  /\ level' = l
  /\ IF compact /\ result # tree THEN pc' = "outputs" /\ target' = result
                                 ELSE pc' = "level" /\ UNCHANGED target
  /\ UNCHANGED <<disk, memtable, tree, deaf, compactCh, now, acked, tried, before>>

CompactorLock ==
  /\ woken /\ pc = "run"
  /\ woken' = FALSE
  /\ Turn(1, Cardinality(tree.levels[0]) > MaxL0Files, CompactL0ToL1(tree))

CompactorLevel ==
  /\ pc = "level" /\ level < NumLevels - 1
  /\ Turn(level + 1, tree.sizes[level] > BaseLevelSize * LevelMultiplier ^ level,
          CompactLevel(tree, level))
  /\ UNCHANGED woken

CompactorUnlock ==
  /\ pc = "level" /\ level = NumLevels - 1
  /\ pc' = "run" /\ level' = 0
  /\ UNCHANGED <<disk, memtable, tree, deaf, compactCh, woken, target, now, acked,
                 tried, before>>

Next ==
  \/ OpenWal \/ OpenLoad \/ Kill \/ Close
  \/ \E kvs \in Batches : PutBatch(kvs)
  \/ \E k \in Keys : Delete(k)
  \/ FlushCreate \/ FlushReset \/ FlushInstall
  \/ CompactOutputs \/ CompactRemove \/ CompactInstall
  \/ CompactorReceive \/ CompactorLock \/ CompactorLevel \/ CompactorUnlock

Spec == Init /\ [][Next]_vars
-----------------------------------------------------------------------------
(* What makes it correct.                                                  *)

\* A kill now loses no write that has returned, and keeps the write in
\* progress as a whole or not at all.
NothingLost == DurableMap \in {acked, tried}

\* Every entry of the memtable can be replayed.
Logged == memtable \subseteq wal.recs

\* The README's line for a flush: at none of its steps does a kill lose
\* entries that were in the log when it began.
FlushSurvivesKill ==
  pc \in {"create", "reset", "install"} /\ Logged => NothingLost

\* The README's line for what a restart has replayed: it survives the next
\* one too, while the engine is idle and its log in order.
ReplayedSurvivesRestart == pc = "run" /\ ~deaf => NothingLost

\* The write path of the README, "append to write-ahead log": Replay finds an
\* entry that a write has appended.
AppendedIsReplayable ==
  [][now' > now => {v \in memtable' : v.ts > now} \subseteq wal'.recs]_vars

\* What Get relies on after a restart: the log is newer than the listed
\* files, and these are in the order of their levels, and of their numbers
\* in L0, also when a kill left a compaction half done.
DiskAgeOrder ==
  /\ Newer(wal.recs, EntriesOf(Listed))
  /\ \A f, g \in Listed :
       f.level < g.level \/ (f.level = 0 /\ g.level = 0 /\ f.id > g.id)
         => Newer(f.ents, g.ents)

\* Lsm, as long as the process runs: a flush is taken as its last step, a compaction as
\* its first.
Flushing == pc \in {"create", "reset", "install"}

L == INSTANCE Lsm WITH
  memtable <- IF Flushing THEN before.memtable ELSE memtable,
  tree <- IF Flushing THEN tree ELSE target,
  pc <- IF level > 0 THEN "levels" ELSE IF woken THEN "lock" ELSE "select",
  now <- IF Flushing THEN before.now ELSE now

Running == pc \notin {"down", "load"}
=============================================================================
