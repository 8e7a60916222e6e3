----------------------------- MODULE LsmFaults -----------------------------
(***************************************************************************)
(* LsmRecovery with a system call that fails, at any of its steps:         *)
(*                                                                         *)
(*  - "grow", "sync": an append fails, before or after its record is in    *)
(*    the log;                                                             *)
(*  - "write": a flush or a merge cannot write its files;                  *)
(*  - "reset", "cut": wal.Reset fails in a flush or in Open; the first     *)
(*    once the log is unmapped and before it is truncated, if it had all   *)
(*    of the memtable, the second otherwise;                               *)
(*  - "open": a flush or a compaction cannot open the file it has written; *)
(*  - "manifest": writeManifest fails, before or after the new manifest has *)
(*    been renamed into place;                                             *)
(*  - "skip": Open cannot open a listed file;                              *)
(*  - "scan": Open cannot read the manifest, or it is of another number of *)
(*    levels.                                                              *)
(*                                                                         *)
(* A write whose append fails returns an error, and no one said whether it *)
(* counts: the map has it or not, before and after a kill.                 *)
(***************************************************************************)
EXTENDS LsmRecovery

CONSTANT MaxFaults  \* bound on the faults; other follows one

ASSUME FaultsAssumption == MaxFaults \in 0 .. 1

VARIABLES
  hit,      \* history: the kinds of the faults there were
  mapping,  \* of the log: "ok"; "dangling" once growing it has failed; "nil" once
            \* a Reset has, or "kept" if it could not even unmap the log
  other     \* history: the map the disk has instead of acked, if a write that
            \* failed is in the one and not in the other; at most one

faultVars == <<hit, mapping, other>>
allVars == <<vars, faultVars>>

\* The entries of the memtable that the log does not have.
Unlogged == {v \in memtable : v \notin wal.recs}

Fault(kind) ==
  /\ kind \notin hit /\ Cardinality(hit) < MaxFaults
  /\ hit' = hit \cup {kind}

FaultInit == Init /\ hit = {} /\ mapping = "ok" /\ other = {}
-----------------------------------------------------------------------------
(* What goes well.                                                         *)

Tombstone(k) == {[key |-> k, ts |-> now + 1, tombstone |-> TRUE]}

Writing(ws) ==
  /\ mapping \in {"ok", "kept"}
  /\ other' = {Applied(m, ws) : m \in other}
  /\ UNCHANGED <<hit, mapping>>

\* A flush leaves nothing of the log, and the file has what the memtable had.
Forgetting == other' = {} /\ UNCHANGED <<hit, mapping>>

Ending == mapping' = "ok" /\ other' = {} /\ UNCHANGED hit

\* The log that is cut at writeAt was mapped once, and so it is not empty then.
CloseBroken ==
  /\ pc = "run" /\ ~woken /\ mapping = "nil"
  /\ Gone
  /\ wal' = [wal EXCEPT !.grown = TRUE]
  /\ UNCHANGED <<files, manifest, now, acked, tried, before>>

Well ==
  \/ \E kvs \in Batches : PutBatch(kvs) /\ Writing(Stamped(kvs, now))
  \/ \E k \in Keys : Delete(k) /\ Writing(Tombstone(k))
  \/ FlushReset /\ Forgetting
  \/ /\ Kill \/ (mapping # "nil" /\ Close) \/ CloseBroken
     /\ Ending
  \/ /\ \/ OpenWal \/ OpenLoad \/ FlushCreate \/ FlushInstall
        \/ CompactOutputs \/ CompactRemove \/ CompactInstall
        \/ CompactorReceive \/ CompactorLock \/ CompactorLevel \/ CompactorUnlock
     /\ UNCHANGED faultVars
-----------------------------------------------------------------------------
(* Appends.                                                                *)

\* writeToMmap has unmapped the file when growing fails, and the next append faults
\* or fails as well: no record reaches the log any more.
AppendFails ==
  \/ Fault("grow") /\ mapping = "ok" /\ mapping' = "dangling"
  \/ mapping = "dangling" /\ UNCHANGED <<hit, mapping>>

\* If the log had all of the memtable, the disk has the map without the new write.
OneWithout == other' = IF mapping = "dangling" THEN other
                      ELSE IF Unlogged = {} THEN {acked} ELSE {}

\* PutBatch has changed the memtable by then: what it reports as failed is read.
\* It returns before it looks at the size of the memtable.
PutBatchFails(kvs) ==
  LET ws == Stamped(kvs, now)
  IN  /\ pc = "run" /\ kvs # << >>
      /\ now + Len(kvs) <= MaxNow
      /\ now' = now + Len(kvs)
      /\ memtable' = Overwrite(memtable, ws)
      /\ tried' = Applied(acked, ws) /\ acked' = tried'
      /\ \/ AppendFails /\ OneWithout /\ UNCHANGED wal
         \/ /\ Fault("sync") /\ mapping = "ok"
            /\ wal' = IF deaf THEN wal ELSE [wal EXCEPT !.recs = @ \cup ws]
            /\ other' = {Applied(m, ws) : m \in other}
            /\ UNCHANGED mapping
      /\ UNCHANGED <<files, manifest, tree, deaf, compactCh, woken, pc, level, target,
                     before>>

\* Delete appends first: the memtable is as it was, but the log may have it.
DeleteFails(k) ==
  LET ws == Tombstone(k)
  IN  /\ pc = "run" /\ now + 1 <= MaxNow
      /\ now' = now + 1
      /\ \/ /\ AppendFails
            /\ other' = IF Unlogged = {} \/ mapping = "dangling" THEN other ELSE {}
            /\ UNCHANGED wal
         \/ /\ Fault("sync") /\ mapping = "ok"
            /\ wal' = IF deaf THEN wal ELSE [wal EXCEPT !.recs = @ \cup ws]
            /\ other' = IF deaf THEN other ELSE {Applied(acked, ws)}
            /\ UNCHANGED mapping
      /\ UNCHANGED <<files, manifest, memory, acked, tried, before>>

\* With the mapping nil writeToMmap doubles zero, holding lsm.mu.
AppendForever(ws) ==
  /\ pc = "run" /\ mapping = "nil"
  /\ now < MaxNow
  /\ pc' = "stuck"
  /\ \/ memtable' = Overwrite(memtable, ws)
     \/ UNCHANGED memtable
  /\ tried' = Applied(acked, ws)
  /\ UNCHANGED <<disk, tree, deaf, compactCh, woken, level, target, now, acked, before,
                 faultVars>>
-----------------------------------------------------------------------------
(* Flushes.                                                                *)

\* PutBatch returns an error, and what it wrote stays.
Failed == /\ pc' = "run"
          /\ tree' = [tree EXCEPT !.nextID = @ + 1] /\ target' = tree'
          /\ acked' = tried
          /\ UNCHANGED <<deaf, compactCh, woken, level, now, tried, before>>

\* Broken: the memtable is replaced before its file is written.
FlushCreateFailsEmptied ==
  /\ pc = "create" /\ Fault("write")
  /\ memtable' = {}
  /\ Failed
  /\ UNCHANGED <<disk, mapping, other>>

\* Part of a file is left, which nothing lists and Open would not take.
FlushCreateFails ==
  /\ pc = "create" /\ Fault("write")
  /\ Failed
  /\ UNCHANGED <<disk, memtable, mapping, other>>

\* Broken: the new file goes before the Reset is tried.
FlushResetFailsRemoved ==
  /\ pc = "reset" /\ (Fault("reset") \/ Fault("cut"))
  /\ memtable' = {}
  /\ files' = files \ FilesOf(target)
  /\ mapping' = "nil"
  /\ Failed
  /\ UNCHANGED <<wal, manifest, other>>

\* The memtable is gone when Reset fails, and the new file is removed.  A log that is
\* still mapped goes on with what it had, which the next flush resets with the rest.
FlushResetFails ==
  /\ pc = "reset"
  /\ \/ Fault("reset") /\ Unlogged = {} /\ UNCHANGED wal /\ mapping' = "nil"
     \/ Fault("cut") /\ Unlogged # {} /\ UNCHANGED wal /\ mapping' = "nil"
     \/ Fault("cut") /\ wal' \in [recs : {{}}, grown : BOOLEAN] /\ mapping' = "nil"
     \/ Fault("cut") /\ UNCHANGED wal /\ mapping' = "kept"
  /\ memtable' = {}
  /\ files' = files \ (FilesOf(target) \ FilesOf(tree))
  /\ Failed
  /\ UNCHANGED <<manifest, other>>

FlushOpenFails ==
  /\ pc = "install" /\ Fault("open")
  /\ Failed
  /\ UNCHANGED <<disk, memtable, mapping, other>>

\* writeManifest may have renamed the new manifest into place when it fails.
ManifestFails == Fault("manifest") /\ manifest' \in {manifest, Names(FilesOf(target))}

\* The file is in L0 and perhaps not in the manifest; the goroutine is not signalled.
FlushManifestFails ==
  /\ pc = "install" /\ ManifestFails
  /\ pc' = "run"
  /\ tree' = target
  /\ acked' = tried
  /\ UNCHANGED <<wal, files, memtable, deaf, compactCh, woken, level, target, now, tried,
                 before, mapping, other>>
-----------------------------------------------------------------------------
(* Compactions.  Of the goroutine's, the error is ignored.                 *)

CompactReturns ==
  /\ IF level = 0 THEN pc' = "run" /\ acked' = tried
                  ELSE pc' = "level" /\ UNCHANGED acked
  /\ UNCHANGED <<wal, memtable, deaf, compactCh, woken, level, now, tried, before,
                 mapping, other>>

Outputs == FilesOf(target) \ FilesOf(tree)

\* Broken: the inputs are removed though the merge has failed.
CompactFailsRemoves ==
  /\ pc = "outputs" /\ Fault("write")
  /\ files' = files \ (FilesOf(tree) \ FilesOf(target))
  /\ target' = tree
  /\ CompactReturns
  /\ UNCHANGED <<tree, manifest>>

\* Some outputs are left as orphans, whose names are used again.
CompactFails ==
  /\ pc = "outputs" /\ Fault("write")
  /\ \E n \in 0 .. Cardinality(Outputs) :
       files' = Written(files, {f \in Outputs : f.id < tree.nextID + n})
  /\ target' = tree
  /\ CompactReturns
  /\ UNCHANGED <<tree, manifest>>

\* The inputs are removed by then; the outputs from one on do not join the tree.
CompactOpenFails ==
  /\ pc = "remove" /\ Inputs = {} /\ Fault("open")
  /\ \E first \in Outputs :
       LET missing(l) == {t \in target.levels[l] : l = first.level /\ t.id >= first.id}
       IN  tree' = [target EXCEPT
                      !.levels = [l \in Level |-> @[l] \ missing(l)],
                      !.sizes = [l \in Level |-> @[l] - DataSize(missing(l))]]
  /\ target' = tree'
  /\ CompactReturns
  /\ UNCHANGED <<files, manifest>>

CompactManifestFails ==
  /\ pc = "remove" /\ Inputs = {} /\ ManifestFails
  /\ tree' = target
  /\ CompactReturns
  /\ UNCHANGED <<files, target>>
-----------------------------------------------------------------------------
(* Open.                                                                   *)

\* recoverWAL fails, and with it Open.
OpenResetFails ==
  /\ pc = "down" /\ wal.recs # {} /\ Fault("cut")
  /\ wal' \in [recs : {{}}, grown : BOOLEAN]
  /\ UNCHANGED <<files, manifest, memory, now, acked, tried, before, mapping, other>>

TreeOf(fs) ==
  LET tables(l) == {[id |-> f.id, ents |-> f.ents] : f \in {g \in fs : g.level = l}}
  IN  [levels |-> [l \in Level |-> tables(l)],
       sizes  |-> [l \in Level |-> DataSize(tables(l))],
       nextID |-> FSE!Max({tree.nextID} \cup {f.id + 1 : f \in fs})]

Loaded(fs) ==
  /\ pc' = "run"
  /\ tree' = TreeOf(fs) /\ target' = tree'
  /\ manifest' = Names(fs)
  /\ acked' = MapOf(memtable, tree') /\ tried' = acked'
  /\ UNCHANGED <<wal, memtable, deaf, compactCh, woken, level, now, before, mapping, other>>

\* The file is skipped, and the new manifest forgets it.
OpenSkips ==
  /\ pc = "load" /\ Fault("skip")
  /\ \E f \in Listed : Loaded(Listed \ {f})
  /\ files' = Listed

\* Every .sst of the directory is loaded, orphans too; none is removed.
OpenScan ==
  /\ pc = "load" /\ Fault("scan")
  /\ Loaded(files)
  /\ UNCHANGED files
-----------------------------------------------------------------------------
Faults ==
  \/ \E kvs \in Batches : PutBatchFails(kvs) \/ AppendForever(Stamped(kvs, now))
  \/ \E k \in Keys : DeleteFails(k) \/ AppendForever(Tombstone(k))
  \/ FlushCreateFails \/ FlushResetFails \/ FlushOpenFails \/ FlushManifestFails
  \/ CompactFails \/ CompactOpenFails \/ CompactManifestFails
  \/ OpenResetFails \/ OpenSkips \/ OpenScan

FaultNext == Well \/ Faults

FaultSpec == FaultInit /\ [][FaultNext]_allVars
-----------------------------------------------------------------------------
(* What remains true.                                                      *)

\* The log has not been through a Reset that failed, since Open.
NoResetFailed == mapping \in {"ok", "dangling"}

\* README, "SIGKILL mid-write, restart, replay WAL, zero loss", outside of three windows:
\* entries that recoverWAL replayed or that went to a deaf log, a flush between wal.Reset
\* and writeManifest, and a compaction between its first os.Remove and writeManifest.
\* Then a kill costs no write that has returned, and a failed write is on the disk as a
\* whole or not at all, also after a fault: an append that fails, a merge or a file that
\* cannot be written, a Reset that fails before it truncates, a manifest that cannot be
\* written (from the next one on) and any other failed Reset (from the next restart on).
\* Not so after a file that cannot be opened or a scan of the directory.
DurableUnderFaults ==
  /\ pc \notin {"down", "load", "install"}
  /\ Unlogged = {} \/ (mapping = "dangling" /\ other # {})
  /\ pc # "remove" \/ FilesOf(tree) \subseteq files
  /\ manifest = Names(FilesOf(tree))
  /\ hit \cap {"open", "scan"} = {}
  /\ "cut" \notin hit \/ NoResetFailed
  => DurableMap \in {acked, tried} \cup other

\* Nobody holding lsm.mu, the files on disk, the manifest and the tree agree: orphans
\* of a kill are gone, and no listed file is missing; also after a fault of the log.
DiskMatchesTree ==
  pc = "run" /\ hit \subseteq {"grow", "sync", "reset", "cut"} =>
    files = FilesOf(tree) /\ manifest = Names(FilesOf(tree))

\* Open rebuilds exactly the map the disk holds, whatever a kill left there, whether in
\* a compaction, a flush or an earlier Open, and whatever faults there were: orphans do
\* not come back, nothing listed is dropped, and the log wins over the files.  Only if
\* it fails to open a listed file, or scans the directory, this Open does not.
RecoveryRebuilds ==
  [][hit' = hit =>
     /\ pc = "down" /\ pc' = "load" =>
          LiveOf(memtable' \cup EntriesOf(Listed')) = DurableMap
     /\ pc = "load" /\ pc' = "run" =>
          MapOf(memtable, tree)' = LiveOf(memtable \cup EntriesOf(Listed))]_allVars

\* While the process runs, each step of a write, a flush or a compaction is a step of
\* Lsm or none at all, also after restarts and after faults that leave the log in
\* order: as lsm.mu is held throughout, file by file is as good as at once.
ImplementsLsm ==
  [][Running /\ Running' /\ hit' = hit /\ mapping = "ok" => L!Next]_(L!vars)

\* The entries of the memtable that are in no log and in no file.
OnlyInMemory == Unlogged \ EntriesOf(files)

\* Of the three windows the flush and the compaction lose writes only because Open
\* deletes what no manifest lists: at every step of them, and after most faults, the
\* values are on the disk, and an Open that finds no manifest would load them.  The
\* third window does not spare them: what was replayed or went to a deaf log is in
\* memory only, until its flush has written its file.  Nor are the values there after
\* Open has skipped a file, which the next Open deletes, and after a Reset that
\* truncates, or could not unmap the log and fails, until the next restart.
LiveValuesOnDisk ==
  /\ pc \notin {"down", "load"}
  /\ "skip" \notin hit
  /\ "cut" \notin hit \/ NoResetFailed
  => \A p \in acked :
       \/ p \in LiveOf(wal.recs \cup EntriesOf(files))
       \/ p \notin tried \/ \E m \in other : p \notin m
       \/ \E v \in OnlyInMemory : v.ts = p.ts

\* The map the memtable and the tree stand for (what a Get makes of them is another
\* question, see GetNewest) is what was written, with the batches that were reported as
\* failed.  Not so after a failed Reset, which takes its part of the memtable until the
\* next restart, after a file that does not open, which is lost for good, and after a
\* scan of the directory, which takes inputs and outputs of one compaction together,
\* whose order is lost.
RunningMap ==
  pc = "run" /\ NoResetFailed /\ hit \cap {"open", "scan"} = {} =>
    MapOf(memtable, tree) = acked

\* What compactions and reads assume of the tree: its order survives all faults but
\* such a scan.  So do the files a process that is killed now would load.
FaultAgeOrder ==
  "scan" \notin hit => DiskAgeOrder /\ (pc = "run" => L!AgeOrder)
=============================================================================
