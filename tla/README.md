# A verification of lsm-tree-go in TLA+

TLA+ models of the LSM tree in `src/internal`, checked with TLC on small
instances, and proofs of their main properties with TLAPS for all instances.
Line numbers refer to the files below `src/`.

## The system

| Component | State | Operations | Talks to |
|---|---|---|---|
| engine, `internal/lsm/lsm.go` | `memtable`, `levels`, `stats.LevelSizes`, `nextID`, `compactCh`; on disk the `.sst` files and `MANIFEST` | `Open`, `Put`, `PutBatch`, `Delete`, `Get`, `Close`; `flushMemtable`, `compactL0ToL1`, `compactLevel`; the goroutine `compactionLoop` | all of the others, under `lsm.mu` |
| memtable, `internal/memtable` | a map, its running size, cached sorted keys | `Put`, `Delete`, `Get`, `Entries` | called by the engine |
| log, `internal/wal/wal.go` | `wal.log` mapped to memory, `writeAt`, `pending`, a channel and the goroutine `asyncWriter` | `New`, `Replay`, `Reset`, `AppendRaw`, `Close` | called by the engine; guards itself with `w.mu` |
| log through io_uring, `internal/wal/io_uring_linux.go` | two rings shared with the kernel | `submitWrite`, `flush`, `reap`, `close` | called by the log |
| sorted files, `internal/sstable` | entries, index block, filter, footer | `Writer.Append`, `Writer.Close`, `Open`, `Get`, `Iter` | written by flushes and compactions, read by `Get` |
| sparse index, `internal/sparseindex` | one key in 128 with its offset | `ShouldIndex`, `Add`, `Lookup` | called by the sorted files |
| bloom filter, `internal/bloom` | bits | `Add`, `MayContain` | called by the sorted files |
| merge, `internal/compaction` | a heap of iterators, `lastKey`, the open output | `DoCompact` | called by the engine |
| `cmd`, `bench` | none | drivers and measurements | call the engine |

What makes them hard to get right:

- **Two compactors.** Writers flush, and compact when L0 has more than
  `2 * maxL0Files` files; the goroutine compacts when it is woken and L0 has
  more than `maxL0Files`. The signal is a channel of capacity one, dropped when
  full. The newest version of a key has to win whoever comes first.
- **Order by position.** A `Get` stops at the first hit: which version it
  finds depends on where flushes and compactions have put the versions, not on
  their timestamps.
- **Kills.** A flush and a compaction change the log, several files and the
  manifest one after the other; `Open` deletes what the manifest does not list.
- **Failing calls.** Each of these steps may return an error, and the engine goes
  on from the middle of what it was doing.
- **Shutdown.** `Close` waits for a goroutine that waits for `lsm.mu`, then for
  `lsm.mu`, and holding it for another goroutine; calls go on meanwhile.
- **The log as zeros.** The mapped file is longer than its contents, and the
  zeros behind them are valid empty batches to `Replay`.
- **Syncs outside of the lock**, a ticker, a channel and a flag in
  `asyncWriter`, and its shutdown.
- **Rings shared with a kernel** that completes in any order, and buffers that
  must live until it has.
- **A file in a mapping** that has to grow while it is written.
- **The streaming merge**: equal keys from several inputs, dropped tombstones,
  the cut into files.

`PROJECT.json` lists these as hazards, each at its line, with the properties
that watch it or the reason why none does.

## The modules

| Module | Models | Composes |
|---|---|---|
| `KVStore` | what the engine promises: batches and deletes take effect one at a time on a map | |
| `Tables` | the data: versions, tables, key ranges as the code sees them, the result of a merge, the choice of its inputs, flush and compaction as functions on the tree | |
| `Lsm` | the running engine: clients and `compactionLoop` | `Tables`; implements `KVStore` |
| `LsmRecovery` | the engine with its disk: `Open`, `Close`, SIGKILL, flushes and compactions file by file | `Tables`; implements `Lsm` while it runs |
| `LsmFaults` | the same with a system call that fails, at any of its steps | extends `LsmRecovery` |
| `Lifecycle` | `lsm.mu`, the channels and the shutdown: who waits for whom | |
| `Log` | what `LsmRecovery` takes a log to be, power failing or not | |
| `Wal` | the log as a file: extents, zeros, modes, `asyncWriter`, kills and loss of power | implements `Log` |
| `WalUring` | the log in the mode SyncIouring: rings, buffers, the kernel, kills | |
| `Compaction` | the merge with its heap, step by step | `Tables`: it returns the files `Tables!DoCompact` says |
| `SSTable` | the writer's index, and `Get` through filter, binary search and scan | |
| `MemTable` | size and cached keys of the memtable | |
| `FlushFile` | a flush to a file of bytes: the writer's mapping, the blocks, the filter, opening and reading | extends `MemTable` |
| `TablesProofs` | lemmas about the operators of `Tables`, shared by the next two | |
| `EngineProofs`, `RecoveryProofs` | theorems about `Lsm` and `Compaction`, and about `LsmFaults` with `LsmRecovery` | |
| `WalProofs`, `UringProofs` | theorems about `Wal` and `WalUring` | |
| `SSTableProofs`, `FlushProofs`, `LifecycleProofs` | theorems about `SSTable`, `MemTable` with `FlushFile`, and `Lifecycle` | |
| `MC*` | the instances TLC checks | |

Operators whose comment begins with "Broken:" are plausible mistakes in the
operator below them. No specification uses them; each run's properties have
been seen to fail when one takes the other's place.

### Tables and Lsm

A version is a key, a timestamp and the tombstone flag, and its timestamp stands
for its value. Every entry counts as 1, so thresholds in bytes are counts of
entries. A level is a set of tables; the order of the slice in the code is the
order of the file numbers. `tree` bundles `levels`, `LevelSizes` and `nextID`,
so that `FlushMemtable`, `CompactL0ToL1` and `CompactLevel` are functions from
trees to trees that both `Lsm` and `LsmRecovery` use.

`lsm.mu` is held through `PutBatch` (with the flush and the compaction it may end
in), `Delete` and `Get`, and through a turn of `compactionLoop`. So `PutBatch` and
`Delete` are one action each; the turn is cut into one action for each compaction,
with `MuFree` false in between, so that the states it passes through are seen.
`Get` is the operator `Get(k)` of the state. The recursion of `compactLevel` is
the next iteration of the loop, which asks the same question. `MinKey` and
`MaxKey` are the first and the last *indexed* key, as in the code.

### LsmRecovery

`pc` is where the holder of `lsm.mu` stands: `create`, `reset`, `install` in a
flush, `outputs`, `remove` and then the installation in a compaction. What is
on disk (`wal`, `files`, `manifest`) survives `Kill`. A kill leaves the page
cache behind, so every write the process made is found again, in the order it
was made; loss of power is in `Wal` only. A file cut short is in no manifest, a record cut short fails its
checksum. `acked` and `tried` are history: the map after the writes that
returned, and the one that includes the write in progress; `DurableMap` is the
map a process that starts now would have.

### LsmFaults

`LsmFaults` has the actions of `LsmRecovery` and, for every call in them that can
fail, an action with the state the code leaves behind when it returns the error.
`mapping` is the log's: `dangling` when growing it failed after `Munmap`
(`wal.go:173`), `nil` when a `Reset` failed, and `kept` when all that failed was the
`Munmap` in it (`wal.go:320`): then the log stays mapped with what it had, and the engine
goes on. An append that fails leaves open
whether the write counts, so there may be two right answers: `acked` and `other`. After a
`Reset` that left it `nil` the next append doubles zero for ever, holding `lsm.mu`: `pc`
is then `stuck`, and only a kill follows. `ManifestFails` leaves the old manifest or, past
the `Rename`, the new one (`lsm.go:148`). `hit` records the kinds of the faults, and the
properties say which of them they survive. `OpenScan` is the scan of the directory,
when the manifest cannot be read or has another number of levels.

### Lifecycle

The data is left out. `holder` and `readers` are `lsm.mu`; `pc` is where each
client or call of `Close` stands, `loop` and `writer` where the two goroutines do. A
holder of `lsm.mu` needs the tables or the log to be mapped: a `Get` on a table that
is not panics or finds nothing, an append to a log that is not never ends, a second
`Close` panics in `SyncAsync`. `lsm.closed` is set and never read, so nothing stops a
call after `Close`.

### Wal and Log

The file is its length and the extents of its records; the rest is zero.
`Replayed` walks it as `Replay` does, five zeros at a time. 64 MB is 4 modulo 5,
so the walk over an empty log ends three bytes before its end, out of step with
a record that follows: the log is *deaf*. `InitialSize = 14` is the smallest
length that keeps this. Every process opens the log in one of the three mapped
modes. An append is one step under `w.mu`, and its sync or signal another; `Reset`
is three. `fresh` is history: the file was empty when it was opened, or has been
reset since, so that the process knows where its records start. `Log` has the same behaviour without bytes. A deaf log may hear again: a loss of power
can take the records that `Replay` stumbled over and leave zeros that happen to end in
step with it, and the first record appended behind them is found. Where the power does
not fail (`PowerMayFail`) a deaf log stays deaf until it is reset. `LsmRecovery`'s
variables `wal` and `deaf` follow this second case: `OpenWal` is `LogOpen` and
`LogReset`, `Write` is `LogAppend`, `FlushReset` is `LogReset` and `LogGrow`.

### WalUring

The engine is the log's one client here and holds `lsm.mu`. Records of a ring are
numbered; slot, buffer and offset follow from the number. `Enter` hands the kernel all
entries between head and tail. `Kernel` performs one of them at a time, in any order,
as no entry is linked to another, and puts what the buffer *then* holds into the file.
`Entered` and `Interrupted` are the two ways out of `io_uring_enter`: as many
completions as asked for, or a signal. `ReapBatch` drops all it sees and looks at the
first only, `ReapError` gives up and leaves the others in the ring.

An entry is found through the index array of the ring: `Taken(i)` is
`sqes[array[Slot(i)]]`. The kernel makes the array of zeros and the code never writes to
it, so `array` is constant and every entry is the one in slot 0. The flag that would
avoid the array is bit 16 in Linux; the code's `IORING_SETUP_NO_SQARRAY` is bit 12
(`:24`), `IORING_SETUP_SINGLE_ISSUER`, and the fallback (`:167`) asks for no flag at all.
With bit 12 the kernel refuses a call from another thread than the ring's, which a
goroutine may come to run on: `EnterFails`. Assumed of the kernel, as marked in
`PROJECT.json`: it takes all it is offered or refuses the call. `Recreate` is the user's
answer to `New`, which refuses a log with contents.

### Compaction, SSTable, MemTable

`Compaction` has an action for each branch of `DoCompact`'s loop; the heap is the
set of its elements and `Pop` takes a least one. `SSTable` takes the number of an
entry for its offset; its `SearchStep` is the loop of `sort.Search`, `ScanStep` and
`ScanEnd` that of `SSTable.Get`, and the bloom filter turns away only keys that
are not stored. `MemTable` keeps byte sizes, and the keys that `Entries` caches.

### FlushFile

A file is the sequence of its blocks with offset and length; a block that `copy`
cut at the end of the mapping is not `whole`. Lengths are those of the code (varints,
checksums, a filter of a power of two of bits), so where the mapping must grow is exact.
The two hashes of a key are a constant, and the bits of the filter are modelled as they
follow from it. `Install` replaces the memtable, resets the log and then opens the
file, as `flushMemtable` does.

## What is checked

Each run finishes within two minutes on two cores. The bounds are small, and
enough for what the table says happens within them.

| Run | Shows | Bounds |
|---|---|---|
| `MCLsm` | `TypeOK`: one version of a key in the memtable and in each table, none stamped later than the clock. `ImplementsKVStore`: no flush or compaction changes the map. `AgeOrder`: memtable over L0 by age over L1 over L2. `GetNewestWhenUnshadowed`: `Get` is right where at most one file of L0 and one of L1 has the key. `SizesExact`, `FreshNumbers`, `L0Bounded`, `DeepLevelsDisjoint` (L2 and below). `OverflowDrains`: the signal is not lost. | 2 keys, 3 levels, 6 writes, `MaxL0Files` 2, every write flushes: both compactors run, compactions reach the bottom level, outputs are cut into several files |
| `MCFaults` | `DurableUnderFaults`: zero loss, but in the windows below. `LiveValuesOnDisk`: what the windows of a flush and of a compaction lose is in files that `Open` deletes. `RunningMap`: which errors take something from the running engine. `RecoveryRebuilds`: `Open` rebuilds the map of the disk. `FaultAgeOrder`, `DiskMatchesTree`. `ImplementsLsm`: file by file is as good as at once | the same with 5 writes, the fifth of which makes the writer compact; any number of kills, closes and restarts; at most one fault, of any kind at any step, with everything that can follow it |
| `MCLifecycle` | `EngineQuiet`: what `Close` unmaps no goroutine uses. `FailsOnlyLate`: calls fail only after a `Close` has returned. `CloseReturns`, `CallsReturn` | a reader, two writers and two calls of `Close` in the mode SyncAsync, with calls without bound |
| `MCWal` | `ImplementsLog` for every mode and mix of modes. `AckedSurvives`: SyncAlways keeps its word over a loss of power, in a log that is not deaf. `PeriodicBound`: at most `pending` records are not synced. `AsyncSyncs`, `CloseSyncs`: SyncAsync syncs in the end, and before it closes. `ReplayComplete` after a kill anywhere in an append or a `Reset` | 2 writers, 3 appends of 2 sizes: the file is doubled, filled to its end, and left deaf; power may fail |
| `MCUring` | `FirstsSurvive`: the file has the records of slot 0, all but the last of them for sure, and no others. `FlushComplete`: a flush leaves no write under way and no completion behind. `BufferHeld`: a buffer lives as long as its write; these three while no operation fails. `FlushReturns`: nobody waits for a completion that does not come, after a failure either | a ring of 4 entries, 4 records: the ring fills, wraps and is flushed half full; one operation fails or is cut short |
| `MCCompaction` | `ReturnsMerge`, and at every step `NeverLosesNewest`, of every key but the empty one | every two tables over 3 keys, with tombstones, and maybe an older third that holds all 3 and the empty key; files of 2 entries |
| `MCSSTable` | `GetExact`, `ScanShort` | every file of at most 7 of 8 keys, `Step` 2: up to four indexed stretches |
| `MCFlush` | `SizeExact`; `FlushExact`: a file that opens has what the memtable had, through iterator, index and filter. `FlushFailsBelowDoublings`: just which flushes fail | 3 keys, one of them empty, values of 0, 12 and 150 bytes, 5 writes; the mapping starts at 84 bytes, so that it grows once or twice, is filled so that a block is cut or begins behind it, and is doubled when the entries end just at its length |

`CHECK_DEADLOCK FALSE` is set where the workload is bounded and the engine may
then rest (`MCLsm`, `MCLsmStale`), where the merge has returned (`MCCompaction`), and
where all calls have, or the process has ended (`MCLifecycle`). Bounds on unbounded
counters are `MaxNow`, `MaxRecords`, `MaxEntries`, `MaxFaults` and `MaxFailures`, in the guards. `OverflowDrains` is asked of the
first `MaxNow \div 2 + 1` files.

**Fairness.** `Lsm!FairSpec` is weak fairness of `compactionLoop`: it is an
infinite loop over a channel, the scheduler runs it, and Go's mutex is
starvation free, so the goroutine gets `lsm.mu` in the end although writers
compete for it. `Wal!FairSpec` is weak fairness of the steps of `asyncWriter`: the
ticker fires every 10 ms and `select` picks among ready cases at random.
`WalUring!Spec` lets the kernel complete what it has taken and the goroutine of a call
run. `Lifecycle!Fairness` is strong for who waits for `lsm.mu` and for the cases of a
`select` that are ready now and then, because `sync.RWMutex` lets nobody starve and
`select` is random, and weak for a goroutine that only has to be run. No client is
assumed to call anything.

### Known deviations

Four runs end in a counterexample: the code does other than a document says.

- `MCLsmStale`: `Get` ranges over L0 from the oldest file (`lsm.go:558`); after
  two flushes of a key it returns the older value ("newest version wins",
  `README.md:69`). `GetNewestWhenUnshadowed` is what remains.
- `MCKillFlush`: a flush resets the log (`lsm.go:361`) before the manifest lists
  the file (`:375`); `Open` deletes the file as an orphan ("zero loss",
  `README.md:70`).
- `MCRestart`: recovery resets the log (`lsm.go:248`) while its entries are in the
  memtable only, and `Close` does not flush; the next restart loses them.
- `MCDeafLog`: `New` appends at the end of a file a killed process has left grown
  (`wal.go:85`), and recovery resets only a log with entries (`lsm.go:247`).

The models contain more of them, around which properties step by a stated condition.
Of the engine:

- A compaction removes its inputs (`lsm.go:448`, `:506`) before the manifest lists
  its outputs; a kill between loses both. `DurableUnderFaults` leaves this window out,
  as it does the flush's and that of replayed entries. Of the compaction's and the
  flush's, `LiveValuesOnDisk` shows that the values are in the files which the next
  `Open` deletes. Replayed entries (`lsm.go:248`), and those appended to a deaf log, are
  on no disk at all until their flush has written its file, and the property excepts them.
- A `Reset` that fails in a flush (`lsm.go:361`) removes the new file when the memtable
  is already replaced: the running engine forgets its entries, until a restart if the log
  still has them. `RunningMap` leaves this out. A batch whose append
  failed is in the memtable, is read, and may become durable (`lsm.go:316`).
- After such a `Reset`, if it got past its `Munmap`, the next write never ends (`wal.go:169` doubles zero), and keeps
  `lsm.mu`. So does a write after `Close`; a `Get` after `Close` panics or does not find
  the key, and a second `Close` panics in `SyncAsync` (`wal.go:363`).
- A listed file that `Open` fails to open is left out of the new manifest and deleted
  by the `Open` after it (`lsm.go:199`). The scan of the directory loads orphans, the
  inputs of an unfinished compaction beside its outputs (`lsm.go:210`), and the order of
  the tree is lost (`FaultAgeOrder` excludes it). Deleted keys may come back: where tables
  of L1 overlap, a compaction to the bottom level drops a tombstone, is killed while it
  removes its inputs, and the scan loads the older value with an input that is left.
  `RunningMap` therefore excludes the scan; the run's instance is too small to show it,
  and the proof found it.
- `isBottomLevel` is `level >= 6` (`compaction.go:55`) for every `NumLevels`. With
  8 levels a tombstone is dropped above older values, which come back. The
  refinement holds for `NumLevels <= BottomLevel + 1`.
- `lastKey` starts as the empty string (`compaction.go:75`), so the empty key is
  lost at its first compaction. The refinement holds where it is not used.
- `MaxKey` is the last indexed key (`sstable.go:565`), so `compactL0ToL1` leaves
  overlapping tables in L1, against `compaction_test.go:227`, whose helper looks at
  indexed keys as well. `DeepLevelsDisjoint` is the claim for L2 and below. Age
  order and refinement do not depend on it.

Of the files:

- `Writer.Close` copies index, filter and footer without asking whether they fit the
  mapping (`sstable.go:144`). If the entries end shortly below 8 MB times a power of
  two, a block begins behind the mapping, and `PutBatch` panics; or the footer is cut,
  and the file is refused when memtable and log are gone. With the default threshold of 4 MB only a batch
  of megabytes gets there. `FlushFailsBelowDoublings` says when. (`Append` grows the mapping when
  an entry does not fit, but `grow` goes on until it is *longer* than what is needed, `:85`;
  so where one entry has half of all bytes and the entries end just at a doubling, the
  mapping may already be twice as long, and nothing fails.)
- `Get` scans on behind the entries into the index block (`sstable.go:391`). `FlushFile`
  takes what it reads there as no match.

Of io_uring:

- Every entry is taken from slot 0 (see WalUring above), so of 128 records that fill a ring
  of 256 the first is written 256 times, and the other 127 never; an fsync is never taken.
  `FirstsSurvive` and `FlushComplete` say so, and that at least those records are right.
  Filling the array would not be all: nothing is written before the ring is full
  (`io_uring_linux.go:220`), and the write and its fsync are not linked.
  `bench/fulltable.go:193` says SQPOLL, which is not set.
- A signal ends `io_uring_enter` early; `reap` then counts and releases buffers by what
  happens to be there, and it looks at the first completion of a batch only
  (`:312`): an error behind it is not seen. `early` and `failures` mark these runs.
- The first record overwrites the version byte (`offset` starts at 0), and `Close` cuts
  the file at `writeAt`, which this mode leaves at 1: nothing can be replayed, and `New`
  refuses a file with content anyway (`wal.go:59`).

## What is proved

TLAPS checks every step; the only assumptions are the named ones on the
constants, which the runs evaluate.

**`EngineProofs`**, for any keys, levels, thresholds and workload, all that the run of `Lsm`
checks but liveness:

- `AgeOrderAlways` and what it follows from, `IInvAlways`. `AgeOrder`
  is not inductive by itself. A flush keeps it only because the number of the
  new file is above those in L0 and because no version is newer than the clock; a
  compaction of L0 keeps it only because it takes the files with the smallest
  numbers. `IInv` adds these, and that all sets are finite, so that ranks,
  sizes and chunks are numbers.
- `Refinement`: `Spec => ImplementsKVStore`, under `Config` (the empty key is not
  used, and no level lies below the one `DoCompact` takes for the bottom). Two
  lemmas carry it. `MergeKeepsMap` (in `TablesProofs`): replacing the inputs of a merge by its
  output does not change the map if what is outside is newer, or if the
  tombstones are kept. `CompactionKeeps`: with `AgeOrder`, what a compaction leaves
  outside is on the right side of that. `Settled` (of each key there is one newest
  version) makes the map a map.
- `FreshNumbersAlways`, `SizesExactAlways`, `L0BoundedAlways`, `DeepLevelsDisjointAlways`. The
  invariant is `Books` of `TablesProofs`: numbers are below `nextID` and unique, and
  `LevelSizes` are the sizes. It rests on `DoCompactNumbers`, that the outputs of a
  merge are numbered without a gap, which in turn rests on the ranks of finitely many
  keys having none. Where induction would be usual, the least element of a set of
  numbers comes from the well-founded order of finite subsets. Disjoint are the levels from
  L2 on; in L1 tables may overlap.
- `GetNewestWhenUnshadowedAlways`: the walk of `Get` over the levels ends at the newest
  version of a key, unless two files of L0, or two of L1, hold the key. Of two in L0 `Get`
  takes the older (`lsm.go:558`); two in L1 may have been left by `MaxKey`.
- `TypeCorrect`: the types, one version of a key in the memtable and in each table, none
  ahead of the clock. It comes with the reads, whose invariant (`ReadsInv`) has it.

**`EngineProofs`** also has the merge, for any inputs and any size of the outputs: `NeverLosesNewestAlways`
(of each key but the empty one, which the merge does lose) and `ReturnsMergeAlways`, so that the one-step `DoCompact` of `Tables` is what the loop of the code
does. The invariant says that the heap holds the next entry of each input and no input
is behind it (`Heads`), that what is still to come is later than what was taken
(`Frontier`), and that what has been written is the merge of what was taken, cut
where the ranks say (`WrittenSoFar`).

**`RecoveryProofs`**, for any levels, thresholds and workload, after any kills and restarts:

- `RecoveryRebuildsAlways`, whatever the fault. All it needs is that finitely many versions
  of a key have a newest one, so that replaying into a memtable loses nothing
  (`NewestSuffices`), and that every listed file is of some level.
- `FaultAgeOrderAlways`, whatever the fault but a scan of the directory: the order that
  reads and compactions rest on, in the tree and among the files a kill would leave.
- `DiskMatchesTreeAlways`, after faults of the log.
- `ImplementsLsmAlways`, whatever the faults before. It is about steps; that an `Open`
  starts `Lsm` in a state with the order `Refinement` rests on is `FaultAgeOrderAlways`.
- `RunningMapAlways`: the map that memtable and tree of the running process stand for is
  what was written, after any fault but a listed file that does not open, a scan, or a failed
  `Reset` until the next restart. Which version a `Get` picks of it is another matter (above).
- `DurableUnderFaultsAlways`: a kill at any step, outside of the windows that the property
  names, loses no write that has returned; after any fault but a file that does not open, a
  scan and, until the next restart, a `Reset` that may have truncated the log or could not
  unmap it. Both are under `Config`, as `Refinement` is.
- `LiveValuesOnDiskAlways`: what the windows of a flush and of a compaction lose is in a file
  on the disk, after a scan, too; but not what is in memory only, as it was replayed or
  went to a deaf log, nor after a skipped file and, until the next restart, after a
  `Reset` that may have truncated the log or could not unmap it. It needs of the
  configuration only that the empty key is not used.

The first four rest on `IInv`. Its parts are: `Held`, that there is a past, a set of
versions of which no two tie and none is ahead of the clock, of which everything stored
is a part; `Control`, which batch the flush in progress is of, and that `target` is
the tree otherwise; `Ranked`, that numbers name one file each, that the numbers of new
files are new (`Successor`), so that no orphan is ever listed again, and that the tree,
its successor and the listed files are in the order of their ages; `Present`, that what
the tree has is on the disk, but for the inputs a compaction is removing; and
`Matched`, which files there are besides, for each step of a flush and of a compaction.

Numbers and presence hold after a scan of the directory, too; order does not.

`MapInv`, of `RunningMapAlways` and `DurableUnderFaultsAlways`, adds to it what cannot be seen
from files alone. `Fate`: how a fault may have
left the log, and where a second right answer matters. `Alike`: what the holder of
`lsm.mu` is about to install is the same map as what it replaces, with the memtable of
this process and with what the log has of it. `Story`: memtable, log and tree are the map that
was written, or lack just one write that has failed. The steps of `Alike` are
`MergeKeepsMap` again, once for each of the two maps.

`Living`, of `LiveValuesOnDiskAlways`, cannot use the order, which a scan has taken. It follows one
version, the newest of a key that is owed: nothing newer is anywhere (`Latest`); it is in the
memtable, in the log or in a file that the step in progress neither removes nor
overwrites (`Kept`); and a compaction that is to remove it has it among its outputs
(`Copied`). That the outputs of a compaction have the newest of their inputs is
`CompactionLossless`, whatever the order of the levels: `DoCompact` goes by time stamps.

**`WalProofs`**, for any modes and mix of modes, writers, sizes of records, initial size
and number of records:

- `PeriodicBoundAlways` and `CloseSyncsAlways`. The invariant counts what is not
  synced (`Counted`) and says where the token of an append that is not synced is
  (`Promised`).
- `ReplayCompleteAlways` and `AckedSurvivesAlways`, both of a log that was fresh or has been
  reset since it was opened, and `ImplementsLogAlways`, deaf logs included. `Replayed` is a
  recursive function of the position, so nothing is known of it before it is
  shown that the recursion ends (`WalkIs`): it goes on behind every position, so the
  positions where it could fail are finitely many and have a last one, which cannot be
  one (`LastPosition`). What the walk finds is proved in the same way (`WalkFinds`,
  `WalkAppend`, `WalkCovers`). `Reaches` says without the recursion that the walk
  comes to a position; a record appended there is found, one appended elsewhere changes
  nothing. `LogInv` is the invariant: records lie in order before `writeAt`
  (`Sizes`); a sync leaves out nothing older (`Syncs`); the walk comes to `writeAt` in
  a log that is fresh or not deaf (`Heard`); what it has missed when the file is opened
  was synced, or is torn (`Missed`); and where the power does not fail a deaf log stays deaf
  (`Stumbles`). The refinement needs all five, as a loss of power may take the very
  record that made the walk stumble.

**`UringProofs`**, for any ring: `FirstsSurviveAlways`, `BufferHeldAlways`, `FlushCompleteAlways`.
The invariant says that a flush for an append offers the whole ring, so that the next
record is in slot 0 again (`Ring`, `Queued`), relates submissions, completions and the
operations under way (`Counting`), and says where the first record of each ring is
(`Lasting`). `SlotsDiffer` and `SlotAgain` are the arithmetic of the slots.

**`SSTableProofs`**, for any keys, `Step` and number of entries: `GetExactAlways` and
`ScanShortAlways`. The invariant says what the index is (one entry in `Step`, so
neighbours are `Step` apart: `Indexed`), what the binary search knows of the keys
outside of its bounds (`Searching`), and what the scan knows of the entries behind it
and of the one that stops it (`Scanning`). `NextMultiple` is the arithmetic of
`count % step`.

**`FlushProofs`**, for any keys, lengths, hash functions, `Step` and first size of the mapping:

- `SizeExactAlways`, and `SizeExactAlone` for a memtable that is never flushed. `MapThenSumSet` is
  a recursive function on the subsets of a finite set. Where nothing is known of such a function,
  it has to be shown that it exists (`SummingExists`), that there is one value only
  (`SummingUnique`), and that any element may be the first (`TotalRemove`): each by a
  minimal subset for which it would not be so (`MinimalSet`). The invariant `MemInv` adds
  that there is one entry for a key, which is what makes the differences right.
- `FlushExactAlways`. `Appending` says what the writer has after some entries: they lie one
  behind the other from offset 0, each whole; every entry of the index has the key and the offset of
  one of them, the first of the first and the last of one less than `Step` before the end; the
  filter has the positions of all their keys. `Closed` says the same of the finished file, with
  three blocks behind that are no entries. That the entries are those of the memtable is
  `EntriesAre`: the cached keys are `Ascending` of the keys there are (`MemInv`), and
  `AscendingIs` shows that it lists each of them once.
- `FlushFailsBelowDoublingsAlways`. `Fits` is the invariant: a mapping that has grown
  is longer than the entries, and they are longer than its half, or just as long, when one
  of them has half of the bytes. `Ended` carries it to the end of the flush. That a size is found for the mapping rests on
  `BoundAssumption`: the powers of two of the model (ten doublings, 64 to 2^20 bits) are
  enough for `MaxNow` entries of any of the lengths; the code doubles without a bound.

**`LifecycleProofs`**, for any readers, writers and calls of `Close`, with an asynchronous
log or without: `TypeCorrect`, `EngineQuietAlways` and `FailsOnlyLateAlways`. None is
inductive. `IInv` adds who holds `lsm.mu` by where his call stands (`Holding`), that
a `Close` past its waits finds the goroutine gone (`Waited`, `Drained`), and that
tables and log are unmapped by a `Close` that holds `lsm.mu` or has returned (`Owned`); so a call that
gets `lsm.mu` and finds them unmapped comes after that return. There is one lemma
for each action.

Only model-checked: liveness (`OverflowDrains`, `AsyncSyncs`, `FlushReturns`,
`CloseReturns`, `CallsReturn`), which is beyond the prover here. All other properties of the
runs that pass are theorems. The library's induction theorems take an operator and cannot be used
here; where the proofs need induction (the walk of `Replay`, ranks, numbers of files, sums) it is
an argument by a least or a last element of a finite set.

## What is not modelled

- The wall clock being set back: versions are ordered by the clock in all models. (Entries
  of a batch are stamped one nanosecond apart, which is less than it takes to append one.)
- `NoWAL`; `Stats` other than `LevelSizes`.
- That an error of `asyncWriter`'s sync stays with the log and fails every later
  append (`wal.go:132`).
- The checksums of a file, and files of the older format LSM1, which only `openV1` reads.
- More than one fault in one history. Of growing the log, that its `Munmap` fails
  (`wal.go:173`): the mapping would stay, and only this append fail.
- `cmd` and `bench`: they drive and measure the engine.

## Plan

The core, recovery, faults, shutdown, both logs, the merge and the files are modelled.
What would add most next:

1. `LsmRecovery` on top of `Log` by `INSTANCE`.
2. A clock that may stand still or go back, with an order of writes of its own.
