-------------------------------- MODULE Wal --------------------------------
(***************************************************************************)
(* The write-ahead log (package wal): New, then Replay and Reset as the    *)
(* engine recovers, appends and resets as w.mu lets them interleave, and   *)
(* Close; with the three mapped sync modes, the goroutine of SyncAsync,    *)
(* SIGKILL and loss of power at any point.                                 *)
(*                                                                         *)
(*  - Each process opens the log in one of its modes.                      *)
(*  - The package guards itself with w.mu, so several clients may append   *)
(*    and reset; the engine is one client, it holds lsm.mu.  Nothing is    *)
(*    called during Close or after it, as lsm.mu and the engine's own      *)
(*    shutdown have it.                                                    *)
(*  - The file is known by its length and by the extents its records take; *)
(*    the version byte is at offset 0 and every other byte is zero.  The   *)
(*    first byte of a record, its number of entries, is never zero.        *)
(*  - w.mu is held through an append's writeToMmap, one step, and through  *)
(*    Reset, which is cut where a kill leaves different files behind.      *)
(*  - A record whose bytes are not all there fails its CRC.                *)
(*  - Truncate, and growing the file, take effect in order and for good;   *)
(*    what a loss of power may undo is bytes written since the last sync.  *)
(***************************************************************************)
EXTENDS Naturals, Sequences, FiniteSets

CONSTANTS Modes,         \* of "always", "periodic" and "async"
          Writers,       \* clients that append
          RecordSizes,   \* the lengths of the records, in bytes
          InitialSize,   \* initialMmapSize, 64 MB in the code
          SyncEvery,     \* appends between the syncs of SyncPeriodic, 100
          MaxRecords,    \* bound on the number of appends
          PowerMayFail

\* As in 64 MB, one byte and whole empty batches do not fill the file.
ASSUME SizesAssumption ==
  /\ RecordSizes \subseteq {n \in Nat : n > 5}
  /\ InitialSize \in Nat /\ InitialSize % 5 = 4
  /\ SyncEvery \in Nat \ {0}
  /\ MaxRecords \in Nat
  /\ Modes \subseteq {"always", "periodic", "async"}
  /\ PowerMayFail \in BOOLEAN

VARIABLES
  size,      \* the length of the file and, while it is open, of its mapping
  recs,      \* the extents of the file: [id, at, len, torn]
  synced,    \* the records a sync has put on the disk
  mode,
  life,      \* "down", "opened", "up", "resetting", "closing" or "drained"
  writeAt, pending,
  asyncCh, dirty,   \* the token in the channel, and asyncWriter's variable
  flushed,   \* asyncWriter has synced and not yet cleared dirty
  writing,   \* of each writer: the record it has copied, 0 for none
  fresh,     \* history: the file was empty when opened, or has been reset
  acked,     \* history: the records whose append to this process has returned
  appends    \* history: the number of appends

file == <<size, recs, synced>>
how == <<mode, fresh>>
vars == <<size, recs, synced, how, life, writeAt, pending, asyncCh, dirty, flushed,
          writing, acked, appends>>

Ids(rs) == {r.id : r \in rs}

Init ==
  /\ size = 0 /\ recs = {} /\ synced = {}
  /\ mode \in Modes /\ fresh = FALSE
  /\ life = "down" /\ writeAt = 0 /\ pending = 0
  /\ asyncCh = FALSE /\ dirty = FALSE /\ flushed = FALSE
  /\ writing = [w \in Writers |-> 0]
  /\ acked = {} /\ appends = 0
-----------------------------------------------------------------------------
(* Replay.                                                                 *)

ZeroAt(rs, p) == \A r \in rs : p < r.at \/ p >= r.at + r.len

\* The record at p, if it is whole and ends before end.
RecordAt(rs, p, end) == {r \in rs : r.at = p /\ ~r.torn /\ p + r.len <= end}

\* Five zeros are a batch of no entries with the CRC of nothing, which is 0.
EmptyBatchAt(rs, p, end) == p + 5 <= end /\ \A q \in p .. p + 4 : ZeroAt(rs, q)

\* What the loop of Replay returns from each position, when writeAt is end: it takes
\* whole records and skips empty batches.  A record that is torn, or met out of
\* step, ends the log.
Walk(rs, end) ==
  LET from[p \in 1 .. end] ==
        LET here == RecordAt(rs, p, end)
        IN  IF here # {}
            THEN LET r == CHOOSE r \in here : TRUE IN <<r.id>> \o from[p + r.len]
            ELSE IF EmptyBatchAt(rs, p, end) THEN from[p + 5] ELSE << >>
  IN  from

Replay(rs, end) == IF end = 0 THEN << >> ELSE Walk(rs, end)[1]

Replayed(end) == Replay(recs, end)
-----------------------------------------------------------------------------
(* New, recovery, Reset and Close.                                         *)

\* New writes the version byte to an empty file, and maps a file that has
\* nothing else at its initial size; any other is mapped and appended to at
\* its end.
New ==
  /\ life = "down"
  /\ life' = "opened"
  /\ mode' \in Modes /\ fresh' = (size <= 1)
  /\ writeAt' = IF size = 0 THEN 1 ELSE size
  /\ size' = IF size <= 1 THEN InitialSize ELSE size
  /\ UNCHANGED <<recs, synced, pending, asyncCh, dirty, flushed, writing, acked,
                 appends>>

Truncated == size' = 0 /\ recs' = {} /\ synced' = {} /\ acked' = {}

\* recoverWAL of the engine: Replay, and Reset if there was something.
Recover ==
  /\ life = "opened"
  /\ \/ Replayed(writeAt) = << >> /\ life' = "up" /\ UNCHANGED <<file, acked>>
     \/ Replayed(writeAt) # << >> /\ life' = "resetting" /\ Truncated
  /\ UNCHANGED <<how, writeAt, pending, asyncCh, dirty, flushed, writing, appends>>

\* Reset unmaps the file and truncates it ...
ResetTruncate ==
  /\ life = "up"
  /\ life' = "resetting"
  /\ Truncated
  /\ UNCHANGED <<how, writeAt, pending, asyncCh, dirty, flushed, writing, appends>>

\* ... writes the version byte ...
ResetVersion ==
  /\ life = "resetting" /\ size = 0
  /\ size' = 1
  /\ UNCHANGED <<how, recs, synced, life, writeAt, pending, asyncCh, dirty, flushed,
                 writing, acked, appends>>

\* Broken: writeAt is left where it was.
ResetMapKeepsWriteAt ==
  /\ life = "resetting" /\ size = 1
  /\ life' = "up"
  /\ size' = InitialSize
  /\ fresh' = TRUE
  /\ UNCHANGED <<mode, writeAt, recs, synced, pending, asyncCh, dirty, flushed, writing,
                 acked, appends>>

\* ... and maps the file again.  It leaves pending and the goroutine alone.
ResetMap ==
  /\ life = "resetting" /\ size = 1
  /\ life' = "up"
  /\ size' = InitialSize
  /\ fresh' = TRUE
  /\ writeAt' = 1
  /\ UNCHANGED <<mode, recs, synced, pending, asyncCh, dirty, flushed, writing, acked,
                 appends>>

\* Close, under lsm.mu: it closes the channel and waits for asyncWriter ...
Close ==
  /\ life = "up"
  /\ \A w \in Writers : writing[w] = 0
  /\ life' = IF mode = "async" THEN "closing" ELSE "drained"
  /\ UNCHANGED <<how, file, writeAt, pending, asyncCh, dirty, flushed, writing, acked,
                 appends>>

\* ... unmaps the file and cuts it at writeAt.
CloseTruncate ==
  /\ life = "drained"
  /\ life' = "down"
  /\ size' = writeAt
  /\ writeAt' = 0 /\ pending' = 0 /\ dirty' = FALSE
  /\ fresh' = FALSE /\ acked' = {}
  /\ UNCHANGED <<mode, recs, synced, asyncCh, flushed, writing, appends>>
-----------------------------------------------------------------------------
(* AppendRaw.                                                              *)

\* writeToMmap doubles the file until the record fits.
Doubled(need) ==
  LET from[n \in 1 .. 2 * need] == IF n >= need THEN n ELSE from[2 * n]
  IN  from[2 * size]

SizeFor(need) == IF need > size THEN Doubled(need) ELSE size

\* Under w.mu the record is copied to the mapping.  SyncAlways then syncs,
\* SyncAsync signals, SyncPeriodic syncs once in SyncEvery times.
AppendRaw(w, len) ==
  /\ life = "up" /\ writing[w] = 0
  /\ appends < MaxRecords
  /\ appends' = appends + 1
  /\ writeAt' = writeAt + len
  /\ size' = SizeFor(writeAt + len)
  /\ recs' = recs \cup {[id |-> appends', at |-> writeAt, len |-> len, torn |-> FALSE]}
  /\ \/ /\ mode = "periodic" /\ pending + 1 < SyncEvery
        /\ pending' = pending + 1
        /\ acked' = acked \cup {appends'}
        /\ UNCHANGED writing
     \/ /\ mode # "periodic" \/ pending + 1 >= SyncEvery
        /\ pending' = 0
        /\ writing' = [writing EXCEPT ![w] = appends']
        /\ UNCHANGED acked
  /\ UNCHANGED <<how, synced, life, asyncCh, dirty, flushed>>

Return(w) ==
  /\ acked' = acked \cup ({writing[w]} \cap Ids(recs))
  /\ writing' = [writing EXCEPT ![w] = 0]
  /\ UNCHANGED <<how, size, recs, life, writeAt, pending, dirty, flushed, appends>>

\* Broken: the sync covers the record of its caller only.
SyncOwnOnly(w) ==
  /\ writing[w] # 0 /\ mode # "async"
  /\ synced' = synced \cup ({writing[w]} \cap Ids(recs))
  /\ Return(w)
  /\ UNCHANGED asyncCh

\* fdatasync puts on the disk what has been copied to the mapping by now.
Sync(w) ==
  /\ writing[w] # 0 /\ mode # "async"
  /\ synced' = Ids(recs)
  /\ Return(w)
  /\ UNCHANGED asyncCh

Signal(w) ==
  /\ writing[w] # 0 /\ mode = "async"
  /\ asyncCh' = TRUE
  /\ Return(w)
  /\ UNCHANGED synced
-----------------------------------------------------------------------------
(* asyncWriter.                                                            *)

Selecting == mode = "async" /\ life \notin {"down", "drained"} /\ ~flushed

AsyncReceive ==
  /\ Selecting /\ asyncCh
  /\ asyncCh' = FALSE /\ dirty' = TRUE
  /\ UNCHANGED <<how, file, life, writeAt, pending, flushed, writing, acked, appends>>

\* A tick with dirty set: it syncs, and then clears dirty.
AsyncFlush ==
  /\ Selecting /\ dirty
  /\ synced' = Ids(recs)
  /\ flushed' = TRUE
  /\ UNCHANGED <<how, size, recs, life, writeAt, pending, asyncCh, dirty, writing, acked,
                 appends>>

\* Broken: it drains the channel as well.
AsyncClearDrains ==
  /\ flushed
  /\ asyncCh' = FALSE /\ dirty' = FALSE /\ flushed' = FALSE
  /\ UNCHANGED <<how, file, life, writeAt, pending, writing, acked, appends>>

AsyncClear ==
  /\ flushed
  /\ dirty' = FALSE /\ flushed' = FALSE
  /\ UNCHANGED <<how, file, life, writeAt, pending, asyncCh, writing, acked, appends>>

\* Broken: it stops at once.
AsyncStopEarly ==
  /\ Selecting /\ life = "closing"
  /\ life' = "drained"
  /\ synced' = IF dirty THEN Ids(recs) ELSE synced
  /\ UNCHANGED <<how, size, recs, writeAt, pending, asyncCh, dirty, flushed, writing,
                 acked, appends>>

\* The channel is closed, which shows when its token is gone.
AsyncStop ==
  /\ Selecting /\ life = "closing" /\ ~asyncCh
  /\ life' = "drained"
  /\ synced' = IF dirty THEN Ids(recs) ELSE synced
  /\ UNCHANGED <<how, size, recs, writeAt, pending, asyncCh, dirty, flushed, writing,
                 acked, appends>>
-----------------------------------------------------------------------------
(* SIGKILL and loss of power.                                              *)

Gone ==
  /\ life # "down"
  /\ life' = "down"
  /\ writeAt' = 0 /\ pending' = 0
  /\ asyncCh' = FALSE /\ dirty' = FALSE /\ flushed' = FALSE
  /\ fresh' = FALSE /\ UNCHANGED mode
  /\ writing' = [w \in Writers |-> 0]
  /\ acked' = {}

\* A kill leaves the file as it is; it may fall into the copying of a record.
Kill ==
  /\ Gone
  /\ \/ UNCHANGED <<size, recs, appends>>
     \/ /\ life = "up" /\ appends < MaxRecords
        /\ appends' = appends + 1
        /\ \E len \in RecordSizes :
             /\ size' = SizeFor(writeAt + len)
             /\ recs' = recs \cup
                        {[id |-> appends', at |-> writeAt, len |-> len, torn |-> TRUE]}
  /\ UNCHANGED synced

\* Of the records that are not synced each is on the disk, or torn, or not.
PowerLoss ==
  /\ PowerMayFail
  /\ Gone
  /\ \E whole, torn \in SUBSET (Ids(recs) \ synced) :
       recs' = {r \in recs : r.id \in synced \cup (whole \ torn)}
                 \cup {[r EXCEPT !.torn = TRUE] : r \in {q \in recs : q.id \in torn}}
  /\ synced' = Ids(recs')
  /\ UNCHANGED <<size, appends>>

AsyncWriter == AsyncReceive \/ AsyncFlush \/ AsyncClear \/ AsyncStop

Next ==
  \/ New \/ Recover \/ ResetTruncate \/ ResetVersion \/ ResetMap
  \/ Close \/ CloseTruncate
  \/ \E w \in Writers : \/ \E len \in RecordSizes : AppendRaw(w, len)
                        \/ Sync(w) \/ Signal(w)
  \/ AsyncWriter
  \/ Kill \/ PowerLoss

Spec == Init /\ [][Next]_vars

\* The ticker fires, the goroutine is scheduled, and select is fair.
FairSpec == /\ Spec
            /\ WF_vars(AsyncReceive) /\ WF_vars(AsyncFlush) /\ WF_vars(AsyncClear)
-----------------------------------------------------------------------------
(* What makes it correct.                                                  *)

\* Appends go where Replay does not come: the file was opened behind zeros, and
\* is not going to be reset.
Deaf == /\ life \notin {"down", "resetting"}
        /\ ~fresh
        /\ Replayed(writeAt) = << >>

\* All records of the file, in the order in which they were appended.
Complete(found) ==
  /\ {found[i] : i \in DOMAIN found} = Ids(recs)
  /\ \A i, j \in DOMAIN found : i < j => found[i] < found[j]

\* In a log that was fresh or has been reset, Replay would find the records
\* appended since, all of them and in order, both with the process' writeAt and
\* with the file's length as a process that starts after a kill has it.
ReplayComplete ==
  life = "up" /\ fresh => Complete(Replayed(writeAt)) /\ Complete(Replayed(size))

\* bench/compare: "SyncAlways : fsync per 1k batch; each batch durable".  After
\* a loss of power Replay finds every record whose append had returned, if the
\* log was fresh or has been reset.
AckedSurvives ==
  [][PowerLoss /\ mode = "always" /\ fresh =>
       \A id \in acked : \E i \in DOMAIN Replayed(size)' : Replayed(size)'[i] = id]_vars

\* SyncPeriodic: but for appends that are about to sync, pending counts what
\* a loss of power could take: fewer than SyncEvery records.  So it is when
\* Close, which does not sync in this mode, is about to cut the file.
PeriodicBound ==
  mode = "periodic" /\ life \in {"up", "drained"} /\ (\A w \in Writers : writing[w] = 0) =>
    Cardinality(acked \ synced) <= pending

\* SyncAsync: Close leaves nothing unsynced, though asyncWriter may have a
\* token to receive and a tick to come when the channel is closed.
CloseSyncs ==
  mode = "async" /\ life = "drained" => acked \subseteq synced

\* bench/compare: "SyncAsync: up to ~10ms of writes lost on crash".  What an
\* append has left is synced some time later, or the log is reset or the
\* process stops: no token is lost between the appends and asyncWriter.
AsyncSyncs ==
  \A id \in 1 .. MaxRecords :
    (mode = "async" /\ id \in acked) ~> (id \in synced \/ id \notin acked)

\* What LsmRecovery assumes of the log: it keeps its records over kills, finds
\* them all, and is deaf just when its file was opened grown and without any.
L == INSTANCE Log WITH recs <- Replayed(size), grown <- size > 1, deaf <- Deaf

ImplementsLog == L!LogSpec
=============================================================================
