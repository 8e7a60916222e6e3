----------------------------- MODULE Lifecycle -----------------------------
(***************************************************************************)
(* Who waits for whom: clients, Close, compactionLoop and the log's        *)
(* asyncWriter, with lsm.mu, the two channels of capacity one and the      *)
(* signals of the shutdown.  What a holder of lsm.mu does to the data is   *)
(* in Lsm and LsmRecovery; here it is that it needs the tables or the log  *)
(* to be mapped.                                                           *)
(*                                                                         *)
(*  - lsm.closed and the log's closed are set and never read, so calls go  *)
(*    on while the engine is closed and after it.                          *)
(*  - A panic ends the process.                                            *)
(***************************************************************************)
EXTENDS Naturals, FiniteSets

CONSTANTS Readers,     \* clients that call Get
          Writers,     \* clients that call PutBatch or Delete
          Closers,     \* clients that call Close, each once
          Async,       \* the log is in the mode SyncAsync
          Compactor, Nobody

ASSUME LifecycleAssumption ==
  /\ IsFiniteSet(Readers \cup Writers \cup Closers)
  /\ Readers \cap (Writers \cup Closers) = {} /\ Writers \cap Closers = {}
  /\ {Compactor, Nobody} \cap (Readers \cup Writers \cup Closers) = {}
  /\ Compactor # Nobody /\ Async \in BOOLEAN

VARIABLES
  holder, readers,   \* lsm.mu: who has it, and who has it shared
  pc,                \* where each client is
  loop,              \* where compactionLoop is: "select", "lock", "turn", "gone"
  compactCh,         \* the token in the channel
  cancelled,         \* compactCtx is done
  tables,            \* the tables are mapped
  log,               \* the log is mapped and its file open
  writer,            \* where asyncWriter is: "select", "sync", "last", "gone"
  asyncCh, dirty,
  asyncClosed,       \* asyncCh is closed
  crashed            \* the process has ended in a panic

mutex == <<holder, readers>>
engine == <<loop, compactCh, cancelled, tables>>
wal == <<log, writer, asyncCh, dirty, asyncClosed>>
vars == <<mutex, pc, engine, wal, crashed>>

Clients == Readers \cup Writers
Free == holder = Nobody /\ readers = {}

Init ==
  /\ holder = Nobody /\ readers = {}
  /\ pc = [c \in Clients \cup Closers |-> "out"]
  /\ loop = "select" /\ compactCh = FALSE /\ cancelled = FALSE
  /\ tables = TRUE /\ log = TRUE
  /\ writer = IF Async THEN "select" ELSE "gone"
  /\ asyncCh = FALSE /\ dirty = FALSE /\ asyncClosed = FALSE
  /\ crashed = FALSE

Goes(c, from, to) == pc[c] = from /\ pc' = [pc EXCEPT ![c] = to]
-----------------------------------------------------------------------------
(* Get.                                                                    *)

Call(c) == ~crashed /\ Goes(c, "out", "lock") /\ UNCHANGED <<mutex, engine, wal, crashed>>

RLock(c) ==
  /\ ~crashed /\ Goes(c, "lock", "in")
  /\ holder = Nobody
  /\ readers' = readers \cup {c}
  /\ UNCHANGED <<holder, engine, wal, crashed>>

\* On a table that is no longer mapped a search that starts at its beginning
\* finds nothing, and any other panics.
Get(c) ==
  /\ ~crashed /\ Goes(c, "in", "out")
  /\ readers' = readers \ {c}
  /\ crashed' \in IF tables THEN {FALSE} ELSE BOOLEAN
  /\ UNCHANGED <<holder, engine, wal>>
-----------------------------------------------------------------------------
(* PutBatch and Delete.                                                    *)

Lock(w) ==
  /\ ~crashed /\ Goes(w, "lock", "append")
  /\ Free
  /\ holder' = w
  /\ UNCHANGED <<readers, engine, wal, crashed>>

\* The record is copied to the mapping and asyncWriter signalled.
AppendRaw(w) ==
  /\ ~crashed /\ log /\ Goes(w, "append", "apply")
  /\ asyncCh' = Async
  /\ UNCHANGED <<mutex, engine, log, writer, dirty, asyncClosed, crashed>>

\* writeToMmap doubles the length of a mapping that is nil until it is enough.
AppendForever(w) ==
  /\ ~crashed /\ ~log /\ Goes(w, "append", "doubling")
  /\ UNCHANGED <<mutex, engine, wal, crashed>>

\* Broken: the signal waits for its place in the channel.
ApplyBlocks(w) ==
  /\ ~crashed /\ Goes(w, "apply", "out")
  /\ ~compactCh
  /\ compactCh' \in BOOLEAN
  /\ holder' = Nobody
  /\ UNCHANGED <<readers, loop, cancelled, tables, wal, crashed>>

\* The write is applied; a flush at its end signals compactionLoop.
Apply(w) ==
  /\ ~crashed /\ Goes(w, "apply", "out")
  /\ \/ UNCHANGED compactCh
     \/ compactCh' = TRUE
  /\ holder' = Nobody
  /\ UNCHANGED <<readers, loop, cancelled, tables, wal, crashed>>
-----------------------------------------------------------------------------
(* compactionLoop.                                                         *)

LoopReceive ==
  /\ ~crashed /\ loop = "select" /\ compactCh
  /\ loop' = "lock" /\ compactCh' = FALSE
  /\ UNCHANGED <<mutex, pc, cancelled, tables, wal, crashed>>

LoopDone ==
  /\ ~crashed /\ loop = "select" /\ cancelled
  /\ loop' = "gone"
  /\ UNCHANGED <<mutex, pc, compactCh, cancelled, tables, wal, crashed>>

LoopLock ==
  /\ ~crashed /\ loop = "lock" /\ Free
  /\ loop' = "turn" /\ holder' = Compactor
  /\ UNCHANGED <<readers, pc, compactCh, cancelled, tables, wal, crashed>>

\* A merge of tables that are not mapped panics.
LoopTurn ==
  /\ ~crashed /\ loop = "turn"
  /\ loop' = "select" /\ holder' = Nobody
  /\ crashed' \in IF tables THEN {FALSE} ELSE BOOLEAN
  /\ UNCHANGED <<readers, pc, compactCh, cancelled, tables, wal>>
-----------------------------------------------------------------------------
(* asyncWriter.                                                            *)

WriterReceive ==
  /\ ~crashed /\ writer = "select" /\ asyncCh
  /\ asyncCh' = FALSE /\ dirty' = TRUE
  /\ UNCHANGED <<mutex, pc, engine, log, writer, asyncClosed, crashed>>

\* Broken: it does not see that the channel is closed.
WriterSyncOnTick ==
  /\ ~crashed /\ writer = "select" /\ dirty
  /\ writer' = "sync"
  /\ UNCHANGED <<mutex, pc, engine, log, asyncCh, dirty, asyncClosed, crashed>>

\* A tick, or the closed channel, whose token is received first.
WriterSync ==
  /\ ~crashed /\ writer = "select"
  /\ \/ dirty /\ writer' = "sync"
     \/ asyncClosed /\ ~asyncCh /\ writer' = IF dirty THEN "last" ELSE "gone"
  /\ UNCHANGED <<mutex, pc, engine, log, asyncCh, dirty, asyncClosed, crashed>>

WriterSynced ==
  /\ ~crashed /\ writer \in {"sync", "last"}
  /\ writer' = IF writer = "sync" THEN "select" ELSE "gone"
  /\ dirty' = FALSE
  /\ UNCHANGED <<mutex, pc, engine, log, asyncCh, asyncClosed, crashed>>
-----------------------------------------------------------------------------
(* Close.                                                                  *)

CloseCancel(k) ==
  /\ ~crashed /\ Goes(k, "out", "wait")
  /\ cancelled' = TRUE
  /\ UNCHANGED <<mutex, loop, compactCh, tables, wal, crashed>>

\* Broken: it does not wait.
CloseWaitNot(k) == ~crashed /\ Goes(k, "wait", "lock")
                   /\ UNCHANGED <<mutex, engine, wal, crashed>>

\* compactWg.Wait.
CloseWait(k) ==
  /\ ~crashed /\ Goes(k, "wait", "lock")
  /\ loop = "gone"
  /\ UNCHANGED <<mutex, engine, wal, crashed>>

\* Broken: a shared lock would do.
CloseLockShared(k) ==
  /\ ~crashed /\ Goes(k, "lock", "tables")
  /\ holder = Nobody
  /\ holder' = k
  /\ UNCHANGED <<readers, engine, wal, crashed>>

CloseLock(k) ==
  /\ ~crashed /\ Goes(k, "lock", "tables")
  /\ Free
  /\ holder' = k
  /\ UNCHANGED <<readers, engine, wal, crashed>>

CloseTables(k) ==
  /\ ~crashed /\ Goes(k, "tables", "log")
  /\ tables' = FALSE
  /\ UNCHANGED <<mutex, loop, compactCh, cancelled, wal, crashed>>

\* Close of the log closes the channel, which panics the second time ...
CloseLog(k) ==
  /\ ~crashed /\ Goes(k, "log", IF Async THEN "drain" ELSE "unmap")
  /\ asyncClosed' = Async
  /\ crashed' = asyncClosed
  /\ UNCHANGED <<mutex, engine, log, writer, asyncCh, dirty>>

\* ... waits for asyncWriter ...
CloseDrain(k) ==
  /\ ~crashed /\ Goes(k, "drain", "unmap")
  /\ writer = "gone"
  /\ UNCHANGED <<mutex, engine, wal, crashed>>

\* ... and unmaps and closes the file, the second time with an error.
CloseUnmap(k) ==
  /\ ~crashed /\ Goes(k, "unmap", "returned")
  /\ log' = FALSE
  /\ holder' = Nobody
  /\ UNCHANGED <<readers, engine, writer, asyncCh, dirty, asyncClosed, crashed>>
-----------------------------------------------------------------------------
Closing(k) == \/ CloseWait(k) \/ CloseTables(k) \/ CloseLog(k) \/ CloseDrain(k)
              \/ CloseUnmap(k)
Writing(w) == AppendRaw(w) \/ AppendForever(w) \/ Apply(w)
Looping == LoopReceive \/ LoopTurn
AsyncWriter == WriterReceive \/ WriterSync \/ WriterSynced

Next ==
  \/ \E c \in Clients : Call(c)
  \/ \E r \in Readers : RLock(r) \/ Get(r)
  \/ \E w \in Writers : Lock(w) \/ Writing(w)
  \/ Looping \/ LoopLock \/ LoopDone
  \/ AsyncWriter
  \/ \E k \in Closers : CloseCancel(k) \/ CloseLock(k) \/ Closing(k)

\* A goroutine that can go on does.  sync.RWMutex lets no one starve, and select
\* chooses among the ready cases at random: strong fairness.
Fairness ==
  /\ \A r \in Readers : SF_vars(RLock(r)) /\ WF_vars(Get(r))
  /\ \A w \in Writers : SF_vars(Lock(w)) /\ WF_vars(Writing(w))
  /\ WF_vars(Looping) /\ SF_vars(LoopLock) /\ SF_vars(LoopDone)
  /\ WF_vars(WriterReceive) /\ SF_vars(WriterSync) /\ WF_vars(WriterSynced)
  /\ \A k \in Closers : SF_vars(CloseLock(k)) /\ WF_vars(Closing(k))

Spec == Init /\ [][Next]_vars /\ Fairness
-----------------------------------------------------------------------------
(* What makes it correct.                                                  *)

\* The types of the variables; lsm.mu is not both held and shared.
TypeOK ==
  /\ holder \in Clients \cup Closers \cup {Compactor, Nobody}
  /\ readers \subseteq Readers
  /\ pc \in [Clients \cup Closers ->
              {"out", "lock", "in", "append", "apply", "doubling", "wait", "tables",
               "log", "drain", "unmap", "returned"}]
  /\ loop \in {"select", "lock", "turn", "gone"}
  /\ writer \in {"select", "sync", "last", "gone"}
  /\ {compactCh, cancelled, tables, log, asyncCh, dirty, asyncClosed, crashed}
       \subseteq BOOLEAN
  /\ readers = {r \in Readers : pc[r] = "in"}
  /\ holder # Nobody => readers = {}

Closed == \E k \in Closers : pc[k] = "returned"

\* What Close unmaps no goroutine of the engine is using or will use: compactionLoop
\* is gone before the tables are, with a token left in its channel perhaps, and
\* asyncWriter before the file is.
EngineQuiet ==
  /\ ~tables => loop = "gone"
  /\ ~log => writer = "gone" /\ ~dirty /\ ~asyncCh

\* A Get that panics, a write that never ends and a Close that panics came after a
\* Close: no call that has lsm.mu meets what is unmapped, and the first Close has
\* returned when one fails.
FailsOnlyLate ==
  crashed \/ (\E w \in Writers : pc[w] = "doubling") => Closed

\* Close returns, though clients go on calling and waking compactionLoop meanwhile:
\* the loop ends, the lock is got and asyncWriter drains.
CloseReturns == cancelled ~> Closed

\* No call waits for ever on an engine that is not closed: no one holds lsm.mu and
\* waits for somebody who needs it.
CallsReturn == \A c \in Clients : pc[c] # "out" ~> pc[c] = "out" \/ Closed
=============================================================================
