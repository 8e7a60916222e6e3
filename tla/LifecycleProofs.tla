-------------------------- MODULE LifecycleProofs --------------------------
(***************************************************************************)
(* Shutting down meets nobody, for any number of clients and of callers of *)
(* Close.                                                                  *)
(*                                                                         *)
(* The invariant says who has lsm.mu by where everyone is (Holding), that  *)
(* whoever has waited in Close did so for compactionLoop's end (Waited),   *)
(* and what the end of asyncWriter says of its channel (Drained); what is  *)
(* unmapped belongs to the one who has lsm.mu and is closing, or a Close   *)
(* has returned (Owned).                                                   *)
(***************************************************************************)
EXTENDS Lifecycle, TLAPS

Holding ==
  /\ \A r \in Readers : pc[r] \in {"out", "lock", "in"}
  /\ \A w \in Writers : /\ pc[w] \in {"out", "lock", "append", "apply", "doubling"}
                        /\ pc[w] \notin {"out", "lock"} <=> holder = w
  /\ \A k \in Closers : /\ pc[k] \in {"out", "wait", "lock", "tables", "log", "drain",
                                      "unmap", "returned"}
                        /\ pc[k] \in {"tables", "log", "drain", "unmap"} <=> holder = k
  /\ loop = "turn" <=> holder = Compactor

Waited ==
  /\ \A k \in Closers : pc[k] \notin {"out", "wait"} => loop = "gone"
  /\ ~tables => loop = "gone"

Drained ==
  /\ writer = "gone" => ~dirty
  /\ writer \in {"last", "gone"} => ~asyncCh /\ (Async => asyncClosed)
  /\ ~Async => writer = "gone" /\ ~asyncClosed
  /\ ~log => writer = "gone"
  /\ \A k \in Closers : /\ pc[k] = "drain" => Async
                        /\ pc[k] = "unmap" => writer = "gone"

\* The one who has lsm.mu is in one of the steps ss of Close.
ClosingAt(ss) == \E k \in Closers : pc[k] \in ss

Owned ==
  /\ ~tables => Closed \/ ClosingAt({"log", "drain", "unmap"})
  /\ asyncClosed => Closed \/ ClosingAt({"drain", "unmap"})
  /\ asyncClosed => ~log \/ ClosingAt({"drain", "unmap"})
  /\ ~log => Closed

IInv == TypeOK /\ Holding /\ Waited /\ Drained /\ Owned /\ FailsOnlyLate

\* It holds of an engine that has been opened.
THEOREM InitIInv == Init => IInv
  BY LifecycleAssumption
  DEF Init, IInv, TypeOK, Holding, Waited, Drained, Owned, FailsOnlyLate, Closed, ClosingAt,
      Clients

USE LifecycleAssumption DEF Clients

\* A client's step leaves everyone else where they are.
LEMMA ClientPc ==
  ASSUME TypeOK, NEW c \in Clients, NEW from,
         NEW to \in {"out", "lock", "in", "append", "apply", "doubling"},
         Goes(c, from, to)
  PROVE  /\ pc[c] = from /\ pc'[c] = to
         /\ \A d \in Clients \cup Closers : d # c => pc'[d] = pc[d]
         /\ \A k \in Closers : k # c /\ pc'[k] = pc[k]
         /\ pc' \in [Clients \cup Closers ->
              {"out", "lock", "in", "append", "apply", "doubling", "wait", "tables",
               "log", "drain", "unmap", "returned"}]
         /\ Closed' = Closed
         /\ \A ss : ClosingAt(ss)' = ClosingAt(ss)
  BY DEF Goes, TypeOK, Closed, ClosingAt

\* The clients: calls, reads and writes, before and after a Close.
LEMMA CallIInv ==
  ASSUME IInv, NEW c \in Clients, Call(c)
  PROVE  IInv'
  <1>1. Goes(c, "out", "lock")
    BY DEF Call
  <1>2. TypeOK'
    BY <1>1, ClientPc DEF IInv, TypeOK, Call, mutex, engine, wal
  <1>3. Holding'
    BY <1>1, ClientPc DEF IInv, Holding, Call, mutex, engine, wal
  <1>4. Waited' /\ Drained' /\ Owned' /\ FailsOnlyLate'
    BY <1>1, ClientPc DEF IInv, Waited, Drained, Owned, FailsOnlyLate, Call, mutex, engine, wal
  <1> QED BY <1>2, <1>3, <1>4 DEF IInv

\* A Get begins when nobody has lsm.mu alone.
LEMMA RLockIInv ==
  ASSUME IInv, NEW r \in Readers, RLock(r)
  PROVE  IInv'
  <1>1. r \in Clients /\ Goes(r, "lock", "in")
    BY DEF RLock
  <1>2. TypeOK'
    BY <1>1, ClientPc DEF IInv, TypeOK, RLock, mutex, engine, wal
  <1>3. Holding'
    BY <1>1, ClientPc DEF IInv, Holding, TypeOK, RLock, mutex, engine, wal
  <1>4. Waited'
    BY <1>1, ClientPc DEF IInv, Waited, RLock, mutex, engine, wal
  <1>5. Drained'
    BY <1>1, ClientPc DEF IInv, Drained, RLock, mutex, engine, wal
  <1>6. Owned'
    BY <1>1, ClientPc DEF IInv, Owned, RLock, mutex, engine, wal
  <1>7. FailsOnlyLate'
    BY <1>1, ClientPc DEF IInv, FailsOnlyLate, RLock, mutex, engine, wal
  <1> QED BY <1>2, <1>3, <1>4, <1>5, <1>6, <1>7 DEF IInv

\* It panics only if Close has returned: while it reads no one can be closing.
LEMMA GetIInv ==
  ASSUME IInv, NEW r \in Readers, Get(r)
  PROVE  IInv'
  <1>1. r \in Clients /\ Goes(r, "in", "out")
    BY DEF Get
  <1>2. TypeOK'
    <2>1. readers' = readers \ {r} /\ holder' = holder
      BY DEF Get
    <2>2. /\ readers \subseteq Readers /\ readers = {c \in Readers : pc[c] = "in"}
          /\ holder \in Clients \cup Closers \cup {Compactor, Nobody}
          /\ holder # Nobody => readers = {}
      BY DEF IInv, TypeOK
    <2>3. \A c \in Readers : pc'[c] = "in" <=> pc[c] = "in" /\ c # r
      BY <1>1, ClientPc DEF IInv
    <2>4. readers' = {c \in Readers : pc'[c] = "in"}
      BY <1>1, <2>1, <2>2, <2>3
    <2>5. /\ loop' \in {"select", "lock", "turn", "gone"}
          /\ writer' \in {"select", "sync", "last", "gone"}
          /\ {compactCh, cancelled, tables, log, asyncCh, dirty, asyncClosed, crashed}'
               \subseteq BOOLEAN
      BY DEF IInv, TypeOK, Get, mutex, engine, wal
    <2>6. pc' \in [Clients \cup Closers ->
              {"out", "lock", "in", "append", "apply", "doubling", "wait", "tables",
               "log", "drain", "unmap", "returned"}]
      BY <1>1, ClientPc DEF IInv
    <2> QED BY <2>1, <2>2, <2>4, <2>5, <2>6 DEF TypeOK
  <1>3. Holding'
    BY <1>1, ClientPc DEF IInv, Holding, TypeOK, Get, mutex, engine, wal
  <1>4. Waited'
    BY <1>1, ClientPc DEF IInv, Waited, Get, mutex, engine, wal
  <1>5. Drained'
    BY <1>1, ClientPc DEF IInv, Drained, Get, mutex, engine, wal
  <1>6. Owned'
    BY <1>1, ClientPc DEF IInv, Owned, Get, mutex, engine, wal
  <1>7. FailsOnlyLate'
    <2>1. holder = Nobody
      BY <1>1, ClientPc DEF IInv, TypeOK
    <2>2. ~ClosingAt({"log", "drain", "unmap"})
      BY <2>1 DEF IInv, Holding, ClosingAt
    <2>3. ~tables => Closed
      BY <2>2 DEF IInv, Owned
    <2> QED BY <2>3, <1>1, ClientPc DEF IInv, FailsOnlyLate, Get, engine
  <1> QED BY <1>2, <1>3, <1>4, <1>5, <1>6, <1>7 DEF IInv

\* A writer has lsm.mu for itself.
LEMMA LockIInv ==
  ASSUME IInv, NEW w \in Writers, Lock(w)
  PROVE  IInv'
  <1>1. w \in Clients /\ Goes(w, "lock", "append")
    BY DEF Lock
  <1>2. TypeOK'
    BY <1>1, ClientPc DEF IInv, TypeOK, Free, Lock, mutex, engine, wal
  <1>3. Holding'
    BY <1>1, ClientPc DEF IInv, Holding, TypeOK, Free, Lock, mutex, engine, wal
  <1>4. Waited'
    BY <1>1, ClientPc DEF IInv, Waited, Lock, mutex, engine, wal
  <1>5. Drained'
    BY <1>1, ClientPc DEF IInv, Drained, Lock, mutex, engine, wal
  <1>6. Owned'
    BY <1>1, ClientPc DEF IInv, Owned, Lock, mutex, engine, wal
  <1>7. FailsOnlyLate'
    BY <1>1, ClientPc DEF IInv, FailsOnlyLate, Lock, mutex, engine, wal
  <1> QED BY <1>2, <1>3, <1>4, <1>5, <1>6, <1>7 DEF IInv

\* A writer that appends to a mapped log sends no token to an asyncWriter that is stopping.
LEMMA AppendIInv ==
  ASSUME IInv, NEW w \in Writers, AppendRaw(w)
  PROVE  IInv'
  <1>1. w \in Clients /\ Goes(w, "append", "apply")
    BY DEF AppendRaw
  <1>2. TypeOK'
    BY <1>1, ClientPc DEF IInv, TypeOK, AppendRaw, mutex, engine, wal
  <1>3. Holding'
    BY <1>1, ClientPc DEF IInv, Holding, TypeOK, AppendRaw, mutex, engine, wal
  <1>4. Waited'
    BY <1>1, ClientPc DEF IInv, Waited, AppendRaw, mutex, engine, wal
  <1>5. Drained'
    BY <1>1, ClientPc
    DEF IInv, Drained, Owned, Holding, ClosingAt, AppendRaw, mutex, engine, wal
  <1>6. Owned'
    BY <1>1, ClientPc DEF IInv, Owned, AppendRaw, mutex, engine, wal
  <1>7. FailsOnlyLate'
    BY <1>1, ClientPc DEF IInv, FailsOnlyLate, AppendRaw, mutex, engine, wal
  <1> QED BY <1>2, <1>3, <1>4, <1>5, <1>6, <1>7 DEF IInv

\* The log is unmapped only after a Close.
LEMMA AppendForeverIInv ==
  ASSUME IInv, NEW w \in Writers, AppendForever(w)
  PROVE  IInv'
  <1>1. w \in Clients /\ Goes(w, "append", "doubling")
    BY DEF AppendForever
  <1>2. TypeOK'
    BY <1>1, ClientPc DEF IInv, TypeOK, AppendForever, mutex, engine, wal
  <1>3. Holding'
    BY <1>1, ClientPc DEF IInv, Holding, TypeOK, AppendForever, mutex, engine, wal
  <1>4. Waited'
    BY <1>1, ClientPc DEF IInv, Waited, AppendForever, mutex, engine, wal
  <1>5. Drained'
    BY <1>1, ClientPc DEF IInv, Drained, AppendForever, mutex, engine, wal
  <1>6. Owned'
    BY <1>1, ClientPc DEF IInv, Owned, AppendForever, mutex, engine, wal
  <1>7. FailsOnlyLate'
    BY <1>1, ClientPc DEF IInv, FailsOnlyLate, Owned, AppendForever, mutex, engine, wal
  <1> QED BY <1>2, <1>3, <1>4, <1>5, <1>6, <1>7 DEF IInv

\* A write ends.
LEMMA ApplyIInv ==
  ASSUME IInv, NEW w \in Writers, Apply(w)
  PROVE  IInv'
  <1>1. w \in Clients /\ Goes(w, "apply", "out")
    BY DEF Apply
  <1>2. TypeOK'
    <2>1. readers' = readers /\ holder' = Nobody
      BY DEF Apply
    <2>2. /\ readers \subseteq Readers /\ readers = {c \in Readers : pc[c] = "in"}
          /\ holder \in Clients \cup Closers \cup {Compactor, Nobody}
          /\ holder # Nobody => readers = {}
      BY DEF IInv, TypeOK
    <2>3. \A c \in Readers : pc'[c] = "in" <=> pc[c] = "in" /\ c # w
      BY <1>1, ClientPc DEF IInv
    <2>4. readers' = {c \in Readers : pc'[c] = "in"}
      BY <1>1, <2>1, <2>2, <2>3
    <2>5. /\ loop' \in {"select", "lock", "turn", "gone"}
          /\ writer' \in {"select", "sync", "last", "gone"}
          /\ {compactCh, cancelled, tables, log, asyncCh, dirty, asyncClosed, crashed}'
               \subseteq BOOLEAN
      BY DEF IInv, TypeOK, Apply, mutex, engine, wal
    <2>6. pc' \in [Clients \cup Closers ->
              {"out", "lock", "in", "append", "apply", "doubling", "wait", "tables",
               "log", "drain", "unmap", "returned"}]
      BY <1>1, ClientPc DEF IInv
    <2> QED BY <2>1, <2>2, <2>4, <2>5, <2>6 DEF TypeOK
  <1>3. Holding'
    BY <1>1, ClientPc DEF IInv, Holding, TypeOK, Apply, mutex, engine, wal
  <1>4. Waited'
    BY <1>1, ClientPc DEF IInv, Waited, Apply, mutex, engine, wal
  <1>5. Drained'
    BY <1>1, ClientPc DEF IInv, Drained, Apply, mutex, engine, wal
  <1>6. Owned'
    BY <1>1, ClientPc DEF IInv, Owned, Apply, mutex, engine, wal
  <1>7. FailsOnlyLate'
    BY <1>1, ClientPc DEF IInv, FailsOnlyLate, Apply, mutex, engine, wal
  <1> QED BY <1>2, <1>3, <1>4, <1>5, <1>6, <1>7 DEF IInv

\* compactionLoop takes a token.
LEMMA LoopReceiveIInv ==
  ASSUME IInv, LoopReceive
  PROVE  IInv'
  <1>1. TypeOK'
    BY DEF IInv, TypeOK, LoopReceive, wal, mutex, engine
  <1>2. Holding'
    BY DEF IInv, Holding, TypeOK, LoopReceive, wal, mutex, engine
  <1>3. Waited'
    BY DEF IInv, Waited, LoopReceive, wal, mutex, engine
  <1>4. Drained'
    BY DEF IInv, Drained, TypeOK, LoopReceive, wal, mutex, engine
  <1>5. Owned'
    BY DEF IInv, Owned, Closed, ClosingAt, LoopReceive, wal, mutex, engine
  <1>6. FailsOnlyLate'
    BY DEF IInv, FailsOnlyLate, Closed, LoopReceive, wal, mutex, engine
  <1> QED BY <1>1, <1>2, <1>3, <1>4, <1>5, <1>6 DEF IInv

\* It ends.
LEMMA LoopDoneIInv ==
  ASSUME IInv, LoopDone
  PROVE  IInv'
  <1>1. TypeOK'
    BY DEF IInv, TypeOK, LoopDone, wal, mutex, engine
  <1>2. Holding'
    BY DEF IInv, Holding, TypeOK, LoopDone, wal, mutex, engine
  <1>3. Waited'
    BY DEF IInv, Waited, LoopDone, wal, mutex, engine
  <1>4. Drained'
    BY DEF IInv, Drained, TypeOK, LoopDone, wal, mutex, engine
  <1>5. Owned'
    BY DEF IInv, Owned, Closed, ClosingAt, LoopDone, wal, mutex, engine
  <1>6. FailsOnlyLate'
    BY DEF IInv, FailsOnlyLate, Closed, LoopDone, wal, mutex, engine
  <1> QED BY <1>1, <1>2, <1>3, <1>4, <1>5, <1>6 DEF IInv

\* It has lsm.mu for itself.
LEMMA LoopLockIInv ==
  ASSUME IInv, LoopLock
  PROVE  IInv'
  <1>1. TypeOK'
    BY DEF IInv, TypeOK, Free, LoopLock, wal, mutex, engine
  <1>2. Holding'
    BY DEF IInv, Holding, TypeOK, Free, LoopLock, wal, mutex, engine
  <1>3. Waited'
    BY DEF IInv, Waited, LoopLock, wal, mutex, engine
  <1>4. Drained'
    BY DEF IInv, Drained, TypeOK, LoopLock, wal, mutex, engine
  <1>5. Owned'
    BY DEF IInv, Owned, Closed, ClosingAt, LoopLock, wal, mutex, engine
  <1>6. FailsOnlyLate'
    BY DEF IInv, FailsOnlyLate, Closed, LoopLock, wal, mutex, engine
  <1> QED BY <1>1, <1>2, <1>3, <1>4, <1>5, <1>6 DEF IInv

\* The tables it merges are mapped while there is a compactionLoop.
LEMMA LoopTurnIInv ==
  ASSUME IInv, LoopTurn
  PROVE  IInv'
  <1>1. TypeOK'
    BY DEF IInv, TypeOK, LoopTurn, wal, mutex, engine
  <1>2. Holding'
    BY DEF IInv, Holding, TypeOK, LoopTurn, wal, mutex, engine
  <1>3. Waited'
    BY DEF IInv, Waited, LoopTurn, wal, mutex, engine
  <1>4. Drained'
    BY DEF IInv, Drained, TypeOK, LoopTurn, wal, mutex, engine
  <1>5. Owned'
    BY DEF IInv, Owned, Closed, ClosingAt, LoopTurn, wal, mutex, engine
  <1>6. FailsOnlyLate'
    BY DEF IInv, FailsOnlyLate, Closed, Waited, LoopTurn, wal, mutex, engine
  <1> QED BY <1>1, <1>2, <1>3, <1>4, <1>5, <1>6 DEF IInv

\* asyncWriter takes a token before it sees the channel closed.
LEMMA WriterReceiveIInv ==
  ASSUME IInv, WriterReceive
  PROVE  IInv'
  <1>1. TypeOK'
    BY DEF IInv, TypeOK, WriterReceive, wal, mutex, engine
  <1>2. Holding'
    BY DEF IInv, Holding, TypeOK, WriterReceive, wal, mutex, engine
  <1>3. Waited'
    BY DEF IInv, Waited, WriterReceive, wal, mutex, engine
  <1>4. Drained'
    BY DEF IInv, Drained, TypeOK, WriterReceive, wal, mutex, engine
  <1>5. Owned'
    BY DEF IInv, Owned, Closed, ClosingAt, WriterReceive, wal, mutex, engine
  <1>6. FailsOnlyLate'
    BY DEF IInv, FailsOnlyLate, Closed, WriterReceive, wal, mutex, engine
  <1> QED BY <1>1, <1>2, <1>3, <1>4, <1>5, <1>6 DEF IInv

\* It syncs, or stops at a channel that is closed and empty.
LEMMA WriterSyncIInv ==
  ASSUME IInv, WriterSync
  PROVE  IInv'
  <1>1. TypeOK'
    BY DEF IInv, TypeOK, WriterSync, wal, mutex, engine
  <1>2. Holding'
    BY DEF IInv, Holding, TypeOK, WriterSync, wal, mutex, engine
  <1>3. Waited'
    BY DEF IInv, Waited, WriterSync, wal, mutex, engine
  <1>4. Drained'
    BY DEF IInv, Drained, TypeOK, WriterSync, wal, mutex, engine
  <1>5. Owned'
    BY DEF IInv, Owned, Closed, ClosingAt, WriterSync, wal, mutex, engine
  <1>6. FailsOnlyLate'
    BY DEF IInv, FailsOnlyLate, Closed, WriterSync, wal, mutex, engine
  <1> QED BY <1>1, <1>2, <1>3, <1>4, <1>5, <1>6 DEF IInv

\* It has synced.
LEMMA WriterSyncedIInv ==
  ASSUME IInv, WriterSynced
  PROVE  IInv'
  <1>1. TypeOK'
    BY DEF IInv, TypeOK, WriterSynced, wal, mutex, engine
  <1>2. Holding'
    BY DEF IInv, Holding, TypeOK, WriterSynced, wal, mutex, engine
  <1>3. Waited'
    BY DEF IInv, Waited, WriterSynced, wal, mutex, engine
  <1>4. Drained'
    BY DEF IInv, Drained, TypeOK, WriterSynced, wal, mutex, engine
  <1>5. Owned'
    BY DEF IInv, Owned, Closed, ClosingAt, WriterSynced, wal, mutex, engine
  <1>6. FailsOnlyLate'
    BY DEF IInv, FailsOnlyLate, Closed, WriterSynced, wal, mutex, engine
  <1> QED BY <1>1, <1>2, <1>3, <1>4, <1>5, <1>6 DEF IInv

\* A step of Close leaves everyone else where they are.
LEMMA CloserPc ==
  ASSUME TypeOK, NEW k \in Closers, NEW from,
         NEW to \in {"wait", "lock", "tables", "log", "drain", "unmap", "returned"},
         Goes(k, from, to), from # "returned"
  PROVE  /\ pc[k] = from /\ pc'[k] = to
         /\ \A d \in Clients \cup Closers : d # k => pc'[d] = pc[d]
         /\ \A c \in Clients : pc'[c] = pc[c]
         /\ pc' \in [Clients \cup Closers ->
              {"out", "lock", "in", "append", "apply", "doubling", "wait", "tables",
               "log", "drain", "unmap", "returned"}]
         /\ Closed => Closed'
         /\ to = "returned" => Closed'
  BY DEF Goes, TypeOK, Closed

\* Close cancels compactionLoop's context.
LEMMA CloseCancelIInv ==
  ASSUME IInv, NEW k \in Closers, CloseCancel(k)
  PROVE  IInv'
  <1>1. Goes(k, "out", "wait")
    BY DEF CloseCancel
  <1>2. TypeOK'
    BY <1>1, CloserPc DEF IInv, TypeOK, CloseCancel, wal, mutex, engine
  <1>3. Holding'
    BY <1>1, CloserPc DEF IInv, Holding, TypeOK, CloseCancel, wal, mutex, engine
  <1>4. Waited'
    BY <1>1, CloserPc DEF IInv, Waited, CloseCancel, wal, mutex, engine
  <1>5. Drained'
    BY <1>1, CloserPc DEF IInv, Drained, TypeOK, CloseCancel, wal, mutex, engine
  <1>6. Owned'
    BY <1>1, CloserPc DEF IInv, Owned, Holding, ClosingAt, CloseCancel, wal, mutex, engine
  <1>7. FailsOnlyLate'
    BY <1>1, CloserPc DEF IInv, FailsOnlyLate, CloseCancel, wal, mutex, engine
  <1> QED BY <1>2, <1>3, <1>4, <1>5, <1>6, <1>7 DEF IInv

\* It waits for compactionLoop.
LEMMA CloseWaitIInv ==
  ASSUME IInv, NEW k \in Closers, CloseWait(k)
  PROVE  IInv'
  <1>1. Goes(k, "wait", "lock")
    BY DEF CloseWait
  <1>2. TypeOK'
    BY <1>1, CloserPc DEF IInv, TypeOK, CloseWait, wal, mutex, engine
  <1>3. Holding'
    BY <1>1, CloserPc DEF IInv, Holding, TypeOK, CloseWait, wal, mutex, engine
  <1>4. Waited'
    BY <1>1, CloserPc DEF IInv, Waited, CloseWait, wal, mutex, engine
  <1>5. Drained'
    BY <1>1, CloserPc DEF IInv, Drained, TypeOK, CloseWait, wal, mutex, engine
  <1>6. Owned'
    BY <1>1, CloserPc DEF IInv, Owned, Holding, ClosingAt, CloseWait, wal, mutex, engine
  <1>7. FailsOnlyLate'
    BY <1>1, CloserPc DEF IInv, FailsOnlyLate, CloseWait, wal, mutex, engine
  <1> QED BY <1>2, <1>3, <1>4, <1>5, <1>6, <1>7 DEF IInv

\* It waits for lsm.mu.
LEMMA CloseLockIInv ==
  ASSUME IInv, NEW k \in Closers, CloseLock(k)
  PROVE  IInv'
  <1>1. Goes(k, "lock", "tables")
    BY DEF CloseLock
  <1>2. TypeOK'
    BY <1>1, CloserPc DEF IInv, TypeOK, Free, CloseLock, wal, mutex, engine
  <1>3. Holding'
    BY <1>1, CloserPc DEF IInv, Holding, TypeOK, Free, CloseLock, wal, mutex, engine
  <1>4. Waited'
    BY <1>1, CloserPc DEF IInv, Waited, CloseLock, wal, mutex, engine
  <1>5. Drained'
    BY <1>1, CloserPc DEF IInv, Drained, TypeOK, CloseLock, wal, mutex, engine
  <1>6. Owned'
    BY <1>1, CloserPc DEF IInv, Owned, Holding, ClosingAt, CloseLock, wal, mutex, engine
  <1>7. FailsOnlyLate'
    BY <1>1, CloserPc DEF IInv, FailsOnlyLate, CloseLock, wal, mutex, engine
  <1> QED BY <1>2, <1>3, <1>4, <1>5, <1>6, <1>7 DEF IInv

\* It unmaps the tables; compactionLoop is gone.
LEMMA CloseTablesIInv ==
  ASSUME IInv, NEW k \in Closers, CloseTables(k)
  PROVE  IInv'
  <1>1. Goes(k, "tables", "log")
    BY DEF CloseTables
  <1>2. TypeOK'
    BY <1>1, CloserPc DEF IInv, TypeOK, CloseTables, wal, mutex, engine
  <1>3. Holding'
    BY <1>1, CloserPc DEF IInv, Holding, TypeOK, CloseTables, wal, mutex, engine
  <1>4. Waited'
    BY <1>1, CloserPc DEF IInv, Waited, CloseTables, wal, mutex, engine
  <1>5. Drained'
    BY <1>1, CloserPc DEF IInv, Drained, TypeOK, CloseTables, wal, mutex, engine
  <1>6. Owned'
    BY <1>1, CloserPc DEF IInv, Owned, Holding, ClosingAt, CloseTables, wal, mutex, engine
  <1>7. FailsOnlyLate'
    BY <1>1, CloserPc DEF IInv, FailsOnlyLate, CloseTables, wal, mutex, engine
  <1> QED BY <1>2, <1>3, <1>4, <1>5, <1>6, <1>7 DEF IInv

\* The channel of asyncWriter is closed by one who has lsm.mu; that it was closed
\* before means that a Close has returned.
LEMMA CloseLogIInv ==
  ASSUME IInv, NEW k \in Closers, CloseLog(k)
  PROVE  IInv'
  <1>1. Goes(k, "log", IF Async THEN "drain" ELSE "unmap")
    BY DEF CloseLog
  <1>2. TypeOK'
    BY <1>1, CloserPc DEF IInv, TypeOK, CloseLog, wal, mutex, engine
  <1>3. Holding'
    BY <1>1, CloserPc DEF IInv, Holding, TypeOK, CloseLog, wal, mutex, engine
  <1>4. Waited'
    BY <1>1, CloserPc DEF IInv, Waited, CloseLog, wal, mutex, engine
  <1>5. Drained'
    BY <1>1, CloserPc DEF IInv, Drained, TypeOK, CloseLog, wal, mutex, engine
  <1>6. Owned'
    BY <1>1, CloserPc DEF IInv, Owned, Holding, ClosingAt, CloseLog, wal, mutex, engine
  <1>7. FailsOnlyLate'
    BY <1>1, CloserPc
    DEF IInv, FailsOnlyLate, Owned, Holding, ClosingAt, CloseLog, wal, mutex, engine
  <1> QED BY <1>2, <1>3, <1>4, <1>5, <1>6, <1>7 DEF IInv

\* It waits for asyncWriter.
LEMMA CloseDrainIInv ==
  ASSUME IInv, NEW k \in Closers, CloseDrain(k)
  PROVE  IInv'
  <1>1. Goes(k, "drain", "unmap")
    BY DEF CloseDrain
  <1>2. TypeOK'
    BY <1>1, CloserPc DEF IInv, TypeOK, CloseDrain, wal, mutex, engine
  <1>3. Holding'
    BY <1>1, CloserPc DEF IInv, Holding, TypeOK, CloseDrain, wal, mutex, engine
  <1>4. Waited'
    BY <1>1, CloserPc DEF IInv, Waited, CloseDrain, wal, mutex, engine
  <1>5. Drained'
    BY <1>1, CloserPc DEF IInv, Drained, TypeOK, CloseDrain, wal, mutex, engine
  <1>6. Owned'
    BY <1>1, CloserPc DEF IInv, Owned, Holding, ClosingAt, CloseDrain, wal, mutex, engine
  <1>7. FailsOnlyLate'
    BY <1>1, CloserPc DEF IInv, FailsOnlyLate, CloseDrain, wal, mutex, engine
  <1> QED BY <1>2, <1>3, <1>4, <1>5, <1>6, <1>7 DEF IInv

\* It unmaps the log; asyncWriter is gone.
LEMMA CloseUnmapIInv ==
  ASSUME IInv, NEW k \in Closers, CloseUnmap(k)
  PROVE  IInv'
  <1>1. Goes(k, "unmap", "returned")
    BY DEF CloseUnmap
  <1>2. TypeOK'
    <2>1. readers' = readers /\ holder' = Nobody
      BY DEF CloseUnmap
    <2>2. /\ readers \subseteq Readers /\ readers = {c \in Readers : pc[c] = "in"}
          /\ holder \in Clients \cup Closers \cup {Compactor, Nobody}
          /\ holder # Nobody => readers = {}
      BY DEF IInv, TypeOK
    <2>3. \A c \in Readers : pc'[c] = "in" <=> pc[c] = "in" /\ c # k
      BY <1>1, CloserPc DEF IInv
    <2>4. readers' = {c \in Readers : pc'[c] = "in"}
      BY <1>1, <2>1, <2>2, <2>3
    <2>5. /\ loop' \in {"select", "lock", "turn", "gone"}
          /\ writer' \in {"select", "sync", "last", "gone"}
          /\ {compactCh, cancelled, tables, log, asyncCh, dirty, asyncClosed, crashed}'
               \subseteq BOOLEAN
      BY DEF IInv, TypeOK, CloseUnmap, wal, mutex, engine
    <2>6. pc' \in [Clients \cup Closers ->
              {"out", "lock", "in", "append", "apply", "doubling", "wait", "tables",
               "log", "drain", "unmap", "returned"}]
      BY <1>1, CloserPc DEF IInv
    <2> QED BY <2>1, <2>2, <2>4, <2>5, <2>6 DEF TypeOK
  <1>3. Holding'
    BY <1>1, CloserPc DEF IInv, Holding, TypeOK, CloseUnmap, wal, mutex, engine
  <1>4. Waited'
    BY <1>1, CloserPc DEF IInv, Waited, CloseUnmap, wal, mutex, engine
  <1>5. Drained'
    BY <1>1, CloserPc DEF IInv, Drained, TypeOK, CloseUnmap, wal, mutex, engine
  <1>6. Owned'
    BY <1>1, CloserPc DEF IInv, Owned, Holding, ClosingAt, CloseUnmap, wal, mutex, engine
  <1>7. FailsOnlyLate'
    BY <1>1, CloserPc DEF IInv, FailsOnlyLate, CloseUnmap, wal, mutex, engine
  <1> QED BY <1>2, <1>3, <1>4, <1>5, <1>6, <1>7 DEF IInv

\* Every step of clients, compactionLoop, asyncWriter and Close, and every stutter,
\* preserves the invariant.
LEMMA NextIInv ==
  ASSUME IInv, [Next]_vars
  PROVE  IInv'
  <1>1. CASE Next
    BY <1>1, CallIInv, RLockIInv, GetIInv, LockIInv, AppendIInv, AppendForeverIInv, ApplyIInv,
       LoopReceiveIInv, LoopDoneIInv, LoopLockIInv, LoopTurnIInv, WriterReceiveIInv,
       WriterSyncIInv, WriterSyncedIInv, CloseCancelIInv, CloseWaitIInv, CloseLockIInv,
       CloseTablesIInv, CloseLogIInv, CloseDrainIInv, CloseUnmapIInv
    DEF Next, Writing, Looping, AsyncWriter, Closing
  <1>2. CASE UNCHANGED vars
    BY <1>2 DEF vars, mutex, engine, wal, IInv, TypeOK, Holding, Waited, Drained, Owned,
                FailsOnlyLate, Closed, ClosingAt
  <1> QED BY <1>1, <1>2

\* So it holds as long as the process runs: Close unmaps only what it has waited for,
\* and has lsm.mu for itself from the tables to the log.
THEOREM IInvAlways == Spec => []IInv
  BY InitIInv, NextIInv, PTL DEF Spec

\* The variables keep their types, and no Get reads while a write, a merge or a Close
\* has lsm.mu.
THEOREM TypeCorrect == Spec => []TypeOK
  BY IInvAlways, PTL DEF IInv

\* No goroutine of the engine is left when Close unmaps what it uses: compactWg.Wait
\* comes before the tables, <-asyncDone before the log.
THEOREM EngineQuietAlways == Spec => []EngineQuiet
  <1>1. IInv => EngineQuiet
    BY DEF IInv, Waited, Drained, EngineQuiet
  <1> QED BY <1>1, IInvAlways, PTL

\* A call that panics or never ends was made of an engine that is closed: while a
\* Close is under way it has lsm.mu, and every call waits.
THEOREM FailsOnlyLateAlways == Spec => []FailsOnlyLate
  <1>1. IInv => FailsOnlyLate
    BY DEF IInv
  <1> QED BY <1>1, IInvAlways, PTL
=============================================================================
