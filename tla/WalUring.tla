------------------------------ MODULE WalUring ------------------------------
(***************************************************************************)
(* The write-ahead log in the mode SyncIouring: records are written through *)
(* a pair of rings shared with the kernel.                                 *)
(*                                                                         *)
(*  - The log takes no lock here: its one client is the engine, which      *)
(*    holds lsm.mu through every append, Reset and Close.                  *)
(*  - The n-th record of a ring is n; its offset in the file and the index *)
(*    of its buffer follow from n.                                         *)
(*  - The kernel takes all entries it is offered or refuses the call,      *)
(*    performs what it has taken in any order (no entry is linked to       *)
(*    another), and at most MaxFailures times fails or cuts one short.     *)
(*  - io_uring_enter waits for completions, and may be interrupted by a    *)
(*    signal, which the Go runtime sends to preempt a goroutine.           *)
(*  - The ring has an index array, through which the kernel finds the slot *)
(*    of an entry: the flag newIORing asks for, bit 12, is the kernel's     *)
(*    IORING_SETUP_SINGLE_ISSUER and not IORING_SETUP_NO_SQARRAY, and a     *)
(*    kernel that refuses it is asked again without any.  The kernel hands *)
(*    the array out zeroed and submitWrite never fills it.                 *)
(***************************************************************************)
EXTENDS Naturals, Sequences, FiniteSets

CONSTANTS Entries,      \* iouringDepth: slots of the ring, and buffers
          MaxRecords,   \* bound on the records of one ring
          MaxFailures   \* bound on the operations that fail

ASSUME UringAssumption ==
  /\ Entries \in Nat /\ Entries >= 2 /\ Entries % 2 = 0
  /\ MaxRecords \in Nat /\ MaxFailures \in Nat

VARIABLES
  exists,     \* the file is there, with at least its version byte
  pc,         \* of the client: "down", "idle", "enter", "wait", "reap", "fill"
              \* or "truncate"
  call,       \* what it is in: "append", "reset", "close" or "shut"
  offset,     \* records put into the ring
  sqes, sqHead, sqTail,
  writeBufs,  \* the record each buffer holds, 0 for none
  inflight,   \* operations the kernel has taken and not completed
  cq,         \* the completions not reaped
  count,      \* reap's variable
  written,    \* the records the file holds
  flushed,    \* history: the last flush of this call returned no error
  early,      \* history: a signal had completions of this ring reaped too early
  failures    \* history: operations that failed

ring == <<offset, sqes, sqHead, sqTail, writeBufs, inflight, cq, written>>
vars == <<exists, pc, call, ring, count, flushed, early, failures>>

Slots == 0 .. Entries - 1
Slot(n) == n % Entries
Index(n) == (n - 1) % Entries       \* of the buffer of record n
NoOp == [op |-> "none", rec |-> 0]

\* The index array, as the kernel makes it.
array == [s \in Slots |-> 0]

\* newIORing.
NewRing ==
  /\ offset' = 0 /\ sqHead' = 0 /\ sqTail' = 0
  /\ sqes' = [s \in Slots |-> NoOp]
  /\ writeBufs' = [s \in Slots |-> 0]
  /\ inflight' = {} /\ cq' = << >> /\ written' = {}

Idle == call' = "none" /\ count' = 0 /\ flushed' = FALSE

Init ==
  /\ exists = FALSE /\ pc = "down" /\ call = "none" /\ count = 0
  /\ offset = 0 /\ sqHead = 0 /\ sqTail = 0
  /\ sqes = [s \in Slots |-> NoOp]
  /\ writeBufs = [s \in Slots |-> 0]
  /\ inflight = {} /\ cq = << >> /\ written = {}
  /\ flushed = FALSE /\ early = FALSE /\ failures = 0
-----------------------------------------------------------------------------
(* New, and what is done about a file that is left over.                   *)

\* New refuses a file that is not empty: "existing WAL must be recreated".
New ==
  /\ pc = "down" /\ ~exists
  /\ exists' = TRUE /\ pc' = "idle"
  /\ NewRing /\ Idle
  /\ early' = FALSE /\ UNCHANGED failures

\* So whoever opens the log again has removed it.
Recreate ==
  /\ pc = "down" /\ exists
  /\ exists' = FALSE
  /\ NewRing
  /\ UNCHANGED <<pc, call, count, flushed, early, failures>>
-----------------------------------------------------------------------------
(* submitWrite.                                                            *)

\* Broken: it forgets to count what is to be added.
FullLate == sqTail - sqHead > Entries

Full == sqTail - sqHead + 2 > Entries

\* A write of the record, and an fsync of its own.
Fill ==
  LET n == offset + 1
  IN  /\ offset' = n
      /\ writeBufs' = [writeBufs EXCEPT ![Index(n)] = n]
      /\ sqes' = [sqes EXCEPT ![Slot(sqTail)] = [op |-> "write", rec |-> n],
                              ![Slot(sqTail + 1)] = [op |-> "fsync", rec |-> n]]
      /\ sqTail' = sqTail + 2
      /\ pc' = "idle" /\ Idle
      /\ UNCHANGED <<exists, sqHead, inflight, cq, written, early, failures>>

Flush(for) == /\ pc' = "enter" /\ call' = for
              /\ UNCHANGED <<exists, ring, count, flushed, early, failures>>

SubmitWrite ==
  /\ pc = "idle" /\ offset < MaxRecords
  /\ IF Full THEN Flush("append") ELSE Fill

SubmitFilled == pc = "fill" /\ Fill
-----------------------------------------------------------------------------
(* flush.                                                                  *)

\* An append goes on or returns the error; Reset and Close ignore it, and
\* Close, which has flushed once, has the ring flush again.
Return(ok) ==
  /\ flushed' = ok
  /\ count' = 0
  /\ call' = CASE call = "append" -> "none" [] call = "close" -> "shut" [] OTHER -> call
  /\ pc' = CASE call = "append" -> (IF ok THEN "fill" ELSE "idle")
             [] call = "close" -> "enter"
             [] OTHER -> "truncate"

FlushNothing ==
  /\ pc = "enter" /\ sqTail = sqHead
  /\ Return(TRUE)
  /\ UNCHANGED <<exists, ring, early, failures>>

\* What the kernel takes for entry i, whose number tells it from its equals.
Taken(i) == LET sqe == sqes[array[Slot(i)]]
            IN  [op |-> sqe.op, rec |-> sqe.rec, entry |-> i]

Enter ==
  /\ pc = "enter" /\ sqTail > sqHead
  /\ inflight' = inflight \cup {Taken(i) : i \in sqHead .. sqTail - 1}
  /\ sqHead' = sqTail
  /\ count' = sqTail - sqHead
  /\ pc' = "wait"
  /\ UNCHANGED <<exists, call, offset, sqes, sqTail, writeBufs, cq, written, flushed, early,
                 failures>>

EnterFails ==
  /\ pc = "enter" /\ sqTail > sqHead
  /\ Return(FALSE)
  /\ UNCHANGED <<exists, ring, early, failures>>

\* Broken: it is content with one completion.
EnteredOne ==
  /\ pc = "wait" /\ Len(cq) >= 1
  /\ pc' = "reap"
  /\ UNCHANGED <<exists, call, ring, count, flushed, early, failures>>

Entered ==
  /\ pc = "wait" /\ Len(cq) >= count
  /\ pc' = "reap"
  /\ UNCHANGED <<exists, call, ring, count, flushed, early, failures>>

Interrupted ==
  /\ pc = "wait" /\ Len(cq) < count
  /\ pc' = "reap"
  /\ early' = TRUE
  /\ UNCHANGED <<exists, call, ring, count, flushed, failures>>
-----------------------------------------------------------------------------
(* reap.                                                                   *)

\* It waits for the rest.
ReapWait ==
  /\ pc = "reap" /\ cq = << >>
  /\ pc' = "wait"
  /\ UNCHANGED <<exists, call, ring, count, flushed, early, failures>>

ReapError ==
  /\ pc = "reap" /\ cq # << >> /\ ~Head(cq).ok
  /\ cq' = Tail(cq)
  /\ Return(FALSE)
  /\ UNCHANGED <<exists, offset, sqes, sqHead, sqTail, writeBufs, inflight, written, early,
                 failures>>

Reaped == IF count < Len(cq) THEN count ELSE Len(cq)

\* Broken: it counts what it looked at and not what it drops.
ReapBatchCountsOne ==
  /\ pc = "reap" /\ cq # << >> /\ Head(cq).ok
  /\ writeBufs' = [writeBufs EXCEPT ![Index(Head(cq).rec)] = 0]
  /\ cq' = SubSeq(cq, Reaped + 1, Len(cq))
  /\ IF count = 1
     THEN Return(TRUE)
     ELSE count' = count - 1 /\ UNCHANGED <<pc, call, flushed>>
  /\ UNCHANGED <<exists, offset, sqes, sqHead, sqTail, inflight, written, early, failures>>

\* All it has are dropped, but each time it looks at the first of them.
ReapBatch ==
  /\ pc = "reap" /\ cq # << >> /\ Head(cq).ok
  /\ writeBufs' = [writeBufs EXCEPT ![Index(Head(cq).rec)] = 0]
  /\ cq' = SubSeq(cq, Reaped + 1, Len(cq))
  /\ IF Reaped = count
     THEN Return(TRUE)
     ELSE count' = count - Reaped /\ UNCHANGED <<pc, call, flushed>>
  /\ UNCHANGED <<exists, offset, sqes, sqHead, sqTail, inflight, written, early, failures>>
-----------------------------------------------------------------------------
(* Reset and Close.                                                        *)

\* Reset closes the ring, which flushes it.
Reset == pc = "idle" /\ Flush("reset")

\* It truncates the file, writes the version byte and makes a new ring, the first
\* record of which takes the place of that byte.
ResetTruncate ==
  /\ pc = "truncate" /\ call = "reset"
  /\ pc' = "idle"
  /\ NewRing /\ Idle
  /\ early' = FALSE /\ UNCHANGED <<exists, failures>>

Close == pc = "idle" /\ Flush("close")

\* It cuts the file at writeAt, which the appends of this mode do not move.
CloseTruncate ==
  /\ pc = "truncate" /\ call = "shut"
  /\ pc' = "down"
  /\ NewRing /\ Idle
  /\ early' = FALSE /\ UNCHANGED <<exists, failures>>
-----------------------------------------------------------------------------
(* The kernel, and the end of the process.                                 *)

Held(o) == writeBufs[Index(o.rec)] = o.rec

\* A write puts what its buffer holds into the file; memory that reap has let go of
\* holds the record still, or anything else.
Lands(o) ==
  written' \in CASE o.op = "fsync" -> {written}
                [] Held(o) -> {written \cup {o.rec}}
                [] OTHER -> {written \cup {o.rec}, written \ {o.rec}}

Perform(o) ==
  /\ inflight' = inflight \ {o}
  /\ \/ /\ cq' = Append(cq, [rec |-> o.rec, ok |-> TRUE])
        /\ Lands(o)
        /\ UNCHANGED failures
     \/ /\ failures < MaxFailures
        /\ \/ cq' = Append(cq, [rec |-> o.rec, ok |-> FALSE])
           \/ o.op = "write" /\ cq' = Append(cq, [rec |-> o.rec, ok |-> TRUE])
        /\ failures' = failures + 1
        /\ UNCHANGED written
  /\ UNCHANGED <<exists, pc, call, offset, sqes, sqHead, sqTail, writeBufs, count, flushed,
                 early>>

Kernel == \E o \in inflight : Perform(o)

\* SIGKILL.  Any of the operations under way still happen.
Kill ==
  /\ pc # "down"
  /\ pc' = "down" /\ Idle
  /\ LET writes == {o \in inflight : o.op = "write"}
     IN  \E done \in SUBSET {o.rec : o \in writes},
            spoilt \in SUBSET {o.rec : o \in {w \in writes : ~Held(w)}} :
           written' = (written \cup done) \ spoilt
  /\ sqHead' = 0 /\ sqTail' = 0
  /\ sqes' = [s \in Slots |-> NoOp] /\ writeBufs' = [s \in Slots |-> 0]
  /\ inflight' = {} /\ cq' = << >>
  /\ UNCHANGED <<exists, offset, early, failures>>
-----------------------------------------------------------------------------
Client == \/ SubmitFilled
          \/ FlushNothing \/ Enter \/ Entered
          \/ ReapWait \/ ReapError \/ ReapBatch
          \/ ResetTruncate \/ CloseTruncate

Next == \/ New \/ Recreate \/ SubmitWrite \/ Reset \/ Close
        \/ Client \/ EnterFails \/ Interrupted
        \/ Kernel \/ Kill

\* The kernel completes what it has taken, and the goroutine in a call is run.
Spec == Init /\ [][Next]_vars /\ WF_vars(Kernel) /\ WF_vars(Client)
-----------------------------------------------------------------------------
(* What makes it correct.                                                  *)

\* The records that slot 0 holds the write of: the first of every Entries \div 2.
Firsts == {n \in 1 .. offset : Slot(2 * n - 2) = 0}

\* Every entry is taken from slot 0, so of each ring that is flushed the file gets the
\* first record, as often as there are entries, and never another one: a process that
\* is killed leaves these, the last excepted if it was not flushed.  No document says
\* how much SyncIouring may lose.  (If the kernel fails nothing and no signal comes
\* between: then even a first record may be missing.)
FirstsSurvive ==
  failures = 0 /\ ~early =>
    /\ written \subseteq Firsts
    /\ \A n \in Firsts : n + Entries \div 2 <= offset => n \in written

\* The Go memory a write under way reads from is kept alive by writeBufs, until its
\* completion has been reaped: reap releases by index, which all the writes of one
\* flush share, and may not do so at the first of their completions.  (If the kernel
\* fails nothing and no signal comes between.)
BufferHeld ==
  failures = 0 /\ ~early => \A o \in inflight : o.op = "write" => Held(o)

\* When an append goes on, or the file is truncated, no write of the ring is under way,
\* which could land among the records of the next one, and no completion is left for
\* the next flush to count; even if the flush has given up.  One that returned no error
\* has put the first record of every ring into the file, and no other, if no signal
\* came between.  (If the kernel fails nothing: reap gives up at the first operation
\* that fails and leaves the other completions, which FlushReturns is about.)
FlushComplete ==
  failures = 0 /\ pc \in {"fill", "truncate"} =>
    /\ inflight = {} /\ cq = << >>
    /\ flushed /\ ~early => written = Firsts

\* A flush does not wait for a completion that never comes, even after a failed one has
\* left others behind: whoever calls the log gets an answer.
FlushReturns == pc \notin {"idle", "down"} ~> pc \in {"idle", "down"}
=============================================================================
