---------------------------- MODULE UringProofs ----------------------------
(***************************************************************************)
(* The log through io_uring, for a ring of any size, any number of records *)
(* and of kernel failures.                                                 *)
(*                                                                         *)
(* The invariant says how far the ring has got (Ring), what its slots and  *)
(* buffers hold for the records not submitted (Queued), that flush counts  *)
(* what is under way and what waits to be reaped (Counting), and where the *)
(* first record of a ring is: in the file, in slot 0 or with the kernel    *)
(* (Lasting).  What makes it the first, and no other, is that a flush for  *)
(* an append offers the whole ring, so that the next one starts at slot 0  *)
(* again (Ring).  Counting and Lasting are lost when an operation fails,   *)
(* Lasting when a signal has reap look at some completions before the      *)
(* others are there.                                                       *)
(***************************************************************************)
EXTENDS WalUring, FiniteSetTheorems, TLAPS

Half == Entries \div 2

W(n) == [op |-> "write", rec |-> n]

\* Record n is in the ring and the kernel has not been offered it.
Waiting(n) == n \in 1 .. offset /\ sqHead < 2 * n

Ring ==
  /\ offset \in Nat /\ sqHead \in Nat /\ sqTail \in Nat /\ failures \in Nat
  /\ DOMAIN sqes = Slots /\ DOMAIN writeBufs = Slots
  /\ sqes = [s \in Slots |-> sqes[s]] /\ writeBufs = [s \in Slots |-> writeBufs[s]]
  /\ pc \in {"down", "idle", "enter", "wait", "reap", "fill", "truncate"}
  /\ pc # "down" => /\ sqTail = 2 * offset /\ sqHead <= sqTail
                    /\ sqTail <= sqHead + Entries /\ sqHead % 2 = 0
  /\ pc \in {"wait", "reap", "fill"} => sqHead = sqTail
  /\ pc = "truncate" /\ flushed => sqHead = sqTail
  /\ pc = "enter" /\ call = "append" => sqTail = sqHead + Entries
  /\ pc \in {"idle", "fill"} \/ (pc # "down" /\ (call = "append" \/ sqHead < sqTail))
       => Slot(sqHead) = 0

Queued ==
  pc # "down" =>
    \A n \in 1 .. offset : Waiting(n) =>
      sqes[Slot(2 * n - 2)] = W(n) /\ writeBufs[Index(n)] = n

Completions == [rec : Nat, ok : {TRUE}]

Counting ==
  failures = 0 =>
    /\ IsFiniteSet(inflight)
    /\ \A o \in inflight : o.op = "write" /\ o.rec \in Firsts
    /\ cq \in Seq(Completions)
    /\ IF pc \in {"wait", "reap"}
       THEN count \in Nat \ {0} /\ count = Cardinality(inflight) + Len(cq)
       ELSE inflight = {} /\ cq = << >>

Lasting ==
  failures = 0 /\ ~early =>
    /\ written \subseteq Firsts
    /\ pc = "reap" => inflight = {}
    /\ \A o \in inflight : Held(o)
    /\ \A n \in Firsts : n + Half <= offset => n \in written
    /\ pc # "down" =>
         \A n \in Firsts : n \in written \/ Waiting(n) \/ \E o \in inflight : o.rec = n

IInv == Ring /\ Queued /\ Counting /\ Lasting

-----------------------------------------------------------------------------
(* Slots and buffers.                                                      *)

\* Numbers less than a ring apart do not share a slot.
LEMMA ModDistinct ==
  ASSUME NEW a \in Nat, NEW b \in Nat, NEW s \in Nat \ {0}, a < b, b < a + s
  PROVE  a % s # b % s
  <1> DEFINE q == a \div s
             r == b \div s
  <1>1. q \in Int /\ r \in Int
    OBVIOUS
  <1>2. a = (s * q) + (a % s)
    OBVIOUS
  <1>3. b = (s * r) + (b % s)
    OBVIOUS
  <1>4. SUFFICES ASSUME a % s = b % s PROVE FALSE
    OBVIOUS
  <1> HIDE DEF q, r
  <1>5. s * q < s * r /\ s * r < s * q + s
    BY <1>1, <1>2, <1>3, <1>4
  <1>6. s * (r - q) > 0 /\ s * (r - q) < s
    BY <1>5, <1>1
  <1>7. QED BY <1>6, <1>1, Z3

\* Half a ring of records, a slot for each of its two operations.
LEMMA Halves == Half \in Nat \ {0} /\ Entries = 2 * Half /\ Entries \in Nat \ {0}
  BY UringAssumption DEF Half

\* Every number has a slot and every record a buffer.
LEMMA InSlots ==
  /\ \A i \in Nat : Slot(i) \in Slots
  /\ \A n \in Nat \ {0} : Index(n) \in Slots
  BY UringAssumption DEF Slot, Index, Slots

\* Less than a ring apart, two operations have two slots and two records two buffers.
LEMMA SlotsDiffer ==
  /\ \A a, b \in Nat : a < b /\ b < a + Entries => Slot(a) # Slot(b)
  /\ \A a, b \in Nat \ {0} : a < b /\ b < a + Entries => Index(a) # Index(b)
<1>1. ASSUME NEW a \in Nat, NEW b \in Nat, a < b, b < a + Entries
      PROVE  a % Entries # b % Entries
  BY <1>1, Halves, ModDistinct
<1>2. ASSUME NEW a \in Nat \ {0}, NEW b \in Nat \ {0}, a < b, b < a + Entries
      PROVE  (a - 1) % Entries # (b - 1) % Entries
  <2>1. a - 1 \in Nat /\ b - 1 \in Nat /\ a - 1 < b - 1 /\ b - 1 < (a - 1) + Entries
    BY <1>2, Halves
  <2>2. QED BY <1>1, <2>1
<1>3. QED BY <1>1, <1>2 DEF Slot, Index

\* A whole ring further the slot is the same.
LEMMA SlotAgain == \A a \in Nat : Slot(a) = 0 => Slot(a + Entries) = 0
<1>1. SUFFICES ASSUME NEW a \in Nat, a % Entries = 0 PROVE (a + Entries) % Entries = 0
  BY DEF Slot
<1> DEFINE q == a \div Entries
           b == a + Entries
           r == b \div Entries
<1>2. q \in Int /\ r \in Int /\ Entries \in Nat \ {0}
  BY Halves
<1>3. a = (Entries * q) + (a % Entries)
  BY <1>2
<1>4. b = (Entries * r) + (b % Entries) /\ b % Entries \in 0 .. Entries - 1
  BY <1>2
<1> HIDE DEF q, r
<1>5. Entries * (q + 1 - r) = b % Entries
  <2>1. Entries * (q + 1 - r) = Entries * q + Entries - Entries * r
    BY <1>2, Z3
  <2> DEFINE eq == Entries * q
             er == Entries * r
  <2>2. eq \in Int /\ er \in Int
    BY <1>2
  <2> HIDE DEF eq, er
  <2>3. a = eq /\ a + Entries = er + (b % Entries)
    BY <1>1, <1>2, <1>3, <1>4, <2>2 DEF eq, er
  <2>4. eq + Entries - er = b % Entries
    BY <1>2, <1>4, <2>2, <2>3
  <2>5. QED BY <2>1, <2>4 DEF eq, er
<1>6. Entries * (q + 1 - r) >= 0 /\ Entries * (q + 1 - r) < Entries
  BY <1>2, <1>4, <1>5
<1>7. q + 1 - r = 0
  BY <1>2, <1>6, Z3
<1>8. QED BY <1>2, <1>5, <1>7

\* What the ring offers to the kernel: as many writes as there are entries, all of
\* the one record waiting whose write slot 0 holds.
LEMMA Offered ==
  ASSUME Ring, Queued, pc # "down", sqHead < sqTail
  PROVE  LET ops == {Taken(i) : i \in sqHead .. sqTail - 1}
         IN  /\ IsFiniteSet(ops) /\ Cardinality(ops) = sqTail - sqHead
             /\ \A o \in ops : o.op = "write" /\ o.rec \in Firsts /\ Waiting(o.rec)
             /\ \A n \in Firsts : Waiting(n) => \E o \in ops : o.rec = n
<1> DEFINE span == sqHead .. sqTail - 1
           ops == {Taken(i) : i \in span}
           n == (sqHead \div 2) + 1
<1>1. /\ sqHead \in Nat /\ sqTail \in Nat /\ offset \in Nat
      /\ sqTail = 2 * offset /\ sqTail <= sqHead + Entries /\ sqHead % 2 = 0
      /\ Slot(sqHead) = 0
  BY DEF Ring
<1>2. n \in 1 .. offset /\ 2 * n - 2 = sqHead
  BY <1>1
<1> HIDE DEF n
<1>3. n \in Firsts /\ Waiting(n)
  BY <1>1, <1>2 DEF Firsts, Waiting
<1>4. sqes[0] = W(n)
  BY <1>1, <1>2, <1>3 DEF Queued
<1>5. \A i \in span : Taken(i) = [op |-> "write", rec |-> n, entry |-> i]
  <2>1. ASSUME NEW i \in span PROVE array[Slot(i)] = 0
    BY <1>1, InSlots DEF array
  <2>2. QED BY <1>4, <2>1 DEF Taken, W
<1>6. IsFiniteSet(ops) /\ Cardinality(ops) = sqTail - sqHead
  <2> DEFINE f == [i \in span |-> Taken(i)]
  <2>1. \A i, j \in span : f[i] = f[j] => i = j
    <3>1. \A i \in span : f[i].entry = i
      BY <1>5
    <3>2. QED BY <3>1
  <2>2. f \in [span -> ops] /\ \A o \in ops : \E i \in span : f[i] = o
    OBVIOUS
  <2>3. f \in Bijection(span, ops)
    BY <2>1, <2>2 DEF Bijection, Injection, Surjection, IsInjective
  <2> HIDE DEF f, ops
  <2>4. IsFiniteSet(span) /\ Cardinality(span) = sqTail - sqHead
    <3>1. sqHead \in Int /\ sqTail - 1 \in Int /\ ~(sqHead > sqTail - 1)
          /\ (sqTail - 1) - sqHead + 1 = sqTail - sqHead
      BY <1>1
    <3>2. QED BY <3>1, FS_Interval
  <2>5. QED BY <2>3, <2>4, FS_Bijection DEF ExistsBijection
<1>7. \A o \in ops : o.op = "write" /\ o.rec = n
  BY <1>5
<1>8. \A m \in Firsts : Waiting(m) => m = n
  <2>1. SUFFICES ASSUME NEW m \in Firsts, Waiting(m), m # n PROVE FALSE
    OBVIOUS
  <2>2. /\ m \in 1 .. offset /\ Slot(2 * m - 2) = 0 /\ sqHead < 2 * m
    BY <2>1 DEF Firsts, Waiting
  <2>3. 2 * m - 2 \in Nat /\ sqHead < 2 * m - 2 /\ 2 * m - 2 < sqHead + Entries
    <3>1. m \in Nat /\ n \in Nat /\ m # n /\ m >= 1 /\ m <= offset
      BY <1>1, <1>2, <2>1, <2>2
    <3>2. m > n
      BY <1>2, <2>2, <3>1
    <3>3. QED BY <1>1, <1>2, <3>1, <3>2, Halves
  <2>4. QED BY <1>1, <2>2, <2>3, SlotsDiffer
<1>9. sqHead \in span
  BY <1>1
<1>10. \E o \in ops : o.rec = n
  BY <1>7, <1>9
<1>11. QED BY <1>3, <1>6, <1>7, <1>8, <1>10
-----------------------------------------------------------------------------
(* The steps.                                                              *)

\* A new ring is empty, and what the old one was is forgotten.
LEMMA RingStarts ==
  ASSUME NewRing, pc' \in {"down", "idle"}, failures' \in Nat
  PROVE  IInv'
<1>1. /\ offset' = 0 /\ sqHead' = 0 /\ sqTail' = 0
      /\ inflight' = {} /\ cq' = << >> /\ written' = {}
  BY DEF NewRing
<1>2. /\ DOMAIN sqes' = Slots /\ sqes' = [s \in Slots |-> sqes'[s]]
      /\ DOMAIN writeBufs' = Slots /\ writeBufs' = [s \in Slots |-> writeBufs'[s]]
  BY DEF NewRing
<1>3. Ring'
  <2>1. 0 % Entries = 0 /\ 0 % 2 = 0
    BY Halves
  <2>2. Slot(sqHead') = 0
    BY <1>1, <2>1 DEF Slot
  <2>3. QED BY <1>1, <1>2, <2>1, <2>2, Halves DEF Ring
<1>4. Queued' /\ Lasting'
  BY <1>1 DEF Queued, Lasting, Waiting, Firsts
<1>5. Counting'
  BY <1>1, FS_EmptySet DEF Counting
<1>6. QED BY <1>3, <1>4, <1>5 DEF IInv

\* A record is put into slots and a buffer that no record waiting uses.
LEMMA FillKeeps ==
  ASSUME IInv, Fill, pc \in {"idle", "fill"}, sqTail + 2 <= sqHead + Entries
  PROVE  IInv'
<1> DEFINE n == offset + 1
<1>1. /\ offset \in Nat /\ sqHead \in Nat /\ sqTail = 2 * offset /\ sqHead <= sqTail
      /\ sqHead % 2 = 0
      /\ offset' = n /\ sqHead' = sqHead /\ sqTail' = sqTail + 2 /\ pc' = "idle"
      /\ UNCHANGED <<inflight, cq, written, early, failures>>
  BY DEF IInv, Ring, Fill
<1>2. /\ writeBufs' = [writeBufs EXCEPT ![Index(n)] = n]
      /\ sqes' = [sqes EXCEPT ![Slot(sqTail)] = W(n),
                              ![Slot(sqTail + 1)] = [op |-> "fsync", rec |-> n]]
  BY DEF Fill, W
<1>3. Ring'
  <2>1. /\ DOMAIN sqes' = Slots /\ sqes' = [s \in Slots |-> sqes'[s]]
        /\ DOMAIN writeBufs' = Slots /\ writeBufs' = [s \in Slots |-> writeBufs'[s]]
    BY <1>2 DEF IInv, Ring
  <2>2. /\ offset' \in Nat /\ sqTail' \in Nat /\ sqTail' = 2 * offset'
        /\ sqHead <= sqTail' /\ sqTail' <= sqHead + Entries /\ failures' \in Nat
        /\ Slot(sqHead) = 0
    BY <1>1, Halves DEF IInv, Ring
  <2>3. QED BY <1>1, <2>1, <2>2 DEF Ring
<1>4. Queued'
  <2>1. DOMAIN sqes = Slots /\ DOMAIN writeBufs = Slots
    BY DEF IInv, Ring
  <2>2. /\ Slot(sqTail) \in Slots /\ Slot(sqTail + 1) \in Slots /\ Index(n) \in Slots
        /\ Slot(sqTail) # Slot(sqTail + 1)
    <3>1. sqTail \in Nat /\ sqTail + 1 \in Nat /\ n \in Nat \ {0}
          /\ sqTail < sqTail + 1 /\ sqTail + 1 < sqTail + Entries
      BY <1>1, Halves
    <3>2. QED BY <3>1, InSlots, SlotsDiffer
  <2>3. sqes'[Slot(sqTail)] = W(n) /\ writeBufs'[Index(n)] = n
    BY <1>2, <2>1, <2>2
  <2>4. ASSUME NEW m \in 1 .. offset, sqHead < 2 * m
        PROVE  sqes'[Slot(2 * m - 2)] = W(m) /\ writeBufs'[Index(m)] = m
    <3>1. /\ 2 * m - 2 \in Nat /\ m - 1 \in Nat
          /\ 2 * m - 2 < sqTail /\ sqTail + 1 < (2 * m - 2) + Entries
          /\ m < n /\ n < m + Entries
          /\ sqTail \in Nat /\ sqTail + 1 \in Nat /\ n \in Nat \ {0} /\ m \in Nat \ {0}
      BY <1>1, <2>4, Halves
    <3>2. Slot(2 * m - 2) \notin {Slot(sqTail), Slot(sqTail + 1)}
      <4>1. sqTail < (2 * m - 2) + Entries /\ 2 * m - 2 < sqTail + 1
        BY <3>1, Halves
      <4> QED BY <3>1, <4>1, SlotsDiffer
    <3>3. Index(m) # Index(n)
      BY <3>1, SlotsDiffer
    <3>4. Slot(2 * m - 2) \in Slots /\ Index(m) \in Slots
      BY <3>1, InSlots
    <3>5. /\ sqes'[Slot(2 * m - 2)] = sqes[Slot(2 * m - 2)]
          /\ writeBufs'[Index(m)] = writeBufs[Index(m)]
      BY <1>2, <2>1, <3>2, <3>3, <3>4
    <3>6. QED BY <2>4, <3>5 DEF IInv, Queued, Waiting
  <2>5. \A m \in 1 .. n : m \in 1 .. offset \/ (m = n /\ 2 * m - 2 = sqTail)
    BY <1>1
  <2> HIDE DEF n
  <2>6. QED BY <1>1, <2>3, <2>4, <2>5 DEF Queued, Waiting
<1>5. Counting'
  BY <1>1, FS_EmptySet DEF IInv, Counting
<1>6. Lasting'
  <2>1. SUFFICES ASSUME failures = 0, ~early PROVE Lasting'
    BY <1>1 DEF Lasting
  <2>2. inflight = {} /\ inflight' = {}
    BY <1>1, <2>1 DEF IInv, Counting
  <2>3. /\ written \subseteq Firsts
        /\ \A m \in Firsts : m \in written \/ sqHead < 2 * m
    BY <2>1, <2>2 DEF IInv, Lasting, Waiting
  <2>4. Firsts \subseteq Firsts' /\ \A m \in Firsts' : m \in Firsts \/ m = n
    BY <1>1 DEF Firsts
  <2>5. /\ written \subseteq Firsts'
        /\ \A m \in Firsts' : m \in 1 .. n /\ (m \in written \/ sqHead < 2 * m)
    <3>1. Firsts' \subseteq 1 .. n /\ sqHead < 2 * n
      BY <1>1 DEF Firsts
    <3> HIDE DEF n
    <3>2. QED BY <2>3, <2>4, <3>1
  <2>6. \A m \in Firsts' : m + Half <= n => m \in written
    <3> SUFFICES ASSUME NEW m \in Firsts', m + Half <= n, m \notin written PROVE FALSE
      OBVIOUS
    <3>1. m \in Nat /\ sqHead < 2 * m
      BY <2>5
    <3>2. QED BY <1>1, <3>1, Halves
  <2> HIDE DEF n
  <2>7. \A m \in Firsts' : m \in written \/ Waiting(m)'
    BY <1>1, <2>5 DEF Waiting
  <2>8. QED BY <1>1, <2>2, <2>5, <2>6, <2>7 DEF Lasting
<1>7. QED BY <1>3, <1>4, <1>5, <1>6 DEF IInv

\* Where a flush goes when it ends.
LEMMA ReturnGoes ==
  ASSUME NEW ok \in BOOLEAN, Return(ok)
  PROVE  /\ pc' \in {"fill", "idle", "enter", "truncate"} /\ flushed' = ok
         /\ pc' = "fill" => ok
         /\ pc' \in {"fill", "idle"} => call = "append"
         /\ call' # "append"
BY DEF Return

\* A flush that ends, with nothing left of what it has taken.
LEMMA ReturnKeeps ==
  ASSUME IInv, NEW ok \in BOOLEAN, Return(ok),
         pc # "down", ok => sqHead = sqTail,
         UNCHANGED <<offset, sqes, sqHead, sqTail, written, early, failures>>,
         DOMAIN writeBufs' = Slots, writeBufs' = [s \in Slots |-> writeBufs'[s]],
         writeBufs' = writeBufs \/ sqHead = sqTail,
         failures = 0 => inflight = {} /\ inflight' = {} /\ cq' = << >>
  PROVE  IInv'
<1>1. /\ pc' \in {"fill", "idle", "enter", "truncate"} /\ flushed' = ok
      /\ pc' = "fill" => ok
      /\ pc' \in {"fill", "idle"} => call = "append"
      /\ call' # "append"
  BY ReturnGoes
<1>2. Ring'
  <2>1. Slot(sqHead)' = Slot(sqHead)
    BY DEF Slot
  <2>2. QED BY <1>1, <2>1 DEF IInv, Ring
<1>3. Queued'
  <2>1. writeBufs' = writeBufs \/ (\A n \in 1 .. offset : ~Waiting(n))
    BY DEF IInv, Ring, Waiting
  <2>2. QED BY <2>1 DEF IInv, Queued, Waiting
<1>4. Counting'
  <2>1. SUFFICES ASSUME failures = 0 PROVE Counting'
    BY DEF Counting
  <2>2. inflight' = {} /\ cq' = << >> /\ cq' \in Seq(Completions)
    BY <2>1
  <2>3. QED BY <1>1, <2>2, FS_EmptySet DEF Counting
<1>5. Lasting'
  <2>1. SUFFICES ASSUME failures = 0, ~early PROVE Lasting'
    BY DEF Lasting
  <2>2. Firsts' = Firsts
    BY DEF Firsts
  <2>3. QED BY <1>1, <2>1, <2>2 DEF IInv, Lasting, Waiting
<1>6. QED BY <1>2, <1>3, <1>4, <1>5 DEF IInv

\* Steps that move the client on and touch nothing of the ring.
LEMMA MovesKeep ==
  ASSUME IInv, UNCHANGED <<ring, count, flushed, failures>>,
         pc # "down", pc' \in {"idle", "enter", "wait", "reap"},
         pc \in {"wait", "reap"} <=> pc' \in {"wait", "reap"}, pc' # "idle",
         early' = early \/ early',
         call' = call \/ pc = "idle",
         pc' = "enter" /\ call' = "append" => sqTail = sqHead + Entries,
         pc' = "reap" /\ ~early' /\ failures = 0 => inflight = {}
  PROVE  IInv'
<1>1. UNCHANGED <<offset, sqes, sqHead, sqTail, writeBufs, inflight, cq, written>>
  BY DEF ring
<1>2. Ring' /\ Firsts' = Firsts
  <2>1. Slot(sqHead)' = Slot(sqHead) /\ Firsts' = Firsts
    BY <1>1 DEF Slot, Firsts
  <2>2. QED BY <1>1, <2>1 DEF IInv, Ring
<1>3. Queued'
  BY <1>1 DEF IInv, Queued, Waiting
<1>4. Counting'
  BY <1>1, <1>2 DEF IInv, Counting
<1>5. Lasting'
  BY <1>1, <1>2 DEF IInv, Lasting, Waiting, Held
<1>6. QED BY <1>2, <1>3, <1>4, <1>5 DEF IInv

\* A flush that has nothing to offer, or whose entries the kernel refuses.
LEMMA NothingTaken ==
  ASSUME IInv, FlushNothing \/ EnterFails
  PROVE  IInv'
<1>1. /\ pc = "enter" /\ UNCHANGED ring /\ UNCHANGED <<early, failures>>
      /\ (Return(TRUE) /\ sqHead = sqTail) \/ Return(FALSE)
  BY DEF FlushNothing, EnterFails
<1>2. UNCHANGED <<offset, sqes, sqHead, sqTail, writeBufs, inflight, cq, written>>
  BY <1>1 DEF ring
<1>3. /\ failures = 0 => inflight = {} /\ cq = << >>
      /\ DOMAIN writeBufs = Slots /\ writeBufs = [s \in Slots |-> writeBufs[s]]
  BY <1>1 DEF IInv, Counting, Ring
<1>4. CASE Return(TRUE) /\ sqHead = sqTail
  BY <1>1, <1>2, <1>3, <1>4, ReturnKeeps, TRUE \in BOOLEAN
<1>5. CASE Return(FALSE)
  BY <1>1, <1>2, <1>3, <1>5, ReturnKeeps, FALSE \in BOOLEAN
<1>6. QED BY <1>1, <1>4, <1>5

\* io_uring_enter offers the ring, and the record in slot 0 is under way.
LEMMA EnterKeeps ==
  ASSUME IInv, Enter
  PROVE  IInv'
<1> DEFINE ops == {Taken(i) : i \in sqHead .. sqTail - 1}
<1>1. /\ pc = "enter" /\ pc' = "wait" /\ sqTail > sqHead
      /\ inflight' = inflight \cup ops /\ sqHead' = sqTail /\ count' = sqTail - sqHead
      /\ UNCHANGED <<call, offset, sqes, sqTail, writeBufs, cq, written, flushed, early,
                     failures>>
  BY DEF Enter
<1>2. /\ IsFiniteSet(ops) /\ Cardinality(ops) = sqTail - sqHead
      /\ \A o \in ops : o.op = "write" /\ o.rec \in Firsts /\ Waiting(o.rec)
      /\ \A n \in Firsts : Waiting(n) => \E o \in ops : o.rec = n
  <2>1. sqHead < sqTail
    BY <1>1 DEF IInv, Ring
  <2>2. QED BY <1>1, <2>1, Offered DEF IInv
<1> HIDE DEF ops
<1>3. /\ offset \in Nat /\ sqHead \in Nat /\ sqTail \in Nat /\ sqTail = 2 * offset
      /\ sqTail <= sqHead + Entries /\ sqTail % 2 = 0 /\ failures \in Nat
      /\ DOMAIN sqes = Slots /\ DOMAIN writeBufs = Slots
      /\ sqes = [s \in Slots |-> sqes[s]] /\ writeBufs = [s \in Slots |-> writeBufs[s]]
  BY <1>1 DEF IInv, Ring
<1>4. Ring'
  <2>1. call = "append" => Slot(sqTail) = 0
    <3>1. call = "append" => sqTail = sqHead + Entries /\ Slot(sqHead) = 0
      BY <1>1 DEF IInv, Ring
    <3>2. QED BY <1>3, <3>1, SlotAgain
  <2>2. QED BY <1>1, <1>3, <2>1, Halves DEF Ring
<1>5. Queued'
  BY <1>1, <1>3 DEF Queued, Waiting
<1>6. (failures = 0 => inflight' = ops /\ cq = << >>) /\ Firsts' = Firsts
  BY <1>1 DEF IInv, Counting, Firsts
<1>7. Counting'
  <2>1. SUFFICES ASSUME failures = 0 PROVE Counting'
    BY <1>1 DEF Counting
  <2>2. cq' = << >> /\ Len(cq') = 0 /\ cq' \in Seq(Completions)
    BY <1>1, <1>6, <2>1
  <2>3. count' \in Nat \ {0} /\ count' = Cardinality(inflight') + Len(cq')
    <3>1. Cardinality(inflight') = sqTail - sqHead
      BY <1>2, <1>6, <2>1
    <3>2. QED BY <1>1, <1>3, <2>2, <3>1
  <2>4. QED BY <1>1, <1>2, <1>6, <2>1, <2>2, <2>3 DEF Counting
<1>8. Lasting'
  <2>1. SUFFICES ASSUME failures = 0, ~early PROVE Lasting'
    BY <1>1 DEF Lasting
  <2>2. \A o \in ops : Held(o)'
    <3> SUFFICES ASSUME NEW o \in ops PROVE Held(o)'
      OBVIOUS
    <3>1. writeBufs[Index(o.rec)] = o.rec
      BY <1>1, <1>2 DEF IInv, Queued, Waiting
    <3>2. QED BY <1>1, <3>1 DEF Held
  <2>3. \A n \in Firsts : n \in written \/ \E o \in ops : o.rec = n
    BY <1>1, <1>2, <1>6, <2>1 DEF IInv, Lasting, Counting
  <2>4. QED BY <1>1, <1>6, <2>1, <2>2, <2>3 DEF IInv, Lasting
<1>9. QED BY <1>4, <1>5, <1>7, <1>8 DEF IInv

\* The kernel performs an operation: one less is under way, one more completed.
LEMMA PerformKeeps ==
  ASSUME IInv, NEW o \in inflight, Perform(o)
  PROVE  IInv'
<1>1. /\ inflight' = inflight \ {o}
      /\ UNCHANGED <<pc, call, offset, sqes, sqHead, sqTail, writeBufs, count, flushed,
                     early>>
      /\ Firsts' = Firsts
  BY DEF Perform, Firsts
<1>2. failures \in Nat
  BY DEF IInv, Ring
<1>3. failures' \in Nat /\ (failures' = 0 => failures = 0)
  BY <1>2 DEF Perform
<1>4. failures' = 0 =>
        /\ cq' = Append(cq, [rec |-> o.rec, ok |-> TRUE])
        /\ Lands(o)
  BY <1>2 DEF Perform
<1>5. Ring' /\ Queued'
  <2>1. Slot(sqHead)' = Slot(sqHead)
    BY <1>1 DEF Slot
  <2>2. QED BY <1>1, <1>3, <2>1 DEF IInv, Ring, Queued, Waiting
<1>6. Counting'
  <2>1. SUFFICES ASSUME failures' = 0 PROVE Counting'
    BY DEF Counting
  <2>2. /\ IsFiniteSet(inflight) /\ cq \in Seq(Completions)
        /\ o.rec \in Nat
        /\ pc \in {"wait", "reap"} /\ count \in Nat \ {0}
        /\ count = Cardinality(inflight) + Len(cq)
    BY <1>3, <2>1 DEF IInv, Ring, Counting, Firsts
  <2>3. /\ IsFiniteSet(inflight') /\ Cardinality(inflight') = Cardinality(inflight) - 1
        /\ Cardinality(inflight) \in Nat
    BY <1>1, <2>2, FS_RemoveElement, FS_CardinalityType
  <2>4. cq' \in Seq(Completions) /\ Len(cq') = Len(cq) + 1 /\ Len(cq) \in Nat
    <3>1. [rec |-> o.rec, ok |-> TRUE] \in Completions
      BY <2>2 DEF Completions
    <3>2. QED BY <1>4, <2>1, <2>2, <3>1
  <2>5. count' = Cardinality(inflight') + Len(cq')
    BY <1>1, <2>2, <2>3, <2>4
  <2>6. \A q \in inflight' : q.op = "write" /\ q.rec \in Firsts'
    BY <1>1, <1>3, <2>1 DEF IInv, Counting
  <2>7. QED BY <1>1, <2>2, <2>3, <2>4, <2>5, <2>6 DEF Counting
<1>7. Lasting'
  <2>1. SUFFICES ASSUME failures' = 0, ~early PROVE Lasting'
    BY <1>1 DEF Lasting
  <2>2. failures = 0 /\ o.op = "write" /\ o.rec \in Firsts
    BY <1>3, <2>1 DEF IInv, Counting
  <2>3. written' = written \cup {o.rec}
    <3>1. Held(o)
      BY <2>1, <2>2, <1>1 DEF IInv, Lasting
    <3>2. QED BY <1>4, <2>1, <2>2, <3>1 DEF Lands
  <2>4. \A q \in inflight' : Held(q)'
    BY <1>1, <2>1, <2>2 DEF IInv, Lasting, Held
  <2>5. ASSUME pc # "down", NEW n \in Firsts
        PROVE  n \in written' \/ Waiting(n) \/ \E q \in inflight' : q.rec = n
    BY <1>1, <2>1, <2>2, <2>3, <2>5 DEF IInv, Lasting
  <2>6. written' \subseteq Firsts /\ written \subseteq written'
    BY <1>1, <2>1, <2>2, <2>3 DEF IInv, Lasting
  <2>7. QED BY <1>1, <2>1, <2>2, <2>4, <2>5, <2>6 DEF IInv, Lasting, Waiting
<1>8. QED BY <1>5, <1>6, <1>7 DEF IInv

\* reap sees an error, which no operation has met while failures is 0.
LEMMA ErrorKeeps ==
  ASSUME IInv, ReapError
  PROVE  IInv'
<1>1. /\ pc = "reap" /\ cq # << >> /\ ~Head(cq).ok /\ Return(FALSE)
      /\ UNCHANGED <<offset, sqes, sqHead, sqTail, writeBufs, written, early, failures>>
  BY DEF ReapError
<1>2. failures # 0
  <2> SUFFICES ASSUME failures = 0 PROVE FALSE
    OBVIOUS
  <2>1. cq \in Seq(Completions)
    BY DEF IInv, Counting
  <2>2. Head(cq) \in Completions
    BY <1>1, <2>1
  <2>3. QED BY <1>1, <2>2 DEF Completions
<1>3. DOMAIN writeBufs = Slots /\ writeBufs = [s \in Slots |-> writeBufs[s]]
  BY DEF IInv, Ring
<1>4. QED BY <1>1, <1>2, <1>3, ReturnKeeps, FALSE \in BOOLEAN

\* reap drops what has completed and counts it; the last of it ends the flush.
LEMMA BatchKeeps ==
  ASSUME IInv, ReapBatch
  PROVE  IInv'
<1>1. /\ pc = "reap" /\ cq # << >>
      /\ writeBufs' = [writeBufs EXCEPT ![Index(Head(cq).rec)] = 0]
      /\ cq' = SubSeq(cq, Reaped + 1, Len(cq))
      /\ \/ Reaped = count /\ Return(TRUE)
         \/ Reaped # count /\ count' = count - Reaped /\ UNCHANGED <<pc, call, flushed>>
      /\ UNCHANGED <<offset, sqes, sqHead, sqTail, inflight, written, early, failures>>
  BY DEF ReapBatch
<1>2. /\ sqHead = sqTail /\ DOMAIN writeBufs' = Slots
      /\ writeBufs' = [s \in Slots |-> writeBufs'[s]]
      /\ Firsts' = Firsts /\ Slot(sqHead)' = Slot(sqHead)
  BY <1>1 DEF IInv, Ring, Firsts, Slot
<1>3. failures = 0 =>
        /\ cq \in Seq(Completions) /\ Reaped = Len(cq) /\ cq' = << >>
        /\ Len(cq) \in Nat \ {0} /\ Cardinality(inflight) \in Nat
        /\ IsFiniteSet(inflight) /\ count = Cardinality(inflight) + Len(cq)
  <2>1. SUFFICES ASSUME failures = 0
                 PROVE  /\ cq \in Seq(Completions) /\ Reaped = Len(cq)
                        /\ cq' = << >>
                        /\ Len(cq) \in Nat \ {0} /\ Cardinality(inflight) \in Nat
                        /\ IsFiniteSet(inflight) /\ count = Cardinality(inflight) + Len(cq)
    OBVIOUS
  <2>2. /\ cq \in Seq(Completions) /\ IsFiniteSet(inflight)
        /\ count = Cardinality(inflight) + Len(cq)
    BY <1>1, <2>1 DEF IInv, Counting
  <2>3. Len(cq) \in Nat \ {0} /\ Cardinality(inflight) \in Nat
    BY <1>1, <2>2, FS_CardinalityType
  <2>4. Reaped = Len(cq)
    BY <2>2, <2>3 DEF Reaped
  <2>5. cq' = << >>
    BY <1>1, <2>2, <2>3, <2>4
  <2>6. QED BY <2>2, <2>3, <2>4, <2>5
<1>4. CASE Reaped = count /\ Return(TRUE)
  <2>1. failures = 0 => inflight = {}
    <3>1. failures = 0 => Cardinality(inflight) = 0
      BY <1>3, <1>4
    <3>2. QED BY <1>3, <3>1, FS_EmptySet
  <2>2. QED BY <1>1, <1>2, <1>3, <1>4, <2>1, ReturnKeeps, TRUE \in BOOLEAN
<1>5. CASE Reaped # count /\ count' = count - Reaped /\ UNCHANGED <<pc, call, flushed>>
  <2>1. Ring'
    BY <1>1, <1>2, <1>5 DEF IInv, Ring
  <2>2. Queued'
    BY <1>1, <1>2, <1>5 DEF IInv, Ring, Queued, Waiting
  <2>3. Counting'
    <3>1. SUFFICES ASSUME failures = 0 PROVE Counting'
      BY <1>1 DEF Counting
    <3>2. /\ count' \in Nat \ {0} /\ count' = Cardinality(inflight) + Len(cq')
          /\ cq' \in Seq(Completions)
      BY <1>3, <1>5, <3>1
    <3>3. QED BY <1>1, <1>2, <1>5, <3>1, <3>2 DEF IInv, Counting
  <2>4. Lasting'
    <3>1. SUFFICES ASSUME failures = 0, ~early PROVE Lasting'
      BY <1>1 DEF Lasting
    <3>2. inflight = {}
      BY <1>1, <3>1 DEF IInv, Lasting
    <3>3. QED BY <1>1, <1>2, <1>5, <3>1, <3>2 DEF IInv, Lasting, Waiting
  <2>5. QED BY <2>1, <2>2, <2>3, <2>4 DEF IInv
<1>6. QED BY <1>1, <1>4, <1>5

\* A kill leaves a file with what it had and some of what was under way.
LEMMA KillKeeps ==
  ASSUME IInv, Kill
  PROVE  IInv'
<1>1. /\ pc' = "down" /\ sqHead' = 0 /\ sqTail' = 0 /\ inflight' = {} /\ cq' = << >>
      /\ UNCHANGED <<offset, early, failures>>
  BY DEF Kill
<1>2. /\ DOMAIN sqes' = Slots /\ sqes' = [s \in Slots |-> sqes'[s]]
      /\ DOMAIN writeBufs' = Slots /\ writeBufs' = [s \in Slots |-> writeBufs'[s]]
  BY DEF Kill
<1>3. Firsts' = Firsts
  BY <1>1 DEF Firsts
<1>4. Ring'
  BY <1>1, <1>2 DEF IInv, Ring
<1>5. Queued'
  BY <1>1 DEF Queued
<1>6. Counting'
  <2>1. << >> \in Seq(Completions)
    OBVIOUS
  <2>2. QED BY <1>1, <2>1, FS_EmptySet DEF Counting
<1>7. Lasting'
  <2>1. SUFFICES ASSUME failures = 0, ~early PROVE Lasting'
    BY <1>1 DEF Lasting
  <2>2. \A o \in inflight : o.op = "write" /\ o.rec \in Firsts /\ Held(o)
    BY <2>1 DEF IInv, Counting, Lasting
  <2>3. written \subseteq written' /\ written' \subseteq written \cup {o.rec : o \in inflight}
    BY <2>2 DEF Kill
  <2>4. written' \subseteq Firsts
    BY <2>1, <2>2, <2>3 DEF IInv, Lasting
  <2>5. QED BY <1>1, <1>3, <2>1, <2>3, <2>4 DEF IInv, Lasting
<1>8. QED BY <1>4, <1>5, <1>6, <1>7 DEF IInv

\* There is no ring before the log is opened.
THEOREM InitIInv == Init => IInv
<1> SUFFICES ASSUME Init PROVE IInv
  OBVIOUS
<1>1. /\ pc = "down" /\ offset = 0 /\ sqHead = 0 /\ sqTail = 0 /\ failures = 0
      /\ inflight = {} /\ cq = << >> /\ written = {}
  BY DEF Init
<1>2. /\ DOMAIN sqes = Slots /\ sqes = [s \in Slots |-> sqes[s]]
      /\ DOMAIN writeBufs = Slots /\ writeBufs = [s \in Slots |-> writeBufs[s]]
  BY DEF Init
<1>3. Ring /\ Queued /\ Lasting
  BY <1>1, <1>2 DEF Ring, Queued, Lasting, Firsts
<1>4. << >> \in Seq(Completions)
  OBVIOUS
<1>5. Counting
  BY <1>1, <1>4, FS_EmptySet DEF Counting
<1>6. QED BY <1>3, <1>5 DEF IInv

\* One step for each action.
THEOREM StepIInv == IInv /\ [Next]_vars => IInv'
<1> SUFFICES ASSUME IInv, [Next]_vars PROVE IInv'
  OBVIOUS
<1>1. failures \in Nat /\ offset \in Nat /\ sqHead \in Nat /\ sqTail \in Nat
  BY DEF IInv, Ring
<1>2. CASE UNCHANGED vars
  BY <1>2 
  DEF vars, ring, IInv, Ring, Queued, Counting, Lasting, Waiting, Held, Firsts, Slot
<1>3. CASE New \/ Recreate \/ ResetTruncate \/ CloseTruncate
  <2>1. NewRing /\ pc' \in {"down", "idle"} /\ failures' \in Nat
    BY <1>1, <1>3 DEF New, Recreate, ResetTruncate, CloseTruncate
  <2>2. QED BY <2>1, RingStarts
<1>4. CASE SubmitWrite /\ ~Full
  <2>1. Fill /\ pc \in {"idle", "fill"} /\ sqTail + 2 <= sqHead + Entries
    BY <1>1, <1>4, Halves DEF SubmitWrite, Full
  <2>2. QED BY <2>1, FillKeeps
<1>5. CASE SubmitFilled
  <2>1. Fill /\ pc \in {"idle", "fill"} /\ sqHead = sqTail
    BY <1>5 DEF SubmitFilled, IInv, Ring
  <2>2. sqTail + 2 <= sqHead + Entries
    BY <1>1, <2>1, UringAssumption
  <2>3. QED BY <2>1, <2>2, FillKeeps
<1>6. CASE (SubmitWrite /\ Full) \/ Reset \/ Close
  <2>1. /\ UNCHANGED <<ring, count, flushed, failures, early>>
        /\ pc = "idle" /\ pc' = "enter"
        /\ call' = "append" => Full
    BY <1>6 DEF SubmitWrite, Reset, Close, Flush
  <2>2. call' = "append" => sqTail = sqHead + Entries
    BY <1>1, <2>1, Halves DEF IInv, Ring, Full
  <2>3. QED BY <2>1, <2>2, MovesKeep
<1>7. CASE FlushNothing \/ EnterFails
  BY <1>7, NothingTaken
<1>8. CASE Enter
  BY <1>8, EnterKeeps
<1>9. CASE Entered
  <2>1. /\ UNCHANGED <<call, ring, count, flushed, failures, early>>
        /\ pc = "wait" /\ pc' = "reap" /\ Len(cq) >= count
    BY <1>9 DEF Entered
  <2>2. ASSUME failures = 0 PROVE inflight = {}
    <3>1. /\ IsFiniteSet(inflight) /\ cq \in Seq(Completions)
          /\ count = Cardinality(inflight) + Len(cq)
      BY <2>1, <2>2 DEF IInv, Counting
    <3>2. Cardinality(inflight) \in Nat /\ Len(cq) \in Nat
      BY <3>1, FS_CardinalityType
    <3>3. Cardinality(inflight) = 0
      BY <2>1, <3>1, <3>2
    <3>4. QED BY <3>1, <3>3, FS_EmptySet
  <2>3. QED BY <2>1, <2>2, MovesKeep
<1>10. CASE Interrupted
  <2>1. /\ UNCHANGED <<call, ring, count, flushed, failures>>
        /\ pc = "wait" /\ pc' = "reap" /\ early'
    BY <1>10 DEF Interrupted
  <2>2. QED BY <2>1, MovesKeep
<1>11. CASE ReapWait
  <2>1. /\ UNCHANGED <<call, ring, count, flushed, failures, early>>
        /\ pc = "reap" /\ pc' = "wait"
    BY <1>11 DEF ReapWait
  <2>2. QED BY <2>1, MovesKeep
<1>12. CASE ReapError
  BY <1>12, ErrorKeeps
<1>13. CASE ReapBatch
  BY <1>13, BatchKeeps
<1>14. CASE Kernel
  BY <1>14, PerformKeeps DEF Kernel
<1>15. CASE Kill
  BY <1>15, KillKeeps
<1>16. QED
  BY <1>2, <1>3, <1>4, <1>5, <1>6, <1>7, <1>8, <1>9, <1>10, <1>11, <1>12, <1>13, <1>14,
     <1>15
  DEF Next, Client

\* The invariant holds in every run.
THEOREM IInvAlways == Spec => []IInv
BY InitIInv, StepIInv, PTL DEF Spec

\* Without failures and signals the file has the first record of every ring that the
\* log has moved on from, for a ring of any size, and never another record.
THEOREM FirstsSurviveAlways == Spec => []FirstsSurvive
<1>1. IInv => FirstsSurvive
  BY DEF IInv, Lasting, FirstsSurvive, Half
<1>2. QED BY <1>1, IInvAlways, PTL

\* Without failures and signals the buffer of a write under way is kept, though reap
\* looks at the first completion of a batch only: it comes when all have completed.
THEOREM BufferHeldAlways == Spec => []BufferHeld
<1>1. IInv => BufferHeld
  BY DEF IInv, Lasting, BufferHeld
<1>2. QED BY <1>1, IInvAlways, PTL

\* While no operation fails nothing of one flush is left for the next, or for the next
\* ring, signals or not; and a flush without an error has put the first record of every
\* ring into the file, and no other, if no signal came between.
THEOREM FlushCompleteAlways == Spec => []FlushComplete
<1>1. IInv => FlushComplete
  <2> SUFFICES ASSUME IInv, failures = 0, pc \in {"fill", "truncate"}
               PROVE  /\ inflight = {} /\ cq = << >>
                      /\ flushed /\ ~early => written = Firsts
    BY DEF FlushComplete
  <2>1. inflight = {} /\ cq = << >>
    BY DEF IInv, Counting
  <2>2. ASSUME flushed, ~early PROVE written = Firsts
    <3>1. offset \in Nat /\ sqHead = 2 * offset
      BY <2>2 DEF IInv, Ring
    <3>2. \A n \in Firsts : ~Waiting(n)
      BY <3>1 DEF Waiting, Firsts
    <3>3. QED BY <2>1, <2>2, <3>2 DEF IInv, Lasting
  <2>3. QED BY <2>1, <2>2
<1>2. QED BY <1>1, IInvAlways, PTL
=============================================================================
