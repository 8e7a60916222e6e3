----------------------------- MODULE WalProofs -----------------------------
(***************************************************************************)
(* What each sync mode may lose, what Replay finds, and that the log is    *)
(* what LsmRecovery takes it to be, for any modes, writers, sizes of       *)
(* records, initial size and number of records.                            *)
(*                                                                         *)
(* The two lazy modes.  Neither bound is inductive.  IInv adds that what   *)
(* is acknowledged is in the file (Known), so that a sync covers it; that  *)
(* a process without a log has nothing to account for (Reopened), so that  *)
(* the mode may change; that nobody appends in Close (Alone); and, for     *)
(* SyncAsync, that a token or asyncWriter's dirty is there for whatever is *)
(* not synced (Promised).                                                  *)
(*                                                                         *)
(* Replay.  What its loop returns is a recursive function of the position, *)
(* known only where it has been shown that the recursion ends: at each     *)
(* position it depends on later ones, so a last position where anything    *)
(* would fail is one where nothing can (LastPosition).  That the walk      *)
(* comes to where the log appends is said without it, by the set of the    *)
(* positions it passes (Reaches): a record that is appended where the walk *)
(* comes to is found, one that is appended elsewhere changes nothing.      *)
(* LogInv has what a step of the log needs: the records lie in order       *)
(* before writeAt (Sizes), a sync leaves out nothing older (Syncs), the    *)
(* walk comes to writeAt in a log that listens (Heard), what it missed     *)
(* when the file was opened is on the disk (Missed), and where the power   *)
(* does not fail a deaf log stays deaf (Stumbles).                         *)
(***************************************************************************)
EXTENDS Wal, FiniteSetTheorems, WellFoundedInduction, TLAPS

Known ==
  /\ acked \subseteq Ids(recs) /\ IsFiniteSet(acked)
  /\ pending \in Nat /\ appends \in Nat
  /\ writing \in [Writers -> Nat]

Reopened == life = "down" => acked = {} /\ pending = 0

Alone == life \in {"down", "closing", "drained"} => \A w \in Writers : writing[w] = 0

\* SyncPeriodic: pending counts what a loss of power could take, whenever no
\* writer has yet to sync.
Counted ==
  mode = "periodic" /\ (\A w \in Writers : writing[w] = 0) =>
    Cardinality(acked \ synced) <= pending

\* SyncAsync: what is not synced has a token in the channel, or asyncWriter
\* has received it and has not been to its sync.
Promised ==
  mode = "async" =>
    /\ asyncCh \/ (dirty /\ ~flushed) \/ acked \subseteq synced
    /\ life = "drained" => acked \subseteq synced

IInv == Known /\ Reopened /\ Alone /\ Counted /\ Promised

\* Records that are all synced leave nothing to lose.
LEMMA NothingLost ==
  ASSUME acked \subseteq synced, pending \in Nat
  PROVE  Cardinality(acked \ synced) <= pending
<1>1. acked \ synced = {}
  OBVIOUS
<1>2. QED BY <1>1, FS_EmptySet

\* A file that does not exist yet has lost nothing.
THEOREM InitIInv == Init => IInv
<1> SUFFICES ASSUME Init PROVE IInv
  OBVIOUS
<1>1. acked = {} /\ pending = 0 /\ appends = 0 /\ life = "down"
      /\ writing = [w \in Writers |-> 0]
  BY DEF Init
<1>2. Cardinality(acked \ synced) <= pending
  BY <1>1, NothingLost
<1>3. QED
  BY <1>1, <1>2, FS_EmptySet DEF IInv, Known, Reopened, Alone, Counted, Promised

\* Recovery, Reset and Close: they acknowledge nothing, and either leave what
\* is acknowledged and the syncs alone or forget it.
LEMMA OpeningKeeps ==
  ASSUME IInv, New \/ Recover \/ ResetTruncate \/ ResetVersion \/ ResetMap \/ Close
               \/ CloseTruncate \/ Kill \/ PowerLoss
  PROVE  IInv'
<1> USE DEF IInv, Known, Reopened, Alone, Counted, Promised
<1>1. CASE New
  <2>1. acked = {} /\ pending = 0 /\ UNCHANGED <<acked, synced, pending, recs, appends, writing>>
        /\ life' = "opened"
    BY <1>1 DEF New
  <2>2. Cardinality(acked' \ synced') <= pending'
    BY <2>1, NothingLost
  <2>3. QED BY <2>1, <2>2
<1>2. CASE Recover /\ UNCHANGED acked
  BY <1>2, FS_EmptySet DEF Recover, how, file, Truncated
<1>3. CASE Truncated /\ life' = "resetting" /\ UNCHANGED <<pending, appends, writing, mode>>
  <2>1. acked' = {} /\ life' = "resetting" /\ UNCHANGED <<pending, appends, writing, mode>>
    BY <1>3 DEF Truncated
  <2>2. Cardinality(acked' \ synced') <= pending'
    BY <2>1, FS_EmptySet, {} \ synced' = {}
  <2>3. QED BY <2>1, <2>2, FS_EmptySet
<1>4. CASE ResetTruncate
  BY <1>3, <1>4 DEF ResetTruncate, how
<1>5. CASE Recover /\ Truncated
  BY <1>2, <1>3, <1>5 DEF Recover, how
<1>6. CASE ResetVersion
  BY <1>6 DEF ResetVersion, how
<1>7. CASE ResetMap
  BY <1>7 DEF ResetMap
<1>8. CASE Close
  BY <1>8 DEF Close, how, file
<1>9. CASE acked' = {} /\ pending' = 0 /\ life' = "down" /\ UNCHANGED mode
           /\ appends' \in Nat /\ writing' \in [Writers -> Nat]
           /\ \A w \in Writers : writing'[w] = 0
  <2>1. Cardinality(acked' \ synced') <= pending'
    BY <1>9, FS_EmptySet, {} \ synced' = {}
  <2>2. QED BY <1>9, <2>1, FS_EmptySet
<1>10. CASE CloseTruncate
  BY <1>9, <1>10 DEF CloseTruncate
<1>11. CASE Kill
  BY <1>9, <1>11 DEF Kill, Gone
<1>12. CASE PowerLoss
  BY <1>9, <1>12 DEF PowerLoss, Gone
<1>13. QED
  BY <1>1, <1>2, <1>4, <1>5, <1>6, <1>7, <1>8, <1>10, <1>11, <1>12 DEF Recover

\* An append in the mode SyncPeriodic counts itself, or is the one to sync.
LEMMA AppendKeeps ==
  ASSUME IInv, NEW w \in Writers, NEW len, AppendRaw(w, len)
  PROVE  IInv'
<1> USE DEF IInv, Known, Reopened, Alone, Counted, Promised
<1>1. /\ life = "up" /\ life' = "up"
      /\ appends' = appends + 1 /\ appends' \in Nat \ {0}
      /\ UNCHANGED <<mode, synced, asyncCh, dirty, flushed>>
  BY DEF AppendRaw, how
<1>2. Ids(recs') = Ids(recs) \cup {appends'}
  <2> DEFINE new == [id |-> appends', at |-> writeAt, len |-> len, torn |-> FALSE]
  <2>1. recs' = recs \cup {new} /\ new.id = appends'
    BY DEF AppendRaw
  <2> HIDE DEF new
  <2>2. QED BY <2>1 DEF Ids
<1>3. CASE /\ mode = "periodic" /\ pending' = pending + 1
           /\ acked' = acked \cup {appends'} /\ UNCHANGED writing
  <2>1. IsFiniteSet(acked')
    BY <1>3, FS_AddElement
  <2>2. ASSUME \A v \in Writers : writing[v] = 0
        PROVE  Cardinality(acked' \ synced') <= pending'
    <3> DEFINE lost == acked \ synced
    <3>1. IsFiniteSet(lost) /\ Cardinality(lost) \in Nat /\ Cardinality(lost) <= pending
      BY <1>3, <2>2, FS_Difference, FS_CardinalityType
    <3>2. acked' \ synced' \subseteq lost \cup {appends'}
      BY <1>1, <1>3
    <3> HIDE DEF lost
    <3>3. /\ IsFiniteSet(lost \cup {appends'})
          /\ Cardinality(lost \cup {appends'}) <= Cardinality(lost) + 1
      <4>1. /\ IsFiniteSet(lost \cup {appends'})
            /\ \/ Cardinality(lost \cup {appends'}) = Cardinality(lost)
               \/ Cardinality(lost \cup {appends'}) = Cardinality(lost) + 1
        BY <3>1, FS_AddElement
      <4>2. QED BY <3>1, <4>1
    <3>4. /\ Cardinality(acked' \ synced') <= Cardinality(lost \cup {appends'})
          /\ Cardinality(acked' \ synced') \in Nat
          /\ Cardinality(lost \cup {appends'}) \in Nat
      BY <3>2, <3>3, FS_Subset, FS_CardinalityType
    <3>5. QED BY <1>3, <3>1, <3>3, <3>4
  <2>3. QED BY <1>1, <1>2, <1>3, <2>1, <2>2
<1>4. CASE pending' = 0 /\ writing' = [writing EXCEPT ![w] = appends'] /\ UNCHANGED acked
  <2>1. writing' \in [Writers -> Nat] /\ writing'[w] # 0
    BY <1>1, <1>4
  <2>2. QED BY <1>1, <1>2, <1>4, <2>1
<1>5. QED BY <1>3, <1>4 DEF AppendRaw

\* A sync covers every record of the file, whoever asked for it.
LEMMA SyncKeeps ==
  ASSUME IInv, NEW w \in Writers, Sync(w)
  PROVE  IInv'
<1> USE DEF IInv, Known, Reopened, Alone, Counted, Promised
<1>1. /\ writing[w] # 0 /\ mode # "async" /\ synced' = Ids(recs)
      /\ acked' = acked \cup ({writing[w]} \cap Ids(recs))
      /\ writing' = [writing EXCEPT ![w] = 0]
      /\ UNCHANGED <<mode, recs, life, pending, appends>>
  BY DEF Sync, Return, how
<1>2. life \notin {"down", "closing", "drained"}
  BY <1>1
<1>3. IsFiniteSet(acked')
  <2>1. acked' = acked \/ acked' = acked \cup {writing[w]}
    BY <1>1
  <2>2. IsFiniteSet(acked \cup {writing[w]})
    BY FS_AddElement
  <2>3. QED BY <2>1, <2>2
<1>4. acked' \subseteq synced' /\ pending' \in Nat
  BY <1>1
<1>5. Cardinality(acked' \ synced') <= pending'
  BY <1>4, FS_EmptySet, acked' \ synced' = {}
<1>6. Known'
  BY <1>1, <1>3
<1>7. Alone' /\ Reopened'
  BY <1>1, <1>2
<1>8. QED BY <1>1, <1>5, <1>6, <1>7

\* A signal leaves a token for the record it acknowledges.
LEMMA SignalKeeps ==
  ASSUME IInv, NEW w \in Writers, Signal(w)
  PROVE  IInv'
<1> USE DEF IInv, Known, Reopened, Alone, Counted, Promised
<1>1. /\ writing[w] # 0 /\ mode = "async" /\ asyncCh'
      /\ acked' = acked \cup ({writing[w]} \cap Ids(recs))
      /\ writing' = [writing EXCEPT ![w] = 0]
      /\ UNCHANGED <<mode, recs, life, pending, appends>>
  BY DEF Signal, Return, how
<1>2. life \notin {"down", "closing", "drained"}
  BY <1>1
<1>3. IsFiniteSet(acked')
  <2>1. acked' = acked \/ acked' = acked \cup {writing[w]}
    BY <1>1
  <2>2. IsFiniteSet(acked \cup {writing[w]})
    BY FS_AddElement
  <2>3. QED BY <2>1, <2>2
<1>4. Known'
  BY <1>1, <1>3
<1>5. Alone' /\ Reopened'
  BY <1>1, <1>2
<1>6. QED BY <1>1, <1>4, <1>5

\* asyncWriter syncs before it forgets, and stops when the token is gone.
LEMMA AsyncKeeps ==
  ASSUME IInv, AsyncWriter
  PROVE  IInv'
<1> USE DEF IInv, Known, Reopened, Alone, Counted, Promised
<1>1. CASE AsyncReceive
  BY <1>1 DEF AsyncReceive, Selecting, how, file
<1>2. CASE AsyncFlush
  BY <1>2 DEF AsyncFlush, Selecting, how
<1>3. CASE AsyncClear
  BY <1>3 DEF AsyncClear, how, file
<1>4. CASE AsyncStop
  BY <1>4 DEF AsyncStop, Selecting, how
<1>5. QED BY <1>1, <1>2, <1>3, <1>4 DEF AsyncWriter

\* One lemma for each kind of step.
THEOREM StepIInv == IInv /\ [Next]_vars => IInv'
<1>1. IInv /\ UNCHANGED vars => IInv'
  BY DEF IInv, Known, Reopened, Alone, Counted, Promised, vars, how
<1>2. QED
  BY <1>1, OpeningKeeps, AppendKeeps, SyncKeeps, SignalKeeps, AsyncKeeps DEF Next

\* What the log has acknowledged is accounted for, in every run.
THEOREM IInvAlways == Spec => []IInv
BY InitIInv, StepIInv, PTL DEF Spec

\* SyncPeriodic: whatever the writers, resets and restarts, a loss of power
\* takes at most the appends that pending counts, when no sync is under way.
THEOREM PeriodicBoundAlways == Spec => []PeriodicBound
<1>1. IInv => PeriodicBound
  BY DEF IInv, Counted, PeriodicBound
<1>2. QED BY <1>1, IInvAlways, PTL

\* SyncAsync: when Close has seen asyncWriter end, nothing acknowledged is left
\* unsynced, however the last appends, the tick and the closing of the channel
\* have met.
THEOREM CloseSyncsAlways == Spec => []CloseSyncs
<1>1. IInv => CloseSyncs
  BY DEF IInv, Promised, CloseSyncs
<1>2. QED BY <1>1, IInvAlways, PTL

-----------------------------------------------------------------------------
(* The walk of Replay.                                                     *)

\* A nonempty set of positions has a last one.
LEMMA LastPosition ==
  ASSUME NEW end \in Nat, NEW S \in SUBSET (0 .. end), S # {}
  PROVE  \E p \in S : \A q \in S : q <= p
<1> DEFINE behind(p) == {q \in S : q > p}
           sets      == {behind(p) : p \in S}
<1>1. \A p \in S : behind(p) \in SUBSET Nat /\ IsFiniteSet(behind(p))
  <2> TAKE p \in S
  <2>0. \A q \in S : q \in Nat /\ q <= end
    OBVIOUS
  <2>1. behind(p) \in SUBSET Nat /\ \A q \in behind(p) : q <= end
    BY <2>0
  <2> HIDE DEF behind
  <2>2. IsFiniteSet(behind(p))
    BY <2>1, FS_BoundedSetOfNaturals
  <2> QED BY <2>1, <2>2
<1>2. sets \subseteq FiniteSubsetsOf(Nat) /\ sets # {}
  BY <1>1 DEF FiniteSubsetsOf
<1>3. PICK B \in sets : \A A \in sets : ~(<<A, B>> \in StrictSubsetOrdering(Nat))
  <2> HIDE DEF sets
  <2> QED BY <1>2, FS_StrictSubsetOrderingWellFounded, WFMin
<1>4. PICK p \in S : B = behind(p)
  OBVIOUS
<1>5. ASSUME NEW q \in S, q > p PROVE FALSE
  <2>1. behind(q) \subseteq behind(p) /\ behind(q) # behind(p)
    <3>1. \A i \in S : i > q => i > p
      BY <1>5
    <3>2. q \in behind(p) /\ q \notin behind(q)
      BY <1>5
    <3> QED BY <3>1, <3>2
  <2>2. <<behind(q), behind(p)>> \in StrictSubsetOrdering(Nat)
    BY <1>1, <2>1 DEF StrictSubsetOrdering
  <2> QED BY <1>3, <1>4, <2>2
<1>6. QED BY <1>5

\* A record: its number, its extent, and whether its bytes are all there.
Extent == [id : Nat, at : Nat \ {0}, len : {n \in Nat : n > 5}, torn : BOOLEAN]

\* What the walk returns from p, if it is f behind p.
From(rs, end, p, f) ==
  IF RecordAt(rs, p, end) # {}
  THEN LET r == CHOOSE r \in RecordAt(rs, p, end) : TRUE IN <<r.id>> \o f[p + r.len]
  ELSE IF EmptyBatchAt(rs, p, end) THEN f[p + 5] ELSE << >>

\* That depends only on what is returned behind p.
LEMMA FromLater ==
  ASSUME NEW rs \in SUBSET Extent, NEW end \in Nat, NEW p \in 1 .. end, NEW f, NEW g,
         \A q \in (p + 1) .. end : f[q] = g[q]
  PROVE  From(rs, end, p, f) = From(rs, end, p, g)
<1>1. CASE RecordAt(rs, p, end) # {}
  <2> DEFINE r == CHOOSE r \in RecordAt(rs, p, end) : TRUE
  <2>1. r \in RecordAt(rs, p, end)
    BY <1>1
  <2> HIDE DEF r
  <2>2. p + r.len \in (p + 1) .. end
    BY <2>1 DEF RecordAt, Extent
  <2>3. f[p + r.len] = g[p + r.len]
    BY <2>2
  <2> USE DEF r
  <2> QED BY <1>1, <2>3 DEF From
<1>2. CASE RecordAt(rs, p, end) = {} /\ EmptyBatchAt(rs, p, end)
  <2>1. p + 5 \in (p + 1) .. end
    BY <1>2 DEF EmptyBatchAt
  <2> QED BY <1>2, <2>1 DEF From
<1>3. CASE RecordAt(rs, p, end) = {} /\ ~EmptyBatchAt(rs, p, end)
  BY <1>3 DEF From
<1> QED BY <1>1, <1>2, <1>3

\* The walk is well defined, as it goes on behind every position.
LEMMA WalkIs ==
  ASSUME NEW rs \in SUBSET Extent, NEW end \in Nat
  PROVE  Walk(rs, end) = [p \in 1 .. end |-> From(rs, end, p, Walk(rs, end))]
<1> DEFINE tail(n, f) == f = [p \in (n + 1) .. end |-> From(rs, end, p, f)]
           bad        == {n \in 0 .. end : ~ \E f : tail(n, f)}
<1>1. \E f : tail(end, f)
  <2>1. tail(end, [p \in (end + 1) .. end |-> << >>])
    OBVIOUS
  <2> HIDE DEF tail
  <2> QED BY <2>1
<1>2. bad = {}
  <2> SUFFICES ASSUME bad # {} PROVE FALSE
    OBVIOUS
  <2>1. bad \in SUBSET (0 .. end)
    OBVIOUS
  <2>2. PICK n \in bad : \A m \in bad : m <= n
    <3> HIDE DEF bad
    <3> QED BY <2>1, LastPosition
  <2>3. n \in 0 .. end /\ n # end /\ ~ \E f : tail(n, f)
    BY <1>1
  <2>4. n + 1 \in 0 .. end /\ n + 1 \notin bad
    <3> HIDE DEF bad, tail
    <3>1. n + 1 \in 0 .. end /\ ~(n + 1 <= n)
      BY <2>3
    <3> QED BY <2>2, <3>1
  <2>5. PICK f : tail(n + 1, f)
    BY <2>4
  <2> DEFINE g == [p \in (n + 1) .. end |-> IF p = n + 1 THEN From(rs, end, p, f) ELSE f[p]]
  <2>6. \A p \in (n + 1) .. end : From(rs, end, p, g) = From(rs, end, p, f)
    <3> TAKE p \in (n + 1) .. end
    <3>1. p \in 1 .. end /\ \A q \in (p + 1) .. end : q \in (n + 1) .. end /\ q # n + 1
      BY <2>3
    <3>2. \A q \in (p + 1) .. end : g[q] = f[q]
      BY <3>1
    <3> HIDE DEF g
    <3> QED BY <3>1, <3>2, FromLater
  <2>7. \A p \in (n + 1) .. end : p # n + 1 => f[p] = From(rs, end, p, f)
    <3> TAKE p \in (n + 1) .. end
    <3>1. p # n + 1 => p \in (n + 1 + 1) .. end
      BY <2>3
    <3> QED BY <2>5, <3>1
  <2>8. \A p \in (n + 1) .. end : g[p] = From(rs, end, p, g)
    BY <2>6, <2>7
  <2>9. tail(n, g)
    BY <2>8
  <2> HIDE DEF tail, g
  <2> QED BY <2>3, <2>9
<1>3. \E f : tail(0, f)
  <2>1. 0 \in 0 .. end
    OBVIOUS
  <2>2. \A n \in 0 .. end : \E f : tail(n, f)
    <3> HIDE DEF tail
    <3> QED BY <1>2, Zenon
  <2> HIDE DEF tail
  <2> QED BY <2>1, <2>2
<1>4. Walk(rs, end) = CHOOSE f : f = [p \in 1 .. end |-> From(rs, end, p, f)]
  BY DEF Walk, From
<1> QED BY <1>3, <1>4

\* Whole records and zeros up to end, in the order of their numbers.
Placed(rs, end) ==
  /\ rs \in SUBSET Extent
  /\ \A r \in rs : r.at + r.len <= end
  /\ \A r, q \in rs : \/ r = q
                      \/ r.id < q.id /\ r.at + r.len <= q.at
                      \/ q.id < r.id /\ q.at + q.len <= r.at

\* A whole record is found, and the walk goes on behind it.
LEMMA WalkRecord ==
  ASSUME NEW rs, NEW edge, Placed(rs, edge), NEW end \in Nat,
         NEW r \in rs, ~r.torn, r.at + r.len <= end
  PROVE  Walk(rs, end)[r.at] = <<r.id>> \o Walk(rs, end)[r.at + r.len]
<1>1. r \in Extent /\ r.at \in 1 .. end
  BY DEF Placed, Extent
<1>2. RecordAt(rs, r.at, end) = {r}
  <2>1. r \in RecordAt(rs, r.at, end)
    BY DEF RecordAt
  <2>2. ASSUME NEW q \in RecordAt(rs, r.at, end) PROVE q = r
    <3>1. q \in rs /\ q.at = r.at
      BY DEF RecordAt
    <3>2. q \in Extent
      BY <3>1 DEF Placed
    <3>3. ~(r.at + r.len <= q.at) /\ ~(q.at + q.len <= r.at)
      BY <1>1, <3>1, <3>2 DEF Extent
    <3> QED BY <3>1, <3>3 DEF Placed
  <2> QED BY <2>1, <2>2
<1>3. (CHOOSE q \in {r} : TRUE) = r
  OBVIOUS
<1>4. Walk(rs, end)[r.at] = From(rs, end, r.at, Walk(rs, end))
  BY <1>1, WalkIs DEF Placed
<1> QED BY <1>2, <1>3, <1>4 DEF From

\* Five zeros are passed ...
LEMMA WalkEmptyBatch ==
  ASSUME NEW rs \in SUBSET Extent, NEW end \in Nat, NEW p \in 1 .. end,
         EmptyBatchAt(rs, p, end)
  PROVE  Walk(rs, end)[p] = Walk(rs, end)[p + 5]
<1>1. ZeroAt(rs, p)
  BY DEF EmptyBatchAt
<1>2. RecordAt(rs, p, end) = {}
  BY <1>1 DEF RecordAt, ZeroAt, Extent
<1>3. Walk(rs, end)[p] = From(rs, end, p, Walk(rs, end))
  BY WalkIs
<1> QED BY <1>2, <1>3 DEF From

\* ... and anything else ends the walk.
LEMMA WalkEnds ==
  ASSUME NEW rs \in SUBSET Extent, NEW end \in Nat, NEW p \in 1 .. end,
         ~EmptyBatchAt(rs, p, end), RecordAt(rs, p, end) = {}
  PROVE  Walk(rs, end)[p] = << >>
BY WalkIs DEF From

\* What is found from p on: whole records, in order.
Finds(rs, p, found) ==
  /\ found \in Seq(Nat)
  /\ \A i \in 1 .. Len(found) : \E r \in rs : r.id = found[i] /\ ~r.torn /\ p <= r.at
  /\ \A i, j \in 1 .. Len(found) : i < j => found[i] < found[j]

\* A sequence with one more element in front.
LEMMA Front ==
  ASSUME NEW a \in Nat, NEW t \in Seq(Nat)
  PROVE  /\ <<a>> \o t \in Seq(Nat) /\ Len(<<a>> \o t) = Len(t) + 1
         /\ (<<a>> \o t)[1] = a
         /\ \A i \in 1 .. Len(t) : (<<a>> \o t)[i + 1] = t[i]
OBVIOUS

\* It is the same whether one more goes in front first or behind.
LEMMA FrontAndBack ==
  ASSUME NEW a \in Nat, NEW b \in Nat, NEW t \in Seq(Nat)
  PROVE  <<a>> \o Append(t, b) = Append(<<a>> \o t, b)
OBVIOUS

\* A whole record in front keeps the order.
LEMMA FindsFront ==
  ASSUME NEW rs, NEW edge, Placed(rs, edge), NEW r \in rs, ~r.torn,
         NEW t, Finds(rs, r.at + r.len, t)
  PROVE  Finds(rs, r.at, <<r.id>> \o t)
<1> DEFINE s == <<r.id>> \o t
<1>1. r \in Extent
  BY DEF Placed
<1>2. r.id \in Nat /\ t \in Seq(Nat)
  BY <1>1 DEF Extent, Finds
<1>3. /\ s \in Seq(Nat) /\ Len(s) = Len(t) + 1 /\ s[1] = r.id
      /\ \A i \in 1 .. Len(t) : s[i + 1] = t[i]
  BY <1>2, Front
<1> HIDE DEF s
<1>4. \A i \in 1 .. Len(s) : i = 1 \/ (i - 1 \in 1 .. Len(t) /\ s[i] = t[i - 1])
  <2> TAKE i \in 1 .. Len(s)
  <2>1. i # 1 => i - 1 \in 1 .. Len(t) /\ (i - 1) + 1 = i
    BY <1>2, <1>3
  <2> QED BY <1>3, <2>1
<1>5. ASSUME NEW i \in 1 .. Len(t)
      PROVE  \E q \in rs : q.id = t[i] /\ ~q.torn /\ r.at <= q.at /\ r.id < t[i]
  <2>1. PICK q \in rs : q.id = t[i] /\ ~q.torn /\ r.at + r.len <= q.at
    BY DEF Finds
  <2>2. q \in Extent
    BY DEF Placed
  <2>3. q # r /\ ~(q.at + q.len <= r.at) /\ r.at <= q.at
    BY <1>1, <2>1, <2>2 DEF Extent
  <2>4. r.id < q.id
    BY <2>3 DEF Placed
  <2> QED BY <2>1, <2>3, <2>4
<1>6. ASSUME NEW i \in 1 .. Len(s)
      PROVE  \E q \in rs : q.id = s[i] /\ ~q.torn /\ r.at <= q.at
  <2>1. CASE i = 1
    <3>1. r.at <= r.at /\ r.id = s[i]
      BY <1>1, <1>3, <2>1 DEF Extent
    <3> QED BY <3>1
  <2>2. CASE i # 1
    BY <1>4, <1>5, <2>2
  <2> QED BY <2>1, <2>2
<1>7. ASSUME NEW i \in 1 .. Len(s), NEW j \in 1 .. Len(s), i < j
      PROVE  s[i] < s[j]
  <2>1. j # 1 /\ j - 1 \in 1 .. Len(t) /\ s[j] = t[j - 1]
    <3>1. j # 1
      BY <1>7
    <3> QED BY <1>4, <3>1
  <2>2. CASE i = 1
    BY <1>3, <1>5, <2>1, <2>2
  <2>3. CASE i # 1
    <3>1. i - 1 \in 1 .. Len(t) /\ s[i] = t[i - 1]
      BY <1>4, <2>3
    <3>2. i - 1 < j - 1
      BY <1>7
    <3>3. t[i - 1] < t[j - 1]
      BY <2>1, <3>1, <3>2 DEF Finds
    <3> QED BY <2>1, <3>1, <3>3
  <2> QED BY <2>2, <2>3
<1> QED BY <1>3, <1>6, <1>7 DEF Finds, s

\* What is found from a later position is found from an earlier one.
LEMMA FindsMore ==
  ASSUME NEW rs \in SUBSET Extent, NEW p \in Nat, NEW q \in Nat, p <= q,
         NEW t, Finds(rs, q, t)
  PROVE  Finds(rs, p, t)
<1>1. \A r \in rs : q <= r.at => p <= r.at
  BY DEF Extent
<1> QED BY <1>1 DEF Finds

\* Where the walk goes from p.
LEMMA WalkStep ==
  ASSUME NEW rs, NEW edge, Placed(rs, edge), NEW end \in Nat, NEW p \in 1 .. end
  PROVE  \/ \E r \in rs : /\ r.at = p /\ ~r.torn /\ p + r.len \in (p + 1) .. end
                          /\ Walk(rs, end)[p] = <<r.id>> \o Walk(rs, end)[p + r.len]
         \/ /\ EmptyBatchAt(rs, p, end) /\ p + 5 \in (p + 1) .. end
            /\ Walk(rs, end)[p] = Walk(rs, end)[p + 5]
         \/ /\ ~EmptyBatchAt(rs, p, end) /\ RecordAt(rs, p, end) = {}
            /\ Walk(rs, end)[p] = << >>
<1>1. rs \in SUBSET Extent
  BY DEF Placed
<1>2. CASE EmptyBatchAt(rs, p, end)
  BY <1>1, <1>2, WalkEmptyBatch DEF EmptyBatchAt
<1>3. CASE RecordAt(rs, p, end) # {}
  <2>1. PICK r \in rs : r.at = p /\ ~r.torn /\ p + r.len <= end
    BY <1>3 DEF RecordAt
  <2>2. p + r.len \in (p + 1) .. end
    BY <1>1, <2>1 DEF Extent
  <2> QED BY <2>1, <2>2, WalkRecord
<1>4. CASE ~EmptyBatchAt(rs, p, end) /\ RecordAt(rs, p, end) = {}
  BY <1>1, <1>4, WalkEnds
<1> QED BY <1>2, <1>3, <1>4

\* The walk finds whole records only, in the order of their numbers.
LEMMA WalkFinds ==
  ASSUME NEW rs, NEW edge, Placed(rs, edge), NEW end \in Nat
  PROVE  \A p \in 1 .. end : Finds(rs, p, Walk(rs, end)[p])
<1> DEFINE bad == {p \in 1 .. end : ~Finds(rs, p, Walk(rs, end)[p])}
<1> SUFFICES ASSUME bad # {} PROVE FALSE
  OBVIOUS
<1>1. bad \in SUBSET (0 .. end)
  OBVIOUS
<1>2. PICK p \in bad : \A q \in bad : q <= p
  <2> HIDE DEF bad
  <2> QED BY <1>1, LastPosition
<1>3. p \in 1 .. end /\ ~Finds(rs, p, Walk(rs, end)[p])
  OBVIOUS
<1>4. \A q \in (p + 1) .. end : Finds(rs, q, Walk(rs, end)[q])
  <2> TAKE q \in (p + 1) .. end
  <2>1. q \in 1 .. end /\ ~(q <= p)
    BY <1>3
  <2> QED BY <1>2, <2>1
<1> HIDE DEF bad
<1>5. rs \in SUBSET Extent
  BY DEF Placed
<1>6. CASE \E r \in rs : /\ r.at = p /\ ~r.torn /\ p + r.len \in (p + 1) .. end
                         /\ Walk(rs, end)[p] = <<r.id>> \o Walk(rs, end)[p + r.len]
  BY <1>3, <1>4, <1>6, FindsFront
<1>7. CASE p + 5 \in (p + 1) .. end /\ Walk(rs, end)[p] = Walk(rs, end)[p + 5]
  <2>1. p \in Nat /\ p + 5 \in Nat /\ p <= p + 5 /\ Finds(rs, p + 5, Walk(rs, end)[p])
    BY <1>3, <1>4, <1>7
  <2> QED BY <1>3, <1>5, <2>1, FindsMore
<1>8. CASE Walk(rs, end)[p] = << >>
  BY <1>3, <1>8 DEF Finds
<1> QED BY <1>3, <1>6, <1>7, <1>8, WalkStep

\* Behind the records there is nothing to find.
LEMMA WalkBehind ==
  ASSUME NEW rs, NEW edge \in Nat, Placed(rs, edge), NEW end \in Nat
  PROVE  \A p \in 1 .. end : edge <= p => Walk(rs, end)[p] = << >>
<1> DEFINE bad == {p \in 1 .. end : edge <= p /\ Walk(rs, end)[p] # << >>}
<1> SUFFICES ASSUME bad # {} PROVE FALSE
  OBVIOUS
<1>1. bad \in SUBSET (0 .. end)
  OBVIOUS
<1>2. PICK p \in bad : \A q \in bad : q <= p
  <2> HIDE DEF bad
  <2> QED BY <1>1, LastPosition
<1>3. p \in 1 .. end /\ edge <= p /\ Walk(rs, end)[p] # << >>
  OBVIOUS
<1>4. \A q \in (p + 1) .. end : Walk(rs, end)[q] = << >>
  <2> TAKE q \in (p + 1) .. end
  <2>1. q \in 1 .. end /\ edge <= q /\ ~(q <= p)
    BY <1>3
  <2> QED BY <1>2, <2>1
<1> HIDE DEF bad
<1>5. \A r \in rs : r.at # p
  BY <1>3 DEF Placed, Extent
<1> QED BY <1>3, <1>4, <1>5, WalkStep

\* The zeros behind the records do not matter.
LEMMA WalkLonger ==
  ASSUME NEW rs, NEW edge \in Nat, Placed(rs, edge), NEW end \in Nat, edge <= end
  PROVE  \A p \in 1 .. edge : Walk(rs, end)[p] = Walk(rs, edge)[p]
<1> DEFINE bad == {p \in 1 .. edge : Walk(rs, end)[p] # Walk(rs, edge)[p]}
<1> SUFFICES ASSUME bad # {} PROVE FALSE
  OBVIOUS
<1>1. bad \in SUBSET (0 .. edge)
  OBVIOUS
<1>2. PICK p \in bad : \A q \in bad : q <= p
  <2> HIDE DEF bad
  <2> QED BY <1>1, LastPosition
<1>3. p \in 1 .. edge /\ p \in 1 .. end /\ Walk(rs, end)[p] # Walk(rs, edge)[p]
  OBVIOUS
<1>4. \A q \in (p + 1) .. edge : Walk(rs, end)[q] = Walk(rs, edge)[q]
  <2> TAKE q \in (p + 1) .. edge
  <2>1. q \in 1 .. edge /\ ~(q <= p)
    BY <1>3
  <2> QED BY <1>2, <2>1
<1> HIDE DEF bad
<1>5. rs \in SUBSET Extent
  BY DEF Placed
<1>6. ASSUME NEW r \in rs, r.at = p, ~r.torn PROVE FALSE
  <2>1. r.at + r.len <= edge /\ r.at + r.len <= end /\ p + r.len \in (p + 1) .. edge
    BY <1>5, <1>6 DEF Placed, Extent
  <2>2. /\ Walk(rs, end)[p] = <<r.id>> \o Walk(rs, end)[p + r.len]
        /\ Walk(rs, edge)[p] = <<r.id>> \o Walk(rs, edge)[p + r.len]
    BY <1>6, <2>1, WalkRecord
  <2> QED BY <1>3, <1>4, <2>1, <2>2
<1>7. ASSUME EmptyBatchAt(rs, p, edge) PROVE FALSE
  <2>1. EmptyBatchAt(rs, p, end) /\ p + 5 \in (p + 1) .. edge
    BY <1>3, <1>7 DEF EmptyBatchAt
  <2> QED BY <1>3, <1>4, <1>5, <1>7, <2>1, WalkEmptyBatch
<1>8. RecordAt(rs, p, edge) = {} /\ RecordAt(rs, p, end) = {}
  BY <1>6 DEF RecordAt
<1>9. Walk(rs, edge)[p] = << >>
  BY <1>3, <1>5, <1>7, <1>8, WalkEnds
<1>10. CASE EmptyBatchAt(rs, p, end)
  <2>1. p + 5 \in 1 .. end /\ edge <= p + 5
    BY <1>3, <1>7, <1>10 DEF EmptyBatchAt
  <2>2. Walk(rs, end)[p] = Walk(rs, end)[p + 5]
    BY <1>3, <1>5, <1>10, WalkEmptyBatch
  <2>3. Walk(rs, end)[p + 5] = << >>
    BY <2>1, WalkBehind
  <2> QED BY <1>3, <1>9, <2>2, <2>3
<1>11. CASE ~EmptyBatchAt(rs, p, end)
  BY <1>3, <1>5, <1>8, <1>9, <1>11, WalkEnds
<1> QED BY <1>10, <1>11
-----------------------------------------------------------------------------
(* The positions the walk passes.                                          *)

\* One step of the walk, over a whole record or an empty batch.
Leads(rs, p, q) ==
  \/ \E r \in rs : r.at = p /\ ~r.torn /\ q = p + r.len
  \/ q = p + 5 /\ \A z \in p .. p + 4 : ZeroAt(rs, z)

\* From p the walk comes to end, and so to what is appended there.
Reaches(rs, p, end) ==
  \E P \in SUBSET (1 .. end) :
    p \in P /\ end \in P /\ \A x \in P : x = end \/ \E y \in P : Leads(rs, x, y)

\* The walk is where it is ...
LEMMA ReachesSelf == ASSUME NEW rs, NEW end \in Nat \ {0} PROVE Reaches(rs, end, end)
<1>1. {end} \in SUBSET (1 .. end)
  OBVIOUS
<1> QED BY <1>1 DEF Reaches

\* ... and comes to wherever its next position leads.
LEMMA ReachesNext ==
  ASSUME NEW rs, NEW end \in Nat, NEW p \in 1 .. end, NEW q,
         Leads(rs, p, q), Reaches(rs, q, end)
  PROVE  Reaches(rs, p, end)
<1>1. PICK P \in SUBSET (1 .. end) :
        q \in P /\ end \in P /\ \A x \in P : x = end \/ \E y \in P : Leads(rs, x, y)
  BY DEF Reaches
<1>2. P \cup {p} \in SUBSET (1 .. end)
  OBVIOUS
<1>3. \A x \in P \cup {p} : x = end \/ \E y \in P \cup {p} : Leads(rs, x, y)
  BY <1>1
<1> QED BY <1>1, <1>2, <1>3 DEF Reaches

Elems(s) == {s[i] : i \in 1 .. Len(s)}

\* The elements of a sequence with one more in front.
LEMMA ElemsFront ==
  ASSUME NEW a \in Nat, NEW t \in Seq(Nat)
  PROVE  a \in Elems(<<a>> \o t) /\ Elems(t) \subseteq Elems(<<a>> \o t)
<1>1. /\ Len(<<a>> \o t) = Len(t) + 1 /\ (<<a>> \o t)[1] = a
      /\ \A i \in 1 .. Len(t) : (<<a>> \o t)[i + 1] = t[i]
  BY Front
<1> DEFINE s == <<a>> \o t
<1> HIDE DEF s
<1>2. 1 \in 1 .. Len(s) /\ \A i \in 1 .. Len(t) : i + 1 \in 1 .. Len(s)
  BY <1>1 DEF s
<1>3. a \in Elems(s)
  BY <1>1, <1>2 DEF Elems, s
<1>4. ASSUME NEW b \in Elems(t) PROVE b \in Elems(s)
  <2>1. PICK i \in 1 .. Len(t) : b = t[i]
    BY DEF Elems
  <2>2. i + 1 \in 1 .. Len(s) /\ s[i + 1] = b
    BY <1>1, <1>2, <2>1 DEF s
  <2> QED BY <2>2 DEF Elems
<1> QED BY <1>3, <1>4 DEF s

\* A walk that has come to the end of some records rs finds those of them, K, that are
\* still there, if what is left of the others lies behind.
LEMMA WalkCovers ==
  ASSUME NEW rs, NEW edge \in Nat, Placed(rs, edge), Reaches(rs, 1, edge),
         NEW left, NEW end \in Nat, edge <= end, Placed(left, end), NEW K,
         \A r \in rs : r.id \in K => r \in left /\ \A q \in rs : q.id < r.id => q.id \in K,
         \A l \in left : \E r \in rs : l.at = r.at /\ l.len = r.len
  PROVE  \A r \in rs : r.id \in K => r.id \in Elems(Walk(left, end)[1])
<1>1. PICK P \in SUBSET (1 .. edge) :
        1 \in P /\ edge \in P /\ \A x \in P : x = edge \/ \E y \in P : Leads(rs, x, y)
  BY DEF Reaches
<1> DEFINE good(p) == \A r \in rs : r.id \in K /\ p <= r.at
                                      => r.id \in Elems(Walk(left, end)[p])
           bad     == {p \in P : ~good(p)}
<1>2. bad = {}
  <2> SUFFICES ASSUME bad # {} PROVE FALSE
    OBVIOUS
  <2>1. bad \in SUBSET (0 .. edge)
    <3>1. \A p \in P : p \in 0 .. edge
      OBVIOUS
    <3> HIDE DEF good
    <3> QED BY <3>1
  <2>2. PICK p \in bad : \A q \in bad : q <= p
    <3> HIDE DEF bad
    <3> QED BY <2>1, LastPosition
  <2>3. p \in P /\ ~good(p) /\ p \in 1 .. edge /\ p \in 1 .. end
    <3> HIDE DEF good
    <3>1. p \in P /\ ~good(p)
      OBVIOUS
    <3>2. p \in 1 .. edge
      BY <3>1
    <3> QED BY <3>1, <3>2
  <2>4. \A q \in P : p < q => good(q)
    <3> TAKE q \in P
    <3>1. p < q => q \notin bad
      BY <2>2, <2>3
    <3> QED BY <3>1
  <2> HIDE DEF bad, good
  <2>5. left \in SUBSET Extent /\ rs \in SUBSET Extent
    BY DEF Placed
  <2>6. \A q \in 1 .. end : Walk(left, end)[q] \in Seq(Nat)
    BY WalkFinds DEF Finds
  <2>7. CASE p = edge
    <3>1. \A r \in rs : ~(p <= r.at)
      BY <2>5, <2>7 DEF Placed, Extent
    <3> QED BY <2>3, <3>1 DEF good
  <2>8. ASSUME NEW r \in rs, r.at = p, ~r.torn, p + r.len \in P PROVE FALSE
    <3>1. p < p + r.len /\ p + r.len <= end /\ p + r.len \in 1 .. end
      BY <2>3, <2>5, <2>8 DEF Extent
    <3>2. good(p + r.len)
      BY <2>4, <2>8, <3>1
    <3>3. \A q \in rs : p <= q.at => q = r \/ (r.id < q.id /\ p + r.len <= q.at)
      <4> TAKE q \in rs
      <4>1. p <= q.at => ~(q.at + q.len <= r.at)
        BY <2>5, <2>8 DEF Extent
      <4> QED BY <2>8, <4>1 DEF Placed
    <3>4. CASE r.id \in K
      <4>1. r \in left /\ r.id \in Nat
        BY <2>5, <3>4 DEF Extent
      <4>2. Walk(left, end)[p] = <<r.id>> \o Walk(left, end)[p + r.len]
        <5>1. r \in left /\ ~r.torn /\ r.at + r.len <= end
          BY <2>8, <3>1, <4>1
        <5>2. Walk(left, end)[r.at] = <<r.id>> \o Walk(left, end)[r.at + r.len]
          BY <5>1, WalkRecord
        <5> QED BY <2>8, <5>2
      <4>3. r.id \in Elems(Walk(left, end)[p])
            /\ Elems(Walk(left, end)[p + r.len]) \subseteq Elems(Walk(left, end)[p])
        BY <2>6, <3>1, <4>1, <4>2, ElemsFront
      <4>4. good(p)
        BY <3>2, <3>3, <4>3 DEF good
      <4> QED BY <2>3, <4>4
    <3>5. CASE r.id \notin K
      <4>1. \A q \in rs : p <= q.at => q.id \notin K
        BY <3>3, <3>5
      <4> QED BY <2>3, <4>1 DEF good
    <3> QED BY <3>4, <3>5
  <2>9. ASSUME p + 5 \in P, \A z \in p .. p + 4 : ZeroAt(rs, z) PROVE FALSE
    <3>1. p < p + 5 /\ p + 5 <= end
      BY <2>3, <2>9
    <3>2. good(p + 5)
      BY <2>4, <2>9, <3>1
    <3>3. \A z \in p .. p + 4 : ZeroAt(left, z)
      BY <2>9 DEF ZeroAt
    <3>4. EmptyBatchAt(left, p, end)
      BY <3>1, <3>3 DEF EmptyBatchAt
    <3>5. Walk(left, end)[p] = Walk(left, end)[p + 5]
      BY <2>3, <2>5, <3>4, WalkEmptyBatch
    <3>6. \A r \in rs : p <= r.at => p + 5 <= r.at
      <4> SUFFICES ASSUME NEW r \in rs, p <= r.at, ~(p + 5 <= r.at) PROVE FALSE
        OBVIOUS
      <4>1. r \in Extent
        BY <2>5
      <4>2. r.at \in p .. p + 4
        BY <2>3, <4>1 DEF Extent
      <4>3. ZeroAt(rs, r.at)
        BY <2>9, <4>2
      <4> QED BY <4>1, <4>3 DEF ZeroAt, Extent
    <3>7. good(p)
      BY <3>2, <3>5, <3>6 DEF good
    <3> QED BY <2>3, <3>7
  <2> QED BY <1>1, <2>3, <2>7, <2>8, <2>9 DEF Leads
<1>3. good(1)
  BY <1>1, <1>2
<1>4. \A r \in rs : 1 <= r.at
  BY DEF Placed, Extent
<1> QED BY <1>3, <1>4

With(rs, new) == rs \cup {new}

\* A record that is appended at edge, in a file that has end bytes then.
Follows(new, rs, edge, end) ==
  /\ new \in Extent /\ new.at = edge /\ edge + new.len <= end
  /\ Placed(With(rs, new), edge + new.len)

\* What is appended is found just where the walk comes to it, and nothing else changes.
LEMMA WalkAppend ==
  ASSUME NEW rs, NEW edge \in Nat \ {0}, Placed(rs, edge),
         NEW end \in Nat, NEW new, Follows(new, rs, edge, end)
  PROVE  \A p \in 1 .. edge :
           \/ Walk(With(rs, new), end)[p] = Walk(rs, edge)[p]
           \/ /\ ~new.torn /\ Reaches(rs, p, edge)
              /\ Walk(With(rs, new), end)[p] = Append(Walk(rs, edge)[p], new.id)
<1> SUFFICES ASSUME NEW more, more = With(rs, new)
             PROVE  \A p \in 1 .. edge :
                 \/ Walk(more, end)[p] = Walk(rs, edge)[p]
                 \/ /\ ~new.torn /\ Reaches(rs, p, edge)
                    /\ Walk(more, end)[p] = Append(Walk(rs, edge)[p], new.id)
  OBVIOUS
<1>a. /\ more = rs \cup {new} /\ Placed(more, edge + new.len)
      /\ new \in Extent /\ new.at = edge /\ edge + new.len <= end
  BY DEF With, Follows
<1> USE <1>a
<1> DEFINE good(p) == \/ Walk(more, end)[p] = Walk(rs, edge)[p]
                      \/ /\ ~new.torn /\ Reaches(rs, p, edge)
                         /\ Walk(more, end)[p] = Append(Walk(rs, edge)[p], new.id)
           bad     == {p \in 1 .. edge : ~good(p)}
<1> HIDE DEF good
<1> SUFFICES ASSUME bad # {} PROVE FALSE
  BY DEF good
<1>1. bad \in SUBSET (0 .. edge)
  OBVIOUS
<1>2. PICK p \in bad : \A q \in bad : q <= p
  <2> HIDE DEF bad
  <2> QED BY <1>1, LastPosition
<1>3. p \in 1 .. edge /\ ~good(p)
  OBVIOUS
<1>4. \A q \in (p + 1) .. edge : good(q)
  <2> TAKE q \in (p + 1) .. edge
  <2>1. q \in 1 .. edge /\ ~(q <= p)
    BY <1>3
  <2> QED BY <1>2, <2>1
<1> HIDE DEF bad
<1>5. /\ rs \in SUBSET Extent /\ more \in SUBSET Extent
      /\ p \in 1 .. end /\ edge \in 1 .. end /\ edge + new.len \in 1 .. end
      /\ new.id \in Nat
  BY <1>3 DEF Placed, Extent
<1>6. \A q \in 1 .. edge : Walk(rs, edge)[q] \in Seq(Nat)
  BY WalkFinds DEF Finds
<1>7. \A z \in 1 .. edge - 1 : ZeroAt(rs, z) => ZeroAt(more, z)
  BY <1>5 DEF ZeroAt
<1>8. ~ZeroAt(more, edge)
  <2>1. new \in more /\ ~(edge < new.at) /\ ~(edge >= new.at + new.len)
    BY DEF Extent
  <2> QED BY <2>1 DEF ZeroAt
<1>9. \A z \in Nat : ZeroAt(more, z) => ZeroAt(rs, z)
  BY DEF ZeroAt
<1>10. CASE p = edge
  <2>1. \A r \in rs : r.at # edge
    BY <1>5 DEF Placed, Extent
  <2>2. Walk(rs, edge)[edge] = << >>
    <3>1. RecordAt(rs, edge, edge) = {} /\ ~EmptyBatchAt(rs, edge, edge)
      BY <2>1 DEF RecordAt, EmptyBatchAt
    <3>2. edge \in 1 .. edge
      OBVIOUS
    <3> QED BY <1>5, <3>1, <3>2, WalkEnds
  <2>3. CASE new.torn
    <3>1. RecordAt(more, edge, end) = {}
      BY <2>1, <2>3 DEF RecordAt
    <3>2. ~EmptyBatchAt(more, edge, end)
      <4>1. edge \in edge .. edge + 4
        OBVIOUS
      <4> QED BY <1>8, <4>1 DEF EmptyBatchAt
    <3>3. Walk(more, end)[edge] = << >>
      BY <1>5, <3>1, <3>2, WalkEnds
    <3> QED BY <1>3, <1>10, <2>2, <3>3 DEF good
  <2>4. CASE ~new.torn
    <3>1. Walk(more, end)[edge] = <<new.id>> \o Walk(more, end)[edge + new.len]
      <4>1. new \in more /\ new.at + new.len <= end /\ edge + new.len \in Nat
        BY <1>5
      <4>2. Walk(more, end)[new.at] = <<new.id>> \o Walk(more, end)[new.at + new.len]
        BY <2>4, <4>1, WalkRecord
      <4> QED BY <4>2
    <3>2. Walk(more, end)[edge + new.len] = << >>
      BY <1>5, WalkBehind
    <3>3. <<new.id>> \o << >> = Append(<< >>, new.id)
      OBVIOUS
    <3>4. Reaches(rs, edge, edge)
      BY ReachesSelf
    <3>5. Walk(more, end)[edge] = Append(Walk(rs, edge)[edge], new.id)
      BY <2>2, <3>1, <3>2, <3>3
    <3> QED BY <1>3, <1>10, <2>4, <3>4, <3>5 DEF good
  <2> QED BY <2>3, <2>4
<1>11. CASE p # edge
  <2>1. ASSUME NEW r \in rs, r.at = p, ~r.torn, p + r.len \in (p + 1) .. edge,
               Walk(rs, edge)[p] = <<r.id>> \o Walk(rs, edge)[p + r.len]
        PROVE  FALSE
    <3> DEFINE t == Walk(rs, edge)[p + r.len]
    <3>1. r \in more /\ r.at + r.len <= end
      BY <1>5, <2>1
    <3>2. Walk(more, end)[p] = <<r.id>> \o Walk(more, end)[p + r.len]
      BY <2>1, <3>1, WalkRecord
    <3>3. CASE Walk(more, end)[p + r.len] = t
      BY <1>3, <2>1, <3>2, <3>3 DEF good
    <3>4. CASE /\ ~new.torn /\ Reaches(rs, p + r.len, edge)
               /\ Walk(more, end)[p + r.len] = Append(t, new.id)
      <4>1. t \in Seq(Nat) /\ r.id \in Nat
        <5>1. p + r.len \in 1 .. edge
          BY <1>3, <2>1
        <5>2. r.id \in Nat
          BY <1>5, <2>1 DEF Extent
        <5> QED BY <1>6, <5>1, <5>2
      <4>2. <<r.id>> \o Append(t, new.id) = Append(<<r.id>> \o t, new.id)
        BY <1>5, <4>1, FrontAndBack
      <4>3. Leads(rs, p, p + r.len)
        BY <2>1 DEF Leads
      <4>4. Reaches(rs, p, edge)
        BY <1>3, <3>4, <4>3, ReachesNext
      <4> QED BY <1>3, <2>1, <3>2, <3>4, <4>2, <4>4 DEF good
    <3> QED BY <1>4, <2>1, <3>3, <3>4 DEF good
  <2>2. ASSUME EmptyBatchAt(rs, p, edge), p + 5 \in (p + 1) .. edge,
               Walk(rs, edge)[p] = Walk(rs, edge)[p + 5]
        PROVE  FALSE
    <3>1. \A z \in p .. p + 4 : ZeroAt(rs, z) /\ z \in 1 .. edge - 1
      BY <1>3, <2>2 DEF EmptyBatchAt
    <3>2. EmptyBatchAt(more, p, end)
      BY <1>3, <1>5, <1>7, <2>2, <3>1 DEF EmptyBatchAt
    <3>3. Walk(more, end)[p] = Walk(more, end)[p + 5]
      BY <1>5, <3>2, WalkEmptyBatch
    <3>4. Reaches(rs, p + 5, edge) => Reaches(rs, p, edge)
      <4>1. Leads(rs, p, p + 5)
        BY <3>1 DEF Leads
      <4> QED BY <1>3, <4>1, ReachesNext
    <3>5. good(p + 5)
      BY <1>4, <2>2
    <3> QED BY <1>3, <2>2, <3>3, <3>4, <3>5 DEF good
  <2>3. ASSUME ~EmptyBatchAt(rs, p, edge), RecordAt(rs, p, edge) = {},
               Walk(rs, edge)[p] = << >>
        PROVE  FALSE
    <3>1. RecordAt(more, p, end) = {}
      <4>1. \A r \in rs : r.at = p => r.torn
        BY <2>3 DEF RecordAt, Placed
      <4> QED BY <1>11, <4>1 DEF RecordAt
    <3>2. ~EmptyBatchAt(more, p, end)
      <4> SUFFICES ASSUME EmptyBatchAt(more, p, end) PROVE FALSE
        OBVIOUS
      <4>1. \A z \in p .. p + 4 : z \in Nat /\ ZeroAt(more, z)
        <5>1. \A z \in p .. p + 4 : z \in Nat
          BY <1>3
        <5> QED BY <5>1 DEF EmptyBatchAt
      <4>2. \A z \in p .. p + 4 : ZeroAt(rs, z) /\ z # edge
        BY <1>8, <1>9, <4>1
      <4>3. p + 5 <= edge
        <5>1. p < edge
          BY <1>3, <1>11
        <5>2. ~(edge <= p + 4)
          <6>1. edge <= p + 4 => edge \in p .. p + 4
            BY <5>1, <1>3
          <6> QED BY <4>2, <6>1
        <5> QED BY <1>3, <5>2
      <4> QED BY <2>3, <4>2, <4>3 DEF EmptyBatchAt
    <3>3. Walk(more, end)[p] = << >>
      BY <1>5, <3>1, <3>2, WalkEnds
    <3> QED BY <1>3, <2>3, <3>3 DEF good
  <2> QED BY <1>3, <2>1, <2>2, <2>3, WalkStep
<1> QED BY <1>10, <1>11
-----------------------------------------------------------------------------
(* What Replay returns.                                                    *)

\* The file behind its records is zero, so its length does not matter.
LEMMA ReplayLonger ==
  ASSUME NEW rs, NEW edge \in Nat \ {0}, Placed(rs, edge), NEW end \in Nat, edge <= end
  PROVE  Replay(rs, end) = Replay(rs, edge)
<1>1. 1 \in 1 .. edge /\ end # 0
  OBVIOUS
<1> QED BY <1>1, WalkLonger DEF Replay

\* A file without records has none to find.
LEMMA ReplayZeros ==
  ASSUME NEW end \in Nat
  PROVE  Replay({}, end) = << >>
<1>1. Placed({}, 1)
  BY DEF Placed
<1>2. end # 0 => Walk({}, end)[1] = << >>
  BY <1>1, WalkBehind
<1> QED BY <1>2 DEF Replay

\* Replay returns whole records, in the order of their numbers.
LEMMA ReplayFinds ==
  ASSUME NEW rs, NEW edge, Placed(rs, edge), NEW end \in Nat
  PROVE  Finds(rs, 1, Replay(rs, end))
<1>1. end # 0 => 1 \in 1 .. end
  OBVIOUS
<1>2. Finds(rs, 1, << >>)
  BY DEF Finds
<1> QED BY <1>1, <1>2, WalkFinds DEF Replay

\* All that was written is found, if the walk comes to its end.
LEMMA ReplayCovers ==
  ASSUME NEW rs, NEW edge \in Nat \ {0}, Placed(rs, edge), Reaches(rs, 1, edge),
         NEW end \in Nat, edge <= end
  PROVE  Elems(Replay(rs, end)) = Ids(rs)
<1>1. Placed(rs, end)
  <2>1. \A r \in rs : r.at + r.len <= end
    BY DEF Placed, Extent
  <2> QED BY <2>1 DEF Placed
<1>2. \A r \in rs : r.id \in Ids(rs)
  BY DEF Ids
<1>3. \A r \in rs : r.id \in Elems(Walk(rs, end)[1])
  BY <1>1, <1>2, WalkCovers
<1>4. Ids(rs) \subseteq Elems(Replay(rs, end))
  BY <1>3 DEF Replay, Ids
<1>5. Finds(rs, 1, Replay(rs, end))
  BY ReplayFinds
<1>6. Elems(Replay(rs, end)) \subseteq Ids(rs)
  BY <1>5 DEF Finds, Elems, Ids
<1> QED BY <1>4, <1>6

\* What is appended is found if and only if the walk comes to it.
LEMMA ReplayAppend ==
  ASSUME NEW rs, NEW edge \in Nat \ {0}, Placed(rs, edge),
         NEW end \in Nat, NEW new, Follows(new, rs, edge, end)
  PROVE  /\ new.torn => Replay(With(rs, new), end) = Replay(rs, edge)
         /\ ~Reaches(rs, 1, edge) => Replay(With(rs, new), end) = Replay(rs, edge)
         /\ ~new.torn /\ Reaches(rs, 1, edge) =>
              Replay(With(rs, new), end) = Append(Replay(rs, edge), new.id)
         /\ Reaches(With(rs, new), 1, end) => ~new.torn /\ Reaches(rs, 1, edge)
         /\ ~new.torn /\ Reaches(rs, 1, edge) => Reaches(With(rs, new), 1, edge + new.len)
<1> DEFINE more == With(rs, new)
<1>a. /\ more = rs \cup {new} /\ Placed(more, edge + new.len)
      /\ new \in Extent /\ new.at = edge /\ edge + new.len <= end
  BY DEF With, Follows
<1>b. \A p \in 1 .. edge :
        \/ Walk(more, end)[p] = Walk(rs, edge)[p]
        \/ /\ ~new.torn /\ Reaches(rs, p, edge)
           /\ Walk(more, end)[p] = Append(Walk(rs, edge)[p], new.id)
  BY WalkAppend
<1> HIDE DEF more
<1> USE <1>a
<1>1. 1 \in 1 .. edge /\ edge # 0 /\ end # 0 /\ new.id \in Nat
  BY DEF Extent
<1>2. \/ Replay(more, end) = Replay(rs, edge)
      \/ /\ ~new.torn /\ Reaches(rs, 1, edge)
         /\ Replay(more, end) = Append(Replay(rs, edge), new.id)
  <2>1. \/ Walk(more, end)[1] = Walk(rs, edge)[1]
        \/ /\ ~new.torn /\ Reaches(rs, 1, edge)
           /\ Walk(more, end)[1] = Append(Walk(rs, edge)[1], new.id)
    BY <1>1, <1>b
  <2>2. Replay(more, end) = Walk(more, end)[1] /\ Replay(rs, edge) = Walk(rs, edge)[1]
    BY <1>1 DEF Replay
  <2> QED BY <2>1, <2>2
<1>3. ~new.torn /\ Reaches(rs, 1, edge) => Reaches(more, 1, edge + new.len)
  <2> SUFFICES ASSUME ~new.torn, Reaches(rs, 1, edge) PROVE Reaches(more, 1, edge + new.len)
    OBVIOUS
  <2>1. PICK P \in SUBSET (1 .. edge) :
          1 \in P /\ edge \in P /\ \A x \in P : x = edge \/ \E y \in P : Leads(rs, x, y)
    BY DEF Reaches
  <2> DEFINE Q == P \cup {edge + new.len}
  <2>2. Q \in SUBSET (1 .. edge + new.len)
    <3>1. \A x \in 1 .. edge : x \in 1 .. edge + new.len
      BY DEF Extent
    <3>2. edge + new.len \in 1 .. edge + new.len
      BY DEF Extent
    <3> QED BY <3>1, <3>2
  <2>3. Leads(more, edge, edge + new.len)
    BY <1>a DEF Leads
  <2>4. ASSUME NEW x \in P, NEW y \in P, Leads(rs, x, y) PROVE x = edge \/ Leads(more, x, y)
    <3>1. CASE \E r \in rs : r.at = x /\ ~r.torn /\ y = x + r.len
      BY <3>1 DEF Leads
    <3>2. CASE y = x + 5 /\ \A z \in x .. x + 4 : ZeroAt(rs, z)
      <4>1. \A z \in x .. x + 4 : z < new.at
        BY <3>2
      <4>2. \A z \in x .. x + 4 : ZeroAt(more, z)
        BY <3>2, <4>1 DEF ZeroAt
      <4> QED BY <3>2, <4>2 DEF Leads
    <3> QED BY <2>4, <3>1, <3>2 DEF Leads
  <2>5. \A x \in Q : x = edge + new.len \/ \E y \in Q : Leads(more, x, y)
    BY <2>1, <2>3, <2>4
  <2> QED BY <2>1, <2>2, <2>5 DEF Reaches
<1>4. new.id \notin Elems(Replay(rs, edge))
  <2>1. Finds(rs, 1, Replay(rs, edge))
    BY ReplayFinds
  <2>2. \A r \in rs : r.id # new.id
    <3> TAKE r \in rs
    <3>1. r \in more /\ new \in more /\ r.at + r.len <= new.at /\ r \in Extent
      BY DEF Placed
    <3>2. r # new
      BY <3>1 DEF Extent
    <3>3. r.id < new.id \/ new.id < r.id
      BY <3>1, <3>2 DEF Placed
    <3> QED BY <1>1, <3>1, <3>3 DEF Extent
  <2> QED BY <2>1, <2>2 DEF Finds, Elems
<1>5. ASSUME NEW x \in Nat, edge + new.len <= x, Reaches(more, 1, x)
      PROVE  new.id \in Elems(Replay(more, x))
  <2>1. x \in Nat \ {0} /\ new \in more /\ x <= x
    BY <1>5 DEF Extent
  <2>2. Placed(more, x)
    <3>1. \A r \in more : r.at + r.len <= x
      BY <1>5 DEF Placed, Extent
    <3> QED BY <3>1 DEF Placed
  <2>3. Elems(Replay(more, x)) = Ids(more)
    BY <1>5, <2>1, <2>2, ReplayCovers
  <2> QED BY <2>1, <2>3 DEF Ids
<1>6. Reaches(more, 1, end) => ~new.torn /\ Reaches(rs, 1, edge)
  BY <1>2, <1>4, <1>5
<1>7. ~new.torn /\ Reaches(rs, 1, edge) =>
        Replay(more, end) = Append(Replay(rs, edge), new.id)
  <2> SUFFICES ASSUME ~new.torn, Reaches(rs, 1, edge)
               PROVE  Replay(more, end) = Append(Replay(rs, edge), new.id)
    OBVIOUS
  <2>1. edge + new.len \in Nat \ {0}
    BY DEF Extent
  <2>2. Replay(more, end) = Replay(more, edge + new.len)
    BY <2>1, ReplayLonger
  <2>3. new.id \in Elems(Replay(more, edge + new.len))
    <3>1. Reaches(more, 1, edge + new.len) /\ edge + new.len <= edge + new.len
      BY <1>3, <2>1
    <3> QED BY <1>5, <2>1, <3>1
  <2> QED BY <1>2, <1>4, <2>2, <2>3
<1> QED BY <1>2, <1>3, <1>6, <1>7 DEF more
-----------------------------------------------------------------------------
(* The length of the file.                                                 *)

\* writeToMmap makes the file long enough, and never shorter.
LEMMA SizeForEnough ==
  ASSUME size \in Nat \ {0}, NEW need \in Nat
  PROVE  SizeFor(need) \in Nat /\ need <= SizeFor(need) /\ size <= SizeFor(need)
<1>1. CASE ~(need > size)
  BY <1>1 DEF SizeFor
<1>2. CASE need > size
  <2> DEFINE body(n, f) == IF n >= need THEN n ELSE f[2 * n]
             tail(m, f) == f = [n \in (m + 1) .. 2 * need |-> body(n, f)]
             undefined  == {m \in 0 .. 2 * need : ~ \E f : tail(m, f)}
             doubled    == CHOOSE f : f = [n \in 1 .. 2 * need |-> body(n, f)]
  <2>1. \E f : tail(2 * need, f)
    <3>1. tail(2 * need, [n \in (2 * need + 1) .. 2 * need |-> 0])
      OBVIOUS
    <3> HIDE DEF tail
    <3> QED BY <3>1
  <2>2. undefined = {}
    <3> SUFFICES ASSUME undefined # {} PROVE FALSE
      OBVIOUS
    <3>1. undefined \in SUBSET (0 .. 2 * need)
      OBVIOUS
    <3>2. PICK m \in undefined : \A k \in undefined : k <= m
      <4> HIDE DEF undefined
      <4>1. 2 * need \in Nat
        OBVIOUS
      <4> QED BY <3>1, <4>1, LastPosition
    <3>3. m \in 0 .. 2 * need /\ m # 2 * need /\ ~ \E f : tail(m, f)
      BY <2>1
    <3>4. m + 1 \in 0 .. 2 * need /\ m + 1 \notin undefined
      <4> HIDE DEF undefined, tail
      <4>1. m + 1 \in 0 .. 2 * need /\ ~(m + 1 <= m)
        BY <3>3
      <4> QED BY <3>2, <4>1
    <3>5. PICK f : tail(m + 1, f)
      BY <3>4
    <3> DEFINE g == [n \in (m + 1) .. 2 * need |-> IF n = m + 1 THEN body(n, f) ELSE f[n]]
    <3>6. \A n \in (m + 1) .. 2 * need : body(n, g) = body(n, f)
      <4> TAKE n \in (m + 1) .. 2 * need
      <4>1. CASE n >= need
        BY <4>1
      <4>2. CASE ~(n >= need)
        <5>1. n >= 1 /\ 2 * n \in (m + 1) .. 2 * need /\ 2 * n # m + 1
          BY <3>3, <4>2
        <5>2. g[2 * n] = f[2 * n]
          BY <5>1
        <5> HIDE DEF g
        <5> QED BY <4>2, <5>2
      <4> QED BY <4>1, <4>2
    <3>7. \A n \in (m + 1) .. 2 * need : n # m + 1 => f[n] = body(n, f)
      <4> TAKE n \in (m + 1) .. 2 * need
      <4>1. n # m + 1 => n \in (m + 1 + 1) .. 2 * need
        BY <3>3
      <4> HIDE DEF body
      <4> QED BY <3>5, <4>1
    <3>8. \A n \in (m + 1) .. 2 * need : g[n] = body(n, g)
      <4> TAKE n \in (m + 1) .. 2 * need
      <4> HIDE DEF body
      <4>1. g[n] = IF n = m + 1 THEN body(n, f) ELSE f[n]
        OBVIOUS
      <4> HIDE DEF g
      <4> QED BY <3>6, <3>7, <4>1
    <3>9. tail(m, g)
      <4> HIDE DEF body
      <4>1. g = [n \in (m + 1) .. 2 * need |-> g[n]]
        OBVIOUS
      <4> HIDE DEF g
      <4> QED BY <3>8, <4>1
    <3> HIDE DEF tail, g
    <3> QED BY <3>3, <3>9
  <2>3. \E f : tail(0, f)
    <3>1. 0 \in 0 .. 2 * need
      OBVIOUS
    <3> HIDE DEF tail
    <3> QED BY <2>2, <3>1
  <2>4. doubled = [n \in 1 .. 2 * need |-> body(n, doubled)]
    <3> HIDE DEF body
    <3>1. \E f : f = [n \in 1 .. 2 * need |-> body(n, f)]
      BY <2>3
    <3> QED BY <3>1
  <2>5. Doubled(need) = doubled[2 * size]
    BY DEF Doubled
  <2> HIDE DEF doubled
  <2> DEFINE good(n) == doubled[n] \in Nat /\ need <= doubled[n] /\ n <= doubled[n]
             bad     == {n \in 1 .. 2 * need : ~good(n)}
  <2>6. bad = {}
    <3> SUFFICES ASSUME bad # {} PROVE FALSE
      OBVIOUS
    <3> HIDE DEF good
    <3>1. bad \in SUBSET (0 .. 2 * need) /\ 2 * need \in Nat
      OBVIOUS
    <3>2. PICK n \in bad : \A k \in bad : k <= n
      <4> HIDE DEF bad
      <4> QED BY <3>1, LastPosition
    <3>3. n \in 1 .. 2 * need /\ ~good(n)
      OBVIOUS
    <3>4. \A k \in 1 .. 2 * need : ~(k <= n) => good(k)
      BY <3>2
    <3> HIDE DEF bad
    <3>5. CASE n >= need
      <4>1. doubled[n] = n
        BY <2>4, <3>3, <3>5
      <4> QED BY <3>3, <3>5, <4>1 DEF good
    <3>6. CASE ~(n >= need)
      <4>1. 2 * n \in 1 .. 2 * need /\ ~(2 * n <= n)
        BY <3>3, <3>6
      <4>2. doubled[n] = doubled[2 * n]
        BY <2>4, <3>3, <3>6
      <4> QED BY <3>3, <3>4, <4>1, <4>2 DEF good
    <3> QED BY <3>5, <3>6
  <2>7. good(2 * size)
    <3>1. 2 * size \in 1 .. 2 * need
      BY <1>2
    <3> HIDE DEF good
    <3> QED BY <2>6, <3>1
  <2>8. SizeFor(need) = Doubled(need)
    BY <1>2 DEF SizeFor
  <2> QED BY <2>5, <2>7, <2>8
<1> QED BY <1>1, <1>2
-----------------------------------------------------------------------------
(* The invariant of the log as a file.                                     *)

IsOpen == life \in {"opened", "up", "closing", "drained"}

\* The records lie one behind the other, before what is written next.
Sizes ==
  /\ size \in Nat /\ writeAt \in Nat /\ fresh \in BOOLEAN /\ appends \in 0 .. MaxRecords
  /\ IsOpen \/ life \in {"down", "resetting"}
  /\ Placed(recs, IF life = "down" THEN size ELSE writeAt)
  /\ \A r \in recs : r.id \in 1 .. appends
  /\ IsOpen => writeAt \in 1 .. size /\ size > 1
  /\ IsOpen /\ ~fresh => writeAt > 1
  /\ life = "resetting" => size \in {0, 1} /\ recs = {}
  /\ life = "opened" /\ ~fresh => writeAt = size

\* A sync leaves out nothing that was appended before.
Syncs ==
  /\ synced \subseteq Ids(recs)
  /\ \A r, q \in recs : q.id \in synced /\ r.id < q.id => r.id \in synced
  /\ mode = "always" => acked \subseteq synced

\* The walk comes to writeAt in a log that was fresh, or that is not deaf.
Heard ==
  /\ IsOpen /\ fresh => /\ Reaches(recs, 1, writeAt)
                        /\ recs = {} => writeAt = 1 /\ size = InitialSize
  /\ life \in {"up", "closing", "drained"} /\ Replayed(writeAt) # << >>
       => Reaches(recs, 1, writeAt)

\* What the walk has not found when a file is opened is synced, or torn.
Missed ==
  life \in {"down", "opened"} /\ Replayed(size) # << >> =>
    Ids(recs) \subseteq synced \/ \A r \in recs : ~r.torn => r.id \in Elems(Replayed(size))

\* Where the power does not fail, a deaf log stays deaf.
Stumbles ==
  ~PowerMayFail =>
    /\ life = "down" /\ size > 1 /\ Replayed(size) = << >> => ~Reaches(recs, 1, size)
    /\ IsOpen /\ Deaf => ~Reaches(recs, 1, writeAt) /\ ~Reaches(recs, 1, size)

LogInv == Sizes /\ Syncs /\ Heard /\ Missed /\ Stumbles

\* A file that does not exist yet.
LEMMA LogInvInit == Init => LogInv
<1> SUFFICES ASSUME Init PROVE LogInv
  OBVIOUS
<1>1. /\ size = 0 /\ recs = {} /\ synced = {} /\ acked = {} /\ life = "down" /\ writeAt = 0
      /\ fresh = FALSE /\ appends = 0
  BY DEF Init
<1>2. Sizes
  <2>1. Placed(recs, size)
    BY <1>1 DEF Placed
  <2>2. MaxRecords \in Nat /\ 0 \in 0 .. MaxRecords
    BY SizesAssumption
  <2> QED BY <1>1, <2>1, <2>2 DEF Sizes, IsOpen
<1>4. Syncs
  BY <1>1 DEF Syncs, Ids
<1>3. Replayed(size) = << >>
  BY <1>1 DEF Replayed, Replay
<1> QED BY <1>1, <1>2, <1>3, <1>4 DEF LogInv, Heard, Missed, Stumbles, IsOpen

\* An open log.
LEMMA OpenLog ==
  ASSUME Sizes, IsOpen
  PROVE  /\ Placed(recs, writeAt) /\ Placed(recs, size)
         /\ writeAt \in Nat \ {0} /\ size \in Nat /\ writeAt <= size /\ size > 1
         /\ Replayed(size) = Replayed(writeAt)
         /\ Deaf <=> ~fresh /\ Replayed(size) = << >>
         /\ Reaches(recs, 1, writeAt) => Elems(Replayed(size)) = Ids(recs)
<1>1. /\ Placed(recs, writeAt) /\ writeAt \in Nat \ {0} /\ size \in Nat /\ writeAt <= size
      /\ size > 1
  BY DEF Sizes, IsOpen
<1>2. Replayed(size) = Replayed(writeAt)
  BY <1>1, ReplayLonger DEF Replayed
<1>3. Placed(recs, size)
  <2>1. \A r \in recs : r.at + r.len <= size
    BY <1>1 DEF Placed, Extent
  <2> QED BY <1>1, <2>1 DEF Placed
<1>4. Deaf <=> ~fresh /\ Replayed(size) = << >>
  BY <1>2 DEF Deaf, IsOpen
<1>5. Reaches(recs, 1, writeAt) => Elems(Replayed(size)) = Ids(recs)
  BY <1>1, ReplayCovers DEF Replayed
<1> QED BY <1>1, <1>2, <1>3, <1>4, <1>5

\* A log that was fresh has exactly its records to find.
LEMMA FreshLog ==
  ASSUME Sizes, Heard, IsOpen, fresh
  PROVE  Replayed(size) = << >> => recs = {} /\ writeAt = 1 /\ size = InitialSize
<1> SUFFICES ASSUME Replayed(size) = << >> PROVE recs = {}
  BY DEF Heard
<1>1. Elems(Replayed(size)) = Ids(recs)
  BY OpenLog DEF Heard
<1>2. Elems(<< >>) = {}
  BY DEF Elems
<1> QED BY <1>1, <1>2 DEF Ids

\* Five at a time, the zeros of the initial size are not walked to their end.
LEMMA OutOfStep == ~Reaches({}, 1, InitialSize)
<1> SUFFICES ASSUME Reaches({}, 1, InitialSize) PROVE FALSE
  OBVIOUS
<1>1. PICK P \in SUBSET (1 .. InitialSize) :
        /\ 1 \in P /\ InitialSize \in P
        /\ \A x \in P : x = InitialSize \/ \E y \in P : Leads({}, x, y)
  BY DEF Reaches
<1> DEFINE S == {x \in P : x % 5 = 1}
<1>2. InitialSize \in Nat /\ InitialSize % 5 = 4
  BY SizesAssumption
<1>3. 1 \in S /\ S \in SUBSET (0 .. InitialSize)
  <2>1. \A x \in P : x \in 0 .. InitialSize
    BY <1>2
  <2>2. 1 % 5 = 1
    OBVIOUS
  <2> QED BY <1>1, <2>1, <2>2
<1>4. PICK x \in S : \A y \in S : y <= x
  <2> HIDE DEF S
  <2> QED BY <1>2, <1>3, LastPosition
<1>5. x \in P /\ x % 5 = 1 /\ x \in 1 .. InitialSize /\ x # InitialSize
  BY <1>2
<1>6. x + 5 \in P
  BY <1>1, <1>5 DEF Leads
<1>7. (x + 5) % 5 = 1
  BY <1>5
<1>8. x + 5 \in S /\ ~(x + 5 <= x)
  BY <1>5, <1>6, <1>7
<1> HIDE DEF S
<1> QED BY <1>4, <1>8
-----------------------------------------------------------------------------
(* The steps of the log.                                                   *)

\* A step that leaves the file and the place to append alone.
LEMMA QuietStep ==
  ASSUME LogInv, UNCHANGED <<size, recs, writeAt, fresh, appends, mode>>,
         synced' = synced \/ synced' = Ids(recs),
         mode = "always" => acked' \subseteq synced',
         \/ life' = life
         \/ life \in {"up", "closing"} /\ life' \in {"closing", "drained"}
         \/ life = "opened" /\ life' = "up" /\ Replayed(writeAt) = << >>
  PROVE  LogInv' /\ UNCHANGED L!logvars
<1>1. Replayed(size)' = Replayed(size) /\ Replayed(writeAt)' = Replayed(writeAt)
  BY DEF Replayed
<1>2. Deaf' <=> Deaf
  BY <1>1 DEF Deaf
<1>3. IsOpen' <=> IsOpen
  BY DEF IsOpen
<1>4. Sizes'
  BY <1>3 DEF LogInv, Sizes, IsOpen
<1>5. Syncs'
  BY DEF LogInv, Syncs, Ids
<1>6. Heard'
  BY <1>1, <1>3 DEF LogInv, Heard
<1>7. Missed'
  BY <1>1 DEF LogInv, Missed, Syncs, Ids
<1>8. Stumbles'
  BY <1>1, <1>2, <1>3 DEF LogInv, Stumbles
<1>9. UNCHANGED L!logvars
  BY <1>1, <1>2 DEF L!logvars
<1> QED BY <1>4, <1>5, <1>6, <1>7, <1>8, <1>9 DEF LogInv

\* New, in a file with records or zeros or none: it is deaf if it has nothing but zeros.
LEMMA NewStep ==
  ASSUME LogInv, Reopened, New
  PROVE  LogInv' /\ L!LogOpen
<1>1. /\ life = "down" /\ life' = "opened" /\ acked' = {}
      /\ (fresh' <=> size <= 1)
      /\ writeAt' = IF size = 0 THEN 1 ELSE size
      /\ size' = IF size <= 1 THEN InitialSize ELSE size
      /\ UNCHANGED <<recs, synced, appends>>
  BY DEF New, Reopened
<1>2. size \in Nat /\ Placed(recs, size)
  BY <1>1 DEF LogInv, Sizes
<1>15. fresh' \in BOOLEAN
  <2>1. (size <= 1) \in BOOLEAN
    BY <1>2
  <2> QED BY <2>1 DEF New
<1>3. InitialSize \in Nat /\ InitialSize > 1
  BY SizesAssumption
<1>4. size <= 1 => recs = {}
  BY <1>2 DEF Placed, Extent
<1>5. Placed(recs, writeAt') /\ writeAt' \in Nat \ {0}
      /\ (fresh' => writeAt' = 1 /\ size' = InitialSize /\ ~(size > 1))
      /\ (~fresh' => writeAt' = size /\ size' = size /\ size > 1)
  <2>1. CASE size <= 1
    <3>1. fresh' /\ writeAt' = 1 /\ size' = InitialSize /\ ~(size > 1)
      BY <1>1, <1>2, <2>1
    <3> QED BY <1>4, <2>1, <3>1 DEF Placed
  <2>2. CASE ~(size <= 1)
    <3>1. ~fresh' /\ writeAt' = size /\ size' = size /\ size > 1
      BY <1>1, <1>2, <2>2
    <3> QED BY <1>2, <2>2, <3>1
  <2> QED BY <2>1, <2>2
<1>6. Replayed(size)' = Replayed(size) /\ (size <= 1 => Replayed(size) = << >>)
  <2>1. CASE size <= 1
    <3>1. Replay({}, size) = << >> /\ Replay({}, InitialSize) = << >>
      BY <1>2, <1>3, ReplayZeros
    <3> QED BY <1>1, <1>4, <2>1, <3>1 DEF Replayed
  <2>2. CASE ~(size <= 1)
    BY <1>1, <2>2 DEF Replayed
  <2> QED BY <2>1, <2>2
<1>7. Sizes'
  <2>1. size' \in Nat /\ size' > 1 /\ writeAt' \in 1 .. size'
    BY <1>2, <1>3, <1>5, <1>1
  <2> QED BY <1>1, <1>5, <1>15, <2>1 DEF LogInv, Sizes, IsOpen
<1>8. IsOpen'
  BY <1>1 DEF IsOpen
<1>9. Syncs'
  BY <1>1 DEF LogInv, Syncs, Ids
<1>10. Heard'
  <2>2. Reaches(recs, 1, 1)
    BY ReachesSelf
  <2> QED BY <1>1, <1>5, <2>2 DEF Heard
<1>11. Missed'
  BY <1>1, <1>6 DEF LogInv, Missed, Ids
<1>12. Deaf' <=> (Replayed(size) = << >> /\ size > 1)
  <2>2. ~fresh' => Replayed(writeAt)' = Replayed(size)
    BY <1>1, <1>5 DEF Replayed
  <2> QED BY <1>1, <1>5, <2>2 DEF Deaf
<1>13. Stumbles'
  <2>1. Deaf' => writeAt' = size /\ size' = size /\ size > 1
    BY <1>5, <1>12 DEF Deaf
  <2> QED BY <1>1, <1>12, <2>1 DEF LogInv, Stumbles
<1>14. L!LogOpen
  <2>1. (size > 1)' = TRUE
    BY <1>1, <1>2, <1>3
  <2> QED BY <1>6, <1>12, <2>1 DEF L!LogOpen
<1> QED BY <1>7, <1>9, <1>10, <1>11, <1>13, <1>14 DEF LogInv

\* Recovery and Reset truncate the file ...
LEMMA TruncateStep ==
  ASSUME LogInv, Truncated, life' = "resetting", UNCHANGED <<fresh, writeAt, appends>>
  PROVE  LogInv' /\ L!LogReset
<1>1. size' = 0 /\ recs' = {} /\ synced' = {} /\ acked' = {}
  BY DEF Truncated
<1>2. Replayed(size)' = << >>
  BY <1>1 DEF Replayed, Replay
<1>3. ~IsOpen' /\ ~Deaf'
  BY DEF IsOpen, Deaf
<1>4. Sizes'
  BY <1>1, <1>3 DEF LogInv, Sizes, Placed
<1>5. Syncs'
  BY <1>1 DEF Syncs, Ids
<1>6. Heard' /\ Missed' /\ Stumbles'
  BY <1>2, <1>3 DEF Heard, Missed, Stumbles
<1>7. L!LogReset
  BY <1>1, <1>2, <1>3 DEF L!LogReset
<1> QED BY <1>4, <1>5, <1>6, <1>7 DEF LogInv

\* ... write the version byte, which the log does not show ...
LEMMA ResetVersionStep ==
  ASSUME LogInv, ResetVersion
  PROVE  LogInv' /\ UNCHANGED L!logvars
<1>1. /\ life = "resetting" /\ size = 0 /\ life' = "resetting" /\ size' = 1 /\ recs = {}
      /\ UNCHANGED <<recs, synced, mode, fresh, writeAt, acked, appends>>
  BY DEF ResetVersion, how, LogInv, Sizes
<1>2. /\ Replayed(size) = << >> /\ Replayed(size)' = << >>
      /\ (size > 1) = FALSE /\ (size > 1)' = FALSE
  BY <1>1, ReplayZeros DEF Replayed
<1>3. ~IsOpen' /\ Deaf' = FALSE /\ Deaf = FALSE
  BY <1>1 DEF IsOpen, Deaf
<1>4. Sizes'
  BY <1>1, <1>3 DEF LogInv, Sizes, Placed
<1>5. Syncs'
  BY <1>1 DEF LogInv, Syncs, Ids
<1>6. Heard' /\ Missed' /\ Stumbles'
  BY <1>1, <1>2, <1>3 DEF Heard, Missed, Stumbles
<1>7. UNCHANGED L!logvars
  BY <1>1, <1>2, <1>3 DEF L!logvars
<1> QED BY <1>4, <1>5, <1>6, <1>7 DEF LogInv

\* ... and map a log that listens.
LEMMA ResetMapStep ==
  ASSUME LogInv, ResetMap
  PROVE  LogInv' /\ L!LogGrow
<1>1. /\ life = "resetting" /\ size = 1 /\ life' = "up" /\ size' = InitialSize /\ fresh' = TRUE
      /\ writeAt' = 1 /\ recs = {}
      /\ UNCHANGED <<recs, synced, mode, acked, appends>>
  BY DEF ResetMap, LogInv, Sizes
<1>2. InitialSize \in Nat /\ InitialSize > 1
  BY SizesAssumption
<1>3. Replayed(size) = << >> /\ Replayed(size)' = << >>
  BY <1>1, <1>2, ReplayZeros DEF Replayed
<1>4. IsOpen' /\ Deaf' = FALSE /\ Deaf = FALSE
  BY <1>1 DEF IsOpen, Deaf
<1>5. Sizes'
  BY <1>1, <1>2, <1>4 DEF LogInv, Sizes, Placed
<1>6. Syncs'
  BY <1>1 DEF LogInv, Syncs, Ids
<1>7. Heard'
  <2>1. Reaches(recs, 1, 1)
    BY ReachesSelf
  <2> QED BY <1>1, <2>1 DEF Heard
<1>8. Missed' /\ Stumbles'
  BY <1>1, <1>3, <1>4 DEF Missed, Stumbles
<1>9. L!LogGrow
  <2>1. (size > 1)' = TRUE
    BY <1>1, <1>2
  <2> QED BY <1>3, <1>4, <2>1 DEF L!LogGrow
<1> QED BY <1>5, <1>6, <1>7, <1>8, <1>9 DEF LogInv

\* Close cuts the file behind the last record, heard or not.
LEMMA CloseStep ==
  ASSUME LogInv, CloseTruncate
  PROVE  LogInv' /\ L!LogClose
<1>1. /\ life = "drained" /\ life' = "down" /\ size' = writeAt /\ writeAt' = 0 /\ fresh' = FALSE
      /\ acked' = {} /\ UNCHANGED <<mode, recs, synced, appends>>
  BY DEF CloseTruncate
<1>2. IsOpen /\ ~IsOpen' /\ ~Deaf'
  BY <1>1 DEF IsOpen, Deaf
<1>3. /\ Placed(recs, writeAt) /\ writeAt \in Nat \ {0} /\ size \in Nat /\ size > 1
      /\ Replayed(size) = Replayed(writeAt)
      /\ Deaf <=> ~fresh /\ Replayed(size) = << >>
      /\ Reaches(recs, 1, writeAt) => Elems(Replayed(size)) = Ids(recs)
  BY <1>2, OpenLog DEF LogInv
<1>4. Replayed(size)' = Replayed(size)
  BY <1>1, <1>3 DEF Replayed
<1>5. Sizes'
  BY <1>1, <1>2, <1>3 DEF LogInv, Sizes
<1>6. Syncs'
  BY <1>1 DEF LogInv, Syncs, Ids
<1>7. Heard'
  BY <1>1, <1>2 DEF Heard
<1>8. Missed'
  <2>1. Replayed(size) # << >> => \A r \in recs : r.id \in Elems(Replayed(size))
    BY <1>1, <1>3 DEF LogInv, Heard, Ids
  <2> QED BY <1>1, <1>4, <2>1 DEF Missed
<1>9. writeAt > 1 <=> Replayed(size) # << >> \/ Deaf
  <2>1. CASE fresh
    <3>1. Replayed(size) = << >> => writeAt = 1
      BY <1>2, <2>1, FreshLog DEF LogInv
    <3>2. writeAt = 1 => Replayed(size) = << >>
      <4> SUFFICES ASSUME writeAt = 1 PROVE Replay(recs, 1) = << >>
        BY <1>3 DEF Replayed
      <4>1. recs = {}
        BY <1>3 DEF Placed, Extent
      <4> QED BY <4>1, ReplayZeros
    <3> QED BY <1>3, <2>1, <3>1, <3>2
  <2>2. CASE ~fresh
    <3>1. writeAt > 1
      BY <1>2, <2>2 DEF LogInv, Sizes
    <3> QED BY <1>3, <2>2, <3>1
  <2>3. fresh \in BOOLEAN
    BY DEF LogInv, Sizes
  <2> QED BY <2>1, <2>2
<1>10. Stumbles'
  <2>1. size' > 1 /\ Replayed(size)' = << >> => Deaf /\ size' = writeAt
    BY <1>1, <1>4, <1>9
  <2> QED BY <1>1, <1>2, <2>1 DEF LogInv, Stumbles
<1>11. L!LogClose
  <2>1. (size > 1)' <=> Replayed(size) # << >> \/ Deaf
    BY <1>1, <1>9
  <2> QED BY <1>2, <1>4, <2>1 DEF L!LogClose
<1> QED BY <1>5, <1>6, <1>7, <1>8, <1>10, <1>11 DEF LogInv

\* A record that is appended to an open log follows its records.
LEMMA NewRecord ==
  ASSUME Sizes, life = "up", appends < MaxRecords, NEW len \in RecordSizes,
         NEW torn \in BOOLEAN, NEW new,
         new = [id |-> appends + 1, at |-> writeAt, len |-> len, torn |-> torn]
  PROVE  /\ appends + 1 \in 1 .. MaxRecords /\ len \in Nat /\ len > 5
         /\ new \in Extent /\ new.id = appends + 1 /\ new.torn = torn /\ new.len = len
         /\ SizeFor(writeAt + len) \in Nat
         /\ size <= SizeFor(writeAt + len) /\ writeAt + len <= SizeFor(writeAt + len)
         /\ Follows(new, recs, writeAt, SizeFor(writeAt + len))
         /\ Follows(new, recs, writeAt, writeAt + len)
<1>1. /\ Placed(recs, writeAt) /\ writeAt \in Nat \ {0} /\ size \in Nat \ {0}
  BY OpenLog DEF IsOpen
<1>2. appends + 1 \in 1 .. MaxRecords /\ appends \in Nat /\ len \in Nat /\ len > 5
  BY SizesAssumption DEF Sizes
<1>3. /\ new \in Extent /\ new.id = appends + 1 /\ new.torn = torn /\ new.len = len
      /\ new.at = writeAt
  BY <1>1, <1>2 DEF Extent
<1>4. /\ SizeFor(writeAt + len) \in Nat
      /\ size <= SizeFor(writeAt + len) /\ writeAt + len <= SizeFor(writeAt + len)
  BY <1>1, <1>2, SizeForEnough
<1>5. \A r \in recs : r \in Extent /\ r.id < new.id /\ r.at + r.len <= new.at
  BY <1>1, <1>2, <1>3 DEF Placed, Sizes
<1>6. Placed(With(recs, new), writeAt + len)
  <2>1. \A r \in With(recs, new) : r \in Extent /\ r.at + r.len <= writeAt + len
    BY <1>1, <1>2, <1>3, <1>5 DEF With, Extent
  <2>2. \A r, q \in With(recs, new) : \/ r = q
                                      \/ r.id < q.id /\ r.at + r.len <= q.at
                                      \/ q.id < r.id /\ q.at + q.len <= r.at
    BY <1>1, <1>5 DEF With, Placed
  <2> QED BY <2>1, <2>2 DEF Placed
<1>7. /\ Follows(new, recs, writeAt, SizeFor(writeAt + len))
      /\ Follows(new, recs, writeAt, writeAt + len)
  <2>1. writeAt + len <= writeAt + len
    BY <1>1, <1>2
  <2> QED BY <1>3, <1>4, <1>6, <2>1 DEF Follows
<1> QED BY <1>2, <1>3, <1>4, <1>7

\* The log takes the record if the walk comes to where it is.
LEMMA AppendStep ==
  ASSUME LogInv, NEW w \in Writers, NEW len \in RecordSizes, AppendRaw(w, len)
  PROVE  LogInv' /\ \E id \in 1 .. MaxRecords : L!LogAppend(id)
<1> DEFINE id  == appends + 1
           new == [id |-> id, at |-> writeAt, len |-> len, torn |-> FALSE]
<1>1. /\ life = "up" /\ life' = "up" /\ appends < MaxRecords /\ appends' = id
      /\ writeAt' = writeAt + len /\ size' = SizeFor(writeAt + len)
      /\ recs' = With(recs, new)
      /\ mode = "always" => acked' = acked
      /\ UNCHANGED <<mode, fresh, synced>>
  BY DEF AppendRaw, how, With
<1>2. /\ id \in 1 .. MaxRecords /\ len \in Nat /\ len > 5
      /\ new \in Extent /\ new.id = id /\ new.torn = FALSE /\ new.len = len
      /\ size' \in Nat /\ size <= size' /\ writeAt' <= size'
      /\ Follows(new, recs, writeAt, size') /\ Follows(new, recs, writeAt, writeAt')
  BY <1>1, NewRecord DEF LogInv
<1> HIDE DEF new
<1>3. IsOpen /\ IsOpen'
  BY <1>1 DEF IsOpen
<1>4. /\ Placed(recs, writeAt) /\ writeAt \in Nat \ {0} /\ size \in Nat /\ size > 1
      /\ Replayed(size) = Replayed(writeAt) /\ Replayed(writeAt) = Replay(recs, writeAt)
      /\ Deaf <=> ~fresh /\ Replayed(size) = << >>
  BY <1>3, OpenLog DEF LogInv, Replayed
<1>5. writeAt' \in Nat \ {0}
  BY <1>1, <1>2, <1>4
<1>6. /\ ~Reaches(recs, 1, writeAt) => Replayed(size)' = Replayed(size)
      /\ Reaches(recs, 1, writeAt) => Replayed(size)' = Append(Replayed(size), id)
      /\ Reaches(recs', 1, size') => Reaches(recs, 1, writeAt)
  <2>1. /\ ~Reaches(recs, 1, writeAt) =>
             Replay(With(recs, new), size') = Replay(recs, writeAt)
        /\ ~new.torn /\ Reaches(recs, 1, writeAt) =>
             Replay(With(recs, new), size') = Append(Replay(recs, writeAt), new.id)
        /\ Reaches(With(recs, new), 1, size') => Reaches(recs, 1, writeAt)
    BY <1>2, <1>4, ReplayAppend
  <2> QED BY <1>1, <1>2, <1>4, <2>1 DEF Replayed
<1>7. /\ Reaches(recs', 1, writeAt') <=> Reaches(recs, 1, writeAt)
      /\ Replayed(writeAt)' = Replayed(size)'
  <2>1. /\ Reaches(With(recs, new), 1, writeAt') => Reaches(recs, 1, writeAt)
        /\ ~new.torn /\ Reaches(recs, 1, writeAt) =>
             Reaches(With(recs, new), 1, writeAt + new.len)
    BY <1>2, <1>4, <1>5, ReplayAppend
  <2>2. Placed(With(recs, new), writeAt')
    BY <1>1, <1>2 DEF Follows
  <2>3. Replay(With(recs, new), size') = Replay(With(recs, new), writeAt')
    BY <1>2, <1>5, <2>2, ReplayLonger
  <2> QED BY <1>1, <1>2, <2>1, <2>3 DEF Replayed
<1>8. Replayed(size) \in Seq(Nat)
  BY <1>4, ReplayFinds DEF Finds
<1>9. Replayed(size)' = << >> => ~Reaches(recs, 1, writeAt) /\ Replayed(size) = << >>
  <2>1. Append(Replayed(size), id) # << >>
    BY <1>2, <1>8
  <2> QED BY <1>6, <2>1
<1>10. ~Reaches(recs, 1, writeAt) => Deaf
  BY <1>1, <1>3, <1>4 DEF LogInv, Heard, Sizes
<1>11. Deaf' <=> ~fresh /\ Replayed(size)' = << >>
  BY <1>1, <1>7 DEF Deaf
<1>12. Sizes'
  <2>1. Placed(recs', writeAt')
    BY <1>1, <1>2 DEF Follows
  <2>2. \A r \in recs' : r.id \in 1 .. appends'
    BY <1>1, <1>2 DEF LogInv, Sizes, With
  <2> QED BY <1>1, <1>2, <1>3, <1>4, <2>1, <2>2 DEF LogInv, Sizes
<1>13. Syncs'
  <2>1. synced \subseteq Ids(recs')
    BY <1>1 DEF LogInv, Syncs, Ids, With
  <2>2. ASSUME NEW r \in recs', NEW q \in recs', q.id \in synced, r.id < q.id
        PROVE  r.id \in synced
    <3>1. q.id # new.id
      BY <1>2, <2>2 DEF LogInv, Sizes, Syncs, Ids
    <3>2. q \in recs
      BY <1>1, <3>1 DEF With
    <3>3. r # new
      BY <1>2, <2>2, <3>2 DEF LogInv, Sizes
    <3> QED BY <1>1, <2>2, <3>2, <3>3 DEF LogInv, Syncs, With
  <2> QED BY <1>1, <2>1, <2>2 DEF LogInv, Syncs
<1>14. Heard'
  <2>1. fresh => Reaches(recs', 1, writeAt')
    BY <1>3, <1>7 DEF LogInv, Heard
  <2>2. Replayed(writeAt)' # << >> => Reaches(recs', 1, writeAt')
    BY <1>1, <1>3, <1>6, <1>7, <1>4 DEF LogInv, Heard
  <2>3. recs' # {}
    BY <1>1 DEF With
  <2> QED BY <1>1, <1>3, <2>1, <2>2, <2>3 DEF Heard
<1>15. Missed'
  BY <1>1 DEF Missed
<1>16. Stumbles'
  BY <1>1, <1>6, <1>7, <1>9, <1>11 DEF Stumbles
<1>17. L!LogAppend(id)
  <2>1. (size > 1)' = TRUE /\ (size > 1) = TRUE
    BY <1>2, <1>4
  <2>2. CASE Reaches(recs, 1, writeAt)
    <3>1. Deaf' = FALSE
      BY <1>9, <1>11, <2>2 DEF Deaf
    <3>2. Deaf => PowerMayFail
      BY <1>3, <2>2, SizesAssumption DEF LogInv, Stumbles
    <3>3. Deaf \in BOOLEAN
      BY DEF Deaf
    <3> QED BY <1>6, <2>1, <2>2, <3>1, <3>2, <3>3 DEF L!LogAppend
  <2>3. CASE ~Reaches(recs, 1, writeAt)
    <3>1. Deaf' = Deaf
      BY <1>4, <1>6, <1>11, <2>3 DEF Deaf
    <3> QED BY <1>6, <1>10, <2>1, <2>3, <3>1 DEF L!LogAppend
  <2> QED BY <2>2, <2>3
<1> HIDE DEF id
<1> QED BY <1>2, <1>12, <1>13, <1>14, <1>15, <1>16, <1>17 DEF LogInv

\* Whenever the process stops, what Replay would find is all there is, but for torn
\* records, if it finds anything and not all is synced.
LEMMA Found ==
  ASSUME LogInv, life # "down", Replayed(size) # << >>
  PROVE  /\ IsOpen
         /\ \/ Ids(recs) \subseteq synced
            \/ \A r \in recs : ~r.torn => r.id \in Elems(Replayed(size))
<1>1. IsOpen
  <2>1. CASE life = "resetting"
    <3>1. size \in {0, 1} /\ recs = {}
      BY <2>1 DEF LogInv, Sizes
    <3>2. Replay({}, size) = << >>
      BY <3>1, ReplayZeros
    <3> QED BY <3>1, <3>2 DEF Replayed
  <2> QED BY <2>1 DEF LogInv, Sizes
<1>2. CASE Reaches(recs, 1, writeAt)
  BY <1>1, <1>2, OpenLog DEF LogInv, Ids
<1>3. CASE ~Reaches(recs, 1, writeAt)
  <2>1. Replayed(size) = Replayed(writeAt)
    BY <1>1, OpenLog DEF LogInv
  <2>2. life = "opened"
    BY <1>1, <1>3, <2>1 DEF LogInv, Heard, IsOpen
  <2> QED BY <1>1, <2>2 DEF LogInv, Missed
<1> QED BY <1>1, <1>2, <1>3

\* A kill loses no record, whether one is being copied or not.
LEMMA KillStep ==
  ASSUME LogInv, Kill
  PROVE  LogInv' /\ L!LogKill
<1>1. /\ life # "down" /\ life' = "down" /\ writeAt' = 0 /\ fresh' = FALSE /\ acked' = {}
      /\ UNCHANGED <<mode, synced>>
  BY DEF Kill, Gone
<1>2. ~IsOpen' /\ Deaf' = FALSE
  BY <1>1 DEF IsOpen, Deaf
<1>3. CASE UNCHANGED <<size, recs, appends>>
  <2>1. Replayed(size)' = Replayed(size)
    BY <1>3 DEF Replayed
  <2>2. Sizes'
    <3>1. Placed(recs, size)
      <4>1. CASE IsOpen
        BY <4>1, OpenLog DEF LogInv
      <4>2. CASE ~IsOpen
        BY <1>1, <4>2 DEF LogInv, Sizes, Placed
      <4> QED BY <4>1, <4>2
    <3> QED BY <1>1, <1>2, <1>3, <3>1 DEF LogInv, Sizes
  <2>3. Syncs'
    BY <1>1, <1>3 DEF LogInv, Syncs, Ids
  <2>4. Heard'
    BY <1>1, <1>2 DEF Heard
  <2>5. Missed'
    BY <1>1, <1>3, <2>1, Found DEF Missed, Ids
  <2>6. Stumbles'
    <3> SUFFICES ASSUME ~PowerMayFail, size > 1, Replayed(size) = << >>
                 PROVE  ~Reaches(recs, 1, size)
      BY <1>2, <1>3, <2>1 DEF Stumbles
    <3>1. IsOpen
      BY <1>1 DEF LogInv, Sizes
    <3>2. CASE fresh
      <4>1. recs = {} /\ size = InitialSize
        BY <3>1, <3>2, FreshLog DEF LogInv
      <4> QED BY <4>1, OutOfStep
    <3>3. CASE ~fresh
      BY <3>1, <3>3, OpenLog DEF LogInv, Stumbles
    <3> QED BY <3>2, <3>3 DEF LogInv, Sizes
  <2>7. L!LogKill
    BY <1>2, <1>3, <2>1 DEF L!LogKill
  <2> QED BY <2>2, <2>3, <2>4, <2>5, <2>6, <2>7 DEF LogInv
<1>4. CASE ~UNCHANGED <<size, recs, appends>>
  <2> DEFINE Torn(len) == [id |-> appends + 1, at |-> writeAt, len |-> len, torn |-> TRUE]
  <2>1. PICK len \in RecordSizes :
          /\ life = "up" /\ appends < MaxRecords /\ appends' = appends + 1
          /\ size' = SizeFor(writeAt + len)
          /\ recs' = With(recs, Torn(len))
    BY <1>4 DEF Kill, With
  <2> DEFINE new == Torn(len)
  <2>2. /\ appends' \in 1 .. MaxRecords
        /\ new \in Extent /\ new.id = appends' /\ new.torn
        /\ size' \in Nat /\ size <= size' /\ writeAt + new.len <= size' /\ new.len \in Nat
        /\ Follows(new, recs, writeAt, size')
    BY <2>1, NewRecord DEF LogInv
  <2> HIDE DEF new
  <2>3. recs' = With(recs, new)
    BY <2>1 DEF new
  <2>4. IsOpen
    BY <2>1 DEF IsOpen
  <2>5. /\ Placed(recs, writeAt) /\ writeAt \in Nat \ {0} /\ size \in Nat /\ size > 1
        /\ Replayed(size) = Replayed(writeAt) /\ Replayed(writeAt) = Replay(recs, writeAt)
    BY <2>4, OpenLog DEF LogInv, Replayed
  <2>6. Replayed(size)' = Replayed(size) /\ ~Reaches(recs', 1, size')
    <3>1. /\ new.torn => Replay(With(recs, new), size') = Replay(recs, writeAt)
          /\ Reaches(With(recs, new), 1, size') => ~new.torn
      BY <2>2, <2>5, ReplayAppend
    <3> QED BY <2>2, <2>3, <2>5, <3>1 DEF Replayed
  <2>7. Sizes'
    <3>1. Placed(recs', size')
      <4>1. Placed(recs', writeAt + new.len)
        BY <2>2, <2>3 DEF Follows
      <4>2. \A r \in recs' : r \in Extent
        BY <4>1 DEF Placed
      <4>3. \A r \in recs' : r.at + r.len <= size'
        BY <2>2, <2>5, <4>1, <4>2 DEF Placed, Extent
      <4> QED BY <4>1, <4>3 DEF Placed
    <3>2. \A r \in recs' : r.id \in 1 .. appends'
      BY <2>1, <2>2, <2>3 DEF LogInv, Sizes, With
    <3>3. appends' \in 0 .. MaxRecords
      BY <2>2, SizesAssumption
    <3> QED BY <1>1, <1>2, <2>2, <3>1, <3>2, <3>3 DEF Sizes
  <2>8. Syncs'
    <3>1. synced \subseteq Ids(recs')
      BY <2>3 DEF LogInv, Syncs, Ids, With
    <3>2. ASSUME NEW r \in recs', NEW q \in recs', q.id \in synced, r.id < q.id
          PROVE  r.id \in synced
      <4>1. q.id # new.id
        BY <2>1, <2>2, <3>2 DEF LogInv, Sizes, Syncs, Ids
      <4>2. q \in recs
        BY <2>3, <4>1 DEF With
      <4>3. r # new
        BY <2>1, <2>2, <3>2, <4>2 DEF LogInv, Sizes
      <4> QED BY <2>3, <3>2, <4>2, <4>3 DEF LogInv, Syncs, With
    <3> QED BY <1>1, <3>1, <3>2 DEF LogInv, Syncs
  <2>9. Heard' /\ Stumbles'
    BY <1>1, <1>2, <2>6 DEF Heard, Stumbles
  <2>10. Missed'
    <3> SUFFICES ASSUME Replayed(size) # << >>
                 PROVE  \A r \in recs' : ~r.torn => r.id \in Elems(Replayed(size))
      BY <2>6 DEF Missed
    <3>1. Reaches(recs, 1, writeAt)
      BY <2>1, <2>5 DEF LogInv, Heard
    <3>2. Elems(Replayed(size)) = Ids(recs)
      BY <2>4, <3>1, OpenLog DEF LogInv
    <3> QED BY <2>2, <2>3, <3>2 DEF With, Ids
  <2>11. L!LogKill
    <3>1. (size > 1)' = (size > 1)
      BY <2>2, <2>5
    <3> QED BY <1>2, <2>6, <3>1 DEF L!LogKill
  <2> QED BY <2>7, <2>8, <2>9, <2>10, <2>11 DEF LogInv
<1> QED BY <1>3, <1>4

\* What is left after a loss of power.
LEMMA PowerLossLeaves ==
  ASSUME LogInv, PowerLoss
  PROVE  /\ \A l \in recs' : \E r \in recs : /\ l.id = r.id /\ l.at = r.at /\ l.len = r.len
                                             /\ l \in Extent /\ (~l.torn => l = r)
         /\ \A l, k \in recs' : l.id = k.id => l = k
         /\ \A r \in recs : r.id \in synced => r \in recs'
         /\ Ids(recs) \subseteq synced => recs' = recs
<1>1. PICK whole, torn \in SUBSET (Ids(recs) \ synced) :
        recs' = {r \in recs : r.id \in synced \cup (whole \ torn)}
                  \cup {[r EXCEPT !.torn = TRUE] : r \in {q \in recs : q.id \in torn}}
  BY DEF PowerLoss
<1>2. recs \in SUBSET Extent /\ \A r, q \in recs : r.id = q.id => r = q
  BY DEF LogInv, Sizes, Placed, Extent
<1> DEFINE Left(l) == l \in recs /\ l.id \in synced \cup (whole \ torn)
           Torn(l) == \E r \in recs : r.id \in torn /\ l = [r EXCEPT !.torn = TRUE]
<1>3. \A l : l \in recs' <=> Left(l) \/ Torn(l)
  BY <1>1
<1>4. \A l : Torn(l) => \E r \in recs : /\ l.id = r.id /\ l.at = r.at /\ l.len = r.len
                                        /\ l \in Extent /\ l.torn /\ r.id \in torn
                                        /\ l = [r EXCEPT !.torn = TRUE]
  <2> SUFFICES ASSUME NEW l, NEW r \in recs, r.id \in torn, l = [r EXCEPT !.torn = TRUE]
               PROVE  /\ l.id = r.id /\ l.at = r.at /\ l.len = r.len
                      /\ l \in Extent /\ l.torn
    OBVIOUS
  <2>1. r \in Extent
    BY <1>2
  <2> QED BY <2>1 DEF Extent
<1>5. \A l \in recs' : \E r \in recs : /\ l.id = r.id /\ l.at = r.at /\ l.len = r.len
                                       /\ l \in Extent /\ (~l.torn => l = r)
  <2> TAKE l \in recs'
  <2>1. CASE Left(l)
    BY <1>2, <2>1
  <2>2. CASE Torn(l)
    <3> HIDE DEF Torn
    <3> QED BY <1>4, <2>2
  <2> HIDE DEF Left, Torn
  <2> QED BY <1>3, <2>1, <2>2
<1>6. \A l, k \in recs' : l.id = k.id => l = k
  <2> SUFFICES ASSUME NEW l \in recs', NEW k \in recs', l.id = k.id PROVE l = k
    OBVIOUS
  <2>1. CASE Left(l) /\ Left(k)
    BY <1>2, <2>1
  <2>2. ASSUME NEW x, NEW y, Left(x), Torn(y), x.id = y.id PROVE FALSE
    <3>1. x.id \in synced \cup (whole \ torn)
      BY <2>2
    <3>2. y.id \in torn
      <4> HIDE DEF Torn, Left
      <4> QED BY <1>4, <2>2
    <3> QED BY <2>2, <3>1, <3>2
  <2>3. CASE Torn(l) /\ Torn(k)
    <3>1. \A x : Torn(x) => \E r \in recs : x.id = r.id /\ x = [r EXCEPT !.torn = TRUE]
      <4> HIDE DEF Torn
      <4> QED BY <1>4
    <3> HIDE DEF Torn, Left
    <3>2. PICK r \in recs : l.id = r.id /\ l = [r EXCEPT !.torn = TRUE]
      BY <2>3, <3>1
    <3>3. PICK q \in recs : k.id = q.id /\ k = [q EXCEPT !.torn = TRUE]
      BY <2>3, <3>1
    <3>4. r = q
      BY <1>2, <3>2, <3>3
    <3> QED BY <3>2, <3>3, <3>4
  <2> HIDE DEF Left, Torn
  <2> QED BY <1>3, <2>1, <2>2, <2>3
<1>7. \A r \in recs : r.id \in synced => r \in recs'
  BY <1>1
<1>8. ASSUME Ids(recs) \subseteq synced PROVE recs' = recs
  <2>1. torn = {}
    BY <1>8
  <2>2. \A r \in recs : r.id \in synced
    BY <1>8 DEF Ids
  <2> QED BY <1>1, <2>1, <2>2
<1> HIDE DEF Left, Torn
<1> QED BY <1>5, <1>6, <1>7, <1>8

\* Of two sequences in order, the one whose elements are in the other is what is left
\* of it when some are taken.
LEMMA TakenFrom ==
  ASSUME NEW a \in Seq(Nat), NEW b \in Seq(Nat), Elems(b) \subseteq Elems(a),
         \A i, j \in 1 .. Len(a) : i < j => a[i] < a[j],
         \A i, j \in 1 .. Len(b) : i < j => b[i] < b[j]
  PROVE  L!Remaining(a, b)
<1> DEFINE place(i) == CHOOSE j \in 1 .. Len(a) : a[j] = b[i]
           at       == [i \in 1 .. Len(b) |-> place(i)]
<1>1. \A i \in 1 .. Len(b) : place(i) \in 1 .. Len(a) /\ a[place(i)] = b[i]
  <2> TAKE i \in 1 .. Len(b)
  <2>1. \E j \in 1 .. Len(a) : a[j] = b[i]
    BY DEF Elems
  <2> QED BY <2>1
<1> HIDE DEF place
<1>2. DOMAIN a = 1 .. Len(a) /\ DOMAIN b = 1 .. Len(b) /\ Len(a) \in Nat /\ Len(b) \in Nat
  OBVIOUS
<1>3. at \in [DOMAIN b -> DOMAIN a]
  BY <1>1, <1>2
<1>4. \A i, j \in DOMAIN b : i < j => at[i] < at[j]
  <2> SUFFICES ASSUME NEW i \in 1 .. Len(b), NEW j \in 1 .. Len(b), i < j
               PROVE  place(i) < place(j)
    BY <1>2
  <2>1. /\ place(i) \in 1 .. Len(a) /\ a[place(i)] = b[i]
        /\ place(j) \in 1 .. Len(a) /\ a[place(j)] = b[j]
    BY <1>1
  <2>2. b[i] < b[j] /\ b[i] \in Nat /\ b[j] \in Nat
    OBVIOUS
  <2>3. ~(place(j) < place(i))
    <3> SUFFICES ASSUME place(j) < place(i) PROVE FALSE
      OBVIOUS
    <3>1. a[place(j)] < a[place(i)]
      BY <2>1
    <3> QED BY <2>1, <2>2, <3>1
  <2>4. place(i) # place(j)
    BY <2>1, <2>2
  <2> QED BY <1>2, <2>1, <2>3, <2>4
<1>5. \A i \in DOMAIN b : b[i] = a[at[i]]
  BY <1>1, <1>2
<1> HIDE DEF at
<1> QED BY <1>3, <1>4, <1>5 DEF L!Remaining

\* A loss of power takes some of the records, and torn ones are not found.
LEMMA PowerLossStep ==
  ASSUME LogInv, PowerLoss
  PROVE  LogInv' /\ L!LogPowerLoss
<1>1. /\ PowerMayFail /\ life # "down" /\ life' = "down" /\ writeAt' = 0 /\ fresh' = FALSE
      /\ acked' = {} /\ synced' = Ids(recs') /\ UNCHANGED <<mode, size, appends>>
  BY DEF PowerLoss, Gone
<1>2. ~IsOpen' /\ Deaf' = FALSE
  BY <1>1 DEF IsOpen, Deaf
<1>3. /\ \A l \in recs' : \E r \in recs : /\ l.id = r.id /\ l.at = r.at /\ l.len = r.len
                                          /\ l \in Extent /\ (~l.torn => l = r)
      /\ \A l, k \in recs' : l.id = k.id => l = k
      /\ Ids(recs) \subseteq synced => recs' = recs
  BY PowerLossLeaves
<1>4. Placed(recs, size) /\ size \in Nat
  <2>1. CASE IsOpen
    BY <2>1, OpenLog DEF LogInv
  <2>2. CASE ~IsOpen
    BY <1>1, <2>2 DEF LogInv, Sizes, Placed
  <2> QED BY <2>1, <2>2
<1>5. Placed(recs', size)
  <2>1. recs' \in SUBSET Extent /\ \A l \in recs' : l.at + l.len <= size
    BY <1>3, <1>4 DEF Placed
  <2>2. ASSUME NEW l \in recs', NEW k \in recs'
        PROVE  \/ l = k
               \/ l.id < k.id /\ l.at + l.len <= k.at
               \/ k.id < l.id /\ k.at + k.len <= l.at
    <3>1. PICK r \in recs : l.id = r.id /\ l.at = r.at /\ l.len = r.len
      BY <1>3
    <3>2. PICK q \in recs : k.id = q.id /\ k.at = q.at /\ k.len = q.len
      BY <1>3
    <3>3. \/ r = q
          \/ r.id < q.id /\ r.at + r.len <= q.at
          \/ q.id < r.id /\ q.at + q.len <= r.at
      BY <1>4 DEF Placed
    <3> QED BY <1>3, <3>1, <3>2, <3>3
  <2> QED BY <2>1, <2>2 DEF Placed
<1>6. \A l \in recs' : l.id \in 1 .. appends
  BY <1>3 DEF LogInv, Sizes
<1>7. Sizes'
  BY <1>1, <1>2, <1>4, <1>5, <1>6 DEF LogInv, Sizes
<1>8. Syncs'
  BY <1>1 DEF Syncs, Ids
<1>9. Heard' /\ Missed' /\ Stumbles'
  BY <1>1, <1>2 DEF Heard, Missed, Stumbles
<1>10. Finds(recs, 1, Replayed(size)) /\ Finds(recs', 1, Replayed(size)')
  BY <1>1, <1>4, <1>5, ReplayFinds DEF Replayed
<1>11. Replayed(size)' \in Seq(1 .. MaxRecords)
  <2> DEFINE found == Replayed(size)'
  <2>1. found \in Seq(Nat) /\ \A i \in 1 .. Len(found) : \E l \in recs' : l.id = found[i]
    BY <1>10 DEF Finds
  <2>2. appends \in 0 .. MaxRecords /\ MaxRecords \in Nat
    BY SizesAssumption DEF LogInv, Sizes
  <2> HIDE DEF found
  <2>3. \A i \in 1 .. Len(found) : found[i] \in 1 .. MaxRecords
    BY <1>6, <2>1, <2>2
  <2>4. found \in Seq(1 .. MaxRecords)
    <3>1. Len(found) \in Nat /\ found = [i \in 1 .. Len(found) |-> found[i]]
      BY <2>1
    <3>2. [i \in 1 .. Len(found) |-> found[i]] \in Seq(1 .. MaxRecords)
      BY <2>3, <3>1
    <3> QED BY <3>1, <3>2
  <2> QED BY <2>4 DEF found
<1>12. ASSUME ~Deaf PROVE L!Remaining(Replayed(size), Replayed(size)')
  <2>1. /\ Replayed(size) \in Seq(Nat) /\ Replayed(size)' \in Seq(Nat)
        /\ \A i, j \in 1 .. Len(Replayed(size)) :
             i < j => Replayed(size)[i] < Replayed(size)[j]
        /\ \A i, j \in 1 .. Len(Replayed(size)') :
             i < j => Replayed(size)'[i] < Replayed(size)'[j]
    BY <1>10 DEF Finds
  <2>2. CASE recs' = recs
    <3>1. Replayed(size)' = Replayed(size)
      BY <1>1, <2>2 DEF Replayed
    <3> QED BY <2>1, <3>1, TakenFrom
  <2>3. CASE \A r \in recs : ~r.torn => r.id \in Elems(Replayed(size))
    <3>1. \A i \in 1 .. Len(Replayed(size)') : Replayed(size)'[i] \in Elems(Replayed(size))
      <4> TAKE i \in 1 .. Len(Replayed(size)')
      <4>1. PICK l \in recs' : l.id = Replayed(size)'[i] /\ ~l.torn
        BY <1>10 DEF Finds
      <4> QED BY <1>3, <2>3, <4>1
    <3>2. Elems(Replayed(size)') \subseteq Elems(Replayed(size))
      BY <3>1 DEF Elems
    <3> QED BY <2>1, <3>2, TakenFrom
  <2>4. CASE Replayed(size) = << >>
    <3>1. recs = {}
      <4>1. CASE IsOpen
        BY <1>12, <2>4, <4>1, OpenLog, FreshLog DEF LogInv, Sizes
      <4>2. CASE ~IsOpen
        BY <1>1, <4>2 DEF LogInv, Sizes
      <4> QED BY <4>1, <4>2
    <3> QED BY <2>3, <3>1
  <2> QED BY <1>1, <1>3, <2>2, <2>3, <2>4, Found
<1>13. L!LogPowerLoss
  <2>1. (size > 1)' = (size > 1)
    BY <1>1
  <2> QED BY <1>1, <1>2, <1>11, <1>12, <2>1 DEF L!LogPowerLoss
<1> QED BY <1>7, <1>8, <1>9, <1>13 DEF LogInv

\* Every step of the log is one of what it is taken to be, or none.
LEMMA StepLog ==
  ASSUME IInv, LogInv, [Next]_vars
  PROVE  LogInv' /\ [L!LogNext]_(L!logvars)
<1>1. CASE New
  BY <1>1, NewStep DEF IInv, L!LogNext
<1>2. ASSUME life \in {"opened", "up"}, life' = "resetting", Truncated,
             UNCHANGED <<fresh, writeAt, appends>>
      PROVE  LogInv' /\ [L!LogNext]_(L!logvars)
  BY <1>2, TruncateStep DEF L!LogNext
<1>3. CASE Recover \/ ResetTruncate
  <2>1. CASE Replayed(writeAt) = << >> /\ life' = "up" /\ UNCHANGED <<file, acked>> /\ Recover
    BY <2>1, QuietStep DEF Recover, file, how, LogInv, Syncs
  <2> QED BY <1>2, <1>3, <2>1 DEF Recover, ResetTruncate, how
<1>4. CASE ResetVersion
  BY <1>4, ResetVersionStep
<1>5. CASE ResetMap
  BY <1>5, ResetMapStep DEF L!LogNext
<1>6. CASE Close
  BY <1>6, QuietStep DEF Close, file, how, LogInv, Syncs
<1>7. CASE CloseTruncate
  BY <1>7, CloseStep DEF L!LogNext
<1>8. ASSUME NEW w \in Writers, NEW len \in RecordSizes, AppendRaw(w, len)
      PROVE  LogInv' /\ [L!LogNext]_(L!logvars)
  BY <1>8, AppendStep DEF L!LogNext
<1>9. ASSUME NEW w \in Writers, Sync(w) \/ Signal(w)
      PROVE  LogInv' /\ [L!LogNext]_(L!logvars)
  BY <1>9, QuietStep DEF Sync, Signal, Return, how, IInv, Known
<1>10. CASE AsyncWriter
  BY <1>10, QuietStep DEF AsyncWriter, AsyncReceive, AsyncFlush, AsyncClear, AsyncStop,
                          Selecting, file, how, LogInv, Syncs
<1>11. CASE Kill
  BY <1>11, KillStep DEF L!LogNext
<1>12. CASE PowerLoss
  BY <1>12, PowerLossStep DEF L!LogNext
<1>13. CASE UNCHANGED vars
  BY <1>13, QuietStep DEF vars, how, LogInv, Syncs
<1> QED
  BY <1>1, <1>3, <1>4, <1>5, <1>6, <1>7, <1>8, <1>9, <1>10, <1>11, <1>12, <1>13 DEF Next

-----------------------------------------------------------------------------
(* What follows for every run.                                             *)

\* The file is as LogInv has it through all resets, restarts and crashes.
THEOREM LogInvAlways == Spec => [](IInv /\ LogInv)
<1>1. Init => IInv /\ LogInv
  BY InitIInv, LogInvInit
<1>2. (IInv /\ LogInv) /\ [Next]_vars => (IInv /\ LogInv)'
  BY StepIInv, StepLog
<1>3. QED BY <1>1, <1>2, PTL DEF Spec

\* The log is what LsmRecovery takes it to be: it keeps what it was given over kills,
\* finds all of it, and is deaf just when its file was opened behind zeros.
THEOREM ImplementsLogAlways == Spec => ImplementsLog
<1>1. Init => L!LogInit
  <2> SUFFICES ASSUME Init PROVE L!LogInit
    OBVIOUS
  <2>1. size = 0 /\ life = "down"
    BY DEF Init
  <2> QED BY <2>1 DEF L!LogInit, Replayed, Replay, Deaf
<1>2. (IInv /\ LogInv) /\ [Next]_vars => [L!LogNext]_(L!logvars)
  BY StepLog
<1>3. QED BY <1>1, <1>2, LogInvAlways, PTL DEF Spec, ImplementsLog, L!LogSpec

\* In a log that was fresh or has been reset, Replay finds every record, in order, with
\* the process' writeAt and with the length a kill would leave.
THEOREM ReplayCompleteAlways == Spec => []ReplayComplete
<1>1. LogInv => ReplayComplete
  <2> SUFFICES ASSUME LogInv, life = "up", fresh
               PROVE  Complete(Replayed(writeAt)) /\ Complete(Replayed(size))
    BY DEF ReplayComplete
  <2>1. IsOpen
    BY DEF IsOpen
  <2>2. /\ Replayed(size) = Replayed(writeAt) /\ Placed(recs, size) /\ size \in Nat
        /\ Elems(Replayed(size)) = Ids(recs)
    BY <2>1, OpenLog DEF LogInv, Heard
  <2>3. /\ Replayed(size) \in Seq(Nat)
        /\ \A i, j \in 1 .. Len(Replayed(size)) :
             i < j => Replayed(size)[i] < Replayed(size)[j]
    BY <2>2, ReplayFinds DEF Replayed, Finds
  <2>4. DOMAIN Replayed(size) = 1 .. Len(Replayed(size))
    BY <2>3
  <2>5. Complete(Replayed(size))
    BY <2>2, <2>3, <2>4 DEF Complete, Elems
  <2> QED BY <2>2, <2>5
<1>2. QED BY <1>1, LogInvAlways, PTL

\* SyncAlways, in a log that was fresh or has been reset since it was opened (not in a
\* deaf one): a loss of power at any point takes no record whose append had returned, and
\* Replay comes to each of them over whatever the others have left.
THEOREM AckedSurvivesAlways == Spec => AckedSurvives
<1> DEFINE Survives ==
      PowerLoss /\ mode = "always" /\ fresh =>
        \A id \in acked : \E i \in DOMAIN Replayed(size)' : Replayed(size)'[i] = id
<1>1. IInv /\ LogInv => Survives
  <2> SUFFICES ASSUME IInv, LogInv, PowerLoss, mode = "always", fresh, NEW id \in acked
               PROVE  \E i \in DOMAIN Replayed(size)' : Replayed(size)'[i] = id
    OBVIOUS
  <2>1. PICK r \in recs : r.id = id
    BY DEF IInv, Known, Ids
  <2>2. id \in synced
    BY DEF LogInv, Syncs
  <2>3. IsOpen
    BY <2>1 DEF LogInv, Sizes, PowerLoss, Gone
  <2>4. /\ Placed(recs, writeAt) /\ writeAt \in Nat \ {0} /\ size \in Nat /\ writeAt <= size
        /\ size > 1 /\ Reaches(recs, 1, writeAt)
    BY <2>3, OpenLog DEF LogInv, Heard
  <2>5. size' = size /\ life' = "down"
    BY DEF PowerLoss, Gone
  <2>6. Placed(recs', size) /\ Replayed(size)' \in Seq(Nat)
    <3>1. LogInv'
      BY PowerLossStep
    <3>2. Placed(recs', size)
      BY <2>5, <3>1 DEF LogInv, Sizes
    <3> QED BY <2>4, <2>5, <3>2, ReplayFinds DEF Replayed, Finds
  <2>7. \A q \in recs : q.id \in synced =>
                          q \in recs' /\ \A p \in recs : p.id < q.id => p.id \in synced
    BY PowerLossLeaves DEF LogInv, Syncs
  <2>8. \A l \in recs' : \E q \in recs : l.at = q.at /\ l.len = q.len
    BY PowerLossLeaves
  <2>9. id \in Elems(Walk(recs', size)[1])
    BY <2>1, <2>2, <2>4, <2>6, <2>7, <2>8, WalkCovers
  <2>10. id \in Elems(Replayed(size)')
    BY <2>4, <2>5, <2>9 DEF Replayed, Replay
  <2>11. DOMAIN Replayed(size)' = 1 .. Len(Replayed(size)')
    BY <2>6
  <2> QED BY <2>10, <2>11 DEF Elems
<1>2. Spec => [][Survives]_vars
  <2>1. (IInv /\ LogInv) /\ [Next]_vars => [Survives]_vars
    BY <1>1
  <2> HIDE DEF Survives
  <2> QED BY <2>1, LogInvAlways, PTL DEF Spec
<1> QED BY <1>2 DEF AckedSurvives
=============================================================================
