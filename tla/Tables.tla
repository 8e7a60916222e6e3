------------------------------- MODULE Tables -------------------------------
(***************************************************************************)
(* The data the engine moves around, and the pure part of its operations:  *)
(* versions of a key, the memtable, SSTables, the merge of a compaction    *)
(* and the choice of its inputs.                                           *)
(*                                                                         *)
(*  - A version names its value by its timestamp: two writes never carry   *)
(*    the same timestamp (PutBatch gives entry i of a batch ts + i).       *)
(*  - Every entry has size 1, so the byte thresholds of the code           *)
(*    (memtable size, level limit, output chunk) are counts of entries.    *)
(*  - A level is the set of its tables.  The slice of the code holds them  *)
(*    in the order they were created: a flush appends the newest id, a     *)
(*    compaction keeps survivors in order and appends outputs with higher  *)
(*    ids, the manifest preserves the order.  Order is therefore order of  *)
(*    id, which is also the order of the file names sort.Slice compares.   *)
(***************************************************************************)
EXTENDS Integers, FiniteSets, Sequences

FSE == INSTANCE FiniteSetsExt

CONSTANTS Keys,            \* keys, as integers in the order of the strings
          EmptyKey,        \* the empty string, which sorts before every other
          NumLevels,       \* Options.NumLevels
          MaxL0Files,      \* lsm.maxL0Files, 8 in the code
          SparseStep,      \* one key in SparseStep is indexed, 128 in the code
          TargetEntries,   \* entries an output file of a compaction holds
          BottomLevel      \* DoCompact's isBottomLevel: level >= 6 in the code

ASSUME KeysAssumption ==
  /\ Keys \subseteq Nat
  /\ EmptyKey \in Nat
  /\ \A k \in Keys : EmptyKey <= k

\* With one level compactL0ToL1 would index past lsm.levels; with
\* maxL0Files < 2 it would select no file and index past toCompact.
ASSUME ShapeAssumption ==
  /\ NumLevels \in Nat /\ NumLevels >= 2
  /\ MaxL0Files \in Nat /\ MaxL0Files >= 2
  /\ SparseStep \in Nat \ {0}
  /\ TargetEntries \in Nat \ {0}
  /\ BottomLevel \in Nat \ {0}

Level == 0 .. NumLevels - 1

Version == [key : Keys, ts : Nat \ {0}, tombstone : BOOLEAN]

\* An SSTable: the number in its file name and the versions it stores.
Table == [id : Nat, ents : SUBSET Version]

KeysOf(vs) == {v.key : v \in vs}

\* MemTable.Put and MemTable.Delete: m.m[key] is overwritten.
Overwrite(m, ws) == {v \in m : \A w \in ws : w.key # v.key} \cup ws

\* The entries PutBatch writes when it reads the clock at t: entry i carries
\* t + i, and a key that occurs twice keeps its last entry.
Stamped(kvs, t) ==
  {[key |-> kvs[i], ts |-> t + i, tombstone |-> FALSE] :
     i \in {i \in 1 .. Len(kvs) : \A j \in i + 1 .. Len(kvs) : kvs[j] # kvs[i]}}

EntriesOf(T) == UNION {t.ents : t \in T}

\* DataSize summed over a set of tables.
DataSize(T) == Cardinality(UNION {{t.id} \X t.ents : t \in T})

\* The versions of vs no other version of the same key in vs is newer than.
Newest(vs) == {v \in vs : \A w \in vs : w.key = v.key => w.ts <= v.ts}

\* The map vs stands for: for each key its newest version, unless deleted.
LiveOf(vs) == {[key |-> v.key, ts |-> v.ts] : v \in {w \in Newest(vs) : ~w.tombstone}}

\* The map m after the writes ws.
Applied(m, ws) == {p \in m : \A w \in ws : w.key # p.key}
                    \cup {[key |-> w.key, ts |-> w.ts] : w \in {v \in ws : ~v.tombstone}}
-----------------------------------------------------------------------------
(* Key ranges as the code sees them.                                       *)

Rank(k, ks) == Cardinality({j \in ks : j < k})

\* Writer.Append indexes entry number 0, SparseStep, 2 * SparseStep, ...
IndexedKeys(t) ==
  {k \in KeysOf(t.ents) : Rank(k, KeysOf(t.ents)) % SparseStep = 0}

\* SSTable.MinKey and MaxKey are the first and the last INDEXED key: MaxKey
\* is in general smaller than the last key stored.
MinKey(t) == FSE!Min(IndexedKeys(t))
MaxKey(t) == FSE!Max(IndexedKeys(t))

\* compactL0ToL1's test of an L1 table against the range of the L0 files.
Overlapping(T, victims) ==
  LET minK == FSE!Min({MinKey(t) : t \in victims})
      maxK == FSE!Max({MaxKey(t) : t \in victims})
  IN  {u \in T : ~(MaxKey(u) < minK \/ MinKey(u) > maxK)}
-----------------------------------------------------------------------------
(* Compaction.                                                             *)

\* Broken: tombstones are dropped one level too early.
MergeDropsEarly(T, level) ==
  {v \in Newest(EntriesOf(T)) :
     v.key # EmptyKey /\ ~(v.tombstone /\ level >= BottomLevel - 1)}

\* Broken: an entry is not compared with the key before it.
MergeKeepsShadowed(T, level) ==
  {v \in EntriesOf(T) :
     v.key # EmptyKey /\ ~(v.tombstone /\ level >= BottomLevel)}

\* What the k-way merge of DoCompact emits: the newest version of each key,
\* without the tombstones at the bottom, and without the empty key, which is
\* equal to the initial lastKey and therefore taken for a duplicate.
Merge(T, level) ==
  {v \in Newest(EntriesOf(T)) :
     /\ v.key # EmptyKey
     /\ ~(v.tombstone /\ level >= BottomLevel)}

\* DoCompact cuts the merged stream into files of TargetEntries entries,
\* numbered from id on.
DoCompact(T, level, id) ==
  LET merged   == Merge(T, level)
      chunk(v) == Rank(v.key, KeysOf(merged)) \div TargetEntries
  IN  {[id |-> id + c, ents |-> {v \in merged : chunk(v) = c}] :
         c \in {chunk(v) : v \in merged}}

\* How many of c L0 files compactL0ToL1 takes.
VictimCount(c) ==
  LET half == IF c \div 2 < 1 THEN 1 ELSE c \div 2
  IN  IF half > MaxL0Files \div 2 THEN MaxL0Files \div 2 ELSE half

\* Broken: sorted the other way round.
NewestOf(L0) ==
  {t \in L0 : Cardinality({u \in L0 : u.id > t.id}) < VictimCount(Cardinality(L0))}

\* The first files of L0 in the order of their names.
OldestOf(L0) ==
  {t \in L0 : Cardinality({u \in L0 : u.id < t.id}) < VictimCount(Cardinality(L0))}

\* Broken: the outputs are not added to LevelSizes.
CompactedUncounted(tr, src, from, into, out) ==
  [levels |-> [tr.levels EXCEPT ![src] = @ \ from,
                                ![src + 1] = (@ \ into) \cup out],
   sizes  |-> [tr.sizes EXCEPT ![src] = @ - DataSize(from),
                               ![src + 1] = @ - DataSize(into)],
   nextID |-> tr.nextID + Cardinality(out)]

\* Broken: nextID does not move by the number of outputs.
CompactedSameID(tr, src, from, into, out) ==
  [levels |-> [tr.levels EXCEPT ![src] = @ \ from,
                                ![src + 1] = (@ \ into) \cup out],
   sizes  |-> [tr.sizes EXCEPT ![src] = @ - DataSize(from),
                               ![src + 1] = @ - DataSize(into) + DataSize(out)],
   nextID |-> tr.nextID]

\* A tree is the part of the LSM struct that flushes and compactions rewrite.
\* Tables from of level src and tables into of level src + 1 become out.
Compacted(tr, src, from, into, out) ==
  [levels |-> [tr.levels EXCEPT ![src] = @ \ from,
                                ![src + 1] = (@ \ into) \cup out],
   sizes  |-> [tr.sizes EXCEPT ![src] = @ - DataSize(from),
                               ![src + 1] = @ - DataSize(into) + DataSize(out)],
   nextID |-> tr.nextID + Cardinality(out)]

\* Every version an engine with memtable m and tree tr holds.
HeldBy(m, tr) == m \cup UNION {EntriesOf(tr.levels[l]) : l \in Level}

CompactL0ToL1(tr) ==
  IF tr.levels[0] = {} THEN tr
  ELSE LET victims == OldestOf(tr.levels[0])
           overlap == Overlapping(tr.levels[1], victims)
       IN  Compacted(tr, 0, victims, overlap,
                     DoCompact(victims \cup overlap, 1, tr.nextID))

\* Broken: the tables of the next level are left out of the merge.
CompactLevelAlone(tr, l) ==
  IF l < 1 \/ l >= NumLevels - 1 \/ tr.levels[l] = {} THEN tr
  ELSE Compacted(tr, l, tr.levels[l], {}, DoCompact(tr.levels[l], l + 1, tr.nextID))

CompactLevel(tr, l) ==
  IF l < 1 \/ l >= NumLevels - 1 \/ tr.levels[l] = {} THEN tr
  ELSE Compacted(tr, l, tr.levels[l], tr.levels[l + 1],
                 DoCompact(tr.levels[l] \cup tr.levels[l + 1], l + 1, tr.nextID))

\* flushMemtable turns a nonempty memtable m into a new file of L0 ...
AddToL0(tr, m) ==
  LET new == [id |-> tr.nextID, ents |-> m]
  IN  [levels |-> [tr.levels EXCEPT ![0] = @ \cup {new}],
       sizes  |-> [tr.sizes EXCEPT ![0] = @ + DataSize({new})],
       nextID |-> tr.nextID + 1]

\* Broken: it leaves all compactions to the goroutine.
NoWriterCompaction(tr) == tr

\* ... and compacts in the caller when the goroutine has fallen far behind.
WriterCompaction(tr) ==
  IF Cardinality(tr.levels[0]) > 2 * MaxL0Files THEN CompactL0ToL1(tr) ELSE tr

FlushMemtable(tr, m) == WriterCompaction(AddToL0(tr, m))
-----------------------------------------------------------------------------
(* The order of the versions.                                              *)

\* Every version of a key in vs is newer than every version of that key in ws.
Newer(vs, ws) == \A v \in vs : \A w \in ws : v.key = w.key => v.ts > w.ts

\* The order reads and merges rely on: the memtable is newer than every file
\* (flushMemtable empties it), a file of L0 is newer than the files with
\* smaller numbers (compactL0ToL1 takes the smallest), and a level is newer
\* than the levels below it (compactions move the older data down).
MemtableNewest(m, tr) == \A l \in Level : Newer(m, EntriesOf(tr.levels[l]))

L0ByAge(tr) ==
  \A t, u \in tr.levels[0] : t.id < u.id => Newer(u.ents, t.ents)

LevelsByAge(tr) ==
  \A i, j \in Level :
    i < j => Newer(EntriesOf(tr.levels[i]), EntriesOf(tr.levels[j]))

Ordered(m, tr) == MemtableNewest(m, tr) /\ L0ByAge(tr) /\ LevelsByAge(tr)
=============================================================================
