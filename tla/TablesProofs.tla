---------------------------- MODULE TablesProofs ----------------------------
(***************************************************************************)
(* Facts about the operators of Tables that the proofs about the engine    *)
(* and about the merge share.                                              *)
(***************************************************************************)
EXTENDS Tables, FiniteSetTheorems, WellFoundedInduction, TLAPS

(* Least numbers and ranks.                                                *)

\* A nonempty set of natural numbers has a least element.
LEMMA LeastNumber ==
  ASSUME NEW S \in SUBSET Nat, S # {}
  PROVE  \E n \in S : \A m \in S : n <= m
<1> DEFINE below(n) == {m \in S : m < n}
           sets     == {below(n) : n \in S}
<1>1. \A n \in S : below(n) \in SUBSET Nat /\ IsFiniteSet(below(n))
  <2> TAKE n \in S
  <2>1. below(n) \in SUBSET Nat
    OBVIOUS
  <2>2. \A m \in below(n) : m <= n
    OBVIOUS
  <2> HIDE DEF below
  <2>3. IsFiniteSet(below(n))
    BY <2>1, <2>2, FS_BoundedSetOfNaturals
  <2> QED BY <2>1, <2>3
<1>2. sets \subseteq FiniteSubsetsOf(Nat) /\ sets # {}
  BY <1>1 DEF FiniteSubsetsOf
<1>3. PICK B \in sets : \A A \in sets : ~(<<A, B>> \in StrictSubsetOrdering(Nat))
  <2> HIDE DEF sets
  <2> QED BY <1>2, FS_StrictSubsetOrderingWellFounded, WFMin
<1>4. PICK n \in S : B = below(n)
  OBVIOUS
<1>5. ASSUME NEW m \in S, m < n PROVE FALSE
  <2>1. below(m) \subseteq below(n) /\ below(m) # below(n)
    <3>1. \A i \in S : i < m => i < n
      BY <1>5
    <3>2. m \in below(n) /\ m \notin below(m)
      BY <1>5
    <3> QED BY <3>1, <3>2
  <2>2. <<below(m), below(n)>> \in StrictSubsetOrdering(Nat)
    BY <1>1, <2>1 DEF StrictSubsetOrdering
  <2> QED BY <1>3, <1>4, <2>2
<1>6. QED BY <1>5

\* The rank of a key among finitely many is a natural number.
LEMMA RankNat ==
  ASSUME NEW ks, IsFiniteSet(ks), NEW k
  PROVE  Rank(k, ks) \in Nat
BY FS_Subset, FS_CardinalityType DEF Rank

\* The ranks of finitely many keys have no gaps: every number up to the rank
\* of a key is the rank of a key.
LEMMA RanksContiguous ==
  ASSUME NEW ks \in SUBSET Nat, IsFiniteSet(ks), NEW k \in ks,
         NEW n \in Nat, n <= Rank(k, ks)
  PROVE  \E j \in ks : Rank(j, ks) = n
<1> DEFINE below(j) == {i \in ks : i < j}
           ranks    == {Rank(j, ks) : j \in {j \in ks : n <= Rank(j, ks)}}
<1>1. \A j \in ks : Rank(j, ks) \in Nat
  BY RankNat
<1>2. PICK r \in ranks : \A q \in ranks : r <= q
  <2>1. ranks \in SUBSET Nat /\ ranks # {}
    BY <1>1
  <2> QED BY <2>1, LeastNumber
<1>3. PICK j \in ks : r = Rank(j, ks) /\ n <= r
  OBVIOUS
<1>4. CASE r = n
  BY <1>3, <1>4
<1>5. CASE r > n
  <2>1. below(j) # {}
    <3>1. Rank(j, ks) # 0
      BY <1>1, <1>3, <1>5
    <3>2. Rank(j, ks) = Cardinality(below(j))
      BY DEF Rank
    <3> HIDE DEF below
    <3> QED BY <3>1, <3>2, FS_EmptySet
  \* The greatest key below j has the next smaller rank.
  <2>2. PICK p \in below(j) : \A i \in below(j) : i <= p
    <3> DEFINE gaps == {j - i : i \in below(j)}
    <3>1. gaps \in SUBSET Nat /\ gaps # {}
      <4>1. \A i \in below(j) : j - i \in Nat
        OBVIOUS
      <4> HIDE DEF below
      <4> QED BY <2>1, <4>1
    <3>2. PICK d \in gaps : \A e \in gaps : d <= e
      BY <3>1, LeastNumber
    <3>3. PICK p \in below(j) : d = j - p
      BY <3>2
    <3>4. \A i \in below(j) : j - p <= j - i
      BY <3>2, <3>3
    <3> QED BY <3>3, <3>4
  <2>3. below(j) = below(p) \cup {p} /\ p \notin below(p)
    <3>1. p \in ks /\ p < j /\ \A i \in ks : i < j => i <= p
      BY <2>2
    <3>2. \A i \in ks : i < j <=> i < p \/ i = p
      BY <3>1
    <3>3. below(j) \subseteq below(p) \cup {p}
      BY <3>2
    <3>4. below(p) \cup {p} \subseteq below(j)
      BY <3>1, <3>2
    <3>5. p \notin below(p)
      BY <3>1
    <3> HIDE DEF below
    <3> QED BY <3>3, <3>4, <3>5
  <2>4. IsFiniteSet(below(p))
    BY FS_Subset
  <2>5. Cardinality(below(j)) = Cardinality(below(p)) + 1
    <3> HIDE DEF below
    <3> QED BY <2>3, <2>4, FS_AddElement
  <2>6. Rank(j, ks) = Rank(p, ks) + 1
    BY <2>5 DEF Rank
  <2>7. p \in ks /\ n <= Rank(p, ks) /\ Rank(p, ks) < r
    BY <1>1, <1>3, <1>5, <2>6
  <2>8. Rank(p, ks) \in ranks
    BY <2>7
  <2> QED BY <1>1, <1>2, <1>3, <2>7, <2>8
<1>6. QED BY <1>1, <1>3, <1>4, <1>5
-----------------------------------------------------------------------------
(* Tables and merges.                                                      *)

\* A set of tables with finitely many entries each holds finitely many.
LEMMA FiniteEntries ==
  ASSUME NEW T, IsFiniteSet(T), \A t \in T : IsFiniteSet(t.ents)
  PROVE  IsFiniteSet(EntriesOf(T))
<1> DEFINE sets == {t.ents : t \in T}
<1>1. [t \in T |-> t.ents] \in Surjection(T, sets)
  BY DEF Surjection
<1>2. IsFiniteSet(sets)
  BY <1>1, FS_Surjection
<1>3. QED BY <1>2, FS_UNION DEF EntriesOf

\* DataSize counts: it is a natural number.
LEMMA DataSizeNat ==
  ASSUME NEW T, IsFiniteSet(T), \A t \in T : IsFiniteSet(t.ents)
  PROVE  DataSize(T) \in Nat
<1> DEFINE sets == {{t.id} \X t.ents : t \in T}
<1>1. [t \in T |-> {t.id} \X t.ents] \in Surjection(T, sets)
  BY DEF Surjection
<1>2. IsFiniteSet(sets)
  BY <1>1, FS_Surjection
<1>3. \A t \in T : IsFiniteSet({t.id} \X t.ents)
  BY FS_Product, FS_Singleton
<1>4. \A Q \in sets : IsFiniteSet(Q)
  BY <1>3
<1>5. IsFiniteSet(UNION sets)
  <2> HIDE DEF sets
  <2> QED BY <1>2, <1>4, FS_UNION
<1>6. QED BY <1>5, FS_CardinalityType DEF DataSize

\* The merge keeps versions of its inputs only, and only newest ones.
LEMMA MergeSubset ==
  ASSUME NEW T, NEW lv
  PROVE  Merge(T, lv) \subseteq Newest(EntriesOf(T)) /\ Newest(EntriesOf(T)) \subseteq EntriesOf(T)
BY DEF Merge, Newest

\* DoCompact writes well-formed tables that hold exactly what the merge emits:
\* cutting the stream into files loses nothing.
LEMMA DoCompactTables ==
  ASSUME NEW T, EntriesOf(T) \subseteq Version, IsFiniteSet(EntriesOf(T)),
         NEW lv, NEW id \in Nat
  PROVE  /\ DoCompact(T, lv, id) \subseteq Table
         /\ IsFiniteSet(DoCompact(T, lv, id))
         /\ \A t \in DoCompact(T, lv, id) : IsFiniteSet(t.ents)
         /\ EntriesOf(DoCompact(T, lv, id)) = Merge(T, lv)
<1> DEFINE merged   == Merge(T, lv)
           chunk(v) == Rank(v.key, KeysOf(merged)) \div TargetEntries
           chunks   == {chunk(v) : v \in merged}
           table(c) == [id |-> id + c, ents |-> {v \in merged : chunk(v) = c}]
<1>1. DoCompact(T, lv, id) = {table(c) : c \in chunks}
  BY DEF DoCompact
<1>2. merged \subseteq Version /\ IsFiniteSet(merged)
  BY MergeSubset, FS_Subset
<1>3. IsFiniteSet(KeysOf(merged))
  <2>1. [v \in merged |-> v.key] \in Surjection(merged, KeysOf(merged))
    BY DEF Surjection, KeysOf
  <2> QED BY <1>2, <2>1, FS_Surjection
<1>4. \A v \in merged : chunk(v) \in Nat
  <2>1. TargetEntries \in Nat \ {0}
    BY ShapeAssumption
  <2>2. \A v \in merged : Rank(v.key, KeysOf(merged)) \in Nat
    BY <1>3, RankNat
  <2> QED BY <2>1, <2>2
<1>5. IsFiniteSet(chunks)
  <2>1. [v \in merged |-> chunk(v)] \in Surjection(merged, chunks)
    BY DEF Surjection
  <2> HIDE DEF chunks, merged
  <2> QED BY <1>2, <2>1, FS_Surjection
<1>6. chunks \subseteq Nat
  BY <1>4
<1> HIDE DEF merged, chunk
<1>7. \A c \in chunks : table(c) \in Table /\ IsFiniteSet(table(c).ents)
  <2> TAKE c \in chunks
  <2>1. {v \in merged : chunk(v) = c} \subseteq Version
    BY <1>2
  <2>2. IsFiniteSet({v \in merged : chunk(v) = c})
    BY <1>2, FS_Subset
  <2> QED BY <1>6, <2>1, <2>2 DEF Table
<1>8. IsFiniteSet({table(c) : c \in chunks})
  <2>1. [c \in chunks |-> table(c)] \in Surjection(chunks, {table(c) : c \in chunks})
    BY DEF Surjection
  <2> HIDE DEF chunks, table
  <2> QED BY <1>5, <2>1, FS_Surjection
<1>9. EntriesOf({table(c) : c \in chunks}) = merged
  <2> DEFINE part(c) == {v \in merged : chunk(v) = c}
  <2>1. {t.ents : t \in {table(c) : c \in chunks}} = {part(c) : c \in chunks}
    <3>1. \A c \in chunks : table(c).ents = part(c)
      OBVIOUS
    <3> HIDE DEF table, part, chunks
    <3> QED BY <3>1
  <2>2. UNION {part(c) : c \in chunks} = merged
    OBVIOUS
  <2> QED BY <2>1, <2>2 DEF EntriesOf
<1>10. QED
  BY <1>1, <1>7, <1>8, <1>9 DEF merged


\* Dividing by TargetEntries: the first rank of chunk n, and of no other.
LEMMA ChunkStart ==
  ASSUME NEW n \in Nat, NEW r \in Nat, n <= r \div TargetEntries
  PROVE  /\ n * TargetEntries \in Nat
         /\ n * TargetEntries <= r
         /\ (n * TargetEntries) \div TargetEntries = n
<1> DEFINE T == TargetEntries
           q == r \div T
<1>1. T \in Nat \ {0}
  BY ShapeAssumption
<1>2. q \in Nat /\ q * T <= r
  <2> HIDE DEF T
  <2> QED BY <1>1
<1>3. n * T <= q * T
  <2> HIDE DEF T, q
  <2>1. PICK d \in Nat : q = n + d
    <3>1. n <= q
      BY DEF q, T
    <3>2. q - n \in Nat /\ q = n + (q - n)
      BY <3>1, <1>2
    <3> QED BY <3>2
  <2>2. q * T = n * T + d * T /\ d * T \in Nat
    BY <1>1, <2>1
  <2> QED BY <1>1, <2>2
<1>4. n * T \in Nat /\ (n * T) \div T = n
  <2> HIDE DEF T
  <2> QED BY <1>1
<1> HIDE DEF T, q
<1>5. QED BY <1>1, <1>2, <1>3, <1>4 DEF T

\* Dividing by TargetEntries keeps the order.
LEMMA ChunkMonotone ==
  ASSUME NEW q \in Nat, NEW r \in Nat, q <= r
  PROVE  q \div TargetEntries <= r \div TargetEntries
<1> DEFINE T == TargetEntries
           m == q \div T
           n == r \div T
<1>1. T \in Nat \ {0}
  BY ShapeAssumption
<1>2. m \in Nat /\ n \in Nat /\ m * T <= q /\ r < n * T + T
  <2> HIDE DEF T
  <2> QED BY <1>1
<1> HIDE DEF T, m, n
<1>3. ASSUME n < m PROVE FALSE
  <2>1. PICK d \in Nat : m = (n + 1) + d
    <3>1. m - (n + 1) \in Nat /\ m = (n + 1) + (m - (n + 1))
      BY <1>2, <1>3
    <3> QED BY <3>1
  <2>2. m * T = n * T + T + d * T /\ d * T \in Nat /\ n * T \in Nat
    BY <1>1, <1>2, <2>1
  <2> QED BY <1>1, <1>2, <2>2
<1>4. m <= n
  BY <1>2, <1>3
<1>5. QED BY <1>4 DEF m, n, T

\* DoCompact numbers its outputs from id on, without gaps and without repeats:
\* the counter that moves by the number of outputs moves past all of them.
LEMMA DoCompactNumbers ==
  ASSUME NEW T, EntriesOf(T) \subseteq Version, IsFiniteSet(EntriesOf(T)),
         NEW lv, NEW id \in Nat
  PROVE  LET out == DoCompact(T, lv, id)
         IN  /\ \A t \in out : id <= t.id /\ t.id < id + Cardinality(out)
             /\ \A t, u \in out : t.id = u.id => t = u
<1> DEFINE merged   == Merge(T, lv)
           chunk(v) == Rank(v.key, KeysOf(merged)) \div TargetEntries
           chunks   == {chunk(v) : v \in merged}
           table(c) == [id |-> id + c, ents |-> {v \in merged : chunk(v) = c}]
           out      == {table(c) : c \in chunks}
<1>1. DoCompact(T, lv, id) = out
  BY DEF DoCompact
<1>2. merged \subseteq Version /\ IsFiniteSet(merged)
  BY MergeSubset, FS_Subset
<1>3. KeysOf(merged) \in SUBSET Nat /\ IsFiniteSet(KeysOf(merged))
  <2>1. [v \in merged |-> v.key] \in Surjection(merged, KeysOf(merged))
    BY DEF Surjection, KeysOf
  <2>2. \A v \in merged : v.key \in Nat
    BY <1>2, KeysAssumption DEF Version
  <2> QED BY <1>2, <2>1, <2>2, FS_Surjection DEF KeysOf
<1>4. \A v \in merged : Rank(v.key, KeysOf(merged)) \in Nat
  BY <1>3, RankNat
<1>5. \A v \in merged : chunk(v) \in Nat
  BY <1>4, ShapeAssumption
\* Every chunk before the one of v holds a version.
<1>6. ASSUME NEW v \in merged, NEW n \in 0 .. chunk(v) PROVE n \in chunks
  <2>1. /\ n * TargetEntries \in Nat
        /\ n * TargetEntries <= Rank(v.key, KeysOf(merged))
        /\ (n * TargetEntries) \div TargetEntries = n
    <3>1. n \in Nat /\ n <= Rank(v.key, KeysOf(merged)) \div TargetEntries
      BY <1>5
    <3> HIDE DEF merged
    <3> QED BY <3>1, <1>4, ChunkStart
  <2>2. v.key \in KeysOf(merged)
    BY DEF KeysOf
  <2>3. PICK k \in KeysOf(merged) : Rank(k, KeysOf(merged)) = n * TargetEntries
    <3> HIDE DEF merged
    <3> QED BY <1>3, <2>1, <2>2, RanksContiguous
  <2>4. PICK w \in merged : w.key = k
    BY DEF KeysOf
  <2>5. chunk(w) = n
    BY <2>1, <2>3, <2>4
  <2> HIDE DEF chunk, merged
  <2> QED BY <2>5
<1>7. IsFiniteSet(chunks)
  <2>1. [v \in merged |-> chunk(v)] \in Surjection(merged, chunks)
    BY DEF Surjection
  <2> HIDE DEF chunks, merged
  <2> QED BY <1>2, <2>1, FS_Surjection
<1>8. \A c \in chunks : c \in Nat /\ 0 .. c \subseteq chunks
  <2> HIDE DEF merged, chunk
  <2> QED BY <1>5, <1>6
<1> HIDE DEF merged, chunk, chunks
<1>9. \A c, d \in chunks : id + c = id + d => c = d
  BY <1>8
<1>10. Cardinality(out) = Cardinality(chunks) /\ Cardinality(out) \in Nat
  <2>1. [c \in chunks |-> table(c)] \in Surjection(chunks, out)
    BY DEF Surjection
  <2>2. [c \in chunks |-> table(c)] \in Injection(chunks, out)
    <3>1. \A c, d \in chunks : table(c) = table(d) => c = d
      BY <1>9
    <3>2. \A c \in chunks : table(c) \in out
      OBVIOUS
    <3> HIDE DEF table, out
    <3> QED BY <3>1, <3>2 DEF Injection, IsInjective
  <2> HIDE DEF table, out
  <2> QED BY <1>7, <2>1, <2>2, FS_Surjection, FS_CardinalityType
<1>11. \A c \in chunks : c < Cardinality(out)
  <2> SUFFICES ASSUME NEW c \in chunks PROVE c < Cardinality(out)
    OBVIOUS
  <2>1. c \in Nat /\ 0 .. c \in SUBSET chunks
    BY <1>8
  <2>2. Cardinality(0 .. c) = c + 1
    BY <2>1, FS_Interval
  <2>3. Cardinality(0 .. c) <= Cardinality(chunks)
    BY <1>7, <2>1, FS_Subset
  <2> HIDE DEF out
  <2> QED BY <1>10, <2>1, <2>2, <2>3
<1>12. \A c \in chunks : table(c).id = id + c
  OBVIOUS
<1>13. \A t \in out : \E c \in chunks : t = table(c) /\ t.id = id + c
  BY <1>12
<1> HIDE DEF table, out
<1>14. \A t \in out : id <= t.id /\ t.id < id + Cardinality(out)
  BY <1>8, <1>10, <1>11, <1>13
<1>15. \A t, u \in out : t.id = u.id => t = u
  BY <1>9, <1>13
<1>16. QED BY <1>1, <1>14, <1>15

\* The files compactL0ToL1 takes are older than the files it leaves: their
\* numbers are the smallest.
LEMMA OldestFirst ==
  ASSUME NEW L0, L0 \subseteq Table, IsFiniteSet(L0),
         NEW t \in OldestOf(L0), NEW u \in L0 \ OldestOf(L0)
  PROVE  t.id < u.id
<1> DEFINE below(i) == {x \in L0 : x.id < i}
<1>1. SUFFICES ASSUME u.id <= t.id PROVE FALSE
  BY DEF OldestOf, Table
<1>2. below(u.id) \subseteq below(t.id)
  BY <1>1 DEF OldestOf, Table
<1>3. IsFiniteSet(below(t.id))
  BY FS_Subset
<1>4. Cardinality(below(u.id)) <= Cardinality(below(t.id))
  BY <1>2, <1>3, FS_Subset
<1>5. /\ Cardinality(below(u.id)) \in Nat
      /\ Cardinality(below(t.id)) \in Nat
  BY <1>2, <1>3, FS_Subset, FS_CardinalityType
<1>6. VictimCount(Cardinality(L0)) \in Int
  BY FS_CardinalityType, ShapeAssumption DEF VictimCount
<1>7. /\ Cardinality(below(t.id)) < VictimCount(Cardinality(L0))
      /\ ~(Cardinality(below(u.id)) < VictimCount(Cardinality(L0)))
  BY DEF OldestOf
<1> HIDE DEF below
<1>8. QED BY <1>4, <1>5, <1>6, <1>7

\* compactL0ToL1 never picks nothing: its turn shrinks a nonempty L0.
LEMMA OldestTaken ==
  ASSUME NEW L0, L0 \subseteq Table, IsFiniteSet(L0), L0 # {}
  PROVE  OldestOf(L0) # {}
<1> DEFINE ids      == {t.id : t \in L0}
           below(i) == {u \in L0 : u.id < i}
<1>1. PICK i \in ids : \A j \in ids : i <= j
  <2>1. ids \in SUBSET Nat /\ ids # {}
    BY DEF Table
  <2> HIDE DEF ids
  <2> QED BY <2>1, LeastNumber
<1>2. PICK t \in L0 : i = t.id
  OBVIOUS
<1>3. \A u \in L0 : u.id \in Nat /\ t.id <= u.id
  BY <1>1, <1>2 DEF Table
<1>4. below(t.id) = {}
  BY <1>3
<1>5. Cardinality(below(t.id)) = 0
  <2> HIDE DEF below
  <2> QED BY <1>4, FS_EmptySet
<1>6. Cardinality(L0) \in Nat
  BY FS_CardinalityType
<1>7. 0 < VictimCount(Cardinality(L0))
  BY <1>6, ShapeAssumption DEF VictimCount
<1>8. t \in OldestOf(L0)
  BY <1>5, <1>7 DEF OldestOf
<1>9. QED BY <1>8
-----------------------------------------------------------------------------
(* Sizes.                                                                  *)

\* The data of two sets of files without a common number adds up.
LEMMA DataSizeAdds ==
  ASSUME NEW S, IsFiniteSet(S), \A t \in S : IsFiniteSet(t.ents),
         NEW T, IsFiniteSet(T), \A t \in T : IsFiniteSet(t.ents),
         \A t \in S, u \in T : t.id # u.id
  PROVE  DataSize(S \cup T) = DataSize(S) + DataSize(T)
<1> DEFINE cells(t) == {t.id} \X t.ents
           data(U)  == UNION {cells(t) : t \in U}
<1>1. /\ DataSize(S) = Cardinality(data(S))
      /\ DataSize(T) = Cardinality(data(T))
      /\ DataSize(S \cup T) = Cardinality(data(S \cup T))
  BY DEF DataSize
<1>2. ASSUME NEW U, IsFiniteSet(U), \A t \in U : IsFiniteSet(t.ents)
      PROVE  IsFiniteSet(data(U))
  <2> DEFINE sets == {cells(t) : t \in U}
  <2>1. [t \in U |-> cells(t)] \in Surjection(U, sets)
    BY DEF Surjection
  <2>2. IsFiniteSet(sets)
    <3> HIDE DEF sets, cells
    <3> QED BY <1>2, <2>1, FS_Surjection
  <2>3. \A t \in U : IsFiniteSet(cells(t))
    BY <1>2, FS_Product, FS_Singleton
  <2>4. \A Q \in sets : IsFiniteSet(Q)
    BY <2>3
  <2> HIDE DEF sets, cells
  <2>5. IsFiniteSet(UNION sets)
    BY <2>2, <2>4, FS_UNION
  <2> QED BY <2>5 DEF sets
<1>3. data(S) \cap data(T) = {}
  <2>1. \A t, x : x \in cells(t) => x[1] = t.id
    OBVIOUS
  <2> HIDE DEF cells
  <2> QED BY <2>1
<1>4. data(S \cup T) = data(S) \cup data(T)
  <2> HIDE DEF cells
  <2> QED OBVIOUS
<1>5. IsFiniteSet(data(S)) /\ IsFiniteSet(data(T))
  BY <1>2
<1> HIDE DEF data
<1>6. Cardinality(data(S)) \in Nat /\ Cardinality(data(T)) \in Nat
  BY <1>5, FS_CardinalityType
<1>7. Cardinality(data(S) \cup data(T)) = Cardinality(data(S)) + Cardinality(data(T))
  <2>1. Cardinality(data(S) \cup data(T)) =
          Cardinality(data(S)) + Cardinality(data(T)) - Cardinality(data(S) \cap data(T))
    BY <1>5, FS_Union
  <2>2. Cardinality(data(S) \cap data(T)) = 0
    BY <1>3, FS_EmptySet
  <2> QED BY <1>6, <2>1, <2>2
<1>8. QED
  <2>1. DataSize(S \cup T) = Cardinality(data(S) \cup data(T))
    BY <1>1, <1>4
  <2> QED BY <1>1, <1>7, <2>1
-----------------------------------------------------------------------------
(* Trees.                                                                  *)

\* What flushes and compactions rely on and keep, apart from the order of the
\* versions: the types, finiteness, and the numbers of the files in L0.
Shape(tr) ==
  /\ tr.levels \in [Level -> SUBSET Table]
  /\ tr.sizes \in [Level -> Int]
  /\ tr.nextID \in Nat
  /\ \A l \in Level : /\ IsFiniteSet(tr.levels[l])
                      /\ \A t \in tr.levels[l] : IsFiniteSet(t.ents)
  /\ \A t \in tr.levels[0] : t.id < tr.nextID

\* Replacing tables by well-formed outputs keeps the shape of a tree.
LEMMA CompactedShape ==
  ASSUME NEW tr, Shape(tr), NEW src \in Level, src + 1 \in Level,
         NEW from \in SUBSET tr.levels[src], NEW into \in SUBSET tr.levels[src + 1],
         NEW out \in SUBSET Table, IsFiniteSet(out),
         \A t \in out : IsFiniteSet(t.ents)
  PROVE  Shape(Compacted(tr, src, from, into, out))
<1> DEFINE new == Compacted(tr, src, from, into, out)
<1>1. /\ IsFiniteSet(from) /\ \A t \in from : IsFiniteSet(t.ents)
      /\ IsFiniteSet(into) /\ \A t \in into : IsFiniteSet(t.ents)
  BY FS_Subset DEF Shape
<1>2. DataSize(from) \in Nat /\ DataSize(into) \in Nat /\ DataSize(out) \in Nat
  BY <1>1, DataSizeNat
<1>3. Cardinality(out) \in Nat
  BY FS_CardinalityType
<1>4. new.levels \in [Level -> SUBSET Table]
  BY DEF Compacted, Shape
<1>5. new.sizes \in [Level -> Int]
  BY <1>2 DEF Compacted, Shape
<1>6. new.nextID \in Nat /\ new.nextID >= tr.nextID
  BY <1>3 DEF Compacted, Shape
<1>7. src + 1 # 0 /\ src # src + 1
  BY DEF Level
<1>8. new.levels[0] \subseteq tr.levels[0]
  <2>1. 0 \in Level
    BY ShapeAssumption DEF Level
  <2> QED BY <2>1, <1>7 DEF Compacted, Shape
<1>9. \A t \in new.levels[0] : t.id < new.nextID
  BY <1>6, <1>8, ShapeAssumption DEF Shape, Table, Level
<1>10. \A l \in Level : /\ IsFiniteSet(new.levels[l])
                        /\ \A t \in new.levels[l] : IsFiniteSet(t.ents)
  <2> TAKE l \in Level
  <2>1. CASE l = src
    <3>1. new.levels[l] = tr.levels[l] \ from
      BY <2>1, <1>7 DEF Compacted, Shape
    <3> QED BY <3>1, FS_Difference DEF Shape
  <2>2. CASE l = src + 1
    <3>1. new.levels[l] = (tr.levels[l] \ into) \cup out
      BY <2>2, <1>7 DEF Compacted, Shape
    <3>2. IsFiniteSet(tr.levels[l] \ into)
      BY <2>2, FS_Difference DEF Shape
    <3>3. IsFiniteSet((tr.levels[l] \ into) \cup out)
      BY <3>2, FS_Union
    <3>4. \A t \in new.levels[l] : IsFiniteSet(t.ents)
      BY <3>1, <2>2 DEF Shape
    <3> HIDE DEF new
    <3> QED BY <3>1, <3>3, <3>4
  <2>3. CASE l # src /\ l # src + 1
    <3>1. new.levels[l] = tr.levels[l]
      BY <2>3 DEF Compacted, Shape
    <3> QED BY <3>1 DEF Shape
  <2> QED BY <2>1, <2>2, <2>3
<1>11. QED BY <1>4, <1>5, <1>6, <1>9, <1>10 DEF Shape

\* A new file in L0 keeps the shape.
LEMMA AddShape ==
  ASSUME NEW m, m \subseteq Version, IsFiniteSet(m), NEW tr, Shape(tr)
  PROVE  Shape(AddToL0(tr, m))
<1> DEFINE file == [id |-> tr.nextID, ents |-> m]
           new  == AddToL0(tr, m)
<1>1. 0 \in Level /\ Level \subseteq Int /\ \A l \in Level : l >= 0
  BY ShapeAssumption DEF Level
<1>2. file \in Table /\ tr.nextID \in Nat
  BY DEF Table, Shape
<1>3. new.levels[0] = tr.levels[0] \cup {file}
  BY <1>1 DEF AddToL0, Shape
<1>4. \A l \in Level : l # 0 => new.levels[l] = tr.levels[l]
  BY DEF AddToL0, Shape
<1>5. new.nextID = tr.nextID + 1
  BY DEF AddToL0
<1>6. new.levels \in [Level -> SUBSET Table]
  BY <1>2 DEF AddToL0, Shape
<1>7. DataSize({file}) \in Nat
  <2>1. \A t \in {file} : IsFiniteSet(t.ents)
    OBVIOUS
  <2> HIDE DEF file
  <2>2. IsFiniteSet({file})
    BY FS_Singleton
  <2> QED BY <2>1, <2>2, DataSizeNat
<1>8. new.sizes \in [Level -> Int]
  <2>1. new.sizes = [tr.sizes EXCEPT ![0] = @ + DataSize({file})]
    BY DEF AddToL0
  <2>2. tr.sizes \in [Level -> Int]
    BY DEF Shape
  <2> HIDE DEF file, new
  <2> QED BY <1>1, <1>7, <2>1, <2>2
<1>9. \A l \in Level : /\ IsFiniteSet(new.levels[l])
                       /\ \A t \in new.levels[l] : IsFiniteSet(t.ents)
  <2>1. IsFiniteSet(new.levels[0])
    <3> HIDE DEF file, new
    <3>1. IsFiniteSet(tr.levels[0] \cup {file})
      BY <1>1, FS_AddElement DEF Shape
    <3> QED BY <3>1, <1>3
  <2>2. \A t \in new.levels[0] : IsFiniteSet(t.ents)
    BY <1>1, <1>3 DEF Shape
  <2> QED BY <2>1, <2>2, <1>4 DEF Shape
<1>10. \A t \in new.levels[0] : t.id < new.nextID
  BY <1>1, <1>2, <1>3, <1>5 DEF Shape, Table
<1> QED BY <1>6, <1>8, <1>9, <1>10, <1>2, <1>5 DEF Shape

\* The writes of a batch are finitely many versions, one for each key, all of
\* them later than the clock reading t.
LEMMA StampedVersions ==
  ASSUME NEW kvs \in Seq(Keys), NEW t \in Nat
  PROVE  /\ Stamped(kvs, t) \subseteq Version /\ IsFiniteSet(Stamped(kvs, t))
         /\ \A w \in Stamped(kvs, t) : w.ts > t /\ w.ts <= t + Len(kvs) /\ ~w.tombstone
         /\ \A v, w \in Stamped(kvs, t) : v.key = w.key => v = w
<1> DEFINE last == {i \in 1 .. Len(kvs) : \A j \in i + 1 .. Len(kvs) : kvs[j] # kvs[i]}
           write(i) == [key |-> kvs[i], ts |-> t + i, tombstone |-> FALSE]
<1>1. Stamped(kvs, t) = {write(i) : i \in last}
  BY DEF Stamped
<1>2. Len(kvs) \in Nat /\ \A i \in 1 .. Len(kvs) : kvs[i] \in Keys
  OBVIOUS
<1>3. \A i \in last : i \in 1 .. Len(kvs) /\ write(i) \in Version
  BY <1>2 DEF Version
<1>4. IsFiniteSet(last)
  <2>1. IsFiniteSet(1 .. Len(kvs))
    BY <1>2, FS_Interval
  <2> QED BY <2>1, FS_Subset
<1>5. IsFiniteSet({write(i) : i \in last})
  <2>1. [i \in last |-> write(i)] \in Surjection(last, {write(i) : i \in last})
    BY DEF Surjection
  <2> HIDE DEF last, write
  <2> QED BY <1>4, <2>1, FS_Surjection
<1>6. \A i, j \in last : kvs[i] = kvs[j] => i = j
  <2> SUFFICES ASSUME NEW i \in last, NEW j \in last, kvs[i] = kvs[j], i < j PROVE FALSE
    BY <1>2
  <2> QED BY <1>2
<1>7. \A i \in last : /\ write(i).ts > t /\ write(i).ts <= t + Len(kvs)
                     /\ ~write(i).tombstone
  BY <1>2, <1>3
<1>8. \A i, j \in last : write(i).key = write(j).key => write(i) = write(j)
  BY <1>6
<1> HIDE DEF last, write
<1>9. QED BY <1>1, <1>3, <1>5, <1>7, <1>8

-----------------------------------------------------------------------------
(* The counters of a tree.                                                 *)

\* nextID is above the numbers in use, and a number names one file.
Numbered(tr) ==
  /\ \A l \in Level : \A t \in tr.levels[l] : t.id < tr.nextID
  /\ \A l, m \in Level : \A t \in tr.levels[l], u \in tr.levels[m] :
       t.id = u.id => l = m /\ t = u

\* LevelSizes are the sizes of the levels.
Counted(tr) == \A l \in Level : tr.sizes[l] = DataSize(tr.levels[l])

Books(tr) == Shape(tr) /\ Numbered(tr) /\ Counted(tr)

\* Replacing files by outputs with the numbers from nextID on keeps the books.
LEMMA CompactedBooks ==
  ASSUME NEW tr, Books(tr), NEW src \in Level, src + 1 \in Level,
         NEW from \in SUBSET tr.levels[src], NEW into \in SUBSET tr.levels[src + 1],
         NEW out \in SUBSET Table, IsFiniteSet(out),
         \A t \in out : IsFiniteSet(t.ents),
         \A t \in out : tr.nextID <= t.id /\ t.id < tr.nextID + Cardinality(out),
         \A t, u \in out : t.id = u.id => t = u
  PROVE  Books(Compacted(tr, src, from, into, out))
<1> DEFINE new == Compacted(tr, src, from, into, out)
<1>1. src # src + 1 /\ Level \subseteq Int
  BY DEF Level
<1>2. /\ new.levels[src] = tr.levels[src] \ from
      /\ new.levels[src + 1] = (tr.levels[src + 1] \ into) \cup out
      /\ \A l \in Level \ {src, src + 1} : new.levels[l] = tr.levels[l]
  BY <1>1 DEF Compacted, Books, Shape
<1>3. /\ new.sizes[src] = tr.sizes[src] - DataSize(from)
      /\ new.sizes[src + 1] = tr.sizes[src + 1] - DataSize(into) + DataSize(out)
      /\ \A l \in Level \ {src, src + 1} : new.sizes[l] = tr.sizes[l]
  BY <1>1 DEF Compacted, Books, Shape
<1>4. new.nextID = tr.nextID + Cardinality(out) /\ Cardinality(out) \in Nat
  BY FS_CardinalityType DEF Compacted
<1>5. Shape(new)
  BY CompactedShape DEF Books
<1> HIDE DEF new
<1>6. \A l \in Level : \A t \in new.levels[l] :
        (t \in tr.levels[l] /\ t.id < tr.nextID) \/ (t \in out /\ l = src + 1)
  BY <1>2 DEF Books, Numbered
<1>7. \A t \in out : t.id \in Nat
  BY DEF Table
<1>8. tr.nextID \in Nat /\ \A l \in Level : \A t \in tr.levels[l] : t.id \in Nat
  BY DEF Books, Shape, Table
<1>9. Numbered(new)
  <2>1. \A l \in Level : \A t \in new.levels[l] : t.id < new.nextID
    BY <1>4, <1>6, <1>7, <1>8
  <2>2. ASSUME NEW l \in Level, NEW m \in Level,
               NEW t \in new.levels[l], NEW u \in new.levels[m], t.id = u.id
        PROVE  l = m /\ t = u
    <3>1. CASE t \in out /\ l = src + 1 /\ u \in out /\ m = src + 1
      BY <2>2, <3>1
    <3>2. CASE t \in tr.levels[l] /\ u \in tr.levels[m]
      BY <2>2, <3>2 DEF Books, Numbered
    <3>3. CASE t \in out /\ u.id < tr.nextID
      BY <2>2, <3>3, <1>7, <1>8
    <3>4. CASE t.id < tr.nextID /\ u \in out
      BY <2>2, <3>4, <1>7, <1>8
    <3> QED BY <1>6, <3>1, <3>2, <3>3, <3>4
  <2> QED BY <2>1, <2>2 DEF Numbered
<1>10. /\ \A l \in Level : IsFiniteSet(tr.levels[l])
       /\ \A l \in Level : \A t \in tr.levels[l] : IsFiniteSet(t.ents)
  BY DEF Books, Shape
\* Taking files away takes their data away.
<1>11. ASSUME NEW l \in Level, NEW gone \in SUBSET tr.levels[l]
       PROVE  /\ DataSize(tr.levels[l] \ gone) = tr.sizes[l] - DataSize(gone)
              /\ IsFiniteSet(tr.levels[l] \ gone)
  <2> DEFINE left == tr.levels[l] \ gone
  <2>1. IsFiniteSet(left) /\ IsFiniteSet(gone)
    BY <1>10, FS_Subset
  <2>2. /\ \A t \in left : IsFiniteSet(t.ents)
        /\ \A t \in gone : IsFiniteSet(t.ents)
    BY <1>10
  <2>3. \A t \in left, u \in gone : t.id # u.id
    BY DEF Books, Numbered
  <2>4. left \cup gone = tr.levels[l]
    OBVIOUS
  <2> HIDE DEF left
  <2>5. DataSize(tr.levels[l]) = DataSize(left) + DataSize(gone)
    BY <2>1, <2>2, <2>3, <2>4, DataSizeAdds
  <2>6. DataSize(left) \in Nat /\ DataSize(gone) \in Nat
    BY <2>1, <2>2, DataSizeNat
  <2>7. DataSize(left) = tr.sizes[l] - DataSize(gone)
    BY <2>5, <2>6 DEF Books, Counted
  <2> QED BY <2>1, <2>7 DEF left
<1>12. Counted(new)
  <2> DEFINE left == tr.levels[src + 1] \ into
  <2>1. DataSize(left) = tr.sizes[src + 1] - DataSize(into) /\ IsFiniteSet(left)
    BY <1>11
  <2>2. /\ \A t \in left : IsFiniteSet(t.ents)
        /\ \A t \in left, u \in out : t.id # u.id
    BY <1>7, <1>8, <1>10 DEF Books, Numbered
  <2> HIDE DEF left
  <2>3. DataSize(left \cup out) = DataSize(left) + DataSize(out)
    BY <2>1, <2>2, DataSizeAdds
  <2>4. new.sizes[src + 1] = DataSize(new.levels[src + 1])
    BY <1>2, <1>3, <2>1, <2>3 DEF left
  <2>5. new.sizes[src] = DataSize(new.levels[src])
    BY <1>2, <1>3, <1>11
  <2>6. \A l \in Level \ {src, src + 1} : new.sizes[l] = DataSize(new.levels[l])
    BY <1>2, <1>3 DEF Books, Counted
  <2> QED BY <2>4, <2>5, <2>6 DEF Counted
<1>13. QED BY <1>5, <1>9, <1>12 DEF Books, new

\* A compaction with the outputs of DoCompact keeps the books.
LEMMA CompactionBooks ==
  ASSUME NEW tr, Books(tr), NEW src \in Level, src + 1 \in Level,
         NEW from \in SUBSET tr.levels[src], NEW into \in SUBSET tr.levels[src + 1],
         NEW lv
  PROVE  Books(Compacted(tr, src, from, into,
                         DoCompact(from \cup into, lv, tr.nextID)))
<1> DEFINE in  == from \cup into
           out == DoCompact(in, lv, tr.nextID)
<1>1. EntriesOf(in) \subseteq Version /\ tr.nextID \in Nat
  BY DEF EntriesOf, Books, Shape, Table
<1>2. IsFiniteSet(EntriesOf(in))
  <2>1. IsFiniteSet(from) /\ IsFiniteSet(into)
    BY FS_Subset DEF Books, Shape
  <2>2. IsFiniteSet(in)
    BY <2>1, FS_Union
  <2>3. \A t \in in : IsFiniteSet(t.ents)
    BY DEF Books, Shape
  <2> HIDE DEF in
  <2> QED BY <2>2, <2>3, FiniteEntries
<1> HIDE DEF in
<1>3. /\ out \subseteq Table /\ IsFiniteSet(out)
      /\ \A t \in out : IsFiniteSet(t.ents)
  BY <1>1, <1>2, DoCompactTables
<1>4. /\ \A t \in out : tr.nextID <= t.id /\ t.id < tr.nextID + Cardinality(out)
      /\ \A t, u \in out : t.id = u.id => t = u
  BY <1>1, <1>2, DoCompactNumbers
<1> HIDE DEF out
<1>5. Books(Compacted(tr, src, from, into, out))
  BY <1>3, <1>4, CompactedBooks
<1>6. QED BY <1>5 DEF in, out

\* compactL0ToL1 keeps the books and shrinks L0, unless it is empty.
LEMMA L0Books ==
  ASSUME NEW tr, Books(tr)
  PROVE  LET new == CompactL0ToL1(tr)
         IN  /\ Books(new)
             /\ Cardinality(new.levels[0]) <= Cardinality(tr.levels[0])
             /\ tr.levels[0] # {} =>
                  Cardinality(new.levels[0]) < Cardinality(tr.levels[0])
<1> DEFINE victims == OldestOf(tr.levels[0])
           overlap == Overlapping(tr.levels[1], victims)
           new     == CompactL0ToL1(tr)
<1>1. 0 \in Level /\ 1 \in Level /\ 0 + 1 = 1
  BY ShapeAssumption DEF Level
<1>2. /\ tr.levels[0] \subseteq Table /\ IsFiniteSet(tr.levels[0])
      /\ Cardinality(tr.levels[0]) \in Nat
  BY <1>1, FS_CardinalityType DEF Books, Shape
<1>3. CASE tr.levels[0] = {}
  BY <1>2, <1>3 DEF CompactL0ToL1
<1>4. CASE tr.levels[0] # {}
  <2> DEFINE out == DoCompact(victims \cup overlap, 1, tr.nextID)
  <2>1. victims \in SUBSET tr.levels[0] /\ overlap \in SUBSET tr.levels[0 + 1]
    BY <1>1 DEF OldestOf, Overlapping
  <2>2. victims # {}
    BY <1>2, <1>4, OldestTaken
  <2>3. new = Compacted(tr, 0, victims, overlap, out)
    BY <1>4 DEF CompactL0ToL1
  <2> HIDE DEF victims, overlap, new
  <2>4. Books(Compacted(tr, 0, victims, overlap, out))
    BY <1>1, <2>1, CompactionBooks
  <2> HIDE DEF out
  <2>5. new.levels[0] = tr.levels[0] \ victims
    BY <1>1, <2>3 DEF Compacted, Books, Shape
  <2>6. new.levels[0] \in SUBSET tr.levels[0] /\ new.levels[0] # tr.levels[0]
    BY <2>1, <2>2, <2>5
  <2>7. /\ Cardinality(new.levels[0]) <= Cardinality(tr.levels[0])
        /\ Cardinality(new.levels[0]) # Cardinality(tr.levels[0])
    BY <1>2, <2>6, FS_Subset
  <2>8. Cardinality(new.levels[0]) \in Nat
    BY <1>2, <2>6, FS_Subset, FS_CardinalityType
  <2> QED BY <1>2, <2>3, <2>4, <2>7, <2>8 DEF new
<1>5. QED BY <1>3, <1>4

\* compactLevel keeps the books and leaves L0 alone.
LEMMA LevelBooks ==
  ASSUME NEW tr, Books(tr), NEW l \in Level
  PROVE  /\ Books(CompactLevel(tr, l))
         /\ CompactLevel(tr, l).levels[0] = tr.levels[0]
<1>1. CASE l < 1 \/ l >= NumLevels - 1 \/ tr.levels[l] = {}
  BY <1>1 DEF CompactLevel
<1>2. CASE ~(l < 1 \/ l >= NumLevels - 1 \/ tr.levels[l] = {})
  <2> DEFINE out == DoCompact(tr.levels[l] \cup tr.levels[l + 1], l + 1, tr.nextID)
             new == Compacted(tr, l, tr.levels[l], tr.levels[l + 1], out)
  <2>1. l + 1 \in Level /\ 0 \in Level /\ l # 0 /\ l + 1 # 0
    BY <1>2, ShapeAssumption DEF Level
  <2>2. Books(new)
    BY <2>1, CompactionBooks
  <2> HIDE DEF out
  <2>3. new.levels[0] = tr.levels[0]
    BY <2>1 DEF Compacted, Books, Shape
  <2>4. CompactLevel(tr, l) = new
    BY <1>2 DEF CompactLevel, out
  <2> HIDE DEF new
  <2> QED BY <2>2, <2>3, <2>4
<1>3. QED BY <1>1, <1>2

\* The first part of flushMemtable: one more file, with the next number.
LEMMA AddBooks ==
  ASSUME NEW m, m \subseteq Version, IsFiniteSet(m),
         NEW tr, Books(tr)
  PROVE  /\ Books(AddToL0(tr, m))
         /\ Cardinality(AddToL0(tr, m).levels[0]) <= Cardinality(tr.levels[0]) + 1
<1> DEFINE file == [id |-> tr.nextID, ents |-> m]
           new  == AddToL0(tr, m)
<1>1. 0 \in Level
  BY ShapeAssumption DEF Level
<1>2. /\ new.levels[0] = tr.levels[0] \cup {file}
      /\ \A l \in Level \ {0} : new.levels[l] = tr.levels[l]
  BY <1>1 DEF AddToL0, Books, Shape
<1>3. /\ new.sizes[0] = tr.sizes[0] + DataSize({file})
      /\ \A l \in Level \ {0} : new.sizes[l] = tr.sizes[l]
  BY <1>1 DEF AddToL0, Books, Shape
<1>4. /\ new.nextID = tr.nextID + 1 /\ tr.nextID \in Nat
      /\ file.id = tr.nextID /\ file.ents = m
  BY DEF AddToL0, Books, Shape
<1> HIDE DEF new, file
<1>5. /\ \A l \in Level : \A t \in tr.levels[l] : t.id \in Nat /\ t.id < tr.nextID
      /\ \A l \in Level : \A t \in tr.levels[l] : IsFiniteSet(t.ents)
      /\ IsFiniteSet(tr.levels[0])
  BY <1>1 DEF Books, Shape, Table, Numbered
<1>6. \A l \in Level : \A t \in new.levels[l] :
        t \in tr.levels[l] \/ (t = file /\ l = 0)
  BY <1>2
<1>7. Numbered(new)
  <2>1. \A l \in Level : \A t \in new.levels[l] : t.id < new.nextID
    BY <1>4, <1>5, <1>6
  <2>2. ASSUME NEW l \in Level, NEW k \in Level,
               NEW t \in new.levels[l], NEW u \in new.levels[k], t.id = u.id
        PROVE  l = k /\ t = u
    <3>1. CASE t \in tr.levels[l] /\ u \in tr.levels[k]
      BY <2>2, <3>1 DEF Books, Numbered
    <3>2. CASE t \in tr.levels[l] /\ u = file
      BY <2>2, <3>2, <1>4, <1>5
    <3>3. CASE t = file /\ u \in tr.levels[k]
      BY <2>2, <3>3, <1>4, <1>5
    <3> QED BY <1>6, <3>1, <3>2, <3>3
  <2> QED BY <2>1, <2>2 DEF Numbered
<1>8. Counted(new)
  <2>1. IsFiniteSet({file}) /\ \A t \in {file} : IsFiniteSet(t.ents)
    BY <1>4, FS_Singleton
  <2>2. \A t \in tr.levels[0], u \in {file} : t.id # u.id
    BY <1>1, <1>4, <1>5
  <2>3. DataSize(tr.levels[0] \cup {file}) = DataSize(tr.levels[0]) + DataSize({file})
    BY <1>1, <1>5, <2>1, <2>2, DataSizeAdds
  <2> QED BY <1>1, <1>2, <1>3, <2>3 DEF Books, Counted
<1>9. Cardinality(new.levels[0]) <= Cardinality(tr.levels[0]) + 1
  <2>1. Cardinality(tr.levels[0]) \in Nat
    BY <1>5, FS_CardinalityType
  <2>2. Cardinality(tr.levels[0] \cup {file}) =
          IF file \in tr.levels[0] THEN Cardinality(tr.levels[0])
          ELSE Cardinality(tr.levels[0]) + 1
    BY <1>5, FS_AddElement
  <2>3. Cardinality(new.levels[0]) = Cardinality(tr.levels[0] \cup {file})
    BY <1>2
  <2> QED BY <2>1, <2>2, <2>3
<1>10. QED BY <1>7, <1>8, <1>9, AddShape DEF Books, new

\* flushMemtable: the file that would be one too many makes the writer compact.
LEMMA FlushBooks ==
  ASSUME NEW m, m \subseteq Version, IsFiniteSet(m),
         NEW tr, Books(tr),
         Cardinality(tr.levels[0]) <= 2 * MaxL0Files
  PROVE  /\ Books(FlushMemtable(tr, m))
         /\ Cardinality(FlushMemtable(tr, m).levels[0]) <= 2 * MaxL0Files
<1> DEFINE new  == AddToL0(tr, m)
           card == Cardinality(new.levels[0])
           less == Cardinality(CompactL0ToL1(new).levels[0])
<1>1. Books(new) /\ card <= Cardinality(tr.levels[0]) + 1
  BY AddBooks
<1>2. 0 \in Level /\ 2 * MaxL0Files \in Nat
  BY ShapeAssumption DEF Level
<1>3. /\ Cardinality(tr.levels[0]) \in Nat
      /\ IsFiniteSet(new.levels[0]) /\ card \in Nat
  BY <1>1, <1>2, FS_CardinalityType DEF Books, Shape
<1>4. /\ Books(CompactL0ToL1(new)) /\ less <= card
      /\ new.levels[0] # {} => less < card
  BY <1>1, L0Books
<1>5. less \in Nat
  BY <1>2, <1>4, FS_CardinalityType DEF Books, Shape
<1>6. FlushMemtable(tr, m) =
        IF card > 2 * MaxL0Files THEN CompactL0ToL1(new) ELSE new
  BY DEF FlushMemtable, WriterCompaction
<1>7. CASE card > 2 * MaxL0Files
  <2>1. new.levels[0] # {}
    <3> HIDE DEF new
    <3> QED BY <1>2, <1>7, FS_EmptySet
  <2> HIDE DEF new
  <2> QED BY <1>1, <1>2, <1>3, <1>4, <1>5, <1>6, <1>7, <2>1
<1>8. CASE ~(card > 2 * MaxL0Files)
  <2> HIDE DEF new
  <2> QED BY <1>1, <1>2, <1>3, <1>6, <1>8
<1>9. QED BY <1>7, <1>8
-----------------------------------------------------------------------------
(* The map a set of versions stands for.                                   *)

\* Every key has a newest version (a set of versions that grows for ever could
\* lack one), and no two versions tie.
HasNewest(vs) == \A v \in vs : \E w \in Newest(vs) : w.key = v.key
OneVersion(vs) == \A v, w \in vs : v.key = w.key /\ v.ts = w.ts => v = w
Settled(vs) == HasNewest(vs) /\ OneVersion(vs)

\* A finite set of numbers has a greatest one.
LEMMA GreatestNumber ==
  ASSUME NEW S, S \subseteq Nat, IsFiniteSet(S), S # {}
  PROVE  \E n \in S : \A m \in S : m <= n
<1> DEFINE above(n) == {m \in S : m > n}
           sets     == {above(n) : n \in S}
<1>1. sets \subseteq FiniteSubsetsOf(S) /\ sets # {}
  <2>1. \A n \in S : above(n) \in SUBSET S /\ IsFiniteSet(above(n))
    <3> TAKE n \in S
    <3>1. above(n) \in SUBSET S
      OBVIOUS
    <3> HIDE DEF above
    <3> QED BY <3>1, FS_Subset
  <2> HIDE DEF above
  <2> QED BY <2>1 DEF FiniteSubsetsOf
<1>2. PICK B \in sets : \A A \in sets : ~(<<A, B>> \in StrictSubsetOrdering(S))
  <2> HIDE DEF sets
  <2> QED BY <1>1, FS_StrictSubsetOrderingWellFounded, WFMin
<1>3. PICK n \in S : B = above(n)
  OBVIOUS
<1> HIDE DEF sets
<1>4. ASSUME NEW m \in S, m > n PROVE FALSE
  <2>1. above(m) \subseteq above(n) /\ m \in above(n) /\ m \notin above(m)
    <3>1. \A u \in S : u > m => u > n
      BY <1>4
    <3>2. ~(m > m)
      OBVIOUS
    <3> QED BY <1>4, <3>1, <3>2
  <2>2. <<above(m), above(n)>> \in StrictSubsetOrdering(S)
    BY <2>1 DEF StrictSubsetOrdering
  <2>3. above(m) \in sets
    BY DEF sets
  <2> HIDE DEF above
  <2> QED BY <1>2, <1>3, <2>2, <2>3
<1> HIDE DEF above
<1> QED BY <1>4

\* Finitely many versions have a newest one for each key among them.
LEMMA FiniteHasNewest ==
  ASSUME NEW vs, vs \subseteq Version, IsFiniteSet(vs)
  PROVE  HasNewest(vs)
<1> SUFFICES ASSUME NEW v \in vs PROVE \E w \in Newest(vs) : w.key = v.key
  BY DEF HasNewest
<1> DEFINE same == {w \in vs : w.key = v.key}
           S    == {w.ts : w \in same}
<1>1. IsFiniteSet(S)
  <2>1. IsFiniteSet(same)
    BY FS_Subset
  <2>2. [w \in same |-> w.ts] \in Surjection(same, S)
    BY DEF Surjection
  <2> HIDE DEF same, S
  <2> QED BY <2>1, <2>2, FS_Surjection
<1>2. S \subseteq Nat /\ S # {}
  BY DEF Version
<1>3. PICK n \in S : \A m \in S : m <= n
  <2> HIDE DEF S
  <2> QED BY <1>1, <1>2, GreatestNumber
<1>4. PICK w \in same : w.ts = n
  OBVIOUS
<1>5. w \in Newest(vs)
  BY <1>3, <1>4 DEF Newest
<1> QED BY <1>5

\* The newest versions of a set are as good as the set.
LEMMA NewestSuffices ==
  ASSUME NEW vs, vs \subseteq Version, HasNewest(vs), NEW rest, rest \subseteq Version
  PROVE  LiveOf(Newest(vs) \cup rest) = LiveOf(vs \cup rest)
<1>1. \A v \in vs \cup rest : v.ts \in Nat
  BY DEF Version
<1>2. \A v \in Newest(vs \cup rest) : v \in Newest(Newest(vs) \cup rest)
  BY DEF Newest
<1>3. ASSUME NEW v \in Newest(Newest(vs) \cup rest) PROVE v \in Newest(vs \cup rest)
  <2>1. v \in vs \cup rest
    BY DEF Newest
  <2>2. ASSUME NEW w \in vs \cup rest, w.key = v.key PROVE w.ts <= v.ts
    <3>1. CASE w \in rest
      BY <2>2, <3>1 DEF Newest
    <3>2. CASE w \in vs
      <4>1. PICK u \in Newest(vs) : u.key = w.key
        BY <3>2 DEF HasNewest
      <4>2. w.ts <= u.ts /\ u \in vs
        BY <3>2, <4>1 DEF Newest
      <4>3. u.ts <= v.ts
        BY <2>2, <4>1 DEF Newest
      <4> QED BY <1>1, <2>1, <2>2, <4>2, <4>3
    <3> QED BY <3>1, <3>2
  <2> QED BY <2>1, <2>2 DEF Newest
<1>4. Newest(Newest(vs) \cup rest) = Newest(vs \cup rest)
  BY <1>2, <1>3
<1> QED BY <1>4 DEF LiveOf

\* Replacing the versions in by those of its newest that are in out leaves the
\* map alone, if what is dropped from the newest are tombstones with nothing
\* older left to hide.
LEMMA MergeKeepsMap ==
  ASSUME NEW rest, NEW in, NEW out, rest \cup in \subseteq Version,
         Settled(rest \cup in),
         out \subseteq Newest(in),
         \A v \in Newest(in) \ out :
           v.tombstone /\ \A u \in rest : u.key = v.key => u.ts > v.ts
  PROVE  /\ Settled(rest \cup out)
         /\ LiveOf(rest \cup out) = LiveOf(rest \cup in)
<1> DEFINE A == rest \cup in
           B == rest \cup out
<1>1. B \subseteq A /\ A \subseteq Version
  BY DEF Newest
<1>2. \A v \in A : v.ts \in Nat /\ v.tombstone \in BOOLEAN
  BY DEF Version
<1>3. OneVersion(B)
  BY <1>1 DEF OneVersion, Settled
\* A newest version of A survives, or is a tombstone and the last of its key.
<1>4. ASSUME NEW w \in Newest(A), w \notin B
      PROVE  w.tombstone /\ \A v \in B : v.key # w.key
  <2>1. w \in Newest(in) \ out
    BY <1>4 DEF Newest
  <2>2. \A v \in B : v.key = w.key => FALSE
    <3> SUFFICES ASSUME NEW v \in B, v.key = w.key PROVE FALSE
      OBVIOUS
    <3>1. v.ts <= w.ts
      BY <1>1 DEF Newest
    <3>2. CASE v \in rest
      BY <2>1, <3>1, <3>2, <1>1, <1>2 DEF Newest
    <3>3. CASE v \in out
      <4>1. v \in Newest(in)
        BY <3>3
      <4>2. w.ts <= v.ts
        BY <4>1, <2>1 DEF Newest
      <4>3. v = w
        BY <4>2, <3>1, <1>1, <1>2, <1>4 DEF Settled, OneVersion, Newest
      <4> QED BY <4>3, <1>4
    <3> QED BY <3>2, <3>3
  <2> QED BY <2>1, <2>2
\* The newest versions of B are those of A that survive.
<1>5. \A w \in Newest(A) : w \in B => w \in Newest(B)
  BY <1>1 DEF Newest
<1>6. ASSUME NEW v \in Newest(B) PROVE v \in Newest(A)
  <2>1. v \in B /\ v \in A
    BY <1>1 DEF Newest
  <2>2. PICK w \in Newest(A) : w.key = v.key
    BY <2>1 DEF Settled, HasNewest
  <2>3. w \in B
    BY <1>4, <2>1, <2>2
  <2>4. w.ts <= v.ts /\ v.ts <= w.ts
    BY <2>1, <2>2, <2>3, <1>6 DEF Newest
  <2>5. v = w
    BY <2>1, <2>2, <2>4, <1>2 DEF Settled, OneVersion, Newest
  <2> QED BY <2>2, <2>5
<1>7. HasNewest(B)
  <2> SUFFICES ASSUME NEW v \in B PROVE \E w \in Newest(B) : w.key = v.key
    BY DEF HasNewest
  <2>1. PICK w \in Newest(A) : w.key = v.key
    BY <1>1 DEF Settled, HasNewest
  <2>2. w \in B
    BY <1>4, <2>1
  <2> QED BY <1>5, <2>1, <2>2
<1>8. \A v : v \in Newest(B) /\ ~v.tombstone <=> v \in Newest(A) /\ ~v.tombstone
  BY <1>4, <1>5, <1>6
<1>9. {w \in Newest(B) : ~w.tombstone} = {w \in Newest(A) : ~w.tombstone}
  BY <1>8
<1>10. QED BY <1>3, <1>7, <1>9 DEF Settled, LiveOf

\* Writing versions newer than all others adds them to the map, or takes their
\* keys out of it if they are tombstones.
LEMMA WriteChangesMap ==
  ASSUME NEW vs, vs \subseteq Version, Settled(vs), NEW t \in Nat,
         \A v \in vs : v.ts <= t,
         NEW ws, ws \subseteq Version, \A w \in ws : w.ts > t,
         \A v, w \in ws : v.key = w.key => v = w,
         NEW kept, kept \subseteq vs,
         \A v \in vs \ kept : \E w \in ws : w.key = v.key
  PROVE  /\ Settled(kept \cup ws)
         /\ LiveOf(kept \cup ws) = Applied(LiveOf(vs), ws)
<1> DEFINE B == kept \cup ws
<1>1. \A v \in vs \cup ws : v.ts \in Nat
  BY DEF Version
<1>2. \A v \in vs, w \in ws : v.ts < w.ts
  BY <1>1
<1>3. OneVersion(B)
  <2> SUFFICES ASSUME NEW v \in B, NEW w \in B, v.key = w.key, v.ts = w.ts PROVE v = w
    BY DEF OneVersion
  <2>1. CASE v \in ws /\ w \in ws
    BY <2>1
  <2>2. CASE v \in kept /\ w \in kept
    BY <2>2 DEF Settled, OneVersion
  <2>3. CASE v \in kept /\ w \in ws
    BY <2>3, <1>1, <1>2
  <2>4. CASE v \in ws /\ w \in kept
    BY <2>4, <1>1, <1>2
  <2> QED BY <2>1, <2>2, <2>3, <2>4
<1>4. \A w \in ws : w \in Newest(B)
  BY <1>1, <1>2 DEF Newest
<1>5. \A v \in Newest(B) : v \in ws \/ (v \in Newest(vs) /\ \A w \in ws : w.key # v.key)
  <2> SUFFICES ASSUME NEW v \in Newest(B), v \notin ws
               PROVE  v \in Newest(vs) /\ \A w \in ws : w.key # v.key
    OBVIOUS
  <2>1. v \in kept
    BY DEF Newest
  <2>2. \A w \in ws : w.key # v.key
    BY <2>1, <1>1, <1>2 DEF Newest
  <2>3. \A u \in vs : u.key = v.key => u \in kept
    BY <2>2
  <2> QED BY <2>1, <2>2, <2>3 DEF Newest
<1>6. \A v \in Newest(vs) : (\A w \in ws : w.key # v.key) => v \in Newest(B)
  BY DEF Newest
<1>7. HasNewest(B)
  <2> SUFFICES ASSUME NEW v \in B PROVE \E w \in Newest(B) : w.key = v.key
    BY DEF HasNewest
  <2>1. CASE \E w \in ws : w.key = v.key
    BY <2>1, <1>4
  <2>2. CASE \A w \in ws : w.key # v.key
    <3>1. v \in vs
      BY <2>2
    <3>2. PICK w \in Newest(vs) : w.key = v.key
      BY <3>1 DEF Settled, HasNewest
    <3> QED BY <2>2, <3>2, <1>6
  <2> QED BY <2>1, <2>2
<1>8. \A v : v \in Newest(B) <=> v \in ws \/ (v \in Newest(vs) /\ \A w \in ws : w.key # v.key)
  BY <1>4, <1>5, <1>6
<1> HIDE DEF B
<1>9. LiveOf(B) = {p \in LiveOf(vs) : \A w \in ws : w.key # p.key}
                \cup {[key |-> w.key, ts |-> w.ts] : w \in {w \in ws : ~w.tombstone}}
  <2> DEFINE pair(v) == [key |-> v.key, ts |-> v.ts]
  <2>1. ASSUME NEW p \in LiveOf(B)
        PROVE  \/ p \in LiveOf(vs) /\ \A w \in ws : w.key # p.key
               \/ \E w \in ws : ~w.tombstone /\ p = pair(w)
    <3>1. PICK v \in Newest(B) : ~v.tombstone /\ p = pair(v)
      BY DEF LiveOf
    <3>2. p.key = v.key
      BY <3>1
    <3> QED BY <3>1, <3>2, <1>8 DEF LiveOf
  <2>2. ASSUME NEW p \in LiveOf(vs), \A w \in ws : w.key # p.key
        PROVE  p \in LiveOf(B)
    <3>1. PICK v \in Newest(vs) : ~v.tombstone /\ p = pair(v)
      BY DEF LiveOf
    <3>2. p.key = v.key
      BY <3>1
    <3> QED BY <2>2, <3>1, <3>2, <1>8 DEF LiveOf
  <2>3. ASSUME NEW w \in ws, ~w.tombstone PROVE pair(w) \in LiveOf(B)
    BY <2>3, <1>8 DEF LiveOf
  <2> QED BY <2>1, <2>2, <2>3
<1>10. QED BY <1>3, <1>7, <1>9 DEF Settled, B, Applied
-----------------------------------------------------------------------------
(* The order of the versions in a tree.                                    *)

\* Moving data one level down keeps the versions in order, if what stays
\* behind in the upper level is newer than what moves.
LEMMA CompactedOrdered ==
  ASSUME NEW m, m \subseteq Version, NEW tr, Shape(tr), Ordered(m, tr),
         NEW src \in Level, src + 1 \in Level,
         NEW from \in SUBSET tr.levels[src], NEW into \in SUBSET tr.levels[src + 1],
         Newer(EntriesOf(tr.levels[src] \ from), EntriesOf(from)),
         NEW out, EntriesOf(out) \subseteq EntriesOf(from \cup into)
  PROVE  Ordered(m, Compacted(tr, src, from, into, out))
<1> DEFINE new  == Compacted(tr, src, from, into, out)
           E(l) == EntriesOf(tr.levels[l])
           F(l) == EntriesOf(new.levels[l])
<1>1. src + 1 # 0 /\ src # src + 1 /\ 0 \in Level /\ Level \subseteq Int
  BY ShapeAssumption DEF Level
<1>2. F(src) = EntriesOf(tr.levels[src] \ from) /\ F(src) \subseteq E(src)
  BY <1>1 DEF Compacted, Shape, EntriesOf
<1>3. EntriesOf(from) \subseteq E(src)
  BY DEF EntriesOf
<1>4. F(src + 1) \subseteq E(src + 1) \cup EntriesOf(from)
  <2>1. new.levels[src + 1] = (tr.levels[src + 1] \ into) \cup out
    BY <1>1 DEF Compacted, Shape
  <2> QED BY <2>1 DEF EntriesOf
<1>5. \A l \in Level : l # src /\ l # src + 1 => F(l) = E(l)
  BY DEF Compacted, Shape
<1>6. new.levels[0] \subseteq tr.levels[0]
  BY <1>1 DEF Compacted, Shape
<1> HIDE DEF new, E, F
<1>7. MemtableNewest(m, new)
  <2>1. \A l \in Level : Newer(m, E(l))
    BY DEF Ordered, MemtableNewest, E
  <2>2. \A l \in Level : Newer(m, F(l))
    BY <2>1, <1>2, <1>3, <1>4, <1>5 DEF Newer
  <2> QED BY <2>2 DEF MemtableNewest, F
<1>8. L0ByAge(new)
  BY <1>6 DEF Ordered, L0ByAge
<1>9. \A i, j \in Level : i < j => Newer(F(i), F(j))
  <2>1. \A i, j \in Level : i < j => Newer(E(i), E(j))
    BY DEF Ordered, LevelsByAge, E
  <2>2. Newer(F(src), EntriesOf(from))
    BY <1>2
  <2> SUFFICES ASSUME NEW i \in Level, NEW j \in Level, i < j PROVE Newer(F(i), F(j))
    OBVIOUS
  <2>3. CASE i = src + 1
    <3>1. F(j) = E(j) /\ Newer(E(i), E(j)) /\ Newer(E(src), E(j))
      BY <2>1, <2>3, <1>1, <1>5
    <3> QED BY <3>1, <2>3, <1>3, <1>4 DEF Newer
  <2>4. CASE i = src
    <3>1. CASE j = src + 1
      BY <3>1, <2>1, <2>2, <2>4, <1>2, <1>4 DEF Newer
    <3>2. CASE j # src + 1
      <4>1. F(j) = E(j) /\ Newer(E(i), E(j))
        BY <3>2, <2>1, <2>4, <1>1, <1>5
      <4> QED BY <4>1, <2>4, <1>2 DEF Newer
    <3> QED BY <3>1, <3>2
  <2>5. CASE i # src /\ i # src + 1
    <3>1. F(i) = E(i)
      BY <2>5, <1>5
    <3>2. CASE j = src + 1
      <4>1. i < src
        BY <3>2, <2>5, <1>1
      <4>2. Newer(E(i), E(src)) /\ Newer(E(i), E(src + 1))
        BY <4>1, <3>2, <2>1
      <4> QED BY <4>2, <3>1, <3>2, <1>3, <1>4 DEF Newer
    <3>3. CASE j # src + 1
      <4>1. F(j) \subseteq E(j) /\ Newer(E(i), E(j))
        BY <3>3, <2>1, <1>2, <1>5
      <4> QED BY <4>1, <3>1 DEF Newer
    <3> QED BY <3>2, <3>3
  <2> QED BY <2>3, <2>4, <2>5
<1>10. QED BY <1>7, <1>8, <1>9 DEF Ordered, LevelsByAge, F, new
-----------------------------------------------------------------------------
(* Flushes and compactions.                                                *)

\* The configurations in which compactions keep the map: the empty key is not
\* used, and no level lies below the one DoCompact takes for the bottom.
Config == EmptyKey \notin Keys /\ 2 <= BottomLevel /\ NumLevels <= BottomLevel + 1

\* Going from the memtable m and the tree tr to n and new keeps shape and
\* order, invents no version, and does not change the map.
Keeps(m, tr, n, new) ==
  /\ Shape(new)
  /\ Ordered(n, new)
  /\ HeldBy(n, new) \subseteq HeldBy(m, tr)
  /\ Config /\ Settled(HeldBy(m, tr)) =>
       /\ Settled(HeldBy(n, new))
       /\ LiveOf(HeldBy(n, new)) = LiveOf(HeldBy(m, tr))

\* What the versions of a well-formed tree and its memtable are.
LEMMA HeldVersions ==
  ASSUME NEW m, m \subseteq Version, NEW tr, Shape(tr)
  PROVE  HeldBy(m, tr) \subseteq Version
BY DEF HeldBy, EntriesOf, Shape, Table

\* What an engine holds besides the inputs of a compaction.
Others(m, tr, src, from, into) ==
  m \cup EntriesOf(tr.levels[src] \ from) \cup EntriesOf(tr.levels[src + 1] \ into)
    \cup UNION {EntriesOf(tr.levels[l]) : l \in Level \ {src, src + 1}}

\* A compaction puts its outputs in the place of its inputs.
LEMMA CompactionReplaces ==
  ASSUME NEW m, NEW tr, Shape(tr), NEW src \in Level, src + 1 \in Level,
         NEW from \in SUBSET tr.levels[src], NEW into \in SUBSET tr.levels[src + 1],
         NEW out
  PROVE  LET rest == Others(m, tr, src, from, into)
         IN  /\ HeldBy(m, tr) = rest \cup EntriesOf(from \cup into)
             /\ HeldBy(m, Compacted(tr, src, from, into, out)) = rest \cup EntriesOf(out)
<1> DEFINE new  == Compacted(tr, src, from, into, out)
           in   == EntriesOf(from \cup into)
           rest == Others(m, tr, src, from, into)
<1>1. src # src + 1 /\ Level \subseteq Int
  BY DEF Level
<1>2. HeldBy(m, tr) = rest \cup in
  <2>1. EntriesOf(tr.levels[src]) = EntriesOf(tr.levels[src] \ from) \cup EntriesOf(from)
    BY DEF EntriesOf
  <2>2. EntriesOf(tr.levels[src + 1]) =
          EntriesOf(tr.levels[src + 1] \ into) \cup EntriesOf(into)
    BY DEF EntriesOf
  <2>3. in = EntriesOf(from) \cup EntriesOf(into)
    BY DEF EntriesOf
  <2>4. HeldBy(m, tr) =
          m \cup EntriesOf(tr.levels[src]) \cup EntriesOf(tr.levels[src + 1])
            \cup UNION {EntriesOf(tr.levels[l]) : l \in Level \ {src, src + 1}}
    <3> DEFINE E(l) == EntriesOf(tr.levels[l])
    <3> HIDE DEF E
    <3>1. UNION {E(l) : l \in Level} =
            E(src) \cup E(src + 1) \cup UNION {E(l) : l \in Level \ {src, src + 1}}
      OBVIOUS
    <3> QED BY <3>1 DEF HeldBy, E
  <2> HIDE DEF in
  <2> QED BY <2>1, <2>2, <2>3, <2>4 DEF Others
<1>3. HeldBy(m, new) = rest \cup EntriesOf(out)
  <2> DEFINE F(l) == EntriesOf(new.levels[l])
  <2>1. F(src) = EntriesOf(tr.levels[src] \ from)
    BY <1>1 DEF Compacted, Shape
  <2>2. F(src + 1) = EntriesOf(tr.levels[src + 1] \ into) \cup EntriesOf(out)
    <3>1. new.levels[src + 1] = (tr.levels[src + 1] \ into) \cup out
      BY <1>1 DEF Compacted, Shape
    <3> QED BY <3>1 DEF EntriesOf
  <2>3. \A l \in Level \ {src, src + 1} : F(l) = EntriesOf(tr.levels[l])
    BY DEF Compacted, Shape
  <2>4. HeldBy(m, new) = m \cup UNION {F(l) : l \in Level}
    BY DEF HeldBy
  <2> HIDE DEF F
  <2>5. UNION {F(l) : l \in Level} =
          F(src) \cup F(src + 1) \cup UNION {F(l) : l \in Level \ {src, src + 1}}
    OBVIOUS
  <2>6. UNION {F(l) : l \in Level \ {src, src + 1}} =
          UNION {EntriesOf(tr.levels[l]) : l \in Level \ {src, src + 1}}
    BY <2>3
  <2> QED BY <2>1, <2>2, <2>4, <2>5, <2>6 DEF Others
<1> QED BY <1>2, <1>3

\* A compaction of tables from of level src and tables into of the next level:
\* what stays in src is newer than from, and either the tombstones are kept or
\* both levels are merged whole.
LEMMA CompactionKeeps ==
  ASSUME NEW m, m \subseteq Version, NEW tr, Shape(tr), Ordered(m, tr),
         NEW src \in Level, src + 1 \in Level,
         NEW from \in SUBSET tr.levels[src], NEW into \in SUBSET tr.levels[src + 1],
         Newer(EntriesOf(tr.levels[src] \ from), EntriesOf(from)),
         src = 0 \/ (from = tr.levels[src] /\ into = tr.levels[src + 1])
  PROVE  Keeps(m, tr, m,
               Compacted(tr, src, from, into,
                         DoCompact(from \cup into, src + 1, tr.nextID)))
<1> DEFINE out  == DoCompact(from \cup into, src + 1, tr.nextID)
           new  == Compacted(tr, src, from, into, out)
           in   == EntriesOf(from \cup into)
           rest == Others(m, tr, src, from, into)
<1>1. src # src + 1 /\ Level \subseteq Int
  BY DEF Level
<1>2. in \subseteq Version
  BY DEF EntriesOf, Shape, Table
<1>3. IsFiniteSet(in)
  <2>1. IsFiniteSet(from) /\ IsFiniteSet(into)
    BY FS_Subset DEF Shape
  <2>2. IsFiniteSet(from \cup into)
    BY <2>1, FS_Union
  <2>3. \A t \in from \cup into : IsFiniteSet(t.ents)
    BY DEF Shape
  <2> QED BY <2>2, <2>3, FiniteEntries
<1>4. /\ out \subseteq Table /\ IsFiniteSet(out)
      /\ \A t \in out : IsFiniteSet(t.ents)
      /\ EntriesOf(out) = Merge(from \cup into, src + 1)
  <2>1. tr.nextID \in Nat
    BY DEF Shape
  <2> QED BY <2>1, <1>2, <1>3, DoCompactTables
<1>5. Merge(from \cup into, src + 1) \subseteq Newest(in) /\ Newest(in) \subseteq in
  BY MergeSubset
<1> HIDE DEF out
<1>6. Shape(new)
  BY <1>4, CompactedShape
<1>7. Ordered(m, new)
  BY <1>4, <1>5, CompactedOrdered
<1>8. HeldBy(m, tr) = rest \cup in /\ HeldBy(m, new) = rest \cup EntriesOf(out)
  BY ONLY CompactionReplaces, Shape(tr), src \in Level, src + 1 \in Level,
          from \in SUBSET tr.levels[src], into \in SUBSET tr.levels[src + 1]
\* Only tombstones at the bottom are dropped, and then what is left is newer.
<1>9. ASSUME Config, NEW v \in Newest(in) \ EntriesOf(out)
       PROVE  v.tombstone /\ \A u \in rest : u.key = v.key => u.ts > v.ts
  <2>1. v \in in /\ v.key # EmptyKey
    BY <1>2, <1>5, <1>9 DEF Config, Version
  <2>2. v.tombstone /\ src + 1 >= BottomLevel
    BY <1>4, <2>1, <1>9 DEF Merge
  <2>3. src # 0 /\ src + 1 = NumLevels - 1
    BY <2>2, <1>9, ShapeAssumption DEF Config, Level
  <2>4. from = tr.levels[src] /\ into = tr.levels[src + 1]
    BY <2>3
  <2>5. \A l \in Level \ {src, src + 1} : l < src
    BY <2>3, ShapeAssumption DEF Level
  <2>6. v \in EntriesOf(tr.levels[src]) \/ v \in EntriesOf(tr.levels[src + 1])
    BY <2>1, <2>4 DEF EntriesOf
  <2>7. \A u \in m : u.key = v.key => u.ts > v.ts
    BY <2>6 DEF Ordered, MemtableNewest, Newer
  <2>8. \A l \in Level \ {src, src + 1} : \A u \in EntriesOf(tr.levels[l]) :
          u.key = v.key => u.ts > v.ts
    <3> SUFFICES ASSUME NEW l \in Level \ {src, src + 1} ,
                        NEW u \in EntriesOf(tr.levels[l]), u.key = v.key
                 PROVE  u.ts > v.ts
      OBVIOUS
    <3>1. l < src /\ l < src + 1
      BY <2>5, <1>1
    <3>2. /\ Newer(EntriesOf(tr.levels[l]), EntriesOf(tr.levels[src]))
          /\ Newer(EntriesOf(tr.levels[l]), EntriesOf(tr.levels[src + 1]))
      BY <3>1 DEF Ordered, LevelsByAge
    <3> QED BY <3>2, <2>6 DEF Newer
  <2>9. rest = m \cup UNION {EntriesOf(tr.levels[l]) : l \in Level \ {src, src + 1}}
    BY <2>4 DEF EntriesOf, Others
  <2> QED BY <2>2, <2>7, <2>8, <2>9
<1>10. rest \cup in \subseteq Version
  BY <1>8, HeldVersions
<1> HIDE DEF rest, in, new
<1>11. Config /\ Settled(HeldBy(m, tr)) =>
         /\ Settled(HeldBy(m, new))
         /\ LiveOf(HeldBy(m, new)) = LiveOf(HeldBy(m, tr))
  <2> SUFFICES ASSUME Config, Settled(rest \cup in)
               PROVE  /\ Settled(rest \cup EntriesOf(out))
                      /\ LiveOf(rest \cup EntriesOf(out)) = LiveOf(rest \cup in)
    BY <1>8
  <2>1. EntriesOf(out) \subseteq Newest(in)
    BY <1>4, <1>5
  <2>2. \A v \in Newest(in) \ EntriesOf(out) :
          v.tombstone /\ \A u \in rest : u.key = v.key => u.ts > v.ts
    BY <1>9
  <2> QED BY <1>10, <2>1, <2>2, MergeKeepsMap
<1>12. HeldBy(m, new) \subseteq HeldBy(m, tr)
  BY <1>4, <1>5, <1>8
<1>13. QED BY <1>6, <1>7, <1>11, <1>12 DEF Keeps, new, out

\* No compaction loses the newest version of a key, whatever the order of the levels, if
\* it is no tombstone and its key is not the empty one; and none adds a version.
Lossless(tr, new) ==
  /\ HeldBy({}, new) \subseteq HeldBy({}, tr)
  /\ \A v \in Newest(HeldBy({}, tr)) :
       v.key # EmptyKey /\ ~v.tombstone => v \in HeldBy({}, new)

LEMMA CompactionLossless ==
  ASSUME NEW tr, Shape(tr), NEW src \in Level, src + 1 \in Level,
         NEW from \in SUBSET tr.levels[src], NEW into \in SUBSET tr.levels[src + 1]
  PROVE  Lossless(tr, Compacted(tr, src, from, into,
                                DoCompact(from \cup into, src + 1, tr.nextID)))
<1> DEFINE out  == DoCompact(from \cup into, src + 1, tr.nextID)
           new  == Compacted(tr, src, from, into, out)
           in   == EntriesOf(from \cup into)
           rest == Others({}, tr, src, from, into)
<1>1. in \subseteq Version /\ IsFiniteSet(in)
  <2>1. IsFiniteSet(from) /\ IsFiniteSet(into)
    BY FS_Subset DEF Shape
  <2>2. IsFiniteSet(from \cup into)
    BY <2>1, FS_Union
  <2>3. \A t \in from \cup into : IsFiniteSet(t.ents)
    BY DEF Shape
  <2>4. in \subseteq Version
    BY DEF EntriesOf, Shape, Table
  <2> QED BY <2>2, <2>3, <2>4, FiniteEntries
<1>2. EntriesOf(out) = Merge(from \cup into, src + 1)
  <2>1. tr.nextID \in Nat
    BY DEF Shape
  <2> QED BY <1>1, <2>1, DoCompactTables
<1> HIDE DEF out
<1>3. HeldBy({}, tr) = rest \cup in /\ HeldBy({}, new) = rest \cup EntriesOf(out)
  <2>1. ASSUME NEW m
        PROVE  /\ HeldBy(m, tr) = Others(m, tr, src, from, into) \cup in
               /\ HeldBy(m, new) = Others(m, tr, src, from, into) \cup EntriesOf(out)
    BY ONLY CompactionReplaces, Shape(tr), src \in Level, src + 1 \in Level,
            from \in SUBSET tr.levels[src], into \in SUBSET tr.levels[src + 1]
  <2> HIDE DEF in, new
  <2> QED BY <2>1, Zenon
<1>4. EntriesOf(out) \subseteq in
  BY <1>2, MergeSubset
<1>5. ASSUME NEW v \in Newest(rest \cup in), v.key # EmptyKey, ~v.tombstone
      PROVE  v \in rest \cup EntriesOf(out)
  <2>1. v \in in => v \in Newest(in)
    BY DEF Newest
  <2>2. v \in in => v \in Merge(from \cup into, src + 1)
    BY <1>5, <2>1 DEF Merge
  <2>3. v \in rest \cup in
    BY DEF Newest
  <2> QED BY <1>2, <2>2, <2>3
<1> HIDE DEF new, rest, in
<1>6. Lossless(tr, new)
  BY <1>3, <1>4, <1>5 DEF Lossless
<1> QED BY <1>6 DEF new, out

LEMMA L0Lossless ==
  ASSUME NEW tr, Shape(tr)
  PROVE  Lossless(tr, CompactL0ToL1(tr))
<1> DEFINE victims == OldestOf(tr.levels[0])
           overlap == Overlapping(tr.levels[1], victims)
           Goal(i) == Lossless(tr, Compacted(tr, 0, victims, overlap,
                                             DoCompact(victims \cup overlap, i, tr.nextID)))
<1>1. 0 \in Level /\ 1 \in Level /\ 0 + 1 = 1
  BY ShapeAssumption DEF Level
<1>2. Goal(0 + 1)
  <2>1. victims \in SUBSET tr.levels[0]
    BY DEF OldestOf
  <2>2. overlap \in SUBSET tr.levels[0 + 1]
    BY <1>1 DEF Overlapping
  <2> HIDE DEF victims, overlap
  <2> QED BY <1>1, <2>1, <2>2, CompactionLossless
<1>3. CASE tr.levels[0] = {}
  BY <1>3 DEF Lossless, CompactL0ToL1, Newest
<1>4. CASE tr.levels[0] # {}
  <2> HIDE DEF Goal
  <2>1. Goal(1)
    BY <1>1, <1>2
  <2> QED BY <1>4, <2>1 DEF Goal, CompactL0ToL1
<1> QED BY <1>3, <1>4

LEMMA LevelLossless ==
  ASSUME NEW tr, Shape(tr), NEW l \in Level
  PROVE  Lossless(tr, CompactLevel(tr, l))
<1>1. CASE l < 1 \/ l >= NumLevels - 1 \/ tr.levels[l] = {}
  BY <1>1 DEF Lossless, CompactLevel, Newest
<1>2. CASE ~(l < 1 \/ l >= NumLevels - 1 \/ tr.levels[l] = {})
  <2>1. l + 1 \in Level
    BY <1>2, ShapeAssumption DEF Level
  <2>2. Lossless(tr, Compacted(tr, l, tr.levels[l], tr.levels[l + 1],
                               DoCompact(tr.levels[l] \cup tr.levels[l + 1], l + 1, tr.nextID)))
    BY <2>1, CompactionLossless
  <2> QED BY <1>2, <2>2 DEF CompactLevel
<1> QED BY <1>1, <1>2

\* compactL0ToL1.
LEMMA L0Keeps ==
  ASSUME NEW m, m \subseteq Version, NEW tr, Shape(tr), Ordered(m, tr)
  PROVE  Keeps(m, tr, m, CompactL0ToL1(tr))
<1> DEFINE victims == OldestOf(tr.levels[0])
           overlap == Overlapping(tr.levels[1], victims)
<1>1. 0 \in Level /\ 1 \in Level /\ 0 + 1 = 1
  BY ShapeAssumption DEF Level
<1>2. CASE tr.levels[0] = {}
  BY <1>2 DEF Keeps, CompactL0ToL1
<1>3. CASE tr.levels[0] # {}
  <2>1. victims \in SUBSET tr.levels[0]
    BY DEF OldestOf
  <2>2. overlap \in SUBSET tr.levels[1]
    BY DEF Overlapping
  <2>3. tr.levels[0] \subseteq Table /\ IsFiniteSet(tr.levels[0])
    BY <1>1 DEF Shape
  <2>4. \A t \in victims, u \in tr.levels[0] \ victims : Newer(u.ents, t.ents)
    <3>1. \A t \in victims, u \in tr.levels[0] \ victims : t.id < u.id
      BY <2>3, OldestFirst
    <3>2. \A t, u \in tr.levels[0] : t.id < u.id => Newer(u.ents, t.ents)
      BY DEF Ordered, L0ByAge
    <3> QED BY <2>1, <3>1, <3>2
  <2> HIDE DEF victims, overlap
  <2>5. Newer(EntriesOf(tr.levels[0] \ victims), EntriesOf(victims))
    BY <2>4 DEF Newer, EntriesOf
  <2>6. Keeps(m, tr, m, Compacted(tr, 0, victims, overlap,
                                  DoCompact(victims \cup overlap, 1, tr.nextID)))
    <3> DEFINE Goal(i) ==
          Keeps(m, tr, m, Compacted(tr, 0, victims, overlap,
                                    DoCompact(victims \cup overlap, i, tr.nextID)))
    <3>1. overlap \in SUBSET tr.levels[0 + 1]
      BY <2>2, <1>1
    <3>2. Goal(0 + 1)
      BY <1>1, <2>1, <2>5, <3>1, CompactionKeeps
    <3> HIDE DEF Goal
    <3>3. Goal(1)
      BY <3>2
    <3> QED BY <3>3 DEF Goal
  <2> QED BY <1>3, <2>6 DEF CompactL0ToL1, victims, overlap
<1>4. QED BY <1>2, <1>3

\* compactLevel.
LEMMA LevelKeeps ==
  ASSUME NEW m, m \subseteq Version, NEW tr, Shape(tr), Ordered(m, tr),
         NEW l \in Level
  PROVE  Keeps(m, tr, m, CompactLevel(tr, l))
<1>1. CASE l < 1 \/ l >= NumLevels - 1 \/ tr.levels[l] = {}
  BY <1>1 DEF Keeps, CompactLevel
<1>2. CASE ~(l < 1 \/ l >= NumLevels - 1 \/ tr.levels[l] = {})
  <2>1. l + 1 \in Level
    BY <1>2, ShapeAssumption DEF Level
  <2>2. Newer(EntriesOf(tr.levels[l] \ tr.levels[l]), EntriesOf(tr.levels[l]))
    BY DEF Newer, EntriesOf
  <2>3. Keeps(m, tr, m,
              Compacted(tr, l, tr.levels[l], tr.levels[l + 1],
                        DoCompact(tr.levels[l] \cup tr.levels[l + 1], l + 1, tr.nextID)))
    BY <2>1, <2>2, CompactionKeeps
  <2> QED BY <1>2, <2>3 DEF CompactLevel
<1>3. QED BY <1>1, <1>2

\* The first part of flushMemtable: the entries change place.
LEMMA AddKeeps ==
  ASSUME NEW m, m \subseteq Version, IsFiniteSet(m),
         NEW tr, Shape(tr), Ordered(m, tr)
  PROVE  Keeps(m, tr, {}, AddToL0(tr, m))
<1> DEFINE file == [id |-> tr.nextID, ents |-> m]
           new  == AddToL0(tr, m)
           E(l) == EntriesOf(tr.levels[l])
           F(l) == EntriesOf(new.levels[l])
<1>1. 0 \in Level /\ Level \subseteq Int /\ \A l \in Level : l >= 0
  BY ShapeAssumption DEF Level
<1>2. file \in Table /\ tr.nextID \in Nat
  BY DEF Table, Shape
<1>3. new.levels[0] = tr.levels[0] \cup {file}
  BY <1>1 DEF AddToL0, Shape
<1>4. \A l \in Level : l # 0 => new.levels[l] = tr.levels[l]
  BY DEF AddToL0, Shape
<1>5. Shape(new)
  BY AddShape
<1>6. F(0) = E(0) \cup m
  <2>1. file.ents = m
    OBVIOUS
  <2> HIDE DEF file, new
  <2> QED BY <1>3, <2>1 DEF EntriesOf
<1>7. \A l \in Level : l # 0 => F(l) = E(l)
  BY <1>4
<1>8. Ordered({}, new)
  <2>1. MemtableNewest({}, new)
    BY DEF MemtableNewest, Newer
  <2>2. L0ByAge(new)
    <3> SUFFICES ASSUME NEW t \in new.levels[0], NEW u \in new.levels[0], t.id < u.id
                 PROVE  Newer(u.ents, t.ents)
      BY DEF L0ByAge
    <3>1. CASE u = file
      <4>1. t \in tr.levels[0]
        BY <3>1, <1>2, <1>3
      <4> QED BY <4>1, <3>1, <1>1 DEF Ordered, MemtableNewest, Newer, EntriesOf
    <3>2. CASE u # file
      <4>1. u \in tr.levels[0] /\ u.id < tr.nextID /\ u.id \in Nat
        BY <3>2, <1>1, <1>3 DEF Shape, Table
      <4>2. t # file
        BY <4>1, <1>2
      <4> QED BY <4>1, <4>2, <1>3 DEF Ordered, L0ByAge
    <3> QED BY <3>1, <3>2
  <2>3. \A i, j \in Level : i < j => Newer(F(i), F(j))
    <3> SUFFICES ASSUME NEW i \in Level, NEW j \in Level, i < j PROVE Newer(F(i), F(j))
      OBVIOUS
    <3>1. F(j) = E(j) /\ Newer(E(i), E(j)) /\ Newer(m, E(j))
      <4>1. j # 0
        BY <1>1
      <4> QED BY <4>1, <1>7 DEF Ordered, LevelsByAge, MemtableNewest
    <3>2. F(i) \subseteq E(i) \cup m
      BY <1>6, <1>7
    <3> QED BY <3>1, <3>2 DEF Newer
  <2> QED BY <2>1, <2>2, <2>3 DEF Ordered, LevelsByAge
<1>9. HeldBy({}, new) = HeldBy(m, tr)
  <2>1. HeldBy({}, new) = UNION {F(l) : l \in Level}
    BY DEF HeldBy
  <2>2. HeldBy(m, tr) = m \cup UNION {E(l) : l \in Level}
    BY DEF HeldBy
  <2> HIDE DEF E, F
  <2> QED BY <2>1, <2>2, <1>1, <1>6, <1>7
<1>10. QED BY <1>5, <1>8, <1>9 DEF Keeps

\* flushMemtable with the compaction it may end in.
LEMMA FlushKeeps ==
  ASSUME NEW m, m \subseteq Version, IsFiniteSet(m),
         NEW tr, Shape(tr), Ordered(m, tr)
  PROVE  Keeps(m, tr, {}, FlushMemtable(tr, m))
<1> DEFINE new == AddToL0(tr, m)
<1>1. Keeps(m, tr, {}, new)
  BY AddKeeps
<1> HIDE DEF new
<1>2. Keeps({}, new, {}, CompactL0ToL1(new))
  BY <1>1, L0Keeps DEF Keeps
<1>3. Keeps(m, tr, {}, CompactL0ToL1(new))
  BY <1>1, <1>2 DEF Keeps
<1>4. QED BY <1>1, <1>3 DEF FlushMemtable, WriterCompaction, new
-----------------------------------------------------------------------------
(* Writes.                                                                 *)

\* Nothing is stamped later than the clock.
Stale(vs, t) == \A v \in vs : v.ts <= t

\* Versions newer than all of an engine's may join its youngest ones.
LEMMA WritesOrdered ==
  ASSUME NEW m, m \subseteq Version, NEW tr, Shape(tr), Ordered(m, tr),
         NEW s \in Nat, Stale(HeldBy(m, tr), s), NEW t \in Nat, s <= t,
         NEW ws, ws \subseteq Version, \A w \in ws : w.ts > s /\ w.ts <= t,
         NEW n, n \subseteq m \cup ws
  PROVE  Ordered(n, tr) /\ Stale(HeldBy(n, tr), t)
<1> DEFINE held == HeldBy(m, tr)
<1>1. \A v \in held : v.ts <= s /\ v.ts \in Nat
  BY HeldVersions DEF Stale, Version
<1>2. \A w \in ws : w.ts > s /\ w.ts <= t /\ w.ts \in Nat
  BY DEF Version
<1>3. \A l \in Level : EntriesOf(tr.levels[l]) \subseteq held
  BY DEF HeldBy
<1>4. HeldBy(n, tr) \subseteq held \cup ws
  BY DEF HeldBy
<1> HIDE DEF held
<1>5. ASSUME NEW l \in Level, NEW v \in n, NEW w \in EntriesOf(tr.levels[l]), v.key = w.key
      PROVE  v.ts > w.ts
  <2>1. CASE v \in ws
    <3>1. w \in held
      BY <1>3
    <3> QED BY <2>1, <3>1, <1>1, <1>2
  <2>2. CASE v \in m
    BY <1>5, <2>2 DEF Ordered, MemtableNewest, Newer
  <2> QED BY <2>1, <2>2
<1>6. Ordered(n, tr)
  BY <1>5 DEF Ordered, MemtableNewest, Newer
<1>7. \A v \in held \cup ws : v.ts <= t
  BY <1>1, <1>2
<1> QED BY <1>4, <1>6, <1>7 DEF Stale

\* Put in the place of some of those, they change the map as a write does.
LEMMA WritesApplied ==
  ASSUME NEW m, m \subseteq Version, NEW tr, Shape(tr), Settled(HeldBy(m, tr)),
         NEW s \in Nat, Stale(HeldBy(m, tr), s),
         NEW ws, ws \subseteq Version, \A w \in ws : w.ts > s,
         \A v, w \in ws : v.key = w.key => v = w,
         NEW n, n \subseteq m \cup ws, ws \subseteq n,
         \A v \in m \ n : \E w \in ws : w.key = v.key
  PROVE  /\ Settled(HeldBy(n, tr))
         /\ LiveOf(HeldBy(n, tr)) = Applied(LiveOf(HeldBy(m, tr)), ws)
<1> DEFINE stored == UNION {EntriesOf(tr.levels[l]) : l \in Level}
           held   == HeldBy(m, tr)
           kept   == (n \cap m) \cup stored
<1>1. held \subseteq Version
  BY HeldVersions
<1>2. HeldBy(n, tr) = kept \cup ws /\ kept \subseteq held
  BY DEF HeldBy
<1>3. \A v \in held \ kept : \E w \in ws : w.key = v.key
  BY DEF HeldBy
<1> HIDE DEF held, kept
<1>4. \A v \in held : v.ts <= s
  BY DEF Stale, held
<1>5. /\ Settled(kept \cup ws)
      /\ LiveOf(kept \cup ws) = Applied(LiveOf(held), ws)
  BY <1>1, <1>2, <1>3, <1>4, WriteChangesMap DEF held
<1> QED BY <1>2, <1>5 DEF held
=============================================================================
