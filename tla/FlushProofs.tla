---------------------------- MODULE FlushProofs ----------------------------
(***************************************************************************)
(* Theorems about MemTable and FlushFile, for any keys, lengths, hash      *)
(* functions, steps of the index and first sizes of the mapping.           *)
(*                                                                         *)
(*  - The sums of the model are recursive functions on the subsets of a    *)
(*    finite set.  That there is such a function, and that it does not     *)
(*    matter which element is taken first, is shown with a minimal subset  *)
(*    for which it would not be so, in place of an induction.              *)
(*  - The invariant of the memtable (MemInv) has the size as such a sum,   *)
(*    and the cached keys as those there are unless one was added.         *)
(*  - The invariant of the flush says what the writer has of the entries   *)
(*    so far: their bytes, the file, the index and the filter (Appending), *)
(*    what the finished file has (Closed), and how the mapping compares    *)
(*    with the bytes at the end (Ended).                                   *)
(***************************************************************************)
EXTENDS FlushFile, FiniteSetTheorems, WellFoundedInduction, SequenceTheorems, TLAPS

(* Least and last elements.                                                *)

\* Of some subsets of a finite set one has no other among its subsets.
LEMMA MinimalSet ==
  ASSUME NEW S, IsFiniteSet(S), NEW B \in SUBSET (SUBSET S), B # {}
  PROVE  \E X \in B : \A Y \in B : Y \subseteq X => Y = X
<1>1. B \subseteq FiniteSubsetsOf(S)
  BY FS_Subset DEF FiniteSubsetsOf
<1>2. PICK X \in B : \A Y \in B : ~(<<Y, X>> \in StrictSubsetOrdering(S))
  BY <1>1, FS_StrictSubsetOrderingWellFounded, WFMin
<1> QED BY <1>2 DEF StrictSubsetOrdering

\* The same for the values of a function.
LEMMA MinimalImage ==
  ASSUME NEW S, IsFiniteSet(S), S # {}, NEW g \in [S -> SUBSET S]
  PROVE  \E p \in S : \A q \in S : g[q] \subseteq g[p] => g[q] = g[p]
<1> DEFINE sets == {g[p] : p \in S}
<1>1. sets # {} /\ sets \in SUBSET (SUBSET S)
  OBVIOUS
<1>2. PICK X \in sets : \A Y \in sets : Y \subseteq X => Y = X
  <2> HIDE DEF sets
  <2> QED BY <1>1, MinimalSet
<1>3. PICK p \in S : X = g[p]
  OBVIOUS
<1>4. \A q \in S : g[q] \in sets
  OBVIOUS
<1> QED BY <1>2, <1>3, <1>4

\* Finitely many integers have a greatest one.
LEMMA GreatestNumber ==
  ASSUME NEW S, S \subseteq Int, IsFiniteSet(S), S # {}
  PROVE  \E p \in S : \A q \in S : q <= p
<1> DEFINE g == [p \in S |-> {q \in S : q > p}]
<1>1. IsFiniteSet(S) /\ S # {} /\ g \in [S -> SUBSET S]
  OBVIOUS
<1>2. \A p \in S : g[p] = {q \in S : q > p}
  OBVIOUS
<1> HIDE DEF g
<1>3. PICK p \in S : \A q \in S : g[q] \subseteq g[p] => g[q] = g[p]
  BY ONLY <1>1, MinimalImage
<1>4. ASSUME NEW q \in S, q > p PROVE FALSE
  <2>1. q \in Int /\ ~(q > q) /\ \A i \in S : i > q => i > p
    BY <1>4
  <2>2. g[q] \subseteq g[p] /\ q \in g[p] /\ q \notin g[q]
    BY <1>2, <1>4, <2>1
  <2> QED BY <1>3, <2>2
<1> QED BY <1>4
-----------------------------------------------------------------------------
(* Sums over finite sets.  MapThenSumSet is a recursive function; that     *)
(* there is one has to be shown, and that it does not matter which element *)
(* comes first.                                                            *)

Some(S) == CHOOSE x \in S : TRUE

Summing(f, w, S) ==
  f = [s \in SUBSET S |-> IF s = {} THEN 0 ELSE w[Some(s)] + f[s \ {Some(s)}]]

Total(w, S) == (CHOOSE f : Summing(f, w, S))[S]

LEMMA SomeIn ==
  ASSUME NEW S, S # {}
  PROVE  Some(S) \in S
BY DEF Some

LEMMA SummingAt ==
  ASSUME NEW S, NEW w, NEW f, Summing(f, w, S), NEW U \in SUBSET S
  PROVE  f[U] = IF U = {} THEN 0 ELSE w[Some(U)] + f[U \ {Some(U)}]
BY DEF Summing

LEMMA SummingUnique ==
  ASSUME NEW S, NEW T, NEW w, NEW v, NEW f, NEW g, Summing(f, w, S), Summing(g, v, T),
         NEW U, IsFiniteSet(U), U \subseteq S, U \subseteq T, \A x \in U : w[x] = v[x]
  PROVE  f[U] = g[U]
<1> DEFINE bad == {X \in SUBSET U : f[X] # g[X]}
<1>1. CASE bad = {}
  BY <1>1
<1>2. CASE bad # {}
  <2>1. bad \in SUBSET (SUBSET U)
    OBVIOUS
  <2>2. PICK X \in bad : \A Y \in bad : Y \subseteq X => Y = X
    <3> HIDE DEF bad
    <3> QED BY <1>2, <2>1, MinimalSet
  <2>3. X \in SUBSET U /\ X \in SUBSET S /\ X \in SUBSET T /\ f[X] # g[X]
    OBVIOUS
  <2>4. /\ f[X] = IF X = {} THEN 0 ELSE w[Some(X)] + f[X \ {Some(X)}]
        /\ g[X] = IF X = {} THEN 0 ELSE v[Some(X)] + g[X \ {Some(X)}]
    BY <2>3, SummingAt
  <2>5. X # {}
    BY <2>3, <2>4
  <2>6. Some(X) \in X
    BY <2>5, SomeIn
  <2>7. X \ {Some(X)} \notin bad
    BY <2>2, <2>6
  <2>8. f[X \ {Some(X)}] = g[X \ {Some(X)}] /\ w[Some(X)] = v[Some(X)]
    BY <2>3, <2>6, <2>7
  <2> QED BY <2>3, <2>4, <2>8
<1> QED BY <1>1, <1>2

LEMMA SummingExists ==
  ASSUME NEW S, IsFiniteSet(S), NEW w
  PROVE  \E f : Summing(f, w, S)
<1> DEFINE bad == {T \in SUBSET S : ~ \E f : Summing(f, w, T)}
<1>1. CASE bad = {}
  BY <1>1
<1>2. CASE bad # {}
  <2>1. bad \in SUBSET (SUBSET S)
    OBVIOUS
  <2>2. PICK T \in bad : \A Y \in bad : Y \subseteq T => Y = T
    <3> HIDE DEF bad
    <3> QED BY <1>2, <2>1, MinimalSet
  <2>3. T \in SUBSET S /\ ~ \E f : Summing(f, w, T)
    OBVIOUS
  <2> DEFINE part(V) == CHOOSE g : Summing(g, w, V)
             sum(V)  == part(V)[V]
             f       == [U \in SUBSET T |-> IF U = {} THEN 0
                                            ELSE w[Some(U)] + sum(U \ {Some(U)})]
  <2>4. ASSUME NEW V \in SUBSET T, V # T PROVE Summing(part(V), w, V) /\ IsFiniteSet(V)
    <3>1. V \in SUBSET S /\ V \notin bad
      BY <2>2, <2>3, <2>4
    <3>2. \E g : Summing(g, w, V)
      BY <3>1
    <3>3. IsFiniteSet(V)
      BY <3>1, FS_Subset
    <3> QED BY <3>2, <3>3
  <2>5. ASSUME NEW V \in SUBSET T, V # T PROVE f[V] = sum(V)
    <3> DEFINE W == V \ {Some(V)}
    <3>1. CASE V = {}
      <4>1. sum(V) = 0
        <5> HIDE DEF part
        <5> QED BY <2>4, <2>5, <3>1, SummingAt
      <4> QED BY <3>1, <4>1
    <3>2. CASE V # {}
      <4>1. Some(V) \in V
        BY <3>2, SomeIn
      <4>2. W \in SUBSET T /\ W # T /\ W \subseteq V
        BY <4>1
      <4>3. Summing(part(V), w, V) /\ Summing(part(W), w, W) /\ IsFiniteSet(W)
        <5> HIDE DEF part, W
        <5> QED BY <2>4, <2>5, <4>2
      <4>4. part(V)[W] = part(W)[W]
        <5> HIDE DEF part, W
        <5> QED BY <4>2, <4>3, SummingUnique
      <4>5. part(V)[V] = w[Some(V)] + part(V)[W]
        <5> HIDE DEF part
        <5> QED BY <3>2, <4>3, SummingAt
      <4>6. f[V] = w[Some(V)] + sum(W)
        BY <3>2
      <4> QED BY <4>4, <4>5, <4>6
    <3> QED BY <3>1, <3>2
  <2>6. ASSUME NEW U \in SUBSET T, U # {} PROVE f[U \ {Some(U)}] = sum(U \ {Some(U)})
    <3>1. Some(U) \in U
      BY <2>6, SomeIn
    <3>2. U \ {Some(U)} \in SUBSET T /\ U \ {Some(U)} # T
      BY <3>1
    <3> HIDE DEF f, sum
    <3> QED BY <2>5, <3>2
  <2>7. Summing(f, w, T)
    <3> HIDE DEF sum
    <3>1. f = [U \in SUBSET T |-> IF U = {} THEN 0 ELSE w[Some(U)] + f[U \ {Some(U)}]]
      BY <2>6
    <3> HIDE DEF f
    <3> QED BY <3>1 DEF Summing
  <2> QED BY <2>3, <2>7
<1> QED BY <1>1, <1>2

LEMMA TotalIs ==
  ASSUME NEW S, IsFiniteSet(S), NEW w, NEW f, Summing(f, w, S)
  PROVE  Total(w, S) = f[S]
<1> DEFINE g == CHOOSE h : Summing(h, w, S)
<1>1. Summing(g, w, S)
  OBVIOUS
<1> HIDE DEF g
<1>2. g[S] = f[S]
  BY <1>1, SummingUnique
<1> QED BY <1>2 DEF Total, g

LEMMA TotalSame ==
  ASSUME NEW S, IsFiniteSet(S), NEW w, NEW v, \A x \in S : w[x] = v[x]
  PROVE  Total(w, S) = Total(v, S)
<1>1. PICK f : Summing(f, w, S)
  BY SummingExists
<1>2. PICK g : Summing(g, v, S)
  BY SummingExists
<1>3. f[S] = g[S]
  BY <1>1, <1>2, SummingUnique
<1> QED BY <1>1, <1>2, <1>3, TotalIs

LEMMA TotalStep ==
  ASSUME NEW S, IsFiniteSet(S), NEW w
  PROVE  Total(w, S) = IF S = {} THEN 0 ELSE w[Some(S)] + Total(w, S \ {Some(S)})
<1> DEFINE T == S \ {Some(S)}
<1>1. PICK f : Summing(f, w, S)
  BY SummingExists
<1>2. T \subseteq S /\ IsFiniteSet(T)
  BY FS_Subset
<1>3. PICK g : Summing(g, w, T)
  BY <1>2, SummingExists
<1>4. f[S] = IF S = {} THEN 0 ELSE w[Some(S)] + f[T]
  BY <1>1, SummingAt
<1> HIDE DEF T
<1>5. f[T] = g[T]
  BY <1>1, <1>2, <1>3, SummingUnique
<1>6. Total(w, S) = f[S] /\ Total(w, T) = g[T]
  BY <1>1, <1>2, <1>3, TotalIs
<1> QED BY <1>4, <1>5, <1>6 DEF T

LEMMA TotalInt ==
  ASSUME NEW S, IsFiniteSet(S), NEW w, \A x \in S : w[x] \in Int
  PROVE  Total(w, S) \in Int
<1> DEFINE bad == {T \in SUBSET S : Total(w, T) \notin Int}
<1>1. CASE bad = {}
  BY <1>1
<1>2. CASE bad # {}
  <2>1. bad \in SUBSET (SUBSET S)
    OBVIOUS
  <2>2. PICK T \in bad : \A Y \in bad : Y \subseteq T => Y = T
    <3> HIDE DEF bad
    <3> QED BY <1>2, <2>1, MinimalSet
  <2>3. T \in SUBSET S /\ Total(w, T) \notin Int /\ IsFiniteSet(T)
    BY FS_Subset
  <2>4. Total(w, T) = IF T = {} THEN 0 ELSE w[Some(T)] + Total(w, T \ {Some(T)})
    BY <2>3, TotalStep
  <2>5. T # {}
    BY <2>3, <2>4
  <2>6. Some(T) \in T
    BY <2>5, SomeIn
  <2>7. T \ {Some(T)} \notin bad
    BY <2>2, <2>6
  <2>8. Total(w, T \ {Some(T)}) \in Int /\ w[Some(T)] \in Int
    BY <2>3, <2>6, <2>7
  <2> QED BY <2>3, <2>4, <2>5, <2>8
<1> QED BY <1>1, <1>2

\* Any element may come first.
LEMMA TotalRemove ==
  ASSUME NEW S, IsFiniteSet(S), NEW w, \A x \in S : w[x] \in Int, NEW x \in S
  PROVE  Total(w, S) = w[x] + Total(w, S \ {x})
<1> DEFINE bad == {T \in SUBSET S : \E z \in T : Total(w, T) # w[z] + Total(w, T \ {z})}
<1>1. CASE bad = {}
  BY <1>1
<1>2. CASE bad # {}
  <2>1. bad \in SUBSET (SUBSET S)
    OBVIOUS
  <2>2. PICK T \in bad : \A Y \in bad : Y \subseteq T => Y = T
    <3> HIDE DEF bad
    <3> QED BY <1>2, <2>1, MinimalSet
  <2>3. PICK z \in T : Total(w, T) # w[z] + Total(w, T \ {z})
    BY <2>2
  <2> DEFINE y == Some(T)
             R == (T \ {y}) \ {z}
  <2>4. T \in SUBSET S /\ T # {} /\ IsFiniteSet(T) /\ y \in T
    <3>1. T \in SUBSET S /\ T # {}
      BY <2>3
    <3> QED BY <3>1, FS_Subset, SomeIn
  <2>5. Total(w, T) = w[y] + Total(w, T \ {y})
    BY <2>4, TotalStep
  <2> HIDE DEF y
  <2>6. z # y
    BY <2>3, <2>5
  <2>7. T \ {y} \notin bad /\ T \ {z} \notin bad
    BY <2>2, <2>3, <2>4
  <2>8. Total(w, T \ {y}) = w[z] + Total(w, R)
    <3>1. z \in T \ {y} /\ T \ {y} \in SUBSET S
      BY <2>3, <2>4, <2>6
    <3> QED BY <2>7, <3>1
  <2>9. Total(w, T \ {z}) = w[y] + Total(w, R)
    <3>1. y \in T \ {z} /\ T \ {z} \in SUBSET S /\ R = (T \ {z}) \ {y}
      BY <2>3, <2>4, <2>6
    <3> HIDE DEF R
    <3>2. Total(w, T \ {z}) = w[y] + Total(w, (T \ {z}) \ {y})
      BY <2>7, <3>1
    <3> QED BY <3>1, <3>2
  <2>10. w[y] \in Int /\ w[z] \in Int /\ Total(w, R) \in Int
    <3>1. R \subseteq S /\ y \in S /\ z \in S
      BY <2>3, <2>4
    <3>2. IsFiniteSet(R)
      BY <3>1, FS_Subset
    <3> HIDE DEF R
    <3> QED BY <3>1, <3>2, TotalInt
  <2> HIDE DEF R
  <2> QED BY <2>3, <2>5, <2>8, <2>9, <2>10
<1> QED BY <1>1, <1>2
-----------------------------------------------------------------------------
(* The memtable.                                                           *)

Version == [key : Keys, len : ValueLens \cup {0}, ts : Nat, tombstone : BOOLEAN]

Counts == [e \in Version |-> KeyLen[e.key] + e.len + Overhead]

LEMMA CountsInt ==
  ASSUME NEW e \in Version
  PROVE  Counts[e] \in Int /\ Counts[e] = KeyLen[e.key] + e.len + Overhead
<1>1. Counts[e] = KeyLen[e.key] + e.len + Overhead
  BY DEF Counts
<1>2. e.key \in Keys /\ e.len \in ValueLens \cup {0}
  BY DEF Version
<1>3. e.len \in Nat
  <2>1. ValueLens \cup {0} \subseteq Nat
    BY MemTableAssumption
  <2> QED BY <1>2, <2>1
<1>4. KeyLen[e.key] \in Nat
  BY <1>2, MemTableAssumption, Zenon
<1> QED BY <1>1, <1>3, <1>4 DEF Overhead

\* The sum in SizeExact.
LEMMA SizeSum ==
  ASSUME IsFiniteSet(m), m \subseteq Version
  PROVE  FSE!MapThenSumSet(LAMBDA e : KeyLen[e.key] + e.len + Overhead, m) = Total(Counts, m)
<1> DEFINE step(f) == [s \in SUBSET m |->
                         IF s = {} THEN 0
                         ELSE (KeyLen[Some(s).key] + Some(s).len + Overhead) + f[s \ {Some(s)}]]
           sum     == CHOOSE f : f = step(f)
<1>1. FSE!MapThenSumSet(LAMBDA e : KeyLen[e.key] + e.len + Overhead, m) = sum[m]
  BY DEF FSE!MapThenSumSet, FSE!MapThenFoldSet, Some
<1>2. ASSUME NEW f PROVE Summing(f, Counts, m) <=> f = step(f)
  <2>1. ASSUME NEW s \in SUBSET m, s # {}
        PROVE  Counts[Some(s)] = KeyLen[Some(s).key] + Some(s).len + Overhead
    BY <2>1, SomeIn, CountsInt
  <2> QED BY <2>1 DEF Summing
<1>3. PICK f : Summing(f, Counts, m)
  BY SummingExists
<1>4. Summing(sum, Counts, m)
  <2>1. f = step(f)
    BY <1>2, <1>3
  <2> HIDE DEF step
  <2>2. sum = step(sum)
    BY <2>1
  <2> QED BY <1>2, <2>2
<1> HIDE DEF sum
<1> QED BY <1>1, <1>4, TotalIs

\* One entry for a key, no more of them than writes, and the size is their sum; the
\* cached keys are those of the entries unless one was added.
MemInv ==
  /\ m \subseteq Version /\ IsFiniteSet(m)
  /\ \A e, f \in m : e.key = f.key => e = f
  /\ now \in 0 .. MaxNow /\ Cardinality(m) <= now
  /\ size = Total(Counts, m)
  /\ dirty \/ keys = << >> \/ keys = Ascending(KeysOf(m))

LEMMA InitMem == Init => MemInv
<1> SUFFICES ASSUME Init PROVE MemInv
  OBVIOUS
<1>1. IsFiniteSet(m) /\ Cardinality(m) = 0
  BY FS_EmptySet DEF Init
<1>2. Total(Counts, m) = 0
  <2>1. m = {}
    BY DEF Init
  <2>2. Total(Counts, m) = IF m = {} THEN 0 ELSE Counts[Some(m)] + Total(Counts, m \ {Some(m)})
    BY <1>1, TotalStep
  <2> QED BY <2>1, <2>2
<1> QED BY <1>1, <1>2, MemTableAssumption DEF Init, MemInv

\* A write: what it replaces no longer counts.
LEMMA StoreMem ==
  ASSUME MemInv, NEW k \in Keys, NEW len \in ValueLens \cup {0}, NEW tombstone \in BOOLEAN,
         Store([key |-> k, len |-> len, ts |-> now + 1, tombstone |-> tombstone])
  PROVE  MemInv'
<1> DEFINE e    == [key |-> k, len |-> len, ts |-> now + 1, tombstone |-> tombstone]
           rest == {f \in m : f.key # k}
<1>1. /\ now < MaxNow /\ m' = rest \cup {e} /\ now' = now + 1 /\ keys' = keys
      /\ size' = size - Replaced(e) + KeyLen[k] + len + Overhead
      /\ dirty' = (dirty \/ k \notin KeysOf(m))
  BY DEF Store
<1>2. /\ m \subseteq Version /\ IsFiniteSet(m) /\ now \in Nat /\ now <= MaxNow
      /\ size = Total(Counts, m) /\ Cardinality(m) <= now
      /\ \A f, g \in m : f.key = g.key => f = g
  BY MemTableAssumption DEF MemInv
<1>3. e \in Version /\ e.key = k /\ e.len = len
  BY <1>2 DEF Version
<1>4. Counts[e] \in Int /\ Counts[e] = KeyLen[k] + len + Overhead
  BY <1>3, CountsInt
<1>5. rest \subseteq m /\ e \notin rest
  OBVIOUS
<1> HIDE DEF e
<1>6. /\ IsFiniteSet(rest) /\ Cardinality(rest) <= Cardinality(m)
      /\ Cardinality(m) \in Nat /\ Cardinality(rest) \in Nat
  BY <1>2, <1>5, FS_Subset, FS_CardinalityType
<1>7. IsFiniteSet(m') /\ Cardinality(m') = Cardinality(rest) + 1
  BY <1>1, <1>5, <1>6, FS_AddElement
<1>8. m' \subseteq Version /\ rest = m' \ {e} /\ e \in m'
  BY <1>1, <1>2, <1>3, <1>5
<1>9. Total(Counts, m') = Counts[e] + Total(Counts, rest)
  <2>1. \A f \in m' : Counts[f] \in Int
    BY <1>8, CountsInt
  <2> HIDE DEF rest
  <2> QED BY <1>7, <1>8, <2>1, TotalRemove
<1>10. Total(Counts, rest) \in Int
  <2>1. \A f \in rest : Counts[f] \in Int
    BY <1>2, CountsInt
  <2> HIDE DEF rest
  <2> QED BY <1>6, <2>1, TotalInt
<1>11. /\ size - Replaced(e) = Total(Counts, rest)
       /\ k \in KeysOf(m) \/ rest = m
       /\ k \in KeysOf(m) => Cardinality(m) = Cardinality(rest) + 1
  <2>1. CASE k \notin KeysOf(m)
    <3>1. rest = m
      BY <2>1 DEF KeysOf
    <3>2. Replaced(e) = 0
      BY <1>3, <2>1 DEF Replaced
    <3> HIDE DEF rest
    <3> QED BY <1>2, <1>10, <2>1, <3>1, <3>2
  <2>2. CASE k \in KeysOf(m)
    <3>1. At(k) \in m /\ At(k).key = k
      BY <2>2 DEF KeysOf, At
    <3>2. rest = m \ {At(k)}
      BY <1>2, <3>1
    <3>3. Replaced(e) = Counts[At(k)]
      <4>1. Counts[At(k)] = KeyLen[At(k).key] + At(k).len + Overhead
        BY <1>2, <3>1, CountsInt
      <4> QED BY <1>3, <2>2, <3>1, <4>1 DEF Replaced
    <3>4. \A f \in m : Counts[f] \in Int
      BY <1>2, CountsInt
    <3> HIDE DEF rest
    <3>5. Total(Counts, m) = Counts[At(k)] + Total(Counts, rest)
      BY <1>2, <3>1, <3>2, <3>4, TotalRemove
    <3>6. Cardinality(rest) = Cardinality(m) - 1
      BY <1>2, <3>1, <3>2, FS_RemoveElement
    <3>7. Counts[At(k)] \in Int
      BY <3>1, <3>4
    <3> QED BY <1>2, <1>6, <1>10, <2>2, <3>3, <3>5, <3>6, <3>7
  <2> QED BY <2>1, <2>2
<1>12. size' = Total(Counts, m')
  <2>1. KeyLen[k] \in Nat /\ len \in Nat
    <3>1. KeyLen[k] \in Nat
      BY MemTableAssumption, Zenon
    <3> QED BY <3>1, MemTableAssumption
  <2> HIDE DEF rest
  <2> QED BY <1>1, <1>4, <1>9, <1>10, <1>11, <2>1 DEF Overhead
<1>13. Cardinality(m') <= now' /\ now' \in 0 .. MaxNow
  <2> HIDE DEF rest
  <2>1. MaxNow \in Nat
    BY MemTableAssumption
  <2>2. Cardinality(m') <= now + 1
    BY <1>2, <1>6, <1>7, <1>11
  <2> QED BY <1>1, <1>2, <2>1, <2>2
<1>14. \A f, g \in m' : f.key = g.key => f = g
  BY <1>1, <1>2, <1>3
<1>15. dirty' \/ keys' = << >> \/ keys' = Ascending(KeysOf(m'))
  <2>1. ASSUME ~dirty' PROVE KeysOf(m') = KeysOf(m) /\ ~dirty
    <3>1. k \in KeysOf(m) /\ ~dirty
      BY <1>1, <2>1
    <3>2. KeysOf(m') = KeysOf(rest) \cup {k}
      BY <1>1, <1>3 DEF KeysOf
    <3>3. KeysOf(m) = KeysOf(rest) \cup {k}
      BY <3>1 DEF KeysOf
    <3> QED BY <3>1, <3>2, <3>3
  <2>2. keys' = keys
    BY <1>1
  <2> QED BY <2>1, <2>2 DEF MemInv
<1> QED BY <1>7, <1>8, <1>12, <1>13, <1>14, <1>15 DEF MemInv

LEMMA EntriesMem == MemInv /\ Entries => MemInv'
BY DEF MemInv, Entries, KeysOf

LEMMA WriteMem ==
  ASSUME MemInv, NEW k \in Keys, Delete(k) \/ \E len \in ValueLens : Put(k, len)
  PROVE  MemInv'
<1>1. CASE Delete(k)
  <2>1. 0 \in ValueLens \cup {0} /\ TRUE \in BOOLEAN
    OBVIOUS
  <2> QED BY <1>1, <2>1, StoreMem DEF Delete
<1>2. ASSUME NEW len \in ValueLens, Put(k, len) PROVE MemInv'
  <2>1. len \in ValueLens \cup {0} /\ FALSE \in BOOLEAN
    OBVIOUS
  <2> QED BY <1>2, <2>1, StoreMem DEF Put
<1> QED BY <1>1, <1>2

\* An empty memtable, wherever it comes from.
LEMMA EmptyMem ==
  ASSUME MemInv, m' = {}, size' = 0, keys' = << >>, UNCHANGED now
  PROVE  MemInv'
<1>1. Total(Counts, m') = 0
  <2>1. IsFiniteSet(m')
    BY FS_EmptySet
  <2>2. Total(Counts, m') = IF m' = {} THEN 0
                            ELSE Counts[Some(m')] + Total(Counts, m' \ {Some(m')})
    BY <2>1, TotalStep
  <2> QED BY <2>2
<1>2. IsFiniteSet(m') /\ Cardinality(m') = 0
  BY FS_EmptySet
<1>3. now \in 0 .. MaxNow
  BY DEF MemInv
<1> QED BY <1>1, <1>2, <1>3, MemTableAssumption DEF MemInv

\* A step of the memtable alone, and a step of a flush.
LEMMA StepMem == MemInv /\ [Next]_vars => MemInv'
<1> SUFFICES ASSUME MemInv, [Next]_vars PROVE MemInv'
  OBVIOUS
<1>1. CASE \E k \in Keys : Delete(k) \/ \E len \in ValueLens : Put(k, len)
  BY <1>1, WriteMem
<1>2. CASE Entries
  BY <1>2, EntriesMem
<1>3. CASE UNCHANGED vars
  BY <1>3 DEF vars, MemInv, KeysOf
<1> QED BY <1>1, <1>2, <1>3 DEF Next

LEMMA StepFlushMem == MemInv /\ [FlushNext]_allVars => MemInv'
<1> SUFFICES ASSUME MemInv, [FlushNext]_allVars PROVE MemInv'
  OBVIOUS
<1>1. CASE Write
  BY <1>1, WriteMem DEF Write
<1>2. CASE UNCHANGED vars
  BY <1>2 DEF vars, MemInv, KeysOf
<1>3. CASE FlushNothing
  BY <1>2, <1>3 DEF FlushNothing, allVars
<1>4. CASE CreateWriter
  BY <1>4, EntriesMem DEF CreateWriter
<1>5. CASE WriterAppend
  BY <1>2, <1>5 DEF WriterAppend
<1>6. CASE WriterClose
  BY <1>2, <1>6 DEF WriterClose
<1>7. CASE WriterFails
  BY <1>2, <1>7 DEF WriterFails
<1>8. CASE Install
  BY <1>8, EmptyMem DEF Install
<1>9. CASE Restart
  BY <1>9 DEF Restart, MemInv, KeysOf
<1>10. CASE UNCHANGED allVars
  BY <1>2, <1>10 DEF allVars
<1> QED BY <1>1, <1>3, <1>4, <1>5, <1>6, <1>7, <1>8, <1>9, <1>10 DEF FlushNext

LEMMA MemSize == MemInv => SizeExact
BY SizeSum DEF MemInv, SizeExact

\* PutBatch decides by the size whether to flush: however often entries are overwritten
\* or deleted, it is the sum over those there are.
THEOREM SizeExactAlways == FlushSpec => []SizeExact
<1>1. FlushInit => MemInv
  BY InitMem DEF FlushInit
<1>2. MemInv /\ [FlushNext]_allVars => MemInv'
  BY StepFlushMem
<1>3. MemInv => SizeExact
  BY MemSize
<1> QED BY <1>1, <1>2, <1>3, PTL DEF FlushSpec

\* The same of a memtable that nothing is done with but writes and calls of Entries.
THEOREM SizeExactAlone == Spec => []SizeExact
<1>1. Init => MemInv
  BY InitMem
<1>2. MemInv /\ [Next]_vars => MemInv'
  BY StepMem
<1>3. MemInv => SizeExact
  BY MemSize
<1> QED BY <1>1, <1>2, <1>3, PTL DEF Spec
-----------------------------------------------------------------------------
(* Sorting.                                                                *)

Increasing(s, N) == \A i, j \in 1 .. N : i < j => s[i] < s[j]

LEMMA AscendingExists ==
  ASSUME NEW S, S \subseteq Int, IsFiniteSet(S)
  PROVE  \E s \in [1 .. Cardinality(S) -> S] : Increasing(s, Cardinality(S))
<1> DEFINE bad == {T \in SUBSET S : \A s \in [1 .. Cardinality(T) -> T] :
                                      ~Increasing(s, Cardinality(T))}
<1>1. CASE bad = {}
  BY <1>1
<1>2. CASE bad # {}
  <2>1. IsFiniteSet(S) /\ bad \in SUBSET (SUBSET S)
    OBVIOUS
  <2>2. PICK T \in bad : \A Y \in bad : Y \subseteq T => Y = T
    <3> HIDE DEF bad
    <3> QED BY ONLY <1>2, <2>1, MinimalSet
  <2> DEFINE c == Cardinality(T)
  <2>3. T \subseteq S /\ T \subseteq Int
    OBVIOUS
  <2>4. IsFiniteSet(T) /\ c \in Nat
    <3>1. T \in SUBSET S
      OBVIOUS
    <3>2. IsFiniteSet(T)
      BY ONLY <2>1, <3>1, FS_Subset
    <3> QED BY ONLY <3>2, FS_CardinalityType
  <2>5. CASE T = {}
    <3>1. c = 0
      BY ONLY <2>4, <2>5, FS_EmptySet
    <3>2. [n \in 1 .. c |-> 0] \in [1 .. c -> T] /\ Increasing([n \in 1 .. c |-> 0], c)
      BY <3>1 DEF Increasing
    <3> QED BY <3>2
  <2>6. CASE T # {}
    <3>1. PICK p \in T : \A q \in T : q <= p
      BY ONLY <2>3, <2>4, <2>6, GreatestNumber
    <3> DEFINE R == T \ {p}
    <3>2. IsFiniteSet(R) /\ Cardinality(R) = c - 1
      BY ONLY <2>4, <3>1, FS_RemoveElement
    <3>3. R \notin bad
      BY <2>2
    <3>4. PICK r \in [1 .. Cardinality(R) -> R] : Increasing(r, Cardinality(R))
      BY <2>3, <3>3
    <3> DEFINE s == [n \in 1 .. c |-> IF n = c THEN p ELSE r[n]]
    <3>5. ASSUME NEW n \in 1 .. c, n # c PROVE r[n] \in R
      <4> HIDE DEF c, R
      <4>1. n \in 1 .. Cardinality(R)
        BY <2>4, <3>2, <3>5
      <4> QED BY <3>4, <4>1
    <3>6. s \in [1 .. c -> T]
      <4> HIDE DEF c
      <4> QED BY <3>5
    <3>7. Increasing(s, c)
      <4> SUFFICES ASSUME NEW i \in 1 .. c, NEW j \in 1 .. c, i < j PROVE s[i] < s[j]
        BY DEF Increasing
      <4> HIDE DEF c
      <4>1. i # c /\ s[i] = r[i] /\ r[i] \in R
        <5>1. i # c
          BY <2>4
        <5> HIDE DEF R
        <5> QED BY <3>5, <5>1
      <4>2. CASE j = c
        <5>1. s[j] = p
          BY <4>2
        <5>2. r[i] <= p /\ r[i] # p /\ r[i] \in Int /\ p \in Int
          BY <2>3, <3>1, <4>1
        <5> QED BY <4>1, <5>1, <5>2
      <4>3. CASE j # c
        <5>1. s[j] = r[j] /\ i \in 1 .. c - 1 /\ j \in 1 .. c - 1
          BY <2>4, <4>1, <4>3
        <5> QED BY <3>2, <3>4, <4>1, <5>1 DEF Increasing
      <4> QED BY <4>2, <4>3
    <3> HIDE DEF s, c
    <3> QED BY <3>6, <3>7 DEF c
  <2> QED BY <2>5, <2>6
<1> QED BY <1>1, <1>2

LEMMA AscendingIs ==
  ASSUME NEW S, S \subseteq Int, IsFiniteSet(S)
  PROVE  /\ Cardinality(S) \in Nat
         /\ Ascending(S) \in [1 .. Cardinality(S) -> S]
         /\ Increasing(Ascending(S), Cardinality(S))
         /\ \A k \in S : \E n \in 1 .. Cardinality(S) : Ascending(S)[n] = k
<1> DEFINE c == Cardinality(S)
           s == Ascending(S)
<1>1. c \in Nat /\ IsFiniteSet(S)
  <2>1. IsFiniteSet(S)
    OBVIOUS
  <2> QED BY ONLY <2>1, FS_CardinalityType
<1>2. s \in [1 .. c -> S] /\ Increasing(s, c)
  <2>1. PICK t \in [1 .. c -> S] : Increasing(t, c)
    BY AscendingExists
  <2> HIDE DEF c
  <2>2. \A i, j \in DOMAIN t : i < j => t[i] < t[j]
    BY <2>1 DEF Increasing
  <2>3. s \in [1 .. c -> S] /\ \A i, j \in DOMAIN s : i < j => s[i] < s[j]
    BY <2>2 DEF Ascending, c
  <2>4. DOMAIN s = 1 .. c
    BY <2>3
  <2> QED BY <2>3, <2>4 DEF Increasing
<1> HIDE DEF c, s
<1>3. s \in Injection(1 .. c, S)
  <2>1. ASSUME NEW i \in 1 .. c, NEW j \in 1 .. c, i # j PROVE s[i] # s[j]
    <3>1. s[i] \in Int /\ s[j] \in Int
      BY <1>2
    <3>2. i < j \/ j < i
      BY <1>1, <2>1
    <3> QED BY <1>2, <3>1, <3>2 DEF Increasing
  <2> QED BY <1>2, <2>1 DEF Injection, IsInjective
<1>4. Cardinality(1 .. c) = c
  <2>1. 1 \in Int /\ c \in Int
    BY <1>1
  <2>2. Cardinality(1 .. c) = IF 1 > c THEN 0 ELSE c - 1 + 1
    BY <2>1, FS_Interval
  <2> QED BY <1>1, <2>2
<1>5. s \in Surjection(1 .. c, S)
  BY ONLY <1>1, <1>3, <1>4, FS_Injection DEF c
<1> QED BY <1>1, <1>2, <1>5 DEF Surjection, c, s
-----------------------------------------------------------------------------
(* Lengths, and the powers of two.                                         *)

Bound == InitialMmapSize * 2 ^ 10

LEMMA EntryLenIs ==
  ASSUME NEW e \in Version
  PROVE  /\ EntryLen(e) \in Nat /\ EntryLen(e) > 0
         /\ MaxNow * EntryLen(e) < Bound
<1>1. e.key \in Keys /\ e.len \in ValueLens \cup {0}
  BY DEF Version
<1>2. e.len \in Nat
  <2>1. ValueLens \cup {0} \subseteq Nat
    BY MemTableAssumption
  <2> QED BY <1>1, <2>1
<1>3. KeyLen[e.key] \in Nat
  BY <1>1, MemTableAssumption, Zenon
<1>4. EntryLen(e) \in Nat /\ EntryLen(e) > 0
  BY <1>2, <1>3 DEF EntryLen, UvarintLen
<1>5. EntryLen(e) = EntryLen([key |-> e.key, len |-> e.len])
  BY DEF EntryLen
<1>6. MaxNow * EntryLen([key |-> e.key, len |-> e.len]) < Bound
  BY <1>1, BoundAssumption, Zenon DEF Bound
<1> QED BY <1>4, <1>5, <1>6

LEMMA DoublingsAre ==
  /\ InitialMmapSize \in Nat /\ InitialMmapSize > 0
  /\ Bound = 1024 * InitialMmapSize
  /\ Doublings = {InitialMmapSize, 2 * InitialMmapSize, 4 * InitialMmapSize,
                  8 * InitialMmapSize, 16 * InitialMmapSize, 32 * InitialMmapSize,
                  64 * InitialMmapSize, 128 * InitialMmapSize, 256 * InitialMmapSize,
                  512 * InitialMmapSize, 1024 * InitialMmapSize}
<1>1. InitialMmapSize \in Nat /\ InitialMmapSize > 0
  BY FlushFileAssumption
<1>2. Bound = 1024 * InitialMmapSize
  BY <1>1 DEF Bound
<1>3. 0 .. 10 = {0, 1, 2, 3, 4, 5, 6, 7, 8, 9, 10}
  OBVIOUS
<1>4. /\ 2 ^ 0 = 1 /\ 2 ^ 1 = 2 /\ 2 ^ 2 = 4 /\ 2 ^ 3 = 8 /\ 2 ^ 4 = 16 /\ 2 ^ 5 = 32
      /\ 2 ^ 6 = 64 /\ 2 ^ 7 = 128 /\ 2 ^ 8 = 256 /\ 2 ^ 9 = 512 /\ 2 ^ 10 = 1024
  OBVIOUS
<1>5. Doublings = {InitialMmapSize * 2 ^ 0, InitialMmapSize * 2 ^ 1, InitialMmapSize * 2 ^ 2,
                   InitialMmapSize * 2 ^ 3, InitialMmapSize * 2 ^ 4, InitialMmapSize * 2 ^ 5,
                   InitialMmapSize * 2 ^ 6, InitialMmapSize * 2 ^ 7, InitialMmapSize * 2 ^ 8,
                   InitialMmapSize * 2 ^ 9, InitialMmapSize * 2 ^ 10}
  BY <1>3, Zenon DEF Doublings
<1> QED BY <1>1, <1>2, <1>4, <1>5

\* One is at least twice the one before.
LEMMA DoublingGap ==
  ASSUME NEW c \in Doublings, NEW d \in Doublings
  PROVE  c \in Nat /\ c > 0 /\ (c < d => 2 * c <= d)
BY DoublingsAre

\* grow finds a size.
LEMMA GrownIs ==
  ASSUME NEW need \in Nat, need < Bound, mmapCap \in Doublings
  PROVE  /\ Grown(need) \in Doublings /\ need <= Grown(need)
         /\ IF need > mmapCap THEN Grown(need) <= 2 * need ELSE Grown(need) = mmapCap
<1>1. CASE need > mmapCap
  <2>1. need >= InitialMmapSize
    BY <1>1, DoublingsAre
  <2>2. \E c \in Doublings : need < c /\ c <= 2 * need
    BY <2>1, DoublingsAre
  <2>3. Grown(need) \in Doublings /\ need < Grown(need) /\ Grown(need) <= 2 * need
    BY <1>1, <2>2 DEF Grown
  <2>4. Grown(need) \in Nat
    BY <2>3, DoublingGap
  <2> QED BY <1>1, <2>3, <2>4
<1>2. CASE ~(need > mmapCap)
  <2>1. mmapCap \in Nat
    BY DoublingGap
  <2> QED BY <1>2, <2>1 DEF Grown
<1> QED BY <1>1, <1>2

LEMMA NewBloomIs ==
  ASSUME NEW n \in Nat, 10 * n <= 2 ^ 20
  PROVE  /\ NewBloom(n).numBits \in Nat
         /\ NewBloom(n) = [numBits |-> NewBloom(n).numBits, numHash |-> NewBloom(n).numHash,
                           bits |-> {}]
<1> DEFINE powers == {2 ^ i : i \in 6 .. 20}
<1>1. powers = {64, 128, 256, 512, 1024, 2048, 4096, 8192, 16384, 32768, 65536, 131072,
                262144, 524288, 1048576}
  <2>1. 6 .. 20 = {6, 7, 8, 9, 10, 11, 12, 13, 14, 15, 16, 17, 18, 19, 20}
    OBVIOUS
  <2>2. powers = {2 ^ 6, 2 ^ 7, 2 ^ 8, 2 ^ 9, 2 ^ 10, 2 ^ 11, 2 ^ 12, 2 ^ 13, 2 ^ 14, 2 ^ 15,
                  2 ^ 16, 2 ^ 17, 2 ^ 18, 2 ^ 19, 2 ^ 20}
    BY <2>1
  <2> QED BY <2>2
<1> HIDE DEF powers
<1>2. \E p \in powers : p >= 10 * n /\ \A q \in powers : q >= 10 * n => p <= q
  <2>1. 10 * n <= 1048576
    OBVIOUS
  <2> QED BY <1>1, <2>1
<1>3. Pow2From(10 * n) \in powers
  BY <1>2 DEF Pow2From, powers
<1>4. Pow2From(10 * n) \in Nat
  BY <1>1, <1>3
<1> QED BY <1>4 DEF NewBloom

Pointer == [key : Keys, offset : Nat]

\* What the variables are at any time.
Types ==
  /\ result \in Seq(Version) /\ index \in Seq(Pointer)
  /\ bloom.numBits \in Nat
  /\ bloom = [numBits |-> bloom.numBits, numHash |-> bloom.numHash, bits |-> bloom.bits]

Lens == [n \in DOMAIN result |-> EntryLen(result[n])]

LEMMA LensAre ==
  ASSUME Types
  PROVE  /\ Len(result) \in Nat /\ DOMAIN result = 1 .. Len(result)
         /\ \A n \in 1 .. Len(result) :
              /\ result[n] \in Version
              /\ Lens[n] \in Nat /\ Lens[n] > 0 /\ Lens[n] = EntryLen(result[n])
              /\ MaxNow * Lens[n] < Bound
<1>1. Len(result) \in Nat /\ DOMAIN result = 1 .. Len(result)
  BY DEF Types
<1>2. ASSUME NEW n \in 1 .. Len(result) PROVE result[n] \in Version
  BY DEF Types
<1>3. ASSUME NEW n \in 1 .. Len(result) PROVE Lens[n] = EntryLen(result[n])
  BY <1>1 DEF Lens
<1> QED BY <1>1, <1>2, <1>3, EntryLenIs

\* The sum in DataLen.
LEMMA DataSum == Types => DataLen = Total(Lens, DOMAIN result) /\ DataLen \in Int
<1> SUFFICES ASSUME Types PROVE DataLen = Total(Lens, DOMAIN result) /\ DataLen \in Int
  OBVIOUS
<1> DEFINE S       == DOMAIN result
           step(f) == [s \in SUBSET S |-> IF s = {} THEN 0
                                          ELSE EntryLen(result[Some(s)]) + f[s \ {Some(s)}]]
           sum     == CHOOSE f : f = step(f)
<1>1. DataLen = sum[S]
  BY DEF DataLen, FSE!MapThenSumSet, FSE!MapThenFoldSet, Some
<1>2. IsFiniteSet(S)
  <2>1. S = 1 .. Len(result) /\ 1 \in Int /\ Len(result) \in Int
    BY LensAre
  <2> QED BY <2>1, FS_Interval
<1>3. ASSUME NEW f PROVE Summing(f, Lens, S) <=> f = step(f)
  <2>1. ASSUME NEW s \in SUBSET S, s # {} PROVE Lens[Some(s)] = EntryLen(result[Some(s)])
    BY <2>1, SomeIn DEF Lens
  <2> QED BY <2>1 DEF Summing
<1>4. PICK f : Summing(f, Lens, S)
  BY <1>2, SummingExists
<1>5. Summing(sum, Lens, S)
  <2>1. f = step(f)
    BY <1>3, <1>4
  <2> HIDE DEF step
  <2>2. sum = step(sum)
    BY <2>1
  <2> QED BY <1>3, <2>2
<1>6. \A n \in S : Lens[n] \in Int
  BY LensAre
<1> HIDE DEF sum, S
<1>7. DataLen = Total(Lens, S) /\ Total(Lens, S) \in Int
  BY <1>1, <1>2, <1>5, <1>6, TotalIs, TotalInt
<1> QED BY <1>7 DEF S

\* The sum in IndexLen is a number.
LEMMA IndexLenInt ==
  ASSUME Types
  PROVE  IndexLen(index) \in Int
<1> DEFINE S       == DOMAIN index
           w       == [n \in S |-> UvarintLen(KeyLen[index[n].key]) + KeyLen[index[n].key]
                                     + UvarintLen(index[n].offset)]
           step(f) == [s \in SUBSET S |->
                         IF s = {} THEN 0
                         ELSE (UvarintLen(KeyLen[index[Some(s)].key]) + KeyLen[index[Some(s)].key]
                                 + UvarintLen(index[Some(s)].offset)) + f[s \ {Some(s)}]]
           sum     == CHOOSE f : f = step(f)
<1>1. IndexLen(index) = UvarintLen(Step) + UvarintLen(Len(index)) + sum[S]
  BY DEF IndexLen, FSE!MapThenSumSet, FSE!MapThenFoldSet, Some
<1>2. IsFiniteSet(S)
  <2>1. S = 1 .. Len(index) /\ 1 \in Int /\ Len(index) \in Int
    BY DEF Types
  <2> QED BY <2>1, FS_Interval
<1>3. ASSUME NEW f PROVE Summing(f, w, S) <=> f = step(f)
  <2>1. ASSUME NEW s \in SUBSET S, s # {}
        PROVE  w[Some(s)] = UvarintLen(KeyLen[index[Some(s)].key]) + KeyLen[index[Some(s)].key]
                              + UvarintLen(index[Some(s)].offset)
    BY <2>1, SomeIn
  <2> HIDE DEF w
  <2> QED BY <2>1 DEF Summing
<1>4. PICK f : Summing(f, w, S)
  <2> HIDE DEF w
  <2> QED BY <1>2, SummingExists
<1>5. Summing(sum, w, S)
  <2> HIDE DEF w
  <2>1. f = step(f)
    BY <1>3, <1>4
  <2> HIDE DEF step
  <2>2. sum = step(sum)
    BY <2>1
  <2> QED BY <1>3, <2>2
<1>6. \A n \in S : w[n] \in Int
  <2>1. ASSUME NEW n \in S PROVE KeyLen[index[n].key] \in Nat
    <3>1. index[n] \in Pointer
      BY DEF Types
    <3>2. index[n].key \in Keys
      BY <3>1 DEF Pointer
    <3> QED BY <3>2, MemTableAssumption, Zenon
  <2> QED BY <2>1 DEF UvarintLen
<1> HIDE DEF sum, S, w
<1>7. sum[S] \in Int
  BY <1>2, <1>5, <1>6, TotalIs, TotalInt
<1> QED BY <1>1, <1>7 DEF UvarintLen

TailLen == IndexLen(index) + BloomLen(bloom) + FooterLen

LEMMA TailLenIs ==
  ASSUME Types
  PROVE  /\ IndexLen(index) \in Int /\ BloomLen(bloom) \in Int /\ TailLen \in Int
<1>1. BloomLen(bloom) \in Int
  BY DEF Types, BloomLen, UvarintLen
<1> QED BY <1>1, IndexLenInt DEF TailLen, FooterLen
-----------------------------------------------------------------------------
(* What a flush starts from.                                               *)

\* result has the entries of the memtable, in the order of their keys.
Listed ==
  /\ Len(result) \in 1 .. MaxNow
  /\ m = {result[n] : n \in 1 .. Len(result)}
  /\ \A i, j \in 1 .. Len(result) : i < j => result[i].key < result[j].key

LEMMA KeysAre ==
  ASSUME MemInv
  PROVE  /\ IsFiniteSet(KeysOf(m)) /\ KeysOf(m) \subseteq Int
         /\ Cardinality(KeysOf(m)) \in 0 .. MaxNow
         /\ m # {} => Cardinality(KeysOf(m)) # 0
<1> DEFINE f == [e \in m |-> e.key]
           K == KeysOf(m)
<1>1. K \subseteq Int
  <2>1. \A e \in m : e.key \in Keys
    BY DEF MemInv, Version
  <2> QED BY <2>1, MemTableAssumption DEF KeysOf
<1>2. f \in Surjection(m, K)
  BY DEF Surjection, KeysOf
<1>3. IsFiniteSet(m) /\ Cardinality(m) <= now /\ now \in Nat /\ now <= MaxNow
  BY MemTableAssumption DEF MemInv
<1> HIDE DEF f, K
<1>4. IsFiniteSet(K) /\ Cardinality(K) <= Cardinality(m)
  BY ONLY <1>2, <1>3, FS_Surjection
<1>5. Cardinality(K) \in Nat /\ Cardinality(m) \in Nat
  BY ONLY <1>3, <1>4, FS_CardinalityType
<1>6. Cardinality(K) \in 0 .. MaxNow
  BY <1>3, <1>4, <1>5, MemTableAssumption
<1>7. ASSUME m # {} PROVE Cardinality(K) # 0
  <2>1. K # {}
    BY <1>7 DEF K, KeysOf
  <2> QED BY ONLY <1>4, <2>1, FS_EmptySet
<1> QED BY <1>1, <1>4, <1>6, <1>7 DEF K

LEMMA EntriesAre ==
  ASSUME MemInv, Entries
  PROVE  result' \in Seq(Version) /\ (m # {} => Listed')
<1> DEFINE K == KeysOf(m)
           c == Cardinality(K)
           s == Ascending(K)
<1>1. /\ c \in Nat /\ s \in [1 .. c -> K] /\ Increasing(s, c)
      /\ \A k \in K : \E n \in 1 .. c : s[n] = k
  BY KeysAre, AscendingIs
<1>2. keys' = s
  BY DEF MemInv, Entries
<1>3. result' = [n \in 1 .. c |-> At(s[n])] /\ m' = m
  BY <1>1, <1>2 DEF Entries
<1>4. ASSUME NEW k \in K PROVE At(k) \in m /\ At(k).key = k
  BY <1>4 DEF KeysOf, At
<1>5. m \subseteq Version /\ \A e \in m : At(e.key) = e /\ e.key \in K
  <2>1. \A e \in m : e.key \in K
    BY DEF KeysOf
  <2> HIDE DEF K
  <2> QED BY <1>4, <2>1 DEF MemInv
<1>6. c \in 0 .. MaxNow /\ (m # {} => c # 0)
  BY KeysAre
<1> HIDE DEF c, s, K
<1>7. ASSUME NEW n \in 1 .. c
      PROVE  result'[n] = At(s[n]) /\ result'[n] \in m /\ result'[n].key = s[n]
  BY <1>1, <1>3, <1>4
<1>8. result' \in Seq(Version) /\ Len(result') = c
  BY <1>1, <1>3, <1>5, <1>7
<1>9. ASSUME NEW e \in m PROVE \E n \in 1 .. c : result'[n] = e
  BY <1>1, <1>5, <1>7
<1>10. \A i, j \in 1 .. c : i < j => result'[i].key < result'[j].key
  BY <1>1, <1>7 DEF Increasing
<1>11. m' = {result'[n] : n \in 1 .. c}
  BY <1>3, <1>7, <1>9
<1> QED BY <1>1, <1>6, <1>8, <1>10, <1>11, MemTableAssumption DEF Listed
-----------------------------------------------------------------------------
(* The invariant of a flush.                                               *)

EntryBlock == [kind : {"entry"}, of : Version, at : Nat, whole : BOOLEAN]

\* A mapping that has grown to cap for the first N entries, of len bytes, is at most
\* twice as long as they are, or has its first length.
Fits(cap, len, N) ==
  /\ cap \in Doublings /\ len <= cap
  /\ \A d \in Doublings :
       d < cap => d < len \/ (d = len /\ \E n \in 1 .. N : 2 * EntryLen(result[n]) >= d)

\* The first N entries lie in the file one behind the other, and the filter and the
\* index have them.
Written(N, end) ==
  /\ \A n \in 1 .. N :
       /\ file[n] = [kind |-> "entry", of |-> result[n], at |-> file[n].at, whole |-> TRUE]
       /\ file[n].at \in Nat /\ file[n].at < end
  /\ \A i, j \in 1 .. N : i < j => file[i].at < file[j].at
  /\ \A n \in 1 .. Len(index) : \E p \in 1 .. N :
       index[n] = [key |-> result[p].key, offset |-> file[p].at]
  /\ N > 0 =>
       /\ file[1].at = 0
       /\ Len(index) > 0 /\ index[1].key = result[1].key
       /\ \E p \in 1 .. N : /\ (p - 1) % Step = 0 /\ N < p + Step
                            /\ index[Len(index)].key = result[p].key
  /\ \A n \in 1 .. N : Positions(bloom, result[n].key) \subseteq bloom.bits

Appending ==
  pc = "append" =>
    /\ Listed
    /\ file \in Seq(EntryBlock) /\ Len(file) <= Len(result)
    /\ bytePos \in Nat /\ bytePos = Total(Lens, 1 .. Len(file))
    /\ MaxNow * bytePos <= Len(file) * (Bound - 1)
    /\ Fits(mmapCap, bytePos, Len(file))
    /\ Written(Len(file), bytePos)

Closed ==
  pc = "closed" =>
    LET N == Len(result)
    IN  /\ Listed
        /\ Len(file) = N + 3
        /\ \A n \in N + 1 .. N + 3 : file[n].kind # "entry"
        /\ file[N + 1].of = index /\ file[N + 2].of = bloom
        /\ Written(N, file[N + 3].of.index)
        /\ file[N + 3].whole <=> DataLen + TailLen <= mmapCap

Ended ==
  /\ pc \in {"closed", "open", "refused", "panic"} => Fits(mmapCap, DataLen, Len(result))
  /\ pc = "open" => DataLen + TailLen <= mmapCap
  /\ pc \in {"refused", "panic"} => DataLen + TailLen > mmapCap

FlushInv == MemInv /\ Types /\ Appending /\ Closed /\ Ended

LEMMA InitFlush == FlushInit => FlushInv
<1> SUFFICES ASSUME FlushInit PROVE FlushInv
  OBVIOUS
<1>1. MemInv
  BY InitMem DEF FlushInit
<1>2. Types
  <2>1. 10 * 1 <= 2 ^ 20 /\ 1 \in Nat
    OBVIOUS
  <2>2. bloom = NewBloom(1) /\ result = << >> /\ index = << >>
    BY DEF FlushInit, Init
  <2> QED BY <2>1, <2>2, NewBloomIs DEF Types
<1>3. pc = "idle"
  BY DEF FlushInit
<1> QED BY <1>1, <1>2, <1>3 DEF FlushInv, Appending, Closed, Ended

\* The next entry fits.
LEMMA FitsStep ==
  ASSUME NEW cap, NEW len \in Nat, NEW N \in Nat, Fits(cap, len, N),
         NEW L \in Nat, L > 0, L = EntryLen(result[N + 1]),
         NEW d, d \in Doublings, len + L <= d,
         IF len + L > cap THEN d <= 2 * (len + L) ELSE d = cap
  PROVE  Fits(d, len + L, N + 1)
<1>1. /\ cap \in Doublings /\ len <= cap
      /\ \A c \in Doublings :
           c < cap => c < len \/ (c = len /\ \E n \in 1 .. N : 2 * EntryLen(result[n]) >= c)
  BY DEF Fits
<1>2. cap \in Nat /\ d \in Nat
  BY <1>1, DoublingGap
<1> SUFFICES ASSUME NEW c \in Doublings, c < d
             PROVE  c < len + L \/ (c = len + L /\ 2 * L >= c)
  <2>1. N + 1 \in 1 .. N + 1
    OBVIOUS
  <2> QED BY <2>1 DEF Fits
<1>3. c \in Nat /\ 2 * c <= d
  BY DoublingGap
<1>4. CASE len + L > cap
  <2>1. c <= len + L
    BY <1>2, <1>3, <1>4
  <2>2. ASSUME c = len + L PROVE 2 * cap <= c
    BY <1>1, <1>4, <2>2, DoublingGap
  <2> QED BY <1>1, <1>2, <1>3, <2>1, <2>2
<1>5. CASE ~(len + L > cap)
  <2>1. c < cap
    BY <1>5
  <2> QED BY <1>1, <1>3, <2>1
<1> QED BY <1>4, <1>5

\* Products.
LEMMA TimesLess ==
  ASSUME NEW x \in Nat, NEW a \in Int, NEW b \in Int, x * a <= x * b, x > 0
  PROVE  a <= b
<1> SUFFICES ASSUME a >= b + 1 PROVE FALSE
  OBVIOUS
<1>1. x * a >= x * (b + 1)
  BY Z3
<1>2. x * (b + 1) = x * b + x
  BY Z3
<1> QED BY <1>1, <1>2, Z3

\* All entries together are shorter than the last doubling.
LEMMA LenStep ==
  ASSUME NEW x \in Nat, NEW B \in Nat, B > 0, NEW N \in Nat, N + 1 <= x,
         NEW len \in Nat, x * len <= N * (B - 1), NEW L \in Nat, x * L < B
  PROVE  x * (len + L) <= (N + 1) * (B - 1) /\ len + L < B
<1>1. x * (len + L) = x * len + x * L
  BY Z3
<1>2. (N + 1) * (B - 1) = N * (B - 1) + (B - 1)
  BY Z3
<1> DEFINE a == x * len
           b == x * L
           c == N * (B - 1)
<1>3. a \in Int /\ b \in Int /\ c \in Int
  OBVIOUS
<1>4. x * (len + L) <= (N + 1) * (B - 1)
  <2>1. a + b <= c + (B - 1)
    <3> HIDE DEF a, b, c
    <3>1. a <= c /\ b < B
      BY DEF a, b, c
    <3> QED BY <1>3, <3>1
  <2> QED BY <1>1, <1>2, <2>1
<1>5. (N + 1) * (B - 1) <= x * (B - 1)
  BY Z3
<1>6. x * (len + L) <= x * (B - 1)
  <2>1. x * (len + L) \in Int /\ x * (B - 1) \in Int /\ (N + 1) * (B - 1) \in Int
    OBVIOUS
  <2> QED BY <1>4, <1>5, <2>1
<1>7. len + L <= B - 1
  <2>1. x > 0 /\ len + L \in Int /\ B - 1 \in Int
    OBVIOUS
  <2> QED BY <1>6, <2>1, TimesLess
<1> QED BY <1>4, <1>7

\* A multiple of Step and Step is a multiple of Step.
LEMMA StepAhead ==
  ASSUME NEW a \in Nat, NEW s \in Nat \ {0}, a % s = 0
  PROVE  (a + s) % s = 0
<1>1. a = s * (a \div s) /\ a \div s \in Int
  OBVIOUS
<1> DEFINE q == a \div s
           b == a + s
<1>2. b = s * (q + 1)
  BY <1>1
<1> HIDE DEF b
<1>3. b % s = 0
  BY <1>1, <1>2
<1> QED BY <1>3 DEF b

\* An entry is appended.
LEMMA AppendFlush ==
  ASSUME FlushInv, WriterAppend
  PROVE  (Types /\ Appending)'
<1> DEFINE N    == Len(file)
           e    == result[N + 1]
           need == bytePos + EntryLen(e)
           new  == [key |-> e.key, offset |-> bytePos]
           blk  == [kind |-> "entry", of |-> e, at |-> bytePos, whole |-> TRUE]
<1>1. /\ pc = "append" /\ N < Len(result) /\ mmapCap' = Grown(need)
      /\ file' = Append(file, Block("entry", e, bytePos, EntryLen(e), mmapCap'))
      /\ bytePos' = need
      /\ bloom' = [bloom EXCEPT !.bits = @ \cup Positions(bloom, e.key)]
      /\ index' = IF N % Step = 0 THEN Append(index, new) ELSE index
      /\ UNCHANGED <<m, result, pc>>
  BY DEF WriterAppend, vars
<1>2. /\ Types /\ Listed /\ file \in Seq(EntryBlock)
      /\ bytePos \in Nat /\ bytePos = Total(Lens, 1 .. N)
      /\ MaxNow * bytePos <= N * (Bound - 1)
      /\ Fits(mmapCap, bytePos, N) /\ Written(N, bytePos)
  BY <1>1 DEF FlushInv, Appending
<1>3. /\ N \in Nat /\ N + 1 \in 1 .. Len(result) /\ N + 1 <= MaxNow /\ Len(result) \in Nat
      /\ MaxNow \in Nat
  <2>1. N \in Nat /\ Len(result) \in Nat
    BY <1>2, LensAre
  <2>2. Len(result) <= MaxNow
    BY <1>2, MemTableAssumption DEF Listed
  <2> HIDE DEF N
  <2> QED BY <1>1, <2>1, <2>2, MemTableAssumption
<1>4. /\ e \in Version /\ EntryLen(e) \in Nat /\ EntryLen(e) > 0 /\ MaxNow * EntryLen(e) < Bound
      /\ EntryLen(e) = Lens[N + 1]
  BY <1>2, <1>3, LensAre
<1>5. Bound \in Nat /\ Bound > 0
  BY DoublingsAre
<1>6. need \in Nat /\ need < Bound /\ MaxNow * need <= (N + 1) * (Bound - 1)
  <2> HIDE DEF N, e
  <2>1. /\ MaxNow \in Nat /\ Bound \in Nat /\ Bound > 0 /\ N \in Nat /\ N + 1 <= MaxNow
        /\ bytePos \in Nat /\ MaxNow * bytePos <= N * (Bound - 1)
        /\ EntryLen(e) \in Nat /\ MaxNow * EntryLen(e) < Bound
    BY <1>2, <1>3, <1>4, <1>5
  <2>2. MaxNow * need <= (N + 1) * (Bound - 1) /\ need < Bound
    BY ONLY <2>1, LenStep, Zenon
  <2> QED BY <2>1, <2>2
<1>7. /\ mmapCap' \in Doublings /\ need <= mmapCap'
      /\ IF need > mmapCap THEN mmapCap' <= 2 * need ELSE mmapCap' = mmapCap
  <2>1. mmapCap \in Doublings
    BY <1>2 DEF Fits
  <2> HIDE DEF need
  <2> QED BY <1>1, <1>6, <2>1, GrownIs
<1>8. Fits(mmapCap', need, N + 1)
  <2> HIDE DEF N, e
  <2> QED BY <1>2, <1>3, <1>4, <1>7, FitsStep DEF e
<1>9. file' = Append(file, blk) /\ blk \in EntryBlock
  <2>1. Block("entry", e, bytePos, EntryLen(e), mmapCap') = blk
    BY <1>7 DEF Block
  <2> HIDE DEF e
  <2>2. blk \in EntryBlock
    BY <1>2, <1>4 DEF EntryBlock
  <2> HIDE DEF blk
  <2> QED BY <1>1, <2>1, <2>2
<1>10. /\ file' \in Seq(EntryBlock) /\ Len(file') = N + 1 /\ file'[N + 1] = blk
       /\ \A n \in 1 .. N : file'[n] = file[n]
  <2> HIDE DEF blk
  <2> QED BY <1>2, <1>9
<1>11. need = Total(Lens', 1 .. N + 1)
  <2>1. Lens' = Lens
    BY <1>1 DEF Lens
  <2>2. IsFiniteSet(1 .. N + 1) /\ N + 1 \in 1 .. N + 1 /\ (1 .. N + 1) \ {N + 1} = 1 .. N
    <3>1. 1 \in Int /\ N + 1 \in Int
      BY <1>3
    <3>2. IsFiniteSet(1 .. N + 1)
      BY <3>1, FS_Interval
    <3> HIDE DEF N
    <3> QED BY <1>3, <3>2
  <2>3. \A n \in 1 .. N + 1 : Lens[n] \in Int
    BY <1>2, <1>3, LensAre
  <2> HIDE DEF N, e
  <2>4. Total(Lens, 1 .. N + 1) = Lens[N + 1] + Total(Lens, (1 .. N + 1) \ {N + 1})
    BY <2>2, <2>3, TotalRemove
  <2>5. Total(Lens, 1 .. N + 1) = Lens[N + 1] + Total(Lens, 1 .. N)
    BY <2>2, <2>4, Zenon
  <2>6. Total(Lens, 1 .. N + 1) = need
    BY <1>2, <1>4, <2>5
  <2> HIDE DEF need
  <2> QED BY <2>1, <2>6, Zenon
<1>12. /\ bloom' = [numBits |-> bloom.numBits, numHash |-> bloom.numHash,
                    bits |-> bloom.bits \cup Positions(bloom, e.key)]
       /\ \A k : Positions(bloom', k) = Positions(bloom, k)
  <2>1. bloom' = [numBits |-> bloom.numBits, numHash |-> bloom.numHash,
                  bits |-> bloom.bits \cup Positions(bloom, e.key)]
    BY <1>1, <1>2 DEF Types
  <2> QED BY <2>1 DEF Positions
<1>13. new \in Pointer /\ index \in Seq(Pointer)
  <2>1. e.key \in Keys
    BY <1>4 DEF Version
  <2> QED BY <1>2, <2>1 DEF Pointer, Types
<1>14. Types'
  <2>1. index' \in Seq(Pointer)
    <3> HIDE DEF new
    <3> QED BY <1>1, <1>13
  <2>2. result' \in Seq(Version) /\ bloom.numBits \in Nat
    BY <1>1, <1>2 DEF Types
  <2> QED BY <1>12, <2>1, <2>2 DEF Types
<1>15. Written(Len(file), bytePos)'
  <2>1. result' = result /\ bytePos' = need /\ Len(file') = N + 1
    BY <1>1, <1>10
  <2>2. blk.of = e /\ blk.at = bytePos
    OBVIOUS
  <2>3. Step \in Nat \ {0} /\ index \in Seq(Pointer) /\ Len(index) \in Nat
    BY <1>13, FlushFileAssumption
  <2>4. /\ \A n \in 1 .. Len(index) : index'[n] = index[n] /\ Len(index') >= Len(index)
        /\ Len(index') \in Nat
        /\ IF N % Step = 0 THEN Len(index') = Len(index) + 1 /\ index'[Len(index) + 1] = new
                           ELSE index' = index
    <3> HIDE DEF new
    <3> QED BY <1>1, <1>13
  <2>5. new.key = e.key /\ new.offset = bytePos
    OBVIOUS
  <2>6. need \in Nat /\ bytePos < need
    BY <1>2, <1>4, <1>6
  <2>7. ASSUME N = 0 PROVE bytePos = 0 /\ Len(index) = 0
    <3> HIDE DEF N
    <3>1. 1 .. N = {}
      BY <2>7
    <3>2. bytePos = 0
      <4>1. IsFiniteSet(1 .. N)
        BY <3>1, FS_EmptySet, Zenon
      <4>2. Total(Lens, 1 .. N) = IF 1 .. N = {} THEN 0
                                  ELSE Lens[Some(1 .. N)] + Total(Lens, (1 .. N) \ {Some(1 .. N)})
        BY <4>1, TotalStep, Zenon
      <4> QED BY <1>2, <3>1, <4>2, Zenon
    <3>3. \A n \in 1 .. Len(index) : \E p \in 1 .. N : TRUE
      BY <1>2 DEF Written
    <3> QED BY <2>3, <3>1, <3>2, <3>3
  <2>8. blk = [kind |-> "entry", of |-> result[N + 1], at |-> blk.at, whole |-> TRUE]
    OBVIOUS
  <2> HIDE DEF N, need, blk, new
  <2>9. ASSUME NEW n \in 1 .. N + 1
        PROVE  /\ file'[n] = [kind |-> "entry", of |-> result[n], at |-> file'[n].at,
                              whole |-> TRUE]
               /\ file'[n].at \in Nat /\ file'[n].at < need
    <3>1. CASE n = N + 1
      BY <1>2, <1>10, <2>2, <2>6, <2>8, <3>1
    <3>2. CASE n # N + 1
      <4>1. n \in 1 .. N
        BY <1>3, <3>2
      <4>2. /\ file[n] = [kind |-> "entry", of |-> result[n], at |-> file[n].at, whole |-> TRUE]
            /\ file[n].at \in Nat /\ file[n].at < bytePos
        BY <1>2, <4>1 DEF Written
      <4>3. file'[n] = file[n]
        BY <1>10, <4>1
      <4>4. file[n].at < need
        BY <1>2, <2>6, <4>2
      <4> QED BY <4>2, <4>3, <4>4
    <3> QED BY <3>1, <3>2
  <2>10. ASSUME NEW i \in 1 .. N + 1, NEW j \in 1 .. N + 1, i < j
         PROVE  file'[i].at < file'[j].at
    <3>1. i \in 1 .. N
      BY <1>3, <2>10
    <3>2. CASE j = N + 1
      <4>1. file'[j].at = bytePos /\ file'[i] = file[i]
        BY <1>10, <2>2, <3>1, <3>2
      <4> QED BY <1>2, <3>1, <4>1 DEF Written
    <3>3. CASE j # N + 1
      <4>1. j \in 1 .. N
        BY <1>3, <3>3
      <4>2. file'[i] = file[i] /\ file'[j] = file[j]
        BY <1>10, <3>1, <4>1
      <4> QED BY <1>2, <2>10, <3>1, <4>1, <4>2 DEF Written
    <3> QED BY <3>2, <3>3
  <2>11. ASSUME NEW n \in 1 .. Len(index')
         PROVE  \E p \in 1 .. N + 1 : index'[n] = [key |-> result[p].key, offset |-> file'[p].at]
    <3>1. CASE n \in 1 .. Len(index)
      <4>1. PICK p \in 1 .. N : index[n] = [key |-> result[p].key, offset |-> file[p].at]
        BY <1>2, <3>1 DEF Written
      <4>2. p \in 1 .. N + 1 /\ file'[p] = file[p] /\ index'[n] = index[n]
        BY <1>3, <1>10, <2>4, <3>1
      <4> QED BY <4>1, <4>2
    <3>2. CASE n \notin 1 .. Len(index)
      <4>1. index'[n] = new
        BY <2>3, <2>4, <3>2
      <4>2. N + 1 \in 1 .. N + 1 /\ file'[N + 1].at = bytePos
        BY <1>3, <1>10, <2>2
      <4>3. new = [key |-> result[N + 1].key, offset |-> file'[N + 1].at]
        BY <4>2 DEF new
      <4> QED BY <4>1, <4>2, <4>3
    <3> QED BY <3>1, <3>2
  <2>12. file'[1].at = 0 /\ Len(index') > 0 /\ index'[1].key = result[1].key
    <3>1. CASE N = 0
      <4>1. file'[1].at = 0
        BY <1>10, <2>2, <2>7, <3>1
      <4>2. N % Step = 0
        BY <2>3, <3>1
      <4> QED BY <2>4, <2>5, <2>7, <3>1, <4>1, <4>2
    <3>2. CASE N # 0
      <4>1. N > 0 /\ 1 \in 1 .. N
        BY <1>3, <3>2
      <4>2. file[1].at = 0 /\ Len(index) > 0 /\ index[1].key = result[1].key
        BY <1>2, <4>1 DEF Written
      <4> QED BY <1>10, <2>3, <2>4, <4>1, <4>2
    <3> QED BY <3>1, <3>2
  <2>13. \E p \in 1 .. N + 1 : /\ (p - 1) % Step = 0 /\ N + 1 < p + Step
                               /\ index'[Len(index')].key = result[p].key
    <3>1. CASE N % Step = 0
      <4>1. (N + 1) - 1 = N /\ N + 1 < (N + 1) + Step /\ N + 1 \in 1 .. N + 1
        BY <1>3, <2>3
      <4>2. index'[Len(index')].key = result[N + 1].key
        BY <2>4, <2>5, <3>1
      <4> QED BY <3>1, <4>1, <4>2
    <3>2. CASE N % Step # 0
      <4>1. N > 0
        BY <1>3, <2>3, <3>2
      <4>2. PICK p \in 1 .. N : /\ (p - 1) % Step = 0 /\ N < p + Step
                                /\ index[Len(index)].key = result[p].key
        BY <1>2, <4>1 DEF Written
      <4>3. N + 1 # p + Step
        <5>1. SUFFICES ASSUME N + 1 = p + Step PROVE FALSE
          OBVIOUS
        <5>2. N = (p - 1) + Step /\ p - 1 \in Nat
          BY <1>3, <2>3, <5>1
        <5> QED BY <2>3, <3>2, <4>2, <5>2, StepAhead
      <4>4. N + 1 < p + Step /\ p \in 1 .. N + 1
        BY <1>3, <2>3, <4>2, <4>3
      <4>5. index'[Len(index')].key = result[p].key
        BY <2>4, <3>2, <4>2
      <4> QED BY <4>2, <4>4, <4>5
    <3> QED BY <3>1, <3>2
  <2>14. ASSUME NEW n \in 1 .. N + 1
         PROVE  Positions(bloom', result[n].key) \subseteq bloom'.bits
    <3>1. /\ bloom'.bits = bloom.bits \cup Positions(bloom, e.key)
          /\ Positions(bloom', result[n].key) = Positions(bloom, result[n].key)
      BY <1>12
    <3>2. CASE n = N + 1
      BY <3>1, <3>2
    <3>3. CASE n # N + 1
      <4>1. n \in 1 .. N
        BY <1>3, <3>3
      <4>2. Positions(bloom, result[n].key) \subseteq bloom.bits
        BY <1>2, <4>1 DEF Written
      <4> QED BY <3>1, <4>2
    <3> QED BY <3>2, <3>3
  <2> HIDE DEF e
  <2> QED BY <2>1, <2>9, <2>10, <2>11, <2>12, <2>13, <2>14 DEF Written
<1>16. Listed'
  BY <1>1, <1>2 DEF Listed
<1>17. Fits(mmapCap, bytePos, Len(file))'
  BY <1>1, <1>8, <1>10 DEF Fits
<1> HIDE DEF N, e, need, blk, new
<1>19. N + 1 <= Len(result)
  BY <1>3
<1> QED BY <1>1, <1>6, <1>10, <1>11, <1>14, <1>15, <1>16, <1>17, <1>19 DEF Appending

\* What the three blocks add to a sequence.
LEMMA ThreeMore ==
  ASSUME NEW S, NEW s \in Seq(S), NEW a, NEW b, NEW c
  PROVE  LET t == s \o <<a, b, c>>
         IN  /\ Len(t) = Len(s) + 3
             /\ \A n \in 1 .. Len(s) : t[n] = s[n]
             /\ t[Len(s) + 1] = a /\ t[Len(s) + 2] = b /\ t[Len(s) + 3] = c
<1> DEFINE T == S \cup {a, b, c}
           u == <<a, b, c>>
<1>1. s \in Seq(T) /\ u \in Seq(T) /\ Len(u) = 3 /\ u[1] = a /\ u[2] = b /\ u[3] = c
  <2>1. \A n \in 1 .. Len(s) : s[n] \in T
    OBVIOUS
  <2>2. s \in Seq(T)
    <3> HIDE DEF T
    <3> QED BY <2>1
  <2>3. a \in T /\ b \in T /\ c \in T
    OBVIOUS
  <2> HIDE DEF T
  <2>4. u \in Seq(T)
    BY <2>3
  <2> QED BY <2>2, <2>4
<1> HIDE DEF T, u
<1> DEFINE t == s \o u
<1>2. /\ Len(t) = Len(s) + Len(u)
      /\ \A i \in 1 .. Len(s) + Len(u) : t[i] = IF i <= Len(s) THEN s[i] ELSE u[i - Len(s)]
  BY <1>1, ConcatProperties
<1> HIDE DEF t
<1>3. Len(t) = Len(s) + 3 /\ \A n \in 1 .. Len(s) : t[n] = s[n]
  BY <1>1, <1>2
<1>4. t[Len(s) + 1] = u[1] /\ t[Len(s) + 2] = u[2] /\ t[Len(s) + 3] = u[3]
  BY <1>1, <1>2
<1> USE DEF t
<1> QED BY <1>1, <1>2, <1>3, <1>4 DEF u

\* The lengths depend on what is flushed, not on the memtable.
LEMMA SameLengths ==
  ASSUME Types, UNCHANGED <<result, index, bloom>>
  PROVE  Types' /\ DataLen' = DataLen /\ TailLen' = TailLen
<1>1. Types'
  BY DEF Types
<1>2. DataLen = Total(Lens, DOMAIN result)
  BY DataSum
<1>3. (Types => DataLen = Total(Lens, DOMAIN result) /\ DataLen \in Int)'
  BY DataSum, PTL
<1>4. Lens' = Lens
  BY DEF Lens
<1>5. DataLen' = DataLen
  BY <1>1, <1>2, <1>3, <1>4
<1>6. TailLen' = TailLen
  BY DEF TailLen
<1> QED BY <1>1, <1>5, <1>6

\* The file is finished, or the writer panics.
LEMMA CloseFlush ==
  ASSUME FlushInv, WriterClose
  PROVE  Types' /\ Appending' /\ Closed' /\ Ended'
<1> DEFINE N        == Len(file)
           bloomAt  == bytePos + IndexLen(index)
           footerAt == bloomAt + BloomLen(bloom)
           offsets  == [index |-> bytePos, bloom |-> bloomAt]
           iblk     == Block("index", index, bytePos, IndexLen(index), mmapCap)
           bblk     == Block("bloom", bloom, bloomAt, BloomLen(bloom), mmapCap)
           fblk     == Block("footer", offsets, footerAt, FooterLen, mmapCap)
<1>1. /\ pc = "append" /\ N = Len(result)
      /\ UNCHANGED <<m, result, index, bloom, mmapCap>>
      /\ \/ footerAt > mmapCap /\ pc' = "panic"
         \/ footerAt <= mmapCap /\ pc' = "closed" /\ file' = file \o <<iblk, bblk, fblk>>
  BY DEF WriterClose, vars
<1>2. /\ Types /\ Listed /\ file \in Seq(EntryBlock) /\ N \in Nat
      /\ bytePos \in Nat /\ bytePos = Total(Lens, 1 .. N)
      /\ Fits(mmapCap, bytePos, N) /\ Written(N, bytePos)
  BY <1>1 DEF FlushInv, Appending
<1>3. DataLen = bytePos
  <2>1. DOMAIN result = 1 .. N
    BY <1>1, <1>2, LensAre
  <2> HIDE DEF N
  <2> QED BY <1>2, <2>1, DataSum
<1>4. Types' /\ DataLen' = DataLen /\ TailLen' = TailLen
  <2>1. UNCHANGED <<result, index, bloom>>
    BY <1>1
  <2> QED BY <1>2, <2>1, SameLengths
<1>5. /\ footerAt + FooterLen = DataLen + TailLen /\ footerAt \in Int
      /\ DataLen + TailLen \in Int
  <2>1. IndexLen(index) \in Int /\ BloomLen(bloom) \in Int
    BY <1>2, TailLenIs
  <2> QED BY <1>2, <1>3, <2>1 DEF TailLen, FooterLen
<1>6. mmapCap \in Nat
  BY <1>2, DoublingGap DEF Fits
<1>7. Fits(mmapCap, DataLen, Len(result))'
  <2>1. Fits(mmapCap, DataLen, Len(result))
    BY <1>1, <1>2, <1>3
  <2>2. DataLen' = DataLen /\ result' = result /\ mmapCap' = mmapCap
    BY <1>1, <1>4
  <2> QED BY <2>1, <2>2 DEF Fits
<1>8. CASE footerAt > mmapCap
  <2>1. pc' = "panic"
    <3> HIDE DEF footerAt
    <3> QED BY <1>1, <1>5, <1>6, <1>8
  <2>2. DataLen + TailLen > mmapCap
    <3> HIDE DEF footerAt
    <3> QED BY <1>5, <1>6, <1>8 DEF FooterLen
  <2>3. DataLen' + TailLen' > mmapCap'
    BY <1>1, <1>4, <2>2
  <2> QED BY <1>4, <1>7, <2>1, <2>3 DEF Appending, Closed, Ended
<1>9. CASE ~(footerAt > mmapCap)
  <2>1. pc' = "closed" /\ file' = file \o <<iblk, bblk, fblk>>
    <3> HIDE DEF footerAt
    <3> QED BY <1>1, <1>9
  <2>2. /\ iblk.kind = "index" /\ iblk.of = index
        /\ bblk.kind = "bloom" /\ bblk.of = bloom
        /\ fblk.kind = "footer" /\ fblk.of.index = bytePos
        /\ fblk.whole <=> footerAt + FooterLen <= mmapCap
    BY DEF Block
  <2> HIDE DEF iblk, bblk, fblk, footerAt, bloomAt
  <2>3. /\ Len(file') = N + 3
        /\ \A n \in 1 .. N : file'[n] = file[n]
        /\ file'[N + 1] = iblk /\ file'[N + 2] = bblk /\ file'[N + 3] = fblk
    BY <1>2, <2>1, ThreeMore
  <2>4. \A n \in N + 1 .. N + 3 : file'[n].kind # "entry"
    <3>1. \A n \in N + 1 .. N + 3 : n = N + 1 \/ n = N + 2 \/ n = N + 3
      BY <1>2
    <3> QED BY <2>2, <2>3, <3>1
  <2>5. Written(Len(result), file[Len(result) + 3].of.index)'
    <3>1. /\ file'[N + 3].of.index = bytePos /\ Len(result') = N /\ result' = result
          /\ index' = index /\ bloom' = bloom
      BY <1>1, <2>2, <2>3
    <3> HIDE DEF N
    <3>2. ASSUME NEW n \in 1 .. N
          PROVE  /\ file'[n] = [kind |-> "entry", of |-> result[n], at |-> file'[n].at,
                                whole |-> TRUE]
                 /\ file'[n].at \in Nat /\ file'[n].at < bytePos
      BY <1>2, <2>3 DEF Written
    <3>3. ASSUME NEW i \in 1 .. N, NEW j \in 1 .. N, i < j PROVE file'[i].at < file'[j].at
      BY <1>2, <2>3, <3>3 DEF Written
    <3>4. ASSUME NEW n \in 1 .. Len(index)
          PROVE  \E p \in 1 .. N : index[n] = [key |-> result[p].key, offset |-> file'[p].at]
      <4>1. PICK p \in 1 .. N : index[n] = [key |-> result[p].key, offset |-> file[p].at]
        BY <1>2 DEF Written
      <4>2. file'[p] = file[p]
        BY <2>3
      <4> QED BY <4>1, <4>2
    <3>5. ASSUME N > 0
          PROVE  /\ file'[1].at = 0
                 /\ Len(index) > 0 /\ index[1].key = result[1].key
                 /\ \E p \in 1 .. N : /\ (p - 1) % Step = 0 /\ N < p + Step
                                      /\ index[Len(index)].key = result[p].key
      <4>1. 1 \in 1 .. N
        BY <1>2, <3>5
      <4>2. file'[1] = file[1]
        BY <2>3, <4>1
      <4> QED BY <1>2, <3>5, <4>2 DEF Written
    <3>6. \A n \in 1 .. N : Positions(bloom, result[n].key) \subseteq bloom.bits
      BY <1>2 DEF Written
    <3>7. /\ \A n \in 1 .. N :
               /\ file'[n] = [kind |-> "entry", of |-> result'[n], at |-> file'[n].at,
                              whole |-> TRUE]
               /\ file'[n].at \in Nat /\ file'[n].at < file'[N + 3].of.index
          /\ \A n \in 1 .. Len(index') : \E p \in 1 .. N :
               index'[n] = [key |-> result'[p].key, offset |-> file'[p].at]
          /\ \A n \in 1 .. N : Positions(bloom', result'[n].key) \subseteq bloom'.bits
      BY <3>1, <3>2, <3>4, <3>6
    <3>8. N > 0 => /\ file'[1].at = 0
                   /\ Len(index') > 0 /\ index'[1].key = result'[1].key
                   /\ \E p \in 1 .. N : /\ (p - 1) % Step = 0 /\ N < p + Step
                                        /\ index'[Len(index')].key = result'[p].key
      BY <3>1, <3>5
    <3> QED BY <3>1, <3>3, <3>7, <3>8 DEF Written
  <2>6. file'[N + 3].whole <=> DataLen' + TailLen' <= mmapCap'
    BY <1>1, <1>4, <1>5, <2>2, <2>3
  <2>7. Listed'
    BY <1>1, <1>2 DEF Listed
  <2>8. Closed'
    <3>1. Len(result') = N /\ index' = index /\ bloom' = bloom
      BY <1>1
    <3> HIDE DEF N
    <3> QED BY <2>2, <2>3, <2>4, <2>5, <2>6, <2>7, <3>1 DEF Closed
  <2> QED BY <1>4, <1>7, <2>1, <2>8 DEF Appending, Ended
<1> QED BY <1>8, <1>9

\* The writer is made.
LEMMA CreateFlush ==
  ASSUME FlushInv, CreateWriter
  PROVE  Types' /\ Appending' /\ Closed' /\ Ended'
<1>1. /\ m # {} /\ Entries /\ pc' = "append" /\ file' = << >> /\ bytePos' = 0
      /\ mmapCap' = InitialMmapSize /\ index' = << >> /\ bloom' = NewBloom(Len(result'))
  BY DEF CreateWriter
<1>2. result' \in Seq(Version) /\ Listed'
  BY <1>1, EntriesAre DEF FlushInv
<1>3. Types'
  <2>1. Len(result') \in Nat /\ 10 * Len(result') <= 2 ^ 20
    <3>1. Len(result') \in 1 .. MaxNow
      BY <1>2 DEF Listed
    <3>2. 10 * MaxNow <= 2 ^ 20
      BY BoundAssumption
    <3> QED BY <3>1, <3>2, MemTableAssumption
  <2>2. /\ bloom'.numBits \in Nat
        /\ bloom' = [numBits |-> bloom'.numBits, numHash |-> bloom'.numHash, bits |-> {}]
    BY <1>1, <2>1, NewBloomIs, Zenon
  <2>3. bloom' = [numBits |-> bloom'.numBits, numHash |-> bloom'.numHash, bits |-> bloom'.bits]
    BY <2>2
  <2> QED BY <1>1, <1>2, <2>2, <2>3 DEF Types
<1>4. bytePos' = Total(Lens', 1 .. Len(file'))
  <2> DEFINE S == 1 .. Len(file')
  <2>1. S = {}
    BY <1>1
  <2> HIDE DEF S
  <2>2. IsFiniteSet(S)
    BY <2>1, FS_EmptySet, Zenon
  <2>3. Total(Lens', S) = IF S = {} THEN 0 ELSE Lens'[Some(S)] + Total(Lens', S \ {Some(S)})
    BY <2>2, TotalStep, Zenon
  <2>4. Total(Lens', S) = 0
    BY <2>1, <2>3, Zenon
  <2> QED BY <1>1, <2>4 DEF S
<1>5. Fits(mmapCap, bytePos, Len(file))'
  <2>1. InitialMmapSize \in Doublings /\ InitialMmapSize \in Nat
    BY DoublingsAre
  <2>2. \A d \in Doublings : ~(d < InitialMmapSize)
    BY DoublingsAre
  <2> QED BY <1>1, <2>1, <2>2 DEF Fits
<1>6. Written(Len(file), bytePos)'
  BY <1>1 DEF Written
<1>7. MaxNow * bytePos' <= Len(file') * (Bound - 1)
  BY <1>1, DoublingsAre, MemTableAssumption
<1>8. file' \in Seq(EntryBlock) /\ Len(file') <= Len(result') /\ bytePos' \in Nat
  BY <1>1, <1>2
<1>9. Appending'
  BY <1>2, <1>4, <1>5, <1>6, <1>7, <1>8 DEF Appending
<1> QED BY <1>1, <1>3, <1>9 DEF Closed, Ended

\* A new memtable takes the place of the old one.
LEMMA InstallFlush ==
  ASSUME FlushInv, Install
  PROVE  Types' /\ Appending' /\ Closed' /\ Ended'
<1>1. /\ pc = "closed" /\ pc' = IF file[Len(file)].whole THEN "open" ELSE "refused"
      /\ UNCHANGED <<result, mmapCap, index, bloom>>
  BY DEF Install
<1>2. Types' /\ DataLen' = DataLen /\ TailLen' = TailLen
  BY <1>1, SameLengths DEF FlushInv
<1>3. file[Len(file)].whole <=> DataLen + TailLen <= mmapCap
  BY <1>1 DEF FlushInv, Closed
<1>4. Fits(mmapCap, DataLen, Len(result))
  BY <1>1 DEF FlushInv, Ended
<1>5. Fits(mmapCap, DataLen, Len(result))'
  BY <1>1, <1>2, <1>4 DEF Fits
<1>6. DataLen + TailLen \in Int /\ mmapCap \in Int
  BY <1>4, DataSum, TailLenIs, DoublingGap DEF FlushInv, Fits
<1>7. Ended'
  <2>1. CASE file[Len(file)].whole
    BY <1>1, <1>2, <1>3, <1>5, <2>1 DEF Ended
  <2>2. CASE ~file[Len(file)].whole
    <3>1. DataLen + TailLen > mmapCap
      BY <1>3, <1>6, <2>2
    <3> QED BY <1>1, <1>2, <1>5, <2>2, <3>1 DEF Ended
  <2> QED BY <2>1, <2>2
<1> QED BY <1>1, <1>2, <1>7 DEF Appending, Closed

\* Nothing of the flush changes, whatever is written to the memtable between two flushes.
LEMMA IdleFlush ==
  ASSUME FlushInv, UNCHANGED result, UNCHANGED fileVars, UNCHANGED m \/ Idle
  PROVE  Types' /\ Appending' /\ Closed' /\ Ended'
<1>1. UNCHANGED <<pc, file, bytePos, mmapCap, index, bloom>>
  BY DEF fileVars
<1>2. Types' /\ DataLen' = DataLen /\ TailLen' = TailLen
  BY <1>1, SameLengths DEF FlushInv
<1>3. Ended'
  BY <1>1, <1>2 DEF FlushInv, Ended, Fits
<1>4. CASE Idle
  <2>1. pc' # "append" /\ pc' # "closed"
    BY <1>1, <1>4 DEF Idle
  <2> QED BY <1>2, <1>3, <2>1 DEF Appending, Closed
<1>5. CASE UNCHANGED m
  <2>1. Listed' <=> Listed
    BY <1>5 DEF Listed
  <2>2. ASSUME NEW N, NEW end PROVE Written(N, end)' <=> Written(N, end)
    BY <1>1 DEF Written
  <2>3. Lens' = Lens
    BY DEF Lens
  <2>4. ASSUME NEW cap, NEW len, NEW N PROVE Fits(cap, len, N)' <=> Fits(cap, len, N)
    BY DEF Fits
  <2>5. Appending'
    BY <1>1, <2>1, <2>2, <2>3, <2>4 DEF FlushInv, Appending
  <2>6. Closed'
    BY <1>1, <1>2, <2>1, <2>2 DEF FlushInv, Closed
  <2> QED BY <1>2, <1>3, <2>5, <2>6
<1> QED BY <1>4, <1>5

LEMMA StepFlush == FlushInv /\ [FlushNext]_allVars => FlushInv'
<1> SUFFICES ASSUME FlushInv, [FlushNext]_allVars PROVE FlushInv'
  OBVIOUS
<1>1. MemInv'
  BY StepFlushMem DEF FlushInv
<1> SUFFICES Types' /\ Appending' /\ Closed' /\ Ended'
  BY <1>1 DEF FlushInv
<1>2. CASE Write
  <2>1. UNCHANGED result
    BY <1>2 DEF Write, Delete, Put, Store
  <2> QED BY <1>2, <2>1, IdleFlush DEF Write
<1>3. CASE UNCHANGED allVars
  BY <1>3, IdleFlush DEF allVars, vars
<1>4. CASE FlushNothing
  BY <1>3, <1>4 DEF FlushNothing
<1>5. CASE CreateWriter
  BY <1>5, CreateFlush
<1>6. CASE WriterAppend
  <2>1. pc' = "append"
    BY <1>6 DEF WriterAppend
  <2> QED BY <1>6, <2>1, AppendFlush DEF Closed, Ended
<1>7. CASE WriterClose
  BY <1>7, CloseFlush
<1>8. CASE WriterFails
  <2>1. pc' = "idle" /\ UNCHANGED <<result, index, bloom>>
    BY <1>8 DEF WriterFails, vars
  <2> QED BY <2>1 DEF FlushInv, Types, Appending, Closed, Ended
<1>9. CASE Install
  BY <1>9, InstallFlush
<1>10. CASE Restart
  <2>1. pc' = "idle" /\ UNCHANGED <<result, index, bloom>>
    BY <1>10 DEF Restart
  <2> QED BY <2>1 DEF FlushInv, Types, Appending, Closed, Ended
<1> QED BY <1>2, <1>3, <1>4, <1>5, <1>6, <1>7, <1>8, <1>9, <1>10 DEF FlushNext
-----------------------------------------------------------------------------
(* Failures.                                                               *)

LEMMA FlushMargins == FlushInv => FlushFailsBelowDoublings
<1> SUFFICES ASSUME FlushInv PROVE FlushFailsBelowDoublings
  OBVIOUS
<1> DEFINE Short     == {c \in Doublings : DataLen <= c /\ c < DataLen + TailLen}
           Long(n, c) == 2 * EntryLen(result[n]) >= c
<1>1. DataLen \in Int /\ TailLen \in Int /\ DOMAIN result = 1 .. Len(result)
  BY DataSum, TailLenIs, LensAre DEF FlushInv
<1>2. \A c \in Doublings : c \in Nat
  BY DoublingGap
<1>3. ASSUME pc = "open", NEW c \in Short
      PROVE  c = DataLen /\ \E n \in DOMAIN result : Long(n, c)
  <2>1. Fits(mmapCap, DataLen, Len(result)) /\ DataLen + TailLen <= mmapCap
    BY <1>3 DEF FlushInv, Ended
  <2>2. mmapCap \in Nat
    BY <1>2, <2>1 DEF Fits
  <2>3. c < mmapCap /\ DataLen <= c /\ c \in Doublings /\ c \in Nat
    BY <1>1, <1>2, <2>1, <2>2
  <2>4. c < DataLen \/ (c = DataLen /\ \E n \in 1 .. Len(result) : Long(n, c))
    BY <2>1, <2>3 DEF Fits
  <2> QED BY <1>1, <2>3, <2>4
<1>4. ASSUME pc \in {"refused", "panic"} PROVE mmapCap \in Short
  <2>1. Fits(mmapCap, DataLen, Len(result)) /\ DataLen + TailLen > mmapCap
    BY <1>4 DEF FlushInv, Ended
  <2>2. mmapCap \in Nat
    BY <1>2, <2>1 DEF Fits
  <2> QED BY <1>1, <2>1, <2>2 DEF Fits
<1>5. ASSUME pc \in {"refused", "panic"} PROVE Short # {}
  <2> HIDE DEF Short
  <2> QED BY <1>4, <1>5
<1> QED BY <1>3, <1>5 DEF FlushFailsBelowDoublings, TailLen

\* A flush fails where the entries end less than the three blocks below a doubling of
\* the mapping, or at it, and nowhere else; there it does fail, unless the entries end
\* at the doubling itself and one of them has half of the bytes.
THEOREM FlushFailsBelowDoublingsAlways == FlushSpec => []FlushFailsBelowDoublings
<1>1. FlushInit => FlushInv
  BY InitFlush
<1>2. FlushInv /\ [FlushNext]_allVars => FlushInv'
  BY StepFlush
<1>3. FlushInv => FlushFailsBelowDoublings
  BY FlushMargins
<1> QED BY <1>1, <1>2, <1>3, PTL DEF FlushSpec
-----------------------------------------------------------------------------
(* Reading what was written.                                               *)

\* Where the file has what.
LEMMA ClosedFile ==
  ASSUME FlushInv, pc = "closed"
  PROVE  LET N == Len(result)
         IN  /\ N \in Nat /\ N > 0 /\ Last = N + 3
             /\ FileIndex = index /\ FileBloom = bloom
             /\ Written(N, FileOffsets.index)
             /\ \A n \in 1 .. N : Parses(n) /\ file[n].of = result[n]
                                  /\ result[n].key \in Keys /\ result[n].key \in Int
             /\ \A n \in 1 .. Last : Parses(n) => n \in 1 .. N
             /\ Listed
<1> DEFINE N == Len(result)
<1>1. /\ Listed /\ Types /\ Len(file) = N + 3
      /\ \A n \in N + 1 .. N + 3 : file[n].kind # "entry"
      /\ file[N + 1].of = index /\ file[N + 2].of = bloom
      /\ Written(N, file[N + 3].of.index)
  BY DEF FlushInv, Closed
<1>2. N \in Nat /\ N > 0
  BY <1>1, LensAre, MemTableAssumption DEF Listed
<1>3. ASSUME NEW n \in 1 .. N
      PROVE  /\ Parses(n) /\ file[n].of = result[n]
             /\ result[n].key \in Keys /\ result[n].key \in Int
  <2>1. file[n] = [kind |-> "entry", of |-> result[n], at |-> file[n].at, whole |-> TRUE]
    BY <1>1 DEF Written
  <2>2. result[n] \in Version
    BY <1>1, LensAre
  <2>3. result[n].key \in Keys
    BY <2>2 DEF Version
  <2>4. result[n].key \in Int
    BY <2>3, MemTableAssumption
  <2> DEFINE b == [kind |-> "entry", of |-> result[n], at |-> file[n].at, whole |-> TRUE]
  <2>5. b.kind = "entry" /\ b.whole /\ b.of = result[n]
    OBVIOUS
  <2> HIDE DEF b
  <2> QED BY <2>1, <2>3, <2>4, <2>5 DEF Parses, b
<1> HIDE DEF N
<1>4. Last = N + 3 /\ Last - 1 = N + 2 /\ Last - 2 = N + 1
  BY <1>1, <1>2 DEF Last
<1>5. ASSUME NEW n \in 1 .. Last, Parses(n) PROVE n \in 1 .. N
  <2>1. ~(n \in N + 1 .. N + 3)
    BY <1>1, <1>5 DEF Parses
  <2> QED BY <1>2, <1>4, <2>1
<1>6. FileIndex = index /\ FileBloom = bloom /\ Written(N, FileOffsets.index)
  BY <1>1, <1>4 DEF FileIndex, FileBloom, FileOffsets
<1> QED BY <1>1, <1>2, <1>3, <1>4, <1>5, <1>6 DEF N

\* Iterating gives the entries of the memtable.
LEMMA IterateExact ==
  ASSUME FlushInv, pc = "closed"
  PROVE  /\ {AllEntries[n] : n \in DOMAIN AllEntries} = m
         /\ \A n \in DOMAIN AllEntries : n > 1 => AllEntries[n - 1].key < AllEntries[n].key
<1> DEFINE N == Len(result)
<1>1. /\ N \in Nat /\ N > 0 /\ Last = N + 3 /\ Written(N, FileOffsets.index) /\ Listed
      /\ \A n \in 1 .. N : Parses(n) /\ file[n].of = result[n]
      /\ \A n \in 1 .. Last : Parses(n) => n \in 1 .. N
  BY ClosedFile
<1>2. m = {result[n] : n \in 1 .. N} /\ \A i, j \in 1 .. N : i < j => result[i].key < result[j].key
  BY <1>1 DEF Listed
<1> HIDE DEF N
<1>3. \A n \in 1 .. N : file[n].at < FileOffsets.index
  BY <1>1 DEF Written
<1>4. Iterated = 1 .. N
  <2>1. ASSUME NEW n \in 1 .. N PROVE n \in Iterated
    <3>1. n \in 1 .. Last /\ \A i \in 1 .. n : i \in 1 .. N
      BY <1>1
    <3> QED BY <1>1, <1>3, <3>1 DEF Iterated
  <2>2. ASSUME NEW n \in Iterated PROVE n \in 1 .. N
    <3>1. n \in 1 .. Last /\ \A i \in 1 .. n : Parses(i)
      BY DEF Iterated
    <3>2. n \in 1 .. n
      BY <1>1, <3>1
    <3> QED BY <1>1, <3>1, <3>2
  <2> QED BY <2>1, <2>2
<1>5. DOMAIN AllEntries = 1 .. N /\ \A n \in 1 .. N : AllEntries[n] = result[n]
  BY <1>1, <1>4 DEF AllEntries
<1>6. ASSUME NEW n \in 1 .. N, n > 1 PROVE AllEntries[n - 1].key < AllEntries[n].key
  <2>1. n - 1 \in 1 .. N /\ n - 1 < n
    BY <1>1, <1>6
  <2> QED BY <1>2, <1>5, <2>1
<1> QED BY <1>2, <1>5, <1>6

\* Where Get begins.
LEMMA LookupIs ==
  ASSUME FlushInv, pc = "closed", NEW k \in Int
  PROVE  \E p \in 1 .. Len(result) : /\ LookupOffset(k) = file[p].at
                                     /\ p = 1 \/ result[p].key <= k
<1> DEFINE N     == Len(result)
           below == {n \in DOMAIN FileIndex : FileIndex[n].key <= k}
<1>1. /\ N \in Nat /\ N > 0 /\ FileIndex = index /\ Written(N, FileOffsets.index)
  BY ClosedFile
<1>2. index \in Seq(Pointer) /\ DOMAIN index = 1 .. Len(index) /\ Len(index) \in Nat
  BY DEF FlushInv, Types
<1>3. CASE below = {}
  <2>1. file[1].at = 0 /\ 1 \in 1 .. N
    BY <1>1 DEF Written
  <2>2. LookupOffset(k) = 0
    BY <1>3 DEF LookupOffset
  <2> QED BY <2>1, <2>2
<1>4. CASE below # {}
  <2> DEFINE x == FSE!Max(below)
  <2>1. LookupOffset(k) = FileIndex[x].offset
    BY <1>4 DEF LookupOffset
  <2>2. below \subseteq 1 .. Len(index) /\ below \subseteq Int
    BY <1>1, <1>2
  <2>3. IsFiniteSet(below)
    <3>1. IsFiniteSet(1 .. Len(index))
      BY <1>2, FS_Interval
    <3>2. below \in SUBSET (1 .. Len(index))
      BY <2>2
    <3> HIDE DEF below
    <3> QED BY ONLY <3>1, <3>2, FS_Subset
  <2>4. x \in below
    <3> HIDE DEF below
    <3>1. \E p \in below : \A q \in below : q <= p
      BY ONLY <1>4, <2>2, <2>3, GreatestNumber
    <3>2. \E p \in below : \A q \in below : p >= q
      BY <2>2, <3>1
    <3> QED BY <3>2 DEF FSE!Max
  <2>5. x \in 1 .. Len(index) /\ index[x].key <= k
    BY <1>1, <2>2, <2>4
  <2> HIDE DEF x, below
  <2>6. PICK p \in 1 .. N : index[x] = [key |-> result[p].key, offset |-> file[p].at]
    BY <1>1, <2>5 DEF Written
  <2>7. index[x].offset = file[p].at /\ result[p].key <= k
    BY <2>5, <2>6
  <2> QED BY <1>1, <2>1, <2>7
<1> QED BY <1>3, <1>4

\* Get finds what the memtable had: it begins at or before the key, the filter lets it
\* pass, and nothing before the key stops it.
LEMMA FileGetExact ==
  ASSUME FlushInv, pc = "closed", NEW k \in Keys
  PROVE  FileGet(k) = {e \in m : e.key = k}
<1> DEFINE N         == Len(result)
           from      == {n \in 1 .. Last : file[n].at >= LookupOffset(k)}
           passed(n) == {i \in from : i < n}
           found     == {n \in from : /\ MayContain(FileBloom, k)
                                      /\ Parses(n) /\ file[n].of.key = k
                                      /\ \A i \in passed(n) : Parses(i) /\ file[i].of.key < k}
<1>1. /\ N \in Nat /\ N > 0 /\ Last = N + 3 /\ FileBloom = bloom
      /\ Written(N, FileOffsets.index) /\ Listed
      /\ \A n \in 1 .. N : Parses(n) /\ file[n].of = result[n] /\ result[n].key \in Int
      /\ \A n \in 1 .. Last : Parses(n) => n \in 1 .. N
  BY ClosedFile
<1>2. /\ m = {result[n] : n \in 1 .. N}
      /\ \A i, j \in 1 .. N : i < j => result[i].key < result[j].key
  BY <1>1 DEF Listed
<1>3. /\ \A i, j \in 1 .. N : i < j => file[i].at < file[j].at
      /\ \A n \in 1 .. N : file[n].at \in Nat
      /\ \A n \in 1 .. N : Positions(bloom, result[n].key) \subseteq bloom.bits
  BY <1>1 DEF Written
<1>4. k \in Int
  BY MemTableAssumption
<1>5. PICK p \in 1 .. N : LookupOffset(k) = file[p].at /\ (p = 1 \/ result[p].key <= k)
  BY <1>4, LookupIs
<1>6. FileGet(k) = {file[n].of : n \in found}
  BY DEF FileGet
<1> HIDE DEF N
<1>7. ASSUME NEW n \in 1 .. N PROVE n \in from <=> n >= p
  <2>1. n \in 1 .. Last
    BY <1>1
  <2>2. CASE n < p
    <3>1. file[n].at < file[p].at /\ file[n].at \in Nat /\ file[p].at \in Nat
      BY <1>3, <2>2
    <3> QED BY <1>5, <2>2, <3>1
  <2>3. CASE n = p
    BY <1>3, <1>5, <2>1, <2>3
  <2>4. CASE n > p
    <3>1. file[p].at < file[n].at /\ file[n].at \in Nat /\ file[p].at \in Nat
      BY <1>3, <2>4
    <3> QED BY <1>5, <2>1, <2>4, <3>1
  <2> QED BY <2>2, <2>3, <2>4
<1>8. ASSUME NEW n \in found PROVE file[n].of \in m /\ file[n].of.key = k
  <2>1. n \in 1 .. Last /\ Parses(n) /\ file[n].of.key = k
    OBVIOUS
  <2>2. n \in 1 .. N
    BY <1>1, <2>1
  <2> QED BY <1>1, <1>2, <2>1, <2>2
<1>9. ASSUME NEW e \in m, e.key = k PROVE \E n \in found : file[n].of = e
  <2>1. PICK n \in 1 .. N : result[n] = e
    BY <1>2
  <2>2. n >= p
    <3>1. CASE p = 1
      BY <3>1
    <3>2. CASE result[p].key <= k
      <4>1. SUFFICES ASSUME n < p PROVE FALSE
        OBVIOUS
      <4>2. result[n].key < result[p].key
        BY <1>2, <4>1
      <4> QED BY <1>1, <1>4, <1>9, <2>1, <3>2, <4>2
    <3> QED BY <1>5, <3>1, <3>2
  <2>3. n \in from
    BY <1>7, <2>2
  <2>4. MayContain(FileBloom, k)
    BY <1>1, <1>3, <1>9, <2>1 DEF MayContain
  <2>5. Parses(n) /\ file[n].of = e
    BY <1>1, <2>1
  <2>6. ASSUME NEW i \in passed(n) PROVE Parses(i) /\ file[i].of.key < k
    <3>1. i \in from /\ i \in 1 .. Last /\ i < n
      OBVIOUS
    <3> HIDE DEF from
    <3>2. i \in 1 .. N
      BY <1>1, <3>1
    <3>3. result[i].key < result[n].key
      BY <1>2, <3>1, <3>2
    <3> QED BY <1>1, <1>9, <2>1, <3>2, <3>3
  <2>7. n \in found
    <3> HIDE DEF from, passed
    <3> QED BY <1>9, <2>3, <2>4, <2>5, <2>6
  <2> QED BY <2>5, <2>7
<1> HIDE DEF found
<1> QED BY <1>6, <1>8, <1>9

\* The range of keys, that compactions go by, begins with the first and ends less than
\* Step entries before the last.
LEMMA RangeExact ==
  ASSUME FlushInv, pc = "closed"
  PROVE  /\ \A e \in m : MinKey <= e.key
         /\ Cardinality({e \in m : e.key > MaxKey}) < Step
<1> DEFINE N      == Len(result)
           behind == {e \in m : e.key > MaxKey}
<1>1. /\ N \in Nat /\ N > 0 /\ FileIndex = index /\ Written(N, FileOffsets.index) /\ Listed
      /\ \A n \in 1 .. N : result[n].key \in Int
  BY ClosedFile
<1>2. /\ m = {result[n] : n \in 1 .. N}
      /\ \A i, j \in 1 .. N : i < j => result[i].key < result[j].key
  BY <1>1 DEF Listed
<1>3. /\ index[1].key = result[1].key
      /\ \E p \in 1 .. N : N < p + Step /\ index[Len(index)].key = result[p].key
  BY <1>1 DEF Written
<1> HIDE DEF N
<1>4. ASSUME NEW e \in m PROVE MinKey <= e.key
  <2>1. PICK n \in 1 .. N : e = result[n]
    BY <1>2
  <2>2. MinKey = result[1].key /\ 1 \in 1 .. N
    BY <1>1, <1>3 DEF MinKey
  <2>3. n = 1 \/ result[1].key < result[n].key
    BY <1>1, <1>2, <2>2
  <2> QED BY <1>1, <2>1, <2>2, <2>3
<1>5. PICK p \in 1 .. N : N < p + Step /\ MaxKey = result[p].key
  BY <1>1, <1>3 DEF MaxKey
<1> DEFINE rest == p + 1 .. N
           f    == [n \in rest |-> result[n]]
<1>6. IsFiniteSet(rest) /\ Cardinality(rest) = IF p + 1 > N THEN 0 ELSE N - (p + 1) + 1
  <2>1. p + 1 \in Int /\ N \in Int
    BY <1>1
  <2> QED BY <2>1, FS_Interval
<1>7. f \in Surjection(rest, behind)
  <2>1. ASSUME NEW n \in rest PROVE result[n] \in behind
    <3>1. n \in 1 .. N /\ p < n
      BY <1>1
    <3>2. result[n] \in m /\ result[p].key < result[n].key
      BY <1>2, <3>1
    <3>3. result[n].key > MaxKey
      BY <1>1, <1>5, <3>1, <3>2
    <3> QED BY <3>2, <3>3
  <2>2. ASSUME NEW e \in behind PROVE \E n \in rest : result[n] = e
    <3>1. PICK n \in 1 .. N : result[n] = e
      BY <1>2
    <3>2. result[p].key < result[n].key
      BY <1>1, <1>5, <3>1
    <3>3. n \in rest
      <4>1. n # p /\ ~(n < p)
        BY <1>1, <1>2, <3>2
      <4> QED BY <1>1, <4>1
    <3> QED BY <3>1, <3>3
  <2> HIDE DEF behind, rest
  <2> QED BY <2>1, <2>2 DEF Surjection
<1> HIDE DEF behind, f
<1>8. Cardinality(behind) <= Cardinality(rest) /\ IsFiniteSet(behind)
  <2> HIDE DEF rest
  <2> QED BY ONLY <1>6, <1>7, FS_Surjection
<1>9. Cardinality(behind) \in Nat /\ Step \in Nat /\ Step > 0
  BY <1>8, FS_CardinalityType, FlushFileAssumption
<1>10. Cardinality(behind) < Step
  <2> HIDE DEF rest
  <2> QED BY <1>1, <1>5, <1>6, <1>8, <1>9
<1> QED BY <1>4, <1>10 DEF behind

\* A memtable is dropped for a file that opens only when the file has all of it: what
\* iterating and Get read of the bytes are its entries, MinKey is the least of its keys,
\* and fewer than Step of them lie behind MaxKey.
THEOREM FlushExactAlways == FlushSpec => FlushExact
<1> DEFINE A == pc = "closed" /\ pc' = "open" =>
                  /\ {AllEntries[n] : n \in DOMAIN AllEntries} = m
                  /\ \A n \in DOMAIN AllEntries :
                       n > 1 => AllEntries[n - 1].key < AllEntries[n].key
                  /\ \A k \in Keys : FileGet(k) = {e \in m : e.key = k}
                  /\ \A e \in m : MinKey <= e.key
                  /\ Cardinality({e \in m : e.key > MaxKey}) < Step
<1>1. FlushInit => FlushInv
  BY InitFlush
<1>2. FlushInv /\ [FlushNext]_allVars => FlushInv'
  BY StepFlush
<1>3. FlushInv => A
  BY IterateExact, FileGetExact, RangeExact
<1>4. FlushInv /\ [FlushNext]_allVars => [A]_allVars
  BY <1>3
<1> HIDE DEF A
<1>5. FlushSpec => [][A]_allVars
  BY <1>1, <1>2, <1>4, PTL DEF FlushSpec
<1> QED BY <1>5, PTL DEF A, FlushExact
=============================================================================
