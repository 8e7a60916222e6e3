--------------------------- MODULE SSTableProofs ---------------------------
(***************************************************************************)
(* Get on a finished file is exact, and its scan short, for every set of   *)
(* keys, every step of the index and every number of entries.              *)
(*                                                                         *)
(* The invariant says what the index is (Indexed), what sort.Search knows  *)
(* of the keys outside of its bounds (Searching), and what the scan knows  *)
(* of the entries it has left behind and of the one that will stop it      *)
(* (Scanning).                                                             *)
(***************************************************************************)
EXTENDS SSTable, TLAPS

Sorted == \A m, n \in 1 .. Len(data) : m < n => data[m] < data[n]

\* One entry in Step is indexed, from the first on.
Indexed ==
  /\ data # << >> => index # << >>
  /\ index # << >> => /\ index[1].offset = 1
                      /\ Len(data) < index[Len(index)].offset + Step
  /\ \A n \in 1 .. Len(index) : /\ index[n].offset \in 1 .. Len(data)
                                /\ index[n].key = data[index[n].offset]
                                /\ (index[n].offset - 1) % Step = 0
  /\ \A m, n \in 1 .. Len(index) : m < n => index[m].offset + Step <= index[n].offset
  /\ \A n \in 1 .. Len(index) - 1 : index[n + 1].offset = index[n].offset + Step

Searching ==
  pc = "search" =>
    /\ i <= j /\ j <= Len(index)
    /\ \A n \in 1 .. i : index[n].key < want
    /\ \A n \in j + 1 .. Len(index) : index[n].key >= want

Scanning ==
  pc = "scan" =>
    /\ offset \in 1 .. Len(data)
    /\ pos \in offset .. Len(data) + 1
    /\ \A n \in 1 .. pos - 1 : data[n] < want
    /\ offset + Step <= Len(data) => data[offset + Step] >= want

IInv == /\ TypeOK
        /\ pc # "write" => data # << >>
        /\ Sorted /\ Indexed /\ Searching /\ Scanning

\* A multiple of Step and the next lie Step apart.
LEMMA NextMultiple ==
  ASSUME NEW a \in Nat, NEW b \in Nat, NEW s \in Nat \ {0},
         a % s = 0, a < b, b <= a + s
  PROVE  (b % s = 0) <=> (b = a + s)
  <1> DEFINE q == a \div s
             r == b \div s
  <1>1. q \in Int /\ r \in Int
    OBVIOUS
  <1>2. a = (s * q) + (a % s)
    OBVIOUS
  <1>3. b = (s * r) + (b % s)
    OBVIOUS
  <1>4. ASSUME b % s = 0 PROVE b = a + s
    <2> HIDE DEF q, r
    <2>1. s * q < s * r /\ s * r <= s * q + s
      BY <1>1, <1>2, <1>3, <1>4
    <2>2. s * (r - q) > 0 /\ s * (r - q) <= s
      BY <2>1, <1>1
    <2>3. r - q = 1
      BY <2>2, <1>1, Z3
    <2> QED BY <2>3, <1>1, <1>2, <1>3, <1>4
  <1>5. ASSUME b = a + s PROVE b % s = 0
    <2>1. b = s * (q + 1)
      BY <1>1, <1>2, <1>5
    <2> QED BY <2>1, <1>1
  <1> QED BY <1>4, <1>5

\* It holds of an empty file.
THEOREM InitIInv == Init => IInv
  BY SSTableAssumption DEF Init, IInv, TypeOK, Sorted, Indexed, Searching, Scanning

\* Keys are integers wherever they are kept.
LEMMA Integral ==
  ASSUME TypeOK
  PROVE  /\ want \in Int /\ Len(data) \in Nat /\ Len(index) \in Nat
         /\ data = << >> <=> Len(data) = 0
         /\ index = << >> <=> Len(index) = 0
         /\ \A n \in 1 .. Len(data) : data[n] \in Int
         /\ \A n \in 1 .. Len(index) : index[n].key \in Int /\ index[n].offset \in Nat
  <1>1. \A k \in Keys : k \in Int
    BY SSTableAssumption
  <1>2. data \in Seq(Keys) /\ index \in Seq([key : Keys, offset : Nat \ {0}]) /\ want \in Keys
    BY DEF TypeOK
  <1>3. \A n \in 1 .. Len(data) : data[n] \in Keys
    BY <1>2
  <1>4. \A n \in 1 .. Len(index) : index[n] \in [key : Keys, offset : Nat \ {0}]
    <2> DEFINE R == [key : Keys, offset : Nat \ {0}]
    <2>1. index \in Seq(R)
      BY <1>2
    <2> HIDE DEF R
    <2>2. \A n \in 1 .. Len(index) : index[n] \in R
      BY <2>1
    <2> QED BY <2>2 DEF R
  <1>5. \A n \in 1 .. Len(index) : index[n].key \in Keys /\ index[n].offset \in Nat
    <2> TAKE n \in 1 .. Len(index)
    <2>1. index[n] \in [key : Keys, offset : Nat \ {0}]
      BY <1>4
    <2>2. index[n].key \in Keys /\ index[n].offset \in Nat \ {0}
      BY <2>1, Zenon
    <2> QED BY <2>2
  <1>6. data = << >> <=> Len(data) = 0
    BY <1>2
  <1>7. index = << >> <=> Len(index) = 0
    BY <1>2
  <1>8. Len(data) \in Nat /\ Len(index) \in Nat
    BY <1>2
  <1> QED BY <1>1, <1>2, <1>3, <1>5, <1>6, <1>7, <1>8

\* The writer: appending in order keeps the file sorted, and indexes the
\* entries it should.
LEMMA AppendIInv ==
  ASSUME IInv, NEW k \in Keys, WriterAppend(k)
  PROVE  IInv'
  <1> DEFINE len == Len(data)
             N   == Len(index)
             R   == [key : Keys, offset : Nat \ {0}]
             new == [key |-> k, offset |-> len + 1]
             top == index[N].offset
  <1>1. /\ pc = "write" /\ pc' = "write"
        /\ data' = Append(data, k)
        /\ len = 0 \/ data[len] < k
        /\ UNCHANGED <<want, i, j, offset, pos, found>>
    BY DEF WriterAppend
  <1>2. /\ TypeOK /\ Sorted /\ Indexed
        /\ data \in Seq(Keys) /\ index \in Seq(R)
    BY DEF IInv, TypeOK
  <1>3. /\ len \in Nat /\ N \in Nat /\ (index = << >> <=> N = 0)
        /\ (data = << >> <=> len = 0)
        /\ \A n \in 1 .. N : index[n].offset \in Nat
        /\ \A n \in 1 .. len : data[n] \in Int
    BY <1>2, Integral
  <1>4. Step \in Nat /\ Step > 0 /\ k \in Int
    BY SSTableAssumption
  <1>5. /\ data' \in Seq(Keys) /\ Len(data') = len + 1
        /\ data'[len + 1] = k
        /\ \A n \in 1 .. len : data'[n] = data[n]
    BY <1>1, <1>2
  <1> HIDE DEF R
  <1>6. Sorted'
    <2> SUFFICES ASSUME NEW m \in 1 .. len + 1, NEW n \in 1 .. len + 1, m < n
                 PROVE  data'[m] < data'[n]
      BY <1>5 DEF Sorted
    <2>1. CASE n <= len
      <3>1. m \in 1 .. len /\ n \in 1 .. len
        BY <1>3, <2>1
      <3>2. data[m] < data[n]
        BY <1>2, <3>1 DEF Sorted
      <3> QED BY <1>5, <3>1, <3>2
    <2>2. CASE n = len + 1
      <3>1. m \in 1 .. len /\ len \in 1 .. len /\ len # 0
        BY <1>3, <2>2
      <3>2. data[len] < k
        BY <1>1, <3>1
      <3>3. m = len \/ data[m] < data[len]
        BY <1>2, <1>3, <3>1 DEF Sorted
      <3>4. data[m] \in Int /\ data[len] \in Int
        BY <1>3, <3>1
      <3>5. data[m] < k
        BY <1>4, <3>2, <3>3, <3>4
      <3> QED BY <1>5, <2>2, <3>1, <3>5
    <2> QED BY <1>3, <2>1, <2>2
  \* What the index says of the file before the step.
  <1>7. ASSUME NEW n \in 1 .. N
        PROVE  /\ index[n].offset \in 1 .. len /\ index[n].key = data[index[n].offset]
               /\ (index[n].offset - 1) % Step = 0
    BY <1>2 DEF Indexed
  <1>8. ASSUME N # 0
        PROVE  /\ N \in 1 .. N /\ 1 \in 1 .. N /\ index[1].offset = 1
               /\ top \in Nat /\ 1 <= top /\ top <= len /\ (top - 1) % Step = 0
               /\ len < top + Step /\ len # 0
    <2>1. N \in 1 .. N /\ 1 \in 1 .. N
      BY <1>3, <1>8
    <2>2. index[1].offset = 1 /\ len < top + Step
      BY <1>2, <1>3, <1>8 DEF Indexed
    <2>3. top \in 1 .. len /\ (top - 1) % Step = 0
      BY <1>7, <2>1
    <2> QED BY <1>3, <2>1, <2>2, <2>3
  <1>9. len # 0 => N # 0
    BY <1>2, <1>3 DEF Indexed
  <1>10. ASSUME N # 0 PROVE len % Step = 0 <=> len + 1 = top + Step
    <2>1. top - 1 \in Nat /\ top - 1 < len /\ len <= top - 1 + Step /\ (top - 1) % Step = 0
      <3>1. top \in Nat /\ 1 <= top /\ top <= len /\ len < top + Step /\ (top - 1) % Step = 0
        BY <1>8, <1>10
      <3> HIDE DEF len, top, N
      <3> QED BY <1>3, <1>4, <3>1
    <2> HIDE DEF len, top, N
    <2>2. (len % Step = 0) <=> (len = top - 1 + Step)
      <3>1. Step \in Nat \ {0}
        BY <1>4
      <3> QED BY <1>3, <2>1, <3>1, NextMultiple
    <2>3. top \in Nat
      BY <1>8, <1>10
    <2>4. len = top - 1 + Step <=> len + 1 = top + Step
      BY <1>3, <1>4, <2>3
    <2> QED BY <2>2, <2>4
  <1>11. CASE len % Step # 0
    <2>1. index' = index /\ N # 0
      <3>1. len # 0
        BY <1>4, <1>11
      <3> QED BY <1>9, <1>11, <3>1 DEF WriterAppend
    <2>2. ASSUME NEW n \in 1 .. N
          PROVE  index[n].offset \in 1 .. len + 1 /\ index[n].key = data'[index[n].offset]
      <3>1. index[n].offset \in 1 .. len /\ index[n].key = data[index[n].offset]
        BY <1>7
      <3> QED BY <1>3, <1>5, <3>1
    <2>3. len + 1 < top + Step
      <3>1. /\ top \in Nat /\ len < top + Step /\ len + 1 # top + Step
        BY <1>8, <1>10, <1>11, <2>1
      <3> HIDE DEF len, top
      <3> QED BY <1>3, <1>4, <3>1
    <2>4. Indexed'
      BY <1>2, <1>5, <2>1, <2>2, <2>3 DEF Indexed
    <2>5. pc' # "write" => data' # << >>
      BY <1>1
    <2>6. TypeOK'
      BY <1>1, <1>2, <1>5, <2>1 DEF TypeOK
    <2> QED BY <1>1, <1>6, <2>4, <2>5, <2>6 DEF IInv, Searching, Scanning
  <1>12. CASE len % Step = 0
    <2>1. index' = Append(index, new)
      BY <1>12 DEF WriterAppend
    <2>2. new \in R
      BY <1>3 DEF R
    <2> HIDE DEF new
    <2>3. /\ index' \in Seq(R) /\ Len(index') = N + 1 /\ index'[N + 1] = new
          /\ \A n \in 1 .. N : index'[n] = index[n]
      BY <1>2, <2>1, <2>2
    <2>4. new.offset = len + 1 /\ new.key = k /\ (new.offset - 1) % Step = 0
      BY <1>3, <1>12 DEF new
    <2>5. \A n \in 1 .. N + 1 : n \in 1 .. N \/ n = N + 1
      BY <1>3
    <2>6. ASSUME NEW n \in 1 .. N
          PROVE  /\ index'[n].offset \in 1 .. len + 1
                 /\ index'[n].key = data'[index'[n].offset]
                 /\ (index'[n].offset - 1) % Step = 0
                 /\ index'[n].offset + Step <= len + 1
      <3>1. /\ index[n].offset \in 1 .. len /\ index[n].key = data[index[n].offset]
            /\ (index[n].offset - 1) % Step = 0
        BY <1>7
      <3>2. N # 0 /\ top \in Nat /\ len + 1 = top + Step
        BY <1>3, <1>8, <1>10, <1>12
      <3>3. n = N \/ index[n].offset + Step <= top
        BY <1>2, <1>3, <1>8, <3>2 DEF Indexed
      <3>4. index[n].offset + Step <= len + 1
        <4>1. index[n].offset \in Nat
          BY <1>3
        <4>2. n = N => index[n].offset = top
          OBVIOUS
        <4> HIDE DEF len, top, N
        <4> QED BY <1>3, <1>4, <3>2, <3>3, <4>1, <4>2
      <3>5. data'[index[n].offset] = data[index[n].offset]
        BY <1>5, <3>1
      <3>6. index[n].offset \in 1 .. len + 1
        BY <1>3, <3>1
      <3>7. index'[n] = index[n]
        BY <2>3
      <3> QED BY <3>1, <3>4, <3>5, <3>6, <3>7
    <2>7. ASSUME NEW n \in 1 .. N + 1
          PROVE  /\ index'[n].offset \in 1 .. len + 1
                 /\ index'[n].key = data'[index'[n].offset]
                 /\ (index'[n].offset - 1) % Step = 0
      <3>1. CASE n \in 1 .. N
        BY <2>6, <3>1
      <3>2. CASE n = N + 1
        <4>1. index'[n] = new /\ len + 1 \in 1 .. len + 1
          BY <1>3, <2>3, <3>2
        <4> QED BY <1>5, <2>4, <4>1
      <3> QED BY <2>5, <3>1, <3>2
    <2>8. ASSUME NEW m \in 1 .. N + 1, NEW n \in 1 .. N + 1, m < n
          PROVE  index'[m].offset + Step <= index'[n].offset
      <3>1. m \in 1 .. N
        BY <1>3, <2>8
      <3>2. CASE n \in 1 .. N
        BY <1>2, <2>3, <2>8, <3>1, <3>2 DEF Indexed
      <3>3. CASE n = N + 1
        BY <2>3, <2>4, <2>6, <3>1, <3>3
      <3> QED BY <2>5, <3>2, <3>3
    <2>9. ASSUME NEW n \in 1 .. N
          PROVE  index'[n + 1].offset = index'[n].offset + Step
      <3>1. CASE n < N
        <4>1. n + 1 \in 1 .. N /\ n \in 1 .. N - 1
          BY <1>3, <3>1
        <4>2. index'[n + 1] = index[n + 1] /\ index'[n] = index[n]
          BY <2>3, <4>1
        <4>3. index[n + 1].offset = index[n].offset + Step
          BY <1>2, <4>1 DEF Indexed
        <4> QED BY <4>2, <4>3
      <3>2. CASE n = N
        <4>1. N # 0 /\ len + 1 = top + Step
          BY <1>3, <1>10, <1>12
        <4>2. index'[n + 1] = new /\ index'[n] = index[N]
          BY <2>3, <3>2
        <4> QED BY <2>4, <4>1, <4>2
      <3> QED BY <1>3, <3>1, <3>2
    <2>10. index'[1].offset = 1
      <3>1. CASE N = 0
        <4>1. len = 0 /\ index'[1] = new
          BY <1>9, <2>3, <3>1
        <4> QED BY <2>4, <4>1
      <3>2. CASE N # 0
        <4>1. 1 \in 1 .. N /\ index[1].offset = 1
          BY <1>8, <3>2
        <4>2. index'[1] = index[1]
          BY <2>3, <4>1
        <4> QED BY <4>1, <4>2
      <3> QED BY <3>1, <3>2
    <2>11. len + 1 < index'[N + 1].offset + Step
      BY <1>3, <1>4, <2>3, <2>4
    <2>12. Indexed'
      <3>1. Len(index') = N + 1 /\ Len(data') = len + 1 /\ index' # << >> /\ Len(index') - 1 = N
        <4>1. Len(index') = N + 1 /\ Len(data') = len + 1
          BY <1>5, <2>3
        <4>2. N \in Nat
          BY <1>3
        <4> HIDE DEF N, len
        <4>3. Len(index') # 0 /\ Len(index') - 1 = N
          BY ONLY <4>1, <4>2
        <4>4. index' # << >>
          BY ONLY <4>3
        <4> QED BY ONLY <4>1, <4>3, <4>4
      <3> HIDE DEF N, len
      <3>2. index' # << >> => /\ index'[1].offset = 1
                              /\ Len(data') < index'[Len(index')].offset + Step
        BY <2>10, <2>11, <3>1
      <3>3. \A n \in 1 .. Len(index') : /\ index'[n].offset \in 1 .. Len(data')
                                        /\ index'[n].key = data'[index'[n].offset]
                                        /\ (index'[n].offset - 1) % Step = 0
        BY <2>7, <3>1
      <3>4. \A m, n \in 1 .. Len(index') :
              m < n => index'[m].offset + Step <= index'[n].offset
        BY <2>8, <3>1
      <3>5. \A n \in 1 .. Len(index') - 1 :
              index'[n + 1].offset = index'[n].offset + Step
        BY <2>9, <3>1
      <3> QED BY <3>1, <3>2, <3>3, <3>4, <3>5 DEF Indexed
    <2>13. TypeOK'
      BY <1>1, <1>2, <1>5, <2>3 DEF TypeOK, R
    <2>14. (pc' # "write" => data' # << >>) /\ Searching' /\ Scanning'
      BY <1>1 DEF Searching, Scanning
    <2> QED BY <1>6, <2>12, <2>13, <2>14 DEF IInv
  <1> QED BY <1>11, <1>12

\* The keys of the index ascend, as those of the file do.
LEMMA IndexAscends ==
  ASSUME IInv
  PROVE  \A m, n \in 1 .. Len(index) : m <= n => index[m].key <= index[n].key
  <1> SUFFICES ASSUME NEW m \in 1 .. Len(index), NEW n \in 1 .. Len(index), m <= n
               PROVE  index[m].key <= index[n].key
    OBVIOUS
  <1>1. index[m].key \in Int /\ index[m].offset \in Nat /\ index[n].offset \in Nat
    BY Integral DEF IInv
  <1>2. CASE m = n
    BY <1>1, <1>2
  <1>3. CASE m < n
    <2>1. index[m].offset < index[n].offset
      <3>1. index[m].offset + Step <= index[n].offset
        BY <1>3 DEF IInv, Indexed
      <3> QED BY <1>1, <3>1, SSTableAssumption
    <2>2. /\ index[m].offset \in 1 .. Len(data) /\ index[m].key = data[index[m].offset]
          /\ index[n].offset \in 1 .. Len(data) /\ index[n].key = data[index[n].offset]
      BY DEF IInv, Indexed
    <2>3. data[index[m].offset] < data[index[n].offset]
      BY <2>1, <2>2 DEF IInv, Sorted
    <2>4. index[n].key \in Int
      BY Integral DEF IInv
    <2> QED BY <1>1, <2>2, <2>3, <2>4
  <1> QED BY <1>2, <1>3, Integral DEF IInv

\* Every step keeps the invariant.
THEOREM StepIInv ==
  ASSUME IInv, [Next]_vars
  PROVE  IInv'
  <1> USE SSTableAssumption DEF IInv, TypeOK
  <1>1. ASSUME NEW k \in Keys, WriterAppend(k) PROVE IInv'
    BY <1>1, AppendIInv
  <1>2. CASE WriterClose
    BY <1>2 DEF WriterClose, Sorted, Indexed, Searching, Scanning
  <1>3. ASSUME NEW k \in Keys, GetFiltered(k) PROVE IInv'
    BY <1>3 DEF GetFiltered, Answer, Sorted, Indexed, Searching, Scanning
  <1>4. ASSUME NEW k \in Keys, GetSearch(k) PROVE IInv'
    BY <1>4 DEF GetSearch, Sorted, Indexed, Searching, Scanning
  <1>5. CASE SearchStep
    <2> DEFINE h == (i + j) \div 2
    <2>1. i \in Nat /\ j \in Nat /\ i < j /\ j <= Len(index) /\ pc = "search"
      BY <1>5 DEF SearchStep, Searching
    <2>2. h \in Nat /\ i <= h /\ h < j
      BY <2>1
    <2>3. /\ IF index[h + 1].key >= want THEN j' = h /\ i' = i ELSE i' = h + 1 /\ j' = j
          /\ UNCHANGED <<data, index, pc, want, offset, pos, found>>
      BY <1>5 DEF SearchStep
    <2>4. \A n \in 1 .. Len(index) : index[n].key \in Int
      BY Integral
    <2>5. h + 1 \in 1 .. Len(index) /\ want \in Int
      BY <2>1, <2>2, Integral
    <2> HIDE DEF h
    <2>6. Searching'
      <3>1. CASE index[h + 1].key >= want
        <4>1. j' = h /\ i' = i
          BY <2>3, <3>1
        <4>2. \A n \in h + 1 .. Len(index) : index[n].key >= want
          <5> TAKE n \in h + 1 .. Len(index)
          <5>1. n \in 1 .. Len(index) /\ h + 1 <= n
            BY <2>2, <2>5
          <5>2. index[h + 1].key <= index[n].key
            BY <2>5, <5>1, IndexAscends
          <5> QED BY <2>4, <2>5, <3>1, <5>1, <5>2
        <4>3. \A n \in 1 .. i : index[n].key < want
          BY <2>1 DEF Searching
        <4> QED BY <2>1, <2>2, <2>3, <4>1, <4>2, <4>3 DEF Searching
      <3>2. CASE ~(index[h + 1].key >= want)
        <4>1. i' = h + 1 /\ j' = j /\ index[h + 1].key < want
          BY <2>3, <2>4, <2>5, <3>2
        <4>2. \A n \in 1 .. h + 1 : index[n].key < want
          <5> TAKE n \in 1 .. h + 1
          <5>1. n \in 1 .. Len(index) /\ n <= h + 1
            BY <2>2, <2>5
          <5>2. index[n].key <= index[h + 1].key
            BY <2>5, <5>1, IndexAscends
          <5> QED BY <2>4, <2>5, <4>1, <5>1, <5>2
        <4>3. \A n \in j + 1 .. Len(index) : index[n].key >= want
          BY <2>1 DEF Searching
        <4> QED BY <2>1, <2>2, <2>3, <4>1, <4>2, <4>3 DEF Searching
      <3> QED BY <3>1, <3>2
    <2>7. TypeOK'
      BY <2>1, <2>2, <2>3
    <2> QED BY <2>1, <2>3, <2>6, <2>7 DEF Sorted, Indexed, Scanning
  <1>6. CASE Lookup
    <2>1. /\ pc = "search" /\ pc' = "scan" /\ i = j /\ i \in 0 .. Len(index)
          /\ \A n \in 1 .. i : index[n].key < want
          /\ \A n \in i + 1 .. Len(index) : index[n].key >= want
          /\ offset' \in Nat \ {0} => pos' = offset'
          /\ UNCHANGED <<data, index, want, i, j, found>>
      BY <1>6 DEF Lookup, Searching
    <2>2. data # << >> /\ index # << >> /\ Len(index) \in Nat \ {0} /\ Len(data) \in Nat \ {0}
      BY <2>1 DEF Indexed
    <2>3. \A n \in 1 .. Len(data) : data[n] \in Int
      BY Integral
    <2>4. want \in Int
      BY Integral
    <2> DEFINE below(o) == \A n \in 1 .. o - 1 : data[n] < want
               stop(o)  == o + Step <= Len(data) => data[o + Step] >= want
    <2>5. /\ offset' \in 1 .. Len(data) /\ below(offset') /\ stop(offset')
      <3>1. ASSUME NEW n \in 1 .. Len(index)
            PROVE  /\ index[n].offset \in 1 .. Len(data)
                   /\ index[n].key = data[index[n].offset]
                   /\ index[n].key <= want => below(index[n].offset)
        <4>1. index[n].offset \in 1 .. Len(data) /\ index[n].key = data[index[n].offset]
          BY DEF Indexed
        <4>2. \A m \in 1 .. index[n].offset - 1 : data[m] < data[index[n].offset]
          BY <2>2, <4>1 DEF Sorted
        <4>3. ASSUME index[n].key <= want, NEW m \in 1 .. index[n].offset - 1
              PROVE  data[m] < want
          <5>1. data[m] < index[n].key /\ m \in 1 .. Len(data)
            BY <2>2, <4>1, <4>2
          <5>2. data[m] \in Int /\ index[n].key \in Int
            BY <2>3, <4>1, <5>1
          <5> QED BY ONLY <2>4, <4>3, <5>1, <5>2
        <4> QED BY <4>1, <4>3
      <3>2. ASSUME NEW n \in 1 .. Len(index) - 1, index[n + 1].key >= want
            PROVE  stop(index[n].offset)
        <4>1. index[n + 1].offset = index[n].offset + Step
          BY DEF Indexed
        <4> QED BY <2>2, <3>1, <3>2, <4>1
      <3>3. CASE i = Len(index)
        <4>1. offset' = index[i].offset /\ i \in 1 .. Len(index) /\ index[i].key < want
          BY <1>6, <2>1, <2>2, <3>3 DEF Lookup
        <4>2. Len(data) < offset' + Step
          BY <3>3, <2>2, <4>1 DEF Indexed
        <4>3. index[i].key <= want /\ offset' \in 1 .. Len(data)
          BY <2>4, <3>1, <4>1, Integral
        <4> QED BY <2>2, <3>1, <4>1, <4>2, <4>3
      <3>4. CASE i < Len(index) /\ index[i + 1].key = want
        <4>1. offset' = index[i + 1].offset /\ i + 1 \in 1 .. Len(index)
          BY <1>6, <2>1, <2>2, <3>4 DEF Lookup
        <4>2. offset' \in 1 .. Len(data) /\ data[offset'] = want /\ below(offset')
          BY <2>4, <3>1, <3>4, <4>1
        <4>3. offset' + Step <= Len(data) => data[offset'] < data[offset' + Step]
          BY <2>2, <4>2 DEF Sorted
        <4>4. offset' + Step <= Len(data) => data[offset' + Step] \in Int
          BY <2>2, <2>3, <4>2
        <4>5. stop(offset')
          BY <2>4, <4>2, <4>3, <4>4
        <4> QED BY <4>2, <4>5
      <3>5. CASE i < Len(index) /\ index[i + 1].key # want /\ i = 0
        <4>1. offset' = 1 /\ index[1].offset = 1 /\ index[1].key >= want /\ 1 \in 1 .. Len(index)
          BY <1>6, <2>1, <2>2, <3>5 DEF Lookup, Indexed
        <4>2. data[1] >= want /\ below(1)
          BY <3>1, <4>1
        <4>3. 1 + Step <= Len(data) => data[1] < data[1 + Step]
          BY <2>2 DEF Sorted
        <4>4. 1 \in 1 .. Len(data) /\ data[1] \in Int
          BY <2>2, <2>3
        <4>5. 1 + Step <= Len(data) => data[1 + Step] \in Int
          BY <2>2, <2>3
        <4>6. stop(1)
          BY <2>4, <4>2, <4>3, <4>4, <4>5
        <4> QED BY <4>1, <4>2, <4>4, <4>6
      <3>6. CASE i < Len(index) /\ index[i + 1].key # want /\ i # 0
        <4>1. /\ offset' = index[i].offset /\ i \in 1 .. Len(index) - 1
              /\ index[i].key < want /\ index[i + 1].key >= want
          BY <1>6, <2>1, <2>2, <3>6 DEF Lookup
        <4>2. i \in 1 .. Len(index) /\ index[i].key <= want
          BY <2>2, <2>4, <4>1, Integral
        <4> QED BY <3>1, <3>2, <4>1, <4>2
      <3> QED BY <2>1, <2>2, <3>3, <3>4, <3>5, <3>6
    <2>6. Scanning' /\ TypeOK'
      BY <1>6, <2>1, <2>2, <2>5 DEF Lookup, Scanning
    <2> QED BY <2>1, <2>2, <2>6 DEF Sorted, Indexed, Searching
  <1>7. CASE ScanStep
    BY <1>7 DEF ScanStep, Sorted, Indexed, Searching, Scanning
  <1>8. CASE ScanEnd
    BY <1>8 DEF ScanEnd, Answer, Sorted, Indexed, Searching, Scanning
  <1>9. CASE UNCHANGED vars
    BY <1>9 DEF vars, Sorted, Indexed, Searching, Scanning
  <1> QED BY <1>1, <1>2, <1>3, <1>4, <1>5, <1>6, <1>7, <1>8, <1>9 DEF Next

\* The inductive invariant of the writer and the reader holds in every run.
THEOREM IInvAlways == Spec => []IInv
  BY InitIInv, StepIInv, PTL DEF Spec

\* The scan of a Get is short: for every Step and every file.
THEOREM ScanShortAlways == Spec => []ScanShort
  <1>1. IInv => ScanShort
    <2> SUFFICES ASSUME IInv, pc = "scan" PROVE pos - offset <= Step
      BY DEF ScanShort
    <2>1. /\ offset \in 1 .. Len(data) /\ pos \in offset .. Len(data) + 1
          /\ \A n \in 1 .. pos - 1 : data[n] < want
          /\ offset + Step <= Len(data) => data[offset + Step] >= want
      BY DEF IInv, Scanning
    <2>2. want \in Int /\ Len(data) \in Nat /\ \A n \in 1 .. Len(data) : data[n] \in Int
      BY Integral DEF IInv
    <2>3. Step \in Nat \ {0}
      BY SSTableAssumption
    <2>4. CASE offset + Step > Len(data)
      BY <2>1, <2>2, <2>3, <2>4
    <2>5. CASE offset + Step <= Len(data)
      <3>1. offset + Step \in 1 .. Len(data) /\ data[offset + Step] \in Int
        BY <2>1, <2>2, <2>3, <2>5
      <3>2. ~(data[offset + Step] < want)
        BY <2>1, <2>2, <2>5, <3>1
      <3>3. ~(offset + Step \in 1 .. pos - 1)
        BY <2>1, <3>2
      <3> QED BY <2>1, <2>2, <2>3, <3>1, <3>3
    <2> QED BY <2>1, <2>2, <2>3, <2>4, <2>5
  <1> QED BY <1>1, IInvAlways, PTL

\* A Get finds a key just when the file stores it: for every Step and file.
THEOREM GetExactAlways == Spec => GetExact
  <1>1. ASSUME IInv, [Next]_vars, pc = "scan", pc' = "ready"
        PROVE  IF want \in Stored THEN found' \in 1 .. Len(data) /\ data[found'] = want
                                  ELSE found' = 0
    <2>1. ScanEnd
      BY <1>1 DEF Next, vars, WriterAppend, WriterClose, GetFiltered, GetSearch,
                  SearchStep, Lookup, ScanStep
    <2>2. /\ offset \in 1 .. Len(data) /\ pos \in offset .. Len(data) + 1
          /\ \A n \in 1 .. pos - 1 : data[n] < want
      BY <1>1 DEF IInv, Scanning
    <2>3. want \in Int /\ Len(data) \in Nat /\ \A n \in 1 .. Len(data) : data[n] \in Int
      BY <1>1, Integral DEF IInv
    <2>4. \A n \in 1 .. pos - 1 : data[n] # want
      BY <2>2, <2>3
    <2>5. CASE pos > Len(data) /\ found' = 0
      BY <2>2, <2>3, <2>4, <2>5 DEF Stored
    <2>6. CASE pos <= Len(data) /\ data[pos] > want /\ found' = 0
      <3>1. \A n \in pos .. Len(data) : data[n] >= data[pos]
        BY <1>1, <2>2, <2>3, <2>6 DEF IInv, Sorted
      <3>2. \A n \in 1 .. Len(data) : data[n] # want
        BY <2>2, <2>3, <2>4, <2>6, <3>1
      <3> QED BY <2>6, <3>2 DEF Stored
    <2>7. CASE pos <= Len(data) /\ data[pos] = want /\ found' = pos
      BY <2>2, <2>3, <2>7 DEF Stored
    <2> QED BY <2>1, <2>5, <2>6, <2>7 DEF ScanEnd, Answer
  <1>2. IInv /\ [Next]_vars =>
          [pc = "scan" /\ pc' = "ready" =>
             IF want \in Stored THEN found' \in 1 .. Len(data) /\ data[found'] = want
                                ELSE found' = 0]_vars
    BY <1>1
  <1> QED BY <1>2, IInvAlways, PTL DEF Spec, GetExact
=============================================================================
