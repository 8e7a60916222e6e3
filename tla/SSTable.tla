------------------------------ MODULE SSTable ------------------------------
(***************************************************************************)
(* One sorted file: its Writer, and a Get on the finished file through the *)
(* bloom filter, the binary search of the sparse index (sort.Search) and   *)
(* the scan of the entries.                                                *)
(*                                                                         *)
(*  - An entry is its key, and the offset of an entry is its number, from  *)
(*    1: entries have any size in the file, and neither order nor search   *)
(*    depends on it.                                                       *)
(*  - The writers append in the order of keys: flushMemtable sorts the     *)
(*    memtable and DoCompact merges in order.                              *)
(*  - Behind the entries is the index block.  A scan that gets there reads *)
(*    it as an entry, which is taken to have another key or to fail to     *)
(*    parse; what the scan does next then finds nothing either.            *)
(***************************************************************************)
EXTENDS Integers, Sequences

CONSTANTS Keys,        \* integers, in the order of the strings
          Step,        \* one in Step entries is indexed, 128 in the code
          MaxEntries   \* bound on the entries of the file

ASSUME SSTableAssumption ==
  /\ Keys \subseteq Int
  /\ Step \in Nat \ {0}
  /\ MaxEntries \in Nat

VARIABLES data,     \* the keys of the entries, in order
          index,    \* sparseIndex.entries
          pc,       \* "write", "ready", "search", "lookup", "scan"
          want,     \* the key Get looks for
          i, j,     \* the bounds of sort.Search
          offset,   \* what Lookup answered
          pos,      \* where the scan stands
          found     \* what the last Get answered: the entry's number, or 0

vars == <<data, index, pc, want, i, j, offset, pos, found>>

Init ==
  /\ data = << >> /\ index = << >>
  /\ pc = "write"
  /\ want \in Keys
  /\ i = 0 /\ j = 0 /\ offset = 0 /\ pos = 0 /\ found = 0
-----------------------------------------------------------------------------
(* The writer.                                                             *)

\* Broken: the stretch between indexed entries is one too long.
AppendIndexesLate(k) ==
  /\ pc = "write"
  /\ Len(data) < MaxEntries
  /\ data # << >> => data[Len(data)] < k
  /\ data' = Append(data, k)
  /\ index' = IF Len(data) % (Step + 1) = 0
              THEN Append(index, [key |-> k, offset |-> Len(data) + 1]) ELSE index
  /\ UNCHANGED <<pc, want, i, j, offset, pos, found>>

\* ShouldIndex is asked for the number of the entry, from 0.
WriterAppend(k) ==
  /\ pc = "write"
  /\ Len(data) < MaxEntries
  /\ data # << >> => data[Len(data)] < k
  /\ data' = Append(data, k)
  /\ index' = IF Len(data) % Step = 0
              THEN Append(index, [key |-> k, offset |-> Len(data) + 1]) ELSE index
  /\ UNCHANGED <<pc, want, i, j, offset, pos, found>>

\* No file is written without entries.
WriterClose ==
  /\ pc = "write"
  /\ data # << >>
  /\ pc' = "ready"
  /\ UNCHANGED <<data, index, want, i, j, offset, pos, found>>
-----------------------------------------------------------------------------
(* Get.                                                                    *)

Stored == {data[n] : n \in 1 .. Len(data)}

Answer(n) == pc' = "ready" /\ found' = n

\* The filter turns most keys away that are not stored, and no other.
GetFiltered(k) ==
  /\ pc = "ready"
  /\ k \notin Stored
  /\ want' = k
  /\ Answer(0)
  /\ UNCHANGED <<data, index, i, j, offset, pos>>

GetSearch(k) ==
  /\ pc = "ready"
  /\ pc' = "search"
  /\ want' = k
  /\ i' = 0 /\ j' = Len(index)
  /\ UNCHANGED <<data, index, offset, pos, found>>

\* sort.Search, looking for the first indexed key that is not below want.
SearchStep ==
  /\ pc = "search"
  /\ i < j
  /\ LET h == (i + j) \div 2
     IN  IF index[h + 1].key >= want THEN j' = h /\ UNCHANGED i
                                     ELSE i' = h + 1 /\ UNCHANGED j
  /\ UNCHANGED <<data, index, pc, want, offset, pos, found>>

\* Broken: the entry itself is taken, not the one before it.
LookupAfter ==
  /\ pc = "search"
  /\ i >= j
  /\ offset' = IF i = Len(index) THEN index[i].offset ELSE index[i + 1].offset
  /\ pos' = offset'
  /\ pc' = "scan"
  /\ UNCHANGED <<data, index, want, i, j, found>>

\* Lookup answers with the offset of the last indexed key that is at most
\* want, and with the first offset if there is none.
Lookup ==
  /\ pc = "search"
  /\ i >= j
  /\ offset' = IF i = Len(index) THEN index[i].offset
               ELSE IF index[i + 1].key = want THEN index[i + 1].offset
               ELSE IF i = 0 THEN 1
               ELSE index[i].offset
  /\ pos' = offset'
  /\ pc' = "scan"
  /\ UNCHANGED <<data, index, want, i, j, found>>

ScanStep ==
  /\ pc = "scan"
  /\ pos <= Len(data) /\ data[pos] < want
  /\ pos' = pos + 1
  /\ UNCHANGED <<data, index, pc, want, i, j, offset, found>>

ScanEnd ==
  /\ pc = "scan"
  /\ \/ pos > Len(data) /\ Answer(0)
     \/ pos <= Len(data) /\ data[pos] > want /\ Answer(0)
     \/ pos <= Len(data) /\ data[pos] = want /\ Answer(pos)
  /\ UNCHANGED <<data, index, want, i, j, offset, pos>>

Next ==
  \/ \E k \in Keys : WriterAppend(k) \/ GetFiltered(k) \/ GetSearch(k)
  \/ WriterClose \/ SearchStep \/ Lookup \/ ScanStep \/ ScanEnd

Spec == Init /\ [][Next]_vars
-----------------------------------------------------------------------------
(* What makes it correct.                                                  *)

\* The types of the variables.
TypeOK ==
  /\ data \in Seq(Keys)
  /\ index \in Seq([key : Keys, offset : Nat \ {0}])
  /\ pc \in {"write", "ready", "search", "scan"}
  /\ want \in Keys
  /\ i \in Nat /\ j \in Nat
  /\ offset \in Nat /\ pos \in Nat /\ found \in Nat

\* README, "Every 128th key -> byte offset, binary search + scan": Get finds a
\* key just when it is stored, whatever is indexed and wherever it lies.
GetExact ==
  [][pc = "scan" /\ pc' = "ready" =>
       IF want \in Stored THEN found' \in 1 .. Len(data) /\ data[found'] = want
                          ELSE found' = 0]_vars

\* The same line: a Get that is being answered reads at most Step entries and the one that
\* ends it: the search does not leave the scan more than one indexed stretch.
ScanShort == pc = "scan" => pos - offset <= Step
=============================================================================
