----------------------------- MODULE FlushFile -----------------------------
(***************************************************************************)
(* A flush: the entries of the memtable become the bytes of a sorted file, *)
(* which is opened and read.                                               *)
(*                                                                         *)
(*  - The writer maps its file at InitialMmapSize and doubles the mapping  *)
(*    before an entry that does not fit.  Close copies three more blocks   *)
(*    behind the entries and never asks whether they fit: copy cuts a      *)
(*    block off at the end of the mapping, and a block that would begin    *)
(*    behind the end is a panic.                                           *)
(*  - A file is the sequence of its blocks, with their offsets and their   *)
(*    lengths in bytes.  What is inside a block is read back as written,   *)
(*    unless it was cut.                                                   *)
(*  - PutBatch flushes when the memtable has reached a size; here it may   *)
(*    do so at any size.                                                   *)
(***************************************************************************)
EXTENDS MemTable

CONSTANTS Step,             \* one in Step entries is indexed, 128 in the code
          InitialMmapSize,  \* 8 MB in the code
          Hash              \* hashKey

ASSUME FlushFileAssumption ==
  /\ Step \in Nat \ {0}
  /\ InitialMmapSize \in Nat \ {0}
  /\ Hash \in [Keys -> Nat \X Nat]

VARIABLES
  pc,        \* "idle", "append", "closed", "open", "refused", "panic"
  file,      \* the blocks: kind "entry", "index", "bloom" or "footer", of, at, len
  bytePos, mmapCap,
  index,     \* w.sparseIndex
  bloom      \* w.bloomFilter

fileVars == <<pc, file, bytePos, mmapCap, index, bloom>>
allVars == <<vars, fileVars>>
-----------------------------------------------------------------------------
(* The bloom filter.                                                       *)

Pow2From(n) == CHOOSE p \in {2 ^ i : i \in 6 .. 20} :
                 p >= n /\ \A q \in {2 ^ i : i \in 6 .. 20} : q >= n => p <= q

\* bloom.New with 10 bits for a key: a power of two, 64 at least, and
\* ceil(ln 2 * numBits / numKeys) positions for each key.
NewBloom(numKeys) ==
  LET numBits == Pow2From(10 * numKeys)
  IN  [numBits |-> numBits,
       numHash |-> (693147 * numBits) \div (1000000 * numKeys) + 1,
       bits    |-> {}]

\* A second hash that is 0 is taken as 1.
Positions(b, k) ==
  LET delta == IF Hash[k][2] = 0 THEN 1 ELSE Hash[k][2]
  IN  {(Hash[k][1] + n * delta) % b.numBits : n \in 0 .. b.numHash - 1}

MayContain(b, k) == Positions(b, k) \subseteq b.bits
-----------------------------------------------------------------------------
(* Lengths in bytes.                                                       *)

UvarintLen(n) == IF n < 128 THEN 1 ELSE IF n < 16384 THEN 2 ELSE 3

\* A time in nanoseconds takes 9 bytes, the tombstone 1 and the checksum 4.
EntryLen(e) == UvarintLen(KeyLen[e.key]) + KeyLen[e.key] + UvarintLen(e.len) + e.len + 14

IndexLen(si) ==
  UvarintLen(Step) + UvarintLen(Len(si))
    + FSE!MapThenSumSet(LAMBDA n : UvarintLen(KeyLen[si[n].key]) + KeyLen[si[n].key]
                                     + UvarintLen(si[n].offset), DOMAIN si)

BloomLen(b) == UvarintLen(b.numBits) + UvarintLen(b.numHash) + b.numBits \div 8

FooterLen == 24

\* The powers of two there are in Pow2From and in Doublings are enough.
ASSUME BoundAssumption ==
  /\ 10 * MaxNow <= 2 ^ 20
  /\ \A k \in Keys, len \in ValueLens \cup {0} :
       MaxNow * EntryLen([key |-> k, len |-> len]) < InitialMmapSize * 2 ^ 10

\* A block that copy has put into the mapping.
Block(kind, of, at, len, cap) ==
  [kind |-> kind, of |-> of, at |-> at, whole |-> at + len <= cap]
-----------------------------------------------------------------------------
(* The flush.                                                              *)

FlushInit ==
  /\ Init
  /\ pc = "idle" /\ file = << >> /\ bytePos = 0 /\ mmapCap = InitialMmapSize
  /\ index = << >> /\ bloom = NewBloom(1)

Idle == pc \in {"idle", "open", "refused"}

\* Writers wait for lsm.mu while a flush is under way.
Write ==
  /\ Idle
  /\ \E k \in Keys : Delete(k) \/ \E len \in ValueLens : Put(k, len)
  /\ UNCHANGED fileVars

FlushNothing == Idle /\ m = {} /\ UNCHANGED allVars

\* flushMemtable creates a Writer for as many entries as there are.
CreateWriter ==
  /\ Idle /\ m # {}
  /\ Entries
  /\ pc' = "append"
  /\ file' = << >> /\ bytePos' = 0 /\ mmapCap' = InitialMmapSize
  /\ index' = << >> /\ bloom' = NewBloom(Len(result'))

Doublings == {InitialMmapSize * 2 ^ n : n \in 0 .. 10}

\* Broken: the mapping is doubled once, whatever has to fit.
GrownOnce(need) == IF need > mmapCap THEN 2 * mmapCap ELSE mmapCap

\* grow doubles the mapping until it is longer than what it has to hold.
Grown(need) == IF need > mmapCap THEN CHOOSE c \in Doublings : need < c /\ c <= 2 * need
                                 ELSE mmapCap

\* The filter has the key, and one entry in Step is indexed.
WriterAppend ==
  LET e == result[Len(file) + 1]
      need == bytePos + EntryLen(e)
  IN  /\ pc = "append" /\ Len(file) < Len(result)
      /\ mmapCap' = Grown(need)
      /\ file' = Append(file, Block("entry", e, bytePos, EntryLen(e), mmapCap'))
      /\ bytePos' = need
      /\ bloom' = [bloom EXCEPT !.bits = @ \cup Positions(bloom, e.key)]
      /\ index' = IF Len(file) % Step = 0
                  THEN Append(index, [key |-> e.key, offset |-> bytePos]) ELSE index
      /\ UNCHANGED <<vars, pc>>

\* Index, filter and footer are copied to the end of the mapping at most; a slice that
\* begins behind it is a panic.  The file is cut, or filled with zeros, at bytePos.
WriterClose ==
  LET bloomAt == bytePos + IndexLen(index)
      footerAt == bloomAt + BloomLen(bloom)
      offsets == [index |-> bytePos, bloom |-> bloomAt]
  IN  /\ pc = "append" /\ Len(file) = Len(result)
      /\ \/ /\ footerAt > mmapCap
            /\ pc' = "panic"
            /\ UNCHANGED <<file, bytePos>>
         \/ /\ footerAt <= mmapCap
            /\ pc' = "closed"
            /\ file' = file \o <<Block("index", index, bytePos, IndexLen(index), mmapCap),
                                 Block("bloom", bloom, bloomAt, BloomLen(bloom), mmapCap),
                                 Block("footer", offsets, footerAt, FooterLen, mmapCap)>>
            /\ bytePos' = footerAt + FooterLen
      /\ UNCHANGED <<vars, mmapCap, index, bloom>>

\* A file that cannot be created, grown or synced: PutBatch returns the error, and the
\* memtable stays, with the keys that Entries has cached.
WriterFails ==
  /\ pc = "append"
  /\ pc' = "idle"
  /\ UNCHANGED <<vars, file, bytePos, mmapCap, index, bloom>>

\* A new memtable takes the place of the old one before OpenNoVerify has looked for the
\* magic number, the last bytes of the footer.
Install ==
  /\ pc = "closed"
  /\ m' = {} /\ keys' = << >> /\ size' = 0 /\ dirty' = FALSE
  /\ pc' = IF file[Len(file)].whole THEN "open" ELSE "refused"
  /\ UNCHANGED <<result, now, file, bytePos, mmapCap, index, bloom>>

\* The panic ends the process; the next one replays the log into a new memtable.
Restart ==
  /\ pc = "panic"
  /\ pc' = "idle"
  /\ keys' = << >> /\ dirty' = TRUE
  /\ UNCHANGED <<m, size, result, now, file, bytePos, mmapCap, index, bloom>>

FlushNext ==
  \/ Write \/ FlushNothing
  \/ CreateWriter \/ WriterAppend \/ WriterClose \/ WriterFails \/ Install \/ Restart

FlushSpec == FlushInit /\ [][FlushNext]_allVars
-----------------------------------------------------------------------------
(* Reading the finished file.                                              *)

Last == Len(file)
FileOffsets == file[Last].of
FileIndex == file[Last - 2].of
FileBloom == file[Last - 1].of

\* parseEntry takes a block for an entry if it is one and whole.
Parses(n) == file[n].kind = "entry" /\ file[n].whole

\* EntryIter goes from offset 0 to dataSize, which is the offset of the index.
Iterated ==
  {n \in 1 .. Last : \A i \in 1 .. n : Parses(i) /\ file[i].at < FileOffsets.index}
AllEntries == [n \in Iterated |-> file[n].of]

\* sparseIndex.Lookup, of which SSTable has the search.
LookupOffset(k) ==
  LET below == {n \in DOMAIN FileIndex : FileIndex[n].key <= k}
  IN  IF below = {} THEN 0 ELSE FileIndex[FSE!Max(below)].offset

\* Get scans on from there, to the end of the mapping and not to dataSize, until it
\* meets a greater key.
FileGet(k) ==
  LET from == {n \in 1 .. Last : file[n].at >= LookupOffset(k)}
      passed(n) == {i \in from : i < n}
      found == {n \in from : /\ MayContain(FileBloom, k)
                             /\ Parses(n) /\ file[n].of.key = k
                             /\ \A i \in passed(n) : Parses(i) /\ file[i].of.key < k}
  IN  {file[n].of : n \in found}

MinKey == FileIndex[1].key
MaxKey == FileIndex[Len(FileIndex)].key
-----------------------------------------------------------------------------
(* What makes it correct.                                                  *)

\* When the memtable is dropped for a file that opens, the file has all of it: what
\* iterating and Get read of the bytes, through the filter and the index and whatever
\* the mapping had to grow, are the entries as they were last written.  MinKey is
\* exact, and fewer than Step keys lie behind MaxKey, as compactions assume.
FlushExact ==
  [][pc = "closed" /\ pc' = "open" =>
       /\ {AllEntries[n] : n \in DOMAIN AllEntries} = m
       /\ \A n \in DOMAIN AllEntries :
            n > 1 => AllEntries[n - 1].key < AllEntries[n].key
       /\ \A k \in Keys : FileGet(k) = {e \in m : e.key = k}
       /\ \A e \in m : MinKey <= e.key
       /\ Cardinality({e \in m : e.key > MaxKey}) < Step]_allVars

\* The bytes of the entries that are flushed.
DataLen == FSE!MapThenSumSet(LAMBDA n : EntryLen(result[n]), DOMAIN result)

\* Whether a flush fails, and with a footer that was cut loses the memtable, depends on
\* the sum of the lengths of the entries: it fails only below a doubling of
\* InitialMmapSize, or at it, by less than the three blocks need, and there it does
\* fail, except at the doubling itself if one entry has half of the bytes: then the
\* mapping may have been doubled past it.
FlushFailsBelowDoublings ==
  LET tail == IndexLen(index) + BloomLen(bloom) + FooterLen
      Short == {c \in Doublings : DataLen <= c /\ c < DataLen + tail}
      Long(n, c) == 2 * EntryLen(result[n]) >= c
  IN  /\ pc = "open" => \A c \in Short : c = DataLen /\ \E n \in DOMAIN result : Long(n, c)
      /\ pc \in {"refused", "panic"} => Short # {}
=============================================================================
