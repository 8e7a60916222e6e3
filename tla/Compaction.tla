----------------------------- MODULE Compaction -----------------------------
(***************************************************************************)
(* DoCompact as it runs: the k-way merge with a heap of one entry for each *)
(* input, the key written last, and the output file that is open.          *)
(*                                                                         *)
(* An input is read in the order of its keys; it holds one version of a    *)
(* key.  The heap is the set of its elements: Pop takes one that is the    *)
(* least by Less, and any of those that are equal.                         *)
(***************************************************************************)
EXTENDS Tables

CONSTANTS Inputs,     \* the sets of tables it may be called with
          OutLevels,  \* the levels it may write to
          FirstID     \* lsm.nextID at the call

\* A table holds one version of a key, and no two tables hold different
\* versions of a key with one timestamp (PutBatch, MemTable).
ASSUME InputsAssumption ==
  /\ Inputs \subseteq SUBSET Table
  /\ \A T \in Inputs : \A t, u \in T : \A v \in t.ents, w \in u.ents :
       v.key = w.key /\ (t = u \/ v.ts = w.ts) => v = w
  /\ OutLevels \subseteq Level \ {0}
  /\ FirstID \in Nat

VARIABLES
  inputs, outLevel,   \* the arguments
  unread,     \* of each input: the versions its iterator has yet to return
  heap,       \* the heads: [src, v]
  lastKey,
  chunk,      \* the versions of the open output file; {} when w is nil
  outputs,    \* the files closed
  fileID,     \* the number of the next file
  done

mergeVars == <<inputs, outLevel, unread, heap, lastKey, chunk, outputs, fileID, done>>

\* EntryIter.Next on what an iterator has left.
First(vs) == CHOOSE v \in vs : \A u \in vs : v.key <= u.key

MergeInit ==
  /\ inputs \in Inputs /\ outLevel \in OutLevels
  /\ heap = {[src |-> t, v |-> First(t.ents)] : t \in {u \in inputs : u.ents # {}}}
  /\ unread = [t \in inputs |-> {v \in t.ents : v # First(t.ents)}]
  /\ lastKey = EmptyKey
  /\ chunk = {} /\ outputs = {} /\ fileID = FirstID
  /\ done = FALSE

\* Broken: equal keys come out in the order of their age.
LessOldest(a, b) ==
  a.v.key < b.v.key \/ (a.v.key = b.v.key /\ a.v.ts < b.v.ts)

\* Keys ascend; of one key the newest version comes out first.
Less(a, b) ==
  a.v.key < b.v.key \/ (a.v.key = b.v.key /\ a.v.ts > b.v.ts)

\* heap.Pop, and heap.Push of the next entry of the same input.
PopPush(e) ==
  /\ \A f \in heap : ~Less(f, e)
  /\ heap' = (heap \ {e}) \cup
               (IF unread[e.src] = {} THEN {}
                ELSE {[src |-> e.src, v |-> First(unread[e.src])]})
  /\ unread' = [unread EXCEPT ![e.src] = {v \in @ : v # First(@)}]

Skipped(v) == v.key = lastKey

\* Broken: a dropped tombstone is forgotten.
DropForgets ==
  /\ \E e \in heap : /\ ~Skipped(e.v)
                     /\ e.v.tombstone /\ outLevel >= BottomLevel
                     /\ PopPush(e)
  /\ UNCHANGED <<inputs, outLevel, lastKey, chunk, outputs, fileID, done>>

Skip == /\ \E e \in heap : Skipped(e.v) /\ PopPush(e)
        /\ UNCHANGED <<inputs, outLevel, lastKey, chunk, outputs, fileID, done>>

\* A tombstone at the bottom is dropped, and shadows what is older.
Drop ==
  /\ \E e \in heap : /\ ~Skipped(e.v)
                     /\ e.v.tombstone /\ outLevel >= BottomLevel
                     /\ PopPush(e)
                     /\ lastKey' = e.v.key
  /\ UNCHANGED <<inputs, outLevel, chunk, outputs, fileID, done>>

\* The file that is open, which has taken its number from fileID.
Closed == [id |-> fileID - 1, ents |-> chunk]

\* Any other entry is written, to a new file if there is none open or the
\* open one would grow beyond its size, which closes it.
Emit ==
  \E e \in heap :
    /\ ~Skipped(e.v)
    /\ ~(e.v.tombstone /\ outLevel >= BottomLevel)
    /\ PopPush(e)
    /\ lastKey' = e.v.key
    /\ \/ /\ chunk # {} /\ Cardinality(chunk) < TargetEntries
          /\ chunk' = chunk \cup {e.v}
          /\ UNCHANGED <<outputs, fileID>>
       \/ /\ chunk = {} \/ Cardinality(chunk) >= TargetEntries
          /\ outputs' = IF chunk = {} THEN outputs ELSE outputs \cup {Closed}
          /\ chunk' = {e.v}
          /\ fileID' = fileID + 1
    /\ UNCHANGED <<inputs, outLevel, done>>

\* The heap is empty: the open file is closed.
Finish ==
  /\ heap = {} /\ ~done
  /\ outputs' = IF chunk = {} THEN outputs ELSE outputs \cup {Closed}
  /\ chunk' = {}
  /\ done' = TRUE
  /\ UNCHANGED <<inputs, outLevel, unread, heap, lastKey, fileID>>

MergeNext == Skip \/ Drop \/ Emit \/ Finish

MergeSpec == MergeInit /\ [][MergeNext]_mergeVars
-----------------------------------------------------------------------------
(* What makes it correct.                                                  *)

Written == chunk \cup EntriesOf(outputs)

Unread == {e.v : e \in heap} \cup UNION {unread[t] : t \in inputs}

\* At every step nothing but newest versions has been written, and of every key but
\* the empty one, which is lost, the newest version has been written or is to come
\* (it is the newest left, and not shadowed by lastKey), or it is a tombstone that
\* is dropped at the bottom (README, "streaming k-way merge heap").
NeverLosesNewest ==
  /\ Written \subseteq Newest(EntriesOf(inputs))
  /\ \A v \in Newest(EntriesOf(inputs)) :
       \/ v.key = EmptyKey
       \/ v \in Written
       \/ v \in Newest(Unread) /\ v.key # lastKey
       \/ v.tombstone /\ outLevel >= BottomLevel

\* It returns the files that compactL0ToL1 and compactLevel, as Tables models
\* them, put into the next level, numbered from lsm.nextID without a gap.
ReturnsMerge ==
  done => /\ outputs = DoCompact(inputs, outLevel, FirstID)
          /\ fileID = FirstID + Cardinality(outputs)
=============================================================================
