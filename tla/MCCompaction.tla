---------------------------- MODULE MCCompaction ----------------------------
(* Small instances of Compaction for TLC. *)
EXTENDS Compaction

V(k, t, dead) == [key |-> k, ts |-> t, tombstone |-> dead]

\* What a table may hold when its versions have timestamps of S.
MCContents(S) ==
  {vs \in SUBSET {V(k, t, dead) : k \in Keys \ {EmptyKey}, t \in S, dead \in BOOLEAN} :
     vs # {} /\ \A v, w \in vs : v.key = w.key => v = w}

\* Any table with older and newer versions than another's, and maybe a third
\* one that is older than both and holds all keys, with the empty one.
MCInputs ==
  {{[id |-> 1, ents |-> a], [id |-> 2, ents |-> b]} \cup T :
     a \in MCContents({2, 4}), b \in MCContents({3}),
     T \in {{}, {[id |-> 3, ents |-> {V(k, 1, FALSE) : k \in Keys}]}}}

MCOutLevels == {1, 2}
=============================================================================
