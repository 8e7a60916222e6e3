-------------------------------- MODULE Log --------------------------------
(***************************************************************************)
(* What LsmRecovery takes a write-ahead log to be: the records that Replay *)
(* would find, and whether the log listens.  A log is opened, replayed and *)
(* reset, appended to, closed, or its process is killed or the power lost. *)
(***************************************************************************)
EXTENDS Naturals, Sequences

CONSTANTS MaxRecords,    \* records are numbered 1 .. MaxRecords
          PowerMayFail

VARIABLES recs,         \* the records Replay would find, in order
          grown,        \* the file is longer than its version byte
          deaf          \* what is appended now is not found by Replay

logvars == <<recs, grown, deaf>>

LogInit == recs = << >> /\ grown = FALSE /\ deaf = FALSE

\* A file that was grown and holds no records is opened at its end.
LogOpen == /\ deaf' = (recs = << >> /\ grown)
           /\ grown' = TRUE
           /\ UNCHANGED recs

LogReset == recs' = << >> /\ grown' = FALSE /\ deaf' = FALSE

LogGrow == recs = << >> /\ grown' = TRUE /\ UNCHANGED <<recs, deaf>>

\* A deaf log stays so, unless a loss of power has left zeros that end in step with
\* Replay.
LogAppend(id) ==
  /\ \/ deaf /\ UNCHANGED <<recs, deaf>>
     \/ ~deaf /\ recs' = Append(recs, id) /\ UNCHANGED deaf
     \/ PowerMayFail /\ deaf /\ recs' = Append(recs, id) /\ deaf' = FALSE
  /\ UNCHANGED grown

LogClose == /\ grown' = (recs # << >> \/ deaf)
            /\ deaf' = FALSE
            /\ UNCHANGED recs

\* A killed process loses nothing that was appended.
LogKill == deaf' = FALSE /\ UNCHANGED <<recs, grown>>

\* What is left of a log in which some records were lost.
Remaining(rs, sub) ==
  \E at \in [DOMAIN sub -> DOMAIN rs] :
    /\ \A i, j \in DOMAIN sub : i < j => at[i] < at[j]
    /\ \A i \in DOMAIN sub : sub[i] = rs[at[i]]

\* A loss of power may take any of the records; if it takes the first of those that
\* Replay stumbled over, it may find the next.
LogPowerLoss ==
  /\ PowerMayFail
  /\ deaf' = FALSE /\ UNCHANGED grown
  /\ recs' \in Seq(1 .. MaxRecords)
  /\ deaf \/ Remaining(recs, recs')

LogNext == \/ LogOpen \/ LogReset \/ LogGrow \/ LogClose \/ LogKill
           \/ LogPowerLoss
           \/ \E id \in 1 .. MaxRecords : LogAppend(id)

LogSpec == LogInit /\ [][LogNext]_logvars
=============================================================================
