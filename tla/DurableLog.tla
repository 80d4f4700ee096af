----------------------------- MODULE DurableLog -----------------------------
(***************************************************************************)
(* What a write-ahead journal promises (include/exsim/journal.hpp:170): a  *)
(* flushed record survives the end of the process, a synced one the loss   *)
(* of power, and whatever survives is a prefix of what was appended.       *)
(***************************************************************************)
EXTENDS Naturals, Sequences

CONSTANT Records

VARIABLES
    log,         \* the records that can be read back, or are still to be written
    flushed,     \* how many of them were flushed
    synced       \* how many of them were synced

Init == log = <<>> /\ flushed = 0 /\ synced = 0

Append1(r) == log' = Append(log, r) /\ UNCHANGED <<flushed, synced>>

Flush == flushed' = Len(log) /\ UNCHANGED <<log, synced>>

Sync == flushed' = Len(log) /\ synced' = Len(log) /\ UNCHANGED log

\* Everything from some record on is lost.
LoseAllBut(n) ==
    /\ log' = SubSeq(log, 1, n)
    /\ flushed' = n

ProcessEnd == \E n \in flushed .. Len(log) : LoseAllBut(n) /\ UNCHANGED synced

PowerLoss == \E n \in synced .. Len(log) : LoseAllBut(n) /\ synced' = n

Next ==
    \/ \E r \in Records : Append1(r)
    \/ Flush
    \/ Sync
    \/ ProcessEnd
    \/ PowerLoss

Spec == Init /\ [][Next]_<<log, flushed, synced>>
=============================================================================
