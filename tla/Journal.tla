------------------------------ MODULE Journal ------------------------------
(***************************************************************************)
(* The write-ahead journal of include/exsim/journal.hpp, down to where its *)
(* bytes are: in the buffer of stdio, in the file as the operating system  *)
(* holds it, or on the disk.                                               *)
(*                                                                         *)
(* The file is a sequence of cells: two of the header, then for each       *)
(* record two of its RecordMeta (the length and the rest) and those of its *)
(* payload.  A write moves any number of cells.  The operating system and  *)
(* the disk are external: the disk gets cells in no particular order until *)
(* fsync, so that after a loss of power cells that were not synced may be  *)
(* missing or Bad.  A cut of the file reaches the disk before what is      *)
(* appended after it.                                                      *)
(***************************************************************************)
EXTENDS Integers, Sequences, FiniteSetsExt

CONSTANTS
    MaxRecords,      \* bound: records ever appended
    PayloadSizes,    \* the cells of a payload
    MaxCrashes,      \* bound: ends of the process and losses of power
    Bad              \* a cell with something else in it

ASSUME JournalAssumption ==
    /\ PayloadSizes \subseteq Nat \ {0}
    /\ MaxRecords \in Nat /\ MaxCrashes \in Nat
    /\ Bad \notin {"EXJR", "version"} \cup [rec : 1 .. MaxRecords, cell : Nat, of : Nat]

VARIABLES
    jw,              \* the writer: its state, the records it knows to be in the
                     \* journal, and the id of the next one
    buf,             \* stdio's buffer
    os,              \* the file
    disk,            \* the file at the last fsync
    saved            \* history: records flushed and synced, and crashes

journalVars == <<jw, buf, os, disk, saved>>

Header == <<"EXJR", "version">>

MetaCells == 2

\* The cells of record r, whose payload has n cells.
CellsOf(r, n) == [i \in 1 .. MetaCells + n |-> [rec |-> r, cell |-> i, of |-> MetaCells + n]]

Ids == 1 .. MaxRecords

-----------------------------------------------------------------------------
(* journal_scan. *)

\* A record starts at cell i of f and passes its checks.  The CRC covers all of
\* it; a length that is Bad is impossible, or reads past the end, or makes the
\* CRC fail.
WholeAt(f, i) ==
    /\ f[i] # Bad
    /\ f[i].cell = 1
    /\ i + f[i].of - 1 =< Len(f)
    /\ \A k \in 0 .. f[i].of - 1 : f[i + k] # Bad /\ f[i + k].rec = f[i].rec /\ f[i + k].cell = k + 1

\* The header is complete and is not one: journal_scan throws.
Unreadable(f) == Len(f) >= Len(Header) /\ SubSeq(f, 1, Len(Header)) # Header

\* What a scan reads: the records, and valid_bytes.  A file without a complete
\* header reads as torn, with nothing valid in it.
Scan(f) ==
    LET At[i \in Len(Header) + 1 .. Len(f) + 1] ==
          IF i > Len(f) \/ ~WholeAt(f, i) THEN [records |-> <<>>, valid |-> i - 1]
          ELSE LET rest == At[i + f[i].of]
               IN  [rest EXCEPT !.records = <<f[i].rec>> \o @]
    IN  IF Len(f) < Len(Header) \/ Unreadable(f) THEN [records |-> <<>>, valid |-> 0]
        ELSE At[Len(Header) + 1]

-----------------------------------------------------------------------------
(* JournalWriter. *)

\* Cells 1 .. n of the buffer are written.
Written(n) ==
    /\ os' = os \o SubSeq(buf, 1, n)
    /\ buf' = SubSeq(buf, n + 1, Len(buf))

\* append, into the buffer.
AppendRecord(n) ==
    /\ jw.state = "open"
    /\ jw.next \in Ids
    /\ buf' = buf \o CellsOf(jw.next, n)
    /\ jw' = [jw EXCEPT !.held = @ + 1, !.next = @ + 1]
    /\ UNCHANGED <<os, disk, saved>>

\* The buffer is full: stdio writes what it likes, which may end in a record.
Spill ==
    /\ jw.state \in {"open", "creating"}
    /\ \E n \in 1 .. Len(buf) : Written(n)
    /\ UNCHANGED <<jw, disk, saved>>

Flush ==
    /\ jw.state \in {"open", "creating"}
    /\ buf # <<>>
    /\ Written(Len(buf))
    /\ saved' = [saved EXCEPT !.flushed = jw.held]
    /\ UNCHANGED <<jw, disk>>

\* sync, once its flush has succeeded; create ends with it.
Sync ==
    /\ jw.state \in {"open", "creating"}
    /\ buf = <<>>
    /\ disk # os \/ jw.state = "creating"
    /\ disk' = os
    /\ jw' = [jw EXCEPT !.state = "open"]
    /\ saved' = [saved EXCEPT !.flushed = jw.held, !.synced = jw.held]
    /\ UNCHANGED <<buf, os>>

\* A write or an fsync fails: the writer throws, and its owner stops.
WriteError ==
    /\ jw.state \in {"open", "creating"}
    /\ \E n \in 0 .. Len(buf) : Written(n)
    /\ jw' = [jw EXCEPT !.state = "failed"]
    /\ UNCHANGED <<disk, saved>>

\* create: an empty file, and the header in the buffer.
Create ==
    /\ jw.state = "none"
    /\ buf' = Header
    /\ os' = <<>>
    /\ jw' = [jw EXCEPT !.state = "creating"]
    /\ UNCHANGED <<disk, saved>>

\* A recovery that appends where the file ends.
RecoverUncut ==
    /\ jw.state = "ended"
    /\ ~Unreadable(os)
    /\ jw' = [jw EXCEPT !.state = IF Scan(os).valid < Len(Header) THEN "none" ELSE "open",
                        !.held = Len(Scan(os).records)]
    /\ UNCHANGED <<buf, os, disk, saved>>

\* recover: the file is cut after its valid prefix; without a header it is
\* created anew.
Recover ==
    /\ jw.state = "ended"
    /\ ~Unreadable(os)
    /\ os' = SubSeq(os, 1, Scan(os).valid)
    /\ jw' = [jw EXCEPT !.state = IF Scan(os).valid < Len(Header) THEN "none" ELSE "open",
                        !.held = Len(Scan(os).records)]
    /\ UNCHANGED <<buf, disk, saved>>

-----------------------------------------------------------------------------
(* Crashes. *)

Crashing == jw.state # "ended" /\ saved.crashes < MaxCrashes

\* The process ends.  What is in the buffer is lost, but for what a last write
\* under way had moved (the destructor's fclose included).
ProcessEnd ==
    /\ Crashing
    /\ \E n \in 0 .. Len(buf) :
         /\ os' = os \o SubSeq(buf, 1, n)
         /\ saved' = [saved EXCEPT !.crashes = @ + 1, !.flushed = Len(Scan(os').records)]
    /\ buf' = <<>>
    /\ jw' = [jw EXCEPT !.state = "ended"]
    /\ UNCHANGED disk

IsPrefixOf(a, b) == Len(a) =< Len(b) /\ SubSeq(b, 1, Len(a)) = a

\* What the file can be after power returns: what was synced, and some of the
\* rest, with cells from a to b Bad; or nothing since the last sync happened.
AfterPowerLoss ==
    LET kept == IF IsPrefixOf(disk, os) THEN Len(disk) ELSE Len(os)
        part(n, a, b) == [i \in 1 .. n |-> IF i \in a .. b THEN Bad ELSE os[i]]
    IN  {disk} \cup {part(n, a, b) : n \in kept .. Len(os), a \in kept + 1 .. Len(os) + 1,
                                    b \in 0 .. Len(os)}

PowerLoss ==
    /\ Crashing
    /\ \E f \in AfterPowerLoss :
         /\ os' = f
         /\ disk' = f
         /\ saved' = [crashes |-> saved.crashes + 1, flushed |-> Len(Scan(f).records),
                      synced |-> Len(Scan(f).records)]
    /\ buf' = <<>>
    /\ jw' = [jw EXCEPT !.state = "ended"]

-----------------------------------------------------------------------------

JournalInit ==
    /\ jw = [state |-> "none", held |-> 0, next |-> 1]
    /\ buf = <<>>
    /\ os = <<>>
    /\ disk = <<>>
    /\ saved = [flushed |-> 0, synced |-> 0, crashes |-> 0]

JournalNext ==
    \/ \E n \in PayloadSizes : AppendRecord(n)
    \/ Spill
    \/ Flush
    \/ Sync
    \/ WriteError
    \/ Create
    \/ Recover
    \/ ProcessEnd
    \/ PowerLoss

JournalSpec == JournalInit /\ [][JournalNext]_journalVars

-----------------------------------------------------------------------------
(* Properties. *)

Durable == INSTANCE DurableLog WITH
    Records <- Ids,
    log <- Scan(os \o buf).records,
    flushed <- saved.flushed,
    synced <- saved.synced

\* journal.hpp:14 and 170: with crashes at every cell, writes that fail, torn
\* and damaged tails, crashes while a recovery is under way and records appended
\* after it, what a scan reads back is what a durable log would hold: every
\* record flushed before the process ended or synced before power was lost, and
\* nothing but a prefix of what was appended.
JournalIsDurable == Durable!Spec
=============================================================================
