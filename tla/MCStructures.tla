---------------------------- MODULE MCStructures ----------------------------
(***************************************************************************)
(* Small instances of six parts that share no state, for one run of TLC:   *)
(* the pipeline with its two rings, the order index, the price bitmap, the *)
(* journal, a client connection and the latency histogram.  A behaviour is *)
(* one of the part `part'; the others stay as they are.                    *)
(***************************************************************************)
EXTENDS Pipeline, OrderIndex, PriceBitmap, Journal, Connection, LatencyHistogram, Bitwise

\* The index's hash is LocalityHash: the id folded with its bits above the table
\* size.
LocalityHash == [k \in Keys |-> (k ^^ (k \div TableSize)) % 2 ^ FpBits]
FingerprintOf(k) == LocalityHash[k]

VARIABLE part

rest == <<indexVars, bitmapVars, journalVars, connVars, histogramVars>>

\* A pipeline whose threads were never started.
NoPipeline ==
    /\ In!Init /\ Md!Init
    /\ pc = [t \in Threads |-> "off"]
    /\ done = [feed |-> FALSE, engine |-> FALSE]
    /\ go = TRUE
    /\ out = 0
    /\ seen = [fed |-> <<>>, processed |-> <<>>, published |-> <<>>, consumed |-> <<>>]

PartInit ==
    /\ part \in {"pipeline", "index", "bitmap", "journal", "connection", "histogram"}
    /\ IF part = "pipeline" THEN Init ELSE NoPipeline
    /\ IndexInit
    /\ BitmapInit
    /\ JournalInit
    /\ ConnInit
    /\ HistogramInit

PipelinePart == part = "pipeline" /\ Next /\ UNCHANGED <<rest, part>>
IndexPart ==
    part = "index" /\ IndexNext
        /\ UNCHANGED <<vars, bitmapVars, journalVars, connVars, histogramVars, part>>
BitmapPart ==
    part = "bitmap" /\ BitmapNext
        /\ UNCHANGED <<vars, indexVars, journalVars, connVars, histogramVars, part>>
JournalPart ==
    part = "journal" /\ JournalNext
        /\ UNCHANGED <<vars, indexVars, bitmapVars, connVars, histogramVars, part>>
ConnPart ==
    part = "connection" /\ ConnNext
        /\ UNCHANGED <<vars, indexVars, bitmapVars, journalVars, histogramVars, part>>
HistogramPart ==
    part = "histogram" /\ HistogramNext
        /\ UNCHANGED <<vars, indexVars, bitmapVars, journalVars, connVars, part>>

\* The bounds of the journal or of the connection are reached, or the header of
\* the journal is unreadable.
Stopped == part \in {"journal", "connection"} /\ UNCHANGED <<vars, rest, part>>

PartNext ==
    PipelinePart \/ IndexPart \/ BitmapPart \/ JournalPart \/ ConnPart \/ HistogramPart \/ Stopped

PartSpec == PartInit /\ [][PartNext]_<<vars, rest, part>> /\ Fairness
=============================================================================
