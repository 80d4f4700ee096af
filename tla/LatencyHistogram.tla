-------------------------- MODULE LatencyHistogram --------------------------
(***************************************************************************)
(* The log-linear histogram of include/exsim/latency_histogram.hpp: every  *)
(* power of two is split into Sub linear buckets, so that a percentile is  *)
(* reported with a bounded relative error.  A percentile is asked for by   *)
(* its rank; the sum, the minimum and the mean are left out.               *)
(***************************************************************************)
EXTENDS Integers, FiniteSetsExt, Functions

CONSTANTS
    SubBits,         \* kSubBits (5 in the code)
    ValueBits,       \* the width of a value (64 in the code)
    Recorded,        \* bound: the values that are recorded
    MaxCount         \* bound: values per histogram

ASSUME HistogramAssumption ==
    /\ SubBits \in Nat /\ ValueBits \in Nat /\ SubBits < ValueBits
    /\ Recorded \subseteq 0 .. 2 ^ ValueBits - 1

VARIABLES
    hist,            \* two histograms
    given            \* history: how often each value was recorded in each

histogramVars == <<hist, given>>

Sub == 2 ^ SubBits
Buckets == 0 .. (ValueBits - SubBits + 1) * Sub - 1

\* The position of the highest one bit of v > 0.
Msb(v) == Max({b \in 0 .. ValueBits - 1 : 2 ^ b =< v})

\* index: the bucket of a value.
Index(v) ==
    IF v < Sub THEN v
    ELSE LET shift == Msb(v) - SubBits IN (shift + 1) * Sub + v \div 2 ^ shift - Sub

\* upper_bound without the offset of a bucket's first value.
UpperBoundShort(i) ==
    IF i < Sub THEN i
    ELSE (((i % Sub) + Sub) * 2 ^ (i \div Sub - 1) - 1) % 2 ^ ValueBits

\* upper_bound: the largest value of a bucket.
UpperBound(i) ==
    IF i < Sub THEN i
    ELSE (((i % Sub) + Sub + 1) * 2 ^ (i \div Sub - 1) - 1) % 2 ^ ValueBits

-----------------------------------------------------------------------------

Cleared == [counts |-> [i \in Buckets |-> 0], count |-> 0, max |-> 0]
NoneGiven == [v \in Recorded |-> 0]

RecordValue(h, v) ==
    /\ hist[h].count < MaxCount
    /\ hist' = [hist EXCEPT ![h].counts[Index(v)] = @ + 1, ![h].count = @ + 1,
                            ![h].max = Max({@, v})]
    /\ given' = [given EXCEPT ![h][v] = @ + 1]

Merged(a, b) ==
    [counts |-> [i \in Buckets |-> a.counts[i] + b.counts[i]],
     count |-> a.count + b.count, max |-> Max({a.max, b.max})]

Merge(h, o) ==
    /\ hist[o].count > 0 /\ hist[h].count + hist[o].count =< MaxCount
    /\ hist' = [hist EXCEPT ![h] = Merged(@, hist[o])]
    /\ given' = [given EXCEPT ![h] = [v \in Recorded |-> @[v] + given[o][v]]]

Reset(h) ==
    /\ hist[h].count > 0
    /\ hist' = [hist EXCEPT ![h] = Cleared]
    /\ given' = [given EXCEPT ![h] = NoneGiven]

\* percentile, for the rank that p comes to.
Percentile(h, rank) ==
    LET UpTo[i \in Buckets] == h.counts[i] + (IF i = 0 THEN 0 ELSE UpTo[i - 1])
        reached == {i \in Buckets : UpTo[i] >= rank}
    IN  CASE h.count = 0 -> 0
          [] reached = {} -> h.max
          [] OTHER -> Min({UpperBound(Min(reached)), h.max})

HistogramInit == hist = [h \in 1 .. 2 |-> Cleared] /\ given = [h \in 1 .. 2 |-> NoneGiven]

HistogramNext ==
    \E h \in 1 .. 2 :
        \/ \E v \in Recorded : RecordValue(h, v)
        \/ Merge(h, 3 - h)
        \/ Reset(h)

-----------------------------------------------------------------------------
(* Properties. *)

\* The value of a rank among the values themselves.
ExactAt(g, rank) ==
    Min({v \in Recorded : SumFunctionOnSet(g, {w \in Recorded : w =< v}) >= rank})

\* latency_histogram.hpp:15, "any recorded value is reported within 1/32 (~3%)
\* relative error. Values below 32 are exact": for every rank, at the borders of
\* buckets and powers of two and up to the largest value of the type, also after
\* merges, what is reported is at least the value of that rank, exceeds it by at
\* most one part in Sub and never exceeds the largest value recorded.
PercentilesAreClose ==
    \A h \in 1 .. 2 : \A rank \in 1 .. hist[h].count :
        LET exact == ExactAt(given[h], rank)
            told == Percentile(hist[h], rank)
        IN  /\ exact =< told
            /\ (told - exact) * Sub =< exact
            /\ exact < Sub => told = exact
            /\ told =< Max({v \in Recorded : given[h][v] > 0})
=============================================================================
