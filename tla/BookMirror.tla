----------------------------- MODULE BookMirror -----------------------------
(***************************************************************************)
(* include/exsim/md_mirror.hpp and tools/exsim_mdreplay.cpp: an exchange's *)
(* book is rebuilt in the matching engine from a capture of level totals,  *)
(* one synthetic order per level, and compared with the exchange's own     *)
(* snapshots.                                                              *)
(*                                                                         *)
(* The exchange and the capture are external.  Every change of a level has *)
(* an id; a diff tells the new totals of the levels that changed in a      *)
(* range of ids, and may be missing from the capture; a snapshot tells the *)
(* best levels of each side as of an id, which may lie inside a diff.      *)
(*                                                                         *)
(* The engine is that of PureMatch.  The mirror configures it without      *)
(* self-trade prevention, which is modelled by an owner for each order.    *)
(* The ladder, which the tool centres on the first snapshot's mid price,   *)
(* is a constant.                                                          *)
(***************************************************************************)
EXTENDS PureMatch, SequencesExt

CONSTANTS
    Ladder,          \* the prices of the mirror's ladder, min_px_ .. + n_ - 1
    Captures         \* what the exchange and the capture do, and the tool's options

VARIABLES
    cap,             \* the scenario, one of Captures
    ex,              \* the exchange: its levels, and what the next diff will tell
    history,         \* history: the levels after each id
    diffs, snaps,    \* the records of the capture
    mirror,          \* BookMirror
    loop             \* the replay loop: phase, dpos, prev_last, and what it noted

mirrorVars == <<cap, ex, history, diffs, snaps, mirror, loop>>

BestFirst(side, prices) ==
    SetToSortSeq(prices, LAMBDA a, b : IF side = "Buy" THEN a > b ELSE a < b)

\* The levels of a side, best first, as <<price, total>>.
Listed(levels, side) ==
    LET ps == BestFirst(side, {p \in Prices : levels[side][p] > 0})
    IN  [i \in DOMAIN ps |-> <<ps[i], levels[side][ps[i]]>>]

Upto(n, s) == SubSeq(s, 1, Min({n, Len(s)}))

-----------------------------------------------------------------------------
(* The engine's book behind the mirror. *)

IdFor(px, side) == 2 * (px - Min(Ladder)) + (IF side = "Sell" THEN 1 ELSE 0) + 1

\* What an operation of the engine did to the mirror m.
Took(m, res) ==
    [m EXCEPT !.book = res.book,
              !.phantom = @ \/ \E i \in DOMAIN res.log : res.log[i].what = "Trade"]

LevelOrder(side, px, qty) ==
    [id |-> IdFor(px, side), owner |-> IdFor(px, side), side |-> side, ordType |-> "Limit",
     price |-> px, qty |-> qty, tif |-> "Day", postOnly |-> FALSE, stp |-> "None"]

\* What add answered, in a book of max_orders_ orders: an order too many does
\* not rest.
Fits(res, id) ==
    IF res.fate = "rested" /\ Cardinality(IdsIn(res.book)) > cap.maxOrders
    THEN [res EXCEPT !.book = CancelIn(@, id)] ELSE res

NoteFull(m, id) == [m EXCEPT !.bookFull = @ \/ id \notin IdsIn(m.book)]

AddLevel(m, side, px, qty) ==
    NoteFull(Took(m, Fits(AddTo(m.book, LevelOrder(side, px, qty)), IdFor(px, side))),
             IdFor(px, side))

NoteSlot(m, side, px, qty) == [m EXCEPT !.slot[side][px] = qty]

\* set_level, inside the band.
SetLevel(m, side, px, qty) ==
    LET cur == m.slot[side][px]
    IN  NoteSlot(IF qty = 0 /\ cur = 0 THEN m
                 ELSE IF qty = 0 THEN [m EXCEPT !.book = CancelIn(@, IdFor(px, side))]
                 ELSE IF cur = 0 THEN AddLevel(m, side, px, qty)
                 ELSE Took(m, ModifyIn(m.book, IdFor(px, side), px, qty)),
                 side, px, qty)

-----------------------------------------------------------------------------
(* seed. *)

EmptySlots == [s \in Sides |-> [p \in Ladder |-> 0]]

\* The deepest price of a snapshot's side, up to which the mirror is complete.
Horizon(snap, side) ==
    IF snap[side] # <<>> THEN Last(snap[side])[1]
    ELSE IF side = "Buy" THEN Min(Ladder) ELSE Max(Ladder) + 1

Span(snap, side) ==
    IF snap[side] = <<>> THEN 0
    ELSE IF side = "Buy" THEN Head(snap[side])[1] - Horizon(snap, side)
    ELSE Horizon(snap, side) - Head(snap[side])[1]

\* The levels of a record, the bids first, as <<side, price, total>>.
InOrder(record) ==
    LET of(side) == [i \in DOMAIN record[side] |-> <<side>> \o record[side][i]]
    IN  of("Buy") \o of("Sell")

SetIfInBand(m, l) ==
    IF l[2] \notin Ladder THEN [m EXCEPT !.outOfBand = TRUE] ELSE SetLevel(m, l[1], l[2], l[3])

\* The mirror m starts again from a snapshot.
Seeded(m, snap) ==
    FoldLeft(SetIfInBand,
             [m EXCEPT !.slot = EmptySlots, !.book = EmptyBook,
                       !.horizon = [s \in Sides |-> Horizon(snap, s)],
                       !.span = [s \in Sides |-> Span(snap, s)]],
             InOrder(snap))

\* Half of the seeded depth is gone on a side, or all of it.
NeedsReseed(m) ==
    LET bids == LevelsIn(m.book, "Buy")
        asks == LevelsIn(m.book, "Sell")
    IN  \/ bids = {} \/ asks = {}
        \/ (m.horizon["Sell"] - Min(asks)) * 2 < m.span["Sell"]
        \/ (Max(bids) - m.horizon["Buy"]) * 2 < m.span["Buy"]

-----------------------------------------------------------------------------
(* apply. *)

\* --drop-every: every so many levels, one is not applied.
Dropped(m) == cap.dropEvery # 0 /\ (m.drops + 1) % cap.dropEvery = 0

CountDrop(m) ==
    [m EXCEPT !.drops = IF cap.dropEvery = 0 THEN 0 ELSE (@ + 1) % cap.dropEvery]

\* One level of a diff in one of the two passes: reductions in the first.
Touch(m, l, pass) ==
    IF Dropped(m) THEN CountDrop(m)
    ELSE IF l[2] \notin Ladder THEN [CountDrop(m) EXCEPT !.outOfBand = @ \/ pass = 0]
    ELSE IF (pass = 0) = (l[3] < m.slot[l[1]][l[2]])
         THEN SetLevel(CountDrop(m), l[1], l[2], l[3])
    ELSE CountDrop(m)

Apply(m, diff) ==
    FoldLeft(LAMBDA t, pass : FoldLeft(LAMBDA u, l : Touch(u, l, pass), t, InOrder(diff)),
             m, <<0, 1>>)

-----------------------------------------------------------------------------
(* The comparison with a snapshot. *)

InHorizon(m, side, px) ==
    IF side = "Buy" THEN px >= m.horizon["Buy"] ELSE px =< m.horizon["Sell"]

\* top(side, top_n, within_horizon).
Top(m, side) ==
    LET ps == BestFirst(side, {p \in LevelsIn(m.book, side) : InHorizon(m, side, p)})
    IN  Upto(cap.top, [i \in DOMAIN ps |-> <<ps[i], Head(m.book[side][ps[i]]).qty>>])

Theirs(m, snap, side) ==
    Upto(cap.top, SelectSeq(snap[side], LAMBDA l : InHorizon(m, side, l[1])))

Same(m, snap) == \A side \in Sides : Top(m, side) = Theirs(m, snap, side)

\* Every snapshot of the id that the diffs have reached is compared, and the
\* mirror reseeded from it if it needs to be.
Validate(s, snap) ==
    [mirror |-> IF NeedsReseed(s.mirror) THEN Seeded(s.mirror, snap) ELSE s.mirror,
     failed |-> s.failed \/ ~Same(s.mirror, snap)]

Validated(m, id) ==
    FoldLeft(Validate, [mirror |-> m, failed |-> loop.failed],
             SelectSeq(snaps, LAMBDA p : p.last = id))

-----------------------------------------------------------------------------
(* find_seed: a snapshot, and the first diff to apply to it. *)

\* The first diff at or after position `from' that does not end before the
\* update wanted; it must not start after it.
FirstDiff(from, want) == SelectInSubSeq(diffs, from, Len(diffs), LAMBDA d : d.last >= want)

\* A diff that starts later will do.
StraddlesLate(from, snap) == FirstDiff(from, snap.last + 1) # 0

Straddles(from, snap) ==
    LET d == FirstDiff(from, snap.last + 1)
    IN  d # 0 /\ diffs[d].first =< snap.last + 1

\* The first snapshot of the file that some diff straddles, or 0.
SeedSnap(from) == SelectInSeq(snaps, LAMBDA p : Straddles(from, p))

SeedDiff(from) == FirstDiff(from, snaps[SeedSnap(from)].last + 1)

-----------------------------------------------------------------------------
(* The exchange, and the capture. *)

Recording1 == loop.phase = "record"

Uncrossed(levels) ==
    \A b, a \in Prices : levels["Buy"][b] > 0 /\ levels["Sell"][a] > 0 => b < a

\* A level gets a new total.
ExchangeLevel(side, px, qty) ==
    LET new == [ex.levels EXCEPT ![side][px] = qty]
    IN  /\ Recording1
        /\ ex.id < cap.updates
        /\ new # ex.levels /\ Uncrossed(new)
        /\ ex' = [ex EXCEPT !.levels = new, !.id = @ + 1, !.touched = @ \cup {<<side, px>>}]
        /\ history' = Append(history, new)
        /\ UNCHANGED <<cap, diffs, snaps, mirror, loop>>

\* A diff is sent, and recorded or not.
SendDiff ==
    LET told(side) == LET ps == BestFirst(side, {p \in Prices : <<side, p>> \in ex.touched})
                      IN  [i \in DOMAIN ps |-> <<ps[i], ex.levels[side][ps[i]]>>]
        diff == [first |-> ex.first, last |-> ex.id, Buy |-> told("Buy"), Sell |-> told("Sell")]
    IN  /\ Recording1
        /\ ex.touched # {}
        /\ \/ diffs' = Append(diffs, diff) /\ UNCHANGED loop
           \/ /\ loop.lost < cap.losses
              /\ loop' = [loop EXCEPT !.lost = @ + 1]
              /\ UNCHANGED diffs
        /\ ex' = [ex EXCEPT !.touched = {}, !.first = ex.id + 1]
        /\ UNCHANGED <<cap, history, snaps, mirror>>

\* A snapshot of the best levels is recorded.
RecordSnapshot ==
    /\ Recording1
    /\ Len(snaps) < cap.snaps
    /\ snaps' = Append(snaps, [last |-> ex.id, Buy |-> Upto(cap.depth, Listed(ex.levels, "Buy")),
                               Sell |-> Upto(cap.depth, Listed(ex.levels, "Sell"))])
    /\ UNCHANGED <<cap, ex, history, diffs, mirror, loop>>

-----------------------------------------------------------------------------
(* The replay loop of exsim_mdreplay. *)

\* The capture ends, and the replay starts at its first seed; without one, or
\* without a diff or a snapshot, the tool gives up.
StartMirror ==
    /\ Recording1
    /\ ex.id = cap.updates /\ ex.touched = {}
    /\ IF SeedSnap(1) = 0
       THEN loop' = [loop EXCEPT !.phase = "stopped"] /\ UNCHANGED mirror
       ELSE /\ mirror' = Seeded(mirror, snaps[SeedSnap(1)])
            /\ loop' = [loop EXCEPT !.phase = "replay", !.dpos = SeedDiff(1)]
    /\ UNCHANGED <<cap, ex, history, diffs, snaps>>

HaveDiff == loop.phase = "replay" /\ loop.dpos \in DOMAIN diffs

\* The next diff does not follow the last one: prev_last is 0 without one.
GapAhead == loop.prevLast # 0 /\ diffs[loop.dpos].first # loop.prevLast + 1

ApplyDiff ==
    /\ HaveDiff
    /\ ~GapAhead
    /\ LET diff == diffs[loop.dpos]
           after == Validated(Apply(mirror, diff), diff.last)
       IN  /\ mirror' = after.mirror
           /\ loop' = [loop EXCEPT !.dpos = @ + 1, !.prevLast = diff.last, !.failed = after.failed]
    /\ UNCHANGED <<cap, ex, history, diffs, snaps>>

\* After a gap the replay goes on from the next snapshot that some diff straddles.
Resync ==
    /\ HaveDiff
    /\ GapAhead
    /\ SeedSnap(loop.dpos) # 0
    /\ LET d == SeedDiff(loop.dpos)
       IN  /\ mirror' = Apply(Seeded(mirror, snaps[SeedSnap(loop.dpos)]), diffs[d])
           /\ loop' = [loop EXCEPT !.dpos = d + 1, !.prevLast = diffs[d].last]
    /\ UNCHANGED <<cap, ex, history, diffs, snaps>>

StopAtGap ==
    /\ HaveDiff
    /\ GapAhead
    /\ SeedSnap(loop.dpos) = 0
    /\ loop' = [loop EXCEPT !.phase = "stopped"]
    /\ UNCHANGED <<cap, ex, history, diffs, snaps, mirror>>

\* Every diff was applied, or the tool gave up.
MirrorEnded ==
    /\ loop.phase # "record" /\ ~HaveDiff
    /\ UNCHANGED mirrorVars

MirrorInit ==
    /\ cap \in Captures
    /\ ex = [levels |-> cap.start, id |-> 0, first |-> 1, touched |-> {}]
    /\ history = <<>>
    /\ diffs = <<>>
    /\ snaps = <<>>
    /\ mirror = [book |-> EmptyBook, slot |-> EmptySlots, horizon |-> [s \in Sides |-> 0],
                 span |-> [s \in Sides |-> 0], outOfBand |-> FALSE, bookFull |-> FALSE,
                 phantom |-> FALSE, drops |-> 0]
    /\ loop = [phase |-> "record", dpos |-> 0, prevLast |-> 0, failed |-> FALSE, lost |-> 0]

MirrorNext ==
    \/ \E l \in cap.moves : ExchangeLevel(l[1], l[2], l[3])
    \/ SendDiff
    \/ RecordSnapshot
    \/ StartMirror
    \/ ApplyDiff
    \/ Resync
    \/ StopAtGap
    \/ MirrorEnded

-----------------------------------------------------------------------------
(* Properties. *)

\* md_mirror.hpp:28, "this makes crossing impossible": no order that the mirror
\* adds ever trades with another, although a diff may move the whole book at
\* once, however the replay was seeded, and also when the engine's book is full.
NoPhantomTrades == cap.dropEvery = 0 => ~mirror.phantom

\* md_mirror.hpp:19: once a diff was applied, the mirror holds the exchange's
\* level totals as of that diff, at every price of the band between the touch
\* and the horizon, across gaps, resyncs from a snapshot inside a diff and
\* reseeds, and none of its orders ever trades.  So no comparison fails if every
\* level is in the band.
MirrorIsExact ==
    LET sound == cap.dropEvery = 0 /\ ~mirror.bookFull
    IN  /\ NoPhantomTrades
        /\ sound /\ loop.prevLast # 0 =>
             \A side \in Sides, px \in Ladder :
                InHorizon(mirror, side, px) =>
                   LET q == mirror.book[side][px]
                   IN  history[loop.prevLast][side][px] = IF q = <<>> THEN 0 ELSE Head(q).qty
        /\ sound /\ ~mirror.outOfBand => ~loop.failed
=============================================================================
