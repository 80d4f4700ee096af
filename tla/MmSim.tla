------------------------------- MODULE MmSim -------------------------------
(***************************************************************************)
(* The market-making simulation of include/exsim/mm.hpp and mm_sim.hpp: a  *)
(* bid and an ask that exist only in the simulation, placed and cancelled  *)
(* with a delay, and filled by an estimate of their place in the queue of  *)
(* an exchange whose trades and book updates are replayed.                 *)
(*                                                                         *)
(* The exchange is a total per level and may change between two updates.   *)
(* Lots ahead are a double in the code and a number here; where the power  *)
(* rule splits a cancellation, every split is possible that the rule gives *)
(* for some power.  The prices of Avellaneda and Stoikov come out of       *)
(* logarithms and a variance estimate: here they are any prices.  Money,   *)
(* fees and statistics are left out.                                       *)
(***************************************************************************)
EXTENDS Common

CONSTANTS MmCaptures     \* bound: the captures and configurations, as in MCReplay

Totals == [Sides -> [Prices -> Nat]]

\* max_inventory_units is a number of quotes here, and a double in the code.
ASSUME MmAssumption ==
    \A r \in MmCaptures :
       /\ r.size \in Nat \ {0} /\ r.maxUnits \in Nat /\ r.cancelled \in Nat
       /\ r.start \in Totals
       /\ r.moves \subseteq Sides \X Prices \X Nat

NoPx == 0

VARIABLES
    run,             \* the capture and Config
    venue,           \* the exchange: lots on each level
    seenBook,        \* mirror: the levels of the last update
    quote,           \* quote[2], by side
    mm,              \* inv, the time of the last record, the records so far, over
    place            \* history: where each quote really is in the exchange's queue

mmVars == <<run, venue, seenBook, quote, mm, place>>

-----------------------------------------------------------------------------
(* The market *)

QuotedAt(bk, side) == {p \in Prices : bk[side][p] > 0}

BestBidOf(bk) == CHOOSE p \in QuotedAt(bk, "Buy") : \A q \in QuotedAt(bk, "Buy") : q =< p
BestAskOf(bk) == CHOOSE p \in QuotedAt(bk, "Sell") : \A q \in QuotedAt(bk, "Sell") : q >= p

\* A price at which an order of the side would trade at once.
WouldTake(bk, side, px) == IF side = "Buy" THEN px >= BestAskOf(bk) ELSE px =< BestBidOf(bk)

\* BookMirror::qty_at.
QtyAt(bk, side, px) == IF px \in Prices THEN bk[side][px] ELSE 0

TwoSided(bk) == /\ \A side \in Sides : QuotedAt(bk, side) # {}
              /\ BestBidOf(bk) < BestAskOf(bk)

-----------------------------------------------------------------------------
(* mm.hpp *)

NoQuote ==
    [active |-> FALSE, px |-> NoPx, remaining |-> 0, ahead |-> 0, traded |-> 0,
     pending |-> FALSE, pendPx |-> NoPx, eff |-> 0]

Least(a, b) == IF a < b THEN a ELSE b

\* QuoteLogic::on_trade, the quote afterwards.
OnTrade(q, side, px, qty) ==
    LET through == IF side = "Buy" THEN px < q.px ELSE px > q.px
        consumed == Least(q.ahead, qty)
        filled == IF through THEN q.remaining
                  ELSE Least(q.remaining, IF run.optimistic THEN qty ELSE qty - consumed)
        queue == [q EXCEPT !.ahead = @ - consumed, !.traded = @ + qty]
    IN  IF ~q.active \/ (~through /\ px # q.px) THEN q
        ELSE [(IF through \/ run.optimistic THEN q ELSE queue)
                EXCEPT !.remaining = @ - filled, !.active = q.remaining > filled]

\* The lots of a cancellation that the power rule may put ahead of us, with a
\* lots ahead and b behind.
Split(a, b, cancelled) ==
    IF a = 0 THEN {0}
    ELSE IF b = 0 THEN {Least(a, cancelled)}
    ELSE 0 .. Least(a, cancelled)

\* Trades are not taken off the shrinkage before it counts as cancellation.
LevelChangesUnexplained(q, before, after) ==
    LET a == Least(q.ahead, before)
    IN  IF ~q.active THEN {q}
        ELSE {[q EXCEPT !.ahead = Least(@ - n, after), !.traded = 0] :
                 n \in IF after < before THEN Split(a, before - a, before - after) ELSE {0}}

\* QuoteLogic::on_level_change, what may come of it.
LevelChanges(q, before, after) ==
    LET explained == Least(before - after, q.traded)
        base == before - explained
        a == Least(q.ahead, base)
        shrinks == after < before /\ after < base /\ base > 0
    IN  IF ~q.active THEN {q}
        ELSE {[q EXCEPT !.ahead = Least(@ - n, after), !.traded = 0] :
                 n \in IF shrinks THEN Split(a, base - a, base - after) ELSE {0}}

\* Strategy::desired, before the cap: any prices for Avellaneda and Stoikov.
Targets(bk) ==
    LET sum == BestBidOf(bk) + BestAskOf(bk)
        h == 2 * run.halfSpread
        wanted == CASE run.strategy = "AvellanedaStoikov" ->
                           {w \in Prices \X Prices : w[1] < w[2]}
                    [] run.strategy = "FixedSpread" ->
                           {<<(sum - h) \div 2, (sum + h + 1) \div 2>>}
                    [] run.strategy = "JoinTouch" -> {<<BestBidOf(bk), BestAskOf(bk)>>}
    IN  {[Buy |-> Least(w[1], BestAskOf(bk) - 1),
          Sell |-> IF w[2] > BestBidOf(bk) THEN w[2] ELSE BestBidOf(bk) + 1] : w \in wanted}

\* The cap lets one more quote out.
CappedLate(inv, side, px) ==
    LET cap == run.maxUnits * run.size
    IN  IF IF side = "Buy" THEN inv =< cap ELSE inv >= - cap THEN px ELSE NoPx

Capped(inv, side, px) ==
    LET cap == run.maxUnits * run.size
    IN  IF IF side = "Buy" THEN inv < cap ELSE inv > - cap THEN px ELSE NoPx

-----------------------------------------------------------------------------
(* mm_sim.hpp *)

\* process_pending, for one side at time t.
Effective(q, side, t) ==
    LET gone == [q EXCEPT !.active = FALSE, !.pending = FALSE, !.pendPx = NoPx]
    IN  IF ~q.pending \/ q.eff > t THEN q
        ELSE IF q.pendPx = NoPx THEN gone
        ELSE IF WouldTake(seenBook, side, q.pendPx) THEN gone
        ELSE [gone EXCEPT !.active = TRUE, !.px = q.pendPx, !.remaining = run.size,
                          !.ahead = QtyAt(seenBook, side, q.pendPx), !.traded = 0]

\* The decision at time t, for one side.
Requoted(q, want, t) ==
    LET current == IF q.pending THEN q.pendPx ELSE IF q.active THEN q.px ELSE NoPx
        thr == IF run.strategy = "JoinTouch" THEN 1 ELSE run.requoteTicks
        near == want # NoPx /\ current # NoPx /\ want - current \in 1 - thr .. thr - 1
    IN  IF want = current \/ near THEN q
        ELSE IF q.pending THEN [q EXCEPT !.pendPx = want]
        ELSE [q EXCEPT !.pending = TRUE, !.pendPx = want, !.eff = t + run.latency]

\* The lots that a step bought less those it sold: quotes only lose lots by
\* being filled.
Bought(before, after) ==
    (before["Buy"].remaining - after["Buy"].remaining)
      - (before["Sell"].remaining - after["Sell"].remaining)

\* History: a quote that goes live joins behind all of its level, of which the
\* last update may have told too many lots or too few.
Placed(side, live) ==
    IF live[side].active /\ quote[side].pending /\ ~live[side].pending
    THEN LET lots == QtyAt(venue, side, live[side].px)
             told == QtyAt(seenBook, side, live[side].px)
         IN  [ahead |-> lots, over |-> told - Least(told, lots), under |-> lots - Least(told, lots)]
    ELSE place[side]

\* A record that is read at time t.
Record(t) ==
    /\ ~mm.over
    /\ mm.records < run.records
    /\ t \in {mm.now, mm.now + 1}

\* A trade takes qty lots off the best level of a side.
TradeRecord(side, qty, t) ==
    LET px == IF side = "Buy" THEN BestBidOf(venue) ELSE BestAskOf(venue)
        live == [s \in Sides |-> Effective(quote[s], s, t)]
        after == [live EXCEPT ![side] = OnTrade(@, side, px, qty)]
        placed == [s \in Sides |-> Placed(s, live)]
    IN  /\ Record(t)
        /\ qty =< venue[side][px]
        /\ venue' = [venue EXCEPT ![side][px] = @ - qty]
        /\ TwoSided(venue')
        /\ quote' = after
        /\ place' = [placed EXCEPT ![side].ahead =
                        IF live[side].px = px THEN @ - Least(@, qty) ELSE @]
        /\ mm' = [mm EXCEPT !.inv = @ + Bought(live, after), !.now = t, !.records = @ + 1]
        /\ UNCHANGED <<run, seenBook>>

\* A book update: the levels as they are now.
DiffRecord(t) ==
    LET live == [s \in Sides |-> Effective(quote[s], s, t)]
        Moved(s) == LevelChanges(live[s], QtyAt(seenBook, s, live[s].px),
                                 QtyAt(venue, s, live[s].px))
        Met(s, q) == IF q.active /\ WouldTake(venue, s, q.px)
                     THEN [q EXCEPT !.remaining = 0, !.active = FALSE] ELSE q
    IN  /\ Record(t)
        /\ seenBook' = venue
        /\ place' = [s \in Sides |-> Placed(s, live)]
        /\ \E bid \in Moved("Buy"), ask \in Moved("Sell"), target \in Targets(venue) :
             LET met == [Buy |-> Met("Buy", bid), Sell |-> Met("Sell", ask)]
                 inv == mm.inv + Bought(live, met)
             IN  /\ quote' = IF t < run.warmup THEN met
                             ELSE [s \in Sides |-> Requoted(met[s], Capped(inv, s, target[s]), t)]
                 /\ mm' = [mm EXCEPT !.inv = inv, !.now = t, !.records = @ + 1]
        /\ UNCHANGED <<run, venue>>

\* A record is missing: the run ends here.
MissingRecord ==
    /\ ~mm.over
    /\ mm' = [mm EXCEPT !.over = TRUE]
    /\ UNCHANGED <<run, venue, seenBook, quote, place>>

\* History: of the lots that leave a level of so many, those that stood ahead of
\* a place in it and those that stood behind.
Leaving(pl, lots, left) ==
    {[pl EXCEPT !.ahead = @ - n, !.over = @ + n, !.under = @ + (left - n)] :
        n \in {k \in 0 .. Least(pl.ahead, left) : left - k =< lots - pl.ahead}}

\* The exchange between two records: orders join a level or are cancelled, ahead
\* of a quote or behind it.
Elsewhere ==
    /\ ~mm.over /\ mm.records < run.records
    /\ \E move \in run.moves :
         LET side == move[1]
             px == move[2]
             lots == venue[side][px]
             ours == quote[side].active /\ quote[side].px = px /\ move[3] < lots
             places == IF ours THEN {pl \in Leaving(place[side], lots, lots - move[3]) :
                                        pl.over + pl.under =< run.cancelled}
                       ELSE {place[side]}
         IN  /\ lots # move[3]
             /\ venue' = [venue EXCEPT ![side][px] = move[3]]
             /\ TwoSided(venue')
             /\ \E pl \in places : place' = [place EXCEPT ![side] = pl]
    /\ UNCHANGED <<run, seenBook, quote, mm>>

MmInit ==
    /\ run \in MmCaptures
    /\ venue = run.start
    /\ seenBook = run.start
    /\ quote = [s \in Sides |-> NoQuote]
    /\ mm = [inv |-> 0, now |-> 0, records |-> 0, over |-> FALSE]
    /\ place = [s \in Sides |-> [ahead |-> 0, over |-> 0, under |-> 0]]

MmEnded == (mm.over \/ mm.records = run.records) /\ UNCHANGED mmVars

MmNext ==
    \/ \E t \in {mm.now, mm.now + 1} :
          \/ \E side \in Sides, qty \in 1 .. MaxQty : TradeRecord(side, qty, t)
          \/ DiffRecord(t)
    \/ MissingRecord
    \/ Elsewhere
    \/ MmEnded

MmSpec == MmInit /\ [][MmNext]_mmVars

-----------------------------------------------------------------------------
(* Properties. *)

\* mm.hpp:42, "quoting a side stops at the cap".  It is checked when a quote is
\* decided on, while the quote of before is still live, and a quote once decided
\* goes live at full size: the inventory passes the cap by less than two quotes
\* and never by more, whatever trades come before the next update.
InventoryBounded ==
    LET most == run.maxUnits * run.size + 2 * run.size - 1
    IN  mm.inv \in - most .. most

\* mm.hpp:8-10, 112-129: the simulation knows of a cancellation at a quote's
\* price but not whether it was ahead of the quote or behind it.  Nothing else
\* may lead it astray: it has the quote too far back by no more lots than were
\* cancelled ahead of it, and too far forward by no more than were cancelled
\* behind it, where an update that came too late for the quote's placement
\* counts too.  Lots that traded, joined or were reported in one sum with
\* cancellations are not part of the error; without cancellations it is zero.
QueueErrorBounded ==
    \A s \in Sides : quote[s].active /\ ~run.optimistic =>
        quote[s].ahead - place[s].ahead \in - place[s].under .. place[s].over
=============================================================================
