----------------------------- MODULE L3Replay -----------------------------
(***************************************************************************)
(* tools/exsim_l3replay.cpp: an exchange's order-by-order feed is archived *)
(* and replayed through the matching engine, whose trades are compared     *)
(* with the exchange's.                                                    *)
(*                                                                         *)
(* The exchange, the archive and the file are external: they are modelled  *)
(* from what the tool's code says of them.  The exchange matches by the    *)
(* rules of PureMatch and reports an operation as one block of messages.   *)
(* The archive may lose messages, and a snapshot may stand in the file     *)
(* behind messages that are newer than it.  The tool reads the file twice: *)
(* pass 1 (Inference) gathers facts about orders and guesses which belong  *)
(* to one account, pass 2 (Replay) runs engine and truth book side by      *)
(* side.  Both are sequential programs: what a message does to their state *)
(* is a function of that state, and reading one is a step.                 *)
(***************************************************************************)
EXTENDS PureMatch, TruthBook, SequencesExt

CONSTANTS
    Band,          \* the prices of the engine's ladder, min_px_ .. + kLevels - 1
    Scenarios      \* what the exchange and the archive do, and the tool's options

VARIABLES
    scen,          \* the scenario
    x,             \* the exchange
    past,          \* history: the exchange's book after each block, by sequence number
    snap,          \* a snapshot that was fetched but is not yet in the file
    file,          \* the archived messages
    inf,           \* pass 1
    rp,            \* pass 2
    pos            \* the next message of pass 2; 0 while the day is recorded

vars == <<scen, x, past, snap, file, inf, rp, pos>>

Modes == {"CancelResting", "CancelIncoming", "DecrementCancel", "CancelBoth"}

-----------------------------------------------------------------------------
(* The exchange: commands, and the messages it publishes for them. *)

Family == -1       \* the one account with several orders

Rec(kind, id, id2, side, px, q, flags) ==
    [kind |-> kind, id |-> id, id2 |-> id2, side |-> side, px |-> px, q |-> q, flags |-> flags]

Done(id, side, px, q, flags) == Rec("Done", id, NoId, side, px, q, flags)

\* The messages for one entry of a sweep's log.
Report(c, e) ==
    LET opp == Opposite(c.side)
    IN  CASE e.what = "Trade" ->
               <<Rec("Match", c.id, e.maker, opp, e.px, e.qty, {})>>
                 \o (IF e.leaves = 0 THEN <<Done(e.maker, opp, e.px, 0, {})>> ELSE <<>>)
          [] e.what = "Cancel" -> <<Done(e.maker, opp, e.px, e.qty, {"Canceled"})>>
          [] e.what = "Decrement" -> <<Rec("Change", e.maker, NoId, opp, e.px, e.leaves, {"Stp"})>>
          [] e.what = "DecrementTaker" ->
               <<Rec("Change", c.id, NoId, c.side, 0, e.leaves,
                     {"Stp"} \cup (IF "FundsOnly" \in c.flags THEN {"FundsChange"} ELSE {}))>>

Reports(c, log) == FlattenSeq([i \in DOMAIN log |-> Report(c, log[i])])

\* received ... open | done: an arrival c, and what became of it.
ArrivalBlock(c, res) ==
    <<Rec("Received", c.id, NoId, c.side, c.price,
          IF "FundsOnly" \in c.flags THEN 0 ELSE c.qty, c.flags)>>
      \o Reports(c, res.log)
      \o (IF res.fate = "rested" THEN <<Rec("Open", c.id, NoId, c.side, c.price, res.qty, {})>>
          ELSE <<Done(c.id, c.side, c.price, res.qty,
                      IF res.fate = "filled" THEN {} ELSE {"Canceled"})>>)

\* Cancel both: where cancel-newest would stop, the own maker goes as well.
CancelBothToo(c, res) ==
    LET reach == Reachable(res.book, c.side, LimitOf(c))
        p == BestFor(c.side, reach)
        m == Head(res.book[Opposite(c.side)][p])
    IN  IF res.fate = "canceled" /\ reach # {} /\ m.owner = c.owner
        THEN [res EXCEPT !.book = CancelIn(@, m.id),
                         !.log = Append(@, Entry("Cancel", m.id, p, m.qty, 0))]
        ELSE res

\* Matching at the exchange: an order of the family carries its mode.
Execute(bk, c) ==
    IF c.stp = "CancelBoth" THEN CancelBothToo(c, AddTo(bk, [c EXCEPT !.stp = "CancelIncoming"]))
                            ELSE AddTo(bk, c)

\* A modify: the matches come before the `change', and a modify that fills the
\* order ends in a `done' instead.
ModifyBlock(c, res) ==
    Reports(c, res.log)
      \o (IF res.fate = "filled" THEN <<Done(c.id, c.side, c.price, 0, {})>>
          ELSE <<Rec("Change", c.id, NoId, c.side, c.price, res.qty, {})>>)

OrderIn(bk, id) == OrderAt(bk, Locate(bk, id))

Numbered(block) == [i \in DOMAIN block |-> block[i] @@ [seq |-> x.seq + i]]

SnapshotOf(bk, seq) ==
    FlattenSeq([k \in 1 .. 2 |->
      LET s == <<"Buy", "Sell">>[k]
      IN  FlattenSeq([i \in 1 .. MaxPrice - MinPrice + 1 |->
            LET p == IF s = "Buy" THEN MaxPrice - i + 1 ELSE MinPrice + i - 1
            IN  [j \in DOMAIN bk[s][p] |->
                   Rec("SnapOrder", bk[s][p][j].id, NoId, s, p, bk[s][p][j].qty, {})
                     @@ [seq |-> 0]]])])
      \o <<Rec("SnapEnd", NoId, NoId, "Buy", 0, 0, {}) @@ [seq |-> seq]>>

-----------------------------------------------------------------------------
(* Pass 1: Inference. *)

NoBlock == [id |-> NoId, side |-> "Buy", px |-> 0, market |-> FALSE, funds |-> FALSE,
            filled |-> 0, cancelledOwn |-> FALSE, tradedAfter |-> FALSE]

InfInit ==
    [life |-> [id \in OrderIds |-> [opened |-> FALSE, changed |-> FALSE, filled |-> 0,
                                    stp |-> "None", stpCancelled |-> 0]],
     root |-> [id \in OrderIds |-> id],        \* Accounts::find, the least id of the account
     book |-> Blank, loading |-> FALSE, synced |-> FALSE, snapSeq |-> 0, lastSeq |-> 0,
     pre |-> <<>>, block |-> NoBlock]

\* Accounts::link.
Link(s, a, b) ==
    LET ra == s.root[a]
        rb == s.root[b]
    IN  [s EXCEPT !.root = [i \in OrderIds |-> IF s.root[i] \in {ra, rb} THEN Min({ra, rb})
                                               ELSE s.root[i]]]

Mark(s, mode) ==
    [s EXCEPT !.life[s.block.id].stp = IF @ = "DecrementCancel" THEN @ ELSE mode]

StartBlock(s, r) ==
    [s EXCEPT !.block = [NoBlock EXCEPT !.id = r.id, !.side = r.side, !.px = r.px,
                                        !.market = "Market" \in r.flags,
                                        !.funds = "FundsOnly" \in r.flags]]

FactMatch(s, r) ==
    LET t == [s EXCEPT !.life[r.id].filled = @ + r.q]
    IN  IF r.id # s.block.id THEN t
        ELSE [t EXCEPT !.block.filled = @ + r.q,
                       !.block.tradedAfter = @ \/ s.block.cancelledOwn]

FactChange(s, r) ==
    LET t == [s EXCEPT !.life[r.id].changed = TRUE]
    IN  IF "Stp" \notin r.flags \/ s.block.id = NoId THEN t
        ELSE Mark(IF r.id # s.block.id THEN Link(t, s.block.id, r.id) ELSE t, "DecrementCancel")

\* A cancel of another order inside the block.
FactOwnCancel(s, r) ==
    LET t == Mark(Link(s, s.block.id, r.id), "CancelResting")
    IN  [t EXCEPT !.life[s.block.id].stpCancelled = @ + r.q, !.block.cancelledOwn = TRUE]

\* The arrival is cancelled after it traded: is there liquidity it could have
\* taken?  Then the order in front is its own.
FactStopped(s, r) ==
    LET b == s.block
        opp == Opposite(b.side)
        levels == TruthLevels(s.book, opp)
        best == BestFor(b.side, levels)
        crosses == b.market \/ (IF b.side = "Buy" THEN best =< b.px ELSE best >= b.px)
    IN  IF levels = {} \/ ~crosses THEN s
        ELSE [Link(s, b.id, Head(s.book.queue[opp][best]).id)
                EXCEPT !.life[b.id].stp = IF @ = "None" THEN "CancelIncoming" ELSE @]

FactDone(s, r) ==
    LET b == s.block
    IN  IF "Canceled" \notin r.flags \/ b.id = NoId THEN s
        ELSE IF r.id # b.id THEN FactOwnCancel(s, r)
        ELSE IF r.q = 0 THEN s
        ELSE IF s.life[b.id].stp = "CancelResting" /\ b.cancelledOwn /\ ~b.tradedAfter
             THEN [s EXCEPT !.life[b.id].stp = "CancelIncoming"]
        ELSE IF b.filled > 0 /\ ~b.funds /\ s.synced /\ r.seq = s.lastSeq + 1
             THEN FactStopped(s, r)
        ELSE s

\* The block is left open.
FactsBlockStays(s, r) ==
    CASE r.kind = "Received" -> StartBlock(s, r)
      [] r.kind = "Open" -> [s EXCEPT !.life[r.id].opened = TRUE]
      [] r.kind = "Match" -> FactMatch(s, r)
      [] r.kind = "Change" -> FactChange(s, r)
      [] r.kind = "Done" -> FactDone(s, r)

\* facts: what is learnt from a message whether or not the book is in sync.
Facts(s, r) ==
    LET t == CASE r.kind = "Received" -> StartBlock(s, r)
               [] r.kind = "Open" -> [s EXCEPT !.life[r.id].opened = TRUE]
               [] r.kind = "Match" -> FactMatch(s, r)
               [] r.kind = "Change" -> FactChange(s, r)
               [] r.kind = "Done" -> FactDone(s, r)
    IN  IF r.kind \in {"Open", "Done"} /\ r.id = t.block.id THEN [t EXCEPT !.block = NoBlock]
                                                            ELSE t

NewPx(t, r) == IF r.px # 0 THEN r.px ELSE t.where[r.id].px

\* What a message does to a truth book.
Told(t, r) ==
    CASE r.kind = "Open" -> TruthAdd(t, r.id, r.side, r.px, r.q)
      [] r.kind = "Match" -> TruthFill(t, r.id2, r.q)
      [] r.kind = "Done" -> TruthRemove(t, r.id)
      [] r.kind = "Change" -> IF "FundsChange" \in r.flags \/ ~Knows(t, r.id) THEN t
                              ELSE TruthChange(t, r.id, NewPx(t, r), r.q)
      [] OTHER -> t

InfApply(s, r) == [s EXCEPT !.lastSeq = r.seq, !.book = Told(@, r)]

BySeq(early) == SortSeq(early, LAMBDA a, b : a.seq < b.seq)
Newer(early, seq) == SelectSeq(BySeq(early), LAMBDA r : r.seq > seq)

\* A message of an operation, after its facts were learnt: the book follows it
\* if it is the next one.
InfMessage(s, r) ==
    IF ~s.synced THEN [s EXCEPT !.pre = Append(@, r)]
    ELSE IF r.seq =< s.snapSeq THEN s
    ELSE IF r.seq # s.lastSeq + 1 THEN [s EXCEPT !.synced = FALSE, !.pre = Append(@, r)]
    ELSE InfApply(s, r)

InfOn(s, r) ==
    CASE r.kind = "SnapOrder" ->
           IF s.synced THEN s
           ELSE [s EXCEPT !.loading = TRUE,
                          !.book = TruthAdd(IF s.loading THEN @ ELSE Blank,
                                            r.id, r.side, r.px, r.q)]
      [] r.kind = "SnapEnd" ->
           IF s.synced THEN s
           ELSE FoldLeft(InfApply,
                         [s EXCEPT !.loading = FALSE, !.synced = TRUE, !.snapSeq = r.seq,
                                   !.lastSeq = r.seq, !.pre = <<>>],
                         Newer(s.pre, r.seq))
      [] OTHER -> InfMessage(Facts(s, r), r)

-----------------------------------------------------------------------------
(* Pass 2: the engine's side.  It gets its owners from the accounts of pass 1. *)

Command(id, side, px, qty) ==
    [id |-> id, owner |-> inf.root[id], side |-> side, ordType |-> "Limit", price |-> px,
     qty |-> qty, tif |-> "Day", postOnly |-> FALSE, stp |-> "None"]

Trades(log) ==
    LET ts == SelectSeq(log, LAMBDA e : e.what = "Trade")
    IN  [i \in DOMAIN ts |-> [maker |-> ts[i].maker, px |-> ts[i].px, qty |-> ts[i].qty]]

\* The orders of the truth book at a level, as the tool re-adds them.
LiveAt(t, side, px) ==
    LET q == SelectSeq(t.queue[side][px], LAMBDA o : o.qty # 0)
    IN  [i \in DOMAIN q |-> Command(q[i].id, side, px, q[i].qty)]

UpFrom(prices) == SetToSortSeq(prices, LAMBDA a, b : a < b)
DownFrom(prices) == SetToSortSeq(prices, LAMBDA a, b : a > b)

\* Re-adds orders one after the other; an order that rests elsewhere is moved.
Readd(eng, cs) ==
    FoldLeft(LAMBDA e, c : LET r == AddTo(CancelIn(e.book, c.id), c)
                           IN  [book |-> r.book, traded |-> e.traded \/ Trades(r.log) # <<>>],
             [book |-> eng, traded |-> FALSE], cs)

\* rebuild_from_truth: everything is cancelled and added again, best first.
Rebuilt(t) ==
    LET levels == [i \in 1 .. 2 |-> IF i = 1 THEN DownFrom(Band) ELSE UpFrom(Band)]
        side == <<"Buy", "Sell">>
    IN  Readd(EmptyBook,
              FlattenSeq([i \in 1 .. 2 |->
                FlattenSeq([j \in DOMAIN levels[i] |-> LiveAt(t, side[i], levels[i][j])])])).book

\* repair_levels, at these prices and on both sides.
RepairLevels(eng, t, prices) ==
    LET cleared == [s \in Sides |-> [p \in Prices |-> IF p \in prices THEN <<>> ELSE eng[s][p]]]
        ps == UpFrom(prices \cap Band)
    IN  Readd(cleared, FlattenSeq([i \in DOMAIN ps |-> LiveAt(t, "Buy", ps[i])
                                                         \o LiveAt(t, "Sell", ps[i])]))

Plain(q) == [i \in DOMAIN q |-> [id |-> q[i].id, qty |-> q[i].qty]]

\* books_equal: every order in queue order, in the band.
BooksEqual(eng, t) ==
    \A s \in Sides, p \in Band :
       Plain(eng[s][p]) = SelectSeq(t.queue[s][p], LAMBDA o : o.qty # 0)

-----------------------------------------------------------------------------
(* Pass 2: episodes. *)

NoEpisode == [on |-> FALSE, taker |-> NoId, pred |-> <<>>, actual |-> <<>>, stp |-> FALSE,
              rested |-> FALSE, px |-> 0]

RpInit ==
    [truth |-> Blank, eng |-> EmptyBook, loading |-> FALSE, synced |-> FALSE,
     snapSeq |-> 0, lastSeq |-> 0, pre |-> <<>>, ep |-> NoEpisode, repair |-> FALSE,
     repairPx |-> {}, held |-> << >>, check |-> FALSE, checkRan |-> FALSE, cancels |-> 0,
     alarms |-> {}]

PricesOf(ts) == {ts[i].px : i \in DOMAIN ts}

\* close_episode: score the open episode; a divergence calls for a repair of
\* the levels it touched.
CloseEpisode(s) ==
    LET e == s.ep
        shut == [s EXCEPT !.ep.on = FALSE]
    IN  IF ~e.on \/ e.pred = e.actual THEN shut
        ELSE [shut EXCEPT !.alarms = @ \cup {IF e.stp THEN "DivergedStp" ELSE "Diverged"},
                          !.repairPx = (@ \cup PricesOf(e.pred) \cup PricesOf(e.actual)
                                          \cup {e.px}) \cap Prices,
                          !.repair = TRUE]

OpenEpisode(s, taker, trades) ==
    [CloseEpisode(s) EXCEPT !.ep = [on |-> TRUE, taker |-> taker, pred |-> trades,
                                    actual |-> <<>>, stp |-> FALSE, rested |-> FALSE,
                                    px |-> s.ep.px]]

InEpisode(s, r) ==
    /\ s.ep.on
    /\ CASE r.kind = "Match" -> r.id = s.ep.taker /\ ~s.ep.rested
         [] r.kind \in {"Done", "Open"} -> TRUE
         [] r.kind = "Change" -> "Stp" \in r.flags
         [] OTHER -> FALSE

\* Messages that start an operation: repairs and whole-book checks run there.
Starts(r) == r.kind = "Received" \/ (r.kind = "Change" /\ "Stp" \notin r.flags)

CloseBefore(s, r) == IF InEpisode(s, r) THEN s ELSE CloseEpisode(s)

\* The levels were added again; if that traded, the whole book is.
Repaired(s, fixed) ==
    [s EXCEPT !.repair = FALSE, !.repairPx = {},
              !.eng = IF fixed.traded THEN Rebuilt(s.truth) ELSE fixed.book]

RepairBefore(s, r) ==
    IF ~(s.repair /\ Starts(r)) THEN s
    ELSE Repaired(s, RepairLevels(s.eng, s.truth, s.repairPx))

\* A check that only counts.
CheckBeforeCounts(s, r) ==
    IF ~(s.check /\ Starts(r)) THEN [s EXCEPT !.checkRan = FALSE]
    ELSE [s EXCEPT !.check = FALSE, !.checkRan = TRUE]

\* full_check: on a difference the engine starts again from the truth book.
CheckBefore(s, r) ==
    IF ~(s.check /\ Starts(r)) THEN [s EXCEPT !.checkRan = FALSE]
    ELSE IF BooksEqual(s.eng, s.truth) THEN [s EXCEPT !.check = FALSE, !.checkRan = TRUE]
    ELSE [s EXCEPT !.check = FALSE, !.checkRan = TRUE,
                   !.alarms = @ \cup {IF DOMAIN s.held = {} THEN "Check" ELSE "CheckInModify"},
                   !.eng = Rebuilt(s.truth)]

-----------------------------------------------------------------------------
(* Pass 2: the messages. *)

\* The engine is not told of self-trade prevention.
ArrivalNoStp(r, info) ==
    [Command(r.id, r.side, r.px, r.q) EXCEPT
        !.ordType = IF "Market" \in r.flags THEN "Market" ELSE @,
        !.qty = IF "FundsOnly" \in r.flags THEN info.filled ELSE @,
        !.tif = IF info.opened THEN "Day" ELSE "Ioc"]

\* The engine's version of an arrival, from its message and what became of it.
Arrival(r, info) ==
    LET c == [Command(r.id, r.side, r.px, r.q) EXCEPT !.stp = info.stp]
        clamped == IF r.px < Min(Band) THEN Min(Band) ELSE Max(Band)
    IN  IF "Market" \in r.flags
        THEN [c EXCEPT !.ordType = "Market",
                       !.qty = IF "FundsOnly" \notin r.flags THEN r.q
                               ELSE info.filled + (IF info.stp = "DecrementCancel"
                                                   THEN info.stpCancelled ELSE 0)]
        ELSE [c EXCEPT !.price = IF r.px \in Band THEN r.px ELSE clamped,
                       !.tif = IF info.opened THEN "Day" ELSE "Ioc",
                       !.postOnly = ~info.opened /\ info.filled = 0 /\ ~info.changed]

OnReceived(s, r) ==
    LET info == inf.life[r.id]
        c == Arrival(r, info)
        res == AddTo(s.eng, c)
    IN  IF "Market" \notin r.flags /\ r.px \notin Band /\ info.opened THEN s
        ELSE IF c.qty = 0 THEN OpenEpisode(s, r.id, <<>>)
        ELSE [OpenEpisode([s EXCEPT !.eng = res.book], r.id, Trades(res.log))
                EXCEPT !.ep.px = IF Market(c) THEN 0 ELSE c.price]

\* The order rests: does the engine hold the same remainder?
OnOpen(s, r) ==
    LET t == [s EXCEPT !.truth = Told(@, r)]
        q == IF r.px \in Prices THEN s.eng[r.side][r.px] ELSE <<>>
        held == \E i \in DOMAIN q : q[i].id = r.id /\ q[i].qty = r.q
        e == s.ep
    IN  IF ~e.on \/ r.id # e.taker THEN t
        ELSE IF r.px \notin Band \/ held THEN [t EXCEPT !.ep.rested = TRUE]
        ELSE [t EXCEPT !.ep.rested = TRUE,
                       !.alarms = @ \cup {"Rest"},
                       !.ep.actual = IF e.pred = e.actual
                                     THEN Append(@, [maker |-> NoId, px |-> -1, qty |-> 0]) ELSE @]

\* The engine's modify of an order to newPx: out of the band, into it, or inside.
ModifyEngine(eng, id, side, newPx, qty) ==
    IF newPx \notin Band THEN Refused(CancelIn(eng, id), 0)
    ELSE IF id \in IdsIn(eng) THEN ModifyIn(eng, id, newPx, qty)
    ELSE AddTo(eng, Command(id, side, newPx, qty))

\* A modify to which the engine answered res, compared with the matches `fills'
\* that were reported ahead of it.
ModifyOutcome(s, id, res, fills, newPx, oldPx, remainder) ==
    [OpenEpisode([s EXCEPT !.held = [i \in DOMAIN @ \ {id} |-> @[i]],
                           !.eng = IF remainder = 0 THEN CancelIn(res.book, id) ELSE res.book],
                 id, Trades(res.log))
       EXCEPT !.ep.actual = fills, !.ep.px = newPx, !.repairPx = @ \cup {oldPx}]

ModifyEpisode(s, id, side, px, oldPx, remainder) ==
    LET fills == IF id \in DOMAIN s.held THEN s.held[id] ELSE <<>>
        filled == FoldLeft(LAMBDA n, t : n + t.qty, 0, fills)
        newPx == IF px \notin Band /\ remainder = 0 /\ filled > 0
                 THEN (IF px < Min(Band) THEN Min(Band) ELSE Max(Band)) ELSE px
    IN  ModifyOutcome(s, id, ModifyEngine(s.eng, id, side, newPx, remainder + filled),
                      fills, newPx, oldPx, remainder)

\* A cancel: the engine hears of it, unless it is one of those that
\* --drop-cancels withholds.
HearCancel(s, r) ==
    LET dropped == scen.dropEvery # 0 /\ (s.cancels + 1) % scen.dropEvery = 0
    IN  [s EXCEPT !.cancels = IF scen.dropEvery = 0 THEN 0 ELSE (@ + 1) % scen.dropEvery,
                  !.ep.stp = @ \/ (s.ep.on /\ r.id # s.ep.taker /\ s.ep.actual # <<>>),
                  !.eng = IF dropped THEN @ ELSE CancelIn(@, r.id)]

\* done: a modify that filled the order ends here, and the rest of an order
\* that is reported filled although part of it never matched is dropped.
OnDone(s, r) ==
    LET fillModify == r.id \in DOMAIN s.held
        resting == Knows(s.truth, r.id)
        canceled == "Canceled" \in r.flags
        loc == s.truth.where[r.id]
        unmatched == ~canceled /\ resting /\ QtyOf(s.truth, r.id) > 0
        removed(t) == [t EXCEPT !.truth = Told(@, r)]
        heard(t) == IF canceled /\ resting THEN HearCancel(t, r) ELSE t
    IN  heard(removed(IF fillModify THEN ModifyEpisode(s, r.id, loc.side, r.px, loc.px, 0)
                      ELSE IF unmatched THEN [s EXCEPT !.eng = CancelIn(@, r.id)]
                      ELSE s))

OnMatch(s, r) ==
    LET trade == [maker |-> r.id2, px |-> r.px, qty |-> r.q]
        t == [s EXCEPT !.truth = Told(@, r),
                       !.alarms = @ \cup (IF CanFill(s.truth, r.id2, r.q) THEN {} ELSE {"Truth"})]
    IN  IF s.ep.on /\ r.id = s.ep.taker THEN [t EXCEPT !.ep.actual = Append(@, trade)]
        ELSE IF Knows(t.truth, r.id)
             THEN [t EXCEPT !.held = [i \in DOMAIN @ \cup {r.id} |->
                     IF i # r.id THEN @[i]
                     ELSE (IF i \in DOMAIN @ THEN @[i] ELSE <<>>) \o <<trade>>]]
        ELSE [t EXCEPT !.alarms = @ \cup {"Orphan"}]

OnChange(s, r) ==
    IF "FundsChange" \in r.flags \/ ~Knows(s.truth, r.id) THEN s ELSE
    LET loc == s.truth.where[r.id]
        px == NewPx(s.truth, r)
        t == [s EXCEPT !.truth = Told(@, r)]
    IN  IF "Stp" \in r.flags
        THEN [t EXCEPT !.ep.stp = @ \/ s.ep.on, !.eng = ModifyIn(@, r.id, px, r.q).book]
        ELSE ModifyEpisode(t, r.id, loc.side, px, loc.px, r.q)

Dispatch(s, r) ==
    CASE r.kind = "Received" -> [OnReceived(s, r) EXCEPT !.check = @ \/ scen.check]
      [] r.kind = "Open" -> OnOpen(s, r)
      [] r.kind = "Done" -> OnDone(s, r)
      [] r.kind = "Match" -> OnMatch(s, r)
      [] r.kind = "Change" -> OnChange(s, r)

\* Messages are missing: neither book can be trusted until the next snapshot.
Gap(s, r) ==
    [s EXCEPT !.ep.on = FALSE, !.held = << >>, !.repair = FALSE, !.repairPx = {},
              !.synced = FALSE, !.pre = Append(@, r)]

OnMessage(s, r) ==
    IF ~s.synced THEN [s EXCEPT !.pre = Append(@, r)]
    ELSE IF r.seq =< s.snapSeq THEN s
    ELSE IF r.seq # s.lastSeq + 1 THEN Gap(s, r)
    ELSE Dispatch(CheckBefore(RepairBefore(CloseBefore([s EXCEPT !.lastSeq = r.seq], r), r), r), r)

OnSnapOrder(s, r) ==
    IF s.synced THEN s
    ELSE [s EXCEPT !.loading = TRUE,
                   !.truth = TruthAdd(IF s.loading THEN @ ELSE Blank, r.id, r.side, r.px, r.q)]

\* The snapshot is complete: the engine starts from it, and the messages that
\* came before it in the file but are newer are replayed.
OnSnapEnd(s, r) ==
    IF s.synced THEN s
    ELSE FoldLeft(OnMessage,
                  [s EXCEPT !.loading = FALSE, !.synced = TRUE, !.snapSeq = r.seq,
                            !.lastSeq = r.seq, !.eng = Rebuilt(s.truth), !.pre = <<>>],
                  Newer(s.pre, r.seq))

-----------------------------------------------------------------------------
(* The day: the exchange works and the archive records. *)

Recording == pos = 0

\* A scenario [start, ops, varieties, who, sides, limits, qtys, other, mode,
\* late, losses, snaps, check, dropEvery]: the book at the open, the number of
\* operations and what they are, the self-trade mode of the family, whether a
\* snapshot may reach the file late, how many messages the archive loses and
\* how many snapshots it fetches, and the tool's options.
Init ==
    /\ scen \in Scenarios
    /\ x = [book |-> scen.start, seq |-> 1, fresh |-> Max(IdsIn(scen.start)) + 1,
            ops |-> 0, lost |-> 0, snaps |-> 1, modified |-> NoId, misread |-> {},
            family |-> {id \in IdsIn(scen.start) : OrderIn(scen.start, id).owner = Family}]
    /\ past = [n \in {1} |-> scen.start]
    /\ snap = SnapshotOf(scen.start, 1)
    /\ file = <<>>
    /\ inf = InfInit
    /\ rp = RpInit
    /\ pos = 0

\* The exchange, now at `now', published a block, after which its book is bk;
\* the archive may miss some of it.
Publish(block, bk, now) ==
    /\ \E lost \in {l \in SUBSET DOMAIN block : Cardinality(l) + x.lost =< scen.losses} :
         LET all == Numbered(block)
             kept == SelectSeq(all, LAMBDA r : r.seq - x.seq \notin lost)
         IN  /\ file' = file \o kept
             /\ inf' = FoldLeft(InfOn, inf, kept)
             /\ x' = [now EXCEPT !.book = bk, !.seq = @ + Len(block), !.ops = @ + 1,
                                 !.lost = @ + Cardinality(lost)]
    /\ past' = past @@ [n \in {x.seq + Len(block)} |-> bk]
    /\ UNCHANGED <<scen, snap, rp, pos>>

Working == Recording /\ x.ops < scen.ops /\ (scen.late \/ snap = <<>>)

Variety(name) ==
    [tif |-> IF name = "Ioc" THEN "Ioc" ELSE "Day", postOnly |-> name = "PostOnly",
     ordType |-> IF name \in {"Market", "Funds"} THEN "Market" ELSE "Limit",
     flags |-> IF name = "Market" THEN {"Market"}
               ELSE IF name = "Funds" THEN {"Market", "FundsOnly"} ELSE {}]

\* A market order that cancel-newest stops before it trades: the tool has no
\* rule for it and lets the engine trade.
UntoldStop(c, res) ==
    /\ c.stp = "CancelIncoming" /\ c.flags = {"Market"}
    /\ res.log = <<>> /\ Reachable(x.book, c.side, LimitOf(c)) # {}

XArrive(ours, side, px, qty, name) ==
    LET c == Variety(name)
               @@ [id |-> x.fresh, owner |-> IF ours THEN Family ELSE x.fresh, side |-> side,
                   price |-> px, qty |-> qty, stp |-> IF ours THEN scen.mode ELSE "None"]
        res == Execute(x.book, c)
    IN  /\ Working
        /\ x.fresh \in OrderIds
        /\ (name \in {"Market", "Funds"}) <=> (px = 0)
        /\ Publish(ArrivalBlock(c, res), res.book,
                   [x EXCEPT !.fresh = @ + 1, !.modified = NoId,
                             !.family = IF ours THEN @ \cup {c.id} ELSE @,
                             !.misread = @ \cup (IF UntoldStop(c, res) THEN {"UntoldStop"} ELSE {})])

XCancel(id) ==
    /\ Working
    /\ id \in IdsIn(x.book)
    /\ LET at == Locate(x.book, id)
       IN  Publish(<<Done(id, at[1], at[2], OrderIn(x.book, id).qty, {"Canceled"})>>,
                   CancelIn(x.book, id), x)

XModify(id, px, qty) ==
    /\ Working
    /\ id \in IdsIn(x.book)
    /\ LET at == Locate(x.book, id)
           res == ModifyIn(x.book, id, px, qty)
           c == [id |-> id, side |-> at[1], price |-> px, flags |-> {}]
       IN  /\ <<px, qty>> # <<at[2], OrderIn(x.book, id).qty>>
           /\ Publish(ModifyBlock(c, res), res.book,
                      [x EXCEPT !.modified = id,
                                !.misread = @ \cup (IF id = x.modified /\ res.log # <<>>
                                                    THEN {"ModifiedTwice"} ELSE {})])

\* The exchange reports a resting order filled although no match took it.
XVanish(id) ==
    /\ Working
    /\ id \in IdsIn(x.book)
    /\ LET at == Locate(x.book, id)
       IN  Publish(<<Done(id, at[1], at[2], 0, {})>>, CancelIn(x.book, id), x)

\* A snapshot is fetched, to be written to the file at some later point.  The
\* tool needs both sides to be there.
FetchSnapshot ==
    /\ Recording
    /\ snap = <<>>
    /\ x.snaps < scen.snaps
    /\ \A s \in Sides : LevelsIn(x.book, s) # {}
    /\ snap' = SnapshotOf(x.book, x.seq)
    /\ x' = [x EXCEPT !.snaps = @ + 1]
    /\ UNCHANGED <<scen, past, file, inf, rp, pos>>

ArchiveSnapshot ==
    /\ Recording
    /\ snap # <<>>
    /\ file' = file \o snap
    /\ inf' = FoldLeft(InfOn, inf, snap)
    /\ snap' = <<>>
    /\ UNCHANGED <<scen, x, past, rp, pos>>

-----------------------------------------------------------------------------
(* Pass 2 over the finished file. *)

StartReplay ==
    /\ Recording
    /\ x.ops = scen.ops
    /\ snap = <<>>
    /\ pos' = 1
    /\ UNCHANGED <<scen, x, past, snap, file, inf, rp>>

Reading(kinds) == pos \in DOMAIN file /\ file[pos].kind \in kinds

Step(s) ==
    /\ rp' = s
    /\ pos' = pos + 1
    /\ UNCHANGED <<scen, x, past, snap, file, inf>>

ReplaySnapOrder == Reading({"SnapOrder"}) /\ Step(OnSnapOrder(rp, file[pos]))
ReplaySnapEnd == Reading({"SnapEnd"}) /\ Step(OnSnapEnd(rp, file[pos]))
ReplayMessage ==
    /\ Reading({"Received", "Open", "Done", "Match", "Change"})
    /\ Step(OnMessage(rp, file[pos]))

\* The end of the file closes the last episode.
EndReplay == pos = Len(file) + 1 /\ Step(CloseEpisode(rp))

Ended == pos = Len(file) + 2 /\ UNCHANGED vars

RecordDay ==
    \/ \E ours \in scen.who, side \in scen.sides, px \in scen.limits \cup {0}, qty \in scen.qtys,
          name \in scen.varieties : XArrive(ours, side, px, qty, name)
    \/ \E id \in OrderIds :
         \/ "Cancel" \in scen.other /\ XCancel(id)
         \/ "Vanish" \in scen.other /\ XVanish(id)
         \/ "Modify" \in scen.other /\ \E px \in scen.limits, qty \in scen.qtys : XModify(id, px, qty)
    \/ FetchSnapshot
    \/ ArchiveSnapshot
    \/ StartReplay

Next ==
    \/ RecordDay
    \/ ReplaySnapOrder
    \/ ReplaySnapEnd
    \/ ReplayMessage
    \/ EndReplay
    \/ Ended

Spec == Init /\ [][Next]_vars

-----------------------------------------------------------------------------
(* Properties. *)

\* The tool is in sync and has read a whole block.
BetweenBlocks == pos > 0 /\ rp.synced /\ rp.lastSeq \in DOMAIN past

\* l3.hpp:221: in both passes the level totals are kept in step with the
\* queues, across snapshots, gaps and messages replayed late.
TotalsInStep == InStep(rp.truth) /\ InStep(inf.book)

\* The truth book is the exchange's book, order by order and in queue order,
\* whenever the tool thinks it is in sync: after a gap it is not trusted until
\* a snapshot and the newer messages buffered before it have been applied.
TruthIsExchange ==
    /\ TotalsInStep
    /\ BetweenBlocks => \A s \in Sides, p \in Prices :
                           rp.truth.queue[s][p] = Plain(past[rp.lastSeq][s][p])

\* The comparison raises no false alarm: when every cancel reaches the engine,
\* every arrival and modify is reproduced, with its self-trade prevention
\* inferred from the feed, and between blocks the engine holds the exchange's
\* orders in the exchange's order.  Excepted are the two situations that the
\* tool misreads, and the whole-book check it runs at the `change' of a crossing
\* modify, whose matches the truth book already holds.
ReplayIsExact ==
    scen.dropEvery = 0 /\ x.misread = {} /\ "CheckInModify" \notin rp.alarms =>
      /\ rp.alarms = {}
      /\ BetweenBlocks => BooksEqual(rp.eng, rp.truth)

\* exsim_l3replay.cpp:61, "any OTHER order that is cancelled or STP-decremented
\* inside that order's processing block ... belongs to the same account": on a
\* complete archive the inference never puts orders of two accounts together,
\* which would make the engine prevent trades that did happen.
LinksAreAccounts ==
    x.lost = 0 => \A a, b \in OrderIds :
                     inf.root[a] = inf.root[b] => a = b \/ {a, b} \subseteq x.family

\* exsim_l3replay.cpp:787: a fault in the engine's book (a cancel it never heard
\* of) does not outlive the next whole-book check, whatever traded against the
\* order in between: only the arrival under way may be unknown to the truth.
CheckRestores ==
    rp.checkRan => \A id \in IdsIn(rp.eng) : Knows(rp.truth, id) \/ id = file[pos - 1].id
=============================================================================
