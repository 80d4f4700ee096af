----------------------------- MODULE QueueStudy -----------------------------
(***************************************************************************)
(* tools/exsim_queuestudy.cpp: probes of no size join the queue of an      *)
(* archived exchange day, whose order-by-order book tells when each would  *)
(* have been filled, and estimators that see only level totals and trades  *)
(* predict the same.  It reads the file of L3Replay, with times counted in *)
(* messages.                                                               *)
(*                                                                         *)
(* Of the estimators the optimistic one (front) and the pessimistic one    *)
(* (back) are modelled; those between them split a cancellation by real    *)
(* numbers.  The statistics of errors and of cancelled orders are left     *)
(* out.                                                                    *)
(***************************************************************************)
EXTENDS L3Replay

CONSTANTS
    ProbeTimes,    \* the intervals between probes (every_ns_) that are tried
    ProbeHorizon   \* horizon_ns_

VARIABLES study    \* Study

Rules == {"front", "back"}

Smaller(a, b) == IF a < b THEN a ELSE b
Larger(a, b) == IF a > b THEN a ELSE b

StudyInit ==
    \E every \in ProbeTimes :
        study = [truth |-> Blank, since |-> [id \in OrderIds |-> 0], loading |-> FALSE,
                 synced |-> FALSE, snapSeq |-> 0, lastSeq |-> 0, pre |-> <<>>,
                 every |-> every, nextProbe |-> 0, nextExpiry |-> 0, probes |-> <<>>]

-----------------------------------------------------------------------------
(* What the estimators see. *)

\* on_cancel, for the estimators of one probe: c lots leave its level of total lots.
Estimate(rule, ahead, total, c) ==
    LET a == Smaller(ahead, total)
    IN  a - IF rule = "front" THEN Smaller(a, c) ELSE Larger(0, c - (total - a))

OnCancel(s, side, px, c) ==
    LET Seen(p) ==
          IF p.done \/ p.side # side \/ p.px # px THEN p
          ELSE [p EXCEPT !.ahead = [k \in Rules |->
                   IF p.estFill[k] # 0 THEN @[k]
                   ELSE Estimate(k, @[k], s.truth.total[side][px], c)]]
    IN  [s EXCEPT !.probes = [i \in DOMAIN @ |-> Seen(@[i])]]

\* on_trade: q lots at a price of the makers' side, from a maker that joined
\* its queue at makerSince.
OnTradeAt(s, side, px, q, makerSince) ==
    LET now == s.lastSeq
        First(t) == IF t = 0 THEN now ELSE t
        Through(p) == [p EXCEPT !.trueFill = First(@), !.estFill = [k \in Rules |-> First(@[k])]]
        At(p) == [p EXCEPT
            !.trueFill = IF makerSince >= p.joinSeq THEN First(@) ELSE @,
            !.ahead = [k \in Rules |-> IF p.estFill[k] # 0 THEN @[k] ELSE @[k] - q],
            !.estFill = [k \in Rules |-> IF p.ahead[k] < q THEN First(@[k]) ELSE @[k]]]
        Hit(p) == CASE p.done \/ p.side # side -> p
                    [] p.px = px -> At(p)
                    [] (IF side = "Buy" THEN px < p.px ELSE px > p.px) -> Through(p)
                    [] OTHER -> p
    IN  [s EXCEPT !.probes = [i \in DOMAIN @ |-> Hit(@[i])]]

\* History: lots leave the level at `at' and the estimators are not told, because
\* the order is reported filled: it was modified and filled as a taker elsewhere.
Untold(s, at, lots) ==
    [s EXCEPT !.probes = [i \in DOMAIN @ |-> [@[i] EXCEPT !.untold =
        @ \/ (lots > 0 /\ s.probes[i].side = at.side /\ s.probes[i].px = at.px)]]]

\* apply: the truth book, with what an observer of levels sees of it.
Applied(s, r) ==
    CASE r.kind = "Open" ->
           [s EXCEPT !.truth = TruthAdd(@, r.id, r.side, r.px, r.q), !.since[r.id] = r.seq]
      [] r.kind = "Match" ->
           OnTradeAt([s EXCEPT !.truth = TruthFill(@, r.id2, r.q)], r.side, r.px, r.q,
                     IF Knows(s.truth, r.id2) THEN s.since[r.id2] ELSE 0)
      [] r.kind = "Done" /\ Knows(s.truth, r.id) ->
           LET at == s.truth.where[r.id]
               t == IF "Canceled" \in r.flags
                    THEN OnCancel(s, at.side, at.px, QtyOf(s.truth, r.id))
                    ELSE Untold(s, at, QtyOf(s.truth, r.id))
           IN  [t EXCEPT !.truth = TruthRemove(@, r.id)]
      [] r.kind = "Change" /\ "FundsChange" \notin r.flags /\ Knows(s.truth, r.id) ->
           LET at == s.truth.where[r.id]
               px == NewPx(s.truth, r)
               old == QtyOf(s.truth, r.id)
               stays == px = at.px /\ r.q =< old
               t == OnCancel(s, at.side, at.px, IF stays THEN old - r.q ELSE old)
           IN  [t EXCEPT !.truth = TruthChange(@, r.id, px, r.q),
                         !.since[r.id] = IF stays THEN @ ELSE r.seq]
      [] OTHER -> s

-----------------------------------------------------------------------------
(* Probes *)

\* maybe_place_probes: a probe at the back of each best level.
PlaceProbes(s) ==
    LET sides == SelectSeq(<<"Buy", "Sell">>, LAMBDA side : TruthLevels(s.truth, side) # {})
        Probe(side) ==
          LET px == IF side = "Buy" THEN Max(TruthLevels(s.truth, side))
                                    ELSE Min(TruthLevels(s.truth, side))
          IN  [side |-> side, px |-> px, joinSeq |-> s.lastSeq + 1, trueFill |-> 0, done |-> FALSE,
               untold |-> FALSE,
               ahead |-> [k \in Rules |-> s.truth.total[side][px]],
               estFill |-> [k \in Rules |-> 0]]
    IN  IF s.lastSeq < s.nextProbe THEN s
        ELSE IF s.nextProbe = 0 THEN [s EXCEPT !.nextProbe = s.lastSeq + s.every]
        ELSE [s EXCEPT !.nextProbe = @ + s.every,
                       !.probes = @ \o [i \in DOMAIN sides |-> Probe(sides[i])]]

\* expire_probes.
ExpireProbes(s) ==
    LET Over(p) == \/ p.trueFill # 0 /\ \A k \in Rules : p.estFill[k] # 0
                   \/ s.lastSeq + 1 - p.joinSeq > ProbeHorizon
    IN  IF s.lastSeq < s.nextExpiry \/ \A i \in DOMAIN s.probes : s.probes[i].done THEN s
        ELSE [s EXCEPT !.nextExpiry = s.lastSeq + 1,
                       !.probes = [i \in DOMAIN @ |-> [@[i] EXCEPT !.done = @ \/ Over(s.probes[i])]]]

\* The probes stay open over the gap.
OnGapKeeps(s) == [s EXCEPT !.synced = FALSE, !.nextProbe = 0]

\* on_gap: the open probes are dropped.
OnGap(s) ==
    [s EXCEPT !.probes = SelectSeq(@, LAMBDA p : p.done), !.synced = FALSE, !.nextProbe = 0]

-----------------------------------------------------------------------------

StudyMessage(s, r) ==
    IF ~s.synced THEN [s EXCEPT !.pre = Append(@, r)]
    ELSE IF r.seq =< s.snapSeq THEN s
    ELSE IF r.seq # s.lastSeq + 1 THEN [OnGap(s) EXCEPT !.pre = Append(@, r)]
    ELSE ExpireProbes(PlaceProbes(Applied([s EXCEPT !.lastSeq = r.seq], r)))

StudyOn(s, r) ==
    CASE r.kind = "SnapOrder" ->
           IF s.synced THEN s
           ELSE [s EXCEPT !.loading = TRUE, !.since[r.id] = 0,
                          !.truth = TruthAdd(IF s.loading THEN @ ELSE Blank,
                                             r.id, r.side, r.px, r.q)]
      [] r.kind = "SnapEnd" ->
           IF s.synced THEN s
           ELSE FoldLeft(StudyMessage,
                         [s EXCEPT !.loading = FALSE, !.synced = TRUE, !.snapSeq = r.seq,
                                   !.lastSeq = r.seq, !.pre = <<>>],
                         Newer(s.pre, r.seq))
      [] OTHER -> StudyMessage(s, r)

StudyRead ==
    /\ pos \in DOMAIN file
    /\ study' = StudyOn(study, file[pos])
    /\ pos' = pos + 1
    /\ UNCHANGED <<scen, x, past, snap, file, inf, rp>>

StudyEnded == pos = Len(file) + 1 /\ UNCHANGED <<vars, study>>

StudyNext == (RecordDay /\ UNCHANGED study) \/ StudyRead \/ StudyEnded

-----------------------------------------------------------------------------
(* Properties. *)

\* true_ahead: the lots of the orders that joined the probe's level before it.
TrueAhead(p) ==
    LET q == study.truth.queue[p.side][p.px]
        Before(i) == \A j \in 1 .. i : study.since[q[j].id] < p.joinSeq
        Sum[i \in 0 .. Len(q)] == IF i = 0 THEN 0
                                  ELSE Sum[i - 1] + IF Before(i) THEN q[i].qty ELSE 0
    IN  Sum[Len(q)]

\* exsim_queuestudy.cpp:19-20, "the optimistic bound" and "pessimistic bound":
\* for every probe that is scored, the true place lies between the two, and the
\* true fill comes no earlier than front's and no later than back's, through
\* cancels from both ends of the queue, modifies that keep or lose their place,
\* self-trade reductions, and gaps, at which open probes are dropped.  Excepted
\* from front's bound are probes at whose level an order was reported filled
\* without a trade there.
BoundsHold ==
    \A i \in DOMAIN study.probes :
        LET p == study.probes[i]
            front == p.estFill["front"]
            back == p.estFill["back"]
        IN  /\ p.trueFill # 0 /\ ~p.untold => front \in 1 .. p.trueFill
            /\ back # 0 => p.trueFill \in 1 .. back
            /\ study.synced /\ ~p.done =>
                 /\ front = 0 /\ ~p.untold => p.ahead["front"] =< TrueAhead(p)
                 /\ back = 0 => TrueAhead(p) =< p.ahead["back"]
=============================================================================
