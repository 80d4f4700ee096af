----------------------------- MODULE PureMatch -----------------------------
(***************************************************************************)
(* The matching rules of include/exsim/reference_book.hpp as functions: a  *)
(* command takes a book to a book and a log of what happened to the makers *)
(* it met.  Module ReferenceBook cuts the same rules into the iterations   *)
(* of the match loop; MCBook checks that its steps add up to Sweep.        *)
(*                                                                         *)
(* A book is book[side][price], a queue of [id, qty, owner].               *)
(***************************************************************************)
EXTENDS Common, FiniteSetsExt

EmptyBook == [s \in Sides |-> [p \in Prices |-> <<>>]]

LevelsIn(bk, side) == {p \in Prices : bk[side][p] # <<>>}

IdsIn(bk) == {bk[s][p][i].id : <<s, p, i>> \in
                {x \in Sides \X Prices \X (1 .. Cardinality(OrderIds)) :
                   x[3] \in DOMAIN bk[x[1]][x[2]]}}

\* The prices on the other side that an order of this side may match.
Reachable(bk, side, limit) ==
    {p \in LevelsIn(bk, Opposite(side)) : IF side = "Buy" THEN p =< limit ELSE p >= limit}

BestFor(side, prices) == IF side = "Buy" THEN Min(prices) ELSE Max(prices)

Entry(what, maker, px, qty, leaves) ==
    [what |-> what, maker |-> maker, px |-> px, qty |-> qty, leaves |-> leaves]

\* One meeting of an order o [id, owner, side, limit, stp] with the maker m, in
\* front at price p, in the state s [book, qty, stop, log] of the sweep.
MeetMaker(o, s, p, m) ==
    LET opp == Opposite(o.side)
        own == o.stp # "None" /\ m.owner = o.owner
        popped == [s.book EXCEPT ![opp][p] = Tail(@)]
        fill == Min({m.qty, s.qty})
        canceled == Append(s.log, Entry("Cancel", m.id, p, m.qty, 0))
    IN  CASE ~own ->
               [s EXCEPT !.book = IF fill = m.qty THEN popped
                                  ELSE [s.book EXCEPT ![opp][p][1].qty = @ - fill],
                         !.qty = @ - fill,
                         !.log = Append(@, Entry("Trade", m.id, p, fill, m.qty - fill))]
          [] own /\ o.stp = "CancelIncoming" -> [s EXCEPT !.stop = TRUE]
          [] own /\ o.stp = "CancelResting" -> [s EXCEPT !.book = popped, !.log = canceled]
          [] own /\ o.stp = "DecrementCancel" /\ m.qty > s.qty ->
               [s EXCEPT !.book[opp][p][1].qty = @ - s.qty,
                         !.stop = TRUE,
                         !.log = Append(@, Entry("Decrement", m.id, p, s.qty, m.qty - s.qty))]
          [] own /\ o.stp = "DecrementCancel" /\ m.qty = s.qty ->
               [s EXCEPT !.book = popped, !.stop = TRUE, !.log = canceled]
          [] own /\ o.stp = "DecrementCancel" /\ m.qty < s.qty ->
               [s EXCEPT !.book = popped, !.qty = @ - m.qty,
                         !.log = Append(canceled, Entry("DecrementTaker", o.id, o.limit, m.qty,
                                                        s.qty - m.qty))]

MeetAt(o, s, p) == MeetMaker(o, s, p, Head(s.book[Opposite(o.side)][p]))

\* One iteration of the match loop.
Iterate(o, s) ==
    IF s.qty = 0 \/ s.stop \/ Reachable(s.book, o.side, o.limit) = {} THEN s
    ELSE MeetAt(o, s, BestFor(o.side, Reachable(s.book, o.side, o.limit)))

\* The whole match loop: every meeting but the last takes a maker away.
SweepFrom(o, start) ==
    LET After[n \in 0 .. Cardinality(IdsIn(start.book))] ==
          IF n = 0 THEN start ELSE Iterate(o, After[n - 1])
    IN  After[Cardinality(IdsIn(start.book))]

Sweep(o, bk, qty) == SweepFrom(o, [book |-> bk, qty |-> qty, stop |-> FALSE, log |-> <<>>])

-----------------------------------------------------------------------------
(* add, cancel and modify.  `fate' says what became of the order. *)

Rest(o, s) ==
    [book |-> [s.book EXCEPT ![o.side][o.limit] =
                 Append(@, [id |-> o.id, qty |-> s.qty, owner |-> o.owner])],
     log |-> s.log, qty |-> s.qty, fate |-> "rested"]

Settle(o, s, rests) ==
    IF s.qty > 0 /\ ~s.stop /\ rests /\ Cardinality(IdsIn(s.book)) < Capacity THEN Rest(o, s)
    ELSE [book |-> s.book, log |-> s.log, qty |-> s.qty,
          fate |-> IF s.qty = 0 THEN "filled" ELSE "canceled"]

Refused(bk, qty) == [book |-> bk, log |-> <<>>, qty |-> qty, fate |-> "rejected"]

LimitOf(c) == IF ~Market(c) THEN c.price ELSE IF c.side = "Buy" THEN MaxPrice ELSE MinPrice

\* add, for the Day and Ioc orders.
AddTo(bk, c) ==
    LET o == [id |-> c.id, owner |-> c.owner, side |-> c.side, limit |-> LimitOf(c),
              stp |-> EffectiveStp(c.stp)]
    IN  IF \/ c.qty = 0 \/ (~Market(c) /\ c.price \notin Prices) \/ c.id \in IdsIn(bk)
           \/ (c.postOnly /\ Reachable(bk, c.side, LimitOf(c)) # {})
        THEN Refused(bk, c.qty)
        ELSE Settle(o, Sweep(o, bk, c.qty), ~Market(c) /\ c.tif = "Day")

\* The level of a resting order, and its place there.
Locate(bk, id) ==
    CHOOSE x \in Sides \X Prices \X (1 .. Cardinality(OrderIds)) :
       x[3] \in DOMAIN bk[x[1]][x[2]] /\ bk[x[1]][x[2]][x[3]].id = id

CancelIn(bk, id) ==
    IF id \notin IdsIn(bk) THEN bk ELSE
    LET at == Locate(bk, id)
    IN  [bk EXCEPT ![at[1]][at[2]] = SelectSeq(@, LAMBDA o : o.id # id)]

\* A modify of the resting order `old', at the place `at'.
ModifyAt(bk, at, old, px, qty) ==
    LET o == [id |-> old.id, owner |-> old.owner, side |-> at[1], limit |-> px, stp |-> BookStp]
    IN  IF px = at[2] /\ qty =< old.qty
        THEN [book |-> [bk EXCEPT ![at[1]][at[2]][at[3]].qty = qty],
              log |-> <<>>, qty |-> qty, fate |-> "amended"]
        ELSE Settle(o, Sweep(o, CancelIn(bk, old.id), qty), TRUE)

OrderAt(bk, at) == bk[at[1]][at[2]][at[3]]

ModifyIn(bk, id, px, qty) ==
    IF qty = 0 \/ id \notin IdsIn(bk) \/ px \notin Prices THEN Refused(bk, qty)
    ELSE ModifyAt(bk, Locate(bk, id), OrderAt(bk, Locate(bk, id)), px, qty)
=============================================================================
