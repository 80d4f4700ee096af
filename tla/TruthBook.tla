----------------------------- MODULE TruthBook -----------------------------
(***************************************************************************)
(* The order-by-order book of include/exsim/l3.hpp.  It has no matching    *)
(* logic: it applies the messages of an exchange literally.  A book is     *)
(*                                                                         *)
(*   queue[side][price]   bids_ and asks_: the orders of a level           *)
(*   where[id]            where_: side and price of the known orders       *)
(*   total[side][price]   bid_qty_ and ask_qty_, kept beside the queues    *)
(*                                                                         *)
(* A level is in the maps while its queue holds an order, also one whose   *)
(* quantity is down to 0.  The time an order joined its queue is left out. *)
(***************************************************************************)
EXTENDS Common

Blank ==
    [queue |-> [s \in Sides |-> [p \in Prices |-> <<>>]],
     where |-> << >>,
     total |-> [s \in Sides |-> [p \in Prices |-> 0]]]

Knows(t, id) == id \in DOMAIN t.where

QueueOf(t, id) == t.queue[t.where[id].side][t.where[id].px]
PlaceOf(q, id) == CHOOSE i \in DOMAIN q : q[i].id = id
QtyOf(t, id) == QueueOf(t, id)[PlaceOf(QueueOf(t, id), id)].qty
Without(q, id) == SelectSeq(q, LAMBDA o : o.id # id)

TruthLevels(t, side) == {p \in Prices : t.queue[side][p] # <<>>}

\* An order joins the back of the queue at px.
TruthAdd(t, id, side, px, qty) ==
    [queue |-> [t.queue EXCEPT ![side][px] = Append(@, [id |-> id, qty |-> qty])],
     where |-> [i \in DOMAIN t.where \cup {id} |->
                  IF i = id THEN [side |-> side, px |-> px] ELSE t.where[i]],
     total |-> [t.total EXCEPT ![side][px] = @ + qty]]

\* fill reports FALSE, and changes nothing, for a maker that is unknown or
\* smaller than the match.
CanFill(t, maker, qty) == Knows(t, maker) /\ QtyOf(t, maker) >= qty

SetQty(t, id, qty) ==
    LET loc == t.where[id]
        i == PlaceOf(QueueOf(t, id), id)
    IN  [t EXCEPT !.queue[loc.side][loc.px][i].qty = qty,
                  !.total[loc.side][loc.px] = @ - QtyOf(t, id) + qty]

TruthFill(t, maker, qty) ==
    IF CanFill(t, maker, qty) THEN SetQty(t, maker, QtyOf(t, maker) - qty) ELSE t

\* erase_at, and where_.erase.
TruthRemove(t, id) ==
    IF ~Knows(t, id) THEN t ELSE
    LET loc == t.where[id]
    IN  [queue |-> [t.queue EXCEPT ![loc.side][loc.px] = Without(@, id)],
         where |-> [i \in DOMAIN t.where \ {id} |-> t.where[i]],
         total |-> [t.total EXCEPT ![loc.side][loc.px] = @ - QtyOf(t, id)]]

\* A change that always keeps the order's place in its queue.
TruthChangeInPlace(t, id, px, qty) ==
    IF ~Knows(t, id) THEN t
    ELSE IF px = t.where[id].px THEN SetQty(t, id, qty)
    ELSE TruthAdd(TruthRemove(t, id), id, t.where[id].side, px, qty)

\* A size decrease at the same price keeps the order's place; anything else
\* moves it to the back of the queue at its price.
TruthChange(t, id, px, qty) ==
    IF ~Knows(t, id) THEN t
    ELSE IF px = t.where[id].px /\ qty =< QtyOf(t, id) THEN SetQty(t, id, qty)
    ELSE TruthAdd(TruthRemove(t, id), id, t.where[id].side, px, qty)

\* The totals and the map are in step with the queues (l3.hpp:221): a level's
\* total is the sum of its orders, and an order is in the one queue that where_
\* names.
InStep(t) ==
    /\ \A s \in Sides, p \in Prices :
         LET q == t.queue[s][p]
             Upto[i \in 0 .. Len(q)] == IF i = 0 THEN 0 ELSE Upto[i - 1] + q[i].qty
         IN  /\ t.total[s][p] = Upto[Len(q)]
             /\ \A i \in DOMAIN q : /\ Knows(t, q[i].id)
                                    /\ t.where[q[i].id] = [side |-> s, px |-> p]
                                    /\ \A j \in DOMAIN q : q[j].id = q[i].id => j = i
    /\ \A id \in DOMAIN t.where : \E i \in DOMAIN QueueOf(t, id) : QueueOf(t, id)[i].id = id
=============================================================================
