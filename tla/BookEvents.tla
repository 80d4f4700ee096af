---------------------------- MODULE BookEvents ----------------------------
(***************************************************************************)
(* What the event stream of a book tells: a listener that sees the events  *)
(* and nothing else keeps `view', the open orders it infers.  The gateway's *)
(* reports, the market-data batch and the replay tools all rely on the     *)
(* events of common.hpp being enough to follow the book.                   *)
(***************************************************************************)
EXTENDS ReferenceBook

VARIABLE view      \* order id -> [side, price, qty]

eventVars == <<book, index, taker, pc, events, view>>

Known(v, id, o) == [i \in DOMAIN v \cup {id} |-> IF i = id THEN o ELSE v[i]]
Gone(v, id) == [i \in DOMAIN v \ {id} |-> v[i]]

SetQty(v, id, qty) == IF qty = 0 THEN Gone(v, id) ELSE [v EXCEPT ![id].qty = qty]

\* The meaning of one event (the field comments of struct Event).
Learn(v, e) ==
    CASE e.type = "Rejected" -> v
      [] e.type \in {"Accepted", "Modified"} ->
           Known(v, e.id, [side |-> e.side, price |-> e.price, qty |-> e.qty])
      [] e.type = "Canceled" -> SetQty(v, e.id, v[e.id].qty - e.qty)
      [] e.type = "Trade" ->
           SetQty(SetQty(v, e.id, v[e.id].qty - e.qty), e.maker, e.leaves)

LearnAll(v, evs) ==
    LET After[k \in 0 .. Len(evs)] == IF k = 0 THEN v ELSE Learn(After[k - 1], evs[k])
    IN  After[Len(evs)]

EventsInit == Init /\ view = << >>

EventsNext == Next /\ view' = LearnAll(view, events')

EventsSpec == EventsInit /\ [][EventsNext]_eventVars

-----------------------------------------------------------------------------

RestingQty(id) ==
    LET q == book[index[id].side][index[id].price]
    IN  q[Position(q, id)].qty

\* The events are complete: what they tell of the resting orders (side, price
\* and open quantity) is the book itself after every handler and inside it,
\* and what they tell of the order being matched is its true remainder.  No
\* quantity is created or lost, and each cancel reports exactly what was open.
EventsTellTheBook ==
    /\ DOMAIN view = DOMAIN index \cup
         (IF pc = "sweep" /\ taker.qty > 0 THEN {taker.id} ELSE {})
    /\ \A id \in DOMAIN index :
         view[id] = [side |-> index[id].side, price |-> index[id].price,
                     qty |-> RestingQty(id)]
    /\ pc = "sweep" /\ taker.qty > 0 => view[taker.id].qty = taker.qty
=============================================================================
