--------------------------- MODULE ReferenceBook ---------------------------
(***************************************************************************)
(* The limit order book of include/exsim/reference_book.hpp: one FIFO      *)
(* queue per price and side, an index from order id to location, and the   *)
(* matching rules.  It is the oracle the repository tests the optimised    *)
(* book of order_book.hpp against, and the abstract specification that     *)
(* module OrderBook is shown to implement.                                 *)
(*                                                                         *)
(* The engine is single threaded: a command runs to completion before the  *)
(* next one is read.  A handler that matches is cut into the iterations of *)
(* its match loop (pc = "sweep"), and while one is under way no command    *)
(* can start.  `events' holds what the handler passed to its sink in the   *)
(* last step.                                                              *)
(***************************************************************************)
EXTENDS Common

VARIABLES
    book,      \* book[side][price]: the queue of resting orders, front first
    index,     \* order id -> location, for the resting orders
    taker,     \* the incoming order while it is being matched
    pc,        \* "idle", or "sweep" while the match loop runs
    events     \* what the last step passed to the sink

vars == <<book, index, taker, pc, events>>

-----------------------------------------------------------------------------
(* Queries. *)

Levels(side) == {p \in Prices : book[side][p] # <<>>}

\* Is price p at least as good as the limit of an order of this side?
InRange(side, p, limit) == IF side = "Buy" THEN p =< limit ELSE p >= limit

CrossesStrict(side, limit) ==
    \E p \in Levels(Opposite(side)) : InRange(side, p, limit) /\ p # limit
Crosses(side, limit) == \E p \in Levels(Opposite(side)) : InRange(side, p, limit)

\* The best level of a side: the lowest ask, the highest bid.
Best(side) ==
    CHOOSE p \in Levels(side) : \A q \in Levels(side) : InRange(Opposite(side), p, q)

Position(q, id) == CHOOSE i \in DOMAIN q : q[i].id = id

\* The prices an order would visit, best first, down to its limit.
PricePath(side, limit) ==
    IF side = "Buy" THEN [i \in 1 .. limit - MinPrice + 1 |-> MinPrice + i - 1]
                    ELSE [i \in 1 .. MaxPrice - limit + 1 |-> MaxPrice - i + 1]

\* fillable's scan meets order o: what is still needed, and the answer once it
\* is known.
ScanOrder(s, o, owner, stp) ==
    LET own == stp # "None" /\ o.owner = owner
    IN  CASE s.answer # "open" -> s
          [] s.answer = "open" /\ own /\ stp = "CancelIncoming" -> [s EXCEPT !.answer = "no"]
          [] s.answer = "open" /\ own /\ stp = "CancelResting" -> s
          [] s.answer = "open" /\ own /\ stp = "DecrementCancel" ->
               IF o.qty >= s.need THEN [s EXCEPT !.answer = "no"]
                                  ELSE [s EXCEPT !.need = @ - o.qty]
          [] s.answer = "open" /\ ~own ->
               IF o.qty >= s.need THEN [s EXCEPT !.answer = "yes"]
                                  ELSE [s EXCEPT !.need = @ - o.qty]

\* The scan of a whole queue.
ScanQueue(q, owner, stp, start) ==
    LET Scan[k \in 0 .. Len(q)] ==
          IF k = 0 THEN start ELSE ScanOrder(Scan[k - 1], q[k], owner, stp)
    IN  Scan[Len(q)]

\* A pre-check that forgets self-trade prevention.
FillableIgnoresStp(side, limit, qty, owner, stp) ==
    LET path == PricePath(side, limit)
        Visit[k \in 0 .. Len(path)] ==
          IF k = 0 THEN [need |-> qty, answer |-> "open"]
          ELSE ScanQueue(book[Opposite(side)][path[k]], owner, "None", Visit[k - 1])
    IN  Visit[Len(path)].answer = "yes"

\* FOK pre-check: would the match resolve all of qty within limit?
Fillable(side, limit, qty, owner, stp) ==
    LET path == PricePath(side, limit)
        Visit[k \in 0 .. Len(path)] ==
          IF k = 0 THEN [need |-> qty, answer |-> "open"]
          ELSE ScanQueue(book[Opposite(side)][path[k]], owner, stp, Visit[k - 1])
    IN  Visit[Len(path)].answer = "yes"

-----------------------------------------------------------------------------
(* Changes to the book. *)

RemoveAt(q, k) == [i \in 1 .. Len(q) - 1 |-> IF i < k THEN q[i] ELSE q[i + 1]]

SetQueue(side, p, q) == [book EXCEPT ![side][p] = q]

Forget(id) == [i \in DOMAIN index \ {id} |-> index[i]]

\* remove and index_.erase of the order with this id.
Remove(id) ==
    LET loc == index[id]
        q == book[loc.side][loc.price]
    IN  /\ book' = SetQueue(loc.side, loc.price, RemoveAt(q, Position(q, id)))
        /\ index' = Forget(id)

-----------------------------------------------------------------------------
(* The handlers. *)

Limit(c) == IF Market(c) THEN (IF c.side = "Buy" THEN MaxPrice ELSE MinPrice)
                         ELSE c.price

\* The first validation that fails, in the handler's order.
AddReason(c) ==
    IF c.id = NoId THEN "InvalidOrderId"
    ELSE IF c.qty = 0 THEN "InvalidQty"
    ELSE IF ~Market(c) /\ c.price \notin Prices THEN "InvalidPrice"
    ELSE IF c.id \in DOMAIN index THEN "DuplicateOrderId"
    ELSE IF c.postOnly /\ Crosses(c.side, Limit(c)) THEN "WouldCross"
    ELSE "None"

Reject(c, reason) ==
    /\ events' = <<Rejected(c, reason)>>
    /\ UNCHANGED <<book, index, taker, pc>>

\* The order is accepted: a fill-or-kill order that cannot be filled is
\* cancelled on the spot, any other starts to match.
Accept(c) ==
    LET px == IF Market(c) THEN 0 ELSE c.price
        stp == EffectiveStp(c.stp)
        accepted == Accepted(c.id, c.side, px, c.qty)
        killed == c.tif = "Fok" /\ ~Fillable(c.side, Limit(c), c.qty, c.owner, stp)
    IN  \/ /\ events' = <<accepted, Canceled(c.id, c.side, px, c.qty, "FokUnfilled")>>
           /\ killed
           /\ UNCHANGED <<book, index, taker, pc>>
        \/ /\ events' = <<accepted>>
           /\ ~killed
           /\ taker' = [id |-> c.id, owner |-> c.owner, side |-> c.side,
                        limit |-> Limit(c), qty |-> c.qty, stp |-> stp,
                        stop |-> FALSE, px |-> px, tif |-> c.tif,
                        rests |-> ~Market(c) /\ c.tif = "Day"]
           /\ pc' = "sweep"
           /\ UNCHANGED <<book, index>>

Add(c) ==
    LET reason == AddReason(c)
    IN  /\ pc = "idle"
        /\ \/ reason # "None" /\ Reject(c, reason)
           \/ reason = "None" /\ Accept(c)

Cancel(c) ==
    /\ pc = "idle"
    /\ \/ c.id \notin DOMAIN index /\ Reject(c, "UnknownOrder")
       \/ /\ c.id \in DOMAIN index
          /\ Remove(c.id)
          /\ LET loc == index[c.id]
                 q == book[loc.side][loc.price]
             IN  events' = <<Canceled(c.id, loc.side, loc.price,
                                      q[Position(q, c.id)].qty, "UserCanceled")>>
          /\ UNCHANGED <<taker, pc>>

ModifyReason(c) ==
    IF c.qty = 0 THEN "InvalidQty"
    ELSE IF c.id \notin DOMAIN index THEN "UnknownOrder"
    ELSE IF c.price \notin Prices THEN "InvalidPrice"
    ELSE "None"

\* A smaller quantity at the same price is amended in place and keeps its
\* place in the queue.  Anything else leaves the book and is matched again.
AmendLosesPlace(c, loc, q, k) ==
    /\ book' = SetQueue(loc.side, loc.price,
                        Append(RemoveAt(q, k), [q[k] EXCEPT !.qty = c.qty]))
    /\ UNCHANGED <<index, taker, pc>>

Amend(c, loc, q, k) ==
    /\ book' = SetQueue(loc.side, loc.price, [q EXCEPT ![k].qty = c.qty])
    /\ UNCHANGED <<index, taker, pc>>

Reenter(c, loc, q, k) ==
    /\ Remove(c.id)
    /\ taker' = [id |-> c.id, owner |-> q[k].owner, side |-> loc.side,
                 limit |-> c.price, qty |-> c.qty, stp |-> BookStp,
                 stop |-> FALSE, px |-> c.price, tif |-> "Day", rests |-> TRUE]
    /\ pc' = "sweep"

Modify(c) ==
    /\ pc = "idle"
    /\ \/ ModifyReason(c) # "None" /\ Reject(c, ModifyReason(c))
       \/ /\ ModifyReason(c) = "None"
          /\ LET loc == index[c.id]
                 q == book[loc.side][loc.price]
                 k == Position(q, c.id)
                 inPlace == c.price = loc.price /\ c.qty =< q[k].qty
             IN  /\ events' = <<Modified(c.id, loc.side, c.price, c.qty)>>
                 /\ \/ inPlace /\ Amend(c, loc, q, k)
                    \/ ~inPlace /\ Reenter(c, loc, q, k)

-----------------------------------------------------------------------------
(* One iteration of match_side: the taker meets the front of the best level. *)

Maker == Head(book[Opposite(taker.side)][Best(Opposite(taker.side))])

\* A maker that is filled but stays in the index.
PopMakerKeepsIndex ==
    LET side == Opposite(taker.side)
        p == Best(side)
    IN  /\ book' = SetQueue(side, p, Tail(book[side][p]))
        /\ UNCHANGED index

PopMaker ==
    LET side == Opposite(taker.side)
        p == Best(side)
    IN  /\ book' = SetQueue(side, p, Tail(book[side][p]))
        /\ index' = Forget(Maker.id)

SetMakerQty(n) ==
    LET side == Opposite(taker.side)
        p == Best(side)
    IN  /\ book' = [book EXCEPT ![side][p][1].qty = n]
        /\ UNCHANGED index

Matching ==
    /\ pc = "sweep"
    /\ taker.qty > 0
    /\ ~taker.stop
    /\ Crosses(taker.side, taker.limit)

OwnMaker == taker.stp # "None" /\ Maker.owner = taker.owner

\* CancelIncoming: the taker stops, its remainder is cancelled afterwards.
MatchStop ==
    /\ Matching
    /\ OwnMaker
    /\ taker.stp = "CancelIncoming"
    /\ taker' = [taker EXCEPT !.stop = TRUE]
    /\ events' = <<>>
    /\ UNCHANGED <<book, index, pc>>

\* A decrement of which nobody is told.
MatchDecrementMakerSilent ==
    /\ Matching
    /\ OwnMaker
    /\ taker.stp = "DecrementCancel"
    /\ Maker.qty > taker.qty
    /\ SetMakerQty(Maker.qty - taker.qty)
    /\ taker' = [taker EXCEPT !.stop = TRUE]
    /\ events' = <<>>
    /\ UNCHANGED pc

\* DecrementCancel against a larger resting order.
MatchDecrementMaker ==
    /\ Matching
    /\ OwnMaker
    /\ taker.stp = "DecrementCancel"
    /\ Maker.qty > taker.qty
    /\ SetMakerQty(Maker.qty - taker.qty)
    /\ taker' = [taker EXCEPT !.stop = TRUE]
    /\ events' = <<StpDecrement(Maker.id, Opposite(taker.side), Best(Opposite(taker.side)),
                                Maker.qty - taker.qty)>>
    /\ UNCHANGED pc

\* CancelResting, or DecrementCancel against a smaller or equal resting order.
MatchCancelMaker ==
    /\ Matching
    /\ OwnMaker
    /\ taker.stp # "CancelIncoming"
    /\ ~(taker.stp = "DecrementCancel" /\ Maker.qty > taker.qty)
    /\ PopMaker
    /\ LET gone == Canceled(Maker.id, Opposite(taker.side), Best(Opposite(taker.side)),
                            Maker.qty, "SelfTrade")
           left == taker.qty - Maker.qty
       IN  \/ /\ taker.stp = "CancelResting"
              /\ events' = <<gone>>
              /\ UNCHANGED taker
           \/ /\ taker.stp = "DecrementCancel" /\ left = 0
              /\ events' = <<gone>>
              /\ taker' = [taker EXCEPT !.stop = TRUE]
           \/ /\ taker.stp = "DecrementCancel" /\ left > 0
              /\ events' = <<gone, StpDecrement(taker.id, taker.side, taker.limit, left)>>
              /\ taker' = [taker EXCEPT !.qty = left]
    /\ UNCHANGED pc

MatchTrade ==
    LET fill == IF Maker.qty < taker.qty THEN Maker.qty ELSE taker.qty
        left == Maker.qty - fill
    IN  /\ Matching
        /\ ~OwnMaker
        /\ taker' = [taker EXCEPT !.qty = @ - fill]
        /\ events' = <<Trade(taker.id, Maker.id, taker.side, Best(Opposite(taker.side)),
                             fill, left)>>
        /\ IF left = 0 THEN PopMaker ELSE SetMakerQty(left)
        /\ UNCHANGED pc

-----------------------------------------------------------------------------
(* The end of add and modify, once the match loop has stopped. *)

Finish(evs) ==
    /\ pc = "sweep"
    /\ ~Matching
    /\ taker' = NoTaker
    /\ pc' = "idle"
    /\ events' = evs

Drop(reason) ==
    /\ Finish(<<Canceled(taker.id, taker.side, taker.px, taker.qty, reason)>>)
    /\ UNCHANGED <<book, index>>

FinishFilled == taker.qty = 0 /\ Finish(<<>>) /\ UNCHANGED <<book, index>>

FinishStopped == taker.qty > 0 /\ taker.stop /\ Drop("SelfTrade")

FinishExpired == taker.qty > 0 /\ ~taker.stop /\ ~taker.rests /\ Drop("IocExpired")

Remainder == taker.qty > 0 /\ ~taker.stop /\ taker.rests

FinishFull == Remainder /\ Cardinality(DOMAIN index) >= Capacity /\ Drop("BookFull")

FinishRest ==
    /\ Remainder
    /\ Cardinality(DOMAIN index) < Capacity
    /\ Finish(<<>>)
    /\ book' = [book EXCEPT ![taker.side][taker.limit] =
                  Append(@, [id |-> taker.id, qty |-> taker.qty, owner |-> taker.owner])]
    /\ index' = [i \in DOMAIN index \cup {taker.id} |->
                   IF i = taker.id THEN [side |-> taker.side, price |-> taker.limit]
                                   ELSE index[i]]

-----------------------------------------------------------------------------

Match == MatchStop \/ MatchDecrementMaker \/ MatchCancelMaker \/ MatchTrade

FinishMatch ==
    FinishFilled \/ FinishStopped \/ FinishExpired \/ FinishFull \/ FinishRest

Init ==
    /\ book = [s \in Sides |-> [p \in Prices |-> <<>>]]
    /\ index = << >>
    /\ taker = NoTaker
    /\ pc = "idle"
    /\ events = <<>>

Next ==
    \/ Match
    \/ FinishMatch
    \/ \E c \in CancelCommand : Cancel(c)
    \/ \E c \in ModifyCommand : Modify(c)
    \/ \E c \in AddCommand : Add(c)

Spec == Init /\ [][Next]_vars

-----------------------------------------------------------------------------
(* Properties. *)

Loc == [side : Sides, price : Prices]

Takers ==
    [id : OrderIds, owner : Owners, side : Sides, limit : Prices, qty : Nat,
     stp : Stps, stop : BOOLEAN, px : Prices \cup {0}, tif : {"Day", "Ioc", "Fok"},
     rests : BOOLEAN]

BookTypes ==
    /\ book \in [Sides -> [Prices -> Seq(Order)]]
    /\ DOMAIN index \subseteq OrderIds
    /\ index \in [DOMAIN index -> Loc]

TakerTypes ==
    /\ pc \in {"idle", "sweep"}
    /\ IF pc = "idle" THEN taker = NoTaker ELSE taker \in Takers

\* Types of the book's state (reference_book.hpp:253-260 and the locals of a
\* handler that is matching).
TypeOK == BookTypes /\ TakerTypes

\* A queued order is indexed at its side and price, and queued once.
QueuedIsIndexed ==
    \A s \in Sides, p \in Prices : \A i \in DOMAIN book[s][p] :
       /\ book[s][p][i].id \in DOMAIN index
       /\ index[book[s][p][i].id] = [side |-> s, price |-> p]
       /\ \A j \in DOMAIN book[s][p] : book[s][p][j].id = book[s][p][i].id => j = i

\* An indexed order is in the queue the index names.
IndexedIsQueued ==
    \A id \in DOMAIN index :
       \E i \in DOMAIN book[index[id].side][index[id].price] :
          book[index[id].side][index[id].price][i].id = id

\* The index and the queues describe the same resting orders, as
\* check_invariants counts them: an id is in the index exactly when it is in a
\* queue, at the indexed side and price and nowhere else, and the order being
\* matched is in neither.
IndexAgrees ==
    /\ QueuedIsIndexed
    /\ IndexedIsQueued
    /\ pc = "sweep" => taker.id \notin DOMAIN index

\* check_invariants, first test: the book is never crossed, at no point of any
\* handler, not even while a re-entered order is between two queues.
Uncrossed ==
    \A p, q \in Prices : book["Buy"][p] # <<>> /\ book["Sell"][q] # <<>> => p < q

\* A fill-or-kill order that passed the fillable pre-check is resolved to the
\* last unit, by trades or, under decrement-and-cancel, also against own orders:
\* the pre-check predicts the match, under every self-trade mode.
FokAllOrNothing ==
    pc = "sweep" /\ ~Matching /\ taker.tif = "Fok" => taker.qty = 0

\* Time priority.  An order that stays in its queue keeps its place relative
\* to the others that stay, and never grows there: an increase in size gives
\* up the place in the queue.
QueueDiscipline ==
    [][\A s \in Sides, p \in Prices :
         LET old == book[s][p]
             new == book'[s][p]
         IN  \A i, j \in DOMAIN old : \A m, n \in DOMAIN new :
               (old[i].id = new[m].id /\ old[j].id = new[n].id) =>
                  /\ (i < j <=> m < n)
                  /\ new[m].qty =< old[i].qty]_vars
=============================================================================
