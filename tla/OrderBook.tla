----------------------------- MODULE OrderBook -----------------------------
(***************************************************************************)
(* The production order book of include/exsim/order_book.hpp: a ladder of  *)
(* levels shared by both sides, each level an intrusive doubly linked list *)
(* of store slots with an aggregate quantity, occupancy bits and a cached  *)
(* best level per side, a LIFO free list threaded through the slots, and   *)
(* an index from order id to slot.                                         *)
(*                                                                         *)
(* The bitmap and the hash index appear as the set and the map they        *)
(* implement.  The steps are those of ReferenceBook: an iteration of the   *)
(* sweep's inner loop is a step, entering and leaving a level belong to    *)
(* the first and the last iteration there.                                 *)
(***************************************************************************)
EXTENDS Common

Top == MaxPrice - MinPrice            \* n_ - 1, the highest level
Ix == 0 .. Top
Slots == 0 .. Capacity - 1
Nil == Capacity                       \* kNil, a value that is no slot

VARIABLES
    b,         \* the members of the class: ladder, bits, best, ids, store
    cursor,    \* sweep's s between two iterations in one level, or Nil
    taker,     \* the incoming order while it is being matched
    pc,        \* "idle" or "sweep"
    events     \* what the last step passed to the sink

vars == <<b, cursor, taker, pc, events>>

EmptyLevel == [qty |-> 0, head |-> Nil, tail |-> Nil]

\* An empty side: -1 for the bids, n_ for the asks.
NoBest == [Buy |-> -1, Sell |-> Top + 1]

\* What the pages of the store hold before the first order: zeros, but for the
\* links of the free list.
FreeSlot(next) == [id |-> NoId, qty |-> 0, prev |-> 0, level |-> 0, owner |-> NoId,
                   side |-> "Buy", next |-> next]

Init ==
    /\ b = [level |-> [i \in Ix |-> EmptyLevel],
            bits |-> [side \in Sides |-> {}],
            best |-> NoBest,
            ids |-> << >>,
            store |-> [s \in Slots |-> FreeSlot(s + 1)],
            free |-> 0,
            live |-> 0]
    /\ cursor = Nil
    /\ taker = NoTaker
    /\ pc = "idle"
    /\ events = <<>>

-----------------------------------------------------------------------------
(* PriceBitmap, OrderIndex and FreeListStore: what they promise. *)

\* find_next(i): the smallest set index >= i, or n_.
FindNext(set, i) ==
    IF \E j \in set : j >= i THEN CHOOSE j \in set : j >= i /\ \A k \in set : k >= i => j =< k
                             ELSE Top + 1

\* find_prev(i): the largest set index =< i, or -1.
FindPrev(set, i) ==
    IF \E j \in set : j =< i THEN CHOOSE j \in set : j =< i /\ \A k \in set : k =< i => k =< j
                             ELSE -1

\* The next best level of a side once level i is gone.
NextBest(side, set, i) ==
    IF side = "Sell" THEN FindNext(set, i + 1) ELSE FindPrev(set, i - 1)

Find(id) == IF id \in DOMAIN b.ids THEN b.ids[id] ELSE Nil

EraseId(x, id) == [x EXCEPT !.ids = [i \in DOMAIN @ \ {id} |-> @[i]]]

InsertId(x, id, s) ==
    [x EXCEPT !.ids = [i \in DOMAIN @ \cup {id} |-> IF i = id THEN s ELSE @[i]]]

\* alloc takes the slot at the head of the free list.
Alloc(x) == [x EXCEPT !.free = x.store[x.free].next, !.live = @ + 1]

\* A release that does not return the slot to the free list.
ReleaseLeaks(x, s) == [x EXCEPT !.live = @ - 1]

\* release leaves the other fields as they are, and init overwrites them before
\* they are read again; here they are zeroed, so that a read of a free slot
\* would find an order that cannot exist.
Release(x, s) == [x EXCEPT !.store[s] = FreeSlot(x.free), !.free = s, !.live = @ - 1]

-----------------------------------------------------------------------------
(* Changes to the ladder. *)

\* A level that goes without its side's best moving on.
RetireLevelStaleBest(x, side, i) == [x EXCEPT !.bits[side] = @ \ {i}]

\* Level i of this side has just become empty.
RetireLevel(x, side, i) ==
    LET set == x.bits[side] \ {i}
    IN  [x EXCEPT !.bits[side] = set,
                  !.best[side] = IF i = @ THEN NextBest(side, set, i) ELSE @]

\* unlink: take slot s out of its level's list.
Unlink(x, s) ==
    LET o == x.store[s]
        lv == x.level[o.level]
        head == IF s = lv.head THEN o.next ELSE lv.head
        tail == IF s # lv.tail THEN lv.tail ELSE IF head = Nil THEN Nil ELSE o.prev
        store1 == IF s = lv.head THEN x.store ELSE [x.store EXCEPT ![o.prev].next = o.next]
        store2 == IF s = lv.tail THEN store1 ELSE [store1 EXCEPT ![o.next].prev = o.prev]
        y == [x EXCEPT !.store = store2,
                       !.level[o.level] = [qty |-> lv.qty - o.qty, head |-> head, tail |-> tail]]
    IN  IF head = Nil THEN RetireLevel(y, o.side, o.level) ELSE y

\* rest: append the order of slot s, just allocated, to its level.
Better(side, i, best) == IF side = "Buy" THEN i > best ELSE i < best

Link(x, s, id, owner, side, i, qty) ==
    LET lv == x.level[i]
        fresh == [id |-> id, qty |-> qty, prev |-> lv.tail, level |-> i, owner |-> owner,
                  side |-> side, next |-> Nil]
        y == [x EXCEPT !.store[s] = fresh,
                       !.level[i] = [qty |-> lv.qty + qty, tail |-> s,
                                     head |-> IF lv.tail = Nil THEN s ELSE lv.head]]
    IN  IF lv.tail = Nil
        THEN [y EXCEPT !.bits[side] = @ \cup {i},
                       !.best[side] = IF Better(side, i, @) THEN i ELSE @]
        ELSE [y EXCEPT !.store[lv.tail].next = s]

-----------------------------------------------------------------------------
(* Queries. *)

Rel(price) == price - MinPrice
Px(i) == MinPrice + i

CrossesStrict(side, limit) ==
    IF side = "Buy" THEN b.best["Sell"] < limit ELSE b.best["Buy"] >= limit

Crosses(side, limit) ==
    IF side = "Buy" THEN b.best["Sell"] =< limit ELSE b.best["Buy"] >= limit

\* The slots of a list, following next from slot s; at most Capacity of them.
Chain(x, s) ==
    LET next(t) == IF t = Nil THEN Nil ELSE x.store[t].next
        At[k \in 0 .. Capacity] == IF k = 0 THEN s ELSE next(At[k - 1])
        len == Cardinality({k \in 0 .. Capacity - 1 : At[k] # Nil})
    IN  [k \in 1 .. len |-> At[k - 1]]

\* The sum of the sizes in a list.
Total(x, chain) ==
    LET Sum[k \in 0 .. Len(chain)] ==
          IF k = 0 THEN 0 ELSE Sum[k - 1] + x.store[chain[k]].qty
    IN  Sum[Len(chain)]

\* Does fillable visit level i?  It visits the best level and then, hopping
\* from one set bit to the next, every other up to the limit.
Visited(side, limit, i) ==
    LET first == b.best[Opposite(side)]
    IN  /\ i = first \/ i \in b.bits[Opposite(side)]
        /\ IF side = "Buy" THEN first =< i /\ i =< limit ELSE limit =< i /\ i =< first

Open(need) == [need |-> need, answer |-> "open"]

\* A level, or one order, offers qty to a scan that still needs some.
Offer(scan, qty) ==
    IF qty >= scan.need THEN [scan EXCEPT !.answer = "yes"] ELSE [scan EXCEPT !.need = @ - qty]

DecrementKeepsGoing(scan, qty) ==
    IF qty > scan.need THEN [scan EXCEPT !.answer = "no"] ELSE [scan EXCEPT !.need = @ - qty]

\* Under DecrementCancel an own order takes its size away, or ends the scan.
Decrement(scan, qty) ==
    IF qty >= scan.need THEN [scan EXCEPT !.answer = "no"] ELSE [scan EXCEPT !.need = @ - qty]

ScanOrder(scan, o, owner, stp) ==
    IF scan.answer # "open" THEN scan
    ELSE IF o.owner # owner THEN Offer(scan, o.qty)
    ELSE CASE stp = "CancelIncoming" -> [scan EXCEPT !.answer = "no"]
           [] stp = "DecrementCancel" -> Decrement(scan, o.qty)
           [] stp = "CancelResting" -> scan

\* With prevention off the aggregates answer; otherwise order by order.
ScanLevel(scan, i, owner, stp) ==
    IF scan.answer # "open" THEN scan
    ELSE IF stp = "None" THEN Offer(scan, b.level[i].qty)
    ELSE LET chain == Chain(b, b.level[i].head)
             Scan[k \in 0 .. Len(chain)] ==
               IF k = 0 THEN scan ELSE ScanOrder(Scan[k - 1], b.store[chain[k]], owner, stp)
         IN  Scan[Len(chain)]

Fillable(side, limit, qty, owner, stp) ==
    LET at(k) == IF side = "Buy" THEN k - 1 ELSE Top + 1 - k
        Walk[k \in 0 .. Top + 1] ==
          IF k = 0 THEN Open(qty)
          ELSE IF Visited(side, limit, at(k)) THEN ScanLevel(Walk[k - 1], at(k), owner, stp)
          ELSE Walk[k - 1]
    IN  Walk[Top + 1].answer = "yes"

-----------------------------------------------------------------------------
(* The handlers. *)

Reject(c, reason) ==
    /\ events' = <<Rejected(c, reason)>>
    /\ UNCHANGED <<b, cursor, taker, pc>>

InBand(price) == Rel(price) >= 0 /\ Rel(price) =< Top

\* The level of the limit: the end of the ladder for a market order.
LimitIx(c) == IF Market(c) THEN (IF c.side = "Buy" THEN Top ELSE 0) ELSE Rel(c.price)

AddReason(c) ==
    IF c.id = NoId THEN "InvalidOrderId"
    ELSE IF c.qty = 0 THEN "InvalidQty"
    ELSE IF ~Market(c) /\ ~InBand(c.price) THEN "InvalidPrice"
    ELSE IF Find(c.id) # Nil THEN "DuplicateOrderId"
    ELSE IF c.postOnly /\ Crosses(c.side, LimitIx(c)) THEN "WouldCross"
    ELSE "None"

\* The order is accepted: a fill-or-kill order that cannot be filled is
\* cancelled on the spot, any other starts to match.
Accept(c) ==
    LET px == IF Market(c) THEN 0 ELSE c.price
        stp == EffectiveStp(c.stp)
        accepted == Accepted(c.id, c.side, px, c.qty)
        killed == c.tif = "Fok" /\ ~Fillable(c.side, LimitIx(c), c.qty, c.owner, stp)
    IN  \/ /\ events' = <<accepted, Canceled(c.id, c.side, px, c.qty, "FokUnfilled")>>
           /\ killed
           /\ UNCHANGED <<b, cursor, taker, pc>>
        \/ /\ events' = <<accepted>>
           /\ ~killed
           /\ taker' = [id |-> c.id, owner |-> c.owner, side |-> c.side,
                        limit |-> Px(LimitIx(c)), qty |-> c.qty, stp |-> stp,
                        stop |-> FALSE, px |-> px, tif |-> c.tif,
                        rests |-> ~Market(c) /\ c.tif = "Day"]
           /\ pc' = "sweep"
           /\ UNCHANGED <<b, cursor>>

Add(c) ==
    LET reason == AddReason(c)
    IN  /\ pc = "idle"
        /\ \/ reason # "None" /\ Reject(c, reason)
           \/ reason = "None" /\ Accept(c)

\* Take the order with this id and slot out of every structure.
Withdraw(id, s) == b' = Release(Unlink(EraseId(b, id), s), s)

Cancel(c) ==
    LET s == Find(c.id)
        o == b.store[s]
    IN  /\ pc = "idle"
        /\ \/ s = Nil /\ Reject(c, "UnknownOrder")
           \/ /\ s # Nil
              /\ Withdraw(c.id, s)
              /\ events' = <<Canceled(c.id, o.side, Px(o.level), o.qty, "UserCanceled")>>
              /\ UNCHANGED <<cursor, taker, pc>>

ModifyReason(c) ==
    IF c.qty = 0 THEN "InvalidQty"
    ELSE IF Find(c.id) = Nil THEN "UnknownOrder"
    ELSE IF ~InBand(c.price) THEN "InvalidPrice"
    ELSE "None"

Modify(c) ==
    LET s == Find(c.id)
        o == b.store[s]
        inPlace == Rel(c.price) = o.level /\ c.qty =< o.qty
    IN  /\ pc = "idle"
        /\ \/ ModifyReason(c) # "None" /\ Reject(c, ModifyReason(c))
           \/ /\ ModifyReason(c) = "None"
              /\ events' = <<Modified(c.id, o.side, c.price, c.qty)>>
              /\ UNCHANGED cursor
              /\ \/ /\ inPlace
                    /\ b' = [b EXCEPT !.level[o.level].qty = @ - (o.qty - c.qty),
                                      !.store[s].qty = c.qty]
                    /\ UNCHANGED <<taker, pc>>
                 \/ /\ ~inPlace
                    /\ Withdraw(c.id, s)
                    /\ taker' = [id |-> c.id, owner |-> o.owner, side |-> o.side,
                                 limit |-> c.price, qty |-> c.qty, stp |-> BookStp,
                                 stop |-> FALSE, px |-> c.price, tif |-> "Day", rests |-> TRUE]
                    /\ pc' = "sweep"

-----------------------------------------------------------------------------
(* sweep: one iteration of the inner loop. *)

MakerSide == Opposite(taker.side)
BestIx == b.best[MakerSide]

\* s: where the last iteration left it, or the head of the level just entered.
MakerSlot == IF cursor # Nil THEN cursor ELSE b.level[BestIx].head
Maker == b.store[MakerSlot]

Matching ==
    /\ pc = "sweep"
    /\ \/ cursor # Nil
       \/ taker.qty # 0 /\ ~taker.stop /\ Crosses(taker.side, Rel(taker.limit))

OwnMaker == taker.stp # "None" /\ Maker.owner = taker.owner

\* The iteration ends with the book x and the cursor at s.  If the inner loop
\* goes on, only the cursor moves; when it breaks or runs off the list, the
\* level's head is stored, and an empty level is retired.
Leave(x, s) ==
    LET y == [x EXCEPT !.level[BestIx].head = s]
    IN  IF s # Nil THEN y
        ELSE RetireLevel([y EXCEPT !.level[BestIx].tail = Nil], MakerSide, BestIx)

EndIteration(x, s, breaks) ==
    IF breaks \/ s = Nil THEN b' = Leave(x, s) /\ cursor' = Nil
                         ELSE b' = x /\ cursor' = s

\* lv.qty -= n.
Deduct(x, n) == [x EXCEPT !.level[BestIx].qty = @ - n]

SetMakerQty(x, n) == [x EXCEPT !.store[MakerSlot].qty = n]

\* ids_.erase_known and store_.release of the maker.  Its next link is read
\* before: release overwrites it with the free list.
DropMaker(x) == Release(EraseId(x, Maker.id), MakerSlot)

MatchStop ==
    /\ Matching
    /\ OwnMaker
    /\ taker.stp = "CancelIncoming"
    /\ EndIteration(b, MakerSlot, TRUE)
    /\ taker' = [taker EXCEPT !.stop = TRUE]
    /\ events' = <<>>
    /\ UNCHANGED pc

MatchDecrementMaker ==
    /\ Matching
    /\ OwnMaker
    /\ taker.stp = "DecrementCancel"
    /\ Maker.qty > taker.qty
    /\ EndIteration(SetMakerQty(Deduct(b, taker.qty), Maker.qty - taker.qty), MakerSlot, TRUE)
    /\ taker' = [taker EXCEPT !.stop = TRUE]
    /\ events' = <<StpDecrement(Maker.id, MakerSide, Px(BestIx), Maker.qty - taker.qty)>>
    /\ UNCHANGED pc

MatchCancelMaker ==
    LET gone == Canceled(Maker.id, MakerSide, Px(BestIx), Maker.qty, "SelfTrade")
        left == taker.qty - Maker.qty
        both == taker.stp = "DecrementCancel" /\ left = 0
    IN  /\ Matching
        /\ OwnMaker
        /\ taker.stp # "CancelIncoming"
        /\ ~(taker.stp = "DecrementCancel" /\ Maker.qty > taker.qty)
        /\ EndIteration(DropMaker(Deduct(b, Maker.qty)), Maker.next, both)
        /\ \/ /\ taker.stp = "CancelResting"
              /\ events' = <<gone>>
              /\ UNCHANGED taker
           \/ /\ both
              /\ events' = <<gone>>
              /\ taker' = [taker EXCEPT !.stop = TRUE]
           \/ /\ taker.stp = "DecrementCancel" /\ left # 0
              /\ events' = <<gone, StpDecrement(taker.id, taker.side, taker.limit, left)>>
              /\ taker' = [taker EXCEPT !.qty = left]
        /\ UNCHANGED pc

MatchTrade ==
    LET fill == IF Maker.qty < taker.qty THEN Maker.qty ELSE taker.qty
        left == Maker.qty - fill
    IN  /\ Matching
        /\ ~OwnMaker
        /\ taker' = [taker EXCEPT !.qty = @ - fill]
        /\ events' = <<Trade(taker.id, Maker.id, taker.side, Px(BestIx), fill, left)>>
        /\ IF left # 0
           THEN EndIteration(SetMakerQty(Deduct(b, fill), left), MakerSlot, TRUE)
           ELSE EndIteration(DropMaker(Deduct(b, fill)), Maker.next, taker.qty = fill)
        /\ UNCHANGED pc

-----------------------------------------------------------------------------
(* The end of add_side and reenter, once the sweep has returned. *)

Finish(evs) ==
    /\ pc = "sweep"
    /\ ~Matching
    /\ taker' = NoTaker
    /\ pc' = "idle"
    /\ events' = evs
    /\ UNCHANGED cursor

Drop(reason) ==
    /\ Finish(<<Canceled(taker.id, taker.side, taker.px, taker.qty, reason)>>)
    /\ UNCHANGED b

FinishFilled == taker.qty = 0 /\ Finish(<<>>) /\ UNCHANGED b

FinishStopped == taker.qty # 0 /\ taker.stop /\ Drop("SelfTrade")

FinishExpired == taker.qty # 0 /\ ~taker.stop /\ ~taker.rests /\ Drop("IocExpired")

Remainder == taker.qty # 0 /\ ~taker.stop /\ taker.rests

FinishFull == Remainder /\ b.free = Nil /\ Drop("BookFull")

FinishRest ==
    LET s == b.free
        i == Rel(taker.limit)
    IN  /\ Remainder
        /\ s # Nil
        /\ Finish(<<>>)
        /\ b' = InsertId(Link(Alloc(b), s, taker.id, taker.owner, taker.side, i, taker.qty),
                         taker.id, s)

Match == MatchStop \/ MatchDecrementMaker \/ MatchCancelMaker \/ MatchTrade

FinishMatch ==
    FinishFilled \/ FinishStopped \/ FinishExpired \/ FinishFull \/ FinishRest

Next ==
    \/ Match
    \/ FinishMatch
    \/ \E c \in CancelCommand : Cancel(c)
    \/ \E c \in ModifyCommand : Modify(c)
    \/ \E c \in AddCommand : Add(c)

Spec == Init /\ [][Next]_vars

-----------------------------------------------------------------------------
(* The queues the structures stand for, and the properties. *)

\* Where the list of level i starts: while a level is being swept its head
\* field is stale and the cursor is the true head.
TrueHead(i) == IF cursor # Nil /\ i = BestIx THEN cursor ELSE b.level[i].head

QueueOf(side, i) ==
    LET chain == Chain(b, TrueHead(i))
    IN  IF i \notin b.bits[side] THEN <<>>
        ELSE [k \in DOMAIN chain |->
                [id |-> b.store[chain[k]].id, qty |-> b.store[chain[k]].qty,
                 owner |-> b.store[chain[k]].owner]]

\* The queues and the index of the reference book.
refBook == [side \in Sides |-> [p \in Prices |-> QueueOf(side, Rel(p))]]
refIndex ==
    [id \in DOMAIN b.ids |-> [side |-> b.store[b.ids[id]].side,
                              price |-> Px(b.store[b.ids[id]].level)]]

Ref == INSTANCE ReferenceBook WITH book <- refBook, index <- refIndex

\* order_book.hpp implements reference_book.hpp: from the same commands, the
\* same events in the same order, and the same resting orders in the same
\* queue positions after every step (reference_book.hpp:9).
RefinesReference == Ref!Spec

\* check_invariants, the structural audit: cached bests, bits, heads, tails,
\* back links, aggregates, index entries and counts all agree between two
\* commands.
CheckInvariants ==
    pc = "idle" =>
        /\ b.best["Buy"] = FindPrev(b.bits["Buy"], Top)
        /\ b.best["Sell"] = FindNext(b.bits["Sell"], 0)
        /\ b.best["Buy"] >= 0 /\ b.best["Sell"] =< Top => b.best["Buy"] < b.best["Sell"]
        /\ b.bits["Buy"] \cap b.bits["Sell"] = {}
        /\ \A i \in Ix \ (b.bits["Buy"] \cup b.bits["Sell"]) : b.level[i] = EmptyLevel
        /\ \A side \in Sides : \A i \in b.bits[side] :
             LET lv == b.level[i]
                 chain == Chain(b, lv.head)
             IN  /\ chain # <<>>
                 /\ chain[Len(chain)] = lv.tail
                 /\ Total(b, chain) = lv.qty
                 /\ \A k \in DOMAIN chain :
                      LET o == b.store[chain[k]]
                      IN  /\ o.side = side /\ o.level = i /\ o.qty # 0
                          /\ k > 1 => o.prev = chain[k - 1]
                          /\ Find(o.id) = chain[k]
        /\ Cardinality(DOMAIN b.ids) = b.live

\* No slot is leaked or handed out twice: at every point the free list and the
\* indexed orders share the slots out between them, also while a level is
\* being swept and released slots are still reachable from its stale head.
SlotsAccountedFor ==
    LET freeChain == Chain(b, b.free)
        free == {freeChain[k] : k \in DOMAIN freeChain}
        used == {b.ids[id] : id \in DOMAIN b.ids}
    IN  /\ Cardinality(free) = Len(freeChain)
        /\ Cardinality(used) = Cardinality(DOMAIN b.ids)
        /\ free \cap used = {}
        /\ free \cup used = Slots
        /\ b.live = Cardinality(used)
        /\ \A id \in DOMAIN b.ids : b.store[b.ids[id]].id = id
=============================================================================
