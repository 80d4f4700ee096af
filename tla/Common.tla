------------------------------ MODULE Common ------------------------------
(***************************************************************************)
(* The vocabulary of include/exsim/common.hpp that the books share: sides, *)
(* self-trade prevention modes, commands, events and the configuration of  *)
(* a book.  Symbols, timestamps, sequence numbers and the request type of  *)
(* a rejection play no part in matching and are left out.                  *)
(***************************************************************************)
EXTENDS Integers, Sequences, FiniteSets

CONSTANTS
    OrderIds,      \* the valid order ids
    NoId,          \* order id 0
    Owners,        \* owner ids
    MinPrice,      \* BookConfig::min_price
    MaxPrice,      \* min_price + num_levels - 1
    MaxQty,        \* bound on the quantities of commands
    Capacity,      \* BookConfig::max_orders
    BookStp,       \* BookConfig::stp, the self-trade prevention default
    Varieties      \* the time in force and flags that orders carry

Sides == {"Buy", "Sell"}
Prices == MinPrice .. MaxPrice
Stps == {"None", "CancelResting", "CancelIncoming", "DecrementCancel"}

ASSUME BookAssumption ==
    /\ NoId \notin OrderIds
    /\ MinPrice \in Int /\ MaxPrice \in Int /\ MinPrice =< MaxPrice
    /\ MaxQty \in Nat \ {0}
    /\ Capacity \in Nat \ {0}
    /\ BookStp \in Stps
    /\ Varieties \subseteq [tif : {"Day", "Ioc", "Fok"}, postOnly : BOOLEAN, stp : Stps]

-----------------------------------------------------------------------------
(* Orders and events. *)

Order == [id : OrderIds, qty : Nat \ {0}, owner : Owners]

Opposite(side) == IF side = "Buy" THEN "Sell" ELSE "Buy"

\* Command::flags: bit 0 is post-only, bits 1-2 override the book's mode
\* ("None" is 0, the absence of an override).
EffectiveStp(flag) == IF flag # "None" THEN flag ELSE BookStp

Market(c) == c.ordType = "Market"

Event(type, id, side, price, qty, reason) ==
    [type |-> type, id |-> id, maker |-> NoId, side |-> side,
     price |-> price, qty |-> qty, leaves |-> 0, reason |-> reason]

Accepted(id, side, px, qty) == Event("Accepted", id, side, px, qty, "None")
Rejected(c, reason) == Event("Rejected", c.id, c.side, 0, 0, reason)
Canceled(id, side, px, qty, reason) == Event("Canceled", id, side, px, qty, reason)
Modified(id, side, px, qty) == Event("Modified", id, side, px, qty, "None")
StpDecrement(id, side, px, qty) == Event("Modified", id, side, px, qty, "SelfTrade")
Trade(id, maker, side, px, qty, leaves) ==
    [type |-> "Trade", id |-> id, maker |-> maker, side |-> side,
     price |-> px, qty |-> qty, leaves |-> leaves, reason |-> "None"]

\* No order is being matched.
NoTaker == [id |-> NoId, owner |-> NoId, side |-> "Buy", limit |-> MinPrice, qty |-> 0,
            stp |-> "None", stop |-> FALSE, px |-> 0, tif |-> "Day", rests |-> FALSE]

-----------------------------------------------------------------------------
(* The commands a book can be given. *)

InputIds == OrderIds \cup {NoId}
InputPrices == (MinPrice - 1) .. (MaxPrice + 1)

NewOrder(id, owner, side, ordType, price, qty, v) ==
    [id |-> id, owner |-> owner, side |-> side, ordType |-> ordType, price |-> price,
     qty |-> qty, tif |-> v.tif, postOnly |-> v.postOnly, stp |-> v.stp]

\* New orders: well-formed limit and market orders (the price of a market
\* order is not read), and ill-formed ones, whose further fields no
\* validation reads.
LimitCommand ==
    {NewOrder(id, w, side, "Limit", p, n, v) :
       id \in OrderIds, w \in Owners, side \in Sides, p \in Prices, n \in 1 .. MaxQty,
       v \in Varieties}
MarketCommand ==
    {NewOrder(id, w, side, "Market", 0, n, v) :
       id \in OrderIds, w \in Owners, side \in Sides, n \in 1 .. MaxQty, v \in Varieties}
IllFormed(c) == c.id = NoId \/ c.qty = 0 \/ c.price \notin Prices
OddCommand ==
    {c \in {NewOrder(id, NoId, "Buy", "Limit", p, n,
                     [tif |-> "Day", postOnly |-> FALSE, stp |-> "None"]) :
              id \in InputIds, p \in InputPrices, n \in {0, 1}} : IllFormed(c)}
AddCommand == LimitCommand \cup MarketCommand \cup OddCommand

\* A cancel carries an id, a modify an id, a price and a quantity; their side
\* is the decoder's zero.
CancelCommand == [id : InputIds, side : {"Buy"}]
ModifyCommand == [id : InputIds, side : {"Buy"}, price : InputPrices, qty : 0 .. MaxQty]
=============================================================================
