---------------------------- MODULE MCOrderBook ----------------------------
(* OrderBook for TLC. *)
EXTENDS OrderBook, TLC

\* Resting and fill-or-kill orders, no self-trade prevention.
PlainVarieties == [tif : {"Day", "Fok"}, postOnly : {FALSE}, stp : {"None"}]

\* Orders that carry an override of the book's self-trade mode.
StpVarieties ==
    [tif : {"Day"}, postOnly : {FALSE}, stp : {"None", "CancelResting", "CancelIncoming"}]
      \cup [tif : {"Fok"}, postOnly : {FALSE}, stp : {"None"}]

Interchangeable == Permutations(OrderIds) \cup Permutations(Owners)
=============================================================================
