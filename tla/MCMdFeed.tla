----------------------------- MODULE MCMdFeed -----------------------------
(* The market-data feed for TLC. *)
EXTENDS MdFeed

\* A bid and an ask.
TwoLevels == [side : {"Buy"}, price : {1}] \cup [side : {"Sell"}, price : {2}]
=============================================================================
