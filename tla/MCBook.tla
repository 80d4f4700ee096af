------------------------------ MODULE MCBook ------------------------------
(* BookEvents, and through it ReferenceBook, for TLC. *)
EXTENDS BookEvents, TLC

\* Every order may carry any time in force and any override of the book's
\* self-trade mode; post-only is combined with the plain ones.
AllVarieties ==
    [tif : {"Day", "Ioc", "Fok"}, postOnly : {FALSE}, stp : {"None", "CancelResting", "CancelIncoming"}]
      \cup [tif : {"Day", "Fok"}, postOnly : {TRUE}, stp : {"None"}]

Interchangeable == Permutations(OrderIds) \cup Permutations(Owners)

-----------------------------------------------------------------------------

P == INSTANCE PureMatch

\* What the sweep under way will leave behind, by the functional rules.
Outcome(t, bk) ==
    P!Settle(t, P!SweepFrom(t, [book |-> bk, qty |-> t.qty, stop |-> t.stop, log |-> <<>>]),
             t.rests)

\* reference_book.hpp:186: the iterations of the match loop and the rest or
\* cancel that ends them add up to what the functional rules say of the command
\* as a whole.  The replay tools are modelled with those rules.
SweepAddsUp ==
    [][pc = "sweep" =>
         LET will == Outcome(taker, book)
             then == Outcome(taker', book')
         IN  IF pc' = "sweep" THEN <<then.book, then.qty, then.fate>> = <<will.book, will.qty, will.fate>>
             ELSE book' = will.book]_<<book, taker, pc>>
=============================================================================
