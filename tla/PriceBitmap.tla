---------------------------- MODULE PriceBitmap ----------------------------
(***************************************************************************)
(* The two-level bitset of include/exsim/price_bitmap.hpp: one bit per     *)
(* price level, and one summary bit per word that is not zero.  A word is  *)
(* the set of its one bits.                                                *)
(***************************************************************************)
EXTENDS Integers, FiniteSetsExt

CONSTANTS
    Levels,        \* n_, the number of price levels
    WordBits       \* the width of a word (64 in the code)

VARIABLES words, summary

bitmapVars == <<words, summary>>

ASSUME BitmapAssumption ==
    Levels \in Nat \ {0} /\ WordBits \in Nat \ {0} /\ Levels % WordBits = 0

Words == Levels \div WordBits
SummaryWords == (Words + WordBits - 1) \div WordBits

\* countr_zero and WordBits - 1 - countl_zero, which are defined for zero too.
Lowest(word) == Min(word \cup {WordBits})
Highest(word) == Max(word \cup {-1})

\* The bits of word from b upward, and up to b.
BitsFrom(word, b) == {x \in word : x >= b}
BitsUpTo(word, b) == {x \in word : x =< b}

-----------------------------------------------------------------------------

Test(i) == i % WordBits \in words[i \div WordBits]

Set(i) ==
    LET w == i \div WordBits
    IN  /\ words' = [words EXCEPT ![w] = @ \cup {i % WordBits}]
        /\ summary' = [summary EXCEPT ![w \div WordBits] = @ \cup {w % WordBits}]

\* The summary bit goes with the level's bit.
ClearSummaryToo(i) ==
    LET w == i \div WordBits
    IN  /\ words' = [words EXCEPT ![w] = @ \ {i % WordBits}]
        /\ summary' = [summary EXCEPT ![w \div WordBits] = @ \ {w % WordBits}]

Clear(i) ==
    LET w == i \div WordBits
        rest == words[w] \ {i % WordBits}
    IN  /\ words' = [words EXCEPT ![w] = rest]
        /\ summary' = IF rest = {}
                      THEN [summary EXCEPT ![w \div WordBits] = @ \ {w % WordBits}]
                      ELSE summary

\* Smallest set index from i0 on: the rest of its word, then the first word that
\* the summary knows of.
FindNext(i0) ==
    LET i == Max({i0, 0})
        w == i \div WordBits
        here == BitsFrom(words[w], i % WordBits)
        w1 == w + 1
        \* What the summary's word s says about words from w1 on.
        said(s) == IF s = w1 \div WordBits THEN BitsFrom(summary[s], w1 % WordBits) ELSE summary[s]
        some == {s \in w1 \div WordBits .. SummaryWords - 1 : said(s) # {}}
        next == Min(some) * WordBits + Lowest(said(Min(some)))
    IN  CASE i0 >= Levels -> Levels
          [] i0 < Levels /\ here # {} -> w * WordBits + Lowest(here)
          [] i0 < Levels /\ here = {} /\ (w1 >= Words \/ some = {}) -> Levels
          [] OTHER -> next * WordBits + Lowest(words[next])

\* Largest set index up to i0.
FindPrev(i0) ==
    LET i == Min({i0, Levels - 1})
        w == i \div WordBits
        here == BitsUpTo(words[w], i % WordBits)
        w1 == w - 1
        said(s) == IF s = w1 \div WordBits THEN BitsUpTo(summary[s], w1 % WordBits) ELSE summary[s]
        some == {s \in 0 .. w1 \div WordBits : said(s) # {}}
        prev == Max(some) * WordBits + Highest(said(Max(some)))
    IN  CASE i0 < 0 -> -1
          [] i0 >= 0 /\ here # {} -> w * WordBits + Highest(here)
          [] i0 >= 0 /\ here = {} /\ (w = 0 \/ some = {}) -> -1
          [] OTHER -> prev * WordBits + Highest(words[prev])

-----------------------------------------------------------------------------

BitmapInit ==
    /\ words = [w \in 0 .. Words - 1 |-> {}]
    /\ summary = [s \in 0 .. SummaryWords - 1 |-> {}]

\* The book sets the bit of a level that gets its first order and clears that
\* of one that lost its last.
BitmapNext ==
    \E i \in 0 .. Levels - 1 :
        \/ ~Test(i) /\ Set(i)
        \/ Test(i) /\ Clear(i)

BitmapSpec == BitmapInit /\ [][BitmapNext]_bitmapVars

-----------------------------------------------------------------------------
(* Properties. *)

\* price_bitmap.hpp:41 and 60, "smallest set index >= i" and "largest set index
\* <= i": from every index, those out of range included, the two levels of the
\* bitset lead to the nearest set level on that side, across word and summary
\* boundaries.
FindsTheNearest ==
    LET set == {i \in 0 .. Levels - 1 : Test(i)}
    IN  \A i \in -1 .. Levels + 1 :
            /\ FindNext(i) = Min({j \in set : j >= i} \cup {Levels})
            /\ FindPrev(i) = Max({j \in set : j =< i} \cup {-1})
=============================================================================
