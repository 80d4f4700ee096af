---------------------------- MODULE BoundedFifo ----------------------------
(***************************************************************************)
(* What a bounded queue between two threads promises: elements come out in *)
(* the order they went in, none lost, none twice, never more than Size of  *)
(* them inside.  The ring of module SpscQueue implements it.               *)
(***************************************************************************)
EXTENDS Naturals, Sequences

CONSTANTS
    Values,    \* the elements
    Size       \* the most elements inside

VARIABLE fifo

Put(v) == Len(fifo) < Size /\ fifo' = Append(fifo, v)

Take == fifo # <<>> /\ fifo' = Tail(fifo)

Init == fifo = <<>>

Next == Take \/ \E v \in Values : Put(v)

Spec == Init /\ [][Next]_fifo
=============================================================================
