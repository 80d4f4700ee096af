----------------------------- MODULE SpscQueue -----------------------------
(***************************************************************************)
(* The bounded lock-free ring of include/exsim/spsc_queue.hpp, between one *)
(* producer and one consumer thread.                                       *)
(*                                                                         *)
(* The threads share tail_, head_ and the slots.  The indices are free     *)
(* running and wrap at the width of size_t.  An acquire load may return    *)
(* any value between the one the thread saw last and the newest; it makes  *)
(* the slots published up to that value visible.  Writing a slot takes     *)
(* time, during which the slot holds Torn.                                 *)
(***************************************************************************)
EXTENDS Integers, Sequences, FiniteSetsExt

CONSTANTS
    Values,       \* the elements
    Requested,    \* the capacity asked for
    Bits,         \* the width of the indices
    Torn          \* the content of a slot that is being written, or never was

VARIABLE q

\* The powers of two, 2 ^ k.
Pow2[k \in 0 .. Bits] == IF k = 0 THEN 1 ELSE 2 * Pow2[k - 1]

Width == Pow2[Bits]

\* cap_: the request rounded up to a power of two, at least 2.
Cap == Min({Pow2[k] : k \in {j \in 1 .. Bits : Pow2[j] >= Requested}})

Diff(a, b) == (a - b) % Width
Inc(a) == (a + 1) % Width
Slot(i) == i % Cap

\* The values an acquire load can return, when the last one seen was old.
Visible(old, new) == {(old + i) % Width : i \in 0 .. Diff(new, old)}

Init ==
    q = [buf |-> [i \in 0 .. Cap - 1 |-> Torn],
         tail |-> 0, headCache |-> 0, prod |-> "idle",
         head |-> 0, tailCache |-> 0, cons |-> "idle"]

-----------------------------------------------------------------------------
(* try_push. *)

LooksFullLate == Diff(q.tail, q.headCache) = Cap + 1
LooksFull == Diff(q.tail, q.headCache) = Cap

\* The ring looks full: load head_.  If it still looks full, try_push fails.
PushRefresh ==
    /\ q.prod = "idle"
    /\ LooksFull
    /\ \E h \in Visible(q.headCache, q.head) : q' = [q EXCEPT !.headCache = h]

PushBegin ==
    /\ q.prod = "idle"
    /\ ~LooksFull
    /\ q' = [q EXCEPT !.prod = "writing", !.buf[Slot(q.tail)] = Torn]

PushEnd(v) ==
    /\ q.prod = "writing"
    /\ q' = [q EXCEPT !.prod = "idle", !.buf[Slot(q.tail)] = v, !.tail = Inc(@)]

-----------------------------------------------------------------------------
(* front, and pop once the element was read in place. *)

LooksEmpty == q.head = q.tailCache

FrontRefresh(tails) ==
    /\ q.cons = "idle"
    /\ LooksEmpty
    /\ \E t \in tails : q' = [q EXCEPT !.tailCache = t]

Front ==
    /\ q.cons = "idle"
    /\ ~LooksEmpty
    /\ q' = [q EXCEPT !.cons = "reading"]

Element == q.buf[Slot(q.head)]

Pop ==
    /\ q.cons = "reading"
    /\ q' = [q EXCEPT !.cons = "idle", !.head = Inc(@)]

\* Prefetching one slot further than what is known to be published.
PrefetchedTooFar ==
    {Slot(q.head + a) : a \in {x \in 1 .. Cap : Diff(q.tailCache, q.head) >= x}}

\* The slots prefetch(ahead) may touch, for any value of ahead.
Prefetched == {Slot(q.head + a) : a \in {x \in 1 .. Cap : Diff(q.tailCache, q.head) > x}}

-----------------------------------------------------------------------------

Next ==
    \/ PushRefresh
    \/ PushBegin
    \/ \E v \in Values : PushEnd(v)
    \/ FrontRefresh(Visible(q.tailCache, q.tail))
    \/ Front
    \/ Pop

Spec == Init /\ [][Next]_q

-----------------------------------------------------------------------------
(* Properties. *)

\* Types of the ring's state (spsc_queue.hpp:90-96).
TypeOK ==
    /\ q.buf \in [0 .. Cap - 1 -> Values \cup {Torn}]
    /\ {q.tail, q.headCache, q.head, q.tailCache} \subseteq 0 .. Width - 1
    /\ q.prod \in {"idle", "writing"}
    /\ q.cons \in {"idle", "reading"}

\* spsc_queue.hpp:48 and 61, the element behind front() stays valid until pop()
\* and "slots not yet published are never touched": the producer is never
\* writing a slot that the consumer reads or prefetches.
NoTornRead ==
    /\ q.cons = "reading" => Element # Torn
    /\ \A s \in Prefetched : q.buf[s] # Torn

\* The elements inside, oldest first.
Contents == [i \in 1 .. Diff(q.tail, q.head) |-> q.buf[Slot(q.head + i - 1)]]

Fifo == INSTANCE BoundedFifo WITH fifo <- Contents, Size <- Cap

\* With stale indices, cached indices and indices that wrap, the ring is still
\* a bounded FIFO queue: full and empty are never mistaken for each other.
IsFifo == Fifo!Spec
=============================================================================
