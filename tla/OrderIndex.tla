----------------------------- MODULE OrderIndex -----------------------------
(***************************************************************************)
(* The hash table of include/exsim/order_index.hpp, from an order id to    *)
(* the store slot of the order: linear probing in Robin Hood order with    *)
(* backward-shift deletion, and no key in the table.  A match of the       *)
(* fingerprints is confirmed against the record in the store.              *)
(*                                                                         *)
(* The fingerprint of an empty slot is never read, so an empty slot is     *)
(* always Empty here.                                                      *)
(***************************************************************************)
EXTENDS Integers, FiniteSetsExt

CONSTANTS
    Keys,          \* bound: the order ids
    Slots,         \* the store slots, max_entries of them
    MinTable,      \* the smallest table (16 in the code)
    TableBits,     \* the base-2 logarithm of the table's size
    FpBits,        \* the width of a fingerprint (32 in the code)
    Nil,           \* kNil
    Fingerprint(_) \* Hash::fingerprint, a parameter of the class

VARIABLES
    table,         \* slots_
    store          \* the id in each store slot, Nil in a free one

indexVars == <<table, store>>

\* mask_ + 1, a power of two that is at least twice max_entries.
TableSize == 2 ^ TableBits

ASSUME IndexAssumption ==
    /\ Keys \subseteq Nat /\ Slots \subseteq Nat /\ IsFiniteSet(Slots) /\ Nil \notin Keys \cup Slots
    /\ TableSize \in Nat \ {0}
    /\ TableSize >= 2 * Cardinality(Slots) /\ TableSize >= MinTable
    /\ TableSize \div 2 < 2 * Cardinality(Slots) \/ TableSize = MinTable
    /\ FpBits >= TableBits /\ \A k \in Keys : Fingerprint(k) \in Nat /\ Fingerprint(k) < 2 ^ FpBits

Empty == [fp |-> 0, value |-> Nil]

Home(fp) == fp % TableSize

\* The table slot d steps after the one that fp picks.
Probe(fp, d) == (fp + d) % TableSize

\* Probe distance of the entry at table slot i from its home slot.
Dist(i, fp) == (i - fp) % TableSize

-----------------------------------------------------------------------------
(* find and erase. *)

\* Had the key been further on, it would sit before this entry.
NotBeyond(fp, d) ==
    LET i == Probe(fp, d)
    IN  table[i].value = Nil \/ Dist(i, table[i].fp) < d

Matches(key, d) ==
    LET e == table[Probe(Fingerprint(key), d)]
    IN  /\ e.value # Nil
        /\ e.fp = Fingerprint(key)
        /\ store[e.value] = key

\* Where the probe for key ends.
Stop(key) ==
    Min({d \in 0 .. TableSize - 1 : NotBeyond(Fingerprint(key), d) \/ Matches(key, d)})

Find(key) ==
    LET d == Stop(key)
    IN  IF NotBeyond(Fingerprint(key), d) THEN Nil
        ELSE table[Probe(Fingerprint(key), d)].value

-----------------------------------------------------------------------------
(* insert: the entry further from its home keeps the slot, and the displaced *)
(* one probes on.                                                            *)

\* One turn of the loop, of the entry cur at table slot i, d from its home.
Settle1(p) ==
    LET e == p.table[p.i]
        sd == Dist(p.i, e.fp)
        on == [p EXCEPT !.i = (@ + 1) % TableSize]
    IN  CASE p.cur = Empty -> p
          [] p.cur # Empty /\ e.value = Nil ->
                [p EXCEPT !.table[p.i] = p.cur, !.cur = Empty]
          [] p.cur # Empty /\ e.value # Nil /\ sd < p.d ->
                [on EXCEPT !.table[p.i] = p.cur, !.cur = e, !.d = sd + 1]
          [] OTHER -> [on EXCEPT !.d = @ + 1]

Inserted(key, value) ==
    LET fp == Fingerprint(key)
        turn[n \in 0 .. TableSize] ==
            IF n = 0
            THEN [table |-> table, i |-> Home(fp), d |-> 0, cur |-> [fp |-> fp, value |-> value]]
            ELSE Settle1(turn[n - 1])
    IN  turn[TableSize].table

-----------------------------------------------------------------------------
(* remove_at: shift back what follows, up to the first entry in its home. *)

\* A tombstone-free deletion that forgets to shift.
RemovedShort(hole) == [table EXCEPT ![hole] = Empty]

Removed(hole) ==
    LET after(r) == (hole + r + 1) % TableSize
        ends(r) == \/ table[after(r)].value = Nil
                   \/ Dist(after(r), table[after(r)].fp) = 0
        run == Min({r \in 0 .. TableSize - 1 : ends(r)})
    IN  [i \in DOMAIN table |->
            LET r == (i - hole) % TableSize
            IN  IF r < run THEN table[after(r)]
                ELSE IF r = run THEN Empty ELSE table[i]]

-----------------------------------------------------------------------------
(* The operations, as the order book uses them. *)

Insert(key, value) ==
    /\ Find(key) = Nil
    /\ store[value] = Nil
    /\ table' = Inserted(key, value)
    /\ store' = [store EXCEPT ![value] = key]

\* An order is cancelled by its id.
Erase(key) ==
    /\ Find(key) # Nil
    /\ table' = Removed(Probe(Fingerprint(key), Stop(key)))
    /\ store' = [store EXCEPT ![Find(key)] = Nil]

\* A maker filled in a sweep: its store slot is known, and the probe looks for it.
EraseKnown(value) ==
    /\ store[value] # Nil
    /\ LET fp == Fingerprint(store[value])
           d == Min({x \in 0 .. TableSize - 1 : table[Probe(fp, x)].value = value})
       IN  table' = Removed(Probe(fp, d))
    /\ store' = [store EXCEPT ![value] = Nil]

IndexInit ==
    /\ table = [i \in 0 .. TableSize - 1 |-> Empty]
    /\ store = [v \in Slots |-> Nil]

IndexNext ==
    \/ \E key \in Keys, value \in Slots : Insert(key, value)
    \/ \E key \in Keys : Erase(key)
    \/ \E value \in Slots : EraseKnown(value)

IndexSpec == IndexInit /\ [][IndexNext]_indexVars

-----------------------------------------------------------------------------
(* Properties. *)

\* robin_hood_ordered (order_index.hpp:125): the distance from home grows by at
\* most one per slot of a run.  Insertion, deletion and lookup rely on it.
RobinHoodOrdered ==
    \A i \in 0 .. TableSize - 1 :
        LET p == (i - 1) % TableSize
            d == Dist(i, table[i].fp)
        IN  table[i].value # Nil /\ d > 0
               => table[p].value # Nil /\ d =< Dist(p, table[p].fp) + 1

\* order_index.hpp:152: whatever was inserted and deleted before, and with runs
\* that wrap around the table and equal fingerprints of different ids, a lookup
\* finds the store slot of an id that is there and none for one that is not;
\* and the table is in the order that insertion and deletion rely on.
LookupsAgree ==
    /\ RobinHoodOrdered
    /\ \A key \in Keys :
         Find(key) = IF \E v \in Slots : store[v] = key
                     THEN CHOOSE v \in Slots : store[v] = key ELSE Nil
=============================================================================
