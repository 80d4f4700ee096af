------------------------------ MODULE MdFeed ------------------------------
(***************************************************************************)
(* The level-2 market-data feed of include/exsim/mdfeed.hpp: the Publisher *)
(* that the gateway drives at the end of a batch (tools/gateway.hpp), and  *)
(* the Book of a subscriber, which follows incremental packets and         *)
(* recovers from a gap by the next snapshot.                               *)
(*                                                                         *)
(* The engine is abstracted to the total quantity of each level; matching  *)
(* is the business of ReferenceBook and OrderBook.  What matters here is   *)
(* which of the changed levels the gateway notes.  One symbol and one      *)
(* subscriber: symbols share a packet but no level, and subscribers share  *)
(* nothing.                                                                *)
(***************************************************************************)
EXTENDS Integers, FiniteSets, SequencesExt

CONSTANTS
    FeedLevels,    \* the levels of the book, [side, price] records
    MaxTotal,      \* bound: the total of a level
    PerPacket,     \* kPerPacket, entries to a datagram
    Every,         \* --md-snapshot-every, 0 for none
    KeepsOrder,    \* the network keeps order and loses increments only
    MaxBatch,      \* bound: entries staged in a batch
    MaxSeq         \* bound: incremental packets

ASSUME FeedAssumption ==
    /\ FeedLevels \subseteq [side : {"Buy", "Sell"}, price : Nat] /\ IsFiniteSet(FeedLevels)
    /\ MaxTotal \in Nat /\ PerPacket \in Nat \ {0} /\ Every \in Nat
    /\ KeepsOrder \in BOOLEAN /\ MaxBatch \in Nat /\ MaxSeq \in Nat

VARIABLES
    total,     \* level_qty of every level in the engine
    batch,     \* MdBatch: the levels noted and the number of trades
    feed,      \* the Publisher: seq_, since_snapshot_, and whether it has ended
    net,       \* every datagram sent, in order
    heard,     \* how far the subscriber has read, in an ordered network
    sub        \* the subscriber's Book

feedVars == <<total, batch, feed, net, heard, sub>>

Nothing == << >>                 \* a function with no element: no level, nothing pending
Without(f, keys) == [k \in DOMAIN f \ keys |-> f[k]]
With(f, k, v) == [x \in DOMAIN f \cup {k} |-> IF x = k THEN v ELSE f[x]]

NoBatch == [levels |-> {}, trades |-> 0]

FeedInit ==
    /\ total = [l \in FeedLevels |-> 0]
    /\ batch = NoBatch
    /\ feed = [seq |-> 0, since |-> 0, ended |-> FALSE]
    /\ net = <<>>
    /\ heard = 0
    /\ sub = [synced |-> FALSE, seq |-> 0, book |-> Nothing, pending |-> Nothing,
              snapId |-> -1, parts |-> Nothing, end |-> -1, ended |-> FALSE]

-----------------------------------------------------------------------------
(* Datagrams. *)

Level(l, qty) == [type |-> "Level", at |-> l, qty |-> qty]
Traded == [type |-> "Trade"]

Incremental(seq, entries) == [kind |-> "Incremental", seq |-> seq, entries |-> entries]
Snapshot(seq, part, parts, entries) ==
    [kind |-> "Snapshot", seq |-> seq, part |-> part, parts |-> parts, entries |-> entries]
Heartbeat(seq) == [kind |-> "Heartbeat", seq |-> seq]
End(seq) == [kind |-> "End", seq |-> seq]

\* The entries in datagrams of PerPacket each.
Pieces(entries) ==
    LET end(p) == IF p * PerPacket < Len(entries) THEN p * PerPacket ELSE Len(entries)
    IN  [p \in 1 .. (Len(entries) + PerPacket - 1) \div PerPacket |->
           SubSeq(entries, (p - 1) * PerPacket + 1, end(p))]

Increments(first, entries) ==
    LET pieces == Pieces(entries)
    IN  [p \in DOMAIN pieces |-> Incremental(first + p - 1, pieces[p])]

\* A set of levels in order, given those of it that come before each.
Sorted(before) ==
    [i \in 1 .. Cardinality(DOMAIN before) |->
        CHOOSE l \in DOMAIN before : Cardinality(before[l]) = i - 1]

\* The levels of the engine that hold something.
Shown == {l \in FeedLevels : total[l] # 0}
Engine == [l \in Shown |-> total[l]]

BestFirst(l, m) ==
    IF l.side # m.side THEN l.side = "Buy"
    ELSE IF l.side = "Buy" THEN l.price > m.price ELSE l.price < m.price

\* The levels of a book, best first on each side.
Listed(book) ==
    LET order == Sorted([l \in DOMAIN book |-> {m \in DOMAIN book : BestFirst(m, l)}])
    IN  [i \in DOMAIN order |-> Level(order[i], book[order[i]])]

\* snapshot: an empty book still takes one datagram.
PartsOf(book) == IF Listed(book) = <<>> THEN <<(<<>>)>> ELSE Pieces(Listed(book))
SnapshotParts(seq) ==
    LET pieces == PartsOf(Engine)
    IN  [p \in DOMAIN pieces |-> Snapshot(seq, p, Len(pieces), pieces[p])]

-----------------------------------------------------------------------------
(* The gateway's batch and the Publisher. *)

\* What note() takes from an event, or the gateway from the order that a
\* modify is about to move: a trade names the maker's level, a modify the
\* level it leaves; any other event its own price, where 0 is taken for a
\* market order.
Notes(l, how) == IF how = "report" /\ l.price = 0 THEN {} ELSE {l}

\* A command of the batch changes the total of a level, or names a level whose
\* total stays (an order that is cancelled on entry).
Change(l, n, how) ==
    /\ ~feed.ended
    /\ how = "trade" => n < total[l]
    /\ how = "leave" => n =< total[l] /\ total[l] # 0
    /\ total' = [total EXCEPT ![l] = n]
    /\ batch' = [levels |-> batch.levels \cup Notes(l, how),
                 trades |-> IF how = "trade" THEN batch.trades + 1 ELSE batch.trades]
    /\ Cardinality(batch'.levels) + batch'.trades =< MaxBatch
    /\ UNCHANGED <<feed, net, heard, sub>>

InSortOrder(l, m) == IF l.side # m.side THEN l.side = "Buy" ELSE l.price < m.price

Staged ==
    LET lv == Sorted([l \in batch.levels |-> {m \in batch.levels : InSortOrder(m, l)}])
    IN  [i \in 1 .. batch.trades |-> Traded] \o [i \in DOMAIN lv |-> Level(lv[i], total[lv[i]])]

\* The batch is committed: flush.
Commit ==
    LET packets == Increments(feed.seq + 1, Staged)
        last == feed.seq + Len(packets)
        due == Every # 0 /\ feed.since + Len(packets) >= Every
    IN  /\ ~feed.ended
        /\ Staged # <<>>
        /\ last =< MaxSeq
        /\ net' = net \o packets \o (IF due THEN SnapshotParts(last) ELSE <<>>)
        /\ feed' = [feed EXCEPT !.seq = last,
                                !.since = IF due THEN 0 ELSE @ + Len(packets)]
        /\ batch' = NoBatch
        /\ UNCHANGED <<total, heard, sub>>

\* Sent between two batches.  A second one in a row says nothing new.
HeartbeatIfIdle ==
    /\ ~feed.ended
    /\ batch = NoBatch
    /\ ~IsSuffix(<<Heartbeat(feed.seq)>>, net)
    /\ net' = Append(net, Heartbeat(feed.seq))
    /\ UNCHANGED <<total, batch, feed, heard, sub>>

\* end: the final snapshot and the end marker, which the code sends three times.
EndFeed ==
    /\ ~feed.ended
    /\ batch = NoBatch
    /\ net' = net \o SnapshotParts(feed.seq) \o <<End(feed.seq)>>
    /\ feed' = [feed EXCEPT !.since = 0, !.ended = TRUE]
    /\ UNCHANGED <<total, batch, heard, sub>>

-----------------------------------------------------------------------------
(* The subscriber. *)

\* The network hands over datagram i: in an ordered network one that was not
\* passed over yet, skipping increments that are lost.
Arrives(i) ==
    /\ KeepsOrder => i > heard /\ \A k \in heard + 1 .. i - 1 : net[k].kind = "Incremental"
    /\ heard' = IF KeepsOrder THEN i ELSE heard
    /\ UNCHANGED <<total, batch, feed, net>>

\* apply: one entry of a packet, then all of them.
Enter(book, x) ==
    IF x.type = "Trade" THEN book
    ELSE IF x.qty = 0 THEN Without(book, {x.at}) ELSE With(book, x.at, x.qty)

Apply(book, entries) ==
    LET after[k \in 0 .. Len(entries)] ==
          IF k = 0 THEN book ELSE Enter(after[k - 1], entries[k])
    IN  after[Len(entries)]

\* The packets after the one numbered first, up to the one numbered last.
ApplyAll(book, first, last, packets) ==
    LET after[n \in first .. last] ==
          IF n = first THEN book ELSE Apply(after[n - 1], packets[n])
    IN  after[last]

\* ended_ is set only where the end of on_packet or on_snapshot_part is reached.
SettleAtEnd(s) == [s EXCEPT !.ended = s.end >= 0]
Settle(s) == [s EXCEPT !.ended = s.end >= 0 /\ s.synced /\ s.seq >= s.end]

Unsynced(s) == [s EXCEPT !.synced = FALSE, !.book = Nothing]

HearIncremental(i) ==
    /\ net[i].kind = "Incremental"
    /\ Arrives(i)
    /\ \/ sub.synced /\ net[i].seq =< sub.seq /\ UNCHANGED sub
       \/ /\ sub.synced /\ net[i].seq = sub.seq + 1
          /\ sub' = [sub EXCEPT !.book = Apply(@, net[i].entries), !.seq = net[i].seq]
       \/ /\ ~sub.synced \/ net[i].seq > sub.seq + 1
          /\ sub' = [Unsynced(sub) EXCEPT !.pending = With(@, net[i].seq, net[i].entries)]

HearControl(i) ==
    LET lost == sub.synced /\ net[i].seq > sub.seq
        s == IF lost THEN Unsynced(sub) ELSE sub
    IN  /\ net[i].kind \in {"Heartbeat", "End"}
        /\ Arrives(i)
        /\ sub' = Settle(IF net[i].kind = "End" THEN [s EXCEPT !.end = net[i].seq] ELSE s)

\* The parts at hand when m comes: its first part, or a part of another
\* snapshot, starts anew.
KeptMixed(m) == IF m.part = 1 THEN Nothing ELSE sub.parts
Kept(m) == IF m.part = 1 \/ m.seq # sub.snapId THEN Nothing ELSE sub.parts

\* All parts are there: the book is rebuilt, then the increments that were kept
\* and follow without a hole are applied.
Rebuilt(s, m, parts) ==
    LET newer == Without(s.pending, 0 .. m.seq)
        last == CHOOSE n \in {m.seq} \cup DOMAIN newer :
                   n + 1 \notin DOMAIN newer /\ m.seq + 1 .. n \subseteq DOMAIN newer
        base == ApplyAll(Nothing, 0, m.parts, parts)
    IN  [s EXCEPT !.synced = TRUE, !.seq = last, !.book = ApplyAll(base, m.seq, last, newer),
                  !.pending = Without(newer, m.seq + 1 .. last)]

\* A hole in what was kept: wait for the next snapshot.
CheckHole(s) == IF s.pending = Nothing THEN s ELSE Unsynced(s)

HearSnapshot(i) ==
    LET m == net[i]
        fresh == m.part \notin DOMAIN Kept(m)
        parts == IF fresh THEN With(Kept(m), m.part, m.entries) ELSE Kept(m)
        s == [sub EXCEPT !.snapId = m.seq, !.parts = parts]
        complete == fresh /\ DOMAIN parts = 1 .. m.parts
    IN  /\ m.kind = "Snapshot"
        /\ Arrives(i)
        /\ \/ sub.synced /\ UNCHANGED sub
           \/ ~sub.synced /\ ~complete /\ sub' = Settle(s)
           \/ ~sub.synced /\ complete /\ sub' = Settle(CheckHole(Rebuilt(s, m, parts)))

-----------------------------------------------------------------------------

Hear(i) == HearIncremental(i) \/ HearControl(i) \/ HearSnapshot(i)

FeedNext ==
    \/ \E l \in FeedLevels, n \in 0 .. MaxTotal, how \in {"report", "trade", "leave"} :
          Change(l, n, how)
    \/ Commit
    \/ HeartbeatIfIdle
    \/ EndFeed
    \/ \E i \in DOMAIN net : Hear(i)

FeedSpec == FeedInit /\ [][FeedNext]_feedVars

-----------------------------------------------------------------------------
(* Properties. *)

\* The book after the first seq incremental packets, with none of them lost.
Sent(n) == net[CHOOSE i \in DOMAIN net : net[i].kind = "Incremental" /\ net[i].seq = n]
Followed(seq) == ApplyAll(Nothing, 0, seq, [n \in 1 .. seq |-> Sent(n).entries])

\* mdfeed.hpp:10-11, recovery is exact: however a subscriber got into sync
\* (late joiner, lost, doubled or reordered packets, snapshots in several
\* parts), its book is the one that a subscriber who never missed a packet has
\* at that sequence number, and no increment is kept behind a hole.
SyncedBookIsRight == sub.synced => sub.book = Followed(sub.seq) /\ sub.pending = Nothing

\* exsim_mdlisten.cpp:3, "At the end of the feed that digest must equal the one
\* the server prints for its own engine": a subscriber that reports the end
\* holds the engine's levels.
EndDigestsAgree ==
    sub.ended => sub.book = Engine

\* mdfeed.hpp:155, "a final snapshot, so every subscriber can end exactly in
\* sync": in a network that loses nothing but increments, a subscriber that has
\* read everything ends.
EndsInSync == KeepsOrder /\ feed.ended /\ heard = Len(net) => sub.ended
=============================================================================
