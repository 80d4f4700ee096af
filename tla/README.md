# A TLA+ model of the exsim exchange

`exsim` is an exchange simulator in C++: a matching engine with a fast order
book, a TCP gateway with a write-ahead journal, a multicast command stream that
keeps replicas in step with a primary, failover, a market-data feed, a threaded
pipeline built on a lock-free ring, and research tools that replay recorded
markets through the engine. This directory models the parts in
which several pieces of state, several processes or several threads have to
agree, checks them with TLC on small instances and proves with TLAPS, for every
value of the constants, what matters most: the matching rules, that the fast
book follows them, the ring and the pipeline, the safety of replication and
failover, recovery in the market-data feed, the gateway's names, reports and rate
limit, and five smaller parts.

Paths below are relative to the repository root.

## 1. Inventory

| Part | State | Operations | Interacts with | What is hard |
|---|---|---|---|---|
| Reference book, `include/exsim/reference_book.hpp` | a FIFO queue per price and side, id index | `add`, `cancel`, `modify` | events to a sink | fill-or-kill pre-check against self-trade rules, re-entry on modify, full book |
| Production book, `order_book.hpp`, `order_store.hpp` | level array, intrusive lists in store slots, aggregates, bits, cached bests, free list | the same | the same events | stale head during a sweep, reuse of released slots, cached bests at both ends of the ladder |
| Id index and price bitmap, `order_index.hpp`, `price_bitmap.hpp` | Robin Hood hash table; two-level bit set | `insert`, `find`, `erase`; `set`, `clear`, `find_next`, `find_prev` | the book | backward-shift deletion across the wrap, word boundaries |
| Matching engine, `matching_engine.hpp` | one book per symbol | `process` | gateway, replay, replica | none: sequential dispatch |
| Risk gate, `risk.hpp` | token buckets, last trades, halts | `process`, `halt_owner` | in front of the engine | decisions must repeat on replay |
| Sequenced stream, `seqstream.hpp` | Publisher: ring of sent commands, staged commands, acknowledgement, epoch; Subscriber: next expected, stash, known end, epoch | `publish`, `flush`, `service`, `heartbeat_if_idle`, `end`; `poll`, `drain`, `ack`, `request_gap` | UDP multicast and unicast | loss, duplication, reordering, overlap, ring limit, tail loss |
| Gateway, `tools/gateway.hpp` | connections with buffers, batch, sequence number, replica wait | accept, read, sequence, journal, publish, wait, answer, halt, end | journal, engine, stream, market data, clients | the order of flush, send, wait and answer; fencing; timeouts; halts |
| Client ids, `client_ids.hpp` | client id to exchange id, per owner | `bind`, `lookup`, `retire` | gateway | retiring on every way an order ends |
| Journal, `journal.hpp` | append-only records with checksum | `append`, `flush`, `sync`, `scan`, `recover` | gateway, replica, server | torn tail, failing writes |
| Server and replica, `tools/exsim_server.cpp`, `tools/exsim_replica.cpp` | the above composed | recover, apply, acknowledge, promote, exit | each other | promotion on silence, recovery under the same epoch |
| Market-data feed, `mdfeed.hpp` | sequence number, staged entries; subscriber's books, kept packets, snapshot parts | `flush`, `snapshot`, `heartbeat_if_idle`, `end`; `on_packet` | gateway, subscribers | joining and recovering by snapshots in several parts, the end of the feed |
| Ring, `spsc_queue.hpp` | head, tail, cached copies, slots | `try_push`, `front`, `pop`, `prefetch` | two threads | stale loads, wrap-around, full against empty |
| Pipeline, `tools/exsim_pipeline.cpp` | two rings, done flags, start barrier | feed, matcher, publisher threads | the rings | last elements lost at the end, threads waiting on one another |
| Wire protocol, `protocol.hpp`, `wire_file.hpp` | none | `decode`, `encode`, `decode_stream` | gateway, pipeline, tools | messages cut anywhere, malformed ones, lost framing |
| L3 replay, `tools/exsim_l3replay.cpp`, `l3.hpp` | truth book; accounts and facts inferred in pass 1; engine and open episode in pass 2 | `on` for each archived message, `close_episode`, `repair_levels`, `full_check` | an archived exchange feed, the engine | gaps, late snapshots, self-trade rules known only from their effects, matches before the modify that caused them |
| Mirror, `md_mirror.hpp`, `md.hpp`, `tools/exsim_mdreplay.cpp` | one synthetic order per level, horizon, span | `seed`, `apply`, `needs_reseed`, `top`; `find_seed` | a capture of level updates, the engine | diffs that cross the book on the way, unknown depth, gaps |
| Market making, `mm.hpp`, `mm_sim.hpp` | a quote per side with its estimated place, inventory | trade, book update, delayed replacement | a capture, the mirror | trades reported before the update that contains them, fills while a replacement is in flight |
| Queue study, `tools/exsim_queuestudy.cpp` | truth book, probes, an estimate per rule | `on`, `on_cancel`, `on_trade`, `on_gap` | the archive of the L3 replay | cancels whose place the estimators cannot see, gaps |
| Latency histogram, `latency_histogram.hpp` | counts per bucket | `record`, `percentile`, `merge`, `reset` | measurements | borders of buckets, the end of the type |
| Workload generator, client, benchmarks, OCaml reference, WebAssembly and UI | | | | measurement, random input, presentation |

What makes each modelled part correct:

* **books**: the index and the queues describe the same orders; never crossed;
  fill-or-kill is all or nothing; time priority; the events are enough to follow
  the book; the production book does what the reference book does.
* **replication**: a replica is a prefix of its primary's flushed journal; no
  client is answered for a command that a crash can erase; an answered command
  survives failover; a follower catches up and a waiting batch is answered.
* **gateway**: a client id names a live order of its owner exactly while there is
  one; reports reach the parties and nobody else; the client's view is that of an
  engine of its own; the rate limit admits what it says.
* **market-data feed**: a subscriber in sync holds the book of one that missed
  nothing; at the end of the feed it holds the engine's levels.
* **ring and pipeline**: the ring is a bounded FIFO; nothing is lost when a
  thread ends; all threads end.
* **index, bitmap, journal, histogram**: each does what the map, the set, the
  durable log and the sorted list of values would do, the last within its error.
* **connection**: the commands are those of the stream, however it is cut; no
  output and no paused reader is forgotten.
* **replay tools**: the truth book is the exchange's; the engine repeats what the
  exchange did, or the tool says that it does not; the mirror claims no level it
  was not told; a simulated quote stands where a real one would, and the two
  bounding estimates enclose the truth.

`PROJECT.json` lists every component with its status and every hazard at the
line where it bites, with the properties that watch it.

## 2. Modules

| Module | Models | Properties |
|---|---|---|
| `Common` | `common.hpp`: sides, self-trade modes, commands, events, book configuration | |
| `ReferenceBook` | `reference_book.hpp`, dispatched by `matching_engine.hpp` | `TypeOK`, `IndexAgrees`, `Uncrossed`, `FokAllOrNothing`, `QueueDiscipline` (all proved) |
| `BookEvents` | a listener that sees only the events | `EventsTellTheBook` (proved) |
| `OrderBook` | `order_book.hpp` over `order_store.hpp`, with the index and the bitmap as the map and the set they implement | `CheckInvariants`, `SlotsAccountedFor`, `RefinesReference` (all proved) |
| `Replication` | `seqstream.hpp`, the batch loop of `tools/gateway.hpp`, `tools/exsim_replica.cpp`, recovery in `tools/exsim_server.cpp` | `TypeOK`, `BackupIsPrefix`, `ReleasedIsDurable`, `AckedSurvive` (proved, under the conditions of section 4), `CatchesUp`, `BatchIsAnswered` |
| `MdFeed` | `mdfeed.hpp`, and what `tools/gateway.hpp` hands to it for a batch | `SyncedBookIsRight`, `EndDigestsAgree` (proved, if no level has price 0), `EndsInSync` |
| `RiskGate` | `risk.hpp`, in front of `ReferenceBook` | `RateIsExact` (proved) |
| `Gateway` | sessions and reports of `tools/gateway.hpp`, `client_ids.hpp`, over `RiskGate` | `IdsFollowTheBook` (with `SessionsOK`), `TradesAreReported` (both proved), `LocalEngine` |
| `BoundedFifo` | what a bounded queue promises | |
| `SpscQueue` | `spsc_queue.hpp` | `TypeOK`, `NoTornRead`, `IsFifo`, of both rings in `RingsSound` and `RingsAreFifos` (proved) |
| `Pipeline` | `tools/exsim_pipeline.cpp`, two instances of `SpscQueue` | `RingsSound`, `RingsAreFifos`, `NothingLeftBehind` (proved), `Terminates` |
| `OrderIndex` | `order_index.hpp` | `LookupsAgree` (with `RobinHoodOrdered`; proved) |
| `PriceBitmap` | `price_bitmap.hpp` | `FindsTheNearest` (proved) |
| `DurableLog` | what a write-ahead journal promises | |
| `Journal` | `journal.hpp`, over stdio, the operating system and the disk | `JournalIsDurable` (proved) |
| `Connection` | one connection of `tools/gateway.hpp`, `decode` of `protocol.hpp` | `CommandsAreTheStream`, `NobodyIsForgotten` (both proved) |
| `LatencyHistogram` | `latency_histogram.hpp` | `PercentilesAreClose` |
| `PureMatch` | the rules of `reference_book.hpp` as functions of whole commands | `SweepAddsUp` (in `MCBook`) |
| `TruthBook` | the book of `l3.hpp` | |
| `L3Replay` | both passes of `tools/exsim_l3replay.cpp`, with an exchange and an archive | `TruthIsExchange` (with `TotalsInStep`), `ReplayIsExact`, `LinksAreAccounts`, `CheckRestores` |
| `QueueStudy` | `tools/exsim_queuestudy.cpp`, over the archive of `L3Replay` | `BoundsHold` |
| `BookMirror` | `md_mirror.hpp`, `find_seed` of `md.hpp`, the loop of `tools/exsim_mdreplay.cpp` | `MirrorIsExact` (with `NoPhantomTrades`) |
| `MmSim` | `mm.hpp`, the loop of `mm_sim.hpp` | `InventoryBounded`, `QueueErrorBounded` (both proved) |
| `ArithmeticLemmas` | lemmas on minima, finite induction, iteration and remainders | |
| `ReferenceBookProofs`, `OrderBookProofs`, `SpscQueueProofs`, `PipelineProofs`, `ReplicationProofs`, `GatewayProofs` | the theorems about the module of that name, the first also about `BookEvents`, the last also about `RiskGate` and `Connection` | |
| `ComponentProofs` | the theorems about `PriceBitmap`, `MmSim`, `Journal`, `OrderIndex` and `MdFeed` | |

`MCBook`, `MCOrderBook`, `MCReplication`, `MCMdFeed`, `MCGateway`,
`MCStructures` and `MCReplay` instantiate them for TLC. `MCStructures` and
`MCReplay` hold several parts that share no state: a behaviour is one of one
part, chosen initially, and the others stand still. Operators next to a
definition that describe a wrong version of it (`CrossesStrict`,
`WaitDoneEarly`, ...) are the mutants of `PROJECT.json`: each property is known
to fail for one of them.

### The books

The engine is single threaded and runs one command to its end. A command that
does not match is one step. A command that matches is a step that accepts it
(`Accept`, `Reenter`), a step per iteration of the match loop (`MatchStop`,
`MatchDecrementMaker`, `MatchCancelMaker`, `MatchTrade`) and a step for what
becomes of the remainder (`FinishFilled`, `FinishStopped`, `FinishExpired`,
`FinishFull`, `FinishRest`); `taker` holds the locals in between and `pc` keeps
other commands out. Cutting the loop lets invariants speak about the middle of a
handler. `events` is what the last step passed to the sink.

In `OrderBook`, `b` holds the members of the class. `cursor` is the local `s` of
`sweep`: while it is set, the level's `head` field is stale and released slots
are still linked behind it, which is exactly the state the code is in. The free
list runs through the `next` fields. The refinement mapping `Ref` reads each
queue off the list, starting from the cursor in the level being swept.

Left out: symbols (books share nothing), timestamps, sequence numbers, the
request type of a rejection, the 64-bit width of quantities (`common.hpp:48`; the
model's never exceed `MaxQty`, and an aggregate overflows only when the orders of
a level add up to 2^64), and prefetching.

### Replication

A process is a node with a `role`. A journal is a sequence (`log`), of which the
first `durable` entries are with the operating system; a crash keeps those and
any further prefix. A command is abstracted to its number (`Command.seq`) and the
run that sequenced it, so that two commands with the same number can be told apart
and so can two of one run. `pub` and `sub` are the fields of Publisher and
Subscriber that matter, with the position of the batch loop (`phase`). `pub.ring`
is the retransmission ring: `publish` overwrites the slot of the number modulo the
ring's size, `seed_history` fills it from the journal on promotion, and what a
data packet carries, first sent or retransmitted, is what the slots hold when it
is sent. A replica numbers what it receives by the packet's header and never looks
at `Command.seq`, so a command from the wrong slot would be applied; that the
journal's i-th command has number i is a consequence and not built in. `net` is the set of datagrams in flight; with
`Duplicates` a datagram stays there after it was received and may never be, which
covers duplication, delay, reordering and loss at once; without, a datagram is
consumed and `Lose` removes at most `MaxLosses`.

| Action | Code |
|---|---|
| `Sequence` | one decoded command in `run_gateway`: sequence, `journal.append`, `publish`, `process` |
| `FlushBatch` | the end of the batch: `journal.flush`, `pub->flush`, then the wait or the answers |
| `WaitDone`, `ContinueAlone`, `HaltReplicaLost`, `HaltFenced` | the outcomes of `wait_for_replica` |
| `WriteBacklog` | `try_write` on `EPOLLOUT` in the middle of a batch |
| `JournalError`, `Stop`, `Crash`, `Recover` | the exits of the gateway and the restart |
| `HeartbeatIfIdle`, `HearGroup`, `ServiceAck`, `ServiceRetransmit` | the Publisher's side of the stream |
| `HearNewer`, `HearData`, `HearControl`, `RequestGap`, `Acknowledge` | the Subscriber and the replica loop |
| `ReplicaExit`, `Promote`, `Start` | the life of a replica process; `Bootstrapped` is its scan of a copied journal, `Seeded` the ring of a promoted one |

A deployment (which replicas run, `--replicate-wait`,
`--continue-without-replica`, `--promote-port`, how replicas may start later and
on which nodes, `late` and `spares`, the environment and the bounds) is a record `config`, chosen in `Init` from the
constant `Configs`, so one run covers several deployments. Assumptions on the
environment are part of it: `journalFails` (writes may fail), `slowClients` (a
client may leave its output unread), `stops` (the primary may be told to stop). `Start` starts a replica only for the
newest primary, which is what an operator would do; nothing in the code enforces
it. Timeouts may fire at any time while their condition holds: the model has no
clock, so a paused process is a process that takes no step. A late replica starts
from a copy of its primary's journal, which is any prefix of the flushed records,
the empty one included (`late` has `"older"`), or all of them (`"full"`).

### Gateway and risk gate

`Gateway` extends `RiskGate`, which extends `ReferenceBook`: the engine of the
gateway is the reference book on exchange ids, behind the gate. `Handle` is one
decoded command: it is named (`for_new`, `find`), stamped, checked and given to
the book; `Continue` is each further step of the match loop. Every step passes
its events to `Sink`, the `ReportSink` of the code, and the step that ends the
command releases the ids of orders that are gone. `told` is what the last step
wrote to connections. `Restart` is a recovery or a promotion, by which the book
and the gate come back and sessions and names do not; `logged` is what the replay
reads off the journal. A deployment (`config`) chooses the limits, the number of
connections and the bounds. `Local` is a second reference book, in the client's
own ids, and `LocalEngine` says that a client alone cannot tell the two apart.
The clock of the rate limit is `now`; it is read once for a command, so it moves
between commands only. `admitted` is a history variable.

### Market-data feed

The engine is abstracted to the total of each level (`total`): a command of a
batch changes the total of a level, and `Notes` says whether the gateway takes
note of that level. `Commit` is the end of a batch: the trades and the noted
levels in packets of `PerPacket` entries, then a snapshot when one is due. `net`
is the history of all datagrams. Unless `KeepsOrder`, a subscriber may hear any of
them at any time, again, or never, which covers loss, duplication and
reordering; with `KeepsOrder`, it hears them in order and only increments are lost.
A subscriber may hear its first datagram at any time, so it may also be a late
joiner. There is one symbol and one subscriber: symbols share packets but no
level, and subscribers share nothing. A server that halts sends no more
datagrams (`gateway.hpp:430`), which is a publisher that takes no step. Bounds:
`MaxTotal` (of a level), `MaxBatch` (entries of a batch), `MaxSeq` (packets).

### Ring and pipeline

An index in `SpscQueue` counts modulo 2^`Bits`; an acquire load returns any value
between the one the thread saw last and the newest (`Visible`), which is what
`std::atomic` allows. A slot being written holds `Torn`. `Pipeline` composes two
rings with three threads; a flag may be read late, but once it is read, the last
value of the ring's tail is visible too.

### Index, bitmap, journal, histogram

`OrderIndex` keeps slots with fingerprints and no keys, as the code does: a match
of fingerprints is confirmed in `store`, the records of the book. An insertion
with all its displacements and a removal with its backward shift are one step
each, since the book is single threaded. The hash is a parameter (`Fingerprint`),
as it is a template parameter of the code; the run has the locality hash, on keys
chosen to collide, to share fingerprints and to wrap around the table.

`PriceBitmap` has both levels of words; a word is the set of its one bits.

`Journal` follows the bytes, in cells: a record is two cells of `RecordMeta` and
its payload, and stdio, the operating system and the disk each hold a part of
them. A crash keeps what the operating system has, a loss of power anything that
the last `fsync` covers and any mixture of the rest. A damaged cell fails the
checksum. The refinement mapping to `DurableLog` reads the log off the file with
the code's own scan.

`LatencyHistogram` is parameterised by the widths (5 and 64 in the code).
`Percentile` takes the rank that the code computes from its argument.

### Connection

The stream is a sequence of cells with a length, a type and a payload. `Decode`
has the outcomes of `wire::decode`: incomplete, lost framing (a length below the
header's), a malformed message that is skipped, a command. `Receive` is the read
loop on one chunk; what a chunk leaves over waits in `conn.in`. A connection is
read when it asked to be (`Readable`) and, paused or not, when its client hung up
(`HungUp`: `EPOLLHUP` and `EPOLLERR` are reported unasked). The output is the
number of unsent reports; the socket takes any part of it. `Answer` is the end
of the batch for a connection that was touched in it. The commands' effects are in
`Gateway`, the order of flush and answer in `Replication`.

### Replay tools

`PureMatch` gives a command's effect on a book as a function; `SweepAddsUp`
checks that the steps of `ReferenceBook` add up to it. In `L3Replay` the external
exchange runs by those rules and publishes the messages of a command as one
block (`ArrivalBlock`, `ModifyBlock`); the archive drops messages and writes
snapshots late. Pass 1 (`InfOn`) and pass 2 (`OnMessage`) are functions from
state and message to state, one for each handler of the tool, and reading a
message is a step. `past` remembers the exchange's book after each block, for the
properties. `scen` is a recorded day: which commands occur, how self-trades are
prevented, what is lost, and the tool's options.

`QueueStudy` reads the same file. Times are counted in messages. A probe carries
its two estimates; `TrueAhead` is the tool's own `true_ahead`.

`BookMirror` replays diffs of level totals with ids. A snapshot may be taken
inside a diff. `history` remembers the exchange's levels after each id.

`MmSim` has the exchange's levels (`venue`) and the levels of the last update
(`seenBook`); between two records the exchange may move on, so trades and
cancels reach the simulation late and summed up. `place` is a history variable:
where a real order in the quote's place would stand (`ahead`), and by how many
lots the simulation may have it too far back (`over`) or too far forward
(`under`): those cancelled ahead of it and behind it (`Leaving` puts a cancellation
in any way), with what the last update before its placement told wrong. `QtyAt` is the mirror's own
`qty_at`, which answers 0 outside its band.

## 3. Runs

| Run | Bounds | Shows |
|---|---|---|
| `book` | 3 orders, 2 owners, 2 prices, quantity 2, room for 2, every time in force and override | the matching rules |
| `orderbook` | 3 orders, 1 owner, 2 prices, quantity 2, room for 2, day and fill-or-kill orders, no self-trade rule | structures agree; the production book implements the reference book |
| `stp` | 3 orders, 2 owners, 1 price, all self-trade modes | the same with own orders in the way |
| `failover` | 3 nodes, two commands; six deployments: a pair with a crash, a pair that goes on alone, a single server whose journal fails, a primary that recovers next to its successor, a succession of promotions with a full copy of the journal, a replica that joins late, from any copy, a stream of two-command packets with a ring of two (three commands in batches of up to two) | safety of replication |
| `live` | a primary that waits and one backup, one datagram lost, also with a client that leaves its output unread | catching up, waits end |
| `gateway` | three exchange ids, two client ids; four deployments: a client alone (quantity 2, own self-trade mode), two connections and three owners, the same with a restart, every risk limit (two prices, four instants, burst of two) | names, reports, the local view, the rate limit |
| `mdfeed` | two levels of quantity 1, one entry to a packet, a snapshot after every batch, three packets, any order | recovery by snapshot is exact |
| `structures` | pipeline: three commands, up to two messages each, rings of two slots, indices modulo four; index: six keys, four orders, a table of eight; bitmap: ten levels in words of two bits; journal: three records of up to two cells of payload, two crashes; connection: six cells in chunks of up to three, a limit of one unsent report; histogram: two buckets to a power of two, values of five bits | each structure is what it stands for |
| `replay` | nine days of up to three commands on four resting orders and four prices (every self-trade mode, modifies, post-only, losses and late snapshots, withheld cancels); the queue study on three of them; four captures of up to four updates; four simulations of up to six records | the replay tools |
| `slow_client`, `journal_error`, `feed_end` | as named | the disagreements of section 6 |

Why the bounds are enough: two orders in a queue and a third that arrives are
what it takes to fill one maker, half-fill the next, cancel in the middle of a
queue and refill a level; a capacity of two lets the third order find the book
full. Two prices give both ends of the ladder and a best level that moves. Two
sequenced commands and one crash give a primary and a promoted successor whose
journals differ; three runs give a primary that recovers next to its successor. Two levels with
one entry to a packet give snapshots of two parts and batches of two packets;
three packets give a snapshot with increments before it, after it and beyond a
hole. The indices of the rings wrap several times. Words of two bits give the
bitmap five words and three summary words, so a search crosses both borders. Six
cells are two whole messages, and every way to cut them. Three commands on a day
are what a lost message, the snapshot that repairs it and a further trade need.
A ring of two slots and three commands overwrite a slot that a late replica asks
for. In the simulations a level of three lots trades one and loses another, ahead
of a quote or behind it, inside of one update. Two quotes of size two, one live and one in flight, reach the bound of
`InventoryBounded` exactly.

`Permutations` of order ids and owners are used as symmetry in the book runs:
the modules compare ids for equality only.

**Fairness.** `live`: the batch loop, the heartbeat of an idle primary, the gap
request and the repeated acknowledgement of a replica are periodic in the code
(`gateway.hpp` polls with a timeout, `exsim_replica.cpp` every iteration), and a
datagram that is not lost arrives; each is weakly fair. Timeouts of the wait are
not fair, so `BatchIsAnswered` shows that the acknowledgement arrives and not
that the primary gives up. `structures`: every thread of the
pipeline keeps running, and a store to
an atomic becomes visible in finite time (strong fairness of the refreshing
loads, as the C++ standard asks of implementations). `Terminates` says that a
feed at its start leads to all three threads joined; the other parts of the run
need no fairness.

Deadlock is checked in the book, feed, structures and replay runs, where what has
ended stutters explicitly. The gateway may
have no client left, and the replication runs may stop: the bounds on commands and runs are reached and every process has ended.

## 4. Proofs

Every theorem holds for every value of the constants that its module's named
assumption admits (`BookAssumption`, `PipelineAssumption`,
`ReplicationAssumption`, `GatewayAssumption`, `GateAssumption`, `ConnAssumption`,
`BitmapAssumption`, `MmAssumption`, `JournalAssumption`, `IndexAssumption`,
`FeedAssumption`; TLC evaluates them in the runs). What a theorem needs beyond that is a
hypothesis of its own, given below. Each proof has the same shape: an inductive
invariant, a lemma for the initial states, a lemma for each action, and a last
step in temporal logic.

| Theorem | States |
|---|---|
| `BookCorrect`, `IndexMatchesQueues` | `TypeOK`, `IndexAgrees`, `Uncrossed` |
| `TimePriority` | `QueueDiscipline`, an action property |
| `FokCorrect` | `FokAllOrNothing` |
| `EventsAreEnough` | `EventsTellTheBook` |
| `BookRepresented`, `SlotsKept`, `AuditPasses` | the lists and aggregates of the production book stand for queues of slots; `SlotsAccountedFor`; `CheckInvariants` |
| `BookRefinesReference` | `RefinesReference`: the production book implements `ReferenceBook` |
| `RingNeverTorn`, `RingIsFifo` | `NoTornRead`; the ring implements `BoundedFifo` |
| `PipelineNeverTorn`, `PipelineIsComplete`, `PipelineRingsAreFifos` | `RingsSound`, `NothingLeftBehind`, `RingsAreFifos` |
| `ReplicationTypes`, `FlushedIsForever` | `TypeOK`; no step loses a flushed record |
| `WriteAheadCorrect` | `ReleasedIsDurable`, if no deployment has `slowClients` |
| `BackupCorrect` | `BackupIsPrefix` while epochs are unique, if no deployment has `journalFails` |
| `BackupIsAlwaysPrefix` | `BackupIsPrefix`, if also at most one standby can take over (`OneStandby`) |
| `FailoverKeepsAcked` | `AckedSurvive`, if every deployment is a `SafeFailover` |
| `RateLimitIsExact` | `RateIsExact`, if the limits are natural numbers with a burst above 0 (`RatesAreRates`) |
| `NamesFollowTheBook`, `TradesReachTheirParties` | `IdsFollowTheBook`, `TradesAreReported` |
| `AnyChunksAreTheStream` | `CommandsAreTheStream`, if some cell is long enough to be a header |
| `EpollFollowsBacklog` | `NobodyIsForgotten` |
| `SearchIsExact` | `FindsTheNearest` |
| `InventoryIsBounded` | `InventoryBounded` |
| `PlaceErrorIsBounded` | `QueueErrorBounded` |
| `JournalKeepsRecords` | `JournalIsDurable`: the journal implements `DurableLog` |
| `IndexIsAMap` | `LookupsAgree` |
| `RecoveryIsExact`, `EndIsExact` | `SyncedBookIsRight`, `EndDigestsAgree`, if no level has price 0 |

**The book.** The inductive invariant `Inv` is `TypeOK`, `IndexAgrees` and
`Uncrossed`, with what they need of each other: `Uncrossed` holds when an order
comes to rest only because the loop ended with no level in range, and the index
holds for a removal only because an id is queued once; that the taker is not
indexed is needed when it is appended. The book changes in three ways, each with
a lemma: an order leaves its queue (`RemovalKeepsBookInv`), quantities change in
place (`AmendKeepsBookInv`), an order joins the back of a queue
(`AppendKeepsBookInv`). `BestIsLevel` shows that the `CHOOSE` of the best level is
well defined.

Fill-or-kill needs what the pre-check computes. `FokInv` says that while a
fill-or-kill order is being matched, `fillable` of what is left of it, on the
book as it is now, still finds enough. The scan is a function on levels and
queues, defined by recursion; `IterationExists` shows that such a function exists
and what it satisfies, and each iteration of the match loop is shown to take the
scan's own first step away from it.

`ViewInv` relates the listener's map to the book: for every queue, the map shows
exactly its orders (`Shows`), and the order being matched with the quantity it
has left (`TakerShown`).

**The production book.** The invariant says of which queues the structures are a
representation. The queues are sequences of slots, one for each level and one for
the free list, under an existential quantifier, since no variable holds them:
every slot is in exactly one of them, once (`Spread`); the `next` and `prev` fields
are the neighbours in the queue, `head` and `tail` its ends; the aggregates are
the sums of its quantities; a level has its bit exactly when its queue is not
empty; the cached bests are the extreme levels with a bit; the index maps the id of
each queued slot to it. In the middle of a sweep the exception is the level being
swept, whose true head is the cursor. The changes are those of the reference
book, each with a lemma about the queues: a slot leaves its queue and is pushed on
the free list, a slot is taken from it and appended, a quantity changes. The walk
that the properties make along a list is a recursive function, shown to run
through the queue. With this, `CheckInvariants` and `SlotsAccountedFor` read off
the queues, and `Ref` maps each queue of slots to the reference book's queue of
orders. The step simulation has one case for each action; the one that is not
immediate is fill-or-kill, where the production book adds up aggregates of levels
found by hopping from bit to bit, or orders when self-trades matter, and the
reference book visits every order of every price in range: both scans are shown
to find enough together.

**The ring.** `RingInv` orders the four indices that the two threads know (what
a thread has cached lies between what it saw and what there is) by distances
modulo the index width, and says which slots hold what was pushed. Distances
never exceed the capacity, which is a power of two that divides the width, so
distinct indices in use are distinct slots (`ModDistinct`). The pipeline's
invariant adds `Accounts`, by which what a thread has taken and what the ring in
front of it still holds is, together, what the one before it has produced, and
`Handover`: a thread that has ended saw the flag of the one before it and took
all of it. The rings are instances of the module that `SpscQueueProofs` is about,
whose hypothesis `RingAssumption` follows from `PipelineAssumption`.

**Replication.** All six theorems have the hypothesis that the ring holds a batch
(`RingHoldsBatch`: `maxBatch` is at most `ring`); without it a replica's journal
may hold commands out of their places and `BackupIsPrefix` fails (section 6). `BaseInv`: the positions of the stream, the batch and the
journal are in order, at the points of the loop where it matters the journal is
flushed (`WriteAhead`), commands are where their numbers say (`Numbered`), and of
a primary's last `ring` numbers each is in its slot, from the oldest that it
answers for (`RingInv`); the staged ones are among them because they are no more
than a batch. On it rest the three others. `ReleasedIsDurable` follows when no connection keeps output over the end
of its batch. For `BackupIsPrefix` every data packet in flight, every entry of a
ring and every entry of a stash is in the flushed journal of the node that has
the packet's epoch (`InJournal`); flushed records stay, so that is stable under
crashes. Unique epochs are needed for it and are not given in general: two
standbys that promote themselves at once take the same epoch, which is why
`BackupIsPrefix` is stated for one epoch and `BackupIsAlwaysPrefix` for one
standby. For `AckedSurvive`, what a primary believes acknowledged is held,
flushed, by its standby (`Agree`), until and after the standby takes over.
The runs `slow_client` and `journal_error` show that the hypotheses on slow
clients and on failing journals cannot be dropped; a deployment with two standbys
or with spares is model-checked only.

**The gateway.** `RateLimitIsExact` rests on a closed form: the theoretical
arrival time is the latest of what each admitted message books ahead
(`Booked`), and it is compared as the history is (`Within`). `GatewayInv` is the
book's `Inv` with `IdsInv`: sessions and owners are a bijection, the two
directions of the id map are inverse, every order in the book and the one being
matched has the name it was given, and every name that has no order in the book
is of an order that the running command has mentioned, so it is retired at its
end. An order of an earlier life of the server keeps its owner and has no name.

**Connection, bitmap, simulation.** `AnyChunksAreTheStream`: decoding what is
buffered and then the rest is decoding the whole (`DecodeAll` on a prefix),
because `decode` of a complete message does not look behind it. `BitmapInv` is
that the bits of the summary are the words that are not zero, as sets of numbers
(`Bits`); then a search of words and a search of the summary are the same lemma
on two levels (`ScanUp`, `ScanDown`). `InventoryIsBounded`: the inventory alone
is not inductive; with all the lots that the live and the coming quotes may still
add on a side it is (`Bounded`). `PlaceErrorIsBounded`: the bound alone is not
inductive, since the next update may take off the estimate what was cancelled long
before. `Near` adds the look ahead: what the last update still shows of the quote's
level in excess of what the exchange has there, less what was traded on it since,
is all that the next one can count as cancelled, and the estimate less all of that
is still within the bound. Trades move the estimate and the place together, joins
only shrink the excess, and a cancellation adds as much to the bound as to the
excess.

**Journal.** A scan looks at the front of a file only: a file whose end is lost,
or damaged from some cell on, reads as fewer of the same records (`WornScan`); a
file cut to what was read is clean (`CutScan`); what is appended to a clean file
is read behind it (`AppendScan`). `JournalInv` keeps the chain from the buffer to
the disk: the records written by this process, which the file of the operating
system begins, which the disk's synced front begins. Each crash then maps to a
crash of `DurableLog`, which keeps the synced records and loses some of the rest.

**Order index.** Positions of the table are counted from the home of the order
looked for, so that no argument has to wrap around. `IndexOk` says that the table
holds each stored order exactly once, under its fingerprint, in Robin Hood order
(`Ordered`: an order is at most one step further from home than the one in front
of it, and there is no hole on the way back to its home). A free place exists
because the table is at least twice as large as the store, which is why the loops
end. `OnTheWay` gives lookups: nothing that stops `find` lies between an order and
its home. The loop of `insert` has the invariant of a table with one order in hand
(`Placing`, `Settled`); `RemovedOk` shows that the backward shift moves each order
of a run one place towards its home and stops where that would be wrong.

**Feed.** `FeedInv` speaks of two histories that no variable holds, so they are
under an existential quantifier: the entries E of each incremental packet and the
book H after it (`Told`: each book is the one before it with the packet applied).
Every datagram of the network says what they say (`PacketOk`): an increment has
the entries of its number, a snapshot's part is that part of the book at its
number. The subscriber keeps only what is true (`SubOk`): a book in sync is the
book of its number, kept packets are those of their numbers, gathered parts are
parts of one book. Whatever is lost, doubled or reordered, what arrives is one of
these. The publisher's side needs two facts. The book after the last packet is
the engine's, but for the levels that the gateway has noted in the running batch
(`EngineOk`); this is where a level at price 0, which is never noted, has to be
excluded (section 6), and why a snapshot, sent after a batch only, is the book of
its number. And the pieces of a batch, applied in order, do what the whole batch
does, also across the cut between two packets (`ApplyPieces`); a listing of a
book, applied to nothing, is that book. Recovery is then a walk along H: the
snapshot's book, and the kept packets that follow it without a hole.

Induction over data is first-order here: the minimum of a set of naturals
(`NatMin`) gives induction over an interval (`UpTo`, `DownFrom`) for a set that
is named in the step.

**Model-checked only.** Liveness (`CatchesUp`, `BatchIsAnswered`,
`Terminates`): fairness and `ENABLED` are outside what TLAPS does here. The refinement `LocalEngine`, which compares two reference
books whose ids are given in different orders. `PercentilesAreClose` (powers and
logarithms of two), `SweepAddsUp` and the properties of the replay tools.

## 5. Not modelled

* the workload generator, the load-generating client, benchmarks and the
  differential test programs: they produce input and measure, and keep no
  state that others rely on;
* the OCaml reference, the WebAssembly build and the user interface: the same
  rules again, or presentation;
* byte layouts and encoders, text formats of captures, CSV output, command
  lines, clocks, thread pinning, huge pages;
* floating point: the estimators of the queue study between its two bounds, the
  prices of Avellaneda and Stoikov and the split of the power rule, which
  `MmSim` replaces by any price and any split; profit, fees and statistics;
* the 32-bit owner that `exsim_l3replay.cpp:79` derives from a 64-bit id: the
  archives' converter numbers ids from 1 on (`scripts/l3conv.py`), so no two meet
  in a file of fewer than 2^32 orders;
* reseeding inside the market-making loop (`mm_sim.hpp:150`): its mirror is that
  of `BookMirror`, which has it;
* the halts of the risk gate, which no program of the repository sets, and
  symbols beyond one.

## 6. Disagreements between the code and what it says of itself

* `slow_client`: `tools/gateway.hpp:9-11` promises that the journal is flushed
  before any response leaves. `try_write` on a writable connection
  (`gateway.hpp:323`) sends whatever the connection's buffer holds, including
  reports about makers that an earlier event of the same batch has appended.
* `journal_error`: after a journal error the loop ends with `pub->end()`
  (`gateway.hpp:420`), which sends the staged commands; the backup then holds
  commands the primary's journal may not (`seqstream.hpp:193-195` says never).
* `feed_end`: a subscriber that lost the last increment is still in sync when
  the final snapshot comes, and passes it over (`mdfeed.hpp:250`); the end marker
  then shows the gap, and nothing follows. `mdfeed.hpp:155` says that every
  subscriber can end in sync. A heartbeat between the lost increment and the end
  would have helped.

More that no run states:

* `note` takes an event with price 0 for a market order (`gateway.hpp:105`), but
  the default band starts at 0. Such a level is not published, and the digests
  of `exsim_mdlisten.cpp:2-3` differ; with a level at price 0, `EndDigestsAgree`
  of `MdFeed` fails. In the same way `risk.hpp:74` takes a last trade at price 0
  for none, which lifts the collar;
* a standby promotes itself on silence (`exsim_replica.cpp:120`), also while it
  knows that it is behind; one that starts late and loses the other nodes lacks
  acknowledged commands (`seqstream.hpp:20` says never). The same holds for one
  that starts from an old copy of the journal (`exsim_replica.cpp:72-80` takes
  any). In the deployments of `failover` a replica that may promote itself starts
  with all of the journal; with `"older"` in `Succession`, `AckedSurvive` fails;
* the Publisher sends from its ring (`seqstream.hpp:273`), and nothing keeps a
  batch within it: when more commands than the ring has slots are staged before
  `flush`, the first ones are sent with the contents of the last, under their own
  numbers, and the replica applies them, since it never compares `Command.seq`
  (`seqstream.hpp:366-410`); its journal is then no prefix of the primary's
  (`seqstream.hpp:193-195` says always). A batch is what 64 events of epoll bring,
  one 64 KiB chunk each, some 175,000 of the smallest messages: below the default
  of 2^20 slots, and above the 2^12 of `scripts/e2e_replication.sh:177`. With
  `maxBatch` 3 in `Stream`, `BackupIsPrefix` fails; `RingHoldsBatch` rules it out
  in the proofs;
* the halts of the gateway also send the end marker of the stream, so a standby
  exits instead of taking over;
* `exsim_replica.cpp:81` passes no `min_epoch`, so a replica started after a
  failover may lock on to a delayed datagram of the old epoch
  (`seqstream.hpp:23` says it cannot);
* the feed has no epoch: after a restart its sequence numbers begin again and a
  subscriber in sync takes the new packets for duplicates;
* lost framing closes a connection at once (`gateway.hpp:379`): commands ahead of
  it in the same chunk have been journaled and executed, and their client is
  never told. `malformed` counts it like a message that was skipped;
* a loss of power before the first `fsync` may leave a journal without a header,
  which recovery refuses (`journal.hpp:101`); nothing synced is lost. The entry
  of a new file in its directory is never synced;
* `exsim_l3replay.cpp:501` says that a later match with a rested taker is a
  modify and not part of its episode; the taker of a *modify* that traded and did
  not rest is not covered, so when it is modified again its matches are taken for
  the first modify's. A market order that cancel-newest stops before its first
  trade has no message from which the tool could tell, so the engine trades it.
  `ReplayIsExact` excepts both (`x.misread`), and a whole-book check that falls
  due on the `change` of a modify that has traded (`exsim_l3replay.cpp:577`),
  which compares in the middle of an episode;
* the match block of pass 1 survives a gap (`exsim_l3replay.cpp:126`), so a
  cancel after it can be read as part of a block before it; `LinksAreAccounts` is
  stated for archives without loss;
* a snapshot with an empty side dereferences an empty optional
  (`exsim_l3replay.cpp:530`), and so does the mid of `exsim_mdreplay.cpp:32`; the
  exchanges of the models keep both sides at those points;
* when the mirror's engine is full, the order is refused but its slot stays set
  (`md_mirror.hpp:157`), and later updates of the level modify an order that does
  not exist; `reset_book` (`md_mirror.hpp:114`) also forgets the trades counted so
  far, so the tool's final count of phantom trades covers the time since the last
  seed;
* `RESEARCH.md:61` says inventory is "capped at 10 units", `mm.hpp:42` that
  "quoting a side stops at the cap". The cap is compared when a quote is decided
  on, and a quote that is live and its replacement each fill in full afterwards:
  the bound that holds, `InventoryBounded`, is the cap plus two quotes less one
  lot;
* a trade record that reaches the capture after the update that contains it is
  counted twice (`mm.hpp:121`): once as a cancellation, once as a trade. The
  captures of `MmSim` report the trade first;
* `exsim_queuestudy.cpp:164` tells the estimators of an order that is done only
  when it was cancelled. One that was modified and filled as a taker is reported
  as filled and leaves its level untold, after which `front` is no optimistic
  bound; `BoundsHold` excepts such probes. Of the rules in between, `pow2` and
  `pow3` can leave more ahead than `back`.

## 7. Plan

1. `TotalsInStep` as a lemma for each operation of `TruthBook`, `BoundsHold` of
   the queue study on it.
2. A liveness property of `MdFeed`: a subscriber syncs while snapshots go on.
