---------------------------- MODULE Replication ----------------------------
(***************************************************************************)
(* Replication and failover: the sequenced command stream of               *)
(* include/exsim/seqstream.hpp (Publisher and Subscriber), the batch loop  *)
(* of tools/gateway.hpp that drives a Publisher and decides when a client  *)
(* is answered, the replica process of tools/exsim_replica.cpp and the     *)
(* recovery of tools/exsim_server.cpp.                                     *)
(*                                                                         *)
(* A command is abstracted to its sequence number (Command.seq) and the    *)
(* run that sequenced it: every time a process starts to sequence (first   *)
(* start, recovery, promotion) it draws a new run number, so two commands  *)
(* that were given the same sequence number by different primaries, or by  *)
(* one primary before and after a crash, are told apart.  The journal of a *)
(* node is a sequence of commands.  That the command at position i has     *)
(* number i is not built in: a replica counts datagrams (expected_) and    *)
(* never looks at Command.seq before it appends.                           *)
(*                                                                         *)
(* Processes are asynchronous: a paused process is one that takes no step, *)
(* and the timeouts of the code may fire whenever their condition holds.   *)
(* Datagrams may be lost, duplicated, delayed and reordered.               *)
(***************************************************************************)
EXTENDS Integers, Sequences, FiniteSets, FiniteSetsExt, SequencesExt

CONSTANTS
    Nodes,         \* the processes
    Server,        \* the exsim_server process, primary of epoch 1
    Group,         \* the multicast group, an address that is no node
    Duplicates,    \* the network: duplicate and delay freely, or consume and lose
    MaxLosses,     \* bound: datagrams lost when the network consumes them
    Configs        \* the deployments: command lines, environments and bounds

Deployment ==
    [backups : SUBSET (Nodes \ {Server}), wait : BOOLEAN, halt : BOOLEAN, standby : BOOLEAN,
     late : SUBSET {"older", "full"}, spares : SUBSET Nodes, stops : BOOLEAN,
     perPacket : Nat \ {0}, ring : Nat \ {0}, maxAsk : Nat \ {0}, journalFails : BOOLEAN,
     slowClients : BOOLEAN, maxBatch : Nat \ {0}, maxSeq : Nat, maxCrashes : Nat, maxRuns : Nat \ {0}]

ASSUME ReplicationAssumption ==
    /\ Server \in Nodes
    /\ Group \notin Nodes
    /\ Duplicates \in BOOLEAN
    /\ MaxLosses \in Nat
    /\ \A c \in Configs : c \in Deployment

VARIABLES
    role,      \* "off", "primary", "replica", or how the process ended
    log,       \* the commands each process has appended to its journal
    durable,   \* how many of them it has flushed to the operating system
    epoch,     \* the epoch a node publishes under, 0 if it never did
    pub,       \* the Publisher of a primary and the state of its batch loop
    sub,       \* the Subscriber of a replica
    net,       \* the datagrams in flight
    released,  \* <<position in the journal, command>> pairs clients have seen answered
    runs,      \* run numbers drawn so far
    crashes,   \* crashes so far
    losses,    \* datagrams lost so far
    config     \* the deployment, chosen once

vars == <<role, log, durable, epoch, pub, sub, net, released, runs, crashes, losses, config>>

Backups == config.backups             \* the replicas that run from the start
WaitReplica == config.wait            \* --replicate-wait
HaltOnLoss == config.halt             \* not --continue-without-replica
Standby == config.standby             \* the replicas run with --promote-port
LateStart == config.late              \* how replicas start later (--from-journal)
Spares == config.spares               \* the nodes on which one may start later
Stops == config.stops                 \* environment: is a primary told to stop?
PerPacket == config.perPacket         \* kPerPacket
RingSize == config.ring               \* 2 ^ ring_log2
MaxAsk == config.maxAsk               \* the most one retransmission request asks for
JournalFails == config.journalFails   \* environment: can writes to the journal fail?
SlowClients == config.slowClients     \* environment: can a client leave output unread?
MaxBatch == config.maxBatch           \* bound: commands in a batch
MaxSeq == config.maxSeq               \* bound: commands in a journal
MaxCrashes == config.maxCrashes       \* bound: crashes
MaxRuns == config.maxRuns             \* bound: starts, recoveries and promotions

-----------------------------------------------------------------------------
(* Commands and sequence numbers. *)

Command(run, seq) == [run |-> run, seq |-> seq]
Blank == Command(0, 0)                    \* a slot of the ring not yet written

\* The `seq' of the gateway and of the replica: that of the last command.
LastSeq(n) == IF log[n] = <<>> THEN 0 ELSE Last(log[n]).seq
NextSeq(n) == LastSeq(n) + 1              \* Publisher's next_seq_
Expected(r) == Len(log[r]) + 1            \* Subscriber's expected_

-----------------------------------------------------------------------------
(* Datagrams.  Each carries the epoch of its sender's primary. *)

Data(e, first, cmds, to) ==
    [kind |-> "Data", epoch |-> e, first |-> first, cmds |-> cmds, to |-> to]
Heartbeat(e, next) == [kind |-> "Heartbeat", epoch |-> e, first |-> next, to |-> Group]
End(e, next) == [kind |-> "End", epoch |-> e, first |-> next, to |-> Group]
Unavailable(e, oldest, to) ==
    [kind |-> "Unavailable", epoch |-> e, first |-> oldest, to |-> to]
Ack(e, through, to) == [kind |-> "Ack", epoch |-> e, first |-> through, to |-> to]
Retransmit(e, first, count, from, to) ==
    [kind |-> "Retransmit", epoch |-> e, first |-> first, count |-> count,
     from |-> from, to |-> to]

\* send_data for the numbers first .. last, PerPacket in each: what is sent is
\* what the slots of the ring hold now.  A datagram that sendto refuses, or that
\* the fault injection drops, is one the network loses.
Packets(e, ring, first, last, to) ==
    {Data(e, s, [i \in 1 .. Min({PerPacket, last - s + 1}) |->
                   ring[(s + i - 1) % RingSize]], to) :
       s \in {x \in first .. last : (x - first) % PerPacket = 0}}

\* The network once a datagram has been received.
Received(m) == IF Duplicates THEN net ELSE net \ {m}

-----------------------------------------------------------------------------
(* The primary: Publisher and batch loop.  `sent' is pending_first_ - 1,   *)
(* `from' is history_from_, `ring' is ring_; the commands of the journal   *)
(* after position `base' are the batch under way, whose clients have not   *)
(* been answered.                                                          *)

NoPub == [run |-> 0, sent |-> 0, acked |-> 0, from |-> 1, fenced |-> FALSE,
          phase |-> "loop", base |-> 0, lost |-> FALSE,
          ring |-> [i \in 0 .. RingSize - 1 |-> Blank]]

\* A Publisher that continues the journal of n.
NewPub(n) ==
    [NoPub EXCEPT !.run = runs + 1, !.sent = LastSeq(n), !.acked = LastSeq(n),
                  !.from = NextSeq(n), !.base = Len(log[n])]

\* seed_history of every command of the journal l, in order.
Seeded(p, l) ==
    [p EXCEPT !.from = Min({@} \cup {l[k].seq : k \in DOMAIN l}),
              !.ring = [i \in DOMAIN @ |->
                          LET at == {k \in DOMAIN l : l[k].seq % RingSize = i}
                          IN  IF at = {} THEN @[i] ELSE l[Max(at)]]]

NoSub == [epoch |-> 0, known |-> 0, stash |-> << >>, end |-> 0,
          superseded |-> FALSE, unavailable |-> FALSE, primary |-> Server]

InLoop(n) == role[n] = "primary" /\ pub[n].phase = "loop"
Batch(n) == pub[n].base + 1 .. Len(log[n])
Staged(n) == Packets(epoch[n], pub[n].ring, pub[n].sent + 1, LastSeq(n), Group)
Answers(n) == {<<s, log[n][s]>> : s \in Batch(n)}

\* A client's command gets the next number, is appended to the journal, whose
\* buffer may spill into the file, and takes its slot of the ring.
Take(n) ==
    LET c == Command(pub[n].run, NextSeq(n))
    IN  /\ InLoop(n)
        /\ ~pub[n].fenced
        /\ Len(log[n]) < MaxSeq
        /\ Len(log[n]) - pub[n].base < MaxBatch
        /\ log' = [log EXCEPT ![n] = Append(@, c)]
        /\ \E k \in durable[n] .. Len(log[n]) + 1 : durable' = [durable EXCEPT ![n] = k]
        /\ pub' = [pub EXCEPT ![n].ring[c.seq % RingSize] = c]
        /\ UNCHANGED <<role, epoch, sub, runs, crashes, losses, config>>

\* The earlier version that docs/DESIGN.md tells of: sent before the journal is
\* flushed.
SequenceSendsAtOnce(n) ==
    /\ Take(n)
    /\ net' = net \cup {Data(epoch[n], NextSeq(n), <<Command(pub[n].run, NextSeq(n))>>, Group)}
    /\ UNCHANGED released

\* An answer that does not wait for the journal.
SequenceAnswersAtOnce(n) ==
    /\ Take(n)
    /\ released' = released \cup {<<Len(log[n]) + 1, Command(pub[n].run, NextSeq(n))>>}
    /\ UNCHANGED net

\* Sequenced, appended to the journal, staged and matched.
Sequence(n) == Take(n) /\ UNCHANGED <<net, released>>

\* The batch is complete: its journal records are flushed, then it is sent to
\* the replicas.  Its clients are answered at once, or after the wait.
FlushBatch(n) ==
    /\ InLoop(n)
    /\ ~pub[n].fenced
    /\ Batch(n) # {}
    /\ durable' = [durable EXCEPT ![n] = Len(log[n])]
    /\ net' = net \cup Staged(n)
    /\ \/ /\ WaitReplica /\ ~pub[n].lost
          /\ pub' = [pub EXCEPT ![n].sent = LastSeq(n), ![n].phase = "wait"]
          /\ UNCHANGED released
       \/ /\ ~WaitReplica \/ pub[n].lost
          /\ pub' = [pub EXCEPT ![n].sent = LastSeq(n), ![n].base = Len(log[n])]
          /\ released' = released \cup Answers(n)
    /\ UNCHANGED <<role, log, epoch, sub, runs, crashes, losses, config>>

\* A connection with unsent output became writable.  Reports on the commands
\* of the batch under way may already have been appended to that output, and
\* they leave with it.
WriteBacklog(n) ==
    /\ SlowClients
    /\ InLoop(n)
    /\ ~pub[n].fenced
    /\ \E a \in Answers(n) : released' = released \cup {a}
    /\ UNCHANGED <<role, log, durable, epoch, pub, sub, net, runs, crashes, losses, config>>

\* wait_for_replica returns and the clients of the batch are answered: a
\* replica acknowledged the batch, or the primary goes on without replicas.
Answer(n, lost) ==
    /\ pub' = [pub EXCEPT ![n].phase = "loop", ![n].base = Len(log[n]), ![n].lost = lost]
    /\ released' = released \cup Answers(n)
    /\ UNCHANGED <<role, log, durable, epoch, sub, net, runs, crashes, losses, config>>

Waiting(n) == role[n] = "primary" /\ pub[n].phase = "wait"

\* A wait for all but the last command of the batch.
WaitDoneEarly(n) ==
    /\ Waiting(n)
    /\ pub[n].acked + 1 >= LastSeq(n)
    /\ Answer(n, pub[n].lost)

WaitDone(n) ==
    /\ Waiting(n)
    /\ pub[n].acked >= LastSeq(n)
    /\ Answer(n, pub[n].lost)

\* The timeout: the last look at the sockets may still bring a newer epoch, but
\* an acknowledgement it brings is not looked at.
TimedOut(n) == Waiting(n) /\ ~pub[n].fenced

ContinueAlone(n) ==
    /\ ~HaltOnLoss
    /\ TimedOut(n)
    /\ Answer(n, TRUE)

HeartbeatIfIdle(n) ==
    /\ role[n] = "primary"
    /\ ~pub[n].fenced
    /\ pub[n].sent = LastSeq(n)
    /\ net' = net \cup {Heartbeat(epoch[n], NextSeq(n))}
    /\ UNCHANGED <<role, log, durable, epoch, pub, sub, released, runs, crashes, losses, config>>

-----------------------------------------------------------------------------
(* The ways a primary stops. *)

\* The process is gone, and k commands are in its journal file: those that it
\* flushed and perhaps some of those it had only buffered.
Exit(n, k, how) ==
    /\ role' = [role EXCEPT ![n] = how]
    /\ log' = [log EXCEPT ![n] = SubSeq(@, 1, k)]
    /\ durable' = [durable EXCEPT ![n] = k]
    /\ pub' = [pub EXCEPT ![n] = NoPub]
    /\ sub' = [sub EXCEPT ![n] = NoSub]
    /\ UNCHANGED <<epoch, released, runs>>

\* The end of run_gateway: Publisher::end sends what is staged and then the
\* End marker, unless this primary is fenced.
Shutdown(n, k, how) ==
    /\ Exit(n, k, how)
    /\ net' = IF pub[n].fenced THEN net
              ELSE net \cup Staged(n) \cup {End(epoch[n], NextSeq(n))}
    /\ UNCHANGED <<crashes, losses, config>>

\* SIGTERM, seen at the top of the loop.
Stop(n) ==
    /\ Stops
    /\ InLoop(n)
    /\ Batch(n) = {}
    /\ Shutdown(n, Len(log[n]), "stopped")

\* halted = "JOURNAL_ERROR": appending to or flushing the journal failed.
JournalError(n) ==
    /\ JournalFails
    /\ InLoop(n)
    /\ \E k \in durable[n] .. Len(log[n]) : Shutdown(n, k, "halted")

\* halted = "REPLICA_LOST": nobody acknowledged the batch in time.
HaltReplicaLost(n) ==
    /\ HaltOnLoss
    /\ TimedOut(n)
    /\ Shutdown(n, Len(log[n]), "halted")

\* halted = "FENCED": a newer epoch was heard.
HaltFenced(n) ==
    /\ role[n] = "primary"
    /\ pub[n].fenced
    /\ Shutdown(n, Len(log[n]), "halted")

Crash(n) ==
    /\ role[n] \in {"primary", "replica"}
    /\ crashes < MaxCrashes
    /\ \E k \in durable[n] .. Len(log[n]) : Exit(n, k, "dead")
    /\ crashes' = crashes + 1
    /\ UNCHANGED <<net, losses, config>>

\* exsim_server --recover: the journal is replayed and the Publisher continues
\* it, by default under the same epoch and with none of the history.
Recover ==
    /\ role[Server] \in {"dead", "stopped", "halted"}
    /\ runs < MaxRuns
    /\ role' = [role EXCEPT ![Server] = "primary"]
    /\ pub' = [pub EXCEPT ![Server] = NewPub(Server)]
    /\ runs' = runs + 1
    /\ UNCHANGED <<log, durable, epoch, sub, net, released, crashes, losses, config>>

-----------------------------------------------------------------------------
(* Publisher::service. *)

\* The group is read before the control socket, and an acknowledgement that
\* ends the wait ends it before the next look.
HearGroup(n, m) ==
    /\ m \in net
    /\ m.to = Group
    /\ role[n] = "primary"
    /\ m.epoch > epoch[n]
    /\ ~pub[n].fenced
    /\ Waiting(n) => pub[n].acked < LastSeq(n)
    /\ pub' = [pub EXCEPT ![n].fenced = TRUE]
    /\ UNCHANGED <<role, log, durable, epoch, sub, net, released, runs, crashes, losses, config>>

Control(n, m) ==
    /\ m \in net
    /\ m.to = n
    /\ role[n] = "primary"
    /\ m.epoch = epoch[n]
    /\ ~pub[n].fenced
    /\ UNCHANGED <<role, log, durable, epoch, sub, released, runs, crashes, losses, config>>

ServiceAck(n, m) ==
    /\ Control(n, m)
    /\ m.kind = "Ack"
    /\ m.first > pub[n].acked
    /\ m.first < NextSeq(n)
    /\ pub' = [pub EXCEPT ![n].acked = m.first]
    /\ net' = Received(m)

\* One slot too many: the oldest number is already overwritten.
OldestOverwritten(n) ==
    Max({IF NextSeq(n) > RingSize + 1 THEN LastSeq(n) - RingSize ELSE 1, pub[n].from})

\* The oldest command the retransmission ring holds.
Oldest(n) ==
    Max({IF NextSeq(n) > RingSize THEN NextSeq(n) - RingSize ELSE 1, pub[n].from})

ServiceRetransmit(n, m) ==
    /\ Control(n, m)
    /\ m.kind = "Retransmit"
    /\ net' = Received(m) \cup
                IF m.first < Oldest(n) THEN {Unavailable(epoch[n], Oldest(n), m.from)}
                ELSE Packets(epoch[n], pub[n].ring, m.first,
                             Min({m.first + m.count - 1, LastSeq(n)}), m.from)
    /\ UNCHANGED pub

-----------------------------------------------------------------------------
(* The replica: Subscriber and the main loop of exsim_replica. *)

\* Subscriber::deliver: the commands of a packet that are not yet applied.
Deliver(l, first, cmds) == l \o SubSeq(cmds, Len(l) + 2 - first, Len(cmds))

DrainNothing(l, stash) == [log |-> l, stash |-> stash]

\* The lowest packet of the stash is delivered if nothing is missing before it,
\* or dropped if it is old.
DrainOne(s) ==
    LET first == Min(DOMAIN s.stash)
    IN  IF DOMAIN s.stash = {} \/ first > Len(s.log) + 1 THEN s
        ELSE [log |-> IF first + Len(s.stash[first]) - 1 > Len(s.log)
                      THEN Deliver(s.log, first, s.stash[first]) ELSE s.log,
              stash |-> Restrict(s.stash, DOMAIN s.stash \ {first})]

\* A packet arrived in sequence: after it, every stashed packet that it makes
\* deliverable is delivered, lowest first.
DrainStash(l, stash) ==
    LET Step[k \in 0 .. Cardinality(DOMAIN stash)] ==
          IF k = 0 THEN [log |-> l, stash |-> stash] ELSE DrainOne(Step[k - 1])
    IN  Step[Cardinality(DOMAIN stash)]

\* What every datagram to a replica passes through: one of a stale epoch is
\* dropped, the first epoch heard is the one to follow.
Hear(r, m) ==
    /\ m \in net
    /\ role[r] = "replica"
    /\ m.to \in {Group, r}
    /\ m.epoch >= sub[r].epoch
    /\ net' = Received(m)
    /\ UNCHANGED <<role, durable, epoch, pub, released, runs, crashes, losses, config>>

Follows(r, m) == sub[r].epoch \in {0, m.epoch}

HearNewer(r, m) ==
    /\ Hear(r, m)
    /\ ~Follows(r, m)
    /\ sub' = [sub EXCEPT ![r].superseded = TRUE]
    /\ UNCHANGED log

HearData(r, m) ==
    /\ m.kind = "Data"
    /\ Hear(r, m)
    /\ Follows(r, m)
    /\ \/ /\ m.first + Len(m.cmds) =< Expected(r)              \* a duplicate
          /\ sub' = [sub EXCEPT ![r].epoch = m.epoch]
          /\ UNCHANGED log
       \/ /\ m.first > Expected(r)                             \* a gap
          /\ sub' = [sub EXCEPT ![r].epoch = m.epoch,
                                ![r].stash = IF m.first \in DOMAIN @ THEN @
                                             ELSE [i \in DOMAIN @ \cup {m.first} |->
                                                     IF i = m.first THEN m.cmds ELSE @[i]]]
          /\ UNCHANGED log
       \/ /\ m.first =< Expected(r)
          /\ m.first + Len(m.cmds) > Expected(r)
          /\ LET d == DrainStash(Deliver(log[r], m.first, m.cmds), sub[r].stash)
             IN  /\ log' = [log EXCEPT ![r] = d.log]
                 /\ sub' = [sub EXCEPT ![r].epoch = m.epoch, ![r].stash = d.stash,
                                       ![r].known = Max({@, Len(d.log) + 1})]

HearControl(r, m) ==
    /\ Hear(r, m)
    /\ Follows(r, m)
    /\ \/ /\ m.kind = "Heartbeat"
          /\ sub' = [sub EXCEPT ![r].epoch = m.epoch, ![r].known = Max({@, m.first})]
       \/ /\ m.kind = "End"
          /\ sub' = [sub EXCEPT ![r].epoch = m.epoch, ![r].known = Max({@, m.first}),
                                ![r].end = m.first]
       \/ /\ m.kind = "Unavailable"
          /\ sub' = [sub EXCEPT ![r].epoch = m.epoch, ![r].unavailable = TRUE]
    /\ UNCHANGED log

\* Only a gap before a packet that arrived is noticed, not a lost tail.
RequestGapNoTail(r) ==
    LET stash == DOMAIN sub[r].stash
    IN  /\ role[r] = "replica"
        /\ stash # {}
        /\ net' = net \cup {Retransmit(sub[r].epoch, Expected(r),
                                       Min({Min(stash) - Expected(r), MaxAsk}),
                                       r, sub[r].primary)}
        /\ UNCHANGED <<role, log, durable, epoch, pub, sub, released, runs, crashes, losses, config>>

RequestGap(r) ==
    LET stash == DOMAIN sub[r].stash
        gapEnd == IF stash = {} THEN sub[r].known ELSE Min(stash)
    IN  /\ role[r] = "replica"
        /\ sub[r].epoch # 0
        /\ gapEnd > Expected(r)
        /\ net' = net \cup {Retransmit(sub[r].epoch, Expected(r),
                                       Min({gapEnd - Expected(r), MaxAsk}),
                                       r, sub[r].primary)}
        /\ UNCHANGED <<role, log, durable, epoch, pub, sub, released, runs, crashes, losses, config>>

\* Each acknowledgement is sent once.
AcknowledgeOnce(r) ==
    /\ role[r] = "replica"
    /\ durable[r] < Len(log[r])
    /\ durable' = [durable EXCEPT ![r] = Len(log[r])]
    /\ net' = net \cup {Ack(sub[r].epoch, LastSeq(r), sub[r].primary)}
    /\ UNCHANGED <<role, log, epoch, pub, sub, released, runs, crashes, losses, config>>

\* What was applied is flushed, then acknowledged; an acknowledgement is
\* repeated from time to time.
Acknowledge(r) ==
    /\ role[r] = "replica"
    /\ durable' = [durable EXCEPT ![r] = Len(log[r])]
    /\ net' = IF sub[r].epoch = 0 THEN net
              ELSE net \cup {Ack(sub[r].epoch, LastSeq(r), sub[r].primary)}
    /\ UNCHANGED <<role, log, epoch, pub, sub, released, runs, crashes, losses, config>>

Ended(r) == sub[r].end # 0 /\ Expected(r) >= sub[r].end

ReplicaExit(r) ==
    /\ role[r] = "replica"
    /\ sub[r].unavailable \/ sub[r].superseded \/ Ended(r)
    /\ Exit(r, Len(log[r]), "stopped")
    /\ UNCHANGED <<net, crashes, losses, config>>

\* Nothing was heard for silence_ns: the standby becomes the next primary.  Its
\* ring is filled from its journal; seed_history throws on a number beyond the
\* last one, and then the process is gone as in a crash.
Promote(r) ==
    /\ Standby
    /\ role[r] = "replica"
    /\ sub[r].epoch # 0
    /\ ~(sub[r].unavailable \/ sub[r].superseded \/ Ended(r))
    /\ runs < MaxRuns
    /\ \A k \in DOMAIN log[r] : log[r][k].seq < NextSeq(r)
    /\ role' = [role EXCEPT ![r] = "primary"]
    /\ durable' = [durable EXCEPT ![r] = Len(log[r])]
    /\ epoch' = [epoch EXCEPT ![r] = sub[r].epoch + 1]
    /\ pub' = [pub EXCEPT ![r] = Seeded(NewPub(r), log[r])]
    /\ sub' = [sub EXCEPT ![r] = NoSub]
    /\ runs' = runs + 1
    /\ UNCHANGED <<log, net, released, crashes, losses, config>>

Newest(p) == role[p] = "primary" /\ \A n \in Nodes : epoch[n] =< epoch[p]

\* journal_scan of --from-journal: a record is applied if its number is the next.
Bootstrapped(l) ==
    LET took[k \in 0 .. Len(l)] ==
          IF k = 0 THEN <<>>
          ELSE IF l[k].seq = Len(took[k - 1]) + 1 THEN Append(took[k - 1], l[k])
          ELSE took[k - 1]
    IN  took[Len(l)]

\* An operator starts a replica process for the newest primary, empty or from a
\* copy of that primary's journal file, which may be old or cut short, when no
\* other replica runs: docs/DESIGN.md says that there is one backup at a time.
Start(r, p) ==
    /\ r \in Spares
    /\ role[r] = "off"
    /\ Newest(p)
    /\ \A n \in Nodes : role[n] # "replica"
    /\ role' = [role EXCEPT ![r] = "replica"]
    /\ \E how \in LateStart, k \in 0 .. durable[p] :
          LET taken == Bootstrapped(SubSeq(log[p], 1, k))
          IN  /\ how = "full" => k = durable[p]
              /\ log' = [log EXCEPT ![r] = taken]
              /\ durable' = [durable EXCEPT ![r] = Len(taken)]
    /\ sub' = [sub EXCEPT ![r] = [NoSub EXCEPT !.primary = p]]
    /\ UNCHANGED <<epoch, pub, net, released, runs, crashes, losses, config>>

-----------------------------------------------------------------------------

\* The network loses a datagram.
Lose(m) ==
    /\ ~Duplicates
    /\ losses < MaxLosses
    /\ net' = net \ {m}
    /\ losses' = losses + 1
    /\ UNCHANGED <<role, log, durable, epoch, pub, sub, released, runs, crashes, config>>

Init ==
    /\ config \in Configs
    /\ role = [n \in Nodes |-> IF n = Server THEN "primary"
                               ELSE IF n \in Backups THEN "replica" ELSE "off"]
    /\ log = [n \in Nodes |-> <<>>]
    /\ durable = [n \in Nodes |-> 0]
    /\ epoch = [n \in Nodes |-> IF n = Server THEN 1 ELSE 0]
    /\ pub = [n \in Nodes |-> IF n = Server THEN [NoPub EXCEPT !.run = 1] ELSE NoPub]
    /\ sub = [n \in Nodes |-> NoSub]
    /\ net = {}
    /\ released = {}
    /\ runs = 1
    /\ crashes = 0
    /\ losses = 0

Primary(n) ==
    \/ Sequence(n)
    \/ FlushBatch(n)
    \/ WriteBacklog(n)
    \/ WaitDone(n)
    \/ ContinueAlone(n)
    \/ HeartbeatIfIdle(n)
    \/ Stop(n)
    \/ JournalError(n)
    \/ HaltReplicaLost(n)
    \/ HaltFenced(n)

Service(n, m) == HearGroup(n, m) \/ ServiceAck(n, m) \/ ServiceRetransmit(n, m)

Replica(r) == RequestGap(r) \/ Acknowledge(r) \/ ReplicaExit(r) \/ Promote(r)

Poll(r, m) == HearNewer(r, m) \/ HearData(r, m) \/ HearControl(r, m)

Next ==
    \/ \E n \in Nodes : Primary(n) \/ Replica(n) \/ Crash(n)
    \/ \E n \in Nodes, m \in net : Service(n, m) \/ Poll(n, m)
    \/ \E r, p \in Nodes : Start(r, p)
    \/ \E m \in net : Lose(m)
    \/ Recover

Spec == Init /\ [][Next]_vars

-----------------------------------------------------------------------------
(* Properties. *)

Commands == [run : 1 .. MaxRuns, seq : 1 .. MaxSeq]

\* Types of the processes' state (seqstream.hpp:278-289 and 425-434).
TypeOK ==
    /\ role \in [Nodes -> {"off", "primary", "replica", "stopped", "halted", "dead"}]
    /\ log \in [Nodes -> Seq(Commands)]
    /\ epoch \in [Nodes -> Nat]
    /\ released \subseteq (1 .. MaxSeq) \X Commands
    /\ \A n \in Nodes :
         /\ durable[n] \in 0 .. Len(log[n])
         /\ pub[n].base =< pub[n].sent
         /\ pub[n].sent =< LastSeq(n)
         /\ pub[n].acked =< LastSeq(n)
         /\ \A f \in DOMAIN sub[n].stash : f > Expected(n)

Journal(n) == SubSeq(log[n], 1, durable[n])

\* seqstream.hpp:193-195, "the backup's journal is always a prefix of the
\* primary's": whatever datagrams are lost, doubled or reordered and whoever
\* crashes, what a replica has applied is, command by command, what is already
\* flushed in the journal of its primary, as long as it follows that primary's
\* epoch.
BackupIsPrefix ==
    \A r \in Nodes :
       LET p == sub[r].primary
       IN  role[r] = "replica" /\ sub[r].epoch # 0 /\ epoch[p] = sub[r].epoch =>
              IsPrefix(log[r], Journal(p))

\* gateway.hpp:9-11, write-ahead: a client never holds an acknowledgement for
\* a command that a crash could erase.  It is in the flushed journal of the
\* primary that sequenced it (or of the node that continued that journal).
ReleasedIsDurable ==
    \A a \in released : \E n \in Nodes :
       a[1] =< durable[n] /\ log[n][a[1]] = a[2]

\* gateway.hpp:12-13, "a promoted backup holds every acknowledged command":
\* so does a recovered primary that was not replaced.  It is the promise of
\* --replicate-wait, unless the primary may go on without a replica.
AckedSurvive ==
    \A p \in Nodes : WaitReplica /\ HaltOnLoss /\ Newest(p) =>
       \A a \in released : a[1] =< Len(log[p]) /\ log[p][a[1]] = a[2]

-----------------------------------------------------------------------------
(* Liveness.  The processes keep running their loops, and every datagram   *)
(* that is not lost arrives.  The network loses finitely many.             *)

Seqs == UNION {1 .. c.maxSeq : c \in Configs}
Followers == UNION {c.backups : c \in Configs}

\* The datagrams of the first run, to the backups and to the server.
ToReplicas ==
    LET sizes == UNION {1 .. c.perPacket : c \in Configs}
        streams(s) == {[i \in 1 .. k |-> Command(1, s + i - 1)] :
                         k \in {x \in sizes : s + x - 1 \in Seqs}}
    IN  UNION {{Data(1, s, cmds, to) : cmds \in streams(s), to \in Followers \cup {Group}} :
                 s \in Seqs}
          \cup {Heartbeat(1, s + 1) : s \in Seqs}

ToServer ==
    LET asks == UNION {1 .. c.maxAsk : c \in Configs}
    IN  {Ack(1, s, Server) : s \in Seqs}
          \cup {Retransmit(1, s, k, r, Server) : s \in Seqs, k \in asks, r \in Followers}

Fairness ==
    /\ WF_vars(FlushBatch(Server))
    /\ WF_vars(WaitDone(Server))
    /\ WF_vars(HeartbeatIfIdle(Server))
    /\ \A r \in Followers : WF_vars(RequestGap(r)) /\ WF_vars(Acknowledge(r))
    /\ \A m \in ToServer : WF_vars(Service(Server, m))
    /\ \A m \in ToReplicas, r \in Followers : WF_vars(Poll(r, m))

FairSpec == Spec /\ Fairness

\* seqstream.hpp:13-14, tail loss: whatever is lost, a command the primary has
\* sent is applied by every backup, unless the primary ends first.
CatchesUp ==
    \A r \in Followers, s \in Seqs :
       (r \in Backups /\ role[Server] = "primary" /\ pub[Server].sent >= s)
         ~> (Len(log[r]) >= s \/ role[Server] # "primary")

\* exsim_replica.cpp:97-98, a lost acknowledgement "must not leave the primary
\* waiting": the wait for a replica ends, and not only by its timeout.
BatchIsAnswered == Waiting(Server) ~> ~Waiting(Server)
=============================================================================
