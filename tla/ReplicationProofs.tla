------------------------- MODULE ReplicationProofs -------------------------
(***************************************************************************)
(* Proofs about Replication, for every number of nodes, every bound and    *)
(* every deployment whose retransmission ring holds a batch.               *)
(*                                                                         *)
(* The invariants build on one another.  BaseInv is the types, that a slot *)
(* of the ring in use holds the command of its number, and that a primary  *)
(* flushes before it sends and answers.  Streams adds what is true of the  *)
(* datagrams and the replicas of an epoch: nothing is told, stashed or     *)
(* applied that the primary of that epoch has not flushed.  Failover adds, *)
(* for a server that waits for its one standby, that what is acknowledged, *)
(* and so what is answered, is in both flushed journals.  Each step lemma  *)
(* also shows that every node keeps its flushed records (Keeps), which is  *)
(* what carries the facts about journals from one state to the next.       *)
(***************************************************************************)
EXTENDS Replication, ArithmeticLemmas, FiniteSetTheorems, TLAPS

-----------------------------------------------------------------------------
(* The types. *)

Seqno == 1 .. MaxSeq
Runs == 1 .. MaxRuns

\* The commands carry the numbers first, first + 1, ...
Numbered(first, cmds) == \A i \in 1 .. Len(cmds) : cmds[i].seq = first + i - 1

\* Commands first, first + 1, ... of a journal.
IsPacket(first, cmds) ==
    /\ first \in Nat \ {0}
    /\ cmds \in Seq(Commands)
    /\ Len(cmds) >= 1
    /\ first + Len(cmds) - 1 =< MaxSeq
    /\ Numbered(first, cmds)

Stashes ==
    {t \in UNION {[D -> Seq(Commands)] : D \in SUBSET Seqno} :
       \A f \in DOMAIN t : IsPacket(f, t[f])}

Rings == [0 .. RingSize - 1 -> Commands \cup {Blank}]

Publishers ==
    [run : Nat, sent : Nat, acked : Nat, from : Nat \ {0}, fenced : BOOLEAN,
     phase : {"loop", "wait"}, base : Nat, lost : BOOLEAN, ring : Rings]

Subscribers ==
    [epoch : Nat, known : Nat, stash : Stashes, end : Nat,
     superseded : BOOLEAN, unavailable : BOOLEAN, primary : Nodes]

Kinds == {"Data", "Heartbeat", "End", "Unavailable", "Ack", "Retransmit"}

IsDatagram(m) ==
    /\ m.kind \in Kinds
    /\ m.epoch \in Nat \ {0}
    /\ m.first \in Nat
    /\ m.kind = "Data" => IsPacket(m.first, m.cmds)
    /\ m.kind = "Retransmit" =>
          m.first \in Nat \ {0} /\ m.count \in Nat \ {0} /\ m.from \in Nodes

StateTypes ==
    /\ config \in Configs
    /\ role \in [Nodes -> {"off", "primary", "replica", "stopped", "halted", "dead"}]
    /\ log \in [Nodes -> Seq(Commands)]
    /\ durable \in [Nodes -> Nat]
    /\ epoch \in [Nodes -> Nat]
    /\ pub \in [Nodes -> Publishers]
    /\ sub \in [Nodes -> Subscribers]
    /\ runs \in Runs
    /\ released \subseteq Seqno \X Commands

NetTypes == \A m \in net : IsDatagram(m)

\* How far a node is in its journal, and in answering clients.
Positions(n) ==
    /\ Numbered(1, log[n])
    /\ durable[n] =< Len(log[n])
    /\ Len(log[n]) =< MaxSeq
    /\ pub[n].base =< pub[n].sent
    /\ pub[n].sent =< Len(log[n])
    /\ pub[n].acked =< Len(log[n])
    /\ \A f \in DOMAIN sub[n].stash : f > Len(log[n]) + 1

\* What a node's role says of the rest of its state.
Roles(n) ==
    /\ role[n] = "primary" => pub[n].run \in Runs /\ epoch[n] # 0
    /\ role[n] # "primary" => pub[n] = NoPub
    /\ role[n] # "replica" => sub[n] = NoSub
    /\ role[n] = "off" => log[n] = <<>> /\ durable[n] = 0 /\ epoch[n] = 0
    /\ role[n] \in {"off", "replica"} => n # Server /\ epoch[n] = 0

\* The ring of a primary holds the last RingSize commands of its journal, but
\* for those before `from', and all of the batch under way.
RingInv(n) ==
    role[n] = "primary" =>
       /\ Len(log[n]) =< pub[n].base + MaxBatch
       /\ pub[n].from =< pub[n].base + 1
       /\ \A s \in 1 .. Len(log[n]) :
             pub[n].from =< s /\ Len(log[n]) < s + RingSize =>
                pub[n].ring[s % RingSize] = log[n][s]

NodeInv(n) ==
    /\ Positions(n)
    /\ Roles(n)
    /\ RingInv(n)
    /\ n = Server => epoch[n] = 1

TypeInv ==
    /\ StateTypes
    /\ NetTypes
    /\ \A n \in Nodes : NodeInv(n)

-----------------------------------------------------------------------------
(* Write-ahead. *)

\* What is sent or about to be answered has been flushed.
Flushed(n) ==
    /\ role[n] = "primary" => pub[n].sent =< durable[n]
    /\ pub[n].phase = "wait" =>
          /\ durable[n] = Len(log[n])
          /\ pub[n].sent = Len(log[n])
          /\ pub[n].base < Len(log[n])
    /\ role[n] \notin {"primary", "replica"} => durable[n] = Len(log[n])

WriteAhead == \A n \in Nodes : Flushed(n)

\* The deployments for which the ring holds a batch.
RingHoldsBatch == \A c \in Configs : c.maxBatch =< c.ring

BaseInv == TypeInv /\ WriteAhead /\ MaxBatch =< RingSize

-----------------------------------------------------------------------------
(* The stream of an epoch. *)

UniqueEpochs ==
    \A n, p \in Nodes : epoch[n] = epoch[p] /\ epoch[n] # 0 => n = p

\* The packet is in the flushed journal of p.
InJournal(first, cmds, p) ==
    /\ first + Len(cmds) - 1 =< durable[p]
    /\ \A i \in 1 .. Len(cmds) : cmds[i] = log[p][first + i - 1]

\* Every epoch that is heard of is some node's.
EpochsAreNodes ==
    /\ \A m \in net : \E n \in Nodes : epoch[n] = m.epoch
    /\ \A r \in Nodes : sub[r].epoch # 0 => \E n \in Nodes : epoch[n] = sub[r].epoch
    /\ \A r \in Nodes : role[r] = "replica" => epoch[sub[r].primary] # 0
    /\ \A r \in Nodes : sub[r].epoch = 0 => sub[r].known = 0 /\ DOMAIN sub[r].stash = {}

\* A datagram of p's epoch tells of nothing that p has not flushed.
TellsFlushed(m, p) ==
    /\ m.kind = "Data" => InJournal(m.first, m.cmds, p)
    /\ m.kind \in {"Heartbeat", "End"} => m.first =< durable[p] + 1
    /\ m.kind = "Retransmit" => m.first + m.count =< durable[p] + 1

\* So does what a replica that follows p's epoch has heard.
HeardFlushed(r, p) ==
    /\ sub[r].known =< durable[p] + 1
    /\ \A f \in DOMAIN sub[r].stash : InJournal(f, sub[r].stash[f], p)

\* r's commands are those of p, and p has flushed them.
Follower(r, p) ==
    /\ Len(log[r]) =< durable[p]
    /\ \A i \in 1 .. Len(log[r]) : log[r][i] = log[p][i]

StreamInv ==
    \A p \in Nodes :
       /\ epoch[p] # 0 => \A m \in net : m.epoch = epoch[p] => TellsFlushed(m, p)
       /\ epoch[p] # 0 => \A r \in Nodes : sub[r].epoch = epoch[p] => HeardFlushed(r, p)
       /\ \A r \in Nodes :
             /\ role[r] = "replica"
             /\ sub[r].primary = p
             /\ sub[r].epoch \in {0, epoch[p]}
             => Follower(r, p)

-----------------------------------------------------------------------------
(* One standby. *)

\* A deployment in which at most one standby can take over.
OneStandby(c) == c.standby => c.spares = {} /\ \A a, b \in c.backups : a = b

\* A deployment in which a primary answers only what its standby holds.
SafeFailover(c) ==
    c.wait /\ c.halt =>
       /\ OneStandby(c)
       /\ ~c.slowClients
       /\ c.standby => ~c.journalFails

\* The server is the only primary but for its standby, which takes epoch 2.
StandbyEpochs ==
    \A n \in Nodes :
       /\ epoch[n] # 0 => n = Server \/ (Standby /\ n \in Backups /\ epoch[n] = 2)
       /\ Standby /\ role[n] # "off" => n = Server \/ n \in Backups
       /\ Standby => sub[n].epoch \in {0, 1} /\ sub[n].primary = Server

\* Up to command k, the journals of n and p are flushed and agree.
Agree(n, p, k) ==
    /\ k =< durable[n]
    /\ k =< durable[p]
    /\ \A i \in 1 .. k : log[n][i] = log[p][i]

Holds(n, a) == a[1] =< durable[n] /\ log[n][a[1]] = a[2]

\* What is acknowledged to the server its standby holds; the standby itself is
\* never acknowledged anything.
StandbyInv ==
    /\ \A n \in Nodes : ~pub[n].lost
    /\ \A n \in Nodes \ {Server} : pub[n].acked =< pub[n].base
    /\ \A m \in net : m.kind = "Ack" => m.epoch = 1
    /\ \A a \in released : Holds(Server, a)
    /\ Standby => \A b \in Backups :
          /\ \A m \in net : m.kind = "Ack" => Agree(b, Server, m.first)
          /\ pub[Server].acked > pub[Server].base => Agree(b, Server, pub[Server].acked)
          /\ \A a \in released : Holds(b, a)

-----------------------------------------------------------------------------
(* Operators. *)

\* The deployment is one of those assumed.
LEMMA ConfigFacts ==
    ASSUME config \in Configs
    PROVE  /\ MaxSeq \in Nat /\ MaxRuns \in Nat \ {0} /\ PerPacket \in Nat \ {0}
           /\ RingSize \in Nat \ {0} /\ MaxAsk \in Nat \ {0} /\ MaxBatch \in Nat \ {0}
           /\ Backups \subseteq Nodes \ {Server} /\ Server \in Nodes /\ Group \notin Nodes
           /\ WaitReplica \in BOOLEAN /\ HaltOnLoss \in BOOLEAN /\ Standby \in BOOLEAN
<1>1. config \in Deployment
  BY ReplicationAssumption
<1>2. Server \in Nodes /\ Group \notin Nodes
  BY ReplicationAssumption
<1> QED
  BY <1>1, <1>2 DEF Deployment, MaxSeq, MaxRuns, PerPacket, RingSize, MaxAsk, MaxBatch, Backups,
                    WaitReplica, HaltOnLoss, Standby

\* The smaller and the larger of two numbers.
LEMMA MinMaxPair ==
    ASSUME NEW a \in Int, NEW b \in Int
    PROVE  /\ Min({a, b}) = IF a =< b THEN a ELSE b
           /\ Max({a, b}) = IF a >= b THEN a ELSE b
<1>1. Min({a, b}) \in {a, b} /\ \A y \in {a, b} : Min({a, b}) =< y
  <2>1. \E x \in {a, b} : \A y \in {a, b} : x =< y
    OBVIOUS
  <2> QED
    BY <2>1 DEF Min
<1>2. Max({a, b}) \in {a, b} /\ \A y \in {a, b} : Max({a, b}) >= y
  <2>1. \E x \in {a, b} : \A y \in {a, b} : x >= y
    OBVIOUS
  <2> QED
    BY <2>1 DEF Max
<1> QED
  BY <1>1, <1>2

\* The smallest of some naturals.
LEMMA MinNat ==
    ASSUME NEW T, T \subseteq Nat, T # {}
    PROVE  Min(T) \in T /\ \A y \in T : Min(T) =< y
BY NatMin DEF Min

\* A part of a sequence.
LEMMA SubSeqFacts ==
    ASSUME NEW C, NEW s \in Seq(C), NEW a \in Nat \ {0}, NEW b \in Nat, b =< Len(s), a =< b + 1
    PROVE  /\ SubSeq(s, a, b) \in Seq(C)
           /\ Len(SubSeq(s, a, b)) = b - a + 1
           /\ \A i \in 1 .. b - a + 1 : SubSeq(s, a, b)[i] = s[a + i - 1]
OBVIOUS

\* What Subscriber::deliver appends: the commands of the packet that are new.
LEMMA DeliverFacts ==
    ASSUME NEW C, NEW l \in Seq(C), NEW first \in Nat \ {0}, NEW cmds \in Seq(C),
           first =< Len(l) + 1, first + Len(cmds) - 1 > Len(l)
    PROVE  /\ Deliver(l, first, cmds) \in Seq(C)
           /\ Len(Deliver(l, first, cmds)) = first + Len(cmds) - 1
           /\ \A i \in 1 .. Len(l) : Deliver(l, first, cmds)[i] = l[i]
           /\ \A i \in Len(l) + 1 .. first + Len(cmds) - 1 :
                 Deliver(l, first, cmds)[i] = cmds[i - first + 1]
<1> DEFINE a == Len(l) + 2 - first
           t == SubSeq(cmds, a, Len(cmds))
<1>1. a \in Nat \ {0} /\ Len(cmds) \in Nat /\ a =< Len(cmds) + 1 /\ Len(l) \in Nat
  OBVIOUS
<1>2. /\ t \in Seq(C) /\ Len(t) = Len(cmds) - a + 1
      /\ \A i \in 1 .. Len(cmds) - a + 1 : t[i] = cmds[a + i - 1]
  <2> HIDE DEF a
  <2> QED
    BY <1>1, SubSeqFacts
<1>3. Deliver(l, first, cmds) = l \o t
  BY DEF Deliver
<1> HIDE DEF t
<1>4. /\ l \o t \in Seq(C) /\ Len(l \o t) = Len(l) + Len(t)
      /\ \A i \in 1 .. Len(l) : (l \o t)[i] = l[i]
      /\ \A i \in Len(l) + 1 .. Len(l) + Len(t) : (l \o t)[i] = t[i - Len(l)]
  BY <1>2
<1> DEFINE r == l \o t
<1> HIDE DEF r
<1>5. /\ r \in Seq(C) /\ Len(r) = first + Len(cmds) - 1
      /\ \A i \in 1 .. Len(l) : r[i] = l[i]
  BY <1>1, <1>2, <1>4 DEF r
<1>6. ASSUME NEW i \in Len(l) + 1 .. first + Len(cmds) - 1
      PROVE  r[i] = cmds[i - first + 1]
  <2>1. i \in Len(l) + 1 .. Len(l) + Len(t)
    BY <1>1, <1>2
  <2>2. i - Len(l) \in 1 .. Len(cmds) - a + 1 /\ a + (i - Len(l)) - 1 = i - first + 1
    BY <1>1
  <2> HIDE DEF a
  <2>3. r[i] = t[i - Len(l)]
    BY <1>4, <2>1 DEF r
  <2> QED
    BY <1>2, <2>2, <2>3
<1> QED
  BY <1>3, <1>5, <1>6 DEF r

\* A part of a numbered sequence is numbered.
LEMMA NumberedPart ==
    ASSUME NEW C, NEW s \in Seq(C), NEW k \in Nat, k =< Len(s), Numbered(1, s)
    PROVE  Numbered(1, SubSeq(s, 1, k))
<1> DEFINE t == SubSeq(s, 1, k)
<1>1. Len(t) = k /\ \A i \in 1 .. k : t[i] = s[i]
  OBVIOUS
<1> HIDE DEF t
<1>2. Len(s) \in Nat
  OBVIOUS
<1>3. Numbered(1, t)
  BY <1>1, <1>2 DEF Numbered
<1> QED
  BY <1>3 DEF t

\* What is delivered is numbered.
LEMMA DeliverNumbered ==
    ASSUME NEW C, NEW l \in Seq(C), NEW first \in Nat \ {0}, NEW cmds \in Seq(C),
           first =< Len(l) + 1, first + Len(cmds) - 1 > Len(l), Numbered(1, l), Numbered(first, cmds)
    PROVE  Numbered(1, Deliver(l, first, cmds))
<1> DEFINE d == Deliver(l, first, cmds)
<1>1. /\ Len(d) = first + Len(cmds) - 1
      /\ \A i \in 1 .. Len(l) : d[i] = l[i]
      /\ \A i \in Len(l) + 1 .. first + Len(cmds) - 1 : d[i] = cmds[i - first + 1]
  BY DeliverFacts
<1> HIDE DEF d
<1>2. Len(l) \in Nat /\ Len(cmds) \in Nat
  OBVIOUS
<1>3. ASSUME NEW i \in 1 .. Len(d) PROVE d[i].seq = 1 + i - 1
  <2>1. CASE i =< Len(l)
    BY <1>1, <1>2, <2>1 DEF Numbered
  <2>2. CASE i > Len(l)
    <3>1. i \in Len(l) + 1 .. first + Len(cmds) - 1 /\ i - first + 1 \in 1 .. Len(cmds)
      BY <1>1, <1>2, <2>2
    <3>2. d[i] = cmds[i - first + 1]
      BY <1>1, <3>1
    <3>3. cmds[i - first + 1].seq = first + (i - first + 1) - 1
      BY <3>1 DEF Numbered
    <3> QED
      BY <3>2, <3>3
  <2> QED
    BY <1>1, <1>2, <2>1, <2>2
<1>4. Numbered(1, d)
  BY <1>3 DEF Numbered
<1> QED
  BY <1>4 DEF d

\* The slots of the ring hold the commands first .. last of l.
RingHas(ring, l, first, last) == \A s \in first .. last : ring[s % RingSize] = l[s]

\* The datagrams for a part of a journal that the ring holds carry that part.
LEMMA PacketsFacts ==
    ASSUME config \in Configs, NEW e, NEW l \in Seq(Commands), Numbered(1, l),
           NEW first \in Nat \ {0},
           NEW last \in Int, last =< Len(l), Len(l) =< MaxSeq, NEW to,
           NEW ring, RingHas(ring, l, first, last),
           NEW m \in Packets(e, ring, first, last, to)
    PROVE  /\ m.kind = "Data" /\ m.epoch = e /\ m.to = to
           /\ IsPacket(m.first, m.cmds)
           /\ m.first + Len(m.cmds) - 1 =< last
           /\ \A i \in 1 .. Len(m.cmds) : m.cmds[i] = l[m.first + i - 1]
<1>1. MaxSeq \in Nat /\ PerPacket \in Nat \ {0}
  BY ConfigFacts
<1>2. PICK s \in first .. last :
        m = Data(e, s, [i \in 1 .. Min({PerPacket, last - s + 1}) |->
                          ring[(s + i - 1) % RingSize]], to)
  BY DEF Packets
<1> DEFINE b == Min({PerPacket, last - s + 1})
<1>3. b = IF PerPacket =< last - s + 1 THEN PerPacket ELSE last - s + 1
  <2>1. last - s + 1 \in Int
    OBVIOUS
  <2> QED
    BY <1>1, <2>1, MinMaxPair
<1> HIDE DEF b
<1>4. s \in Nat \ {0} /\ b \in Nat \ {0} /\ s + b - 1 =< last /\ Len(l) \in Nat
  BY <1>1, <1>3
<1> DEFINE t == [i \in 1 .. b |-> ring[(s + i - 1) % RingSize]]
<1>5. m.kind = "Data" /\ m.epoch = e /\ m.to = to /\ m.first = s /\ m.cmds = t
  BY <1>2 DEF Data, b
<1>6. \A i \in 1 .. b : t[i] = l[s + i - 1] /\ s + i - 1 \in 1 .. Len(l)
  <2> TAKE i \in 1 .. b
  <2>1. s + i - 1 \in first .. last /\ s + i - 1 \in 1 .. Len(l)
    BY <1>4
  <2> QED
    BY <2>1 DEF RingHas
<1>7. t \in [1 .. b -> Commands]
  BY <1>6
<1>8. t \in Seq(Commands) /\ Len(t) = b
  <2> HIDE DEF t
  <2> QED
    BY <1>4, <1>7
<1>9. \A i \in 1 .. b : t[i].seq = s + i - 1
  <2> TAKE i \in 1 .. b
  <2>1. s + i - 1 \in 1 .. Len(l) /\ t[i] = l[s + i - 1]
    BY <1>6
  <2>2. l[s + i - 1].seq = 1 + (s + i - 1) - 1
    BY <2>1 DEF Numbered
  <2> QED
    BY <1>4, <2>1, <2>2
<1> HIDE DEF t
<1>10. Numbered(s, t)
  BY <1>8, <1>9 DEF Numbered
<1>11. IsPacket(s, t) /\ s + Len(t) - 1 =< last
  BY <1>1, <1>4, <1>8, <1>10 DEF IsPacket
<1> QED
  BY <1>5, <1>6, <1>8, <1>11

-----------------------------------------------------------------------------
(* Subscriber::drain: what is delivered from the stash. *)

\* A stash is a function from sequence numbers to packets.
LEMMA StashFacts ==
    ASSUME NEW t
    PROVE  t \in Stashes <=> /\ t = [f \in DOMAIN t |-> t[f]]
                             /\ DOMAIN t \subseteq Seqno
                             /\ \A f \in DOMAIN t : IsPacket(f, t[f])
<1>1. ASSUME t \in Stashes
      PROVE  t = [f \in DOMAIN t |-> t[f]] /\ DOMAIN t \subseteq Seqno
             /\ \A f \in DOMAIN t : IsPacket(f, t[f])
  <2>1. PICK D \in SUBSET Seqno : t \in [D -> Seq(Commands)]
    BY <1>1 DEF Stashes
  <2> QED
    BY <1>1, <2>1 DEF Stashes
<1>2. ASSUME t = [f \in DOMAIN t |-> t[f]], DOMAIN t \subseteq Seqno,
             \A f \in DOMAIN t : IsPacket(f, t[f])
      PROVE  t \in Stashes
  <2>1. t \in [DOMAIN t -> Seq(Commands)]
    BY <1>2 DEF IsPacket
  <2> QED
    BY <1>2, <2>1 DEF Stashes
<1> QED
  BY <1>1, <1>2

\* A stash is finite, and so is what is left of it.
LEMMA StashFinite ==
    ASSUME config \in Configs, NEW t \in Stashes
    PROVE  /\ IsFiniteSet(DOMAIN t) /\ Cardinality(DOMAIN t) \in Nat
           /\ Cardinality(DOMAIN t) = 0 => DOMAIN t = {}
           /\ \A f \in DOMAIN t :
                 Cardinality(DOMAIN t \ {f}) = Cardinality(DOMAIN t) - 1
<1>1. MaxSeq \in Nat
  BY ConfigFacts
<1>2. DOMAIN t \in SUBSET Seqno
  BY StashFacts
<1>3. IsFiniteSet(Seqno)
  BY <1>1, FS_Interval DEF Seqno
<1>4. IsFiniteSet(DOMAIN t)
  BY <1>2, <1>3, FS_Subset
<1> QED
  BY <1>4, FS_EmptySet, FS_CardinalityType, FS_RemoveElement

Drains == {s \in [log : Seq(Commands), stash : Stashes] : Numbered(1, s.log)}

\* Nothing in the stash can be delivered.
Drained(s) == \A f \in DOMAIN s.stash : f > Len(s.log) + 1

\* The packet says what g says.
Tells(first, cmds, g) == \A i \in 1 .. Len(cmds) : cmds[i] = g[first + i - 1]

\* What one or more deliveries from the stash leave of s.
Extends(s, u) ==
    /\ Len(s.log) =< Len(u.log)
    /\ \A i \in 1 .. Len(s.log) : u.log[i] = s.log[i]
    /\ DOMAIN u.stash \subseteq DOMAIN s.stash
    /\ \A f \in DOMAIN u.stash : u.stash[f] = s.stash[f]
    /\ Len(u.log) = Len(s.log) \/ \E f \in DOMAIN s.stash : Len(u.log) = f + Len(s.stash[f]) - 1
    /\ \A g : /\ \A i \in 1 .. Len(s.log) : s.log[i] = g[i]
              /\ \A f \in DOMAIN s.stash : Tells(f, s.stash[f], g)
              => \A i \in 1 .. Len(u.log) : u.log[i] = g[i]

\* Deliveries compose.
LEMMA ExtendsTransitive ==
    ASSUME NEW s \in Drains, NEW u \in Drains, NEW v \in Drains, Extends(s, u), Extends(u, v)
    PROVE  Extends(s, v)
<1>1. Len(s.log) \in Nat /\ Len(u.log) \in Nat /\ Len(v.log) \in Nat
  BY DEF Drains
<1>2. /\ Len(s.log) =< Len(v.log) /\ \A i \in 1 .. Len(s.log) : v.log[i] = s.log[i]
      /\ DOMAIN v.stash \subseteq DOMAIN s.stash
      /\ \A f \in DOMAIN v.stash : v.stash[f] = s.stash[f]
  BY <1>1 DEF Extends
<1>3. Len(v.log) = Len(s.log) \/ \E f \in DOMAIN s.stash : Len(v.log) = f + Len(s.stash[f]) - 1
  BY DEF Extends
<1>4. ASSUME NEW g, \A i \in 1 .. Len(s.log) : s.log[i] = g[i],
             \A f \in DOMAIN s.stash : Tells(f, s.stash[f], g)
      PROVE  \A i \in 1 .. Len(v.log) : v.log[i] = g[i]
  <2>1. \A i \in 1 .. Len(u.log) : u.log[i] = g[i]
    BY <1>4 DEF Extends
  <2>2. \A f \in DOMAIN u.stash : Tells(f, u.stash[f], g)
    BY <1>4 DEF Extends
  <2> QED
    BY <2>1, <2>2 DEF Extends
<1> QED
  BY <1>2, <1>3, <1>4 DEF Extends

\* One delivery: the stash shrinks by one packet, or nothing can be delivered.
LEMMA DrainOneFacts ==
    ASSUME config \in Configs, NEW s \in Drains
    PROVE  /\ DrainOne(s) \in Drains
           /\ Extends(s, DrainOne(s))
           /\ Drained(s) => DrainOne(s) = s
           /\ ~Drained(s) => Cardinality(DOMAIN DrainOne(s).stash) = Cardinality(DOMAIN s.stash) - 1
<1> DEFINE D == DOMAIN s.stash
           first == Min(D)
           cmds == s.stash[first]
           l == IF first + Len(cmds) - 1 > Len(s.log) THEN Deliver(s.log, first, cmds) ELSE s.log
           t == Restrict(s.stash, D \ {first})
<1>1. /\ s.log \in Seq(Commands) /\ s.stash \in Stashes /\ Len(s.log) \in Nat
      /\ Numbered(1, s.log)
  BY DEF Drains
<1>2. D \subseteq Seqno /\ D \subseteq Nat /\ \A f \in D : IsPacket(f, s.stash[f])
  BY <1>1, StashFacts DEF Seqno
<1>3. DrainOne(s) = IF D = {} \/ first > Len(s.log) + 1 THEN s ELSE [log |-> l, stash |-> t]
  BY DEF DrainOne
<1>4. D # {} => first \in D /\ \A f \in D : first =< f
  <2> HIDE DEF D
  <2> QED
    BY <1>2, MinNat
<1> HIDE DEF first
<1>5. Extends(s, s)
  BY <1>1 DEF Extends
<1>6. Drained(s) <=> D = {} \/ first > Len(s.log) + 1
  BY <1>1, <1>2, <1>4 DEF Drained
<1>7. CASE Drained(s)
  BY <1>3, <1>5, <1>6, <1>7
<1>8. CASE ~Drained(s)
  <2> DEFINE u == [log |-> l, stash |-> t]
  <2>9. first \in D /\ first \in Nat /\ first =< Len(s.log) + 1 /\ DrainOne(s) = u
    <3>1. D # {} /\ ~(first > Len(s.log) + 1)
      BY <1>6, <1>8
    <3>2. first \in D /\ first \in Nat
      BY <1>2, <1>4, <3>1
    <3> QED
      BY <1>1, <1>3, <3>1, <3>2
  <2>10. IsPacket(first, cmds)
    BY <1>2, <2>9
  <2>1. /\ first \in D /\ first =< Len(s.log) + 1 /\ IsPacket(first, cmds)
        /\ first \in Nat \ {0} /\ cmds \in Seq(Commands) /\ DrainOne(s) = u
        /\ Numbered(first, cmds)
    <3> HIDE DEF u, cmds
    <3> QED
      BY <2>9, <2>10 DEF IsPacket
  <2>2. t \in Stashes /\ DOMAIN t = D \ {first} /\ \A f \in DOMAIN t : t[f] = s.stash[f]
    <3>1. DOMAIN t = D \ {first} /\ \A f \in DOMAIN t : t[f] = s.stash[f]
      BY DEF Restrict
    <3>2. t = [f \in DOMAIN t |-> t[f]]
      BY DEF Restrict
    <3> HIDE DEF t, D
    <3> QED
      BY <1>2, <3>1, <3>2, StashFacts DEF D
  <2> HIDE DEF t, cmds
  <2>3. /\ l \in Seq(Commands) /\ Len(s.log) =< Len(l)
        /\ \A i \in 1 .. Len(s.log) : l[i] = s.log[i]
        /\ Len(l) = Len(s.log) \/ Len(l) = first + Len(cmds) - 1
        /\ \A i \in Len(s.log) + 1 .. Len(l) :
              i - first + 1 \in 1 .. Len(cmds) /\ l[i] = cmds[i - first + 1]
    <3>1. CASE first + Len(cmds) - 1 > Len(s.log)
      <4> DEFINE d == Deliver(s.log, first, cmds)
      <4>1. l = d
        BY <3>1
      <4>2. /\ d \in Seq(Commands) /\ Len(d) = first + Len(cmds) - 1
            /\ \A i \in 1 .. Len(s.log) : d[i] = s.log[i]
            /\ \A i \in Len(s.log) + 1 .. first + Len(cmds) - 1 : d[i] = cmds[i - first + 1]
        <5> DEFINE sl == s.log
        <5>1. /\ sl \in Seq(Commands) /\ first \in Nat \ {0} /\ cmds \in Seq(Commands)
              /\ first =< Len(sl) + 1 /\ first + Len(cmds) - 1 > Len(sl)
          BY <1>1, <2>1, <3>1
        <5> HIDE DEF sl, l
        <5>2. /\ Deliver(sl, first, cmds) \in Seq(Commands)
              /\ Len(Deliver(sl, first, cmds)) = first + Len(cmds) - 1
              /\ \A i \in 1 .. Len(sl) : Deliver(sl, first, cmds)[i] = sl[i]
              /\ \A i \in Len(sl) + 1 .. first + Len(cmds) - 1 :
                    Deliver(sl, first, cmds)[i] = cmds[i - first + 1]
          BY <5>1, DeliverFacts
        <5> QED
          BY <5>2 DEF sl
      <4> HIDE DEF d, l
      <4>3. Len(cmds) \in Nat
        BY <2>1
      <4>4. \A i \in Len(s.log) + 1 .. Len(l) : i - first + 1 \in 1 .. Len(cmds)
        BY <1>1, <2>1, <4>1, <4>2, <4>3
      <4> QED
        BY <1>1, <2>1, <3>1, <4>1, <4>2, <4>3, <4>4
    <3>2. CASE ~(first + Len(cmds) - 1 > Len(s.log))
      BY <1>1, <3>2
    <3> QED
      BY <3>1, <3>2
  <2>8. Numbered(1, l)
    <3>1. CASE first + Len(cmds) - 1 > Len(s.log)
      <4> DEFINE d == Deliver(s.log, first, cmds)
                 sl == s.log
      <4>1. l = d
        BY <3>1
      <4>2. /\ sl \in Seq(Commands) /\ first \in Nat \ {0} /\ cmds \in Seq(Commands)
            /\ first =< Len(sl) + 1 /\ first + Len(cmds) - 1 > Len(sl)
            /\ Numbered(1, sl) /\ Numbered(first, cmds)
        BY <1>1, <2>1, <3>1
      <4> HIDE DEF sl, l, d
      <4>3. Numbered(1, Deliver(sl, first, cmds))
        BY <4>2, DeliverNumbered
      <4> QED
        BY <4>1, <4>3 DEF d, sl
    <3>2. CASE ~(first + Len(cmds) - 1 > Len(s.log))
      BY <1>1, <3>2
    <3> QED
      BY <3>1, <3>2
  <2> HIDE DEF l
  <2>4. u \in Drains /\ u.log = l /\ u.stash = t
    BY <2>2, <2>3, <2>8 DEF Drains
  <2>5. ASSUME NEW g, \A i \in 1 .. Len(s.log) : s.log[i] = g[i],
               \A f \in D : Tells(f, s.stash[f], g)
        PROVE  \A i \in 1 .. Len(l) : l[i] = g[i]
    <3> TAKE i \in 1 .. Len(l)
    <3>1. CASE i \in 1 .. Len(s.log)
      BY <2>3, <2>5, <3>1
    <3>2. CASE i \in Len(s.log) + 1 .. Len(l)
      <4>1. l[i] = cmds[i - first + 1] /\ i - first + 1 \in 1 .. Len(cmds)
        BY <2>3, <3>2
      <4>2. Tells(first, cmds, g)
        BY <2>1, <2>5 DEF cmds
      <4>3. first + (i - first + 1) - 1 = i
        BY <2>1
      <4> QED
        BY <4>1, <4>2, <4>3 DEF Tells
    <3>3. i \in 1 .. Len(s.log) \/ i \in Len(s.log) + 1 .. Len(l)
      BY <1>1, <2>3
    <3> QED
      BY <3>1, <3>2, <3>3
  <2>6. Extends(s, u)
    <3>1. Len(l) = Len(s.log) \/ \E f \in D : Len(l) = f + Len(s.stash[f]) - 1
      BY <2>1, <2>3 DEF cmds
    <3> HIDE DEF u
    <3> QED
      BY <2>2, <2>3, <2>4, <2>5, <3>1 DEF Extends
  <2>7. Cardinality(DOMAIN t) = Cardinality(D) - 1
    BY <1>1, <2>1, <2>2, StashFinite
  <2> HIDE DEF u
  <2> QED
    BY <1>8, <2>1, <2>4, <2>6, <2>7
<1> QED
  BY <1>7, <1>8

\* All deliveries: what can be delivered is.
LEMMA DrainFacts ==
    ASSUME config \in Configs, NEW l \in Seq(Commands), NEW t \in Stashes, Numbered(1, l)
    PROVE  /\ DrainStash(l, t) \in Drains
           /\ Extends([log |-> l, stash |-> t], DrainStash(l, t))
           /\ Drained(DrainStash(l, t))
<1> DEFINE A == [log |-> l, stash |-> t]
           N == Cardinality(DOMAIN t)
           F == [k \in 1 .. N |-> [s \in Drains |-> DrainOne(s)]]
           Body(h) == [k \in 0 .. N |-> IF k = 0 THEN A ELSE DrainOne(h[k - 1])]
           Step == CHOOSE h : h = Body(h)
<1>1. N \in Nat
  BY StashFinite
<1>2. A \in Drains /\ A.log = l /\ A.stash = t
  BY DEF Drains
<1>3. DrainStash(l, t) = Step[N]
  BY DEF DrainStash
<1> HIDE DEF N, A
<1>4. F \in [1 .. N -> [Drains -> Drains]]
  BY DrainOneFacts
<1>5. PICK g : IsIteration(g, N, Drains, A, F)
  <2> HIDE DEF F
  <2> QED
    BY <1>1, <1>2, <1>4, IterationExists
<1>6. g = [k \in 0 .. N |-> g[k]] /\ g[0] = A /\ \A k \in 0 .. N : g[k] \in Drains
  BY <1>5 DEF IsIteration
<1>7. \A k \in 1 .. N : g[k] = DrainOne(g[k - 1])
  <2> TAKE k \in 1 .. N
  <2>1. g[k] = F[k][g[k - 1]]
    BY <1>5 DEF IsIteration
  <2>2. k - 1 \in 0 .. N
    BY <1>1
  <2>3. g[k - 1] \in Drains
    BY <1>6, <2>2
  <2> QED
    BY <2>1, <2>3
<1>8. g = Body(g)
  <2>1. \A k \in 0 .. N : g[k] = IF k = 0 THEN A ELSE DrainOne(g[k - 1])
    <3> TAKE k \in 0 .. N
    <3>1. k = 0 \/ k \in 1 .. N
      BY <1>1
    <3> QED
      BY <1>6, <1>7, <3>1
  <2> QED
    BY <1>6, <2>1
<1>9. Step = Body(Step)
  <2> HIDE DEF Body
  <2> QED
    BY <1>8
<1> HIDE DEF Step
<1>10. Step[0] = A /\ \A k \in 1 .. N : Step[k] = DrainOne(Step[k - 1])
  BY <1>1, <1>9
<1> DEFINE S == {k \in 0 .. N : /\ Step[k] \in Drains /\ Extends(A, Step[k])
                                /\ \/ Drained(Step[k])
                                   \/ Cardinality(DOMAIN Step[k].stash) = N - k}
<1>11. 0 \in S
  <2>1. Extends(A, A)
    BY <1>2 DEF Extends, Drains
  <2>2. Cardinality(DOMAIN A.stash) = N - 0
    BY <1>1, <1>2 DEF N
  <2> QED
    BY <1>1, <1>2, <1>10, <2>1, <2>2
<1>12. \A k \in 0 .. N - 1 : k \in S => k + 1 \in S
  <2> SUFFICES ASSUME NEW k \in 0 .. N - 1, k \in S PROVE k + 1 \in S
    OBVIOUS
  <2> DEFINE s == Step[k]
             u == Step[k + 1]
  <2>1. k + 1 \in 1 .. N /\ k + 1 \in 0 .. N /\ (k + 1) - 1 = k
    BY <1>1
  <2>2. u = DrainOne(s)
    BY <1>10, <2>1
  <2>3. s \in Drains /\ Extends(A, s) /\ (Drained(s) \/ Cardinality(DOMAIN s.stash) = N - k)
    OBVIOUS
  <2> HIDE DEF s, u
  <2>4. /\ u \in Drains
        /\ Extends(s, u)
        /\ Drained(s) => u = s
        /\ ~Drained(s) => Cardinality(DOMAIN u.stash) = Cardinality(DOMAIN s.stash) - 1
    BY <2>2, <2>3, DrainOneFacts
  <2>5. Extends(A, u)
    BY <1>2, <2>3, <2>4, ExtendsTransitive
  <2>6. Drained(u) \/ Cardinality(DOMAIN u.stash) = N - (k + 1)
    BY <1>1, <2>3, <2>4
  <2> QED
    BY <2>1, <2>4, <2>5, <2>6 DEF u
<1>13. N \in S
  <2> HIDE DEF S
  <2>1. 0 .. N \subseteq S
    BY <1>1, <1>11, <1>12, UpTo
  <2> QED
    BY <1>1, <2>1
<1>14. Drained(Step[N])
  <2>1. Step[N] \in Drains /\ (Drained(Step[N]) \/ Cardinality(DOMAIN Step[N].stash) = N - N)
    BY <1>13
  <2>2. Step[N].stash \in Stashes
    BY <2>1 DEF Drains
  <2>3. Cardinality(DOMAIN Step[N].stash) = 0 => DOMAIN Step[N].stash = {}
    BY <2>2, StashFinite
  <2> QED
    BY <1>1, <2>1, <2>3 DEF Drained
<1> QED
  BY <1>3, <1>13, <1>14 DEF A

-----------------------------------------------------------------------------
(* Steps of one node. *)

\* The types do not change, because the deployment does not.
SameTypes ==
    /\ MaxSeq' = MaxSeq /\ Commands' = Commands /\ Seqno' = Seqno /\ Runs' = Runs
    /\ Subscribers' = Subscribers /\ Publishers' = Publishers /\ NoPub' = NoPub
    /\ RingSize' = RingSize /\ MaxBatch' = MaxBatch

\* They do not.
LEMMA Rigid ==
    ASSUME config' = config
    PROVE  SameTypes /\ \A m : IsDatagram(m)' <=> IsDatagram(m)
<1>1. /\ MaxSeq' = MaxSeq /\ Commands' = Commands /\ Seqno' = Seqno /\ Runs' = Runs
      /\ RingSize' = RingSize /\ MaxBatch' = MaxBatch
  BY DEF MaxSeq, MaxRuns, Commands, Seqno, Runs, RingSize, MaxBatch
<1>2. \A f, c : IsPacket(f, c)' <=> IsPacket(f, c)
  BY <1>1 DEF IsPacket, Numbered
<1>3. Stashes' = Stashes
  BY <1>1, <1>2, Zenon DEF Stashes
<1>4. Subscribers' = Subscribers
  BY <1>3, Zenon DEF Subscribers
<1>5. \A m : IsDatagram(m)' <=> IsDatagram(m)
  BY <1>2, Zenon DEF IsDatagram
<1>6. Rings' = Rings
  BY <1>1, Zenon DEF Rings, Blank, Command
<1>7. Publishers' = Publishers
  BY <1>6, Zenon DEF Publishers
<1>8. NoPub' = NoPub
  BY <1>1, Zenon DEF NoPub, Blank, Command
<1> QED
  BY <1>1, <1>4, <1>5, <1>7, <1>8, Zenon DEF SameTypes

RoleNames == {"off", "primary", "replica", "stopped", "halted", "dead"}

\* Only the state of node n changes.
OnlyNode(n) ==
    /\ role' = [role EXCEPT ![n] = role'[n]]
    /\ log' = [log EXCEPT ![n] = log'[n]]
    /\ durable' = [durable EXCEPT ![n] = durable'[n]]
    /\ epoch' = [epoch EXCEPT ![n] = epoch'[n]]
    /\ pub' = [pub EXCEPT ![n] = pub'[n]]
    /\ sub' = [sub EXCEPT ![n] = sub'[n]]

\* A flushed journal record stays where it is.
Keeps(n) ==
    /\ durable[n] =< durable'[n]
    /\ \A i \in 1 .. durable[n] : log'[n][i] = log[n][i]

NodeTypes(n) ==
    /\ role[n] \in RoleNames
    /\ log[n] \in Seq(Commands)
    /\ durable[n] \in Nat
    /\ epoch[n] \in Nat
    /\ pub[n] \in Publishers
    /\ sub[n] \in Subscribers

\* What a step of node n has to show.
NodeStep(n) ==
    /\ config' = config
    /\ OnlyNode(n)
    /\ NodeTypes(n)'
    /\ NodeInv(n)'
    /\ Flushed(n)'
    /\ Keeps(n)

\* What it can use.
LEMMA NodeFacts ==
    ASSUME BaseInv, NEW n \in Nodes
    PROVE  /\ config \in Configs
           /\ NodeTypes(n) /\ Positions(n) /\ Roles(n) /\ (n = Server => epoch[n] = 1) /\ Flushed(n)
           /\ RingInv(n) /\ Len(log[n]) \in Nat
<1>1. log[n] \in Seq(Commands)
  BY DEF BaseInv, TypeInv, StateTypes
<1> QED
  BY <1>1 DEF BaseInv, TypeInv, WriteAhead, StateTypes, NodeInv, NodeTypes, RoleNames

\* The numbers a node counts are positions in its journal.
LEMMA SeqFacts ==
    ASSUME BaseInv, NEW n \in Nodes
    PROVE  /\ LastSeq(n) = Len(log[n]) /\ NextSeq(n) = Len(log[n]) + 1
           /\ Expected(n) = Len(log[n]) + 1 /\ Len(log[n]) \in Nat
<1> DEFINE l == log[n]
<1>1. l \in Seq(Commands) /\ Numbered(1, l) /\ Len(l) \in Nat
  BY NodeFacts DEF NodeTypes, Positions
<1>2. LastSeq(n) = IF l = <<>> THEN 0 ELSE l[Len(l)].seq
  BY DEF LastSeq, Last
<1> HIDE DEF l
<1>3. CASE l = <<>>
  BY <1>1, <1>2, <1>3 DEF NextSeq, Expected, l
<1>4. CASE l # <<>>
  <2>1. Len(l) \in 1 .. Len(l)
    BY <1>1, <1>4
  <2>2. l[Len(l)].seq = 1 + Len(l) - 1
    <3>1. \A i \in 1 .. Len(l) : l[i].seq = 1 + i - 1
      BY <1>1 DEF Numbered
    <3> QED
      BY <2>1, <3>1
  <2>3. LastSeq(n) = Len(l)
    BY <1>1, <1>2, <1>4, <2>2
  <2> QED
    BY <1>1, <2>3 DEF NextSeq, Expected, l
<1> QED
  BY <1>3, <1>4

\* The step of a node keeps what holds of every node.
LEMMA NodeStepKeeps ==
    ASSUME BaseInv, NEW n \in Nodes, NodeStep(n),
           NetTypes', runs' \in Runs, released' \subseteq Seqno \X Commands
    PROVE  BaseInv' /\ \A x \in Nodes : Keeps(x)
<1>1. config' \in Configs /\ SameTypes
  BY Rigid DEF BaseInv, TypeInv, StateTypes, NodeStep
<1>2. StateTypes'
  BY <1>1 DEF StateTypes, BaseInv, TypeInv, NodeStep, OnlyNode, NodeTypes, RoleNames, SameTypes
<1>3. ASSUME NEW x \in Nodes, x # n
      PROVE  /\ role'[x] = role[x] /\ log'[x] = log[x] /\ durable'[x] = durable[x]
             /\ epoch'[x] = epoch[x] /\ pub'[x] = pub[x] /\ sub'[x] = sub[x]
  BY <1>3 DEF BaseInv, TypeInv, StateTypes, NodeStep, OnlyNode
<1>4. ASSUME NEW x \in Nodes PROVE NodeInv(x)' /\ Flushed(x)' /\ Keeps(x)
  <2>1. CASE x = n
    BY <2>1 DEF NodeStep
  <2>2. CASE x # n
    <3>1. NodeInv(x) /\ Flushed(x) /\ durable[x] \in Nat
      BY DEF BaseInv, TypeInv, WriteAhead, StateTypes
    <3>2. NodeInv(x)'
      BY <1>1, <1>3, <2>2, <3>1 DEF NodeInv, Positions, Roles, RingInv, SameTypes, Numbered
    <3>3. Flushed(x)'
      BY <1>3, <2>2, <3>1 DEF Flushed
    <3>4. Keeps(x)
      BY <1>3, <2>2, <3>1 DEF Keeps
    <3> QED
      BY <3>2, <3>3, <3>4
  <2> QED
    BY <2>1, <2>2
<1> QED
  BY <1>1, <1>2, <1>4 DEF BaseInv, TypeInv, WriteAhead, SameTypes

\* A step that leaves the nodes alone.
LEMMA NodesStay ==
    ASSUME BaseInv, config' = config, UNCHANGED <<role, log, durable, epoch, pub, sub>>,
           NetTypes', runs' \in Runs, released' \subseteq Seqno \X Commands
    PROVE  BaseInv' /\ \A x \in Nodes : Keeps(x)
<1>1. \A x \in Nodes : NodeStep(x)
  <2> TAKE x \in Nodes
  <2>1. NodeTypes(x) /\ NodeInv(x) /\ Flushed(x)
    BY NodeFacts DEF NodeInv
  <2>2. SameTypes
    BY Rigid
  <2>3. OnlyNode(x)
    BY DEF OnlyNode, BaseInv, TypeInv, StateTypes
  <2>4. NodeTypes(x)'
    BY <2>1, <2>2 DEF NodeTypes, SameTypes
  <2>5. NodeInv(x)'
    BY <2>1, <2>2 DEF NodeInv, Positions, Roles, RingInv, SameTypes, Numbered
  <2>6. Flushed(x)'
    BY <2>1 DEF Flushed
  <2>7. Keeps(x)
    BY <2>1 DEF Keeps, NodeTypes
  <2> QED
    BY <2>3, <2>4, <2>5, <2>6, <2>7 DEF NodeStep
<1>2. Server \in Nodes
  BY ReplicationAssumption
<1> QED
  BY <1>1, <1>2, NodeStepKeeps

\* The network holds datagrams.
LEMMA NetKeeps ==
    ASSUME BaseInv, config' = config, \A m \in net' : m \in net \/ IsDatagram(m)
    PROVE  NetTypes'
BY Rigid DEF BaseInv, TypeInv, NetTypes

\* So does the network once a datagram was received.
LEMMA ReceivedFacts ==
    ASSUME NEW m, NEW x \in Received(m)
    PROVE  x \in net
BY DEF Received

\* The datagram carries commands of n's journal, none after last.
Carries(m, n, last) ==
    /\ IsDatagram(m) /\ m.kind = "Data" /\ m.epoch = epoch[n]
    /\ m.first + Len(m.cmds) - 1 =< last
    /\ \A i \in 1 .. Len(m.cmds) : m.cmds[i] = log[n][m.first + i - 1]

\* The datagrams for a part of a node's journal that its ring holds.
LEMMA NodePackets ==
    ASSUME BaseInv, NEW n \in Nodes, role[n] = "primary", NEW first \in Nat \ {0}, NEW last \in Int,
           last =< Len(log[n]), pub[n].from =< first, Len(log[n]) < first + RingSize,
           NEW to, NEW m \in Packets(epoch[n], pub[n].ring, first, last, to)
    PROVE  Carries(m, n, last)
<1>1. config \in Configs /\ NodeTypes(n) /\ Positions(n) /\ Roles(n) /\ RingInv(n)
  BY NodeFacts
<1>2. /\ log[n] \in Seq(Commands) /\ Len(log[n]) =< MaxSeq /\ epoch[n] \in Nat \ {0}
      /\ Numbered(1, log[n]) /\ pub[n].from \in Nat /\ Len(log[n]) \in Nat /\ RingSize \in Nat
  <2>1. log[n] \in Seq(Commands) /\ epoch[n] \in Nat /\ pub[n].from \in Nat
    BY <1>1 DEF NodeTypes, Publishers
  <2>2. Len(log[n]) =< MaxSeq /\ Numbered(1, log[n]) /\ epoch[n] # 0
    BY <1>1 DEF Positions, Roles
  <2>3. RingSize \in Nat /\ Len(log[n]) \in Nat
    BY <1>1, NodeFacts, ConfigFacts
  <2> QED
    BY <2>1, <2>2, <2>3
<1>3. RingHas(pub[n].ring, log[n], first, last)
  <2> SUFFICES ASSUME NEW s \in first .. last
               PROVE  pub[n].ring[s % RingSize] = log[n][s]
    BY DEF RingHas
  <2>1. s \in 1 .. Len(log[n]) /\ pub[n].from =< s /\ Len(log[n]) < s + RingSize
    BY <1>2
  <2> QED
    BY <1>1, <2>1 DEF RingInv
<1>4. /\ m.kind = "Data" /\ m.epoch = epoch[n]
      /\ IsPacket(m.first, m.cmds)
      /\ m.first + Len(m.cmds) - 1 =< last
      /\ \A i \in 1 .. Len(m.cmds) : m.cmds[i] = log[n][m.first + i - 1]
  <2> DEFINE l == log[n]
             e == epoch[n]
             g == pub[n].ring
  <2>1. /\ l \in Seq(Commands) /\ Numbered(1, l) /\ Len(l) =< MaxSeq /\ last =< Len(l)
        /\ RingHas(g, l, first, last) /\ m \in Packets(e, g, first, last, to)
    BY <1>2, <1>3
  <2> HIDE DEF l, e, g
  <2>2. /\ m.kind = "Data" /\ m.epoch = e /\ m.to = to
        /\ IsPacket(m.first, m.cmds)
        /\ m.first + Len(m.cmds) - 1 =< last
        /\ \A i \in 1 .. Len(m.cmds) : m.cmds[i] = l[m.first + i - 1]
    BY <1>1, <2>1, PacketsFacts
  <2> QED
    BY <2>2 DEF l, e
<1>5. IsDatagram(m)
  BY <1>2, <1>4 DEF IsDatagram, IsPacket, Kinds
<1> QED
  BY <1>4, <1>5 DEF Carries

\* What is staged: the ring holds all of the batch.
LEMMA StagedFacts ==
    ASSUME BaseInv, NEW n \in Nodes, role[n] = "primary", NEW m \in Staged(n)
    PROVE  Carries(m, n, Len(log[n]))
<1>1. /\ NodeTypes(n) /\ Positions(n) /\ RingInv(n) /\ Len(log[n]) \in Nat
      /\ MaxBatch =< RingSize /\ MaxBatch \in Nat /\ RingSize \in Nat
  BY NodeFacts, ConfigFacts DEF BaseInv
<1>2. /\ pub[n].sent \in Nat /\ pub[n].base \in Nat /\ pub[n].from \in Nat
      /\ pub[n].base =< pub[n].sent
      /\ Len(log[n]) =< pub[n].base + MaxBatch /\ pub[n].from =< pub[n].base + 1
  BY <1>1 DEF NodeTypes, Publishers, Positions, RingInv
<1> DEFINE first == pub[n].sent + 1
           last == Len(log[n])
<1>3. /\ first \in Nat \ {0} /\ last \in Int /\ last =< Len(log[n])
      /\ pub[n].from =< first /\ Len(log[n]) < first + RingSize
  <2> DEFINE b == pub[n].base
             s == pub[n].sent
             f == pub[n].from
             k == Len(log[n])
  <2>1. /\ b \in Nat /\ s \in Nat /\ f \in Nat /\ k \in Nat /\ b =< s /\ k =< b + MaxBatch
        /\ f =< b + 1
    BY <1>1, <1>2
  <2> HIDE DEF b, s, f, k
  <2>2. s + 1 \in Nat \ {0} /\ k \in Int /\ k =< k /\ f =< s + 1 /\ k < s + 1 + RingSize
    BY <1>1, <2>1
  <2> QED
    BY <2>2 DEF b, s, f, k
<1>4. m \in Packets(epoch[n], pub[n].ring, first, last, Group)
  BY SeqFacts DEF Staged
<1> HIDE DEF first, last
<1>5. Carries(m, n, last)
  BY <1>3, <1>4, NodePackets, Zenon
<1> QED
  BY <1>5 DEF last

\* The datagrams a primary sends without commands.
LEMMA MarkerFacts ==
    ASSUME BaseInv, NEW n \in Nodes, role[n] = "primary"
    PROVE  IsDatagram(Heartbeat(epoch[n], NextSeq(n))) /\ IsDatagram(End(epoch[n], NextSeq(n)))
<1>1. epoch[n] \in Nat \ {0} /\ NextSeq(n) \in Nat
  BY NodeFacts, SeqFacts DEF NodeTypes, Roles
<1> QED
  BY <1>1 DEF IsDatagram, Heartbeat, End, Kinds

-----------------------------------------------------------------------------
(* The primary. *)

\* The clients of the batch are answered.
LEMMA AnswersTyped ==
    ASSUME BaseInv, NEW n \in Nodes
    PROVE  /\ Answers(n) \subseteq Seqno \X Commands
           /\ \A a \in Answers(n) : a[1] \in pub[n].base + 1 .. Len(log[n]) /\ a[2] = log[n][a[1]]
<1>1. /\ log[n] \in Seq(Commands) /\ Len(log[n]) =< MaxSeq /\ pub[n].base \in Nat
      /\ Len(log[n]) \in Nat /\ MaxSeq \in Nat
  BY NodeFacts, ConfigFacts DEF NodeTypes, Positions, Publishers
<1>2. ASSUME NEW a \in Answers(n)
      PROVE  a \in Seqno \X Commands /\ a[1] \in pub[n].base + 1 .. Len(log[n]) /\ a[2] = log[n][a[1]]
  <2>1. PICK s \in pub[n].base + 1 .. Len(log[n]) : a = <<s, log[n][s]>>
    BY DEF Answers, Batch
  <2>2. s \in Seqno /\ log[n][s] \in Commands
    BY <1>1, <2>1 DEF Seqno
  <2> QED
    BY <2>1, <2>2
<1> QED
  BY <1>2

\* Every number has a slot of the ring.
LEMMA SlotFacts ==
    ASSUME config \in Configs, NEW s \in Nat
    PROVE  s % RingSize \in 0 .. RingSize - 1
<1> DEFINE C == RingSize
<1>1. C \in Nat \ {0} /\ s \in Int
  BY ConfigFacts
<1> HIDE DEF C
<1>2. s % C \in 0 .. C - 1
  BY <1>1, ModFacts
<1> QED
  BY <1>2 DEF C

\* The slot of the next command is not one of those the ring must keep.
LEMMA RingTakes ==
    ASSUME BaseInv, NEW n \in Nodes, role[n] = "primary", NEW c \in Commands,
           NEW ring, ring = [pub[n].ring EXCEPT ![(Len(log[n]) + 1) % RingSize] = c],
           NEW s \in 1 .. Len(log[n]) + 1,
           pub[n].from =< s, Len(log[n]) + 1 < s + RingSize
    PROVE  ring[s % RingSize] = Append(log[n], c)[s]
<1> DEFINE l == log[n]
           g == pub[n].ring
           k == Len(l) + 1
<1>1. /\ l \in Seq(Commands) /\ Len(l) \in Nat /\ g \in [0 .. RingSize - 1 -> Commands \cup {Blank}]
      /\ RingSize \in Nat \ {0} /\ pub[n].from \in Nat /\ config \in Configs
  BY NodeFacts, ConfigFacts DEF NodeTypes, Publishers, Rings
<1>2. k % RingSize \in 0 .. RingSize - 1 /\ s % RingSize \in 0 .. RingSize - 1
  <2>1. k \in Nat /\ s \in Nat
    BY <1>1
  <2> HIDE DEF k
  <2> QED
    BY <1>1, <2>1, SlotFacts, Zenon
<1>3. CASE s = k
  <2>1. Append(l, c)[k] = c
    BY <1>1
  <2>2. ring[k % RingSize] = c
    BY <1>1, <1>2
  <2> QED
    BY <1>3, <2>1, <2>2
<1>4. CASE s # k
  <2>1. s \in 1 .. Len(l) /\ 0 < k - s /\ k - s < RingSize /\ k \in Int /\ s \in Int
        /\ Len(l) < s + RingSize
    BY <1>1, <1>4
  <2>2. k % RingSize # s % RingSize
    <3> HIDE DEF k
    <3> QED
      BY <1>1, <2>1, ModDistinct
  <2>3. ring[s % RingSize] = g[s % RingSize]
    BY <1>1, <1>2, <2>2
  <2>4. g[s % RingSize] = l[s]
    BY <2>1, NodeFacts DEF RingInv
  <2>5. Append(l, c)[s] = l[s]
    BY <1>1, <2>1
  <2> QED
    BY <2>3, <2>4, <2>5
<1> QED
  BY <1>3, <1>4

\* Sequence keeps the types and what was flushed.
LEMMA SequenceStep ==
    ASSUME BaseInv, NEW n \in Nodes, Sequence(n)
    PROVE  BaseInv' /\ \A x \in Nodes : Keeps(x)
<1> DEFINE c == Command(pub[n].run, NextSeq(n))
           l == Append(log[n], c)
           g == [pub[n].ring EXCEPT ![c.seq % RingSize] = c]
           u == [pub[n] EXCEPT !.ring = g]
<1>1. /\ role[n] = "primary" /\ pub[n].phase = "loop" /\ Len(log[n]) < MaxSeq
      /\ Len(log[n]) - pub[n].base < MaxBatch
      /\ log' = [log EXCEPT ![n] = l]
      /\ pub' = [pub EXCEPT ![n] = u]
      /\ UNCHANGED <<role, epoch, sub, net, released, runs, crashes, losses, config>>
  BY DEF Sequence, Take, InLoop
<1>2. PICK k \in durable[n] .. Len(log[n]) + 1 : durable' = [durable EXCEPT ![n] = k]
  BY DEF Sequence, Take
<1>3. /\ config \in Configs /\ NodeTypes(n) /\ Positions(n) /\ Roles(n) /\ (n = Server => epoch[n] = 1)
      /\ Flushed(n) /\ RingInv(n) /\ Len(log[n]) \in Nat /\ MaxSeq \in Nat
      /\ MaxBatch \in Nat /\ RingSize \in Nat \ {0} /\ StateTypes
  BY NodeFacts, ConfigFacts DEF BaseInv, TypeInv
<1>4. SameTypes
  BY <1>1, Rigid
<1>5. /\ log[n] \in Seq(Commands) /\ pub[n] \in Publishers /\ durable[n] \in Nat
      /\ pub[n].run \in Runs /\ pub[n].base \in Nat /\ pub[n].sent \in Nat
  BY <1>1, <1>3 DEF Roles, NodeTypes, Publishers
<1>6. c \in Commands /\ c.seq = Len(log[n]) + 1
  <2>1. NextSeq(n) = Len(log[n]) + 1 /\ NextSeq(n) \in 1 .. MaxSeq
    BY <1>1, <1>3, SeqFacts
  <2> QED
    BY <1>5, <2>1 DEF Command, Commands, Runs
<1> HIDE DEF c
<1>7. g \in Rings /\ g = [pub[n].ring EXCEPT ![(Len(log[n]) + 1) % RingSize] = c]
  <2>1. (Len(log[n]) + 1) % RingSize \in 0 .. RingSize - 1
    <3> DEFINE j == Len(log[n]) + 1
    <3>1. j \in Nat
      BY <1>3
    <3> HIDE DEF j
    <3>2. j % RingSize \in 0 .. RingSize - 1
      BY <1>3, <3>1, SlotFacts, Zenon
    <3> QED
      BY <3>2 DEF j
  <2>2. pub[n].ring \in [0 .. RingSize - 1 -> Commands \cup {Blank}]
    BY <1>5 DEF Publishers, Rings
  <2> QED
    BY <1>6, <2>1, <2>2 DEF Rings
<1> HIDE DEF g
<1>8. /\ u \in Publishers /\ u.run = pub[n].run /\ u.sent = pub[n].sent /\ u.acked = pub[n].acked
      /\ u.from = pub[n].from /\ u.phase = pub[n].phase /\ u.base = pub[n].base /\ u.ring = g
  BY <1>5, <1>7 DEF Publishers
<1> HIDE DEF u
<1>9. /\ l \in Seq(Commands) /\ Len(l) = Len(log[n]) + 1
      /\ \A i \in 1 .. Len(log[n]) : l[i] = log[n][i]
      /\ l[Len(log[n]) + 1] = c
  BY <1>3, <1>5, <1>6
<1>10. \A s \in 1 .. Len(log[n]) + 1 :
          pub[n].from =< s /\ Len(log[n]) + 1 < s + RingSize => g[s % RingSize] = l[s]
  BY <1>1, <1>6, <1>7, RingTakes
<1> HIDE DEF l
<1>11. log'[n] = l /\ pub'[n] = u /\ durable'[n] = k /\ k \in Nat
  BY <1>1, <1>2, <1>3, <1>5 DEF StateTypes
<1>12. OnlyNode(n)
  BY <1>1, <1>2, <1>3, <1>11 DEF OnlyNode, StateTypes
<1>13. NodeTypes(n)'
  BY <1>1, <1>3, <1>4, <1>8, <1>9, <1>11 DEF NodeTypes, SameTypes
<1>14. Positions(n)'
  <2>1. DOMAIN sub[n].stash = {}
    BY <1>1, <1>3 DEF Roles, NoSub
  <2>2. Numbered(1, l)
    <3> SUFFICES ASSUME NEW i \in 1 .. Len(l) PROVE l[i].seq = 1 + i - 1
      BY DEF Numbered
    <3>1. CASE i \in 1 .. Len(log[n])
      <4>1. \A j \in 1 .. Len(log[n]) : log[n][j].seq = 1 + j - 1
        BY <1>3 DEF Positions, Numbered
      <4> QED
        BY <1>9, <3>1, <4>1
    <3>2. CASE i = Len(log[n]) + 1
      BY <1>3, <1>6, <1>9, <3>2
    <3> QED
      BY <1>3, <1>9, <3>1, <3>2
  <2>3. k =< Len(l) /\ Len(l) =< MaxSeq
    BY <1>1, <1>3, <1>9
  <2>4. pub[n].base =< pub[n].sent /\ pub[n].sent =< Len(log[n]) /\ pub[n].acked =< Len(log[n])
    BY <1>3 DEF Positions
  <2>5. u.base =< u.sent /\ u.sent =< Len(l) /\ u.acked =< Len(l)
    <3>1. pub[n].acked \in Nat
      BY <1>5 DEF Publishers
    <3> QED
      BY <1>3, <1>5, <1>8, <1>9, <2>4, <3>1
  <2> QED
    BY <1>1, <1>4, <1>11, <2>1, <2>2, <2>3, <2>5 DEF Positions, SameTypes
<1>15. RingInv(n)'
  <2>1. Len(l) =< u.base + MaxBatch
    <3> DEFINE a == Len(log[n])
               b == pub[n].base
    <3>1. a \in Nat /\ b \in Nat /\ MaxBatch \in Nat /\ a - b < MaxBatch
      BY <1>1, <1>3, <1>5
    <3>2. Len(l) = a + 1 /\ u.base = b
      BY <1>8, <1>9
    <3> HIDE DEF a, b
    <3> QED
      BY <3>1, <3>2
  <2>2. u.from =< u.base + 1
    BY <1>1, <1>3, <1>8 DEF RingInv
  <2>3. \A s \in 1 .. Len(l) : u.from =< s /\ Len(l) < s + RingSize => u.ring[s % RingSize] = l[s]
    BY <1>8, <1>9, <1>10
  <2> QED
    BY <1>4, <1>11, <2>1, <2>2, <2>3 DEF RingInv, SameTypes
<1>16. NodeInv(n)'
  <2>1. Roles(n)'
    BY <1>1, <1>3, <1>4, <1>8, <1>11 DEF Roles, SameTypes
  <2> QED
    BY <1>1, <1>3, <1>14, <1>15, <2>1 DEF NodeInv
<1>17. Flushed(n)'
  <2>1. pub[n].sent =< k
    BY <1>1, <1>3, <1>5 DEF Flushed
  <2> QED
    BY <1>1, <1>8, <1>11, <2>1 DEF Flushed
<1>18. Keeps(n)
  <2>1. durable[n] =< Len(log[n])
    BY <1>3 DEF Positions
  <2> QED
    BY <1>3, <1>5, <1>9, <1>11, <2>1 DEF Keeps
<1>19. NodeStep(n)
  BY <1>1, <1>12, <1>13, <1>16, <1>17, <1>18 DEF NodeStep
<1>20. NetTypes'
  BY <1>1, NetKeeps
<1>21. runs' \in Runs /\ released' \subseteq Seqno \X Commands
  BY <1>1, <1>3 DEF StateTypes
<1> QED
  BY <1>19, <1>20, <1>21, NodeStepKeeps

\* The Publisher u keeps the ring of v, and its batch starts no earlier.
SameRing(u, v) == u.run = v.run /\ u.from = v.from /\ u.ring = v.ring /\ v.base =< u.base

\* A step that changes only a node's Publisher and how much it has flushed.
LEMMA PubStep ==
    ASSUME BaseInv, NEW n \in Nodes, NEW u, role[n] = "primary", config' = config,
           UNCHANGED <<role, log, epoch, sub>>, pub' = [pub EXCEPT ![n] = u],
           durable' = durable \/ durable' = [durable EXCEPT ![n] = Len(log[n])],
           u \in Publishers, SameRing(u, pub[n]), u.base =< u.sent, u.sent =< Len(log[n]),
           u.acked =< Len(log[n]), Flushed(n)'
    PROVE  NodeStep(n)
<1>1. /\ NodeTypes(n) /\ Positions(n) /\ Roles(n) /\ (n = Server => epoch[n] = 1)
      /\ Len(log[n]) \in Nat /\ RingInv(n)
  BY NodeFacts
<1>2. SameTypes
  BY Rigid
<1>3. /\ pub'[n] = u /\ durable'[n] \in {durable[n], Len(log[n])}
      /\ pub \in [Nodes -> Publishers] /\ durable \in [Nodes -> Nat]
  BY DEF BaseInv, TypeInv, StateTypes
<1>4. OnlyNode(n)
  BY <1>3 DEF OnlyNode, BaseInv, TypeInv, StateTypes
<1>5. NodeTypes(n)'
  BY <1>1, <1>2, <1>3 DEF NodeTypes, SameTypes
<1>6. Positions(n)'
  BY <1>1, <1>2, <1>3 DEF Positions, NodeTypes, SameTypes
<1>7. Roles(n)'
  BY <1>1, <1>2, <1>3 DEF Roles, SameTypes, SameRing
<1>8. RingInv(n)'
  <2>1. /\ Len(log[n]) =< pub[n].base + MaxBatch /\ pub[n].from =< pub[n].base + 1
        /\ \A s \in 1 .. Len(log[n]) : pub[n].from =< s /\ Len(log[n]) < s + RingSize =>
              pub[n].ring[s % RingSize] = log[n][s]
    BY <1>1 DEF RingInv
  <2>2. pub[n].base \in Nat /\ u.base \in Nat /\ pub[n].from \in Nat /\ MaxBatch \in Nat
    BY <1>1, NodeFacts, ConfigFacts DEF NodeTypes, Publishers
  <2>3. Len(log[n]) =< u.base + MaxBatch /\ u.from =< u.base + 1
    <3> DEFINE a == Len(log[n])
               b == pub[n].base
               c == u.base
               f == pub[n].from
    <3>1. /\ a \in Nat /\ b \in Nat /\ c \in Nat /\ f \in Nat /\ b =< c /\ u.from = f
          /\ a =< b + MaxBatch /\ f =< b + 1
      BY <1>1, <2>1, <2>2 DEF SameRing
    <3> HIDE DEF a, b, c, f
    <3>2. a =< c + MaxBatch /\ f =< c + 1
      BY <2>2, <3>1
    <3> QED
      BY <3>1, <3>2 DEF a, c
  <2> QED
    BY <1>2, <1>3, <2>1, <2>3 DEF RingInv, SameTypes, SameRing
<1>9. Keeps(n)
  BY <1>1, <1>3 DEF Keeps, NodeTypes, Positions
<1> QED
  BY <1>1, <1>4, <1>5, <1>6, <1>7, <1>8, <1>9 DEF NodeStep, NodeInv

\* What the rest of the state needs.
LEMMA RestFacts ==
    ASSUME BaseInv
    PROVE  runs \in Runs /\ released \subseteq Seqno \X Commands
BY DEF BaseInv, TypeInv, StateTypes

\* FlushBatch keeps the types and what was flushed.
LEMMA FlushBatchStep ==
    ASSUME BaseInv, NEW n \in Nodes, FlushBatch(n)
    PROVE  BaseInv' /\ \A x \in Nodes : Keeps(x)
<1>1. /\ role[n] = "primary" /\ pub[n].phase = "loop" /\ Batch(n) # {}
      /\ durable' = [durable EXCEPT ![n] = Len(log[n])]
      /\ net' = net \cup Staged(n)
      /\ UNCHANGED <<role, log, epoch, sub, runs, crashes, losses, config>>
  BY DEF FlushBatch, InLoop
<1>2. /\ NodeTypes(n) /\ Positions(n) /\ Flushed(n) /\ Len(log[n]) \in Nat
      /\ pub \in [Nodes -> Publishers] /\ durable \in [Nodes -> Nat] /\ pub[n] \in Publishers
  BY NodeFacts DEF BaseInv, TypeInv, StateTypes
<1>3. durable'[n] = Len(log[n])
  BY <1>1, <1>2
<1>4. NetTypes'
  BY <1>1, NetKeeps, StagedFacts DEF Carries
<1>5. NodeStep(n) /\ released' \subseteq Seqno \X Commands
  <2>3. LastSeq(n) = Len(log[n])
    BY SeqFacts
  <2>1. CASE /\ pub' = [pub EXCEPT ![n].sent = LastSeq(n), ![n].phase = "wait"]
             /\ UNCHANGED released
    <3> DEFINE u == [pub[n] EXCEPT !.sent = Len(log[n]), !.phase = "wait"]
    <3>1. /\ u \in Publishers /\ u.run = pub[n].run /\ u.from = pub[n].from
          /\ u.ring = pub[n].ring /\ u.base = pub[n].base
          /\ u.sent = Len(log[n]) /\ u.acked = pub[n].acked /\ u.phase = "wait"
      BY <1>2 DEF Publishers
    <3>2. pub' = [pub EXCEPT ![n] = u]
      BY <2>1, <2>3
    <3> HIDE DEF u
    <3>3. pub'[n] = u
      BY <1>2, <3>2
    <3>4. u.base < Len(log[n])
      BY <1>1, <1>2, <3>1 DEF Batch, Publishers
    <3>5. Flushed(n)'
      BY <1>1, <1>2, <1>3, <3>1, <3>3, <3>4 DEF Flushed
    <3>6. u.base =< u.sent /\ u.sent =< Len(log[n]) /\ u.acked =< Len(log[n]) /\ SameRing(u, pub[n])
      BY <1>2, <3>1, <3>4 DEF Positions, Publishers, SameRing
    <3>7. NodeStep(n)
      BY <1>1, <3>1, <3>2, <3>5, <3>6, PubStep
    <3> QED
      BY <2>1, <3>7, RestFacts
  <2>2. CASE /\ pub' = [pub EXCEPT ![n].sent = LastSeq(n), ![n].base = Len(log[n])]
             /\ released' = released \cup Answers(n)
    <3> DEFINE u == [pub[n] EXCEPT !.sent = Len(log[n]), !.base = Len(log[n])]
    <3>1. /\ u \in Publishers /\ u.run = pub[n].run /\ u.from = pub[n].from
          /\ u.ring = pub[n].ring /\ u.base = Len(log[n])
          /\ u.sent = Len(log[n]) /\ u.acked = pub[n].acked /\ u.phase = "loop"
      BY <1>1, <1>2 DEF Publishers
    <3>2. pub' = [pub EXCEPT ![n] = u]
      BY <2>2, <2>3
    <3> HIDE DEF u
    <3>3. pub'[n] = u
      BY <1>2, <3>2
    <3>4. Flushed(n)'
      BY <1>1, <1>2, <1>3, <3>1, <3>3 DEF Flushed
    <3>5. u.base =< u.sent /\ u.sent =< Len(log[n]) /\ u.acked =< Len(log[n]) /\ SameRing(u, pub[n])
      BY <1>2, <3>1 DEF Positions, Publishers, SameRing
    <3>6. NodeStep(n)
      BY <1>1, <3>1, <3>2, <3>4, <3>5, PubStep
    <3> QED
      BY <2>2, <3>6, RestFacts, AnswersTyped
  <2> QED
    BY <2>1, <2>2 DEF FlushBatch
<1> QED
  BY <1>1, <1>4, <1>5, RestFacts, NodeStepKeeps

\* The wait is over: WaitDone and ContinueAlone.
LEMMA AnswerStep ==
    ASSUME BaseInv, NEW n \in Nodes, Waiting(n), NEW lost \in BOOLEAN, Answer(n, lost)
    PROVE  BaseInv' /\ \A x \in Nodes : Keeps(x)
<1>1. /\ role[n] = "primary" /\ pub[n].phase = "wait"
      /\ pub' = [pub EXCEPT ![n].phase = "loop", ![n].base = Len(log[n]), ![n].lost = lost]
      /\ released' = released \cup Answers(n)
      /\ UNCHANGED <<role, log, durable, epoch, sub, net, runs, crashes, losses, config>>
  BY DEF Answer, Waiting
<1>2. /\ NodeTypes(n) /\ Positions(n) /\ Flushed(n) /\ Len(log[n]) \in Nat
      /\ pub \in [Nodes -> Publishers] /\ pub[n] \in Publishers
  BY NodeFacts DEF BaseInv, TypeInv, StateTypes
<1> DEFINE u == [pub[n] EXCEPT !.phase = "loop", !.base = Len(log[n]), !.lost = lost]
<1>3. /\ u \in Publishers /\ u.run = pub[n].run /\ u.from = pub[n].from
      /\ u.ring = pub[n].ring /\ u.base = Len(log[n])
      /\ u.sent = pub[n].sent /\ u.acked = pub[n].acked /\ u.phase = "loop"
  BY <1>2 DEF Publishers
<1>4. pub' = [pub EXCEPT ![n] = u]
  BY <1>1
<1> HIDE DEF u
<1>5. pub'[n] = u
  BY <1>2, <1>4
<1>6. Flushed(n)'
  BY <1>1, <1>2, <1>3, <1>5 DEF Flushed
<1>7. u.base =< u.sent /\ u.sent =< Len(log[n]) /\ u.acked =< Len(log[n]) /\ SameRing(u, pub[n])
  BY <1>1, <1>2, <1>3 DEF Positions, Publishers, Flushed, SameRing
<1>8. NodeStep(n)
  BY <1>1, <1>3, <1>4, <1>6, <1>7, PubStep
<1>9. NetTypes'
  BY <1>1, NetKeeps
<1> QED
  BY <1>1, <1>8, <1>9, RestFacts, AnswersTyped, NodeStepKeeps

\* A newer epoch is heard, or an acknowledgement.
LEMMA HearGroupStep ==
    ASSUME BaseInv, NEW n \in Nodes, NEW m, HearGroup(n, m)
    PROVE  BaseInv' /\ \A x \in Nodes : Keeps(x)
<1>1. /\ role[n] = "primary" /\ pub' = [pub EXCEPT ![n].fenced = TRUE]
      /\ UNCHANGED <<role, log, durable, epoch, sub, net, released, runs, crashes, losses, config>>
  BY DEF HearGroup
<1>2. /\ NodeTypes(n) /\ Positions(n) /\ Flushed(n) /\ Len(log[n]) \in Nat
      /\ pub \in [Nodes -> Publishers] /\ pub[n] \in Publishers
  BY NodeFacts DEF BaseInv, TypeInv, StateTypes
<1> DEFINE u == [pub[n] EXCEPT !.fenced = TRUE]
<1>3. /\ u \in Publishers /\ u.run = pub[n].run /\ u.from = pub[n].from
      /\ u.ring = pub[n].ring /\ u.base = pub[n].base
      /\ u.sent = pub[n].sent /\ u.acked = pub[n].acked /\ u.phase = pub[n].phase
  BY <1>2 DEF Publishers
<1>4. pub' = [pub EXCEPT ![n] = u]
  BY <1>1
<1> HIDE DEF u
<1>5. pub'[n] = u
  BY <1>2, <1>4
<1>6. Flushed(n)'
  BY <1>1, <1>2, <1>3, <1>5 DEF Flushed
<1>7. u.base =< u.sent /\ u.sent =< Len(log[n]) /\ u.acked =< Len(log[n]) /\ SameRing(u, pub[n])
  BY <1>2, <1>3 DEF Positions, Publishers, SameRing
<1>8. NodeStep(n)
  BY <1>1, <1>3, <1>4, <1>6, <1>7, PubStep
<1>9. NetTypes'
  BY <1>1, NetKeeps
<1> QED
  BY <1>1, <1>8, <1>9, RestFacts, NodeStepKeeps

\* ServiceAck keeps the types and what was flushed.
LEMMA ServiceAckStep ==
    ASSUME BaseInv, NEW n \in Nodes, NEW m \in net, ServiceAck(n, m)
    PROVE  BaseInv' /\ \A x \in Nodes : Keeps(x)
<1>1. /\ role[n] = "primary" /\ pub' = [pub EXCEPT ![n].acked = m.first]
      /\ m.first < NextSeq(n) /\ net' = Received(m)
      /\ UNCHANGED <<role, log, durable, epoch, sub, released, runs, crashes, losses, config>>
  BY DEF ServiceAck, Control
<1>2. /\ NodeTypes(n) /\ Positions(n) /\ Flushed(n) /\ Len(log[n]) \in Nat
      /\ pub \in [Nodes -> Publishers] /\ pub[n] \in Publishers
  BY NodeFacts DEF BaseInv, TypeInv, StateTypes
<1>3. m.first \in Nat /\ m.first =< Len(log[n])
  <2>1. m.first \in Nat /\ NextSeq(n) = Len(log[n]) + 1
    BY SeqFacts DEF BaseInv, TypeInv, NetTypes, IsDatagram
  <2> QED
    BY <1>1, <1>2, <2>1
<1> DEFINE u == [pub[n] EXCEPT !.acked = m.first]
<1>4. /\ u \in Publishers /\ u.run = pub[n].run /\ u.from = pub[n].from
      /\ u.ring = pub[n].ring /\ u.base = pub[n].base
      /\ u.sent = pub[n].sent /\ u.acked = m.first /\ u.phase = pub[n].phase
  BY <1>2, <1>3 DEF Publishers
<1>5. pub' = [pub EXCEPT ![n] = u]
  BY <1>1
<1> HIDE DEF u
<1>6. pub'[n] = u
  BY <1>2, <1>5
<1>7. Flushed(n)'
  BY <1>1, <1>2, <1>4, <1>6 DEF Flushed
<1>8. u.base =< u.sent /\ u.sent =< Len(log[n]) /\ u.acked =< Len(log[n]) /\ SameRing(u, pub[n])
  BY <1>2, <1>3, <1>4 DEF Positions, Publishers, SameRing
<1>9. NodeStep(n)
  BY <1>1, <1>4, <1>5, <1>7, <1>8, PubStep
<1>10. NetTypes'
  BY <1>1, NetKeeps, ReceivedFacts
<1> QED
  BY <1>1, <1>9, <1>10, RestFacts, NodeStepKeeps

\* Steps that change nothing but the network and what clients have seen.
LEMMA WriteBacklogStep ==
    ASSUME BaseInv, NEW n \in Nodes, WriteBacklog(n)
    PROVE  BaseInv' /\ \A x \in Nodes : Keeps(x)
<1>1. /\ \E a \in Answers(n) : released' = released \cup {a}
      /\ UNCHANGED <<role, log, durable, epoch, pub, sub, net, runs, crashes, losses, config>>
  BY DEF WriteBacklog
<1>2. released' \subseteq Seqno \X Commands
  BY <1>1, RestFacts, AnswersTyped
<1>3. NetTypes'
  BY <1>1, NetKeeps
<1> QED
  BY <1>1, <1>2, <1>3, RestFacts, NodesStay

\* HeartbeatIfIdle keeps the types and what was flushed.
LEMMA HeartbeatStep ==
    ASSUME BaseInv, NEW n \in Nodes, HeartbeatIfIdle(n)
    PROVE  BaseInv' /\ \A x \in Nodes : Keeps(x)
<1>1. /\ role[n] = "primary" /\ net' = net \cup {Heartbeat(epoch[n], NextSeq(n))}
      /\ UNCHANGED <<role, log, durable, epoch, pub, sub, released, runs, crashes, losses, config>>
  BY DEF HeartbeatIfIdle
<1>2. NetTypes'
  BY <1>1, NetKeeps, MarkerFacts
<1> QED
  BY <1>1, <1>2, RestFacts, NodesStay

\* What a retransmission request is answered with.
LEMMA RetransmitFacts ==
    ASSUME BaseInv, NEW n \in Nodes, NEW m \in net, ServiceRetransmit(n, m), NEW x \in net'
    PROVE  \/ x \in net
           \/ x.kind = "Unavailable" /\ x.epoch = epoch[n] /\ IsDatagram(x)
           \/ Carries(x, n, Len(log[n])) /\ x.first + Len(x.cmds) =< m.first + m.count
<1>1. /\ role[n] = "primary" /\ m.kind = "Retransmit"
      /\ net' = Received(m) \cup
                  IF m.first < Oldest(n) THEN {Unavailable(epoch[n], Oldest(n), m.from)}
                  ELSE Packets(epoch[n], pub[n].ring, m.first,
                               Min({m.first + m.count - 1, LastSeq(n)}), m.from)
  BY DEF ServiceRetransmit, Control
<1>2. /\ epoch[n] \in Nat \ {0} /\ Len(log[n]) \in Nat /\ pub[n].from \in Nat
      /\ RingSize \in Nat \ {0}
  BY <1>1, NodeFacts, ConfigFacts DEF NodeTypes, Roles, Publishers
<1>3. m.first \in Nat \ {0} /\ m.count \in Nat \ {0}
  BY <1>1 DEF BaseInv, TypeInv, NetTypes, IsDatagram
<1>6. Oldest(n) \in Nat /\ pub[n].from =< Oldest(n) /\ Len(log[n]) < Oldest(n) + RingSize
  <2> DEFINE k == Len(log[n])
             a == IF NextSeq(n) > RingSize THEN NextSeq(n) - RingSize ELSE 1
             b == pub[n].from
  <2>1. a \in Nat /\ b \in Nat /\ k < a + RingSize /\ k \in Nat
    BY <1>2, SeqFacts
  <2>2. Oldest(n) = Max({a, b})
    BY DEF Oldest
  <2> HIDE DEF a, b, k
  <2>5. a \in Int /\ b \in Int
    BY <2>1
  <2>3. Max({a, b}) = IF a >= b THEN a ELSE b
    BY <2>5, MinMaxPair
  <2>4. Oldest(n) \in Nat /\ b =< Oldest(n) /\ k < Oldest(n) + RingSize
    BY <1>2, <2>1, <2>2, <2>3
  <2> QED
    BY <2>4 DEF b, k
<1>4. CASE x = Unavailable(epoch[n], Oldest(n), m.from)
  BY <1>2, <1>4, <1>6 DEF IsDatagram, Unavailable, Kinds
<1>5. CASE ~(m.first < Oldest(n)) /\ x \in Packets(epoch[n], pub[n].ring, m.first,
                         Min({m.first + m.count - 1, LastSeq(n)}), m.from)
  <2> DEFINE a == m.first + m.count - 1
             b == Len(log[n])
             last == Min({a, b})
  <2>1. last = IF a =< b THEN a ELSE b
    <3>1. a \in Int /\ b \in Int
      BY <1>2, <1>3
    <3> HIDE DEF a, b
    <3> QED
      BY <3>1, MinMaxPair
  <2>2. last \in Int /\ last =< Len(log[n]) /\ last =< m.first + m.count - 1
    BY <1>2, <1>3, <2>1
  <2>3. x \in Packets(epoch[n], pub[n].ring, m.first, last, m.from)
    BY <1>5, SeqFacts
  <2> HIDE DEF last
  <2>4. Carries(x, n, last)
    <3> DEFINE c == m.first
    <3>1. /\ c \in Nat \ {0} /\ x \in Packets(epoch[n], pub[n].ring, c, last, m.from)
          /\ pub[n].from =< c /\ Len(log[n]) < c + RingSize
      BY <1>2, <1>3, <1>5, <1>6, <2>3
    <3> HIDE DEF c
    <3> QED
      BY <1>1, <2>2, <3>1, NodePackets, Zenon
  <2>5. x.first \in Int /\ Len(x.cmds) \in Int
    BY <2>4 DEF Carries, IsDatagram, IsPacket
  <2>6. x.first + Len(x.cmds) - 1 =< last
    BY <2>4 DEF Carries
  <2>7. x.first + Len(x.cmds) - 1 =< Len(log[n]) /\ x.first + Len(x.cmds) =< m.first + m.count
    <3> DEFINE xf == x.first
               xl == Len(x.cmds)
               mf == m.first
               mc == m.count
               ll == Len(log[n])
    <3>1. /\ xf \in Int /\ xl \in Int /\ mf \in Int /\ mc \in Int /\ ll \in Int /\ last \in Int
          /\ last =< ll /\ last =< mf + mc - 1 /\ xf + xl - 1 =< last
      BY <1>2, <1>3, <2>2, <2>5, <2>6
    <3>2. xf + xl - 1 =< ll /\ xf + xl =< mf + mc
      <4> HIDE DEF xf, xl, mf, mc, ll
      <4> QED
        BY <3>1
    <3> QED
      BY <3>2
  <2>8. Carries(x, n, Len(log[n]))
    BY <2>4, <2>7 DEF Carries
  <2> QED
    BY <2>7, <2>8
<1> QED
  BY <1>1, <1>4, <1>5, ReceivedFacts

\* ServiceRetransmit keeps the types and what was flushed.
LEMMA ServiceRetransmitStep ==
    ASSUME BaseInv, NEW n \in Nodes, NEW m \in net, ServiceRetransmit(n, m)
    PROVE  BaseInv' /\ \A x \in Nodes : Keeps(x)
<1>1. UNCHANGED <<role, log, durable, epoch, pub, sub, released, runs, crashes, losses, config>>
  BY DEF ServiceRetransmit, Control
<1>2. NetTypes'
  BY <1>1, NetKeeps, RetransmitFacts DEF Carries
<1> QED
  BY <1>1, <1>2, RestFacts, NodesStay

\* The request of a replica: for commands from the first it misses, up to
\* what it has heard of.
LEMMA RequestFacts ==
    ASSUME BaseInv, NEW r \in Nodes, RequestGap(r), NEW m \in net', m \notin net
    PROVE  /\ IsDatagram(m) /\ m.kind = "Retransmit" /\ m.epoch = sub[r].epoch
           /\ \/ m.first + m.count =< sub[r].known
              \/ \E f \in DOMAIN sub[r].stash : m.first + m.count =< f
<1> DEFINE stash == DOMAIN sub[r].stash
           gapEnd == IF stash = {} THEN sub[r].known ELSE Min(stash)
           count == Min({gapEnd - Expected(r), MaxAsk})
<1>1. /\ role[r] = "replica" /\ sub[r].epoch # 0 /\ gapEnd > Expected(r)
      /\ m = Retransmit(sub[r].epoch, Expected(r), count, r, sub[r].primary)
  BY DEF RequestGap
<1>2. /\ NodeTypes(r) /\ MaxAsk \in Nat \ {0} /\ Len(log[r]) \in Nat /\ config \in Configs
      /\ MaxSeq \in Nat
  BY NodeFacts, ConfigFacts
<1>3. sub[r].epoch \in Nat \ {0} /\ sub[r].known \in Nat /\ sub[r].stash \in Stashes
  BY <1>1, <1>2 DEF NodeTypes, Subscribers
<1>4. Expected(r) \in Nat \ {0}
  BY <1>2 DEF Expected
<1>5. stash \subseteq Nat
  BY <1>2, <1>3, StashFacts DEF Seqno
<1>6. stash # {} => Min(stash) \in stash
  <2> HIDE DEF stash
  <2> QED
    BY <1>5, MinNat
<1>7. gapEnd \in Nat /\ (gapEnd = sub[r].known \/ gapEnd \in stash)
  BY <1>3, <1>5, <1>6
<1> HIDE DEF gapEnd, stash
<1>8. count = IF gapEnd - Expected(r) =< MaxAsk THEN gapEnd - Expected(r) ELSE MaxAsk
  BY <1>2, <1>4, <1>7, MinMaxPair
<1> HIDE DEF count
<1>9. count \in Nat \ {0} /\ Expected(r) + count =< gapEnd
  BY <1>1, <1>2, <1>4, <1>7, <1>8
<1>10. /\ m.kind = "Retransmit" /\ m.epoch = sub[r].epoch /\ m.first = Expected(r)
       /\ m.count = count /\ m.from = r
  BY <1>1 DEF Retransmit
<1>11. IsDatagram(m)
  BY <1>3, <1>4, <1>9, <1>10 DEF IsDatagram, Kinds
<1> QED
  BY <1>7, <1>9, <1>10, <1>11 DEF stash

\* RequestGap keeps the types and what was flushed.
LEMMA RequestGapStep ==
    ASSUME BaseInv, NEW r \in Nodes, RequestGap(r)
    PROVE  BaseInv' /\ \A x \in Nodes : Keeps(x)
<1>1. UNCHANGED <<role, log, durable, epoch, pub, sub, released, runs, crashes, losses, config>>
  BY DEF RequestGap
<1>2. NetTypes'
  BY <1>1, NetKeeps, RequestFacts
<1> QED
  BY <1>1, <1>2, RestFacts, NodesStay

\* The network loses a datagram.
LEMMA LoseStep ==
    ASSUME BaseInv, NEW m, Lose(m)
    PROVE  BaseInv' /\ \A x \in Nodes : Keeps(x)
<1>1. /\ net' = net \ {m}
      /\ UNCHANGED <<role, log, durable, epoch, pub, sub, released, runs, crashes, config>>
  BY DEF Lose
<1>2. NetTypes'
  BY <1>1, NetKeeps
<1> QED
  BY <1>1, <1>2, RestFacts, NodesStay

-----------------------------------------------------------------------------
(* The ways a process ends, and begins. *)

\* A process that is no replica, or has just started, has an empty stash.
LEMMA NoSubFacts ==
    ASSUME NEW p \in Nodes
    PROVE  /\ NoSub \in Subscribers /\ DOMAIN NoSub.stash = {}
           /\ [NoSub EXCEPT !.primary = p] \in Subscribers
           /\ DOMAIN [NoSub EXCEPT !.primary = p].stash = {}
<1> DEFINE t == << >>
<1>1. DOMAIN t = {} /\ t = [f \in {} |-> t[f]]
  <2>1. t = [f \in 1 .. 0 |-> t[f]]
    OBVIOUS
  <2>2. 1 .. 0 = {}
    OBVIOUS
  <2> QED
    BY <2>1, <2>2
<1> HIDE DEF t
<1>2. t \in Stashes
  BY <1>1, StashFacts
<1>3. Server \in Nodes
  BY ReplicationAssumption
<1>4. NoSub = [epoch |-> 0, known |-> 0, stash |-> t, end |-> 0,
               superseded |-> FALSE, unavailable |-> FALSE, primary |-> Server]
  BY DEF NoSub, t
<1> DEFINE u == [NoSub EXCEPT !.primary = p]
<1>5. NoSub \in Subscribers /\ DOMAIN NoSub.stash = {}
  BY <1>1, <1>2, <1>3, <1>4 DEF Subscribers
<1>6. u \in Subscribers /\ u.stash = NoSub.stash
  BY <1>5 DEF Subscribers
<1> QED
  BY <1>5, <1>6

\* A process that is no primary has a blank Publisher.
LEMMA NoPubFacts ==
           /\ NoPub \in Publishers /\ NoPub.base = 0 /\ NoPub.sent = 0 /\ NoPub.acked = 0
           /\ NoPub.phase = "loop" /\ ~NoPub.lost
<1> DEFINE g == [i \in 0 .. RingSize - 1 |-> Blank]
<1>1. g \in Rings
  BY DEF Rings
<1>2. NoPub = [run |-> 0, sent |-> 0, acked |-> 0, from |-> 1, fenced |-> FALSE,
               phase |-> "loop", base |-> 0, lost |-> FALSE, ring |-> g]
  BY DEF NoPub
<1> HIDE DEF g
<1> QED
  BY <1>1, <1>2 DEF Publishers

\* The end of a process keeps what was flushed.
LEMMA ExitStep ==
    ASSUME BaseInv, NEW n \in Nodes, NEW k \in durable[n] .. Len(log[n]),
           NEW how \in {"stopped", "halted", "dead"}, Exit(n, k, how),
           role[n] \in {"primary", "replica"}, config' = config,
           \A m \in net' : m \in net \/ IsDatagram(m)
    PROVE  BaseInv' /\ \A x \in Nodes : Keeps(x)
<1>1. /\ role' = [role EXCEPT ![n] = how]
      /\ log' = [log EXCEPT ![n] = SubSeq(@, 1, k)]
      /\ durable' = [durable EXCEPT ![n] = k]
      /\ pub' = [pub EXCEPT ![n] = NoPub]
      /\ sub' = [sub EXCEPT ![n] = NoSub]
      /\ UNCHANGED <<epoch, released, runs>>
  BY DEF Exit
<1>2. /\ config \in Configs /\ NodeTypes(n) /\ Positions(n) /\ Roles(n)
      /\ (n = Server => epoch[n] = 1) /\ Len(log[n]) \in Nat /\ MaxSeq \in Nat /\ StateTypes
  BY NodeFacts, ConfigFacts DEF BaseInv, TypeInv
<1>3. SameTypes
  BY Rigid
<1>4. k \in Nat /\ k =< Len(log[n]) /\ log[n] \in Seq(Commands) /\ durable[n] \in Nat /\ durable[n] =< k
  BY <1>2 DEF NodeTypes
<1>5. /\ SubSeq(log[n], 1, k) \in Seq(Commands) /\ Len(SubSeq(log[n], 1, k)) = k
      /\ \A i \in 1 .. k : SubSeq(log[n], 1, k)[i] = log[n][i]
  BY <1>4, SubSeqFacts
<1>6. /\ role'[n] = how /\ log'[n] = SubSeq(log[n], 1, k) /\ durable'[n] = k
      /\ pub'[n] = NoPub /\ sub'[n] = NoSub /\ epoch'[n] = epoch[n]
  BY <1>1, <1>2 DEF StateTypes
<1>7. OnlyNode(n)
  BY <1>1, <1>2 DEF OnlyNode, StateTypes
<1>8. NoPub \in Publishers /\ NoSub \in Subscribers /\ DOMAIN NoSub.stash = {}
  BY NoPubFacts, NoSubFacts
<1>9. NodeTypes(n)'
  BY <1>2, <1>3, <1>4, <1>5, <1>6, <1>8 DEF NodeTypes, RoleNames, SameTypes
<1>10. Positions(n)'
  <2> DEFINE l == SubSeq(log[n], 1, k)
  <2>1. Numbered(1, l)
    BY <1>2, <1>4, NumberedPart DEF Positions
  <2>2. k =< MaxSeq
    BY <1>2, <1>4 DEF Positions
  <2>3. Len(l) = k /\ log'[n] = l
    BY <1>5, <1>6
  <2> HIDE DEF l
  <2>4. pub'[n].base = 0 /\ pub'[n].sent = 0 /\ pub'[n].acked = 0 /\ DOMAIN sub'[n].stash = {}
    BY <1>6, <1>8, NoPubFacts
  <2>5. MaxSeq' = MaxSeq
    BY <1>3 DEF SameTypes
  <2>6. durable'[n] = k /\ k \in Nat
    BY <1>4, <1>6
  <2> QED
    BY <2>1, <2>2, <2>3, <2>4, <2>5, <2>6 DEF Positions
<1>11. Roles(n)' /\ RingInv(n)'
  BY <1>2, <1>3, <1>6 DEF Roles, RingInv, SameTypes
<1>12. Flushed(n)'
  BY <1>5, <1>6, NoPubFacts DEF Flushed
<1>13. Keeps(n)
  BY <1>4, <1>5, <1>6 DEF Keeps
<1>14. NodeStep(n)
  BY <1>2, <1>6, <1>7, <1>9, <1>10, <1>11, <1>12, <1>13 DEF NodeStep, NodeInv
<1>15. NetTypes'
  BY NetKeeps
<1> QED
  BY <1>1, <1>14, <1>15, RestFacts, NodeStepKeeps

\* Everything in the journal may be in the file.
LEMMA WholeJournal ==
    ASSUME BaseInv, NEW n \in Nodes
    PROVE  Len(log[n]) \in durable[n] .. Len(log[n])
BY NodeFacts DEF NodeTypes, Positions

\* The end of run_gateway keeps the types and what was flushed.
LEMMA ShutdownStep ==
    ASSUME BaseInv, NEW n \in Nodes, Stop(n) \/ JournalError(n) \/ HaltReplicaLost(n) \/ HaltFenced(n)
    PROVE  BaseInv' /\ \A x \in Nodes : Keeps(x)
<1>1. role[n] = "primary"
  BY DEF Stop, JournalError, HaltReplicaLost, HaltFenced, InLoop, TimedOut, Waiting
<1>2. PICK k \in durable[n] .. Len(log[n]), how \in {"stopped", "halted", "dead"} : Shutdown(n, k, how)
  BY WholeJournal DEF Stop, JournalError, HaltReplicaLost, HaltFenced
<1>3. \A m \in net' : m \in net \/ IsDatagram(m)
  BY <1>1, <1>2, StagedFacts, MarkerFacts DEF Shutdown, Carries
<1> QED
  BY <1>1, <1>2, <1>3, ExitStep DEF Shutdown

\* The end of a process keeps the types and what was flushed.
LEMMA CrashStep ==
    ASSUME BaseInv, NEW n \in Nodes, Crash(n) \/ ReplicaExit(n)
    PROVE  BaseInv' /\ \A x \in Nodes : Keeps(x)
<1>1. role[n] \in {"primary", "replica"} /\ net' = net /\ config' = config
  BY DEF Crash, ReplicaExit
<1>2. PICK k \in durable[n] .. Len(log[n]), how \in {"stopped", "halted", "dead"} : Exit(n, k, how)
  BY WholeJournal DEF Crash, ReplicaExit
<1> QED
  BY <1>1, <1>2, ExitStep

\* A new Publisher.
LEMMA NewPubFacts ==
    ASSUME BaseInv, NEW n \in Nodes
    PROVE  /\ NewPub(n) \in Publishers /\ NewPub(n).run = runs + 1
           /\ NewPub(n).sent = Len(log[n]) /\ NewPub(n).acked = Len(log[n])
           /\ NewPub(n).base = Len(log[n]) /\ NewPub(n).phase = "loop"
           /\ ~NewPub(n).lost /\ NewPub(n).from = Len(log[n]) + 1
<1>1. runs + 1 \in Nat
  BY RestFacts, ConfigFacts DEF Runs, BaseInv, TypeInv, StateTypes
<1>2. LastSeq(n) = Len(log[n]) /\ NextSeq(n) = Len(log[n]) + 1 /\ Len(log[n]) \in Nat
  BY SeqFacts
<1>3. Len(log[n]) + 1 \in Nat \ {0}
  BY <1>2
<1>4. NewPub(n) = [NoPub EXCEPT !.run = runs + 1, !.sent = Len(log[n]), !.acked = Len(log[n]),
                                !.from = Len(log[n]) + 1, !.base = Len(log[n])]
  BY <1>2 DEF NewPub
<1> QED
  BY <1>1, <1>2, <1>3, <1>4, NoPubFacts DEF Publishers

\* What seed_history makes of a Publisher: its ring has the last commands.
SeededFrom(u, p, l) ==
    /\ u \in Publishers
    /\ u.run = p.run /\ u.sent = p.sent /\ u.acked = p.acked /\ u.base = p.base
    /\ u.phase = p.phase /\ u.lost = p.lost
    /\ u.from =< p.from
    /\ \A s \in 1 .. Len(l) : Len(l) < s + RingSize => u.ring[s % RingSize] = l[s]

\* The positions of a journal that fall into one slot have a last one.
LEMMA MaxUpTo ==
    ASSUME NEW N \in Nat, NEW T, T \subseteq 1 .. N, T # {}
    PROVE  Max(T) \in T /\ \A y \in T : Max(T) >= y
<1> DEFINE U == {N - k : k \in T}
<1>1. U \subseteq Nat /\ U # {}
  OBVIOUS
<1>2. PICK x \in U : \A y \in U : x =< y
  BY <1>1, NatMin
<1>3. PICK k \in T : x = N - k
  BY <1>2
<1>4. \A y \in T : k >= y
  <2> TAKE y \in T
  <2>1. N - k =< N - y
    BY <1>2, <1>3
  <2>2. k \in Int /\ y \in Int
    OBVIOUS
  <2> QED
    BY <2>1, <2>2
<1>5. \E z \in T : \A y \in T : z >= y
  BY <1>4
<1> QED
  BY <1>5 DEF Max

\* That is so.
LEMMA SeededFacts ==
    ASSUME config \in Configs, NEW p \in Publishers, NEW l \in Seq(Commands), Numbered(1, l)
    PROVE  SeededFrom(Seeded(p, l), p, l)
<1> DEFINE At(i) == {k \in DOMAIN l : l[k].seq % RingSize = i}
           f == Min({p.from} \cup {l[k].seq : k \in DOMAIN l})
           g == [i \in DOMAIN p.ring |-> IF At(i) = {} THEN p.ring[i] ELSE l[Max(At(i))]]
           u == [p EXCEPT !.from = f, !.ring = g]
<1>1. Seeded(p, l) = u
  BY DEF Seeded
<1>2. /\ Len(l) \in Nat /\ DOMAIN l = 1 .. Len(l) /\ p.from \in Nat \ {0}
      /\ p.ring \in [0 .. RingSize - 1 -> Commands \cup {Blank}] /\ RingSize \in Nat \ {0}
  BY ConfigFacts DEF Publishers, Rings
<1>3. \A k \in DOMAIN l : l[k].seq = k /\ l[k] \in Commands
  BY <1>2 DEF Numbered
<1>4. f \in Nat \ {0} /\ f =< p.from
  <2> DEFINE T == {p.from} \cup {l[k].seq : k \in DOMAIN l}
  <2>1. T \subseteq Nat \ {0} /\ p.from \in T
    BY <1>2, <1>3
  <2> HIDE DEF T
  <2>2. Min(T) \in T /\ \A y \in T : Min(T) =< y
    BY <2>1, MinNat
  <2>3. Min(T) \in Nat \ {0} /\ Min(T) =< p.from
    BY <2>1, <2>2
  <2> QED
    BY <2>3 DEF T
<1> HIDE DEF f
<1>5. \A i : At(i) # {} => Max(At(i)) \in At(i) /\ \A y \in At(i) : Max(At(i)) >= y
  <2> TAKE i
  <2>1. At(i) \subseteq 1 .. Len(l)
    BY <1>2
  <2> HIDE DEF At
  <2> QED
    BY <1>2, <2>1, MaxUpTo
<1>6. \A i : At(i) # {} => l[Max(At(i))] \in Commands
  BY <1>3, <1>5
<1>7. g \in Rings
  <2> HIDE DEF At
  <2> QED
    BY <1>2, <1>6 DEF Rings
<1>8. ASSUME NEW s \in 1 .. Len(l), Len(l) < s + RingSize
      PROVE  g[s % RingSize] = l[s]
  <2> DEFINE i == s % RingSize
  <2>1. i \in 0 .. RingSize - 1
    BY SlotFacts
  <2>2. s \in At(i)
    BY <1>2, <1>3
  <2>3. \A k \in At(i) : k =< s
    <3> SUFFICES ASSUME NEW k \in At(i), k > s PROVE FALSE
      BY <1>2
    <3>1. k \in 1 .. Len(l) /\ k % RingSize = s % RingSize
      BY <1>2, <1>3
    <3>2. k \in Int /\ s \in Int /\ 0 < k - s /\ k - s < RingSize
      BY <1>2, <1>8, <3>1
    <3>3. k % RingSize # s % RingSize
      <4> DEFINE C == RingSize
      <4>1. C \in Nat \ {0} /\ k - s < C
        BY <1>2, <3>2
      <4> HIDE DEF C
      <4>2. k % C # s % C
        BY <3>2, <4>1, ModDistinct
      <4> QED
        BY <4>2 DEF C
    <3> QED
      BY <3>1, <3>3
  <2>4. Max(At(i)) = s
    <3>1. Max(At(i)) \in At(i) /\ Max(At(i)) >= s
      BY <1>5, <2>2
    <3>2. Max(At(i)) \in Nat /\ Max(At(i)) =< s
      <4>1. At(i) \subseteq Nat
        BY <1>2
      <4> HIDE DEF At
      <4> QED
        BY <2>3, <3>1, <4>1
    <3> QED
      BY <3>1, <3>2
  <2>5. g[i] = IF At(i) = {} THEN p.ring[i] ELSE l[Max(At(i))]
    BY <1>2, <2>1
  <2> QED
    BY <2>2, <2>4, <2>5
<1> HIDE DEF g
<1>9. /\ u \in Publishers
      /\ u.run = p.run /\ u.sent = p.sent /\ u.acked = p.acked /\ u.base = p.base
      /\ u.phase = p.phase /\ u.lost = p.lost /\ u.from = f /\ u.ring = g
  BY <1>4, <1>7 DEF Publishers
<1> HIDE DEF u
<1> QED
  BY <1>1, <1>4, <1>8, <1>9 DEF SeededFrom

\* Recover keeps the types and what was flushed.
LEMMA RecoverStep ==
    ASSUME BaseInv, Recover
    PROVE  BaseInv' /\ \A x \in Nodes : Keeps(x)
<1> DEFINE n == Server
           u == NewPub(n)
<1>1. /\ role[n] \in {"dead", "stopped", "halted"} /\ runs < MaxRuns
      /\ role' = [role EXCEPT ![n] = "primary"]
      /\ pub' = [pub EXCEPT ![n] = u]
      /\ runs' = runs + 1
      /\ UNCHANGED <<log, durable, epoch, sub, net, released, crashes, losses, config>>
  BY DEF Recover
<1>2. n \in Nodes
  BY ReplicationAssumption
<1>3. /\ config \in Configs /\ NodeTypes(n) /\ Positions(n) /\ Roles(n)
      /\ epoch[n] = 1 /\ Len(log[n]) \in Nat /\ MaxRuns \in Nat /\ StateTypes /\ Flushed(n)
      /\ MaxBatch \in Nat
  BY <1>2, NodeFacts, ConfigFacts DEF BaseInv, TypeInv
<1>4. SameTypes
  BY <1>1, Rigid
<1>5. /\ u \in Publishers /\ u.run = runs + 1 /\ u.sent = Len(log[n]) /\ u.acked = Len(log[n])
      /\ u.base = Len(log[n]) /\ u.phase = "loop" /\ u.from = Len(log[n]) + 1
  BY <1>2, NewPubFacts
<1>6. runs + 1 \in Runs
  BY <1>1, <1>3, RestFacts DEF Runs
<1> HIDE DEF u, n
<1>7. role'[n] = "primary" /\ pub'[n] = u
  BY <1>1, <1>2, <1>3 DEF StateTypes
<1>8. OnlyNode(n)
  BY <1>1, <1>2, <1>3 DEF OnlyNode, StateTypes
<1>9. NodeTypes(n)'
  BY <1>1, <1>3, <1>4, <1>5, <1>7 DEF NodeTypes, RoleNames, SameTypes
<1>10. Positions(n)'
  BY <1>1, <1>3, <1>4, <1>5, <1>7 DEF Positions, SameTypes
<1>11. Roles(n)'
  BY <1>1, <1>3, <1>4, <1>5, <1>6, <1>7 DEF Roles, SameTypes
<1>16. RingInv(n)'
  BY <1>1, <1>3, <1>4, <1>5, <1>7 DEF RingInv, SameTypes
<1>12. Flushed(n)'
  BY <1>1, <1>3, <1>5, <1>7 DEF Flushed
<1>13. Keeps(n)
  BY <1>1, <1>3 DEF Keeps, NodeTypes
<1>14. NodeStep(n)
  BY <1>1, <1>3, <1>8, <1>9, <1>10, <1>11, <1>12, <1>13, <1>16 DEF NodeStep, NodeInv
<1>15. NetTypes'
  BY <1>1, NetKeeps
<1> QED
  BY <1>1, <1>2, <1>4, <1>6, <1>14, <1>15, RestFacts, NodeStepKeeps DEF SameTypes

\* Promote keeps the types and what was flushed.
LEMMA PromoteStep ==
    ASSUME BaseInv, NEW n \in Nodes, Promote(n)
    PROVE  BaseInv' /\ \A x \in Nodes : Keeps(x)
<1> DEFINE u == Seeded(NewPub(n), log[n])
<1>1. /\ role[n] = "replica" /\ sub[n].epoch # 0 /\ runs < MaxRuns
      /\ role' = [role EXCEPT ![n] = "primary"]
      /\ durable' = [durable EXCEPT ![n] = Len(log[n])]
      /\ epoch' = [epoch EXCEPT ![n] = sub[n].epoch + 1]
      /\ pub' = [pub EXCEPT ![n] = u]
      /\ sub' = [sub EXCEPT ![n] = NoSub]
      /\ runs' = runs + 1
      /\ UNCHANGED <<log, net, released, crashes, losses, config>>
  BY DEF Promote
<1>2. /\ config \in Configs /\ NodeTypes(n) /\ Positions(n) /\ Roles(n)
      /\ Len(log[n]) \in Nat /\ MaxRuns \in Nat /\ StateTypes /\ sub[n].epoch \in Nat
      /\ MaxBatch \in Nat
  BY NodeFacts, ConfigFacts DEF BaseInv, TypeInv, NodeTypes, Subscribers
<1>3. SameTypes
  BY <1>1, Rigid
<1>4. /\ u \in Publishers /\ u.run = runs + 1 /\ u.sent = Len(log[n]) /\ u.acked = Len(log[n])
      /\ u.base = Len(log[n]) /\ u.phase = "loop" /\ u.from =< Len(log[n]) + 1
      /\ \A s \in 1 .. Len(log[n]) : Len(log[n]) < s + RingSize => u.ring[s % RingSize] = log[n][s]
  <2> DEFINE p == NewPub(n)
             l == log[n]
  <2>1. /\ p \in Publishers /\ p.run = runs + 1 /\ p.sent = Len(l) /\ p.acked = Len(l)
        /\ p.base = Len(l) /\ p.phase = "loop" /\ p.from = Len(l) + 1
    BY NewPubFacts
  <2>2. l \in Seq(Commands) /\ Numbered(1, l)
    BY <1>2 DEF NodeTypes, Positions
  <2> HIDE DEF p, l
  <2>3. SeededFrom(Seeded(p, l), p, l)
    BY <1>2, <2>1, <2>2, SeededFacts
  <2>4. u = Seeded(p, l)
    BY DEF p, l
  <2> HIDE DEF u
  <2> QED
    BY <2>1, <2>3, <2>4 DEF SeededFrom, l
<1>5. runs + 1 \in Runs
  BY <1>1, <1>2, RestFacts DEF Runs
<1> HIDE DEF u
<1>6. /\ role'[n] = "primary" /\ pub'[n] = u /\ durable'[n] = Len(log[n])
      /\ epoch'[n] = sub[n].epoch + 1 /\ sub'[n] = NoSub
  BY <1>1, <1>2 DEF StateTypes
<1>7. OnlyNode(n)
  BY <1>1, <1>2 DEF OnlyNode, StateTypes
<1>8. NoSub \in Subscribers /\ DOMAIN NoSub.stash = {}
  BY NoSubFacts
<1>9. NodeTypes(n)'
  BY <1>1, <1>2, <1>3, <1>4, <1>6, <1>8 DEF NodeTypes, RoleNames, SameTypes
<1>10. Positions(n)'
  BY <1>1, <1>2, <1>3, <1>4, <1>6, <1>8 DEF Positions, SameTypes
<1>11. Roles(n)'
  BY <1>1, <1>2, <1>3, <1>4, <1>5, <1>6 DEF Roles, SameTypes
<1>17. RingInv(n)'
  BY <1>1, <1>2, <1>3, <1>4, <1>6 DEF RingInv, SameTypes
<1>12. Flushed(n)'
  BY <1>1, <1>2, <1>4, <1>6 DEF Flushed
<1>13. Keeps(n)
  BY <1>1, <1>2, <1>6 DEF Keeps, NodeTypes, Positions
<1>14. n # Server
  BY <1>1, <1>2 DEF Roles
<1>15. NodeStep(n)
  BY <1>1, <1>7, <1>9, <1>10, <1>11, <1>12, <1>13, <1>14, <1>17 DEF NodeStep, NodeInv
<1>16. NetTypes'
  BY <1>1, NetKeeps
<1> QED
  BY <1>1, <1>3, <1>5, <1>15, <1>16, RestFacts, NodeStepKeeps DEF SameTypes

\* Every record of a journal is the next one, so the scan takes them all.
LEMMA BootstrapFacts ==
    ASSUME NEW l \in Seq(Commands), Numbered(1, l)
    PROVE  Bootstrapped(l) = l
<1> DEFINE N == Len(l)
           Body(h) == [k \in 0 .. N |->
                         IF k = 0 THEN <<>>
                         ELSE IF l[k].seq = Len(h[k - 1]) + 1 THEN Append(h[k - 1], l[k])
                         ELSE h[k - 1]]
           took == CHOOSE h : h = Body(h)
           g == [k \in 0 .. N |-> SubSeq(l, 1, k)]
<1>1. N \in Nat
  OBVIOUS
<1>2. Bootstrapped(l) = took[N]
  BY DEF Bootstrapped
<1>3. \A k \in 0 .. N : SubSeq(l, 1, k) \in Seq(Commands) /\ Len(SubSeq(l, 1, k)) = k
  OBVIOUS
<1>4. \A k \in 1 .. N : /\ l[k].seq = Len(SubSeq(l, 1, k - 1)) + 1
                        /\ SubSeq(l, 1, k) = Append(SubSeq(l, 1, k - 1), l[k])
  <2> TAKE k \in 1 .. N
  <2>1. l[k].seq = 1 + k - 1
    BY DEF Numbered
  <2>2. k - 1 \in 0 .. N
    BY <1>1
  <2>3. Len(SubSeq(l, 1, k - 1)) = k - 1
    BY <1>3, <2>2
  <2>4. SubSeq(l, 1, k) = Append(SubSeq(l, 1, k - 1), l[k])
    OBVIOUS
  <2> QED
    BY <2>1, <2>3, <2>4
<1>5. SubSeq(l, 1, 0) = <<>> /\ SubSeq(l, 1, N) = l
  OBVIOUS
<1>6. g = Body(g)
  <2>1. \A k \in 0 .. N : g[k] = Body(g)[k]
    <3> TAKE k \in 0 .. N
    <3>1. CASE k = 0
      BY <1>5, <3>1
    <3>2. CASE k # 0
      <4>1. k \in 1 .. N /\ k - 1 \in 0 .. N
        BY <1>1, <3>2
      <4>2. g[k - 1] = SubSeq(l, 1, k - 1) /\ g[k] = SubSeq(l, 1, k)
        BY <4>1
      <4> QED
        BY <1>4, <3>2, <4>1, <4>2
    <3> QED
      BY <3>1, <3>2
  <2> QED
    BY <2>1
<1>7. took = Body(took)
  <2> HIDE DEF Body
  <2> QED
    BY <1>6
<1> HIDE DEF took, N
<1>8. /\ took[0] = <<>>
      /\ \A k \in 1 .. N : took[k] = IF l[k].seq = Len(took[k - 1]) + 1 THEN Append(took[k - 1], l[k])
                                     ELSE took[k - 1]
  <2>1. 0 \in 0 .. N /\ \A k \in 1 .. N : k \in 0 .. N /\ k # 0
    BY <1>1
  <2>2. \A k \in 0 .. N : took[k] = Body(took)[k]
    <3> HIDE DEF Body
    <3> QED
      BY <1>7
  <2> QED
    BY <2>1, <2>2
<1> DEFINE S == {k \in 0 .. N : took[k] = SubSeq(l, 1, k)}
<1>9. 0 \in S
  <2>1. 0 \in 0 .. N /\ took[0] = SubSeq(l, 1, 0)
    <3>1. 0 \in 0 .. N
      BY <1>1
    <3>2. took[0] = SubSeq(l, 1, 0)
      BY <1>5, <1>8, Zenon
    <3> QED
      BY <3>1, <3>2
  <2> QED
    BY <2>1
<1>10. \A k \in 0 .. N - 1 : k \in S => k + 1 \in S
  <2> SUFFICES ASSUME NEW k \in 0 .. N - 1, k \in S PROVE k + 1 \in S
    OBVIOUS
  <2>1. k + 1 \in 1 .. N /\ k + 1 \in 0 .. N /\ (k + 1) - 1 = k
    BY <1>1
  <2>2. took[k] = SubSeq(l, 1, k)
    OBVIOUS
  <2> QED
    BY <1>4, <1>8, <2>1, <2>2
<1>11. N \in S
  <2> HIDE DEF S
  <2>1. 0 .. N \subseteq S
    BY <1>1, <1>9, <1>10, UpTo
  <2> QED
    BY <1>1, <2>1
<1> QED
  BY <1>2, <1>5, <1>11

\* A replica starts with a copy of a part of what its primary has flushed.
LEMMA StartCopies ==
    ASSUME BaseInv, NEW n \in Nodes, NEW p \in Nodes, Start(n, p)
    PROVE  \E k \in 0 .. durable[p] : /\ log' = [log EXCEPT ![n] = SubSeq(log[p], 1, k)]
                                      /\ durable' = [durable EXCEPT ![n] = k]
<1>1. PICK k \in 0 .. durable[p] :
         /\ log' = [log EXCEPT ![n] = Bootstrapped(SubSeq(log[p], 1, k))]
         /\ durable' = [durable EXCEPT ![n] = Len(Bootstrapped(SubSeq(log[p], 1, k)))]
  BY DEF Start
<1>2. log[p] \in Seq(Commands) /\ Numbered(1, log[p]) /\ k \in Nat /\ k =< Len(log[p])
  <2>1. durable[p] \in Nat /\ durable[p] =< Len(log[p]) /\ Len(log[p]) \in Nat
    BY NodeFacts DEF NodeTypes, Positions
  <2>2. log[p] \in Seq(Commands) /\ Numbered(1, log[p])
    BY NodeFacts DEF NodeTypes, Positions
  <2> QED
    BY <2>1, <2>2
<1> DEFINE l == SubSeq(log[p], 1, k)
<1>3. l \in Seq(Commands) /\ Len(l) = k
  BY <1>2, SubSeqFacts
<1>4. Numbered(1, l)
  BY <1>2, NumberedPart
<1> HIDE DEF l
<1>5. Bootstrapped(l) = l
  BY <1>3, <1>4, BootstrapFacts
<1>6. log' = [log EXCEPT ![n] = l] /\ durable' = [durable EXCEPT ![n] = k]
  BY <1>1, <1>3, <1>5 DEF l
<1> QED
  BY <1>6 DEF l

\* Start keeps the types and what was flushed.
LEMMA StartStep ==
    ASSUME BaseInv, NEW n \in Nodes, NEW p \in Nodes, Start(n, p)
    PROVE  BaseInv' /\ \A x \in Nodes : Keeps(x)
<1> DEFINE u == [NoSub EXCEPT !.primary = p]
<1>1. /\ role[n] = "off" /\ role' = [role EXCEPT ![n] = "replica"]
      /\ sub' = [sub EXCEPT ![n] = u]
      /\ UNCHANGED <<epoch, pub, net, released, runs, crashes, losses, config>>
  BY DEF Start
<1>2. /\ config \in Configs /\ NodeTypes(n) /\ Positions(n) /\ Roles(n)
      /\ NodeTypes(p) /\ Positions(p) /\ Len(log[p]) \in Nat /\ StateTypes
      /\ (n = Server => epoch[n] = 1) /\ MaxSeq \in Nat
  BY NodeFacts, ConfigFacts DEF BaseInv, TypeInv
<1>3. PICK k \in 0 .. durable[p] : /\ log' = [log EXCEPT ![n] = SubSeq(log[p], 1, k)]
                                   /\ durable' = [durable EXCEPT ![n] = k]
  BY StartCopies
<1>4. SameTypes
  BY <1>1, Rigid
<1>5. k \in Nat /\ k =< Len(log[p]) /\ log[p] \in Seq(Commands) /\ k =< MaxSeq
  BY <1>2, <1>3 DEF NodeTypes, Positions
<1> DEFINE l == SubSeq(log[p], 1, k)
<1>6. l \in Seq(Commands) /\ Len(l) = k /\ Numbered(1, l)
  BY <1>2, <1>5, SubSeqFacts, NumberedPart DEF Positions
<1>7. u \in Subscribers /\ DOMAIN u.stash = {}
  BY NoSubFacts
<1> HIDE DEF u, l
<1>8. /\ role'[n] = "replica" /\ log'[n] = l /\ durable'[n] = k /\ sub'[n] = u
  BY <1>1, <1>2, <1>3 DEF StateTypes, l
<1>9. OnlyNode(n)
  BY <1>1, <1>2, <1>3 DEF OnlyNode, StateTypes
<1>10. NodeTypes(n)'
  BY <1>1, <1>2, <1>4, <1>5, <1>6, <1>7, <1>8 DEF NodeTypes, RoleNames, SameTypes
<1>11. pub[n] = NoPub /\ n # Server /\ epoch[n] = 0
  BY <1>1, <1>2 DEF Roles
<1>12. Positions(n)'
  BY <1>1, <1>4, <1>5, <1>6, <1>7, <1>8, <1>11, NoPubFacts DEF Positions, SameTypes
<1>13. Roles(n)' /\ RingInv(n)'
  BY <1>1, <1>4, <1>8, <1>11 DEF Roles, RingInv, SameTypes
<1>14. Flushed(n)'
  BY <1>1, <1>8, <1>11, NoPubFacts DEF Flushed
<1>15. Keeps(n)
  BY <1>1, <1>2, <1>5, <1>8 DEF Keeps, Roles
<1>16. NodeStep(n)
  BY <1>1, <1>9, <1>10, <1>11, <1>12, <1>13, <1>14, <1>15 DEF NodeStep, NodeInv
<1>17. NetTypes'
  BY <1>1, NetKeeps
<1> QED
  BY <1>1, <1>16, <1>17, RestFacts, NodeStepKeeps

-----------------------------------------------------------------------------
(* The replica. *)

\* A step of a replica: its journal may grow, and what grew may be flushed.
LEMMA SubStep ==
    ASSUME BaseInv, NEW r \in Nodes, NEW u \in Subscribers, NEW l \in Seq(Commands),
           role[r] = "replica", config' = config, UNCHANGED <<role, epoch, pub, released, runs>>,
           sub' = [sub EXCEPT ![r] = u], log' = [log EXCEPT ![r] = l],
           durable' = durable \/ durable' = [durable EXCEPT ![r] = Len(l)],
           Len(log[r]) =< Len(l), Len(l) =< MaxSeq, Numbered(1, l),
           \A i \in 1 .. Len(log[r]) : l[i] = log[r][i],
           \A f \in DOMAIN u.stash : f > Len(l) + 1,
           \A m \in net' : m \in net \/ IsDatagram(m)
    PROVE  BaseInv' /\ \A x \in Nodes : Keeps(x)
<1>1. /\ NodeTypes(r) /\ Positions(r) /\ Roles(r) /\ Flushed(r) /\ Len(log[r]) \in Nat /\ StateTypes
      /\ (r = Server => epoch[r] = 1) /\ Len(l) \in Nat
  BY NodeFacts DEF BaseInv, TypeInv
<1>2. SameTypes
  BY Rigid
<1>3. /\ sub'[r] = u /\ log'[r] = l /\ durable'[r] \in {durable[r], Len(l)}
      /\ role'[r] = role[r] /\ epoch'[r] = epoch[r] /\ pub'[r] = pub[r]
  BY <1>1 DEF StateTypes
<1>4. OnlyNode(r)
  BY <1>1, <1>3 DEF OnlyNode, StateTypes
<1>5. NodeTypes(r)'
  BY <1>1, <1>2, <1>3 DEF NodeTypes, SameTypes
<1>6. pub[r] = NoPub
  BY <1>1 DEF Roles
<1>7. durable[r] \in Nat /\ durable'[r] \in Nat /\ durable'[r] =< Len(l)
  BY <1>1, <1>3 DEF NodeTypes, Positions
<1>8. Positions(r)'
  BY <1>1, <1>2, <1>3, <1>6, <1>7, NoPubFacts DEF Positions, SameTypes
<1>9. Roles(r)' /\ RingInv(r)'
  BY <1>1, <1>2, <1>3 DEF Roles, RingInv, SameTypes
<1>10. Flushed(r)'
  BY <1>3, <1>6, NoPubFacts DEF Flushed
<1>11. Keeps(r)
  BY <1>1, <1>3, <1>7 DEF Keeps, Positions
<1>12. NodeStep(r)
  BY <1>1, <1>3, <1>4, <1>5, <1>8, <1>9, <1>10, <1>11 DEF NodeStep, NodeInv
<1>13. NetTypes'
  BY NetKeeps
<1> QED
  BY <1>12, <1>13, RestFacts, NodeStepKeeps

\* Acknowledgements are datagrams.
LEMMA AckFacts ==
    ASSUME BaseInv, NEW r \in Nodes, Acknowledge(r), NEW m \in net', m \notin net
    PROVE  /\ IsDatagram(m) /\ m.kind = "Ack" /\ sub[r].epoch # 0 /\ m.epoch = sub[r].epoch
           /\ m.first = Len(log[r]) /\ durable'[r] = Len(log[r]) /\ UNCHANGED log /\ role[r] = "replica"
<1>1. sub[r].epoch # 0 /\ m = Ack(sub[r].epoch, Len(log[r]), sub[r].primary)
  BY SeqFacts DEF Acknowledge
<1>2. sub[r].epoch \in Nat /\ Len(log[r]) \in Nat
  BY NodeFacts DEF NodeTypes, Subscribers
<1>3. durable'[r] = Len(log[r]) /\ UNCHANGED log /\ role[r] = "replica"
  BY DEF Acknowledge, BaseInv, TypeInv, StateTypes
<1> QED
  BY <1>1, <1>2, <1>3 DEF IsDatagram, Kinds, Ack

\* Acknowledge keeps the types and the journals.
LEMMA AcknowledgeStep ==
    ASSUME BaseInv, NEW r \in Nodes, Acknowledge(r)
    PROVE  BaseInv' /\ \A x \in Nodes : Keeps(x)
<1>1. /\ role[r] = "replica" /\ durable' = [durable EXCEPT ![r] = Len(log[r])]
      /\ UNCHANGED <<role, log, epoch, pub, sub, released, runs, crashes, losses, config>>
  BY DEF Acknowledge
<1>2. /\ NodeTypes(r) /\ Positions(r) /\ Len(log[r]) \in Nat /\ StateTypes
  BY NodeFacts DEF BaseInv, TypeInv
<1>3. sub' = [sub EXCEPT ![r] = sub[r]] /\ log' = [log EXCEPT ![r] = log[r]]
  BY <1>1, <1>2 DEF StateTypes
<1>4. \A m \in net' : m \in net \/ IsDatagram(m)
  BY AckFacts
<1>5. /\ sub[r] \in Subscribers /\ log[r] \in Seq(Commands) /\ Len(log[r]) =< MaxSeq
      /\ Numbered(1, log[r])
      /\ \A f \in DOMAIN sub[r].stash : f > Len(log[r]) + 1
  BY <1>2 DEF NodeTypes, Positions
<1> DEFINE u == sub[r]
           l == log[r]
<1>6. /\ u \in Subscribers /\ l \in Seq(Commands) /\ Len(log[r]) =< Len(l) /\ Len(l) =< MaxSeq
      /\ \A i \in 1 .. Len(log[r]) : l[i] = log[r][i]
      /\ \A f \in DOMAIN u.stash : f > Len(l) + 1
      /\ Numbered(1, l)
  BY <1>2, <1>5
<1>7. /\ sub' = [sub EXCEPT ![r] = u] /\ log' = [log EXCEPT ![r] = l]
      /\ durable' = [durable EXCEPT ![r] = Len(l)]
  BY <1>1, <1>3, Zenon
<1> HIDE DEF u, l
<1> QED
  BY <1>1, <1>4, <1>6, <1>7, SubStep

\* What a replica makes of a datagram: the stream it follows, and its journal.
HearsAs(r, u, l) ==
    /\ u \in Subscribers
    /\ l \in Seq(Commands)
    /\ Len(log[r]) =< Len(l)
    /\ Len(l) =< MaxSeq
    /\ Numbered(1, l)
    /\ \A i \in 1 .. Len(log[r]) : l[i] = log[r][i]
    /\ \A f \in DOMAIN u.stash : f > Len(l) + 1
    /\ sub' = [sub EXCEPT ![r] = u]
    /\ log' = [log EXCEPT ![r] = l]

\* A datagram is heard.
LEMMA HearStep ==
    ASSUME BaseInv, NEW r \in Nodes, NEW m, Hear(r, m), NEW u, NEW l, HearsAs(r, u, l)
    PROVE  BaseInv' /\ \A x \in Nodes : Keeps(x)
<1>1. /\ role[r] = "replica" /\ net' = Received(m)
      /\ UNCHANGED <<role, durable, epoch, pub, released, runs, crashes, losses, config>>
  BY DEF Hear
<1>2. \A x \in net' : x \in net \/ IsDatagram(x)
  BY <1>1, ReceivedFacts
<1> QED
  BY <1>1, <1>2, SubStep DEF HearsAs

\* What a replica makes of a datagram of a newer epoch.
LEMMA HearNewerFacts ==
    ASSUME BaseInv, NEW r \in Nodes, NEW m, HearNewer(r, m)
    PROVE  HearsAs(r, [sub[r] EXCEPT !.superseded = TRUE], log[r])
<1> DEFINE u == [sub[r] EXCEPT !.superseded = TRUE]
<1>1. sub' = [sub EXCEPT ![r].superseded = TRUE] /\ UNCHANGED log
  BY DEF HearNewer
<1>2. NodeTypes(r) /\ Positions(r) /\ Len(log[r]) \in Nat /\ StateTypes
  BY NodeFacts DEF BaseInv, TypeInv
<1>3. u \in Subscribers /\ u.stash = sub[r].stash
  BY <1>2 DEF NodeTypes, Subscribers
<1>4. sub' = [sub EXCEPT ![r] = u] /\ log' = [log EXCEPT ![r] = log[r]]
  BY <1>1, <1>2 DEF StateTypes
<1> HIDE DEF u
<1> QED
  BY <1>2, <1>3, <1>4 DEF HearsAs, NodeTypes, Positions, u

\* What a replica makes of a marker.
LEMMA HearControlFacts ==
    ASSUME BaseInv, NEW r \in Nodes, NEW m \in net, HearControl(r, m)
    PROVE  \E u : /\ HearsAs(r, u, log[r]) /\ u.epoch = m.epoch /\ u.stash = sub[r].stash
                  /\ u.primary = sub[r].primary
                  /\ \/ u.known = sub[r].known
                     \/ m.kind \in {"Heartbeat", "End"} /\ u.known = m.first
<1>1. UNCHANGED log
  BY DEF HearControl
<1>2. NodeTypes(r) /\ Positions(r) /\ Len(log[r]) \in Nat /\ StateTypes /\ IsDatagram(m)
  BY NodeFacts DEF BaseInv, TypeInv, NetTypes
<1>3. sub[r] \in Subscribers /\ m.epoch \in Nat /\ m.first \in Nat /\ sub[r].known \in Nat
  BY <1>2 DEF NodeTypes, Subscribers, IsDatagram
<1>4. Max({sub[r].known, m.first}) \in {sub[r].known, m.first}
  <2> DEFINE a == sub[r].known
             b == m.first
  <2>1. a \in Int /\ b \in Int
    BY <1>3
  <2> HIDE DEF a, b
  <2>2. Max({a, b}) \in {a, b}
    BY <2>1, MinMaxPair
  <2> QED
    BY <2>2 DEF a, b
<1>5. log' = [log EXCEPT ![r] = log[r]]
  BY <1>1, <1>2 DEF StateTypes
<1> DEFINE k == Max({sub[r].known, m.first})
<1>6. ASSUME NEW u \in Subscribers, u.stash = sub[r].stash, sub' = [sub EXCEPT ![r] = u]
      PROVE  HearsAs(r, u, log[r])
  BY <1>2, <1>5, <1>6 DEF HearsAs, NodeTypes, Positions
<1>7. CASE m.kind = "Heartbeat" /\ sub' = [sub EXCEPT ![r].epoch = m.epoch, ![r].known = Max({@, m.first})]
  <2> DEFINE u == [sub[r] EXCEPT !.epoch = m.epoch, !.known = k]
  <2>1. sub' = [sub EXCEPT ![r] = u]
    BY <1>7
  <2> HIDE DEF k
  <2>2. /\ u \in Subscribers /\ u.stash = sub[r].stash /\ u.epoch = m.epoch /\ u.known = k
        /\ u.primary = sub[r].primary
    BY <1>3, <1>4 DEF Subscribers, k
  <2> HIDE DEF u
  <2> QED
    BY <1>4, <1>6, <1>7, <2>1, <2>2 DEF k
<1>8. CASE /\ m.kind = "End"
           /\ sub' = [sub EXCEPT ![r].epoch = m.epoch, ![r].known = Max({@, m.first}), ![r].end = m.first]
  <2> DEFINE u == [sub[r] EXCEPT !.epoch = m.epoch, !.known = k, !.end = m.first]
  <2>1. sub' = [sub EXCEPT ![r] = u]
    BY <1>8
  <2> HIDE DEF k
  <2>2. /\ u \in Subscribers /\ u.stash = sub[r].stash /\ u.epoch = m.epoch /\ u.known = k
        /\ u.primary = sub[r].primary
    BY <1>3, <1>4 DEF Subscribers, k
  <2> HIDE DEF u
  <2> QED
    BY <1>4, <1>6, <1>8, <2>1, <2>2 DEF k
<1>9. CASE sub' = [sub EXCEPT ![r].epoch = m.epoch, ![r].unavailable = TRUE]
  <2> DEFINE u == [sub[r] EXCEPT !.epoch = m.epoch, !.unavailable = TRUE]
  <2>1. sub' = [sub EXCEPT ![r] = u]
    BY <1>9
  <2>2. /\ u \in Subscribers /\ u.stash = sub[r].stash /\ u.epoch = m.epoch /\ u.known = sub[r].known
        /\ u.primary = sub[r].primary
    BY <1>3 DEF Subscribers
  <2> HIDE DEF u
  <2> QED
    BY <1>6, <2>1, <2>2
<1> QED
  BY <1>7, <1>8, <1>9 DEF HearControl

\* What a replica learns from a packet: where its journal ends then, and that it
\* holds what any journal holds that agrees with all it knew.
LearnsFrom(r, m, u, l) ==
    /\ u.epoch = m.epoch
    /\ u.primary = sub[r].primary
    /\ u.known = sub[r].known \/ (u.known = Len(l) + 1 /\ Len(l) > Len(log[r]))
    /\ \A f \in DOMAIN u.stash :
          \/ f \in DOMAIN sub[r].stash /\ u.stash[f] = sub[r].stash[f]
          \/ f = m.first /\ u.stash[f] = m.cmds
    /\ \/ Len(l) = Len(log[r])
       \/ Len(l) = m.first + Len(m.cmds) - 1
       \/ \E f \in DOMAIN sub[r].stash : Len(l) = f + Len(sub[r].stash[f]) - 1
    /\ \A g : /\ \A i \in 1 .. Len(log[r]) : log[r][i] = g[i]
              /\ Tells(m.first, m.cmds, g)
              /\ \A f \in DOMAIN sub[r].stash : Tells(f, sub[r].stash[f], g)
              => \A i \in 1 .. Len(l) : l[i] = g[i]

\* What a replica makes of a packet.
LEMMA HearDataFacts ==
    ASSUME BaseInv, NEW r \in Nodes, NEW m \in net, HearData(r, m)
    PROVE  \E u, l : HearsAs(r, u, l) /\ LearnsFrom(r, m, u, l)
<1> DEFINE s == sub[r]
           L == log[r]
           first == m.first
           cmds == m.cmds
<1>1. NodeTypes(r) /\ Positions(r) /\ StateTypes /\ config \in Configs /\ MaxSeq \in Nat
  BY NodeFacts, ConfigFacts DEF BaseInv, TypeInv
<1>2. m.kind = "Data" /\ IsDatagram(m)
  BY DEF HearData, BaseInv, TypeInv, NetTypes
<1>3. /\ IsPacket(first, cmds) /\ m.epoch \in Nat /\ s \in Subscribers /\ s.stash \in Stashes
      /\ s.known \in Nat /\ first \in Nat \ {0} /\ cmds \in Seq(Commands) /\ Len(cmds) \in Nat \ {0}
      /\ first + Len(cmds) - 1 =< MaxSeq /\ Numbered(first, cmds)
  <2>1. IsPacket(first, cmds) /\ m.epoch \in Nat
    BY <1>2 DEF IsDatagram
  <2>2. s \in Subscribers
    BY <1>1 DEF NodeTypes
  <2>3. s.stash \in Stashes /\ s.known \in Nat
    BY <2>2 DEF Subscribers
  <2>4. /\ first \in Nat \ {0} /\ cmds \in Seq(Commands) /\ Len(cmds) >= 1
        /\ first + Len(cmds) - 1 =< MaxSeq /\ Numbered(first, cmds)
    BY <2>1 DEF IsPacket
  <2>5. Len(cmds) \in Nat \ {0}
    BY <2>4
  <2> QED
    BY <2>1, <2>2, <2>3, <2>4, <2>5
<1>4. /\ L \in Seq(Commands) /\ Len(L) \in Nat /\ Len(L) =< MaxSeq /\ Numbered(1, L)
      /\ \A f \in DOMAIN s.stash : f > Len(L) + 1
  BY <1>1 DEF NodeTypes, Positions
<1>5. log' = log => log' = [log EXCEPT ![r] = L]
  BY <1>1 DEF StateTypes
<1>6. Expected(r) = Len(L) + 1
  BY DEF Expected
<1>7. CASE /\ sub' = [sub EXCEPT ![r].epoch = m.epoch]
           /\ UNCHANGED log
  <2> DEFINE u == [s EXCEPT !.epoch = m.epoch]
  <2>1. sub' = [sub EXCEPT ![r] = u]
    BY <1>7
  <2>2. /\ u \in Subscribers /\ u.stash = s.stash /\ u.epoch = m.epoch /\ u.known = s.known
        /\ u.primary = s.primary
    BY <1>3 DEF Subscribers
  <2> HIDE DEF u
  <2>3. HearsAs(r, u, L)
    <3>1. /\ Len(log[r]) =< Len(L) /\ Len(L) =< MaxSeq /\ \A i \in 1 .. Len(log[r]) : L[i] = log[r][i]
          /\ \A f \in DOMAIN u.stash : f > Len(L) + 1
      BY <1>4, <2>2
    <3>2. log' = [log EXCEPT ![r] = L]
      BY <1>5, <1>7
    <3> HIDE DEF L
    <3> QED
      BY <1>4, <2>1, <2>2, <3>1, <3>2 DEF HearsAs
  <2>4. LearnsFrom(r, m, u, L)
    BY <2>2 DEF LearnsFrom
  <2> QED
    BY <2>3, <2>4
<1>8. CASE /\ first > Expected(r)
           /\ sub' = [sub EXCEPT ![r].epoch = m.epoch,
                                 ![r].stash = IF m.first \in DOMAIN @ THEN @
                                              ELSE [i \in DOMAIN @ \cup {m.first} |->
                                                      IF i = m.first THEN m.cmds ELSE @[i]]]
           /\ UNCHANGED log
  <2> DEFINE t == IF first \in DOMAIN s.stash THEN s.stash
                  ELSE [i \in DOMAIN s.stash \cup {first} |-> IF i = first THEN cmds ELSE s.stash[i]]
             u == [s EXCEPT !.epoch = m.epoch, !.stash = t]
  <2>1. sub' = [sub EXCEPT ![r] = u]
    BY <1>8, Zenon
  <2>2. /\ DOMAIN t \subseteq DOMAIN s.stash \cup {first}
        /\ \A f \in DOMAIN t : \/ f \in DOMAIN s.stash /\ t[f] = s.stash[f]
                               \/ f = first /\ t[f] = cmds
        /\ t = s.stash \/ t = [f \in DOMAIN t |-> t[f]]
    OBVIOUS
  <2> HIDE DEF t
  <2>3. t \in Stashes
    <3>1. /\ DOMAIN s.stash \subseteq Seqno /\ (\A f \in DOMAIN s.stash : IsPacket(f, s.stash[f]))
          /\ s.stash = [f \in DOMAIN s.stash |-> s.stash[f]]
      BY <1>3, StashFacts
    <3>2. first \in Seqno
      BY <1>1, <1>3 DEF Seqno
    <3>3. DOMAIN t \subseteq Seqno /\ \A f \in DOMAIN t : IsPacket(f, t[f])
      BY <1>3, <2>2, <3>1, <3>2
    <3>4. t = [f \in DOMAIN t |-> t[f]]
      BY <2>2, <3>1
    <3> QED
      BY <3>3, <3>4, StashFacts
  <2>4. /\ u \in Subscribers /\ u.stash = t /\ u.epoch = m.epoch /\ u.known = s.known
        /\ u.primary = s.primary
    BY <1>3, <2>3 DEF Subscribers
  <2> HIDE DEF u
  <2>5. \A f \in DOMAIN u.stash : f > Len(L) + 1
    BY <1>4, <1>6, <1>8, <2>2, <2>4
  <2>6. HearsAs(r, u, L)
    <3>1. /\ Len(log[r]) =< Len(L) /\ Len(L) =< MaxSeq /\ \A i \in 1 .. Len(log[r]) : L[i] = log[r][i]
      BY <1>4
    <3>2. log' = [log EXCEPT ![r] = L]
      BY <1>5, <1>8
    <3> HIDE DEF L
    <3> QED
      BY <1>4, <2>1, <2>4, <2>5, <3>1, <3>2 DEF HearsAs
  <2>7. LearnsFrom(r, m, u, L)
    BY <2>2, <2>4 DEF LearnsFrom
  <2> QED
    BY <2>6, <2>7
<1>9. CASE /\ first =< Expected(r)
           /\ first + Len(cmds) > Expected(r)
           /\ LET d == DrainStash(Deliver(log[r], m.first, m.cmds), sub[r].stash)
              IN  /\ log' = [log EXCEPT ![r] = d.log]
                  /\ sub' = [sub EXCEPT ![r].epoch = m.epoch, ![r].stash = d.stash,
                                        ![r].known = Max({@, Len(d.log) + 1})]
  <2> DEFINE e == Deliver(L, first, cmds)
             A == [log |-> e, stash |-> s.stash]
             d == DrainStash(e, s.stash)
             k == Max({s.known, Len(d.log) + 1})
             u == [s EXCEPT !.epoch = m.epoch, !.stash = d.stash, !.known = k]
  <2>1. log' = [log EXCEPT ![r] = d.log] /\ sub' = [sub EXCEPT ![r] = u]
    BY <1>9, Zenon
  <2>2. /\ e \in Seq(Commands) /\ Len(e) = first + Len(cmds) - 1 /\ Len(e) > Len(L)
        /\ \A i \in 1 .. Len(L) : e[i] = L[i]
        /\ \A i \in Len(L) + 1 .. first + Len(cmds) - 1 : e[i] = cmds[i - first + 1]
        /\ Numbered(1, e)
    <3>1. first =< Len(L) + 1 /\ first + Len(cmds) - 1 > Len(L)
      BY <1>3, <1>4, <1>6, <1>9
    <3> HIDE DEF L, first, cmds
    <3>2. Numbered(1, e)
      BY <1>3, <1>4, <3>1, DeliverNumbered
    <3> QED
      BY <1>3, <1>4, <3>1, <3>2, DeliverFacts
  <2>3. d \in Drains /\ Extends(A, d) /\ Drained(d)
    <3> HIDE DEF e
    <3> DEFINE t == s.stash
    <3>1. t \in Stashes
      BY <1>3
    <3> HIDE DEF t
    <3>2. DrainStash(e, t) \in Drains /\ Extends([log |-> e, stash |-> t], DrainStash(e, t)) /\ Drained(DrainStash(e, t))
      BY <1>1, <2>2, <3>1, DrainFacts
    <3> QED
      BY <3>2 DEF t
  <2>4. A.log = e /\ A.stash = s.stash
    OBVIOUS
  <2> HIDE DEF e, A, d
  <2> DEFINE l == d.log
  <2>5. l \in Seq(Commands) /\ d.stash \in Stashes /\ Len(l) \in Nat /\ Numbered(1, l)
    BY <2>3 DEF Drains
  <2>6. /\ Len(e) =< Len(l) /\ \A i \in 1 .. Len(e) : l[i] = e[i]
        /\ DOMAIN d.stash \subseteq DOMAIN s.stash
        /\ \A f \in DOMAIN d.stash : d.stash[f] = s.stash[f]
        /\ Len(l) = Len(e) \/ \E f \in DOMAIN s.stash : Len(l) = f + Len(s.stash[f]) - 1
    BY <2>3, <2>4 DEF Extends
  <2>7. k = s.known \/ k = Len(l) + 1
    <3> DEFINE a == s.known
               b == Len(l) + 1
    <3>1. a \in Int /\ b \in Int
      BY <1>3, <2>5
    <3> HIDE DEF a, b
    <3>2. Max({a, b}) = a \/ Max({a, b}) = b
      BY <3>1, MinMaxPair
    <3> QED
      BY <3>2 DEF a, b
  <2> HIDE DEF k
  <2>8. k \in Nat
    BY <1>3, <2>5, <2>7
  <2>9. /\ u \in Subscribers /\ u.stash = d.stash /\ u.epoch = m.epoch /\ u.known = k
        /\ u.primary = s.primary
    BY <1>3, <2>5, <2>8 DEF Subscribers
  <2> HIDE DEF u
  <2>10. Len(l) =< MaxSeq
    <3>1. \A f \in DOMAIN s.stash : IsPacket(f, s.stash[f])
      BY <1>3, StashFacts
    <3> QED
      BY <1>3, <2>2, <2>6, <3>1 DEF IsPacket
  <2>11. Len(L) =< Len(l) /\ \A i \in 1 .. Len(L) : l[i] = L[i]
    BY <1>4, <2>2, <2>5, <2>6
  <2>12. \A f \in DOMAIN u.stash : f > Len(l) + 1
    BY <2>3, <2>9 DEF Drained
  <2>13. HearsAs(r, u, l)
    BY <2>1, <2>5, <2>9, <2>10, <2>11, <2>12 DEF HearsAs
  <2>14. ASSUME NEW g, \A i \in 1 .. Len(L) : L[i] = g[i], Tells(first, cmds, g),
                \A f \in DOMAIN s.stash : Tells(f, s.stash[f], g)
         PROVE  \A i \in 1 .. Len(l) : l[i] = g[i]
    <3>1. \A i \in 1 .. Len(e) : e[i] = g[i]
      <4> TAKE i \in 1 .. Len(e)
      <4>1. CASE i \in 1 .. Len(L)
        BY <2>2, <2>14, <4>1
      <4>2. CASE i \in Len(L) + 1 .. first + Len(cmds) - 1
        <5>1. e[i] = cmds[i - first + 1]
          BY <2>2, <4>2
        <5>2. i - first + 1 \in 1 .. Len(cmds) /\ first + (i - first + 1) - 1 = i
          <6> DEFINE a == first
                     b == Len(cmds)
                     c == Len(L)
          <6>1. /\ a \in Nat \ {0} /\ b \in Nat /\ c \in Nat /\ a =< c + 1
                /\ i \in c + 1 .. a + b - 1
            BY <1>3, <1>4, <1>6, <1>9, <4>2
          <6> HIDE DEF a, b, c
          <6>2. i - a + 1 \in 1 .. b /\ a + (i - a + 1) - 1 = i
            BY <6>1
          <6> QED
            BY <6>2 DEF a, b
        <5> QED
          BY <2>14, <5>1, <5>2 DEF Tells
      <4>3. i \in 1 .. Len(L) \/ i \in Len(L) + 1 .. first + Len(cmds) - 1
        BY <1>3, <1>4, <2>2
      <4> QED
        BY <4>1, <4>2, <4>3
    <3> QED
      BY <2>3, <2>4, <2>14, <3>1 DEF Extends
  <2>15. LearnsFrom(r, m, u, l)
    <3>1. /\ u.epoch = m.epoch /\ u.primary = sub[r].primary
          /\ u.known = sub[r].known \/ (u.known = Len(l) + 1 /\ Len(l) > Len(log[r]))
      BY <1>4, <2>2, <2>5, <2>6, <2>7, <2>9
    <3>2. \A f \in DOMAIN u.stash : f \in DOMAIN sub[r].stash /\ u.stash[f] = sub[r].stash[f]
      BY <2>6, <2>9
    <3>3. Len(l) = m.first + Len(m.cmds) - 1 \/ \E f \in DOMAIN sub[r].stash : Len(l) = f + Len(sub[r].stash[f]) - 1
      BY <2>2, <2>6
    <3> HIDE DEF l
    <3> QED
      BY <3>1, <3>2, <3>3, <2>14 DEF LearnsFrom
  <2> QED
    BY <2>13, <2>15
<1> QED
  BY <1>7, <1>8, <1>9 DEF HearData

\* A replica polls.
LEMMA PollStep ==
    ASSUME BaseInv, NEW r \in Nodes, NEW m \in net, Poll(r, m)
    PROVE  BaseInv' /\ \A x \in Nodes : Keeps(x)
<1>1. Hear(r, m)
  BY DEF Poll, HearNewer, HearData, HearControl
<1>2. \E u, l : HearsAs(r, u, l)
  BY HearNewerFacts, HearDataFacts, HearControlFacts DEF Poll
<1> QED
  BY <1>1, <1>2, HearStep

-----------------------------------------------------------------------------
(* Types, and what no step does to a journal. *)

\* Every step keeps the types, the order of flushing and answering, and every
\* flushed record.
LEMMA BaseStep ==
    ASSUME BaseInv, Next
    PROVE  BaseInv' /\ \A x \in Nodes : Keeps(x)
<1>1. ASSUME NEW n \in Nodes, Primary(n)
      PROVE  BaseInv' /\ \A x \in Nodes : Keeps(x)
  <2>1. ASSUME WaitDone(n) \/ ContinueAlone(n)
        PROVE  \E lost \in BOOLEAN : Waiting(n) /\ Answer(n, lost)
    <3>1. pub[n].lost \in BOOLEAN
      BY NodeFacts DEF NodeTypes, Publishers
    <3> QED
      BY <2>1, <3>1 DEF WaitDone, ContinueAlone, TimedOut
  <2>2. CASE WaitDone(n) \/ ContinueAlone(n)
    BY <2>1, <2>2, AnswerStep
  <2>3. CASE Sequence(n) \/ FlushBatch(n) \/ WriteBacklog(n) \/ HeartbeatIfIdle(n)
    BY <2>3, SequenceStep, FlushBatchStep, WriteBacklogStep, HeartbeatStep
  <2>4. CASE Stop(n) \/ JournalError(n) \/ HaltReplicaLost(n) \/ HaltFenced(n)
    BY <2>4, ShutdownStep
  <2> QED
    BY <1>1, <2>2, <2>3, <2>4 DEF Primary
<1>2. ASSUME NEW n \in Nodes, NEW m \in net, Service(n, m)
      PROVE  BaseInv' /\ \A x \in Nodes : Keeps(x)
  BY <1>2, HearGroupStep, ServiceAckStep, ServiceRetransmitStep DEF Service
<1>3. ASSUME NEW n \in Nodes, Replica(n) \/ Crash(n)
      PROVE  BaseInv' /\ \A x \in Nodes : Keeps(x)
  BY <1>3, RequestGapStep, AcknowledgeStep, CrashStep, PromoteStep DEF Replica
<1> QED
  BY <1>1, <1>2, <1>3, PollStep, StartStep, LoseStep, RecoverStep DEF Next

\* Nothing holds of a state that a stuttering step changes.
LEMMA BaseStutters ==
    ASSUME BaseInv, UNCHANGED vars
    PROVE  BaseInv' /\ \A x \in Nodes : Keeps(x)
<1>1. UNCHANGED <<role, log, durable, epoch, pub, sub, net, released, runs, config>>
  BY DEF vars
<1>2. NetTypes'
  BY <1>1, NetKeeps
<1> QED
  BY <1>1, <1>2, RestFacts, NodesStay

\* The first state.
LEMMA BaseInit ==
    ASSUME Init, RingHoldsBatch
    PROVE  BaseInv
<1>1. /\ config \in Configs /\ Server \in Nodes /\ MaxRuns \in Nat \ {0} /\ MaxSeq \in Nat
      /\ Server \notin Backups
  BY ConfigFacts DEF Init
<1> DEFINE q == [NoPub EXCEPT !.run = 1]
<1>2. /\ NoPub \in Publishers /\ q \in Publishers /\ q.run = 1
      /\ q.base = 0 /\ q.sent = 0 /\ q.acked = 0 /\ q.phase = "loop" /\ q.from = 1
  BY NoPubFacts DEF Publishers, NoPub
<1>8. pub = [n \in Nodes |-> IF n = Server THEN q ELSE NoPub]
  BY DEF Init
<1> HIDE DEF q
<1>3. NoSub \in Subscribers /\ DOMAIN NoSub.stash = {}
  BY <1>1, NoSubFacts
<1>4. 1 \in Runs
  BY <1>1 DEF Runs
<1>5. StateTypes
  BY <1>1, <1>2, <1>3, <1>4, <1>8 DEF Init, StateTypes
<1>6. ASSUME NEW n \in Nodes PROVE NodeInv(n) /\ Flushed(n)
  <2>1. /\ role[n] = (IF n = Server THEN "primary" ELSE IF n \in Backups THEN "replica" ELSE "off")
        /\ log[n] = <<>> /\ durable[n] = 0 /\ epoch[n] = (IF n = Server THEN 1 ELSE 0)
        /\ pub[n] = (IF n = Server THEN q ELSE NoPub)
        /\ sub[n] = NoSub
    BY <1>8 DEF Init
  <2>2. Len(log[n]) = 0
    BY <2>1
  <2>3. /\ pub[n].base = 0 /\ pub[n].sent = 0 /\ pub[n].acked = 0 /\ pub[n].phase = "loop"
        /\ (n = Server => pub[n].run = 1 /\ pub[n].from = 1)
    BY <1>2, <2>1, NoPubFacts
  <2>4. Positions(n)
    BY <1>1, <1>3, <2>1, <2>2, <2>3 DEF Positions, Numbered
  <2>5. Roles(n)
    BY <1>1, <1>4, <2>1, <2>3 DEF Roles
  <2>6. Flushed(n)
    BY <2>1, <2>2, <2>3 DEF Flushed
  <2>7. RingInv(n)
    BY <1>1, <2>1, <2>2, <2>3, ConfigFacts DEF RingInv
  <2> QED
    BY <2>1, <2>4, <2>5, <2>6, <2>7 DEF NodeInv
<1>7. NetTypes
  BY DEF Init, NetTypes
<1>9. MaxBatch =< RingSize
  BY <1>1 DEF RingHoldsBatch, MaxBatch, RingSize
<1> QED
  BY <1>5, <1>6, <1>7, <1>9 DEF BaseInv, TypeInv, WriteAhead

\* The invariant of every deployment whose ring holds a batch.
THEOREM BaseCorrect ==
    ASSUME RingHoldsBatch
    PROVE  Spec => []BaseInv
<1>1. BaseInv /\ [Next]_vars => BaseInv'
  BY BaseStep, BaseStutters
<1> QED
  BY <1>1, BaseInit, PTL DEF Spec

\* Types of the processes' state (seqstream.hpp:278-289 and 425-434), for every
\* number of nodes, every deployment whose ring holds a batch, and every bound.
THEOREM ReplicationTypes ==
    ASSUME RingHoldsBatch
    PROVE  Spec => []TypeOK
<1>1. BaseInv => TypeOK
  <2> SUFFICES ASSUME BaseInv PROVE TypeOK
    OBVIOUS
  <2>1. ASSUME NEW n \in Nodes
        PROVE  /\ durable[n] \in 0 .. Len(log[n]) /\ pub[n].base =< pub[n].sent
               /\ pub[n].sent =< Len(log[n]) /\ pub[n].acked =< Len(log[n])
               /\ \A f \in DOMAIN sub[n].stash : f > Len(log[n]) + 1
    BY NodeFacts DEF NodeTypes, Positions
  <2>2. \A n \in Nodes : LastSeq(n) = Len(log[n]) /\ Expected(n) = Len(log[n]) + 1
    BY SeqFacts
  <2> QED
    BY <2>1, <2>2 DEF TypeOK, BaseInv, TypeInv, StateTypes, Seqno
<1> QED
  BY <1>1, BaseCorrect, PTL

\* gateway.hpp:9-11, write-ahead: no step of any process, a crash and a recovery
\* included, loses or changes a record that was flushed to a journal.
JournalsKeep == \A n \in Nodes : Keeps(n)

\* Every step of the specification is such a step.
THEOREM FlushedIsForever ==
    ASSUME RingHoldsBatch
    PROVE  Spec => [][JournalsKeep]_vars
<1>1. BaseInv /\ [Next]_vars => [JournalsKeep]_vars
  BY BaseStep DEF JournalsKeep
<1> QED
  BY <1>1, BaseCorrect, PTL DEF Spec

-----------------------------------------------------------------------------
(* Write-ahead: what clients have seen answered. *)

\* Clients are answered when the batch has been flushed, and then either nobody
\* waits for a replica any more, or one has acknowledged the batch.
LEMMA ReleasedFacts ==
    ASSUME BaseInv, Next, ~SlowClients, NEW a \in released', a \notin released
    PROVE  \E n \in Nodes : /\ a \in Answers(n) /\ role[n] = "primary"
                            /\ UNCHANGED <<log, role>> /\ durable'[n] = Len(log[n])
                            /\ \/ ~WaitReplica \/ ~HaltOnLoss \/ pub[n].lost
                               \/ pub[n].acked >= Len(log[n])
<1>1. ASSUME NEW n \in Nodes, Primary(n)
      PROVE  /\ a \in Answers(n) /\ role[n] = "primary"
             /\ UNCHANGED <<log, role>> /\ durable'[n] = Len(log[n])
             /\ \/ ~WaitReplica \/ ~HaltOnLoss \/ pub[n].lost
                \/ pub[n].acked >= Len(log[n])
  <2>1. CASE FlushBatch(n)
    <3>1. /\ role[n] = "primary" /\ UNCHANGED <<log, role>>
          /\ durable' = [durable EXCEPT ![n] = Len(log[n])]
      BY <2>1 DEF FlushBatch, InLoop
    <3>2. durable'[n] = Len(log[n])
      BY <3>1 DEF BaseInv, TypeInv, StateTypes
    <3>3. (~WaitReplica \/ pub[n].lost) /\ released' = released \cup Answers(n)
      BY <2>1 DEF FlushBatch
    <3> QED
      BY <3>1, <3>2, <3>3
  <2>2. CASE WaitDone(n) \/ ContinueAlone(n)
    <3>1. /\ Waiting(n) /\ released' = released \cup Answers(n) /\ UNCHANGED <<log, role, durable>>
          /\ ~HaltOnLoss \/ pub[n].acked >= Len(log[n])
      BY <2>2, SeqFacts DEF WaitDone, ContinueAlone, TimedOut, Answer
    <3>2. role[n] = "primary" /\ durable[n] = Len(log[n])
      BY <3>1, NodeFacts DEF Flushed, Waiting
    <3> QED
      BY <3>1, <3>2
  <2>3. CASE Stop(n) \/ JournalError(n) \/ HaltReplicaLost(n) \/ HaltFenced(n)
    BY <2>3 DEF Stop, JournalError, HaltReplicaLost, HaltFenced, Shutdown, Exit
  <2>4. CASE Sequence(n) \/ WriteBacklog(n) \/ HeartbeatIfIdle(n)
    BY <2>4 DEF Sequence, WriteBacklog, HeartbeatIfIdle
  <2> QED
    BY <1>1, <2>1, <2>2, <2>3, <2>4 DEF Primary
<1>2. ASSUME NEW n \in Nodes, Replica(n) \/ Crash(n)
      PROVE  released' = released
  BY <1>2 DEF Replica, RequestGap, Acknowledge, ReplicaExit, Promote, Crash, Exit
<1>3. ASSUME NEW n \in Nodes, NEW m \in net, Service(n, m)
      PROVE  released' = released
  BY <1>3 DEF Service, HearGroup, ServiceAck, ServiceRetransmit, Control
<1>4. ASSUME NEW n \in Nodes, NEW m \in net, Poll(n, m)
      PROVE  released' = released
  BY <1>4 DEF Poll, HearNewer, HearData, HearControl, Hear
<1>5. ASSUME (\E r, p \in Nodes : Start(r, p)) \/ (\E m \in net : Lose(m)) \/ Recover
      PROVE  released' = released
  BY <1>5 DEF Start, Lose, Recover
<1> QED
  BY <1>1, <1>2, <1>3, <1>4, <1>5 DEF Next

\* A node that holds a command in its flushed journal keeps it.
LEMMA HeldIsKept ==
    ASSUME BaseInv, NEW n \in Nodes, NEW a \in released, Keeps(n), BaseInv', Holds(n, a)
    PROVE  Holds(n, a)'
<1>1. a[1] \in Nat \ {0}
  <2>1. a \in Seqno \X Commands /\ MaxSeq \in Nat
    BY RestFacts, ConfigFacts DEF BaseInv, TypeInv, StateTypes
  <2> QED
    BY <2>1 DEF Seqno
<1>2. durable[n] \in Nat /\ durable'[n] \in Nat
  BY DEF BaseInv, TypeInv, StateTypes
<1>3. a[1] =< durable[n] /\ log[n][a[1]] = a[2]
  BY DEF Holds
<1>4. a[1] \in 1 .. durable[n] /\ a[1] =< durable'[n]
  BY <1>1, <1>2, <1>3 DEF Keeps
<1>5. log'[n][a[1]] = a[2]
  BY <1>3, <1>4 DEF Keeps
<1> QED
  BY <1>4, <1>5 DEF Holds

\* The node that answers a batch holds it.
LEMMA AnsweredIsHeld ==
    ASSUME BaseInv, NEW n \in Nodes, NEW a \in Answers(n), UNCHANGED log, durable'[n] = Len(log[n])
    PROVE  Holds(n, a)'
<1>1. a[1] \in pub[n].base + 1 .. Len(log[n]) /\ a[2] = log[n][a[1]]
  BY AnswersTyped
<1>2. pub[n].base \in Nat /\ Len(log[n]) \in Nat
  BY NodeFacts DEF NodeTypes, Publishers
<1>3. a[1] =< durable'[n] /\ log'[n][a[1]] = a[2]
  BY <1>1, <1>2
<1> QED
  BY <1>3 DEF Holds

\* gateway.hpp:9-11, write-ahead: a client never holds an acknowledgement for a
\* command that a crash could erase, whatever crashes, is lost or doubled, as
\* long as no connection is left with unsent output (the run slow_client shows
\* what happens then).
THEOREM WriteAheadCorrect ==
    ASSUME RingHoldsBatch, \A c \in Configs : ~c.slowClients
    PROVE  Spec => []ReleasedIsDurable
<1> DEFINE Inv == \A a \in released : \E n \in Nodes : Holds(n, a)
<1>1. BaseInv => ~SlowClients
  BY DEF BaseInv, TypeInv, StateTypes, SlowClients
<1>2. Init => Inv
  BY DEF Init
<1>3. BaseInv /\ BaseInv' /\ Inv /\ [Next]_vars => Inv'
  <2> SUFFICES ASSUME BaseInv, BaseInv', Inv, [Next]_vars, NEW a \in released'
               PROVE  \E n \in Nodes : Holds(n, a)'
    BY Zenon
  <2>1. CASE a \in released
    <3>1. PICK n \in Nodes : Holds(n, a)
      BY <2>1
    <3>2. Keeps(n)
      BY BaseStep, BaseStutters
    <3> QED
      BY <2>1, <3>1, <3>2, HeldIsKept
  <2>2. CASE a \notin released
    <3>1. Next
      BY <2>2 DEF vars
    <3>2. PICK n \in Nodes : a \in Answers(n) /\ UNCHANGED log /\ durable'[n] = Len(log[n])
      BY <1>1, <2>2, <3>1, ReleasedFacts
    <3> QED
      BY <3>2, AnsweredIsHeld
  <2> QED
    BY <2>1, <2>2
<1>4. Inv => ReleasedIsDurable
  BY DEF ReleasedIsDurable, Holds
<1> HIDE DEF Inv
<1> QED
  BY <1>2, <1>3, <1>4, BaseCorrect, PTL DEF Spec

-----------------------------------------------------------------------------
(* The stream of an epoch: what a step sends, and what a replica makes of it. *)

\* A primary sends what it flushes in the same step, and what it is asked for.
SentByPrimary(m, q) ==
    /\ role[q] = "primary" /\ m.epoch = epoch[q]
    /\ \/ m.kind = "Unavailable"
       \/ /\ durable'[q] = Len(log[q])
          /\ \A i \in 1 .. Len(log[q]) : log'[q][i] = log[q][i]
          /\ \/ Carries(m, q, Len(log[q]))
             \/ m.kind \in {"Heartbeat", "End"} /\ m.first = Len(log[q]) + 1
       \/ /\ UNCHANGED <<log, durable>>
          /\ Carries(m, q, Len(log[q]))
          /\ \E y \in net : /\ y.kind = "Retransmit" /\ y.epoch = epoch[q]
                            /\ m.first + Len(m.cmds) =< y.first + y.count
       \/ JournalFails

\* A replica acknowledges, and asks for what it has heard of.
SentByReplica(m, r) ==
    /\ sub[r].epoch # 0 /\ m.epoch = sub[r].epoch
    /\ IsDatagram(m)
    /\ \/ /\ m.kind = "Ack" /\ role[r] = "replica"
          /\ m.first = Len(log[r]) /\ durable'[r] = Len(log[r]) /\ UNCHANGED log
       \/ /\ m.kind = "Retransmit"
          /\ \/ m.first + m.count =< sub[r].known
             \/ \E f \in DOMAIN sub[r].stash : m.first + m.count =< f

Sent(m) == \E n \in Nodes : SentByPrimary(m, n) \/ SentByReplica(m, n)

\* What a primary sends of its own accord.
LEMMA PrimarySends ==
    ASSUME BaseInv, NEW n \in Nodes, Primary(n), NEW m \in net', m \notin net
    PROVE  SentByPrimary(m, n)
<1>1. NodeTypes(n) /\ Positions(n) /\ Flushed(n) /\ Len(log[n]) \in Nat /\ StateTypes
  BY NodeFacts DEF BaseInv, TypeInv
<1>2. CASE FlushBatch(n)
  <2>1. /\ role[n] = "primary" /\ m \in Staged(n) /\ UNCHANGED log
        /\ durable' = [durable EXCEPT ![n] = Len(log[n])]
    BY <1>2 DEF FlushBatch, InLoop
  <2>2. durable'[n] = Len(log[n])
    BY <1>1, <2>1 DEF StateTypes
  <2>3. Carries(m, n, Len(log[n]))
    BY <2>1, StagedFacts
  <2> QED
    BY <2>1, <2>2, <2>3 DEF SentByPrimary, Carries
<1>3. CASE HeartbeatIfIdle(n)
  <2>1. /\ role[n] = "primary" /\ m = Heartbeat(epoch[n], NextSeq(n)) /\ UNCHANGED <<log, durable>>
        /\ pub[n].sent = Len(log[n])
    BY <1>3, SeqFacts DEF HeartbeatIfIdle
  <2>2. durable'[n] = Len(log[n])
    BY <1>1, <2>1 DEF Flushed, Positions, NodeTypes
  <2>3. m.kind = "Heartbeat" /\ m.first = Len(log[n]) + 1 /\ m.epoch = epoch[n]
    BY <2>1, SeqFacts DEF Heartbeat
  <2> QED
    BY <2>1, <2>2, <2>3 DEF SentByPrimary
<1>4. CASE Stop(n) \/ HaltReplicaLost(n) \/ HaltFenced(n)
  <2>1. PICK how \in {"stopped", "halted"} : Shutdown(n, Len(log[n]), how)
    BY <1>4 DEF Stop, HaltReplicaLost, HaltFenced
  <2>2. role[n] = "primary"
    BY <1>4 DEF Stop, HaltReplicaLost, HaltFenced, InLoop, TimedOut, Waiting
  <2>3. m \in Staged(n) \/ m = End(epoch[n], NextSeq(n))
    BY <2>1 DEF Shutdown
  <2>4. log'[n] = SubSeq(log[n], 1, Len(log[n])) /\ durable'[n] = Len(log[n])
    BY <1>1, <2>1 DEF Shutdown, Exit, StateTypes
  <2>5. \A i \in 1 .. Len(log[n]) : log'[n][i] = log[n][i]
    BY <1>1, <2>4 DEF NodeTypes
  <2>6. CASE m \in Staged(n)
    BY <2>2, <2>4, <2>5, <2>6, StagedFacts DEF SentByPrimary, Carries
  <2>7. CASE m = End(epoch[n], NextSeq(n))
    <3>1. m.kind = "End" /\ m.first = Len(log[n]) + 1 /\ m.epoch = epoch[n]
      BY <2>7, SeqFacts DEF End
    <3> QED
      BY <2>2, <2>4, <2>5, <3>1 DEF SentByPrimary
  <2> QED
    BY <2>3, <2>6, <2>7
<1>5. CASE JournalError(n)
  <2>1. /\ role[n] = "primary" /\ JournalFails
        /\ m \in Staged(n) \/ m = End(epoch[n], NextSeq(n))
    BY <1>5 DEF JournalError, InLoop, Shutdown
  <2>2. m.epoch = epoch[n]
    BY <2>1, StagedFacts DEF End, Carries
  <2> QED
    BY <2>1, <2>2 DEF SentByPrimary
<1>6. CASE Sequence(n) \/ WriteBacklog(n) \/ WaitDone(n) \/ ContinueAlone(n)
  BY <1>6 DEF Sequence, WriteBacklog, WaitDone, ContinueAlone, Answer
<1> QED
  BY <1>2, <1>3, <1>4, <1>5, <1>6 DEF Primary

\* Every new datagram is one of these.
LEMMA SentFacts ==
    ASSUME BaseInv, Next, NEW m \in net', m \notin net
    PROVE  Sent(m)
<1>1. ASSUME NEW n \in Nodes, Primary(n)
      PROVE  Sent(m)
  BY <1>1, PrimarySends DEF Sent
<1>2. ASSUME NEW n \in Nodes, NEW y \in net, Service(n, y)
      PROVE  Sent(m)
  <2>1. ServiceRetransmit(n, y)
    BY <1>2, ReceivedFacts DEF Service, HearGroup, ServiceAck
  <2>2. /\ role[n] = "primary" /\ y.kind = "Retransmit" /\ y.epoch = epoch[n] /\ UNCHANGED <<log, durable>>
    BY <2>1 DEF ServiceRetransmit, Control
  <2>3. \/ m.kind = "Unavailable" /\ m.epoch = epoch[n]
        \/ Carries(m, n, Len(log[n])) /\ m.first + Len(m.cmds) =< y.first + y.count
    BY <2>1, RetransmitFacts
  <2>4. SentByPrimary(m, n)
    BY <2>2, <2>3 DEF SentByPrimary, Carries
  <2> QED
    BY <2>4 DEF Sent
<1>3. ASSUME NEW n \in Nodes, Replica(n) \/ Crash(n)
      PROVE  Sent(m)
  <2>1. RequestGap(n) \/ Acknowledge(n)
    BY <1>3 DEF Replica, Crash, ReplicaExit, Promote
  <2>2. CASE RequestGap(n)
    <3>1. sub[n].epoch # 0
      BY <2>2 DEF RequestGap
    <3> QED
      BY <2>2, <3>1, RequestFacts DEF Sent, SentByReplica
  <2>3. CASE Acknowledge(n)
    BY <2>3, AckFacts DEF Sent, SentByReplica
  <2> QED
    BY <2>1, <2>2, <2>3
<1>4. ASSUME NEW n \in Nodes, NEW y \in net, Poll(n, y)
      PROVE  Sent(m)
  BY <1>4, ReceivedFacts DEF Poll, HearNewer, HearData, HearControl, Hear
<1>5. ASSUME (\E r, p \in Nodes : Start(r, p)) \/ (\E y \in net : Lose(y)) \/ Recover
      PROVE  Sent(m)
  BY <1>5 DEF Start, Lose, Recover
<1> QED
  BY <1>1, <1>2, <1>3, <1>4, <1>5 DEF Next

\* A replica hears a datagram of the epoch it follows, or of the first it hears.
Heard(r, m) ==
    /\ role[r] = "replica" /\ role'[r] = "replica"
    /\ sub[r].epoch \in {0, m.epoch}
    /\ sub'[r].epoch = m.epoch
    /\ sub'[r].primary = sub[r].primary
    /\ \/ /\ log'[r] = log[r] /\ sub'[r].stash = sub[r].stash
          /\ \/ sub'[r].known = sub[r].known
             \/ m.kind \in {"Heartbeat", "End"} /\ sub'[r].known = m.first
       \/ m.kind = "Data" /\ LearnsFrom(r, m, sub'[r], log'[r])

Started(r, p) ==
    /\ r \in Spares /\ role[p] = "primary" /\ r # p
    /\ role'[r] = "replica" /\ sub'[r] = [NoSub EXCEPT !.primary = p]
    /\ \E k \in 0 .. durable[p] : log'[r] = SubSeq(log[p], 1, k)
    /\ log'[p] = log[p] /\ durable'[p] = durable[p]

\* The replica keeps its journal and what it knows.
Idles(r) ==
    /\ role'[r] = "replica" => role[r] = "replica" /\ log'[r] = log[r]
    /\ sub'[r] = sub[r]

\* No replica, or none that has heard more than that a newer epoch exists.
Rests(r) ==
    \/ Idles(r)
    \/ sub'[r] = NoSub /\ role'[r] # "replica"
    \/ /\ role[r] = "replica" /\ role'[r] = "replica" /\ log'[r] = log[r]
       /\ sub'[r].epoch = sub[r].epoch /\ sub'[r].known = sub[r].known
       /\ sub'[r].stash = sub[r].stash /\ sub'[r].primary = sub[r].primary

Learns(r) ==
    \/ Rests(r)
    \/ epoch' = epoch /\ \E p \in Nodes : Started(r, p)
    \/ epoch' = epoch /\ \E m \in net : Heard(r, m)

\* An epoch, once it is taken, stays; a node takes one while all others rest.
TakesEpoch(n) ==
    \/ epoch'[n] = epoch[n]
    \/ epoch[n] = 0 /\ net' = net /\ \A r \in Nodes : Rests(r)

\* The end of a process, or its promotion, ends its Subscriber; the others idle.
LEMMA EndsSub ==
    ASSUME BaseInv, NEW n \in Nodes, NEW how \in RoleNames \ {"replica"}, NEW l,
           role' = [role EXCEPT ![n] = how], log' = [log EXCEPT ![n] = l],
           sub' = [sub EXCEPT ![n] = NoSub], NEW r \in Nodes
    PROVE  Rests(r)
<1>1. /\ role \in [Nodes -> RoleNames] /\ log \in [Nodes -> Seq(Commands)] /\ sub \in [Nodes -> Subscribers]
  BY DEF BaseInv, TypeInv, StateTypes, RoleNames
<1>2. CASE r = n
  <2>1. role'[r] = how /\ sub'[r] = NoSub
    BY <1>1, <1>2
  <2> QED
    BY <2>1 DEF Rests
<1>3. CASE r # n
  BY <1>1, <1>3 DEF Rests, Idles
<1> QED
  BY <1>2, <1>3

\* A primary leaves the replicas alone.
LEMMA PrimaryRests ==
    ASSUME BaseInv, NEW n \in Nodes, Primary(n), NEW r \in Nodes
    PROVE  Rests(r)
<1>1. CASE Sequence(n)
  <2>1. /\ role[n] = "primary" /\ UNCHANGED <<role, sub>>
        /\ log' = [log EXCEPT ![n] = Append(@, Command(pub[n].run, NextSeq(n)))]
    BY <1>1 DEF Sequence, Take, InLoop
  <2>2. role[r] = "replica" => log'[r] = log[r]
    BY <2>1 DEF BaseInv, TypeInv, StateTypes
  <2> QED
    BY <2>1, <2>2 DEF Rests, Idles
<1>2. CASE FlushBatch(n) \/ WriteBacklog(n) \/ WaitDone(n) \/ ContinueAlone(n) \/ HeartbeatIfIdle(n)
  <2>1. UNCHANGED <<role, log, sub>>
    BY <1>2 DEF FlushBatch, WriteBacklog, WaitDone, ContinueAlone, HeartbeatIfIdle, Answer
  <2> QED
    BY <2>1 DEF Rests, Idles
<1>3. CASE Stop(n) \/ JournalError(n) \/ HaltReplicaLost(n) \/ HaltFenced(n)
  <2>1. PICK how \in RoleNames \ {"replica"} : \E k : Exit(n, k, how)
    BY <1>3 DEF Stop, JournalError, HaltReplicaLost, HaltFenced, Shutdown, RoleNames
  <2>2. /\ role' = [role EXCEPT ![n] = how] /\ sub' = [sub EXCEPT ![n] = NoSub]
        /\ \E k : log' = [log EXCEPT ![n] = SubSeq(log[n], 1, k)]
    BY <2>1 DEF Exit
  <2> QED
    BY <2>2, EndsSub
<1> QED
  BY <1>1, <1>2, <1>3, Zenon DEF Primary

\* So do the other steps in which nobody hears a datagram or is started.
LEMMA OthersRest ==
    ASSUME BaseInv, NEW n \in Nodes, Replica(n) \/ Crash(n), NEW r \in Nodes
    PROVE  Rests(r)
<1>1. CASE RequestGap(n) \/ Acknowledge(n)
  <2>1. UNCHANGED <<role, log, sub>>
    BY <1>1 DEF RequestGap, Acknowledge
  <2> QED
    BY <2>1 DEF Rests, Idles
<1>2. CASE ReplicaExit(n) \/ Crash(n)
  <2>1. PICK how \in RoleNames \ {"replica"} : \E k : Exit(n, k, how)
    BY <1>2 DEF ReplicaExit, Crash, RoleNames
  <2>2. /\ role' = [role EXCEPT ![n] = how] /\ sub' = [sub EXCEPT ![n] = NoSub]
        /\ \E k : log' = [log EXCEPT ![n] = SubSeq(log[n], 1, k)]
    BY <2>1 DEF Exit
  <2> QED
    BY <2>2, EndsSub
<1>3. CASE Promote(n)
  <2>1. /\ role' = [role EXCEPT ![n] = "primary"] /\ sub' = [sub EXCEPT ![n] = NoSub]
        /\ UNCHANGED log
    BY <1>3 DEF Promote
  <2>2. log' = [log EXCEPT ![n] = log[n]]
    BY <2>1 DEF BaseInv, TypeInv, StateTypes
  <2>3. "primary" \in RoleNames \ {"replica"}
    BY DEF RoleNames
  <2> QED
    BY <2>1, <2>2, <2>3, EndsSub
<1> QED
  BY <1>1, <1>2, <1>3, Zenon DEF Replica

\* What a replica makes of a datagram.
LEMMA PollLearns ==
    ASSUME BaseInv, NEW n \in Nodes, NEW m \in net, Poll(n, m), NEW r \in Nodes
    PROVE  Rests(r) \/ Heard(r, m)
<1>1. Hear(n, m)
  BY DEF Poll, HearNewer, HearData, HearControl
<1>2. role[n] = "replica" /\ UNCHANGED role
  BY <1>1 DEF Hear
<1>3. log \in [Nodes -> Seq(Commands)] /\ sub \in [Nodes -> Subscribers]
  BY DEF BaseInv, TypeInv, StateTypes
<1>4. CASE r # n
  <2>1. PICK u, l : HearsAs(n, u, l)
    BY HearNewerFacts, HearDataFacts, HearControlFacts DEF Poll
  <2>2. sub' = [sub EXCEPT ![n] = u] /\ log' = [log EXCEPT ![n] = l]
    BY <2>1 DEF HearsAs
  <2>3. sub'[r] = sub[r] /\ log'[r] = log[r]
    BY <1>3, <1>4, <2>2
  <2> QED
    BY <1>2, <2>3 DEF Rests, Idles
<1>5. CASE r = n /\ HearNewer(n, m)
  <2> DEFINE u == [sub[n] EXCEPT !.superseded = TRUE]
  <2>1. sub' = [sub EXCEPT ![n] = u] /\ log' = [log EXCEPT ![n] = log[n]]
    BY <1>5, HearNewerFacts DEF HearsAs
  <2>2. /\ u.epoch = sub[n].epoch /\ u.known = sub[n].known /\ u.stash = sub[n].stash
        /\ u.primary = sub[n].primary
    BY <1>3 DEF Subscribers
  <2> HIDE DEF u
  <2>3. sub'[n] = u /\ log'[n] = log[n]
    BY <1>3, <2>1
  <2> QED
    BY <1>2, <1>5, <2>2, <2>3 DEF Rests
<1>6. CASE r = n /\ HearControl(n, m)
  <2>1. PICK u : /\ HearsAs(n, u, log[n]) /\ u.epoch = m.epoch /\ u.stash = sub[n].stash
                 /\ u.primary = sub[n].primary
                 /\ \/ u.known = sub[n].known
                    \/ m.kind \in {"Heartbeat", "End"} /\ u.known = m.first
    BY <1>6, HearControlFacts
  <2>2. sub' = [sub EXCEPT ![n] = u] /\ log' = [log EXCEPT ![n] = log[n]]
    BY <2>1 DEF HearsAs
  <2>3. sub'[n] = u /\ log'[n] = log[n]
    BY <1>3, <2>2
  <2>4. sub[n].epoch \in {0, m.epoch}
    BY <1>6 DEF HearControl, Follows
  <2> QED
    BY <1>2, <1>6, <2>1, <2>3, <2>4 DEF Heard
<1>7. CASE r = n /\ HearData(n, m)
  <2>1. PICK u, l : HearsAs(n, u, l) /\ LearnsFrom(n, m, u, l)
    BY <1>7, HearDataFacts
  <2>2. sub' = [sub EXCEPT ![n] = u] /\ log' = [log EXCEPT ![n] = l]
    BY <2>1 DEF HearsAs
  <2>3. sub'[n] = u /\ log'[n] = l
    BY <1>3, <2>2
  <2>4. sub[n].epoch \in {0, m.epoch} /\ m.kind = "Data"
    BY <1>7 DEF HearData, Follows
  <2>5. u.epoch = m.epoch /\ u.primary = sub[n].primary
    BY <2>1 DEF LearnsFrom
  <2> QED
    BY <1>2, <1>7, <2>1, <2>3, <2>4, <2>5 DEF Heard
<1> QED
  BY <1>4, <1>5, <1>6, <1>7 DEF Poll

\* A replica is started.
LEMMA StartLearns ==
    ASSUME BaseInv, NEW n \in Nodes, NEW p \in Nodes, Start(n, p), NEW r \in Nodes
    PROVE  Rests(r) \/ Started(r, p)
<1>1. /\ n \in Spares /\ role[n] = "off" /\ role[p] = "primary" /\ role' = [role EXCEPT ![n] = "replica"]
      /\ sub' = [sub EXCEPT ![n] = [NoSub EXCEPT !.primary = p]]
  BY DEF Start, Newest
<1>2. /\ log \in [Nodes -> Seq(Commands)] /\ sub \in [Nodes -> Subscribers] /\ durable \in [Nodes -> Nat]
      /\ role \in [Nodes -> RoleNames] /\ n # p
  BY <1>1 DEF BaseInv, TypeInv, StateTypes, RoleNames
<1>3. PICK k \in 0 .. durable[p] : /\ log' = [log EXCEPT ![n] = SubSeq(log[p], 1, k)]
                                   /\ durable' = [durable EXCEPT ![n] = k]
  BY StartCopies
<1>4. CASE r = n
  <2>1. /\ role'[r] = "replica" /\ sub'[r] = [NoSub EXCEPT !.primary = p]
        /\ log'[r] = SubSeq(log[p], 1, k) /\ log'[p] = log[p] /\ durable'[p] = durable[p]
    BY <1>1, <1>2, <1>3, <1>4
  <2> QED
    BY <1>1, <1>2, <1>4, <2>1 DEF Started
<1>5. CASE r # n
  <2>1. role'[r] = role[r] /\ sub'[r] = sub[r] /\ log'[r] = log[r]
    BY <1>1, <1>2, <1>3, <1>5
  <2> QED
    BY <2>1 DEF Rests, Idles
<1> QED
  BY <1>4, <1>5

\* What a step can do to a replica.
LEMMA LearnFacts ==
    ASSUME BaseInv, Next, NEW r \in Nodes
    PROVE  Learns(r)
<1>1. CASE \E n \in Nodes, m \in net : Poll(n, m)
  <2>1. UNCHANGED epoch
    BY <1>1 DEF Poll, HearNewer, HearData, HearControl, Hear
  <2> QED
    BY <1>1, <2>1, PollLearns DEF Learns
<1>2. CASE \E n, p \in Nodes : Start(n, p)
  <2>1. UNCHANGED epoch
    BY <1>2 DEF Start
  <2> QED
    BY <1>2, <2>1, StartLearns DEF Learns
<1>3. CASE (\E n \in Nodes, m \in net : Service(n, m)) \/ (\E m \in net : Lose(m))
  <2>1. UNCHANGED <<role, log, sub>>
    BY <1>3 DEF Service, HearGroup, ServiceAck, ServiceRetransmit, Control, Lose
  <2> QED
    BY <2>1 DEF Learns, Rests, Idles
<1>4. CASE Recover
  <2>1. UNCHANGED <<log, sub>> /\ role' = [role EXCEPT ![Server] = "primary"]
    BY <1>4 DEF Recover
  <2>2. role'[r] = "replica" => role[r] = "replica"
    BY <2>1 DEF BaseInv, TypeInv, StateTypes
  <2> QED
    BY <2>1, <2>2 DEF Learns, Rests, Idles
<1>5. CASE \E n \in Nodes : Primary(n) \/ Replica(n) \/ Crash(n)
  BY <1>5, PrimaryRests, OthersRest DEF Learns
<1> QED
  BY <1>1, <1>2, <1>3, <1>4, <1>5 DEF Next

\* What a step can do to the epochs.
LEMMA EpochFacts ==
    ASSUME BaseInv, Next, NEW n \in Nodes
    PROVE  TakesEpoch(n)
<1>1. CASE \E x \in Nodes : Promote(x)
  <2>1. PICK x \in Nodes : Promote(x)
    BY <1>1
  <2>2. \A r \in Nodes : Rests(r)
    BY <2>1, OthersRest DEF Replica
  <2>3. net' = net /\ role[x] = "replica" /\ epoch' = [epoch EXCEPT ![x] = sub[x].epoch + 1]
    BY <2>1 DEF Promote
  <2>4. epoch[x] = 0
    BY <2>3, NodeFacts DEF Roles
  <2>5. n # x => epoch'[n] = epoch[n]
    BY <2>3 DEF BaseInv, TypeInv, StateTypes
  <2> QED
    BY <2>2, <2>3, <2>4, <2>5 DEF TakesEpoch
<1>2. CASE \E x \in Nodes : Primary(x)
  BY <1>2 DEF Primary, Sequence, Take, FlushBatch, WriteBacklog, WaitDone, ContinueAlone, HeartbeatIfIdle, Answer,
              Stop, JournalError, HaltReplicaLost, HaltFenced, Shutdown, Exit, TakesEpoch
<1>3. CASE \E x \in Nodes : RequestGap(x) \/ Acknowledge(x) \/ ReplicaExit(x) \/ Crash(x)
  BY <1>3 DEF RequestGap, Acknowledge, ReplicaExit, Crash, Exit, TakesEpoch
<1>4. CASE \E x \in Nodes, m \in net : Service(x, m) \/ Poll(x, m)
  BY <1>4 DEF Service, HearGroup, ServiceAck, ServiceRetransmit, Control,
              Poll, HearNewer, HearData, HearControl, Hear, TakesEpoch
<1>5. CASE (\E x, p \in Nodes : Start(x, p)) \/ (\E m \in net : Lose(m)) \/ Recover
  BY <1>5 DEF Start, Lose, Recover, TakesEpoch
<1> QED
  BY <1>1, <1>2, <1>3, <1>4, <1>5 DEF Next, Replica

\* The deployment is chosen once.
LEMMA ConfigStays ==
    ASSUME Next
    PROVE  config' = config
<1>1. CASE \E x \in Nodes : Primary(x)
  BY <1>1 DEF Primary, Sequence, Take, FlushBatch, WriteBacklog, WaitDone, ContinueAlone, HeartbeatIfIdle, Answer,
              Stop, JournalError, HaltReplicaLost, HaltFenced, Shutdown
<1>2. CASE \E x \in Nodes : Replica(x) \/ Crash(x)
  BY <1>2 DEF Replica, RequestGap, Acknowledge, ReplicaExit, Promote, Crash
<1>3. CASE \E x \in Nodes, m \in net : Service(x, m) \/ Poll(x, m)
  BY <1>3 DEF Service, HearGroup, ServiceAck, ServiceRetransmit, Control,
              Poll, HearNewer, HearData, HearControl, Hear
<1>4. CASE (\E x, p \in Nodes : Start(x, p)) \/ (\E m \in net : Lose(m)) \/ Recover
  BY <1>4 DEF Start, Lose, Recover
<1> QED
  BY <1>1, <1>2, <1>3, <1>4 DEF Next

\* Every epoch that is heard of stays some node's.
LEMMA EpochsStep ==
    ASSUME BaseInv, EpochsAreNodes, Next
    PROVE  EpochsAreNodes'
<1>1. \A n \in Nodes : epoch[n] # 0 => epoch'[n] = epoch[n]
  BY EpochFacts DEF TakesEpoch
<1>2. ASSUME NEW e, e # 0, \E n \in Nodes : epoch[n] = e
      PROVE  \E n \in Nodes : epoch'[n] = e
  BY <1>1, <1>2
<1>3. \A m \in net : m.epoch # 0
  BY DEF BaseInv, TypeInv, NetTypes, IsDatagram
<1>4. ASSUME NEW m \in net'
      PROVE  \E n \in Nodes : epoch'[n] = m.epoch
  <2>1. CASE m \in net
    BY <1>2, <1>3, <2>1 DEF EpochsAreNodes
  <2>2. CASE m \notin net
    <3>1. PICK n \in Nodes : SentByPrimary(m, n) \/ SentByReplica(m, n)
      BY <2>2, SentFacts DEF Sent
    <3>2. CASE SentByPrimary(m, n)
      <4>1. m.epoch = epoch[n] /\ epoch[n] # 0
        BY <3>2, NodeFacts DEF SentByPrimary, Roles
      <4> QED
        BY <1>1, <4>1
    <3>3. CASE SentByReplica(m, n)
      BY <1>2, <3>3, ZenonT(40) DEF SentByReplica, EpochsAreNodes
    <3> QED
      BY <3>1, <3>2, <3>3
  <2> QED
    BY <2>1, <2>2
<1>5. ASSUME NEW r \in Nodes
      PROVE  /\ sub'[r].epoch # 0 => \E n \in Nodes : epoch'[n] = sub'[r].epoch
             /\ role'[r] = "replica" => epoch'[sub'[r].primary] # 0
             /\ sub'[r].epoch = 0 => sub'[r].known = 0 /\ DOMAIN sub'[r].stash = {}
  <2>1. /\ sub[r].epoch # 0 => \E n \in Nodes : epoch[n] = sub[r].epoch
        /\ role[r] = "replica" => epoch[sub[r].primary] # 0
        /\ sub[r].epoch = 0 => sub[r].known = 0 /\ DOMAIN sub[r].stash = {}
        /\ sub[r].primary \in Nodes
    BY NodeFacts DEF EpochsAreNodes, NodeTypes, Subscribers
  <2>2. CASE Rests(r)
    <3>1. CASE Idles(r)
      BY <1>1, <1>2, <2>1, <3>1 DEF Idles
    <3>2. CASE sub'[r] = NoSub /\ role'[r] # "replica"
      <4>1. NoSub.epoch = 0 /\ NoSub.known = 0 /\ DOMAIN NoSub.stash = {}
        BY NoSubFacts DEF NoSub
      <4> QED
        BY <3>2, <4>1
    <3>3. CASE /\ role[r] = "replica" /\ sub'[r].epoch = sub[r].epoch /\ sub'[r].known = sub[r].known
               /\ sub'[r].stash = sub[r].stash /\ sub'[r].primary = sub[r].primary
      BY <1>1, <1>2, <2>1, <3>3
    <3> QED
      BY <2>2, <3>1, <3>2, <3>3 DEF Rests
  <2>3. CASE \E p \in Nodes : Started(r, p)
    <3>1. PICK p \in Nodes : role[p] = "primary" /\ sub'[r] = [NoSub EXCEPT !.primary = p]
      BY <2>3 DEF Started
    <3> DEFINE u == [NoSub EXCEPT !.primary = p]
    <3>2. u.epoch = 0 /\ u.known = 0 /\ u.primary = p
      BY DEF NoSub
    <3>3. DOMAIN u.stash = {}
      BY NoSubFacts
    <3> HIDE DEF u
    <3>4. epoch[p] # 0
      BY <3>1, NodeFacts DEF Roles
    <3> QED
      BY <1>1, <3>1, <3>2, <3>3, <3>4 DEF u
  <2>4. CASE \E m \in net : Heard(r, m)
    <3>1. PICK m \in net : Heard(r, m)
      BY <2>4
    <3>2. sub'[r].epoch = m.epoch /\ sub'[r].primary = sub[r].primary /\ role[r] = "replica"
      BY <3>1 DEF Heard
    <3>3. m.epoch # 0 /\ \E n \in Nodes : epoch[n] = m.epoch
      BY <1>3 DEF EpochsAreNodes
    <3> QED
      BY <1>1, <1>2, <2>1, <3>2, <3>3
  <2> QED
    BY <2>2, <2>3, <2>4, LearnFacts DEF Learns
<1> QED
  BY <1>4, <1>5 DEF EpochsAreNodes

\* What p had flushed it still has.
LEMMA FlushedPacket ==
    ASSUME NEW p \in Nodes, Keeps(p), durable[p] \in Nat, durable'[p] \in Nat,
           NEW first, NEW cmds, IsPacket(first, cmds), InJournal(first, cmds, p)
    PROVE  InJournal(first, cmds, p)'
<1> DEFINE d == durable[p]
           e == durable'[p]
           l == log[p]
           k == log'[p]
           c == Len(cmds)
<1>1. first \in Nat \ {0} /\ c \in Nat /\ d \in Nat /\ e \in Nat
  BY DEF IsPacket
<1>2. /\ first + c - 1 =< d /\ \A i \in 1 .. c : cmds[i] = l[first + i - 1]
  BY DEF InJournal
<1>3. d =< e /\ \A i \in 1 .. d : k[i] = l[i]
  BY DEF Keeps
<1>4. first + c - 1 =< e /\ \A i \in 1 .. c : cmds[i] = k[first + i - 1]
  <2> HIDE DEF d, e, l, k, c
  <2>1. first + c - 1 =< e
    BY <1>1, <1>2, <1>3
  <2>2. ASSUME NEW i \in 1 .. c PROVE cmds[i] = k[first + i - 1]
    <3>1. first + i - 1 \in 1 .. d
      BY <1>1, <1>2
    <3> QED
      BY <1>2, <1>3, <3>1
  <2> QED
    BY <2>1, <2>2
<1> QED
  BY <1>4 DEF InJournal

\* What a datagram told stays true.
LEMMA StillTold ==
    ASSUME BaseInv, BaseInv', NEW p \in Nodes, Keeps(p), NEW m, IsDatagram(m), TellsFlushed(m, p)
    PROVE  TellsFlushed(m, p)'
<1>1. durable[p] \in Nat /\ durable'[p] \in Nat /\ durable[p] =< durable'[p]
  BY DEF BaseInv, TypeInv, StateTypes, Keeps
<1>2. m.kind = "Data" => InJournal(m.first, m.cmds, p)'
  <2> SUFFICES ASSUME m.kind = "Data" PROVE InJournal(m.first, m.cmds, p)'
    OBVIOUS
  <2> DEFINE first == m.first
             cmds == m.cmds
  <2>1. IsPacket(first, cmds) /\ InJournal(first, cmds, p)
    BY DEF IsDatagram, TellsFlushed
  <2> HIDE DEF first, cmds
  <2>2. InJournal(first, cmds, p)'
    BY <1>1, <2>1, FlushedPacket
  <2> QED
    BY <2>2 DEF first, cmds, InJournal
<1>3. m.kind \in {"Heartbeat", "End"} => m.first =< durable'[p] + 1
  <2> DEFINE first == m.first
  <2>1. first \in Nat /\ (m.kind \in {"Heartbeat", "End"} => first =< durable[p] + 1)
    BY DEF IsDatagram, TellsFlushed
  <2> HIDE DEF first
  <2>2. m.kind \in {"Heartbeat", "End"} => first =< durable'[p] + 1
    BY <1>1, <2>1
  <2> QED
    BY <2>2 DEF first
<1>4. m.kind = "Retransmit" => m.first + m.count =< durable'[p] + 1
  <2> SUFFICES ASSUME m.kind = "Retransmit" PROVE m.first + m.count =< durable'[p] + 1
    OBVIOUS
  <2> DEFINE first == m.first
             count == m.count
  <2>1. first \in Nat /\ count \in Nat /\ first + count =< durable[p] + 1
    BY DEF IsDatagram, TellsFlushed
  <2> HIDE DEF first, count
  <2>2. first + count =< durable'[p] + 1
    BY <1>1, <2>1
  <2> QED
    BY <2>2 DEF first, count
<1> QED
  BY <1>2, <1>3, <1>4 DEF TellsFlushed

\* What a step that keeps the stream of every epoch starts from.
StreamStep ==
    /\ BaseInv /\ BaseInv' /\ EpochsAreNodes /\ StreamInv /\ UniqueEpochs' /\ ~JournalFails /\ Next

\* A node's epoch is its own, and is heard of only once it has taken it.
LEMMA EpochOwner ==
    ASSUME BaseInv, Next, UniqueEpochs', NEW p \in Nodes, NEW n \in Nodes,
           epoch[n] # 0, epoch[n] = epoch'[p]
    PROVE  n = p /\ epoch[p] = epoch'[p]
<1>1. epoch'[n] = epoch[n]
  BY EpochFacts DEF TakesEpoch
<1> QED
  BY <1>1 DEF UniqueEpochs

\* What a primary sends it has flushed.
LEMMA PrimaryTells ==
    ASSUME StreamStep, NEW p \in Nodes, NEW m, IsDatagram(m), SentByPrimary(m, p)
    PROVE  TellsFlushed(m, p)'
<1>1. /\ role[p] = "primary" /\ m.epoch = epoch[p] /\ epoch[p] # 0
  BY NodeFacts DEF SentByPrimary, StreamStep, Roles
<1>2. durable[p] \in Nat /\ durable'[p] \in Nat /\ Len(log[p]) \in Nat /\ durable[p] =< Len(log[p])
  BY NodeFacts DEF StreamStep, BaseInv, TypeInv, StateTypes, Positions
<1> DEFINE first == m.first
           cmds == m.cmds
           c == Len(cmds)
           L == Len(log[p])
<1>3. ASSUME Carries(m, p, L), first + c - 1 =< durable'[p],
             \A i \in 1 .. durable'[p] : log'[p][i] = log[p][i]
      PROVE  TellsFlushed(m, p)'
  <2>1. first \in Nat \ {0} /\ c \in Nat /\ m.kind = "Data" /\ \A i \in 1 .. c : cmds[i] = log[p][first + i - 1]
    BY <1>3 DEF Carries, IsDatagram, IsPacket
  <2> HIDE DEF first, cmds, c, L
  <2>2. \A i \in 1 .. c : cmds[i] = log'[p][first + i - 1]
    <3> TAKE i \in 1 .. c
    <3>1. first + i - 1 \in 1 .. durable'[p]
      BY <1>2, <1>3, <2>1
    <3> QED
      BY <1>3, <2>1, <3>1
  <2>3. InJournal(first, cmds, p)'
    BY <1>3, <2>2 DEF InJournal, c
  <2> QED
    BY <2>1, <2>3 DEF TellsFlushed, InJournal, first, cmds
<1>4. CASE m.kind = "Unavailable"
  BY <1>4 DEF TellsFlushed
<1>5. CASE /\ durable'[p] = L /\ \A i \in 1 .. L : log'[p][i] = log[p][i]
           /\ Carries(m, p, L)
  BY <1>3, <1>5 DEF Carries
<1>6. CASE /\ durable'[p] = L
           /\ m.kind \in {"Heartbeat", "End"} /\ m.first = L + 1
  BY <1>6 DEF TellsFlushed
<1>7. CASE /\ UNCHANGED <<log, durable>> /\ Carries(m, p, L)
           /\ \E y \in net : /\ y.kind = "Retransmit" /\ y.epoch = epoch[p]
                             /\ m.first + Len(m.cmds) =< y.first + y.count
  <2>1. PICK y \in net : /\ y.kind = "Retransmit" /\ y.epoch = epoch[p]
                         /\ m.first + Len(m.cmds) =< y.first + y.count
    BY <1>7
  <2>2. TellsFlushed(y, p) /\ IsDatagram(y)
    BY <1>1, <2>1 DEF StreamStep, StreamInv, BaseInv, TypeInv, NetTypes
  <2>3. first + c - 1 =< durable[p]
    <3> DEFINE a == y.first
               b == y.count
    <3>1. a \in Nat /\ b \in Nat /\ a + b =< durable[p] + 1 /\ first + c =< a + b
      BY <2>1, <2>2 DEF TellsFlushed, IsDatagram
    <3>2. first \in Nat /\ c \in Nat
      BY <1>7 DEF Carries, IsDatagram, IsPacket
    <3> HIDE DEF a, b, first, c
    <3> QED
      BY <1>2, <3>1, <3>2
  <2> QED
    BY <1>3, <1>7, <2>3
<1> HIDE DEF L
<1> QED
  BY <1>4, <1>5, <1>6, <1>7 DEF SentByPrimary, StreamStep, L

\* What a replica asks for the primary of its epoch has flushed.
LEMMA ReplicaAsks ==
    ASSUME StreamStep, NEW p \in Nodes, NEW r \in Nodes, NEW m, SentByReplica(m, r),
           Keeps(p), epoch[p] # 0, m.epoch = epoch[p]
    PROVE  TellsFlushed(m, p)'
<1>1. /\ durable[p] \in Nat /\ durable'[p] \in Nat /\ durable[p] =< durable'[p]
      /\ sub[r].known \in Nat /\ sub[r].stash \in Stashes
  BY NodeFacts DEF StreamStep, BaseInv, TypeInv, StateTypes, Keeps, Subscribers, NodeTypes
<1>2. HeardFlushed(r, p)
  BY DEF SentByReplica, StreamStep, StreamInv
<1>3. CASE m.kind = "Ack"
  BY <1>3 DEF TellsFlushed
<1>4. CASE /\ m.kind = "Retransmit"
           /\ \/ m.first + m.count =< sub[r].known
              \/ \E f \in DOMAIN sub[r].stash : m.first + m.count =< f
  <2> DEFINE a == m.first
             b == m.count
  <2>1. a \in Nat /\ b \in Nat
    BY <1>4 DEF SentByReplica, IsDatagram
  <2>2. sub[r].known =< durable[p] + 1
    BY <1>2 DEF HeardFlushed
  <2>3. \A f \in DOMAIN sub[r].stash : f \in Nat /\ f =< durable[p]
    <3> TAKE f \in DOMAIN sub[r].stash
    <3> DEFINE t == sub[r].stash[f]
    <3>1. IsPacket(f, t) /\ InJournal(f, t, p)
      BY <1>1, <1>2, StashFacts DEF HeardFlushed
    <3>2. f \in Nat /\ Len(t) \in Nat /\ Len(t) >= 1 /\ f + Len(t) - 1 =< durable[p]
      BY <3>1 DEF IsPacket, InJournal
    <3> QED
      BY <1>1, <3>2
  <2>4. a + b =< durable'[p] + 1
    <3>1. CASE a + b =< sub[r].known
      <4> HIDE DEF a, b
      <4> QED
        BY <1>1, <2>1, <2>2, <3>1
    <3>2. CASE \E f \in DOMAIN sub[r].stash : a + b =< f
      <4>1. PICK f \in DOMAIN sub[r].stash : a + b =< f
        BY <3>2
      <4>2. f \in Nat /\ f =< durable[p]
        BY <2>3
      <4> HIDE DEF a, b
      <4> QED
        BY <1>1, <2>1, <4>1, <4>2
    <3> QED
      BY <1>4, <3>1, <3>2
  <2> QED
    BY <1>4, <2>4 DEF TellsFlushed
<1> QED
  BY <1>3, <1>4 DEF SentByReplica

\* The datagrams of an epoch.
LEMMA NetStep ==
    ASSUME StreamStep, NEW p \in Nodes, epoch'[p] # 0, NEW m \in net', m.epoch = epoch'[p]
    PROVE  TellsFlushed(m, p)'
<1>1. Keeps(p)
  BY BaseStep DEF StreamStep
<1>2. CASE m \in net
  <2>1. PICK n \in Nodes : epoch[n] = m.epoch
    BY <1>2 DEF StreamStep, EpochsAreNodes
  <2>2. n = p /\ epoch[p] = epoch'[p]
    BY <2>1, EpochOwner DEF StreamStep
  <2>3. TellsFlushed(m, p) /\ IsDatagram(m)
    BY <1>2, <2>2 DEF StreamStep, StreamInv, BaseInv, TypeInv, NetTypes
  <2> QED
    BY <1>1, <2>3, StillTold DEF StreamStep
<1>3. CASE m \notin net
  <2>1. PICK n \in Nodes : SentByPrimary(m, n) \/ SentByReplica(m, n)
    BY <1>3, SentFacts DEF StreamStep, Sent
  <2>2. CASE SentByPrimary(m, n)
    <3>1. epoch[n] = m.epoch /\ role[n] = "primary"
      BY <2>2 DEF SentByPrimary
    <3>2. n = p
      BY <3>1, EpochOwner DEF StreamStep
    <3>3. IsDatagram(m)'
      BY DEF StreamStep, BaseInv, TypeInv, NetTypes
    <3>4. config' = config
      BY ConfigStays DEF StreamStep
    <3>5. IsDatagram(m)
      BY <3>3, <3>4, Rigid
    <3> QED
      BY <2>2, <3>2, <3>5, PrimaryTells
  <2>3. CASE SentByReplica(m, n)
    <3>1. PICK q \in Nodes : epoch[q] = m.epoch
      BY <2>3 DEF StreamStep, EpochsAreNodes, SentByReplica
    <3>2. epoch[p] = m.epoch /\ epoch[p] # 0
      BY <3>1, EpochOwner DEF StreamStep
    <3> QED
      BY <1>1, <2>3, <3>2, ReplicaAsks
  <2> QED
    BY <2>1, <2>2, <2>3
<1> QED
  BY <1>2, <1>3

\* What a replica that follows p's epoch has heard after a step.
LEMMA StillHeard ==
    ASSUME NEW p \in Nodes, NEW r \in Nodes, sub'[r].known =< durable'[p] + 1,
           ASSUME NEW f \in DOMAIN sub'[r].stash, NEW t, t = sub'[r].stash[f]
           PROVE  InJournal(f, t, p)'
    PROVE  HeardFlushed(r, p)'
<1>1. ASSUME NEW f \in DOMAIN sub'[r].stash
      PROVE  InJournal(f, sub[r].stash[f], p)'
  <2>1. \A t : t = sub'[r].stash[f] => InJournal(f, t, p)'
    OBVIOUS
  <2>2. \A t : t = sub'[r].stash[f] =>
          /\ f + Len(t) - 1 =< durable'[p]
          /\ \A i \in 1 .. Len(t) : t[i] = log'[p][f + i - 1]
    BY <2>1 DEF InJournal
  <2> QED
    BY <2>2 DEF InJournal
<1> QED
  BY <1>1 DEF HeardFlushed

\* What a replica knows of the epoch it follows: what it knew, and what the
\* datagram told it.
LEMMA HeardKnows ==
    ASSUME StreamStep, NEW p \in Nodes, NEW r \in Nodes, NEW m \in net, Heard(r, m), Keeps(p),
           epoch[p] # 0, m.epoch = epoch[p]
    PROVE  /\ HeardFlushed(r, p)
           /\ HeardFlushed(r, p)'
           /\ m.kind = "Data" => /\ IsPacket(m.first, m.cmds) /\ InJournal(m.first, m.cmds, p)
                                 /\ Len(log'[r]) =< Len(log[r]) \/ Len(log'[r]) =< durable[p]
<1>1. /\ sub[r].epoch \in {0, m.epoch} /\ IsDatagram(m) /\ TellsFlushed(m, p)
  BY DEF Heard, StreamStep, StreamInv, BaseInv, TypeInv, NetTypes
<1>2. /\ durable[p] \in Nat /\ durable'[p] \in Nat /\ durable[p] =< durable'[p]
      /\ sub[r].known \in Nat /\ sub[r].stash \in Stashes /\ Len(log[r]) \in Nat /\ Len(log'[r]) \in Nat
  <2>1. /\ sub[r] \in Subscribers /\ Len(log[r]) \in Nat
    BY NodeFacts DEF StreamStep, NodeTypes
  <2>2. Len(log'[r]) \in Nat
    BY DEF StreamStep, BaseInv, TypeInv, StateTypes
  <2>3. durable[p] \in Nat /\ durable'[p] \in Nat /\ durable[p] =< durable'[p]
    BY DEF StreamStep, BaseInv, TypeInv, StateTypes, Keeps
  <2> QED
    BY <2>1, <2>2, <2>3 DEF Subscribers
<1>3. HeardFlushed(r, p)
  <2>1. CASE sub[r].epoch = m.epoch
    BY <2>1 DEF StreamStep, StreamInv
  <2>2. CASE sub[r].epoch = 0
    <3>1. sub[r].known = 0 /\ DOMAIN sub[r].stash = {}
      BY <2>2 DEF StreamStep, EpochsAreNodes
    <3> QED
      BY <1>2, <3>1 DEF HeardFlushed
  <2> QED
    BY <1>1, <2>1, <2>2
<1>4. \A f \in DOMAIN sub[r].stash : IsPacket(f, sub[r].stash[f]) /\ InJournal(f, sub[r].stash[f], p)
  BY <1>2, <1>3, StashFacts DEF HeardFlushed
<1>5. sub[r].known =< durable[p] + 1
  BY <1>3 DEF HeardFlushed
<1>6. m.kind = "Data" => IsPacket(m.first, m.cmds) /\ InJournal(m.first, m.cmds, p)
  BY <1>1 DEF IsDatagram, TellsFlushed
<1>7. CASE /\ log'[r] = log[r] /\ sub'[r].stash = sub[r].stash
           /\ \/ sub'[r].known = sub[r].known
              \/ m.kind \in {"Heartbeat", "End"} /\ sub'[r].known = m.first
  <2>1. sub'[r].known \in Nat /\ sub'[r].known =< durable[p] + 1
    BY <1>1, <1>2, <1>5, <1>7 DEF TellsFlushed, IsDatagram
  <2>2. sub'[r].known =< durable'[p] + 1
    BY <1>2, <2>1
  <2>3. ASSUME NEW f \in DOMAIN sub'[r].stash, NEW t, t = sub'[r].stash[f]
        PROVE  InJournal(f, t, p)'
    <3>1. IsPacket(f, t) /\ InJournal(f, t, p)
      BY <1>4, <1>7, <2>3
    <3> QED
      BY <1>2, <3>1, FlushedPacket
  <2>4. HeardFlushed(r, p)'
    BY <2>2, <2>3, StillHeard
  <2> QED
    BY <1>2, <1>3, <1>6, <1>7, <2>4
<1>8. CASE m.kind = "Data" /\ LearnsFrom(r, m, sub'[r], log'[r])
  <2> DEFINE u == sub'[r]
             l == log'[r]
             first == m.first
             cmds == m.cmds
  <2>1. /\ u.known = sub[r].known \/ (u.known = Len(l) + 1 /\ Len(l) > Len(log[r]))
        /\ \A f \in DOMAIN u.stash :
             \/ f \in DOMAIN sub[r].stash /\ u.stash[f] = sub[r].stash[f]
             \/ f = first /\ u.stash[f] = cmds
        /\ \/ Len(l) = Len(log[r])
           \/ Len(l) = first + Len(cmds) - 1
           \/ \E f \in DOMAIN sub[r].stash : Len(l) = f + Len(sub[r].stash[f]) - 1
    BY <1>8 DEF LearnsFrom
  <2>2. IsPacket(first, cmds) /\ InJournal(first, cmds, p)
    BY <1>6, <1>8
  <2>3. Len(l) = Len(log[r]) \/ Len(l) =< durable[p]
    BY <1>4, <2>1, <2>2 DEF InJournal
  <2>4. u.known \in Nat /\ u.known =< durable[p] + 1
    BY <1>2, <1>5, <2>1, <2>3
  <2>5. u.known =< durable'[p] + 1
    BY <1>2, <2>4
  <2>6. ASSUME NEW f \in DOMAIN sub'[r].stash, NEW t, t = sub'[r].stash[f]
        PROVE  InJournal(f, t, p)'
    <3>1. IsPacket(f, t) /\ InJournal(f, t, p)
      BY <1>4, <2>1, <2>2, <2>6
    <3> QED
      BY <1>2, <3>1, FlushedPacket
  <2>7. HeardFlushed(r, p)'
    BY <2>5, <2>6, StillHeard
  <2>8. Len(l) =< Len(log[r]) \/ Len(l) =< durable[p]
    BY <1>2, <2>3
  <2> QED
    BY <1>3, <1>6, <2>7, <2>8
<1> QED
  BY <1>7, <1>8 DEF Heard

\* What a replica that follows p's epoch has heard.
LEMMA HeardStep ==
    ASSUME StreamStep, NEW p \in Nodes, epoch'[p] # 0, NEW r \in Nodes, sub'[r].epoch = epoch'[p]
    PROVE  HeardFlushed(r, p)'
<1>1. Keeps(p)
  BY BaseStep DEF StreamStep
<1>2. ASSUME sub'[r].epoch = sub[r].epoch, sub'[r].known = sub[r].known, sub'[r].stash = sub[r].stash
      PROVE  HeardFlushed(r, p)'
  <2>1. PICK n \in Nodes : epoch[n] = sub[r].epoch
    BY <1>2 DEF StreamStep, EpochsAreNodes
  <2>2. epoch[p] = epoch'[p]
    BY <1>2, <2>1, EpochOwner DEF StreamStep
  <2>3. HeardFlushed(r, p)
    BY <1>2, <2>2 DEF StreamStep, StreamInv
  <2>4. /\ durable[p] \in Nat /\ durable'[p] \in Nat /\ durable[p] =< durable'[p]
        /\ sub[r].known \in Nat /\ sub[r].stash \in Stashes
    BY <1>1, NodeFacts DEF StreamStep, BaseInv, TypeInv, StateTypes, Keeps, Subscribers, NodeTypes
  <2>5. sub'[r].known =< durable'[p] + 1
    BY <1>2, <2>3, <2>4 DEF HeardFlushed
  <2>6. ASSUME NEW f \in DOMAIN sub'[r].stash, NEW t, t = sub'[r].stash[f]
        PROVE  InJournal(f, t, p)'
    <3>1. IsPacket(f, t) /\ InJournal(f, t, p)
      BY <1>2, <2>3, <2>4, <2>6, StashFacts DEF HeardFlushed
    <3> QED
      BY <1>1, <2>4, <3>1, FlushedPacket
  <2> QED
    BY <2>5, <2>6, StillHeard
<1>3. CASE Rests(r)
  <2>1. sub'[r] # NoSub
    BY DEF NoSub
  <2> QED
    BY <1>2, <1>3, <2>1 DEF Rests, Idles
<1>4. CASE \E q \in Nodes : Started(r, q)
  <2>1. PICK q \in Nodes : sub'[r] = [NoSub EXCEPT !.primary = q]
    BY <1>4 DEF Started
  <2>2. sub'[r].epoch = 0
    BY <2>1 DEF NoSub
  <2> QED
    BY <2>2
<1>5. CASE \E m \in net : Heard(r, m)
  <2>1. PICK m \in net : Heard(r, m)
    BY <1>5
  <2>2. m.epoch = epoch'[p]
    BY <2>1 DEF Heard
  <2>3. PICK n \in Nodes : epoch[n] = m.epoch
    BY DEF StreamStep, EpochsAreNodes
  <2>4. epoch[p] = epoch'[p]
    BY <2>2, <2>3, EpochOwner DEF StreamStep
  <2> QED
    BY <1>1, <2>1, <2>2, <2>4, HeardKnows
<1> QED
  BY <1>3, <1>4, <1>5, LearnFacts DEF Learns, StreamStep

\* The journal of a replica of p that follows p's epoch, or none yet.
LEMMA FollowerStep ==
    ASSUME StreamStep, NEW p \in Nodes, NEW r \in Nodes, role'[r] = "replica",
           sub'[r].primary = p, sub'[r].epoch \in {0, epoch'[p]}
    PROVE  Follower(r, p)'
<1>1. Keeps(p)
  BY BaseStep DEF StreamStep
<1>2. /\ durable[p] \in Nat /\ durable'[p] \in Nat /\ durable[p] =< durable'[p]
      /\ Len(log[r]) \in Nat /\ Len(log'[r]) \in Nat /\ log[r] \in Seq(Commands) /\ log[p] \in Seq(Commands)
      /\ durable[p] =< Len(log[p]) /\ Len(log[p]) \in Nat /\ epoch[p] \in Nat
  BY <1>1, NodeFacts, SMTT(30) DEF StreamStep, BaseInv, TypeInv, StateTypes, Keeps, NodeTypes, Positions
<1>3. \A i \in 1 .. durable[p] : log'[p][i] = log[p][i]
  BY <1>1 DEF Keeps
<1>4. ASSUME Len(log'[r]) =< durable[p], \A i \in 1 .. Len(log'[r]) : log'[r][i] = log[p][i]
      PROVE  Follower(r, p)'
  BY <1>2, <1>3, <1>4 DEF Follower
<1>5. ASSUME role[r] = "replica", sub[r].primary = p
      PROVE  epoch[p] # 0 /\ epoch'[p] = epoch[p]
  <2>1. epoch[p] # 0
    BY <1>5 DEF StreamStep, EpochsAreNodes
  <2> QED
    BY <2>1, EpochFacts DEF StreamStep, TakesEpoch
<1>6. ASSUME role[r] = "replica", sub[r].primary = p, sub[r].epoch \in {0, epoch[p]}
      PROVE  Len(log[r]) =< durable[p] /\ \A i \in 1 .. Len(log[r]) : log[r][i] = log[p][i]
  BY <1>6 DEF StreamStep, StreamInv, Follower
<1>7. CASE Rests(r)
  <2>1. /\ role[r] = "replica" /\ log'[r] = log[r] /\ sub'[r].epoch = sub[r].epoch
        /\ sub'[r].primary = sub[r].primary
    BY <1>7 DEF Rests, Idles
  <2> QED
    BY <1>4, <1>5, <1>6, <2>1
<1>8. CASE \E q \in Nodes : Started(r, q)
  <2>1. PICK q \in Nodes : Started(r, q)
    BY <1>8
  <2>2. [NoSub EXCEPT !.primary = q].primary = q
    BY DEF NoSub
  <2>3. q = p
    BY <2>1, <2>2 DEF Started
  <2>4. PICK k \in 0 .. durable[p] : log'[r] = SubSeq(log[p], 1, k)
    BY <2>1, <2>3 DEF Started
  <2>5. /\ Len(SubSeq(log[p], 1, k)) = k - 1 + 1
        /\ \A i \in 1 .. k - 1 + 1 : SubSeq(log[p], 1, k)[i] = log[p][1 + i - 1]
    <3> DEFINE s == log[p]
               C == Commands
    <3>1. s \in Seq(C) /\ k \in Nat /\ k =< Len(s) /\ 1 =< k + 1 /\ 1 \in Nat \ {0}
      BY <1>2
    <3> HIDE DEF s, C
    <3>2. /\ Len(SubSeq(s, 1, k)) = k - 1 + 1
          /\ \A i \in 1 .. k - 1 + 1 : SubSeq(s, 1, k)[i] = s[1 + i - 1]
      BY <3>1, SubSeqFacts
    <3> QED
      BY <3>2 DEF s
  <2>6. k - 1 + 1 = k /\ \A i \in 1 .. k : 1 + i - 1 = i
    BY <1>2
  <2>7. Len(log'[r]) = k /\ \A i \in 1 .. k : log'[r][i] = log[p][i]
    BY <2>4, <2>5, <2>6
  <2> QED
    BY <1>2, <1>4, <2>7
<1>9. CASE \E m \in net : Heard(r, m)
  <2>1. PICK m \in net : Heard(r, m)
    BY <1>9
  <2>2. /\ role[r] = "replica" /\ sub[r].primary = p /\ sub'[r].epoch = m.epoch
        /\ sub[r].epoch \in {0, m.epoch}
    BY <2>1 DEF Heard
  <2>3. m.epoch # 0
    BY DEF StreamStep, BaseInv, TypeInv, NetTypes, IsDatagram
  <2>4. m.epoch = epoch[p] /\ epoch[p] # 0
    BY <1>5, <2>2, <2>3
  <2>5. Len(log[r]) =< durable[p] /\ \A i \in 1 .. Len(log[r]) : log[r][i] = log[p][i]
    BY <1>6, <2>2, <2>4
  <2>6. CASE log'[r] = log[r]
    BY <1>4, <2>5, <2>6
  <2>7. CASE m.kind = "Data" /\ LearnsFrom(r, m, sub'[r], log'[r])
    <3>1. /\ HeardFlushed(r, p) /\ IsPacket(m.first, m.cmds) /\ InJournal(m.first, m.cmds, p)
          /\ Len(log'[r]) =< Len(log[r]) \/ Len(log'[r]) =< durable[p]
      BY <1>1, <2>1, <2>4, <2>7, HeardKnows
    <3>2. Len(log'[r]) =< durable[p]
      BY <1>2, <2>5, <3>1
    <3>3. Tells(m.first, m.cmds, log[p])
      BY <3>1 DEF InJournal, Tells
    <3>4. \A f \in DOMAIN sub[r].stash : Tells(f, sub[r].stash[f], log[p])
      BY <3>1 DEF HeardFlushed, InJournal, Tells
    <3>5. \A i \in 1 .. Len(log'[r]) : log'[r][i] = log[p][i]
      BY <2>5, <2>7, <3>3, <3>4 DEF LearnsFrom
    <3> QED
      BY <1>4, <3>2, <3>5
  <2> QED
    BY <2>1, <2>6, <2>7 DEF Heard
<1> QED
  BY <1>7, <1>8, <1>9, LearnFacts DEF Learns, StreamStep

\* The stream of every epoch.
LEMMA StreamKept ==
    ASSUME StreamStep
    PROVE  StreamInv'
BY NetStep, HeardStep, FollowerStep DEF StreamInv

\* A flushed prefix.
LEMMA PrefixFacts ==
    ASSUME NEW C, NEW s \in Seq(C), NEW l \in Seq(C), NEW d \in Nat, d =< Len(l), Len(s) =< d,
           \A i \in 1 .. Len(s) : s[i] = l[i]
    PROVE  IsPrefix(s, SubSeq(l, 1, d))
<1> DEFINE t == SubSeq(l, 1, d)
<1>1. t \in Seq(C) /\ Len(t) = d /\ \A i \in 1 .. d : t[i] = l[i]
  OBVIOUS
<1> HIDE DEF t
<1>2. Len(s) \in Nat /\ Len(s) =< Len(t)
  BY <1>1
<1>3. SubSeq(s, 1, Len(s)) = SubSeq(t, 1, Len(s))
  <2> DEFINE a == SubSeq(s, 1, Len(s))
             b == SubSeq(t, 1, Len(s))
  <2>1. a \in Seq(C) /\ Len(a) = Len(s) /\ \A i \in 1 .. Len(s) : a[i] = s[i]
    OBVIOUS
  <2>2. b \in Seq(C) /\ Len(b) = Len(s) /\ \A i \in 1 .. Len(s) : b[i] = t[i]
    BY <1>1, <1>2
  <2>3. \A i \in 1 .. Len(s) : s[i] = t[i]
    BY <1>1, <1>2
  <2> HIDE DEF a, b
  <2>4. a = b
    BY <2>1, <2>2, <2>3
  <2> QED
    BY <2>4 DEF a, b
<1> QED
  BY <1>2, <1>3 DEF IsPrefix, t

\* Epochs that are told apart were told apart before.
LEMMA UniqueBefore ==
    ASSUME BaseInv, Next, UniqueEpochs'
    PROVE  UniqueEpochs
<1>1. \A n \in Nodes : epoch[n] # 0 => epoch'[n] = epoch[n]
  BY EpochFacts DEF TakesEpoch
<1> QED
  BY <1>1 DEF UniqueEpochs

\* The stream of every epoch, as long as no two primaries took the same one.
Streams == EpochsAreNodes /\ (UniqueEpochs => StreamInv)

\* It holds at the start.
LEMMA StreamsInit ==
    ASSUME Init
    PROVE  Streams
<1>1. \A n \in Nodes : log[n] = <<>> /\ durable[n] = 0 /\ sub[n] = NoSub /\ epoch[n] = IF n = Server THEN 1 ELSE 0
  BY DEF Init
<1>2. net = {} /\ Server \in Nodes
  BY ReplicationAssumption DEF Init
<1>3. NoSub.epoch = 0 /\ NoSub.known = 0 /\ DOMAIN NoSub.stash = {} /\ NoSub.primary = Server
  BY <1>2, NoSubFacts DEF NoSub
<1>4. EpochsAreNodes
  BY <1>1, <1>2, <1>3 DEF EpochsAreNodes
<1>5. \A r, p \in Nodes : Follower(r, p)
  BY <1>1 DEF Follower
<1>6. StreamInv
  BY <1>1, <1>2, <1>3, <1>5 DEF StreamInv
<1> QED
  BY <1>4, <1>6 DEF Streams

\* Nothing changes.
LEMMA StreamUnchanged ==
    ASSUME StreamInv, UNCHANGED <<role, log, durable, epoch, sub, net>>
    PROVE  StreamInv'
<1>1. ASSUME NEW m, NEW p PROVE TellsFlushed(m, p)' <=> TellsFlushed(m, p)
  BY DEF TellsFlushed, InJournal
<1>2. ASSUME NEW r, NEW p PROVE HeardFlushed(r, p)' <=> HeardFlushed(r, p)
  BY DEF HeardFlushed, InJournal
<1>3. ASSUME NEW r, NEW p PROVE Follower(r, p)' <=> Follower(r, p)
  BY DEF Follower
<1> QED
  BY <1>1, <1>2, <1>3 DEF StreamInv

\* Every step keeps it.
LEMMA StreamsStep ==
    ASSUME BaseInv, BaseInv', Streams, [Next]_vars, ~JournalFails
    PROVE  Streams'
<1>1. CASE Next
  <2>1. EpochsAreNodes'
    BY <1>1, EpochsStep DEF Streams
  <2>2. UniqueEpochs' => StreamInv'
    BY <1>1, UniqueBefore, StreamKept DEF Streams, StreamStep
  <2> QED
    BY <2>1, <2>2 DEF Streams
<1>2. CASE UNCHANGED vars
  <2>1. UNCHANGED <<role, log, durable, epoch, sub, net>>
    BY <1>2 DEF vars
  <2>2. EpochsAreNodes'
    BY <2>1 DEF Streams, EpochsAreNodes
  <2>3. UniqueEpochs' => UniqueEpochs
    BY <2>1 DEF UniqueEpochs
  <2>4. StreamInv => StreamInv'
    BY <2>1, StreamUnchanged
  <2> QED
    BY <2>2, <2>3, <2>4 DEF Streams
<1> QED
  BY <1>1, <1>2

\* It makes the journal of a backup a prefix of its primary's.
LEMMA StreamIsPrefix ==
    ASSUME BaseInv, StreamInv
    PROVE  BackupIsPrefix
<1> SUFFICES ASSUME NEW r \in Nodes, NEW p, p = sub[r].primary,
                    role[r] = "replica", sub[r].epoch # 0, epoch[p] = sub[r].epoch
             PROVE  IsPrefix(log[r], SubSeq(log[p], 1, durable[p]))
  BY DEF BackupIsPrefix, Journal
<1>1. p \in Nodes
  BY NodeFacts DEF NodeTypes, Subscribers
<1>2. /\ log[r] \in Seq(Commands) /\ log[p] \in Seq(Commands) /\ durable[p] \in Nat
      /\ durable[p] =< Len(log[p])
  BY <1>1, NodeFacts DEF NodeTypes, Positions
<1>3. Len(log[r]) =< durable[p] /\ \A i \in 1 .. Len(log[r]) : log[r][i] = log[p][i]
  BY <1>1 DEF StreamInv, Follower
<1> DEFINE s == log[r]
           l == log[p]
           d == durable[p]
           C == Commands
<1>4. /\ s \in Seq(C) /\ l \in Seq(C) /\ d \in Nat /\ d =< Len(l) /\ Len(s) =< d
      /\ \A i \in 1 .. Len(s) : s[i] = l[i]
  BY <1>2, <1>3
<1> HIDE DEF s, l, d, C
<1>5. IsPrefix(s, SubSeq(l, 1, d))
  BY <1>4, PrefixFacts
<1> QED
  BY <1>5 DEF s, l, d

\* seqstream.hpp:193-195: whatever datagrams are lost, doubled or reordered and
\* whoever crashes, what a replica has applied is a prefix of the flushed journal
\* of the primary whose epoch it follows, as long as the retransmission ring holds
\* a batch, no two primaries took the same epoch and no write to a journal fails
\* (the run journal_error shows what happens then).
THEOREM BackupCorrect ==
    ASSUME RingHoldsBatch, \A c \in Configs : ~c.journalFails
    PROVE  Spec => [](UniqueEpochs => BackupIsPrefix)
<1>1. BaseInv => ~JournalFails
  BY DEF BaseInv, TypeInv, StateTypes, JournalFails
<1>2. BaseInv /\ BaseInv' /\ Streams /\ [Next]_vars => Streams'
  BY <1>1, StreamsStep
<1>3. BaseInv /\ Streams => (UniqueEpochs => BackupIsPrefix)
  BY StreamIsPrefix DEF Streams
<1> QED
  BY <1>2, <1>3, StreamsInit, BaseCorrect, PTL DEF Spec

-----------------------------------------------------------------------------
(* One standby. *)

\* The steps in which a process ends.
Exits(n) ==
    Stop(n) \/ JournalError(n) \/ HaltReplicaLost(n) \/ HaltFenced(n) \/ ReplicaExit(n) \/ Crash(n)

\* What a step can do to a node's role and epoch.
LEMMA RoleFacts ==
    ASSUME BaseInv, Next, NEW n \in Nodes
    PROVE  /\ role'[n] # "off" => role[n] # "off" \/ n \in Spares
           /\ epoch'[n] # epoch[n] => /\ Standby /\ role[n] = "replica"
                                      /\ sub[n].epoch # 0 /\ epoch'[n] = sub[n].epoch + 1
<1>1. role \in [Nodes -> RoleNames] /\ epoch \in [Nodes -> Nat]
  BY DEF BaseInv, TypeInv, StateTypes, RoleNames
<1>2. CASE \E x \in Nodes : Promote(x)
  <2>1. PICK x \in Nodes : Promote(x)
    BY <1>2
  <2>2. /\ Standby /\ role[x] = "replica" /\ sub[x].epoch # 0
        /\ role' = [role EXCEPT ![x] = "primary"] /\ epoch' = [epoch EXCEPT ![x] = sub[x].epoch + 1]
    BY <2>1 DEF Promote
  <2>3. n # x => epoch'[n] = epoch[n] /\ role'[n] = role[n]
    BY <1>1, <2>2
  <2>4. epoch'[x] = sub[x].epoch + 1
    BY <1>1, <2>2
  <2> QED
    BY <2>2, <2>3, <2>4
<1>3. CASE \E x \in Nodes : Exits(x)
  <2>1. PICK x \in Nodes : Exits(x)
    BY <1>3
  <2>2. PICK how : role' = [role EXCEPT ![x] = how] /\ UNCHANGED epoch
    BY <2>1 DEF Exits, Stop, JournalError, HaltReplicaLost, HaltFenced, ReplicaExit, Crash, Shutdown, Exit
  <2>3. role[x] \in {"primary", "replica"}
    BY <2>1 DEF Exits, Stop, JournalError, HaltReplicaLost, HaltFenced, ReplicaExit, Crash,
                InLoop, TimedOut, Waiting
  <2>4. n # x => role'[n] = role[n]
    BY <1>1, <2>2
  <2> QED
    BY <2>2, <2>3, <2>4
<1>4. CASE Recover
  <2>1. /\ role' = [role EXCEPT ![Server] = "primary"] /\ UNCHANGED epoch
        /\ role[Server] \in {"dead", "stopped", "halted"}
    BY <1>4 DEF Recover
  <2>2. n # Server => role'[n] = role[n]
    BY <1>1, <2>1
  <2> QED
    BY <2>1, <2>2
<1>5. CASE \E r, p \in Nodes : Start(r, p)
  <2>1. PICK r \in Nodes : r \in Spares /\ role' = [role EXCEPT ![r] = "replica"] /\ UNCHANGED epoch
    BY <1>5 DEF Start
  <2>2. n # r => role'[n] = role[n]
    BY <1>1, <2>1
  <2> QED
    BY <2>1, <2>2
<1>6. CASE \E x \in Nodes : \/ Sequence(x) \/ FlushBatch(x) \/ WriteBacklog(x) \/ WaitDone(x)
                            \/ ContinueAlone(x) \/ HeartbeatIfIdle(x) \/ RequestGap(x) \/ Acknowledge(x)
  BY <1>6 DEF Sequence, Take, FlushBatch, WriteBacklog, WaitDone, ContinueAlone, HeartbeatIfIdle, Answer,
              RequestGap, Acknowledge
<1>7. CASE \E x \in Nodes, m \in net : Service(x, m) \/ Poll(x, m)
  BY <1>7 DEF Service, HearGroup, ServiceAck, ServiceRetransmit, Control,
              Poll, HearNewer, HearData, HearControl, Hear
<1>8. CASE \E m \in net : Lose(m)
  BY <1>8 DEF Lose
<1> QED
  BY <1>2, <1>3, <1>4, <1>5, <1>6, <1>7, <1>8, Zenon DEF Next, Primary, Replica, Exits

\* The epochs of one server and one standby.
LEMMA StandbyEpochsStep ==
    ASSUME BaseInv, EpochsAreNodes, StandbyEpochs, OneStandby(config), Next, NEW n \in Nodes
    PROVE  /\ epoch'[n] # 0 => n = Server \/ (Standby /\ n \in Backups /\ epoch'[n] = 2)
           /\ Standby /\ role'[n] # "off" => n = Server \/ n \in Backups
           /\ Standby => sub'[n].epoch \in {0, 1} /\ sub'[n].primary = Server
<1>1. /\ epoch[n] # 0 => n = Server \/ (Standby /\ n \in Backups /\ epoch[n] = 2)
      /\ Standby /\ role[n] # "off" => n = Server \/ n \in Backups
      /\ Standby => sub[n].epoch \in {0, 1} /\ sub[n].primary = Server
  BY DEF StandbyEpochs
<1>2. Standby => Spares = {} /\ \A a, b \in Backups : a = b
  BY DEF OneStandby, Standby, Spares, Backups
<1>3. /\ role'[n] # "off" => role[n] # "off" \/ n \in Spares
      /\ epoch'[n] # epoch[n] => /\ Standby /\ role[n] = "replica"
                                 /\ sub[n].epoch # 0 /\ epoch'[n] = sub[n].epoch + 1
  BY RoleFacts
<1>4. Standby /\ role'[n] # "off" => n = Server \/ n \in Backups
  BY <1>1, <1>2, <1>3
<1>5. epoch'[n] # 0 => n = Server \/ (Standby /\ n \in Backups /\ epoch'[n] = 2)
  <2>1. CASE epoch'[n] = epoch[n]
    BY <1>1, <2>1
  <2>2. CASE epoch'[n] # epoch[n]
    <3>1. Standby /\ role[n] # "off" /\ sub[n].epoch = 1 /\ epoch'[n] = sub[n].epoch + 1
      BY <1>1, <1>3, <2>2
    <3> QED
      BY <1>1, <3>1
  <2> QED
    BY <2>1, <2>2
<1>6. ASSUME Standby
      PROVE  sub'[n].epoch \in {0, 1} /\ sub'[n].primary = Server
  <2>1. CASE Rests(n)
    <3>1. NoSub.epoch = 0 /\ NoSub.primary = Server
      BY DEF NoSub
    <3> QED
      BY <1>1, <1>6, <2>1, <3>1 DEF Rests, Idles
  <2>2. CASE \E p \in Nodes : Started(n, p)
    BY <1>2, <1>6, <2>2 DEF Started
  <2>3. CASE \E m \in net : Heard(n, m)
    <3>1. PICK m \in net : Heard(n, m)
      BY <2>3
    <3>2. sub'[n].epoch = m.epoch /\ sub'[n].primary = sub[n].primary /\ role[n] = "replica"
      BY <3>1 DEF Heard
    <3>3. PICK q \in Nodes : epoch[q] = m.epoch
      BY DEF EpochsAreNodes
    <3>4. m.epoch # 0
      BY DEF BaseInv, TypeInv, NetTypes, IsDatagram
    <3>5. epoch[n] = 0 /\ n # Server
      BY <3>2, NodeFacts DEF Roles
    <3>6. n \in Backups
      BY <1>1, <1>6, <3>2, <3>5
    <3>7. q = Server
      BY <1>2, <1>6, <3>3, <3>4, <3>5, <3>6 DEF StandbyEpochs
    <3>8. epoch[q] = 1
      BY <3>7, NodeFacts
    <3> QED
      BY <1>1, <1>6, <3>2, <3>3, <3>8
  <2> QED
    BY <2>1, <2>2, <2>3, LearnFacts DEF Learns
<1> QED
  BY <1>4, <1>5, <1>6

\* What a step can do to what a primary was acknowledged: nothing but keep it, as
\* the batch moves on; begin anew; or take an acknowledgement.
PubChange(n) ==
    \/ /\ pub'[n].acked = pub[n].acked /\ pub'[n].base >= pub[n].base
       /\ pub'[n].lost = pub[n].lost \/ ~HaltOnLoss
    \/ pub'[n].acked =< pub'[n].base /\ ~pub'[n].lost
    \/ /\ \E m \in net : m.kind = "Ack" /\ m.epoch = epoch[n] /\ pub'[n].acked = m.first
       /\ pub'[n].lost = pub[n].lost /\ role[n] = "primary"

\* Every step is one of these.
LEMMA PubFacts ==
    ASSUME BaseInv, Next, NEW n \in Nodes
    PROVE  PubChange(n)
<1>1. /\ pub \in [Nodes -> Publishers] /\ pub[n] \in Publishers /\ Len(log[n]) \in Nat
      /\ pub[n].base =< Len(log[n]) /\ pub[n].acked \in Nat /\ pub[n].base \in Nat
  <2>1. NodeTypes(n) /\ Positions(n) /\ Len(log[n]) \in Nat
    BY NodeFacts
  <2>2. pub \in [Nodes -> Publishers] /\ pub[n] \in Publishers
    BY DEF BaseInv, TypeInv, StateTypes
  <2> QED
    BY <2>1, <2>2 DEF Positions, Publishers
<1>2. ASSUME pub'[n] = pub[n]
      PROVE  PubChange(n)
  BY <1>1, <1>2 DEF PubChange
<1>3. ASSUME NEW x \in Nodes, NEW u, pub' = [pub EXCEPT ![x] = u], x # n
      PROVE  PubChange(n)
  BY <1>1, <1>2, <1>3
<1>4. ASSUME NEW x \in Nodes, FlushBatch(x)
      PROVE  PubChange(n)
  <2>1. CASE x # n
    BY <1>3, <1>4, <2>1 DEF FlushBatch
  <2>2. CASE x = n /\ pub' = [pub EXCEPT ![n].sent = LastSeq(n), ![n].phase = "wait"]
    <3> DEFINE u == [pub[n] EXCEPT !.sent = LastSeq(n), !.phase = "wait"]
    <3>1. u.acked = pub[n].acked /\ u.base = pub[n].base /\ u.lost = pub[n].lost
      BY <1>1 DEF Publishers
    <3>2. pub'[n] = u
      BY <1>1, <2>2
    <3> HIDE DEF u
    <3> QED
      BY <1>1, <3>1, <3>2 DEF PubChange
  <2>3. CASE x = n /\ pub' = [pub EXCEPT ![n].sent = LastSeq(n), ![n].base = Len(log[n])]
    <3> DEFINE u == [pub[n] EXCEPT !.sent = LastSeq(n), !.base = Len(log[n])]
    <3>1. u.acked = pub[n].acked /\ u.base = Len(log[n]) /\ u.lost = pub[n].lost
      BY <1>1 DEF Publishers
    <3>2. pub'[n] = u
      BY <1>1, <2>3
    <3> HIDE DEF u
    <3> QED
      BY <1>1, <3>1, <3>2 DEF PubChange
  <2> QED
    BY <1>4, <2>1, <2>2, <2>3 DEF FlushBatch
<1>5. ASSUME NEW x \in Nodes, WaitDone(x) \/ ContinueAlone(x)
      PROVE  PubChange(n)
  <2>1. PICK lost : /\ pub' = [pub EXCEPT ![x].phase = "loop", ![x].base = Len(log[x]), ![x].lost = lost]
                    /\ lost = pub[x].lost \/ ~HaltOnLoss
    BY <1>5 DEF WaitDone, ContinueAlone, Answer
  <2>2. CASE x # n
    <3> DEFINE w == [pub[x] EXCEPT !.phase = "loop", !.base = Len(log[x]), !.lost = lost]
    <3>1. pub' = [pub EXCEPT ![x] = w]
      BY <2>1, Zenon
    <3> HIDE DEF w
    <3> QED
      BY <1>3, <2>2, <3>1
  <2>3. CASE x = n
    <3> DEFINE u == [pub[n] EXCEPT !.phase = "loop", !.base = Len(log[n]), !.lost = lost]
    <3>1. u.acked = pub[n].acked /\ u.base = Len(log[n]) /\ u.lost = lost
      BY <1>1 DEF Publishers
    <3>2. pub'[n] = u
      BY <1>1, <2>1, <2>3
    <3> HIDE DEF u
    <3> QED
      BY <1>1, <2>1, <2>3, <3>1, <3>2 DEF PubChange
  <2> QED
    BY <2>2, <2>3
<1>6. ASSUME NEW x \in Nodes, NEW m \in net, HearGroup(x, m)
      PROVE  PubChange(n)
  <2>1. pub' = [pub EXCEPT ![x].fenced = TRUE]
    BY <1>6 DEF HearGroup
  <2>2. CASE x # n
    BY <1>3, <2>1, <2>2
  <2>3. CASE x = n
    <3> DEFINE u == [pub[n] EXCEPT !.fenced = TRUE]
    <3>1. u.acked = pub[n].acked /\ u.base = pub[n].base /\ u.lost = pub[n].lost
      BY <1>1 DEF Publishers
    <3>2. pub'[n] = u
      BY <1>1, <2>1, <2>3
    <3> HIDE DEF u
    <3> QED
      BY <1>1, <3>1, <3>2 DEF PubChange
  <2> QED
    BY <2>2, <2>3
<1>7. ASSUME NEW x \in Nodes, NEW m \in net, ServiceAck(x, m)
      PROVE  PubChange(n)
  <2>1. /\ pub' = [pub EXCEPT ![x].acked = m.first] /\ m.kind = "Ack" /\ m.epoch = epoch[x]
        /\ role[x] = "primary"
    BY <1>7 DEF ServiceAck, Control
  <2>2. CASE x # n
    BY <1>3, <2>1, <2>2
  <2>3. CASE x = n
    <3> DEFINE u == [pub[n] EXCEPT !.acked = m.first]
    <3>1. u.acked = m.first /\ u.lost = pub[n].lost
      BY <1>1 DEF Publishers
    <3>2. pub'[n] = u
      BY <1>1, <2>1, <2>3
    <3> HIDE DEF u
    <3> QED
      BY <1>1, <2>1, <2>3, <3>1, <3>2 DEF PubChange
  <2> QED
    BY <2>2, <2>3
<1>8. ASSUME NEW x \in Nodes, Exits(x)
      PROVE  PubChange(n)
  <2>1. pub' = [pub EXCEPT ![x] = NoPub]
    BY <1>8 DEF Exits, Stop, JournalError, HaltReplicaLost, HaltFenced, ReplicaExit, Crash, Shutdown, Exit
  <2>2. CASE x = n
    <3>1. pub'[n] = NoPub
      BY <1>1, <2>1, <2>2
    <3> QED
      BY <3>1, NoPubFacts DEF PubChange
  <2> QED
    BY <1>3, <2>1, <2>2
<1>9. ASSUME NEW x \in Nodes, NEW u, pub' = [pub EXCEPT ![x] = u],
             u.acked = Len(log[x]), u.base = Len(log[x]), ~u.lost
      PROVE  PubChange(n)
  <2>1. CASE x = n
    <3>1. pub'[n] = u
      BY <1>1, <1>9, <2>1
    <3> QED
      BY <1>1, <1>9, <2>1, <3>1 DEF PubChange
  <2> QED
    BY <1>3, <1>9, <2>1
<1>10. CASE Recover \/ \E x \in Nodes : Promote(x)
  <2>1. CASE Recover
    <3> DEFINE u == NewPub(Server)
    <3>1. pub' = [pub EXCEPT ![Server] = u] /\ Server \in Nodes
      BY <2>1, ReplicationAssumption DEF Recover
    <3>2. u.acked = Len(log[Server]) /\ u.base = Len(log[Server]) /\ ~u.lost
      BY <3>1, NewPubFacts
    <3> HIDE DEF u
    <3> QED
      BY <1>9, <3>1, <3>2
  <2>2. ASSUME NEW x \in Nodes, Promote(x) PROVE PubChange(n)
    <3> DEFINE p == NewPub(x)
               l == log[x]
               u == Seeded(p, l)
    <3>1. pub' = [pub EXCEPT ![x] = u]
      BY <2>2 DEF Promote
    <3>2. p \in Publishers /\ p.acked = Len(l) /\ p.base = Len(l) /\ ~p.lost
      BY NewPubFacts
    <3>3. config \in Configs /\ l \in Seq(Commands) /\ Numbered(1, l)
      BY NodeFacts DEF NodeTypes, Positions
    <3> HIDE DEF p, l
    <3>4. SeededFrom(u, p, l)
      BY <3>2, <3>3, SeededFacts
    <3> HIDE DEF u
    <3>5. u.acked = Len(log[x]) /\ u.base = Len(log[x]) /\ ~u.lost
      BY <3>2, <3>4 DEF SeededFrom, l
    <3> QED
      BY <1>9, <3>1, <3>5
  <2> QED
    BY <1>10, <2>1, <2>2
<1>14. ASSUME NEW x \in Nodes, Sequence(x) PROVE PubChange(n)
  <2> DEFINE c == Command(pub[x].run, NextSeq(x))
             g == [pub[x].ring EXCEPT ![c.seq % RingSize] = c]
             u == [pub[x] EXCEPT !.ring = g]
  <2>1. pub' = [pub EXCEPT ![x] = u]
    BY <1>14 DEF Sequence, Take
  <2> HIDE DEF g
  <2>2. CASE x = n
    <3>1. pub'[n] = u
      BY <1>1, <2>1, <2>2
    <3>2. u.acked = pub[n].acked /\ u.base = pub[n].base /\ u.lost = pub[n].lost
      BY <1>1, <2>2 DEF Publishers
    <3> HIDE DEF u
    <3> QED
      BY <1>1, <3>1, <3>2 DEF PubChange
  <2>3. CASE x # n
    <3> HIDE DEF u
    <3> QED
      BY <1>3, <2>1, <2>3
  <2> QED
    BY <2>2, <2>3
<1>11. CASE \E x \in Nodes : \/ WriteBacklog(x) \/ HeartbeatIfIdle(x)
                             \/ RequestGap(x) \/ Acknowledge(x)
  BY <1>2, <1>11 DEF WriteBacklog, HeartbeatIfIdle, RequestGap, Acknowledge
<1>12. CASE \E x \in Nodes, m \in net : ServiceRetransmit(x, m) \/ Poll(x, m)
  BY <1>2, <1>12 DEF ServiceRetransmit, Poll, HearNewer, HearData, HearControl, Hear
<1>13. CASE (\E r, p \in Nodes : Start(r, p)) \/ \E m \in net : Lose(m)
  BY <1>2, <1>13 DEF Start, Lose
<1> QED
  BY <1>4, <1>5, <1>6, <1>7, <1>8, <1>10, <1>11, <1>12, <1>13, <1>14, Zenon
     DEF Next, Primary, Replica, Service, Exits

\* Journals that agree keep to it.
LEMMA StillAgree ==
    ASSUME BaseInv, BaseInv', NEW n \in Nodes, NEW p \in Nodes, NEW k \in Nat, Keeps(n), Keeps(p), Agree(n, p, k)
    PROVE  Agree(n, p, k)'
<1>1. durable[n] \in Nat /\ durable'[n] \in Nat /\ durable[p] \in Nat /\ durable'[p] \in Nat
  BY DEF BaseInv, TypeInv, StateTypes
<1>2. /\ k =< durable[n] /\ k =< durable[p] /\ \A i \in 1 .. k : log[n][i] = log[p][i]
  BY DEF Agree
<1>3. /\ durable[n] =< durable'[n] /\ \A i \in 1 .. durable[n] : log'[n][i] = log[n][i]
      /\ durable[p] =< durable'[p] /\ \A i \in 1 .. durable[p] : log'[p][i] = log[p][i]
  BY DEF Keeps
<1>4. k =< durable'[n] /\ k =< durable'[p]
  BY <1>1, <1>2, <1>3
<1>5. \A i \in 1 .. k : i \in 1 .. durable[n] /\ i \in 1 .. durable[p]
  BY <1>1, <1>2
<1>6. \A i \in 1 .. k : log'[n][i] = log'[p][i]
  BY <1>2, <1>3, <1>5
<1> QED
  BY <1>4, <1>6 DEF Agree

\* What a step of a server and its standby starts from.
StandbyStep ==
    /\ BaseInv /\ BaseInv' /\ EpochsAreNodes /\ StandbyEpochs /\ StandbyInv /\ Next
    /\ Standby => StreamInv /\ ~JournalFails /\ \A a, b \in Backups : a = b
    /\ WaitReplica /\ HaltOnLoss /\ ~SlowClients

\* What it can use.
LEMMA StandbyFacts ==
    ASSUME StandbyStep
    PROVE  /\ BaseInv /\ BaseInv' /\ Next /\ \A x \in Nodes : Keeps(x)
           /\ Server \in Nodes /\ Backups \subseteq Nodes \ {Server} /\ epoch[Server] = 1
           /\ \A n \in Nodes : pub[n].acked \in Nat /\ pub'[n].acked \in Nat /\ pub[n].base \in Nat
           /\ \A n \in Nodes : pub'[n].base \in Nat
<1>1. BaseInv /\ BaseInv' /\ Next /\ \A x \in Nodes : Keeps(x)
  BY BaseStep DEF StandbyStep
<1>2. Server \in Nodes /\ Backups \subseteq Nodes \ {Server}
  BY <1>1, ConfigFacts DEF BaseInv, TypeInv, StateTypes
<1>3. epoch[Server] = 1
  BY <1>1, <1>2, NodeFacts
<1>4. \A n \in Nodes : pub[n] \in Publishers /\ pub'[n] \in Publishers
  <2>1. Publishers' = Publishers
    BY <1>1, ConfigStays, Rigid DEF SameTypes
  <2>2. pub \in [Nodes -> Publishers] /\ pub' \in [Nodes -> Publishers']
    BY <1>1 DEF BaseInv, TypeInv, StateTypes
  <2> QED
    BY <2>1, <2>2
<1> QED
  BY <1>1, <1>2, <1>3, <1>4 DEF Publishers

\* No primary gives up waiting, and only the server is acknowledged anything.
LEMMA AckedStep ==
    ASSUME StandbyStep
    PROVE  /\ \A n \in Nodes : ~pub'[n].lost
           /\ \A n \in Nodes \ {Server} : pub'[n].acked =< pub'[n].base
<1>1. ASSUME NEW n \in Nodes PROVE ~pub'[n].lost
  <2>1. ~pub[n].lost /\ HaltOnLoss
    BY DEF StandbyStep, StandbyInv
  <2> QED
    BY <2>1, PubFacts, StandbyFacts DEF PubChange
<1>2. ASSUME NEW n \in Nodes \ {Server} PROVE pub'[n].acked =< pub'[n].base
  <2>1. /\ pub[n].acked \in Nat /\ pub[n].base \in Nat /\ pub'[n].acked \in Nat /\ pub'[n].base \in Nat
        /\ pub[n].acked =< pub[n].base
    BY StandbyFacts DEF StandbyStep, StandbyInv
  <2>2. CASE pub'[n].acked = pub[n].acked /\ pub'[n].base >= pub[n].base
    BY <2>1, <2>2
  <2>3. CASE role[n] = "primary" /\ \E m \in net : m.kind = "Ack" /\ m.epoch = epoch[n]
    <3>1. epoch[n] # 0
      BY <2>3, NodeFacts, StandbyFacts DEF Roles
    <3>2. epoch[n] = 2
      BY <3>1 DEF StandbyStep, StandbyEpochs
    <3> QED
      BY <2>3, <3>2 DEF StandbyStep, StandbyInv
  <2> QED
    BY <2>2, <2>3, PubFacts, StandbyFacts DEF PubChange
<1> QED
  BY <1>1, <1>2

\* What the standby acknowledges it holds.
LEMMA AckNetStep ==
    ASSUME StandbyStep, NEW m \in net', m.kind = "Ack"
    PROVE  /\ m.epoch = 1
           /\ Standby => \A b \in Backups : Agree(b, Server, m.first)'
<1>1. CASE m \in net
  <2>1. m.epoch = 1 /\ m.first \in Nat
    BY <1>1, StandbyFacts DEF StandbyStep, StandbyInv, BaseInv, TypeInv, NetTypes, IsDatagram
  <2>2. ASSUME Standby, NEW b \in Backups PROVE Agree(b, Server, m.first)'
    <3> DEFINE k == m.first
    <3>1. b \in Nodes /\ Server \in Nodes /\ Keeps(b) /\ Keeps(Server) /\ BaseInv /\ BaseInv' /\ k \in Nat
      BY <2>1, StandbyFacts
    <3>2. Agree(b, Server, k)
      BY <1>1, <2>2 DEF StandbyStep, StandbyInv
    <3> HIDE DEF k
    <3>3. Agree(b, Server, k)'
      BY <3>1, <3>2, StillAgree
    <3> QED
      BY <3>3 DEF k, Agree
  <2> QED
    BY <2>1, <2>2
<1>2. CASE m \notin net
  <2>1. PICK n \in Nodes : SentByPrimary(m, n) \/ SentByReplica(m, n)
    BY <1>2, SentFacts, StandbyFacts DEF Sent
  <2>2. CASE SentByPrimary(m, n)
    <3>1. m.epoch = epoch[n] /\ epoch[n] # 0
      BY <2>2, NodeFacts, StandbyFacts DEF SentByPrimary, Roles
    <3>2. ~Standby
      BY <2>2 DEF SentByPrimary, Carries, StandbyStep
    <3>3. n = Server
      BY <3>1, <3>2 DEF StandbyStep, StandbyEpochs
    <3> QED
      BY <3>1, <3>2, <3>3, StandbyFacts
  <2>3. CASE SentByReplica(m, n)
    <3>1. /\ m.epoch = sub[n].epoch /\ sub[n].epoch # 0 /\ role[n] = "replica"
          /\ m.first = Len(log[n]) /\ durable'[n] = Len(log[n]) /\ UNCHANGED log
      BY <2>3 DEF SentByReplica
    <3>2. m.epoch = 1
      <4>1. CASE Standby
        BY <3>1, <4>1 DEF StandbyStep, StandbyEpochs
      <4>2. CASE ~Standby
        <5>1. PICK q \in Nodes : epoch[q] = sub[n].epoch
          BY <3>1 DEF StandbyStep, EpochsAreNodes
        <5>2. q = Server
          BY <3>1, <4>2, <5>1 DEF StandbyStep, StandbyEpochs
        <5> QED
          BY <3>1, <5>1, <5>2, StandbyFacts
      <4> QED
        BY <4>1, <4>2
    <3>3. ASSUME Standby, NEW b \in Backups PROVE Agree(b, Server, m.first)'
      <4>1. n # Server /\ n \in Backups
        BY <3>1, <3>3, NodeFacts, StandbyFacts DEF Roles, StandbyStep, StandbyEpochs
      <4>2. b = n
        BY <3>3, <4>1 DEF StandbyStep
      <4>3. sub[n].primary = Server /\ sub[n].epoch = epoch[Server] /\ Server \in Nodes
        BY <3>1, <3>2, <3>3, StandbyFacts DEF StandbyStep, StandbyEpochs
      <4>4. Len(log[n]) =< durable[Server] /\ \A i \in 1 .. Len(log[n]) : log[n][i] = log[Server][i]
        BY <3>1, <3>3, <4>3 DEF StandbyStep, StreamInv, Follower
      <4>5. /\ durable[Server] \in Nat /\ durable'[Server] \in Nat /\ Len(log[n]) \in Nat
            /\ durable[Server] =< durable'[Server]
        BY <4>3, StandbyFacts, NodeFacts DEF BaseInv, TypeInv, StateTypes, Keeps
      <4>6. Len(log[n]) =< durable'[Server]
        BY <4>4, <4>5
      <4> DEFINE k == Len(log[n])
      <4>7. /\ k =< durable'[n] /\ k =< durable'[Server] /\ m.first = k
            /\ \A i \in 1 .. k : log'[n][i] = log'[Server][i]
        BY <3>1, <4>4, <4>5, <4>6
      <4> HIDE DEF k
      <4> QED
        BY <4>2, <4>7 DEF Agree
    <3> QED
      BY <3>2, <3>3
  <2> QED
    BY <2>1, <2>2, <2>3
<1> QED
  BY <1>1, <1>2

\* What the server was acknowledged of the batch under way its standby holds.
LEMMA AckedHeldStep ==
    ASSUME StandbyStep, Standby, NEW b \in Backups, pub'[Server].acked > pub'[Server].base
    PROVE  Agree(b, Server, pub[Server].acked)'
<1>1. /\ pub[Server].acked \in Nat /\ pub'[Server].acked \in Nat /\ pub[Server].base \in Nat
      /\ pub'[Server].base \in Nat /\ b \in Nodes /\ Server \in Nodes /\ Keeps(b) /\ Keeps(Server)
      /\ BaseInv /\ BaseInv'
  BY StandbyFacts
<1>2. ASSUME NEW k \in Nat, Agree(b, Server, k), pub'[Server].acked = k
      PROVE  Agree(b, Server, pub[Server].acked)'
  <2>1. Agree(b, Server, k)'
    BY <1>1, <1>2, StillAgree
  <2> QED
    BY <1>2, <2>1 DEF Agree
<1>3. CASE pub'[Server].acked = pub[Server].acked /\ pub'[Server].base >= pub[Server].base
  <2>1. pub[Server].acked > pub[Server].base
    BY <1>1, <1>3
  <2>2. Agree(b, Server, pub[Server].acked)
    BY <2>1 DEF StandbyStep, StandbyInv
  <2> QED
    BY <1>1, <1>2, <1>3, <2>2
<1>4. CASE \E m \in net : m.kind = "Ack" /\ pub'[Server].acked = m.first
  <2>1. PICK m \in net : m.kind = "Ack" /\ pub'[Server].acked = m.first
    BY <1>4
  <2>2. Agree(b, Server, m.first) /\ m.first \in Nat
    BY <1>1, <2>1 DEF StandbyStep, StandbyInv
  <2> QED
    BY <1>2, <2>1, <2>2
<1>5. ~(pub'[Server].acked =< pub'[Server].base)
  BY <1>1
<1> QED
  BY <1>3, <1>4, <1>5, PubFacts, StandbyFacts DEF PubChange

\* What clients have seen answered the server holds, and so does its standby.
LEMMA AnsweredStep ==
    ASSUME StandbyStep, NEW a \in released'
    PROVE  Holds(Server, a)' /\ (Standby => \A b \in Backups : Holds(b, a)')
<1>1. /\ Server \in Nodes /\ Backups \subseteq Nodes /\ BaseInv /\ BaseInv' /\ \A x \in Nodes : Keeps(x)
  BY StandbyFacts
<1>2. CASE a \in released
  BY <1>1, <1>2, HeldIsKept DEF StandbyStep, StandbyInv
<1>3. CASE a \notin released
  <2>1. PICK n \in Nodes : /\ a \in Answers(n) /\ role[n] = "primary"
                           /\ UNCHANGED <<log, role>> /\ durable'[n] = Len(log[n])
                           /\ \/ ~WaitReplica \/ ~HaltOnLoss \/ pub[n].lost
                              \/ pub[n].acked >= Len(log[n])
    BY <1>3, ReleasedFacts DEF StandbyStep
  <2>2. pub[n].acked >= Len(log[n])
    BY <2>1 DEF StandbyStep, StandbyInv
  <2>3. a[1] \in pub[n].base + 1 .. Len(log[n]) /\ a[2] = log[n][a[1]]
    BY <1>1, <2>1, AnswersTyped
  <2>4. pub[n].base \in Nat /\ pub[n].acked \in Nat /\ Len(log[n]) \in Nat /\ a[1] \in Nat \ {0}
    BY <1>1, <2>3, StandbyFacts, NodeFacts
  <2>5. pub[n].acked > pub[n].base /\ a[1] =< pub[n].acked
    BY <2>2, <2>3, <2>4
  <2>6. n = Server
    BY <2>4, <2>5 DEF StandbyStep, StandbyInv
  <2>7. Holds(Server, a)'
    BY <1>1, <2>1, <2>6, AnsweredIsHeld
  <2>8. ASSUME Standby, NEW b \in Backups PROVE Holds(b, a)'
    <3> DEFINE k == pub[Server].acked
    <3>1. Agree(b, Server, k)
      BY <2>5, <2>6, <2>8 DEF StandbyStep, StandbyInv
    <3>2. k \in Nat /\ a[1] \in 1 .. k /\ b \in Nodes
      BY <1>1, <2>4, <2>5, <2>6
    <3> HIDE DEF k
    <3>3. durable[b] \in Nat /\ durable'[b] \in Nat /\ durable[b] =< durable'[b]
      BY <1>1, <3>2 DEF BaseInv, TypeInv, StateTypes, Keeps
    <3>4. a[1] =< durable[b] /\ log[b][a[1]] = log[Server][a[1]]
      BY <3>1, <3>2, <3>3 DEF Agree
    <3>5. a[1] =< durable'[b] /\ log'[b][a[1]] = a[2]
      BY <2>1, <2>3, <2>4, <2>6, <3>3, <3>4
    <3> QED
      BY <3>5 DEF Holds
  <2> QED
    BY <2>7, <2>8
<1> QED
  BY <1>2, <1>3

\* A server and its standby, one step on.
LEMMA StandbyKept ==
    ASSUME StandbyStep
    PROVE  StandbyInv'
<1>1. config' = config
  BY ConfigStays DEF StandbyStep
<1>2. Standby' = Standby /\ Backups' = Backups
  BY <1>1 DEF Standby, Backups
<1>3. ASSUME NEW b \in Backups, Standby
      PROVE  /\ \A m \in net' : m.kind = "Ack" => Agree(b, Server, m.first)'
             /\ pub'[Server].acked > pub'[Server].base => Agree(b, Server, pub[Server].acked)'
             /\ \A a \in released' : Holds(b, a)'
  BY <1>3, AckNetStep, AckedHeldStep, AnsweredStep
<1>4. /\ \A n \in Nodes : ~pub'[n].lost
      /\ \A n \in Nodes \ {Server} : pub'[n].acked =< pub'[n].base
      /\ \A m \in net' : m.kind = "Ack" => m.epoch = 1
      /\ \A a \in released' : Holds(Server, a)'
  BY AckedStep, AckNetStep, AnsweredStep
<1> QED
  BY <1>2, <1>3, <1>4 DEF StandbyInv

\* One server and one standby take different epochs.
LEMMA StandbyUnique ==
    ASSUME BaseInv, StandbyEpochs, OneStandby(config)
    PROVE  UniqueEpochs
<1>1. Standby => \A a, b \in Backups : a = b
  BY DEF OneStandby, Standby, Backups
<1>2. Server \in Nodes
  BY ReplicationAssumption
<1>3. epoch[Server] = 1
  BY <1>2, NodeFacts
<1> QED
  BY <1>1, <1>3 DEF UniqueEpochs, StandbyEpochs

\* The epochs and the standby of the first state.
LEMMA StandbyInit ==
    ASSUME Init
    PROVE  StandbyEpochs /\ StandbyInv
<1>1. /\ \A n \in Nodes : /\ epoch[n] = IF n = Server THEN 1 ELSE 0
                          /\ sub[n] = NoSub
                          /\ pub[n] = IF n = Server THEN [NoPub EXCEPT !.run = 1] ELSE NoPub
                          /\ role[n] = IF n = Server THEN "primary"
                                       ELSE IF n \in Backups THEN "replica" ELSE "off"
      /\ net = {} /\ released = {}
  BY DEF Init
<1>2. NoSub.epoch = 0 /\ NoSub.primary = Server
  BY DEF NoSub
<1>3. \A n \in Nodes : ~pub[n].lost /\ pub[n].acked = 0 /\ pub[n].base = 0
  <2> DEFINE q == [NoPub EXCEPT !.run = 1]
  <2>1. ~q.lost /\ q.acked = 0 /\ q.base = 0
    BY NoPubFacts DEF Publishers
  <2>2. \A n \in Nodes : pub[n] = IF n = Server THEN q ELSE NoPub
    BY <1>1
  <2> HIDE DEF q
  <2> QED
    BY <2>1, <2>2, NoPubFacts
<1>4. Server \in Nodes
  BY ReplicationAssumption
<1>5. StandbyEpochs
  BY <1>1, <1>2 DEF StandbyEpochs
<1> QED
  BY <1>1, <1>3, <1>4, <1>5 DEF StandbyInv

\* The epochs of one server and one standby, also when nothing happens.
LEMMA StandbyEpochsKept ==
    ASSUME BaseInv, EpochsAreNodes, StandbyEpochs, OneStandby(config), [Next]_vars
    PROVE  StandbyEpochs'
<1>1. CASE Next
  <2>1. Standby' = Standby /\ Backups' = Backups
    BY <1>1, ConfigStays DEF Standby, Backups
  <2> QED
    BY <1>1, <2>1, StandbyEpochsStep DEF StandbyEpochs
<1>2. CASE UNCHANGED vars
  BY <1>2 DEF vars, StandbyEpochs, Standby, Backups
<1> QED
  BY <1>1, <1>2

\* seqstream.hpp:193-195, "the backup's journal is always a prefix of the
\* primary's", in every deployment in which the retransmission ring holds a batch,
\* at most one standby can take over and no write to a journal fails: whatever
\* datagrams are lost, doubled or reordered, however often processes crash and
\* recover.
THEOREM BackupIsAlwaysPrefix ==
    ASSUME RingHoldsBatch, \A c \in Configs : ~c.journalFails /\ OneStandby(c)
    PROVE  Spec => []BackupIsPrefix
<1>1. BaseInv => ~JournalFails /\ OneStandby(config)
  BY DEF BaseInv, TypeInv, StateTypes, JournalFails
<1>2. Init => Streams /\ StandbyEpochs
  BY StreamsInit, StandbyInit
<1>3. BaseInv /\ BaseInv' /\ Streams /\ StandbyEpochs /\ [Next]_vars => Streams' /\ StandbyEpochs'
  BY <1>1, StreamsStep, StandbyEpochsKept DEF Streams
<1>4. BaseInv /\ Streams /\ StandbyEpochs => BackupIsPrefix
  BY <1>1, StandbyUnique, StreamIsPrefix DEF Streams
<1> QED
  BY <1>2, <1>3, <1>4, BaseCorrect, PTL DEF Spec

\* The invariant of a deployment in which a primary waits for its standby.
Failover ==
    /\ EpochsAreNodes
    /\ WaitReplica /\ HaltOnLoss => /\ StandbyEpochs /\ StandbyInv
                                    /\ Standby => StreamInv

\* Every step keeps it.
LEMMA FailoverStep ==
    ASSUME BaseInv, BaseInv', Failover, [Next]_vars, SafeFailover(config)
    PROVE  Failover'
<1>1. CASE Next
  <2>1. EpochsAreNodes'
    BY <1>1, EpochsStep DEF Failover
  <2>2. config' = config
    BY <1>1, ConfigStays
  <2>3. WaitReplica' = WaitReplica /\ HaltOnLoss' = HaltOnLoss /\ Standby' = Standby
    BY <2>2 DEF WaitReplica, HaltOnLoss, Standby
  <2>4. ASSUME WaitReplica, HaltOnLoss
        PROVE  StandbyEpochs' /\ StandbyInv' /\ (Standby => StreamInv')
    <3>1. /\ OneStandby(config) /\ ~SlowClients /\ (Standby => ~JournalFails)
          /\ StandbyEpochs /\ StandbyInv /\ (Standby => StreamInv)
      BY <2>4 DEF SafeFailover, Failover, WaitReplica, HaltOnLoss, Standby, SlowClients, JournalFails
    <3>2. StandbyEpochs'
      BY <3>1, StandbyEpochsKept DEF Failover
    <3>3. UniqueEpochs'
      <4>1. OneStandby(config')
        BY <2>2, <3>1
      <4>2. Standby' => \A a, b \in Backups' : a = b
        BY <4>1 DEF OneStandby, Standby, Backups
      <4>3. Server \in Nodes
        BY ReplicationAssumption
      <4>4. epoch'[Server] = 1
        BY <4>3 DEF BaseInv, TypeInv, NodeInv
      <4> QED
        BY <3>2, <4>2, <4>4 DEF UniqueEpochs, StandbyEpochs
    <3>4. Standby => StreamInv'
      BY <1>1, <3>1, <3>3, StreamKept DEF StreamStep, Failover
    <3>5. Standby => \A a, b \in Backups : a = b
      BY <3>1 DEF OneStandby, Standby, Backups
    <3>6. StandbyInv'
      BY <1>1, <2>4, <3>1, <3>5, StandbyKept DEF StandbyStep, Failover
    <3> QED
      BY <3>2, <3>4, <3>6
  <2> QED
    BY <2>1, <2>3, <2>4 DEF Failover
<1>2. CASE UNCHANGED vars
  <2>1. /\ UNCHANGED <<role, log, durable, epoch, pub, sub, net, released>>
        /\ WaitReplica' = WaitReplica /\ HaltOnLoss' = HaltOnLoss /\ Standby' = Standby /\ Backups' = Backups
    BY <1>2 DEF vars, WaitReplica, HaltOnLoss, Standby, Backups
  <2>2. EpochsAreNodes'
    BY <2>1 DEF Failover, EpochsAreNodes
  <2>3. StandbyEpochs => StandbyEpochs'
    BY <2>1 DEF StandbyEpochs
  <2>4. StandbyInv => StandbyInv'
    BY <2>1 DEF StandbyInv, Agree, Holds
  <2>5. StreamInv => StreamInv'
    BY <2>1, StreamUnchanged
  <2> QED
    BY <2>1, <2>2, <2>3, <2>4, <2>5 DEF Failover
<1> QED
  BY <1>1, <1>2

\* Who is the newest primary then holds what was answered.
LEMMA NewestHolds ==
    ASSUME BaseInv, Failover
    PROVE  AckedSurvive
<1> SUFFICES ASSUME NEW p \in Nodes, WaitReplica, HaltOnLoss, Newest(p), NEW a \in released
             PROVE  a[1] =< Len(log[p]) /\ log[p][a[1]] = a[2]
  BY DEF AckedSurvive
<1>1. epoch[p] # 0
  BY NodeFacts DEF Newest, Roles
<1>2. Holds(p, a)
  BY <1>1 DEF Failover, StandbyEpochs, StandbyInv
<1>3. durable[p] \in Nat /\ durable[p] =< Len(log[p]) /\ Len(log[p]) \in Nat
  BY NodeFacts DEF NodeTypes, Positions
<1>4. a[1] \in Nat
  <2>1. a \in Seqno \X Commands /\ MaxSeq \in Nat
    BY RestFacts, ConfigFacts DEF BaseInv, TypeInv, StateTypes
  <2> QED
    BY <2>1 DEF Seqno
<1> QED
  BY <1>2, <1>3, <1>4 DEF Holds

\* gateway.hpp:12-13, "a promoted backup holds every acknowledged command", and so
\* does a recovered primary that was not replaced: with --replicate-wait, in every
\* deployment in which the retransmission ring holds a batch, at most one standby
\* can take over, no connection is left with unsent output and no write to a
\* journal of such a pair fails.
THEOREM FailoverKeepsAcked ==
    ASSUME RingHoldsBatch, \A c \in Configs : SafeFailover(c)
    PROVE  Spec => []AckedSurvive
<1>1. BaseInv => SafeFailover(config)
  BY DEF BaseInv, TypeInv, StateTypes
<1>2. Init => Failover
  <2> SUFFICES ASSUME Init PROVE Failover
    OBVIOUS
  <2>1. Streams /\ StandbyEpochs /\ StandbyInv /\ BaseInv
    BY StreamsInit, StandbyInit, BaseInit
  <2>2. UniqueEpochs
    BY DEF Init, UniqueEpochs
  <2> QED
    BY <2>1, <2>2 DEF Failover, Streams
<1>3. BaseInv /\ BaseInv' /\ Failover /\ [Next]_vars => Failover'
  BY <1>1, FailoverStep
<1>4. BaseInv /\ Failover => AckedSurvive
  BY NewestHolds
<1> QED
  BY <1>2, <1>3, <1>4, BaseCorrect, PTL DEF Spec
=============================================================================
