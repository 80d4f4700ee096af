--------------------------- MODULE GatewayProofs ---------------------------
(***************************************************************************)
(* Proofs about the gateway: the rate limit of the risk gate is exact, the *)
(* client id map follows the book, and the parties of a trade are told of  *)
(* it, in their own ids and nobody else.  About a client's connection:     *)
(* however the bytes are cut, the commands are those of the stream, and    *)
(* the registration with epoll follows the backlog.                        *)
(***************************************************************************)
EXTENDS Gateway, Connection, ReferenceBookProofs, SequenceTheorems

-----------------------------------------------------------------------------
(* The rate limit: one number against a history h of times, for an interval *)
(* I and a burst b.                                                         *)

\* When the i-th message of h and all that followed it are paid for.
Due(h, i, I) == h[i] + (Len(h) - i + 1) * I

\* t is the latest of these.
Booked(h, t, I) ==
    /\ h \in Seq(Nat) /\ t \in Nat
    /\ \A i \in 1 .. Len(h) : Due(h, i, I) =< t
    /\ Len(h) = 0 => t = 0
    /\ Len(h) # 0 => \E i \in 1 .. Len(h) : t = Due(h, i, I)

Within(h, I, b) ==
    \A i, j \in DOMAIN h : i =< j => (j - i + 1 - b) * I =< h[j] - h[i]

FirstAllowed(t, I, b) == IF t > I * (b - 1) THEN t - I * (b - 1) ELSE 0

\* A product with a sum, in the forms that are needed.
LEMMA Products ==
    ASSUME NEW I \in Nat, NEW a \in Int, NEW b \in Nat \ {0}
    PROVE  /\ a * I \in Int /\ I * (b - 1) \in Nat
           /\ (a + 1) * I = a * I + I
           /\ (a + 1 - b) * I = a * I - I * (b - 1)
           /\ (1 - b) * I =< 0
<1>1. a * I \in Int /\ (a + 1) * I = a * I + I
  OBVIOUS
<1>2. (a + 1 - b) * I = a * I - I * (b - 1)
  OBVIOUS
<1>3. I * (b - 1) \in Nat
  OBVIOUS
<1>4. (1 - b) * I = 0 - I * (b - 1)
  OBVIOUS
<1> DEFINE x == I * (b - 1)
           y == (1 - b) * I
<1>5. x \in Nat /\ y = 0 - x
  BY <1>3, <1>4
<1> HIDE DEF x, y
<1>6. y =< 0
  BY <1>5
<1> QED
  BY <1>1, <1>2, <1>3, <1>6 DEF y

\* A message at time t is over the limit exactly if, with the history, it is
\* more than the burst and the time pay for.
LEMMA OverTheLimit ==
    ASSUME NEW I \in Nat \ {0}, NEW b \in Nat \ {0}, NEW h, NEW v, NEW t \in Nat,
           Booked(h, v, I), Within(h, I, b)
    PROVE  t < FirstAllowed(v, I, b) <=> ~Within(Append(h, t), I, b)
<1> DEFINE n == Len(h)
           g == Append(h, t)
           slack == I * (b - 1)
<1>1. h \in Seq(Nat) /\ v \in Nat /\ n \in Nat
  BY LenProperties DEF Booked
<1>2. /\ g \in Seq(Nat) /\ Len(g) = n + 1 /\ DOMAIN g = 1 .. n + 1 /\ DOMAIN h = 1 .. n
      /\ \A i \in 1 .. n : g[i] = h[i] /\ h[i] \in Nat
      /\ g[n + 1] = t
  BY <1>1, AppendProperties, ElementOfSeq, LenProperties
<1>3. slack \in Nat
  BY <1>1, Products
<1>4. ASSUME NEW i \in 1 .. n
      PROVE  (n + 1 - i + 1 - b) * I =< t - h[i] <=> Due(h, i, I) =< t + slack
  <2> DEFINE a == n - i + 1
             p == a * I
             e == h[i]
  <2>1. a \in Int /\ n + 1 - i + 1 - b = a + 1 - b
    BY <1>1
  <2>2. e \in Nat
    BY <1>2
  <2> HIDE DEF a
  <2>3. p \in Int /\ (a + 1 - b) * I = p - slack
    BY <2>1, Products
  <2>4. Due(h, i, I) = e + p
    BY DEF Due, a
  <2> HIDE DEF p, slack, e
  <2>5. p - slack =< t - e <=> e + p =< t + slack
    BY <1>3, <2>2, <2>3
  <2> QED
    BY <2>1, <2>3, <2>4, <2>5 DEF e
<1>5. Within(g, I, b) <=> \A i \in 1 .. n : Due(h, i, I) =< t + slack
  <2> HIDE DEF g, slack
  <2>1. ASSUME Within(g, I, b), NEW i \in 1 .. n PROVE Due(h, i, I) =< t + slack
    <3>1. i \in DOMAIN g /\ n + 1 \in DOMAIN g /\ i =< n + 1
      BY <1>1, <1>2
    <3>2. (n + 1 - i + 1 - b) * I =< g[n + 1] - g[i]
      BY <2>1, <3>1 DEF Within
    <3> QED
      BY <1>2, <1>4, <3>2
  <2>2. ASSUME \A i \in 1 .. n : Due(h, i, I) =< t + slack PROVE Within(g, I, b)
    <3> SUFFICES ASSUME NEW i \in DOMAIN g, NEW j \in DOMAIN g, i =< j
                 PROVE  (j - i + 1 - b) * I =< g[j] - g[i]
      BY DEF Within
    <3>1. i \in 1 .. n + 1 /\ j \in 1 .. n + 1
      BY <1>2
    <3>2. CASE j # n + 1
      <4>1. i \in 1 .. n /\ j \in 1 .. n
        BY <1>1, <3>1, <3>2
      <4>2. i \in DOMAIN h /\ j \in DOMAIN h /\ g[i] = h[i] /\ g[j] = h[j]
        BY <1>2, <4>1
      <4> QED
        BY <4>2 DEF Within
    <3>3. CASE j = n + 1 /\ i # n + 1
      <4>1. i \in 1 .. n
        BY <1>1, <3>1, <3>3
      <4>2. Due(h, i, I) =< t + slack
        BY <2>2, <4>1
      <4>3. (n + 1 - i + 1 - b) * I =< t - h[i]
        BY <1>4, <4>1, <4>2
      <4> QED
        BY <1>2, <3>3, <4>1, <4>3
    <3>4. CASE j = n + 1 /\ i = n + 1
      <4>1. j - i + 1 - b = 1 - b
        BY <1>1, <3>4
      <4>2. (1 - b) * I =< 0
        BY <1>1, Products
      <4>3. g[j] - g[i] = 0
        BY <1>2, <3>4
      <4> QED
        BY <4>1, <4>2, <4>3
    <3> QED
      BY <3>2, <3>3, <3>4
  <2> QED
    BY <2>1, <2>2
<1>6. (\A i \in 1 .. n : Due(h, i, I) =< t + slack) <=> v =< t + slack
  <2> HIDE DEF slack
  <2>1. ASSUME v =< t + slack, NEW i \in 1 .. n PROVE Due(h, i, I) =< t + slack
    <3> DEFINE d == Due(h, i, I)
    <3>1. d =< v
      BY DEF Booked
    <3>2. d \in Int
      <4>1. n - i + 1 \in Int /\ h[i] \in Nat
        BY <1>1, <1>2
      <4> DEFINE a == n - i + 1
      <4> HIDE DEF a
      <4>2. a * I \in Int
        BY <4>1, Products DEF a
      <4> QED
        BY <4>1, <4>2 DEF Due, a
    <3> HIDE DEF d
    <3>3. d =< t + slack
      BY <1>1, <1>3, <2>1, <3>1, <3>2
    <3> QED
      BY <3>3 DEF d
  <2>2. ASSUME \A i \in 1 .. n : Due(h, i, I) =< t + slack PROVE v =< t + slack
    <3>1. CASE n = 0
      BY <1>1, <1>3, <3>1 DEF Booked
    <3>2. CASE n # 0
      BY <2>2, <3>2 DEF Booked
    <3> QED
      BY <3>1, <3>2
  <2> QED
    BY <2>1, <2>2
<1>7. t < FirstAllowed(v, I, b) <=> ~(v =< t + slack)
  <2>1. FirstAllowed(v, I, b) = IF v > slack THEN v - slack ELSE 0
    BY DEF FirstAllowed
  <2> HIDE DEF slack
  <2> QED
    BY <1>1, <1>3, <2>1
<1> QED
  BY <1>5, <1>6, <1>7

\* The number that the gate keeps goes on with the history.
LEMMA BookedAppend ==
    ASSUME NEW I \in Nat \ {0}, NEW h, NEW v, NEW t \in Nat, Booked(h, v, I)
    PROVE  Booked(Append(h, t), (IF t > v THEN t ELSE v) + I, I)
<1> DEFINE n == Len(h)
           g == Append(h, t)
           u == (IF t > v THEN t ELSE v) + I
<1>1. h \in Seq(Nat) /\ v \in Nat /\ n \in Nat
  BY LenProperties DEF Booked
<1>2. /\ g \in Seq(Nat) /\ Len(g) = n + 1
      /\ \A i \in 1 .. n : g[i] = h[i] /\ h[i] \in Nat
      /\ g[n + 1] = t
  BY <1>1, AppendProperties, ElementOfSeq
<1> HIDE DEF g
<1>3. ASSUME NEW i \in 1 .. n PROVE Due(g, i, I) = Due(h, i, I) + I /\ Due(h, i, I) \in Int
  <2> DEFINE a == n - i + 1
  <2>1. a \in Int /\ Len(g) - i + 1 = a + 1 /\ h[i] \in Nat
    BY <1>1, <1>2
  <2>2. (a + 1) * I = a * I + I /\ a * I \in Int
    <3> HIDE DEF a
    <3>1. 1 \in Nat \ {0}
      OBVIOUS
    <3> QED
      BY <2>1, <3>1, Products
  <2>3. Due(g, i, I) = h[i] + (a + 1) * I /\ Due(h, i, I) = h[i] + a * I
    BY <1>2, <2>1 DEF Due
  <2> DEFINE p == a * I
             e == h[i]
  <2>4. e \in Int /\ p \in Int /\ Due(g, i, I) = e + (p + I) /\ Due(h, i, I) = e + p
    BY <2>1, <2>2, <2>3
  <2> HIDE DEF p, e
  <2> QED
    BY <2>4
<1>4. Due(g, n + 1, I) = t + I
  <2>1. Len(g) - (n + 1) + 1 = 1
    BY <1>1, <1>2
  <2> QED
    BY <1>2, <2>1 DEF Due
<1>5. u \in Nat /\ t + I =< u /\ v + I =< u /\ (u = t + I \/ (u = v + I /\ t =< v))
  BY <1>1
<1> HIDE DEF u
<1>6. ASSUME NEW i \in 1 .. Len(g) PROVE Due(g, i, I) =< u
  <2>1. CASE i = n + 1
    BY <1>4, <1>5, <2>1
  <2>2. CASE i # n + 1
    <3>1. i \in 1 .. n
      BY <1>1, <1>2, <2>2
    <3>2. Due(h, i, I) =< v
      BY <3>1 DEF Booked
    <3> DEFINE d == Due(h, i, I)
    <3>3. d \in Int /\ Due(g, i, I) = d + I
      BY <1>3, <3>1
    <3>4. d =< v
      BY <3>2
    <3> HIDE DEF d
    <3> QED
      BY <1>1, <1>5, <3>3, <3>4
  <2> QED
    BY <2>1, <2>2
<1>7. \E i \in 1 .. Len(g) : u = Due(g, i, I)
  <2>1. n + 1 \in 1 .. Len(g)
    BY <1>1, <1>2
  <2>2. CASE u = t + I
    BY <1>4, <2>1, <2>2
  <2>3. CASE u = v + I /\ t =< v /\ u # t + I
    <3>1. n # 0
      BY <2>3, <1>1 DEF Booked
    <3>2. PICK i \in 1 .. n : v = Due(h, i, I)
      BY <3>1 DEF Booked
    <3>3. i \in 1 .. Len(g)
      BY <1>1, <1>2
    <3> QED
      BY <1>3, <2>3, <3>2, <3>3
  <2> QED
    BY <1>5, <2>2, <2>3
<1>8. Len(g) # 0
  BY <1>1, <1>2
<1> QED
  BY <1>2, <1>5, <1>6, <1>7, <1>8 DEF Booked, g, u

\* The rate limits of the deployments.  A burst of 0 would count as 1.
RatesAreRates ==
    \A d \in Deployments : d.limits.interval \in Nat /\ d.limits.burst \in Nat \ {0}

GateInv ==
    /\ config \in Deployments /\ limits = config.limits
    /\ now \in Nat
    /\ tat = [w \in Owners |-> tat[w]]
    /\ admitted = [w \in Owners |-> admitted[w]]
    /\ limits.interval # 0 =>
          \A w \in Owners : /\ Booked(admitted[w], tat[w], limits.interval)
                            /\ Within(admitted[w], limits.interval, limits.burst)

\* The gate's test in terms of the history.
LEMMA AllowedFromFacts ==
    ASSUME GateInv, RatesAreRates, limits.interval # 0, NEW w \in Owners, NEW t \in Nat
    PROVE  t < AllowedFrom(w) <=>
              ~Within(Append(admitted[w], t), limits.interval, limits.burst)
<1>1. limits.interval \in Nat \ {0} /\ limits.burst \in Nat \ {0}
  BY DEF GateInv, RatesAreRates
<1>2. AllowedFrom(w) = FirstAllowed(tat[w], limits.interval, limits.burst)
  BY <1>1 DEF AllowedFrom, FirstAllowed, Slack
<1>3. /\ Booked(admitted[w], tat[w], limits.interval)
      /\ Within(admitted[w], limits.interval, limits.burst)
  BY DEF GateInv
<1> QED
  BY <1>1, <1>2, <1>3, OverTheLimit

\* A message that is let pass.
LEMMA AdmitKeepsGateInv ==
    ASSUME GateInv, RatesAreRates, NEW w, Admit(w), UNCHANGED <<limits, now, config>>,
           limits.interval # 0 => ~(now < AllowedFrom(w))
    PROVE  GateInv'
<1>1. CASE limits.interval = 0
  BY <1>1 DEF Admit, GateInv
<1>2. CASE limits.interval # 0
  <2> DEFINE I == limits.interval
             b == limits.burst
  <2>1. I \in Nat \ {0} /\ b \in Nat \ {0} /\ now \in Nat
    BY <1>2 DEF GateInv, RatesAreRates
  <2>2. /\ tat' = [tat EXCEPT ![w] = (IF now > @ THEN now ELSE @) + I]
        /\ admitted' = [admitted EXCEPT ![w] = Append(@, now)]
    BY <1>2 DEF Admit
  <2>3. tat = [x \in Owners |-> tat[x]] /\ admitted = [x \in Owners |-> admitted[x]]
    BY DEF GateInv
  <2>4. tat' = [x \in Owners |-> tat'[x]] /\ admitted' = [x \in Owners |-> admitted'[x]]
    BY <2>2, <2>3
  <2>5. ASSUME NEW x \in Owners
        PROVE  Booked(admitted'[x], tat'[x], I) /\ Within(admitted'[x], I, b)
    <3>1. Booked(admitted[x], tat[x], I) /\ Within(admitted[x], I, b)
      BY <1>2 DEF GateInv
    <3>2. CASE x # w
      <4>1. admitted'[x] = admitted[x] /\ tat'[x] = tat[x]
        BY <2>2, <2>3, <3>2
      <4> QED
        BY <3>1, <4>1
    <3>3. CASE x = w
      <4>1. /\ admitted'[x] = Append(admitted[x], now)
            /\ tat'[x] = (IF now > tat[x] THEN now ELSE tat[x]) + I
        BY <2>2, <2>3, <3>3
      <4>2. Within(Append(admitted[x], now), I, b)
        BY <1>2, <2>1, <3>3, AllowedFromFacts
      <4>3. Booked(Append(admitted[x], now), (IF now > tat[x] THEN now ELSE tat[x]) + I, I)
        BY <2>1, <3>1, BookedAppend
      <4> QED
        BY <4>1, <4>2, <4>3
    <3> QED
      BY <3>2, <3>3
  <2> QED
    BY <2>1, <2>4, <2>5 DEF GateInv
<1> QED
  BY <1>1, <1>2

\* The gate starts with an empty history.
LEMMA GateInitInv == GatewayInit => GateInv
<1> SUFFICES ASSUME GatewayInit PROVE GateInv
  OBVIOUS
<1>1. /\ config \in Deployments /\ limits = config.limits /\ now = 0
      /\ tat = [w \in Owners |-> 0] /\ admitted = [w \in Owners |-> <<>>]
  BY DEF GatewayInit, GateInit
<1>2. ASSUME NEW w \in Owners
      PROVE  Booked(admitted[w], tat[w], limits.interval)
             /\ Within(admitted[w], limits.interval, limits.burst)
  <2>1. admitted[w] = <<>> /\ tat[w] = 0
    BY <1>1
  <2>2. <<>> \in Seq(Nat) /\ Len(<<>>) = 0 /\ DOMAIN <<>> = {}
    BY EmptySeq
  <2>3. Booked(<<>>, 0, limits.interval)
    BY <2>2 DEF Booked
  <2>4. Within(<<>>, limits.interval, limits.burst)
    BY <2>2 DEF Within
  <2> QED
    BY <2>1, <2>3, <2>4
<1> QED
  BY <1>1, <1>2 DEF GateInv

\* Only a message that the gate lets pass changes its books.
LEMMA GateStep ==
    ASSUME RatesAreRates, GateInv, [GatewayNext]_allVars
    PROVE  GateInv'
<1>1. CASE UNCHANGED <<limits, now, tat, admitted, config>>
  BY <1>1 DEF GateInv
<1>2. ASSUME NEW fd, NEW kind, NEW m, Handle(fd, kind, m), kind \in {"New", "Modify", "Cancel"}
      PROVE  GateInv'
  <2>1. PICK c, w : Process(kind, c, w) /\ UNCHANGED config
    BY <1>2 DEF Handle, sessionVars
  <2>2. CASE UNCHANGED gateVars
    BY <1>1, <2>1, <2>2 DEF gateVars
  <2>3. CASE kind = "Cancel"
    BY <1>1, <2>1, <2>2, <2>3 DEF Process, gateVars
  <2>4. CASE kind # "Cancel" /\ ~UNCHANGED gateVars
    <3>1. Check(kind, c, w) = "None" /\ Admit(w) /\ UNCHANGED <<limits, now>>
      BY <1>2, <2>1, <2>4 DEF Process
    <3>2. limits.interval # 0 => ~(now < AllowedFrom(w))
      BY <3>1 DEF Check
    <3> QED
      BY <2>1, <3>1, <3>2, AdmitKeepsGateInv
  <2> QED
    BY <2>2, <2>3, <2>4
<1>3. CASE PassTime
  <2>1. now' = now + 1 /\ UNCHANGED <<limits, tat, admitted, config>>
    BY <1>3 DEF PassTime, Tick, sessionVars
  <2> QED
    BY <2>1 DEF GateInv
<1>4. CASE Continue
  BY <1>1, <1>4 DEF Continue, Proceed, sessionVars
<1>5. ASSUME NEW fd, AcceptConn(fd) PROVE GateInv'
  BY <1>1, <1>5 DEF AcceptConn, gateVars
<1>6. ASSUME NEW fd, CloseConn(fd) PROVE GateInv'
  BY <1>1, <1>6 DEF CloseConn, gateVars
<1>7. CASE Restart
  BY <1>1, <1>7 DEF Restart, gateVars
<1>8. CASE UNCHANGED allVars
  BY <1>1, <1>8 DEF allVars, gateVars, sessionVars
<1> QED
  BY <1>2, <1>3, <1>4, <1>5, <1>6, <1>7, <1>8 DEF GatewayNext

\* risk.hpp:17-19 and 78-87, the generic cell rate algorithm, for every interval,
\* burst, set of owners and length of the history: the one number per owner
\* turns down exactly the messages that the whole history would.
THEOREM RateLimitIsExact ==
    ASSUME RatesAreRates
    PROVE  GatewaySpec => []RateIsExact
<1>1. GateInv => RateIsExact
  <2> SUFFICES ASSUME GateInv, limits.interval # 0, NEW w \in Owners, NEW t \in now .. MaxTime
               PROVE  t < AllowedFrom(w) <=> ~WithinRate(Append(admitted[w], t))
    BY DEF RateIsExact
  <2>1. t \in Nat
    BY GateAssumption DEF GateInv
  <2>2. WithinRate(Append(admitted[w], t)) <=>
           Within(Append(admitted[w], t), limits.interval, limits.burst)
    BY DEF WithinRate, Within
  <2> QED
    BY <2>1, <2>2, AllowedFromFacts
<1>2. GateInv /\ [GatewayNext]_allVars => GateInv'
  BY GateStep
<1> QED
  BY <1>1, <1>2, GateInitInv, PTL DEF GatewaySpec

-----------------------------------------------------------------------------
(* Sessions and ids. *)

\* The two directions of an id map are inverse, and its ids were given out.
MapOK(map) ==
    /\ map = [fwd |-> map.fwd, rev |-> map.rev, next |-> map.next]
    /\ map.next \in Nat \ {0}
    /\ \A k \in DOMAIN map.fwd : map.fwd[k] \in DOMAIN map.rev /\ map.rev[map.fwd[k]] = k
    /\ \A x \in DOMAIN map.rev :
          /\ map.rev[x] \in DOMAIN map.fwd /\ map.fwd[map.rev[x]] = x
          /\ \E w \in Owners, c \in ClientIds \ {NoId} : map.rev[x] = Key(w, c)
          /\ x \in 1 .. map.next - 1

\* What a map and the sessions say of order x of owner w.
Identity(map, x, w) ==
    /\ x \in DOMAIN map.rev => map.rev[x].owner = w
    /\ w \in DOMAIN ownerFd => x \in DOMAIN map.rev

\* The journal has seen the order.
Seen(log, x, w) == x =< log.id /\ w =< log.owner

\* A descriptor and its owner name each other, and no owner is used twice.
SessionsInv ==
    /\ config \in Deployments
    /\ DOMAIN conns \subseteq Fds
    /\ conns = [fd \in DOMAIN conns |-> conns[fd]]
    /\ nextOwner \in Nat
    /\ \A fd \in DOMAIN conns : conns[fd] \in Owners /\ conns[fd] \in 1 .. nextOwner - 1
    /\ DOMAIN ownerFd = {conns[fd] : fd \in DOMAIN conns}
    /\ \A fd \in DOMAIN conns : ownerFd[conns[fd]] = fd

LogInv ==
    /\ logged = [owner |-> logged.owner, id |-> logged.id, restarts |-> logged.restarts]
    /\ logged.owner \in Nat /\ logged.id \in Nat
    /\ logged.owner < nextOwner
    /\ logged.id < ids.next

\* Every order in the book is known by its owner's name, if it has one.
OrdersKnown ==
    \A s \in Sides, p \in Prices : \A i \in DOMAIN book[s][p] :
       /\ Identity(ids, book[s][p][i].id, book[s][p][i].owner)
       /\ Seen(logged, book[s][p][i].id, book[s][p][i].owner)

\* So is the order being matched, and its session is there.
TakerKnown ==
    pc = "sweep" =>
       /\ cur = [fd |-> cur.fd, cid |-> cur.cid, id |-> cur.id, mentioned |-> cur.mentioned]
       /\ cur.fd \in DOMAIN conns /\ conns[cur.fd] = taker.owner
       /\ cur.id = taker.id
       /\ taker.id \in DOMAIN ids.rev
       /\ Identity(ids, taker.id, taker.owner)
       /\ Seen(logged, taker.id, taker.owner)

\* A name whose order has left the book is about to be released.
NamesCovered ==
    \A x \in DOMAIN ids.rev :
       x \in DOMAIN index \/ (pc = "sweep" /\ (x = cur.id \/ x \in cur.mentioned))

IdsInv == SessionsInv /\ MapOK(ids) /\ LogInv /\ OrdersKnown /\ TakerKnown /\ NamesCovered

\* Order x of owner w is in the book bk.
Held(bk, x, w) ==
    \E s \in Sides, p \in Prices : \E i \in DOMAIN bk[s][p] :
       bk[s][p][i].id = x /\ bk[s][p][i].owner = w

\* Only the queue that is set can hold something new.
LEMMA OneQueueHeld ==
    ASSUME BookTypes, NEW s \in Sides, NEW p \in Prices, NEW q, NEW bk, bk = SetQueue(s, p, q),
           NEW x, NEW w, Held(bk, x, w)
    PROVE  Held(book, x, w) \/ \E i \in DOMAIN q : q[i].id = x /\ q[i].owner = w
<1>1. PICK t \in Sides, r \in Prices : \E i \in DOMAIN bk[t][r] :
         bk[t][r][i].id = x /\ bk[t][r][i].owner = w
  BY DEF Held
<1>2. bk[t][r] = IF t = s /\ r = p THEN q ELSE book[t][r]
  BY DEF SetQueue, BookTypes
<1> QED
  BY <1>1, <1>2 DEF Held

\* The queue without one order.
LEMMA RemovalHeld ==
    ASSUME BookTypes, NEW s \in Sides, NEW p \in Prices, NEW k \in DOMAIN book[s][p],
           NEW bk, bk = SetQueue(s, p, RemoveAt(book[s][p], k)), NEW x, NEW w, Held(bk, x, w)
    PROVE  Held(book, x, w)
<1> DEFINE q == book[s][p]
           r == RemoveAt(q, k)
<1>1. q \in Seq(Order) /\ Len(q) \in Nat /\ k \in 1 .. Len(q)
  BY LenProperties DEF BookTypes
<1>2. ASSUME NEW i \in DOMAIN r PROVE \E j \in DOMAIN q : r[i] = q[j]
  <2>1. i \in 1 .. Len(q) - 1 /\ r[i] = IF i < k THEN q[i] ELSE q[i + 1]
    BY <1>1, RemoveAtFacts
  <2>2. i \in DOMAIN q /\ i + 1 \in DOMAIN q
    <3>1. i \in 1 .. Len(q) /\ i + 1 \in 1 .. Len(q)
      BY <1>1, <2>1
    <3> QED
      BY <1>1, <3>1, LenProperties
  <2> QED
    BY <2>1, <2>2
<1>0. bk = SetQueue(s, p, r)
  OBVIOUS
<1> HIDE DEF r
<1>3. Held(book, x, w) \/ \E i \in DOMAIN r : r[i].id = x /\ r[i].owner = w
  BY <1>0, OneQueueHeld
<1> QED
  BY <1>2, <1>3 DEF Held

\* The queue with another quantity.
LEMMA AmendHeld ==
    ASSUME BookTypes, NEW s \in Sides, NEW p \in Prices, NEW k \in DOMAIN book[s][p], NEW n,
           NEW bk, bk = SetQueue(s, p, [book[s][p] EXCEPT ![k].qty = n]), NEW x, NEW w,
           Held(bk, x, w)
    PROVE  Held(book, x, w)
<1> DEFINE q == book[s][p]
           r == [q EXCEPT ![k].qty = n]
<1>1. q \in Seq(Order) /\ DOMAIN r = DOMAIN q
  BY DEF BookTypes
<1>2. ASSUME NEW i \in DOMAIN r PROVE r[i].id = q[i].id /\ r[i].owner = q[i].owner
  <2>1. q[i] \in Order
    BY <1>1
  <2>2. r[i] = IF i = k THEN [q[i] EXCEPT !.qty = n] ELSE q[i]
    BY <1>1
  <2> QED
    BY <2>1, <2>2 DEF Order
<1>0. bk = SetQueue(s, p, r)
  OBVIOUS
<1> HIDE DEF r
<1>3. Held(book, x, w) \/ \E i \in DOMAIN r : r[i].id = x /\ r[i].owner = w
  BY <1>0, OneQueueHeld
<1> QED
  BY <1>1, <1>2, <1>3 DEF Held

\* The queue with one more order.
LEMMA AppendHeld ==
    ASSUME BookTypes, NEW s \in Sides, NEW p \in Prices, NEW o \in Order,
           NEW bk, bk = SetQueue(s, p, Append(book[s][p], o)), NEW x, NEW w, Held(bk, x, w)
    PROVE  Held(book, x, w) \/ (x = o.id /\ w = o.owner)
<1> DEFINE q == book[s][p]
           r == Append(q, o)
<1>1. q \in Seq(Order) /\ Len(q) \in Nat
  BY LenProperties DEF BookTypes
<1>2. /\ DOMAIN r = 1 .. Len(q) + 1 /\ DOMAIN q = 1 .. Len(q)
      /\ \A i \in 1 .. Len(q) : r[i] = q[i]
      /\ r[Len(q) + 1] = o
  BY <1>1, AppendProperties, LenProperties
<1>0. bk = SetQueue(s, p, r)
  OBVIOUS
<1> HIDE DEF r
<1>3. ASSUME NEW i \in DOMAIN r PROVE r[i] = o \/ \E j \in DOMAIN q : r[i] = q[j]
  <2>1. i = Len(q) + 1 \/ i \in 1 .. Len(q)
    BY <1>1, <1>2
  <2> QED
    BY <1>2, <2>1
<1>4. Held(book, x, w) \/ \E i \in DOMAIN r : r[i].id = x /\ r[i].owner = w
  BY <1>0, OneQueueHeld
<1>5. CASE \E i \in DOMAIN r : r[i].id = x /\ r[i].owner = w
  <2>1. PICK i \in DOMAIN r : r[i].id = x /\ r[i].owner = w
    BY <1>5
  <2> QED
    BY <1>3, <2>1 DEF Held
<1> QED
  BY <1>4, <1>5

\* What the index says of the orders in the book.
LEMMA HeldFacts ==
    ASSUME BookInv
    PROVE  /\ \A x, w : Held(book, x, w) => x \in DOMAIN index /\ OwnerInBook(x) = w
           /\ \A x \in DOMAIN index : Held(book, x, OwnerInBook(x))
<1>1. ASSUME NEW x \in DOMAIN index
      PROVE  LET q == book[index[x].side][index[x].price]
             IN  /\ index[x].side \in Sides /\ index[x].price \in Prices
                 /\ Position(q, x) \in DOMAIN q /\ q[Position(q, x)].id = x
  BY DEF BookInv, BookTypes, Loc, IndexedIsQueued, Position
<1>2. ASSUME NEW x \in DOMAIN index PROVE Held(book, x, OwnerInBook(x))
  BY <1>1 DEF Held, OwnerInBook
<1>3. ASSUME NEW x, NEW w, Held(book, x, w) PROVE x \in DOMAIN index /\ OwnerInBook(x) = w
  <2>1. PICK s \in Sides, p \in Prices : \E i \in DOMAIN book[s][p] :
           book[s][p][i].id = x /\ book[s][p][i].owner = w
    BY <1>3 DEF Held
  <2>2. PICK i \in DOMAIN book[s][p] : book[s][p][i].id = x /\ book[s][p][i].owner = w
    BY <2>1
  <2>3. x \in DOMAIN index /\ index[x] = [side |-> s, price |-> p]
    BY <2>2 DEF BookInv, QueuedIsIndexed
  <2> DEFINE q == book[s][p]
             j == Position(q, x)
  <2>4. j \in DOMAIN q /\ q[j].id = x /\ OwnerInBook(x) = q[j].owner
    BY <1>1, <2>3 DEF OwnerInBook
  <2> HIDE DEF j
  <2>5. j = i
    <3>1. \A a, b \in DOMAIN q : q[b].id = q[a].id => b = a
      BY DEF BookInv, QueuedIsIndexed
    <3> QED
      BY <2>2, <2>4, <3>1
  <2> QED
    BY <2>2, <2>3, <2>4, <2>5
<1> QED
  BY <1>2, <1>3

\* The invariant in terms of what is held.
LEMMA OrdersKnownHeld ==
    ASSUME OrdersKnown, NEW x, NEW w, Held(book, x, w)
    PROVE  Identity(ids, x, w) /\ Seen(logged, x, w)
BY DEF OrdersKnown, Held

-----------------------------------------------------------------------------
(* What a step of the book does to the orders in it. *)

BookStays == UNCHANGED <<book, index, taker, pc>>

\* A step that leaves the book alone keeps its invariant.
LEMMA SameBookInv ==
    ASSUME Inv, BookStays
    PROVE  Inv'
BY DEF BookStays, Inv, TypeOK, BookTypes, TakerTypes, IndexAgrees, QueuedIsIndexed,
       IndexedIsQueued, Uncrossed

\* The invariant of the book is part of that of its state.
LEMMA InvBookInv ==
    ASSUME Inv
    PROVE  BookInv
BY DEF Inv, TypeOK, IndexAgrees, BookInv

\* remove: one order less.
LEMMA RemoveHeld ==
    ASSUME BookInv, NEW id \in DOMAIN index, Remove(id)
    PROVE  /\ \A x, w : Held(book', x, w) => Held(book, x, w)
           /\ DOMAIN index' = DOMAIN index \ {id}
<1> DEFINE s == index[id].side
           p == index[id].price
           k == Position(book[s][p], id)
<1>1. s \in Sides /\ p \in Prices
  BY DEF BookInv, BookTypes, Loc
<1>2. k \in DOMAIN book[s][p] /\ book[s][p][k].id = id
  BY DEF BookInv, IndexedIsQueued, Position
<1>3. book' = SetQueue(s, p, RemoveAt(book[s][p], k)) /\ DOMAIN index' = DOMAIN index \ {id}
  BY DEF Remove, Forget
<1> HIDE DEF s, p, k
<1>4. BookTypes
  BY DEF BookInv
<1>5. ASSUME NEW x, NEW w, Held(book', x, w) PROVE Held(book, x, w)
  <2> DEFINE bk == book'
  <2>1. bk = SetQueue(s, p, RemoveAt(book[s][p], k)) /\ Held(bk, x, w)
    BY <1>3, <1>5
  <2> HIDE DEF bk
  <2> QED
    BY <1>1, <1>2, <1>4, <2>1, RemovalHeld
<1> QED
  BY <1>3, <1>5

\* A maker that leaves.
LEMMA PopMakerHeld ==
    ASSUME BookAssumption, Inv, Matching, PopMaker
    PROVE  /\ \A x, w : Held(book', x, w) => Held(book, x, w)
           /\ DOMAIN index' = DOMAIN index \ {Maker.id}
<1> DEFINE s == Opposite(taker.side)
           p == Best(s)
           q == book[s][p]
<1>1. /\ s \in Sides /\ p \in Prices /\ 1 \in DOMAIN q
      /\ q \in Seq(Order) /\ q # <<>>
  BY MakerFacts
<1>2. book' = SetQueue(s, p, Tail(q)) /\ DOMAIN index' = DOMAIN index \ {Maker.id}
  BY DEF PopMaker, Forget
<1>3. BookTypes
  BY DEF Inv, TypeOK
<1>4. ASSUME NEW i \in DOMAIN Tail(q) PROVE \E j \in DOMAIN q : Tail(q)[i] = q[j]
  <2> HIDE DEF q
  <2>1. Tail(q) \in Seq(Order) /\ Len(q) \in Nat \ {0} /\ Len(Tail(q)) = Len(q) - 1
        /\ \A j \in 1 .. Len(q) - 1 : Tail(q)[j] = q[j + 1]
    BY <1>1, TailFacts
  <2>2. i \in 1 .. Len(q) - 1 /\ DOMAIN q = 1 .. Len(q)
    BY <1>1, <1>4, <2>1, LenProperties
  <2>3. i + 1 \in DOMAIN q
    BY <2>1, <2>2
  <2> QED
    BY <2>1, <2>2, <2>3
<1>5. ASSUME NEW x, NEW w, Held(book', x, w) PROVE Held(book, x, w)
  <2> DEFINE bk == book'
             r == Tail(q)
  <2>1. bk = SetQueue(s, p, r) /\ Held(bk, x, w)
    BY <1>2, <1>5
  <2>2. \A i \in DOMAIN r : \E j \in DOMAIN q : r[i] = q[j]
    BY <1>4
  <2> HIDE DEF bk, r, s, p
  <2>3. Held(book, x, w) \/ \E i \in DOMAIN r : r[i].id = x /\ r[i].owner = w
    BY <1>1, <1>3, <2>1, OneQueueHeld
  <2> QED
    BY <1>1, <2>2, <2>3 DEF Held
<1> QED
  BY <1>2, <1>5

\* A maker that stays.
LEMMA SetMakerQtyHeld ==
    ASSUME BookAssumption, Inv, Matching, NEW n, SetMakerQty(n)
    PROVE  /\ \A x, w : Held(book', x, w) => Held(book, x, w)
           /\ index' = index
<1> DEFINE s == Opposite(taker.side)
           p == Best(s)
<1>1. s \in Sides /\ p \in Prices /\ 1 \in DOMAIN book[s][p]
  BY MakerFacts
<1>2. BookTypes
  BY DEF Inv, TypeOK
<1>3. book' = SetQueue(s, p, [book[s][p] EXCEPT ![1].qty = n]) /\ index' = index
  BY <1>1, <1>2 DEF SetMakerQty, SetQueue, BookTypes
<1> HIDE DEF s, p
<1>4. ASSUME NEW x, NEW w, Held(book', x, w) PROVE Held(book, x, w)
  <2> DEFINE bk == book'
  <2>1. bk = SetQueue(s, p, [book[s][p] EXCEPT ![1].qty = n]) /\ Held(bk, x, w)
    BY <1>3, <1>4
  <2> HIDE DEF bk
  <2> QED
    BY <1>1, <1>2, <2>1, AmendHeld
<1> QED
  BY <1>3, <1>4

\* An order that an event names.
Named(evs, x) == \E k \in DOMAIN evs : x = evs[k].id \/ x = evs[k].maker

SweepEffect ==
    /\ pc = "sweep"
    /\ \A x, w : Held(book', x, w) => Held(book, x, w) \/ (x = taker.id /\ w = taker.owner)
    /\ \A x \in DOMAIN index : x \in DOMAIN index' \/ Named(events', x)
    /\ pc' = "idle" \/ (pc' = "sweep" /\ taker'.id = taker.id /\ taker'.owner = taker.owner)

\* match_side and the end of a handler: the order being matched may enter the
\* book, and an order that leaves it is named in an event.
LEMMA SweepHeld ==
    ASSUME BookAssumption, Inv, Match \/ FinishMatch
    PROVE  SweepEffect
<1>1. CASE MatchStop
  <2>1. pc = "sweep" /\ book' = book /\ index' = index /\ pc' = pc
        /\ taker' = [taker EXCEPT !.stop = TRUE]
    BY <1>1 DEF MatchStop, Matching
  <2>2. taker \in Takers
    BY <2>1 DEF Inv, TypeOK, TakerTypes
  <2> QED
    BY <2>1, <2>2 DEF SweepEffect, Takers
<1>2. CASE MatchDecrementMaker
  <2>1. Matching /\ SetMakerQty(Maker.qty - taker.qty) /\ pc' = pc
        /\ taker' = [taker EXCEPT !.stop = TRUE]
    BY <1>2 DEF MatchDecrementMaker
  <2>2. taker \in Takers /\ pc = "sweep"
    BY <2>1, MakerFacts DEF Matching
  <2>3. (\A x, w : Held(book', x, w) => Held(book, x, w)) /\ index' = index
    BY <2>1, SetMakerQtyHeld
  <2> QED
    BY <2>1, <2>2, <2>3 DEF SweepEffect, Takers
<1>3. CASE MatchCancelMaker
  <2>1. Matching /\ PopMaker /\ pc' = pc
    BY <1>3 DEF MatchCancelMaker
  <2>2. taker \in Takers /\ pc = "sweep"
    BY <2>1, MakerFacts DEF Matching
  <2>3. (\A x, w : Held(book', x, w) => Held(book, x, w)) /\ DOMAIN index' = DOMAIN index \ {Maker.id}
    BY <2>1, PopMakerHeld
  <2>4. taker'.id = taker.id /\ taker'.owner = taker.owner
    <3>1. taker' = taker \/ taker' = [taker EXCEPT !.stop = TRUE]
          \/ taker' = [taker EXCEPT !.qty = taker.qty - Maker.qty]
      BY <1>3 DEF MatchCancelMaker
    <3> QED
      BY <2>2, <3>1 DEF Takers
  <2>5. Named(events', Maker.id)
    <3> DEFINE gone == Canceled(Maker.id, Opposite(taker.side), Best(Opposite(taker.side)),
                                Maker.qty, "SelfTrade")
               less == StpDecrement(taker.id, taker.side, taker.limit, taker.qty - Maker.qty)
    <3>1. events' = <<gone>> \/ events' = <<gone, less>>
      BY <1>3 DEF MatchCancelMaker
    <3>2. gone.id = Maker.id
      BY DEF Canceled, Event
    <3> HIDE DEF gone, less
    <3>3. 1 \in DOMAIN events' /\ events'[1] = gone
      BY <3>1
    <3> QED
      BY <3>2, <3>3 DEF Named
  <2> QED
    BY <2>1, <2>2, <2>3, <2>4, <2>5 DEF SweepEffect
<1>4. CASE MatchTrade
  <2> DEFINE fill == IF Maker.qty < taker.qty THEN Maker.qty ELSE taker.qty
  <2>1. /\ Matching /\ pc' = pc /\ taker' = [taker EXCEPT !.qty = @ - fill]
        /\ IF Maker.qty - fill = 0 THEN PopMaker ELSE SetMakerQty(Maker.qty - fill)
        /\ events' = <<Trade(taker.id, Maker.id, taker.side, Best(Opposite(taker.side)),
                             fill, Maker.qty - fill)>>
    BY <1>4 DEF MatchTrade
  <2>2. taker \in Takers /\ pc = "sweep"
    BY <2>1, MakerFacts DEF Matching
  <2> HIDE DEF fill
  <2>3. /\ \A x, w : Held(book', x, w) => Held(book, x, w)
        /\ \A x \in DOMAIN index : x \in DOMAIN index' \/ x = Maker.id
    <3>1. CASE Maker.qty - fill = 0
      BY <2>1, <3>1, PopMakerHeld
    <3>2. CASE Maker.qty - fill # 0
      BY <2>1, <3>2, SetMakerQtyHeld
    <3> QED
      BY <3>1, <3>2
  <2>4. Named(events', Maker.id)
    <3> DEFINE e == Trade(taker.id, Maker.id, taker.side, Best(Opposite(taker.side)),
                          fill, Maker.qty - fill)
    <3>1. e.maker = Maker.id
      BY DEF Trade
    <3> HIDE DEF e
    <3>2. 1 \in DOMAIN events' /\ events'[1] = e
      BY <2>1 DEF e
    <3> QED
      BY <3>1, <3>2 DEF Named
  <2>5. taker'.id = taker.id /\ taker'.owner = taker.owner
    BY <2>1, <2>2 DEF Takers
  <2> QED
    BY <2>1, <2>2, <2>3, <2>4, <2>5 DEF SweepEffect
<1>5. CASE FinishFilled \/ FinishStopped \/ FinishExpired \/ FinishFull
  <2>1. book' = book /\ index' = index /\ pc = "sweep" /\ pc' = "idle"
    BY <1>5 DEF FinishFilled, FinishStopped, FinishExpired, FinishFull, Drop, Finish
  <2> QED
    BY <2>1 DEF SweepEffect
<1>6. CASE FinishRest
  <2> DEFINE o == [id |-> taker.id, qty |-> taker.qty, owner |-> taker.owner]
  <2>1. pc = "sweep" /\ taker \in Takers /\ taker.qty > 0 /\ BookTypes /\ pc' = "idle"
    BY <1>6 DEF FinishRest, Finish, Remainder, Inv, TypeOK, TakerTypes
  <2>2. o \in Order /\ o.id = taker.id /\ o.owner = taker.owner
        /\ taker.side \in Sides /\ taker.limit \in Prices
    BY <2>1 DEF Takers, Order
  <2>3. /\ book' = SetQueue(taker.side, taker.limit, Append(book[taker.side][taker.limit], o))
        /\ DOMAIN index' = DOMAIN index \cup {taker.id}
    BY <1>6, <2>1, <2>2 DEF FinishRest, SetQueue, BookTypes
  <2> HIDE DEF o
  <2>4. ASSUME NEW x, NEW w, Held(book', x, w)
        PROVE  Held(book, x, w) \/ (x = taker.id /\ w = taker.owner)
    <3> DEFINE bk == book'
               s == taker.side
               p == taker.limit
    <3>1. bk = SetQueue(s, p, Append(book[s][p], o)) /\ Held(bk, x, w)
          /\ s \in Sides /\ p \in Prices
      BY <2>2, <2>3, <2>4
    <3> HIDE DEF bk, s, p
    <3> QED
      BY <2>1, <2>2, <3>1, AppendHeld
  <2> QED
    BY <2>1, <2>3, <2>4 DEF SweepEffect
<1> QED
  BY <1>1, <1>2, <1>3, <1>4, <1>5, <1>6 DEF Match, FinishMatch

\* What a command for order x of owner w does.
CommandEffect(x, w) ==
    /\ Inv'
    /\ \A y, v : Held(book', y, v) => Held(book, y, v)
    /\ DOMAIN index \subseteq DOMAIN index' \cup {x}
    /\ \/ pc' = "idle"
       \/ /\ pc' = "sweep" /\ taker'.id = x
          /\ (x \notin DOMAIN index /\ taker'.owner = w) \/ Held(book, x, taker'.owner)

\* A rejection, or an order that is killed, changes nothing.
LEMMA NoEffect ==
    ASSUME Inv, pc = "idle", BookStays, NEW x, NEW w
    PROVE  CommandEffect(x, w)
BY SameBookInv DEF BookStays, CommandEffect

\* The fields of a limit order.
LEMMA NewOrderFields ==
    ASSUME NEW x, NEW w, NEW side, NEW p, NEW n, NEW v
    PROVE  LET c == NewOrder(x, w, side, "Limit", p, n, v)
           IN  c.id = x /\ c.owner = w /\ c.qty = n /\ c.price = p /\ ~Market(c)
BY DEF NewOrder, Market

\* The commands of clients, with the gateway's id and owner.
LEMMA NewCommand ==
    ASSUME config \in Deployments, NEW w \in Owners, NEW m \in ClientNew(w), NEW x, NEW c,
           c = [m EXCEPT !.id = x, !.owner = w], x # NoId => x \in OrderIds
    PROVE  c.id = x /\ c.owner = w /\ (AddReason(c) = "None" => c \in AddCommand)
<1>1. PICK cid \in {NoId} \cup ClientIds, side \in Sides,
           p \in {MinPrice} \cup (MinPrice .. config.maxPrice), n \in 0 .. config.maxQty,
           v \in config.varieties :
         m = NewOrder(cid, w, side, "Limit", p, n, v)
  <2>1. config.maxQty \in Nat
    BY GatewayAssumption, BookAssumption
  <2>2. CASE \E cid \in ClientIds, side \in Sides, p \in MinPrice .. config.maxPrice,
                n \in 1 .. config.maxQty, v \in config.varieties :
                m = NewOrder(cid, w, side, "Limit", p, n, v)
    BY <2>1, <2>2
  <2>3. CASE \E cid \in {NoId} \cup ClientIds, n \in {0}, v \in config.varieties :
                m = NewOrder(cid, w, "Buy", "Limit", MinPrice, n, v)
    <3>1. PICK cid \in {NoId} \cup ClientIds, v \in config.varieties :
             m = NewOrder(cid, w, "Buy", "Limit", MinPrice, 0, v)
      BY <2>3
    <3>2. "Buy" \in Sides /\ MinPrice \in {MinPrice} \cup (MinPrice .. config.maxPrice)
          /\ 0 \in 0 .. config.maxQty
      BY <2>1 DEF Sides
    <3> QED
      BY <3>1, <3>2, Zenon
  <2> QED
    BY <2>2, <2>3 DEF ClientNew
<1>2. c = NewOrder(x, w, side, "Limit", p, n, v)
  BY <1>1 DEF NewOrder
<1>3. c.id = x /\ c.owner = w /\ c.qty = n /\ c.price = p /\ ~Market(c)
  <2> DEFINE d == NewOrder(x, w, side, "Limit", p, n, v)
  <2>1. d.id = x /\ d.owner = w /\ d.qty = n /\ d.price = p /\ ~Market(d)
    BY NewOrderFields
  <2> HIDE DEF d
  <2>2. c = d
    BY <1>2 DEF d
  <2> QED
    BY <2>1, <2>2, Zenon
<1>4. ASSUME AddReason(c) = "None" PROVE c \in AddCommand
  <2>1. x # NoId /\ n # 0 /\ p \in Prices
    BY <1>3, <1>4 DEF AddReason
  <2>2. v \in Varieties /\ n \in 1 .. MaxQty
    BY <2>1, GatewayAssumption, BookAssumption
  <2> QED
    BY <1>2, <2>1, <2>2 DEF AddCommand, LimitCommand
<1> QED
  BY <1>3, <1>4

\* add.
LEMMA AddHeld ==
    ASSUME Inv, NEW c, Add(c), AddReason(c) = "None" => c \in AddCommand
    PROVE  CommandEffect(c.id, c.owner)
<1>1. pc = "idle"
  BY DEF Add
<1>2. CASE BookStays
  BY <1>1, <1>2, NoEffect
<1>3. CASE ~BookStays
  <2>1. AddReason(c) = "None" /\ c \in AddCommand
    BY <1>3 DEF Add, Reject, BookStays
  <2>2. Inv'
    BY <2>1, NextInv, BookAssumption DEF Next
  <2>3. book' = book /\ index' = index /\ pc' = "sweep" /\ taker'.id = c.id /\ taker'.owner = c.owner
    BY <1>3, <2>1 DEF Add, Accept, BookStays
  <2>4. c.id \notin DOMAIN index
    BY <2>1, AcceptedCommand, BookAssumption
  <2> QED
    BY <2>2, <2>3, <2>4 DEF CommandEffect
<1> QED
  BY <1>2, <1>3

\* cancel.
LEMMA CancelHeld ==
    ASSUME Inv, NEW c \in CancelCommand, Cancel(c), NEW w
    PROVE  CommandEffect(c.id, w)
<1>1. pc = "idle"
  BY DEF Cancel
<1>2. CASE BookStays
  BY <1>1, <1>2, NoEffect
<1>3. CASE ~BookStays
  <2>1. c.id \in DOMAIN index /\ Remove(c.id) /\ pc' = pc
    BY <1>3 DEF Cancel, Reject, BookStays
  <2>2. Inv'
    BY NextInv, BookAssumption DEF Next
  <2>3. (\A x, v : Held(book', x, v) => Held(book, x, v)) /\ DOMAIN index' = DOMAIN index \ {c.id}
    BY <2>1, InvBookInv, RemoveHeld
  <2> QED
    BY <1>1, <2>1, <2>2, <2>3 DEF CommandEffect
<1> QED
  BY <1>2, <1>3

\* modify.
LEMMA ModifyHeld ==
    ASSUME Inv, NEW c, Modify(c), ModifyReason(c) = "None" => c \in ModifyCommand, NEW w
    PROVE  CommandEffect(c.id, w)
<1>1. pc = "idle"
  BY DEF Modify
<1>2. CASE BookStays
  BY <1>1, <1>2, NoEffect
<1>3. CASE ~BookStays
  <2> DEFINE loc == index[c.id]
             s == loc.side
             p == loc.price
             q == book[s][p]
             k == Position(q, c.id)
  <2>1. ModifyReason(c) = "None" /\ c \in ModifyCommand
        /\ (Amend(c, loc, q, k) \/ Reenter(c, loc, q, k))
    BY <1>3 DEF Modify, Reject, BookStays
  <2>2. c.id \in DOMAIN index
    BY <2>1 DEF ModifyReason
  <2>3. Inv'
    BY <2>1, NextInv, BookAssumption DEF Next
  <2>4. BookInv
    BY InvBookInv
  <2>5. s \in Sides /\ p \in Prices /\ k \in DOMAIN q /\ q[k].id = c.id
    BY <2>2, <2>4 DEF BookInv, BookTypes, Loc, IndexedIsQueued, Position
  <2>6. CASE Amend(c, loc, q, k)
    <3>1. book' = SetQueue(s, p, [q EXCEPT ![k].qty = c.qty]) /\ index' = index /\ pc' = pc
      BY <2>6 DEF Amend
    <3> HIDE DEF loc, s, p, k
    <3>2. ASSUME NEW x, NEW v, Held(book', x, v) PROVE Held(book, x, v)
      <4> DEFINE bk == book'
                 n == c.qty
      <4>1. bk = SetQueue(s, p, [book[s][p] EXCEPT ![k].qty = n]) /\ Held(bk, x, v)
        BY <3>1, <3>2
      <4>2. BookTypes
        BY <2>4 DEF BookInv
      <4> HIDE DEF bk, n
      <4> QED
        BY <2>5, <4>1, <4>2, AmendHeld
    <3> QED
      BY <1>1, <2>3, <3>1, <3>2 DEF CommandEffect
  <2>7. CASE Reenter(c, loc, q, k)
    <3>1. Remove(c.id) /\ pc' = "sweep" /\ taker'.id = c.id /\ taker'.owner = q[k].owner
      BY <2>7 DEF Reenter
    <3>2. (\A x, v : Held(book', x, v) => Held(book, x, v)) /\ DOMAIN index' = DOMAIN index \ {c.id}
      BY <2>2, <2>4, <3>1, RemoveHeld
    <3>3. Held(book, c.id, taker'.owner)
      <4> HIDE DEF loc, s, p, k
      <4> QED
        BY <2>5, <3>1 DEF Held
    <3> QED
      BY <2>3, <3>1, <3>2, <3>3 DEF CommandEffect
  <2> QED
    BY <2>1, <2>6, <2>7
<1> QED
  BY <1>2, <1>3

\* process: whatever the gate says.
LEMMA ProcessHeld ==
    ASSUME Inv, pc = "idle", config \in Deployments, NEW w \in Owners, NEW x \in OrderIds \cup {NoId},
           NEW kind, NEW m, NEW c,
           \/ kind = "New" /\ m \in ClientNew(w) /\ c = [m EXCEPT !.id = x, !.owner = w]
           \/ kind = "Modify" /\ m \in ClientModify /\ c = [m EXCEPT !.id = x]
           \/ kind = "Cancel" /\ m \in ClientCancel /\ c = [m EXCEPT !.id = x],
           Process(kind, c, w)
    PROVE  CommandEffect(x, w)
<1>1. CASE \E reason : Reject(c, reason)
  BY <1>1, NoEffect DEF Reject, BookStays
<1>2. CASE kind = "New" /\ Add(c)
  <2>1. c.id = x /\ c.owner = w /\ (AddReason(c) = "None" => c \in AddCommand)
    BY <1>2, NewCommand
  <2> QED
    BY <1>2, <2>1, AddHeld
<1>3. CASE kind = "Modify" /\ Modify(c)
  <2>1. m \in ClientModify /\ c = [m EXCEPT !.id = x]
    BY <1>3
  <2>2. c.id = x /\ c.side = "Buy" /\ c.price = m.price /\ c.qty = m.qty
        /\ m.qty \in 0 .. config.maxQty /\ c = [id |-> x, side |-> "Buy", price |-> m.price, qty |-> m.qty]
    BY <2>1 DEF ClientModify
  <2>3. ASSUME ModifyReason(c) = "None" PROVE c \in ModifyCommand
    <3>1. m.price \in InputPrices
      BY <2>2, <2>3, BookAssumption DEF ModifyReason, Prices, InputPrices
    <3>2. m.qty \in 0 .. MaxQty
      BY <2>2, GatewayAssumption, BookAssumption
    <3> QED
      BY <2>2, <3>1, <3>2 DEF ModifyCommand, InputIds
  <2> QED
    BY <1>3, <2>2, <2>3, ModifyHeld
<1>4. CASE kind = "Cancel" /\ Cancel(c)
  <2>1. m \in ClientCancel /\ c = [m EXCEPT !.id = x]
    BY <1>4
  <2>2. c.id = x /\ c \in CancelCommand
    BY <2>1 DEF ClientCancel, CancelCommand, InputIds
  <2> QED
    BY <1>4, <2>2, CancelHeld
<1> QED
  BY <1>1, <1>2, <1>3, <1>4 DEF Process

-----------------------------------------------------------------------------
(* The id map. *)

\* retire: the names of the ids in `gone' are forgotten, in both directions.
LEMMA RetireFacts ==
    ASSUME NEW map, MapOK(map), NEW gone
    PROVE  /\ MapOK(Retire(map, gone))
           /\ DOMAIN Retire(map, gone).rev = DOMAIN map.rev \ gone
           /\ \A x \in DOMAIN map.rev \ gone : Retire(map, gone).rev[x] = map.rev[x]
           /\ Retire(map, gone).next = map.next
<1> DEFINE known == gone \cap DOMAIN map.rev
           keys == {map.rev[x] : x \in known}
           F == Without(map.fwd, keys)
           R == Without(map.rev, known)
           new == Retire(map, gone)
<1>1. new = [fwd |-> F, rev |-> R, next |-> map.next]
  <2> DEFINE a == map.fwd
             b == map.rev
             n == map.next
  <2>1. map = [fwd |-> a, rev |-> b, next |-> n]
    BY DEF MapOK
  <2>2. new = [map EXCEPT !.fwd = F, !.rev = R]
    BY DEF Retire
  <2> HIDE DEF F, R, new, a, b, n
  <2>3. new = [fwd |-> F, rev |-> R, next |-> n]
    BY <2>1, <2>2
  <2> QED
    BY <2>3 DEF n
<1>2. new.fwd = F /\ new.rev = R /\ new.next = map.next
  BY <1>1
<1>3. DOMAIN R = DOMAIN map.rev \ gone /\ \A x \in DOMAIN map.rev \ gone : R[x] = map.rev[x]
  BY DEF Without
<1>4. DOMAIN F = DOMAIN map.fwd \ keys /\ \A k \in DOMAIN map.fwd \ keys : F[k] = map.fwd[k]
  BY DEF Without
<1> HIDE DEF F, R
<1>5. ASSUME NEW k \in DOMAIN F PROVE F[k] \in DOMAIN R /\ R[F[k]] = k
  <2>1. map.fwd[k] \in DOMAIN map.rev /\ map.rev[map.fwd[k]] = k /\ F[k] = map.fwd[k]
    BY <1>4 DEF MapOK
  <2>2. map.fwd[k] \notin gone
    BY <1>4, <2>1
  <2> QED
    BY <1>3, <2>1, <2>2
<1>6. ASSUME NEW x \in DOMAIN R
      PROVE  /\ R[x] \in DOMAIN F /\ F[R[x]] = x
             /\ \E w \in Owners, c \in ClientIds \ {NoId} : R[x] = Key(w, c)
             /\ x \in 1 .. map.next - 1
  <2>1. /\ map.rev[x] \in DOMAIN map.fwd /\ map.fwd[map.rev[x]] = x /\ R[x] = map.rev[x]
        /\ \E w \in Owners, c \in ClientIds \ {NoId} : map.rev[x] = Key(w, c)
        /\ x \in 1 .. map.next - 1
    BY <1>3 DEF MapOK
  <2>2. map.rev[x] \notin keys
    <3>1. ASSUME NEW y \in known, map.rev[y] = map.rev[x] PROVE FALSE
      <4>1. y = x
        BY <2>1, <3>1 DEF MapOK
      <4> QED
        BY <1>3, <4>1
    <3> QED
      BY <3>1
  <2> QED
    BY <1>4, <2>1, <2>2
<1>7. MapOK(new)
  <2>1. map.next \in Nat \ {0}
    BY DEF MapOK
  <2> HIDE DEF new
  <2> QED
    BY <1>1, <1>2, <1>5, <1>6, <2>1 DEF MapOK
<1> QED
  BY <1>2, <1>3, <1>7

\* What for_new and find answer for the client id of key k.
NameFacts(named, k) ==
    /\ MapOK(named.map)
    /\ DOMAIN ids.rev \subseteq DOMAIN named.map.rev
    /\ DOMAIN named.map.rev \subseteq DOMAIN ids.rev \cup {named.id}
    /\ \A x \in DOMAIN ids.rev : named.map.rev[x] = ids.rev[x]
    /\ named.id # NoId => named.id \in DOMAIN named.map.rev /\ named.map.rev[named.id] = k
    /\ named.id \in DOMAIN ids.rev \cup {NoId, ids.next}
    /\ named.id \in 0 .. named.map.next - 1
    /\ ids.next =< named.map.next

\* find, and for_new of a known name, change nothing.
LEMMA KnownName ==
    ASSUME MapOK(ids), NEW k \in DOMAIN ids.fwd
    PROVE  NameFacts([map |-> ids, id |-> ids.fwd[k]], k)
<1> DEFINE x == ids.fwd[k]
<1>1. x \in DOMAIN ids.rev /\ ids.rev[x] = k /\ x \in 1 .. ids.next - 1 /\ ids.next \in Nat
  BY DEF MapOK
<1> DEFINE named == [map |-> ids, id |-> x]
<1>2. named.map = ids /\ named.id = x
  OBVIOUS
<1>3. x \in 0 .. ids.next - 1 /\ ids.next =< ids.next
  BY <1>1
<1>4. NameFacts(named, k)
  <2> HIDE DEF named, x
  <2> QED
    BY <1>1, <1>2, <1>3 DEF NameFacts
<1> QED
  BY <1>4

\* No name is id 0, which the engine turns down.
LEMMA NoName ==
    ASSUME MapOK(ids), NEW k
    PROVE  NameFacts([map |-> ids, id |-> NoId], k)
BY GatewayAssumption DEF NameFacts, MapOK

\* for_new of a new name.
LEMMA NewName ==
    ASSUME MapOK(ids), NEW w \in Owners, NEW c \in ClientIds \ {NoId},
           Key(w, c) \notin DOMAIN ids.fwd
    PROVE  NameFacts(ForNewAlways(Key(w, c)), Key(w, c))
<1> DEFINE k == Key(w, c)
           n == ids.next
           F == With(ids.fwd, k, n)
           R == With(ids.rev, n, k)
           map == [fwd |-> F, rev |-> R, next |-> n + 1]
<1>1. n \in Nat \ {0} /\ n \notin DOMAIN ids.rev
  BY DEF MapOK
<1>2. /\ DOMAIN F = DOMAIN ids.fwd \cup {k} /\ F[k] = n
      /\ \A y \in DOMAIN ids.fwd : y # k => F[y] = ids.fwd[y]
  BY DEF With
<1>3. /\ DOMAIN R = DOMAIN ids.rev \cup {n} /\ R[n] = k
      /\ \A y \in DOMAIN ids.rev : y # n => R[y] = ids.rev[y]
  BY DEF With
<1>4. map.fwd = F /\ map.rev = R /\ map.next = n + 1
  OBVIOUS
<1>5. ForNewAlways(k) = [map |-> map, id |-> n]
  BY DEF ForNewAlways
<1> HIDE DEF F, R
<1>6. ASSUME NEW y \in DOMAIN F PROVE F[y] \in DOMAIN R /\ R[F[y]] = y
  <2>1. CASE y = k
    BY <1>2, <1>3, <2>1
  <2>2. CASE y # k
    <3>1. F[y] = ids.fwd[y] /\ ids.fwd[y] \in DOMAIN ids.rev /\ ids.rev[ids.fwd[y]] = y
      BY <1>2, <2>2 DEF MapOK
    <3> QED
      BY <1>1, <1>3, <3>1
  <2> QED
    BY <2>1, <2>2
<1>7. ASSUME NEW x \in DOMAIN R
      PROVE  /\ R[x] \in DOMAIN F /\ F[R[x]] = x
             /\ \E v \in Owners, d \in ClientIds \ {NoId} : R[x] = Key(v, d)
             /\ x \in 1 .. n
  <2>1. CASE x = n
    BY <1>1, <1>2, <1>3, <2>1
  <2>2. CASE x # n
    <3>1. /\ R[x] = ids.rev[x] /\ ids.rev[x] \in DOMAIN ids.fwd /\ ids.fwd[ids.rev[x]] = x
          /\ \E v \in Owners, d \in ClientIds \ {NoId} : ids.rev[x] = Key(v, d)
          /\ x \in 1 .. n - 1
      BY <1>3, <2>2 DEF MapOK
    <3>2. R[x] # k
      BY <3>1
    <3> QED
      BY <1>1, <1>2, <3>1, <3>2
  <2> QED
    BY <2>1, <2>2
<1>8. MapOK(map)
  <2>1. n + 1 \in Nat \ {0} /\ \A x : x \in 1 .. n => x \in 1 .. (n + 1) - 1
    BY <1>1
  <2>2. map = [fwd |-> F, rev |-> R, next |-> n + 1]
    OBVIOUS
  <2> HIDE DEF map, n, k
  <2> QED
    BY <1>4, <1>6, <1>7, <2>1, <2>2 DEF MapOK
<1>9. n \in 0 .. (n + 1) - 1 /\ n =< n + 1
  BY <1>1
<1> DEFINE named == [map |-> map, id |-> n]
<1>10. named.map = map /\ named.id = n
  OBVIOUS
<1>11. NameFacts(named, k)
  <2> HIDE DEF map, named, k
  <2> QED
    BY <1>1, <1>3, <1>4, <1>8, <1>9, <1>10 DEF NameFacts
<1> QED
  BY <1>5, <1>11

\* for_new and find, for a session's key.
LEMMA Naming ==
    ASSUME MapOK(ids), NEW w \in Owners, NEW c \in {NoId} \cup ClientIds, NEW named,
           named = ForNew(Key(w, c)) \/ named = Find(Key(w, c))
    PROVE  NameFacts(named, Key(w, c))
<1> DEFINE k == Key(w, c)
<1>0. k.cid = c
  BY DEF Key
<1>1. \/ named = [map |-> ids, id |-> NoId]
      \/ k \in DOMAIN ids.fwd /\ named = [map |-> ids, id |-> ids.fwd[k]]
      \/ c # NoId /\ k \notin DOMAIN ids.fwd /\ named = ForNewAlways(k)
  BY <1>0 DEF ForNew, Find, ForNewAlways
<1> HIDE DEF k
<1>2. CASE named = [map |-> ids, id |-> NoId]
  BY <1>2, NoName DEF k
<1>3. CASE k \in DOMAIN ids.fwd /\ named = [map |-> ids, id |-> ids.fwd[k]]
  BY <1>3, KnownName DEF k
<1>4. CASE c # NoId /\ k \notin DOMAIN ids.fwd /\ named = ForNewAlways(k)
  BY <1>4, NewName DEF k
<1> QED
  BY <1>1, <1>2, <1>3, <1>4

-----------------------------------------------------------------------------
(* The steps of the gateway. *)

\* OrdersKnown of the next state, in terms of what is held there.
LEMMA HeldOrdersKnown ==
    ASSUME \A x, w : Held(book', x, w) => Identity(ids, x, w)' /\ Seen(logged', x, w)
    PROVE  OrdersKnown'
<1> SUFFICES ASSUME NEW s \in Sides, NEW p \in Prices, NEW i \in DOMAIN book'[s][p]
             PROVE  /\ Identity(ids, book[s][p][i].id, book[s][p][i].owner)'
                    /\ Seen(logged, book[s][p][i].id, book[s][p][i].owner)'
  BY DEF OrdersKnown
<1>1. PICK x, w : x = book'[s][p][i].id /\ w = book'[s][p][i].owner
  OBVIOUS
<1>2. Held(book', x, w)
  BY <1>1 DEF Held
<1>3. Identity(ids, x, w)' /\ Seen(logged', x, w)
  BY <1>2
<1> QED
  BY <1>1, <1>3 DEF Identity, Seen

\* What is held in the next state is in the index there.
LEMMA HeldIsIndexed ==
    ASSUME Inv', NEW x, NEW w, Held(book', x, w)
    PROVE  x \in DOMAIN index'
<1>1. PICK s \in Sides, p \in Prices : \E i \in DOMAIN book'[s][p] : book'[s][p][i].id = x
  BY DEF Held
<1>2. QueuedIsIndexed'
  BY DEF Inv, IndexAgrees
<1>3. PICK i \in DOMAIN book'[s][p] : book'[s][p][i].id = x
  BY <1>1
<1>4. book'[s][p][i].id \in DOMAIN index'
  BY <1>2, Zenon DEF QueuedIsIndexed
<1> QED
  BY <1>3, <1>4

\* What the rest of a step has to provide for the sink's part of it, with the map
\* as it was named for the command c.
SinkReady(map, c) ==
    /\ c = [fd |-> c.fd, cid |-> c.cid, id |-> c.id, mentioned |-> c.mentioned]
    /\ c.fd \in DOMAIN conns
    /\ \A x, w : Held(book', x, w) => Identity(map, x, w) /\ Seen(logged', x, w)
    /\ \/ pc' = "idle"
       \/ /\ pc' = "sweep" /\ taker'.id = c.id /\ taker'.owner = conns[c.fd]
          /\ c.id \in DOMAIN map.rev
          /\ Identity(map, c.id, conns[c.fd]) /\ Seen(logged', c.id, conns[c.fd])
    /\ \A x \in DOMAIN map.rev :
          x \in DOMAIN index' \/ x = c.id \/ x \in c.mentioned \/ Named(events', x)

LogReady(map) ==
    /\ logged' = [owner |-> logged'.owner, id |-> logged'.id, restarts |-> logged'.restarts]
    /\ logged'.owner \in Nat /\ logged'.id \in Nat
    /\ logged'.owner < nextOwner
    /\ logged'.id < map.next

\* The sessions stay.
LEMMA SameSessions ==
    ASSUME SessionsInv, UNCHANGED sessionVars
    PROVE  SessionsInv'
BY DEF SessionsInv, sessionVars

\* The sink, and the release of ids at the end of the command.
LEMMA SinkStep ==
    ASSUME Inv', SessionsInv, UNCHANGED sessionVars, NEW map, MapOK(map), NEW c,
           SinkReady(map, c), LogReady(map), Sink(map, c)
    PROVE  IdsInv'
<1> DEFINE seen == c.mentioned \cup Mentioned(c, events')
           d == [c EXCEPT !.mentioned = @ \cup Mentioned(c, events')]
<1>1. d = [fd |-> c.fd, cid |-> c.cid, id |-> c.id, mentioned |-> seen]
  <2> DEFINE f == c.fd
             g == c.cid
             x == c.id
             a == c.mentioned
             m == Mentioned(c, events')
  <2>1. c = [fd |-> f, cid |-> g, id |-> x, mentioned |-> a]
    BY DEF SinkReady
  <2>2. d = [c EXCEPT !.mentioned = @ \cup m]
    OBVIOUS
  <2> HIDE DEF f, g, x, a, m, d
  <2>3. d = [fd |-> f, cid |-> g, id |-> x, mentioned |-> a \cup m]
    BY <2>1, <2>2
  <2> QED
    BY <2>3 DEF f, g, x, a, m
<1>2. d.fd = c.fd /\ d.cid = c.cid /\ d.id = c.id /\ d.mentioned = seen
  BY <1>1
<1>3. ownerFd' = ownerFd /\ conns' = conns /\ nextOwner' = nextOwner
  BY DEF sessionVars
<1>4. \A x \in DOMAIN map.rev : x \in DOMAIN index' \/ x = c.id \/ x \in seen
  <2> SUFFICES ASSUME NEW x \in DOMAIN map.rev, Named(events', x), x # c.id
               PROVE  x \in seen
    BY DEF SinkReady
  <2>1. x # NoId
    BY GatewayAssumption DEF MapOK
  <2>2. PICK k \in DOMAIN events' : x \in {events'[k].id, events'[k].maker}
    BY DEF Named
  <2> DEFINE es == Elements(events')
             pairs == {{e.id, e.maker} : e \in es}
             pair == {events'[k].id, events'[k].maker}
  <2>3. events'[k] \in es
    BY DEF Elements
  <2>4. pair \in pairs
    BY <2>3
  <2>5. Mentioned(c, events') = (UNION pairs) \ {c.id, NoId}
    BY DEF Mentioned
  <2> HIDE DEF es, pairs, pair
  <2>6. x \in UNION pairs
    BY <2>2, <2>4 DEF pair
  <2>7. x \in Mentioned(c, events')
    BY <2>1, <2>5, <2>6
  <2> QED
    BY <2>7, Zenon
<1>5. SessionsInv'
  BY SameSessions
<1> DEFINE gone == Released(d)
<1>6. \/ pc' = "idle" /\ ids' = Retire(map, gone)
      \/ pc' # "idle" /\ cur' = d /\ ids' = map
  BY DEF Sink
<1>7. \A x : x \in gone <=> x \in seen \cup {c.id} /\ x # NoId /\ x \notin DOMAIN index'
  BY <1>2 DEF Released
<1> HIDE DEF seen, d, gone
<1>8. CASE pc' = "idle" /\ ids' = Retire(map, gone)
  <2> DEFINE new == Retire(map, gone)
  <2>1. /\ MapOK(new) /\ DOMAIN new.rev = DOMAIN map.rev \ gone
        /\ \A x \in DOMAIN map.rev \ gone : new.rev[x] = map.rev[x]
        /\ new.next = map.next
    BY RetireFacts
  <2>2. ids' = new
    BY <1>8
  <2> HIDE DEF new
  <2>3. MapOK(ids')
    BY <2>1, <2>2
  <2>4. LogInv'
    BY <1>3, <2>1, <2>2 DEF LogReady, LogInv
  <2>5. OrdersKnown'
    <3>1. ASSUME NEW x, NEW w, Held(book', x, w)
          PROVE  Identity(ids, x, w)' /\ Seen(logged', x, w)
      <4>1. Identity(map, x, w) /\ Seen(logged', x, w) /\ x \notin gone
        BY <1>7, <3>1, HeldIsIndexed DEF SinkReady
      <4> QED
        BY <1>3, <2>1, <2>2, <4>1 DEF Identity
    <3> QED
      BY <3>1, HeldOrdersKnown
  <2>6. TakerKnown'
    BY <1>8 DEF TakerKnown
  <2>7. NamesCovered'
    <3>1. ASSUME NEW x \in DOMAIN new.rev PROVE x \in DOMAIN index'
      <4>1. x \in DOMAIN map.rev /\ x \notin gone
        BY <2>1
      <4>2. x # NoId
        BY <4>1, GatewayAssumption DEF MapOK
      <4> QED
        BY <1>4, <1>7, <4>1, <4>2
    <3> QED
      BY <2>2, <3>1 DEF NamesCovered
  <2>8. MapOK(ids)'
    BY <2>3 DEF MapOK
  <2> QED
    BY <1>5, <2>4, <2>5, <2>6, <2>7, <2>8 DEF IdsInv
<1>9. CASE pc' # "idle" /\ cur' = d /\ ids' = map
  <2>1. MapOK(ids)'
    BY <1>9 DEF MapOK
  <2>2. LogInv'
    BY <1>3, <1>9 DEF LogReady, LogInv
  <2>3. OrdersKnown'
    <3>1. ASSUME NEW x, NEW w, Held(book', x, w)
          PROVE  Identity(ids, x, w)' /\ Seen(logged', x, w)
      <4>1. Identity(map, x, w) /\ Seen(logged', x, w)
        BY <3>1 DEF SinkReady
      <4> QED
        BY <1>3, <1>9, <4>1 DEF Identity
    <3> QED
      BY <3>1, HeldOrdersKnown
  <2>4. /\ pc' = "sweep" /\ taker'.id = c.id /\ taker'.owner = conns[c.fd]
        /\ c.fd \in DOMAIN conns /\ c.id \in DOMAIN map.rev
        /\ Identity(map, c.id, conns[c.fd]) /\ Seen(logged', c.id, conns[c.fd])
    BY <1>9 DEF SinkReady
  <2>5. TakerKnown'
    <3>1. cur' = [fd |-> cur'.fd, cid |-> cur'.cid, id |-> cur'.id, mentioned |-> cur'.mentioned]
      BY <1>1, <1>2, <1>9
    <3>2. cur'.fd = c.fd /\ cur'.id = c.id
      BY <1>2, <1>9
    <3>3. (Identity(ids, taker.id, taker.owner) /\ Seen(logged, taker.id, taker.owner))'
      BY <1>3, <1>9, <2>4 DEF Identity, Seen
    <3> QED
      BY <1>3, <1>9, <2>4, <3>1, <3>2, <3>3 DEF TakerKnown
  <2>6. NamesCovered'
    BY <1>2, <1>4, <1>9, <2>4 DEF NamesCovered
  <2> QED
    BY <1>5, <2>1, <2>2, <2>3, <2>5, <2>6 DEF IdsInv
<1> QED
  BY <1>6, <1>8, <1>9

\* A command of a connection.
LEMMA HandleStep ==
    ASSUME Inv, IdsInv, NEW fd \in DOMAIN conns, NEW kind, NEW m,
           \/ kind = "New" /\ m \in ClientNew(conns[fd])
           \/ kind = "Modify" /\ m \in ClientModify
           \/ kind = "Cancel" /\ m \in ClientCancel,
           Handle(fd, kind, m)
    PROVE  Inv' /\ IdsInv'
<1> DEFINE w == conns[fd]
           named == IF kind = "New" THEN ForNew(Key(w, m.id)) ELSE Find(Key(w, m.id))
           map == named.map
           x == named.id
           c == IF kind = "New" THEN [m EXCEPT !.id = x, !.owner = w] ELSE [m EXCEPT !.id = x]
           a == [fd |-> fd, cid |-> m.id, id |-> x, mentioned |-> {}]
           cid == m.id
<1>1. /\ pc = "idle" /\ map.next =< config.maxId + 1
      /\ logged' = [logged EXCEPT !.owner = Larger(@, w), !.id = Larger(@, x)]
      /\ Process(kind, c, w) /\ Sink(map, a) /\ UNCHANGED sessionVars
  BY DEF Handle
<1>2. SessionsInv /\ MapOK(ids) /\ LogInv /\ OrdersKnown /\ NamesCovered
  BY DEF IdsInv
<1>3. w \in Owners /\ w \in 1 .. nextOwner - 1 /\ config \in Deployments /\ nextOwner \in Nat
  BY <1>2 DEF SessionsInv
<1>4. cid \in {NoId} \cup ClientIds
  <2>1. CASE kind = "New" /\ m \in ClientNew(w)
    <3>1. PICK y, side, p, n, v : /\ y \in {NoId} \cup ClientIds
                                  /\ m = NewOrder(y, w, side, "Limit", p, n, v)
      BY <2>1 DEF ClientNew
    <3>2. NewOrder(y, w, side, "Limit", p, n, v).id = y
      BY NewOrderFields
    <3> QED
      BY <3>1, <3>2
  <2>2. CASE m \in ClientModify \/ m \in ClientCancel
    BY <2>2 DEF ClientModify, ClientCancel
  <2> QED
    BY <2>1, <2>2
<1>5. NameFacts(named, Key(w, cid))
  <2>1. named = ForNew(Key(w, cid)) \/ named = Find(Key(w, cid))
    OBVIOUS
  <2> HIDE DEF named, w, cid
  <2> QED
    BY <1>2, <1>3, <1>4, <2>1, Naming
<1>6. /\ MapOK(map) /\ DOMAIN ids.rev \subseteq DOMAIN map.rev
      /\ DOMAIN map.rev \subseteq DOMAIN ids.rev \cup {x}
      /\ \A y \in DOMAIN ids.rev : map.rev[y] = ids.rev[y]
      /\ x # NoId => x \in DOMAIN map.rev /\ map.rev[x].owner = w
      /\ x \in DOMAIN ids.rev \cup {NoId, ids.next}
      /\ x \in 0 .. map.next - 1 /\ ids.next =< map.next
  <2>1. Key(w, cid).owner = w
    BY DEF Key
  <2> HIDE DEF named, w, cid
  <2> QED
    BY <1>5, <2>1 DEF NameFacts
<1>7. a.fd = fd /\ a.id = x /\ a.mentioned = {}
      /\ a = [fd |-> a.fd, cid |-> a.cid, id |-> a.id, mentioned |-> a.mentioned]
  OBVIOUS
<1>8. \/ kind = "New" /\ m \in ClientNew(w) /\ c = [m EXCEPT !.id = x, !.owner = w]
      \/ kind = "Modify" /\ m \in ClientModify /\ c = [m EXCEPT !.id = x]
      \/ kind = "Cancel" /\ m \in ClientCancel /\ c = [m EXCEPT !.id = x]
  OBVIOUS
<1>9. ownerFd[w] = fd /\ conns[fd] = w
  BY <1>2 DEF SessionsInv
<1> HIDE DEF w, named, map, x, c, a, cid
<1>10. x \in OrderIds \cup {NoId} /\ map.next \in Nat /\ x \in Nat /\ ids.next \in Nat
       /\ logged.id \in Nat /\ logged.owner \in Nat /\ w \in Nat
  <2>1. map.next \in Nat /\ ids.next \in Nat /\ logged.id \in Nat /\ logged.owner \in Nat
    BY <1>2, <1>6 DEF MapOK, LogInv
  <2>2. config.maxId \in Nat /\ 1 .. config.maxId \subseteq OrderIds /\ NoId = 0
    BY <1>3, GatewayAssumption
  <2>3. x \in Nat /\ (x = 0 \/ x \in 1 .. config.maxId)
    BY <1>1, <1>6, <2>1, <2>2
  <2> QED
    BY <1>3, <2>1, <2>2, <2>3
<1>11. CommandEffect(x, w)
  BY <1>1, <1>3, <1>8, <1>10, ProcessHeld
<1>12. Inv'
  BY <1>11 DEF CommandEffect
<1>13. /\ logged' = [owner |-> logged'.owner, id |-> logged'.id, restarts |-> logged'.restarts]
       /\ logged'.owner = Larger(logged.owner, w) /\ logged'.id = Larger(logged.id, x)
  <2> DEFINE o == logged.owner
             i == logged.id
             r == logged.restarts
  <2>1. logged = [owner |-> o, id |-> i, restarts |-> r]
    BY <1>2 DEF LogInv
  <2> HIDE DEF o, i, r
  <2>2. logged' = [owner |-> Larger(o, w), id |-> Larger(i, x), restarts |-> r]
    BY <1>1, <2>1
  <2> QED
    BY <2>2 DEF o, i
<1>14. /\ logged'.owner \in Nat /\ logged'.id \in Nat
       /\ logged.owner =< logged'.owner /\ logged.id =< logged'.id
       /\ w =< logged'.owner /\ x =< logged'.id
       /\ logged'.owner < nextOwner /\ logged'.id < map.next
  <2>1. logged.owner < nextOwner /\ logged.id < ids.next
    BY <1>2 DEF LogInv
  <2>2. w < nextOwner /\ x < map.next /\ ids.next =< map.next
    BY <1>3, <1>6, <1>10
  <2> DEFINE o == logged.owner
             i == logged.id
             o1 == logged'.owner
             i1 == logged'.id
             n == ids.next
             n1 == map.next
  <2>3. o1 = Larger(o, w) /\ i1 = Larger(i, x) /\ o \in Nat /\ i \in Nat /\ n \in Nat /\ n1 \in Nat
        /\ o < nextOwner /\ i < n /\ x < n1 /\ n =< n1
    BY <1>10, <1>13, <2>1, <2>2
  <2> HIDE DEF o, i, o1, i1, n, n1
  <2>4. /\ o1 \in Nat /\ i1 \in Nat /\ o =< o1 /\ i =< i1 /\ w =< o1 /\ x =< i1
        /\ o1 < nextOwner /\ i1 < n1
    BY <1>3, <1>10, <2>2, <2>3 DEF Larger
  <2> QED
    BY <2>4 DEF o, i, o1, i1, n, n1
<1>15. LogReady(map)
  BY <1>13, <1>14 DEF LogReady
<1>16. ASSUME NEW y, NEW v, Held(book, y, v)
       PROVE  /\ Identity(map, y, v) /\ Seen(logged', y, v)
              /\ y \in DOMAIN map.rev => y \in DOMAIN ids.rev
  <2>1. Identity(ids, y, v) /\ y =< logged.id /\ v =< logged.owner
    BY <1>2, <1>16, OrdersKnownHeld DEF Seen
  <2>2. y \in Nat /\ v \in Nat
    <3>1. y \in OrderIds /\ v \in Owners
      <4>1. PICK s \in Sides, p \in Prices : \E i \in DOMAIN book[s][p] :
               book[s][p][i].id = y /\ book[s][p][i].owner = v
        BY <1>16 DEF Held
      <4>2. book[s][p] \in Seq(Order)
        BY DEF Inv, TypeOK, BookTypes
      <4>3. PICK i \in DOMAIN book[s][p] : book[s][p][i].id = y /\ book[s][p][i].owner = v
        BY <4>1
      <4>4. book[s][p][i] \in Order
        BY <4>2
      <4> QED
        BY <4>3, <4>4 DEF Order
    <3> QED
      BY <3>1, GatewayAssumption
  <2>3. Seen(logged', y, v)
    <3> DEFINE o == logged.owner
               i == logged.id
               o1 == logged'.owner
               i1 == logged'.id
    <3>1. y =< i /\ v =< o /\ o =< o1 /\ i =< i1 /\ o \in Nat /\ i \in Nat /\ o1 \in Nat /\ i1 \in Nat
      BY <1>10, <1>14, <2>1
    <3> HIDE DEF o, i, o1, i1
    <3>2. y =< i1 /\ v =< o1
      BY <2>2, <3>1
    <3> QED
      BY <3>2 DEF Seen, i1, o1
  <2>4. ASSUME y \in DOMAIN map.rev PROVE y \in DOMAIN ids.rev
    <3>1. y # ids.next
      BY <1>2, <1>10, <2>1, <2>2 DEF LogInv
    <3>2. y # NoId
      BY <1>6, <2>4, GatewayAssumption DEF MapOK
    <3> QED
      BY <1>6, <2>4, <3>1, <3>2
  <2>5. Identity(map, y, v)
    BY <1>6, <2>1, <2>4 DEF Identity
  <2> QED
    BY <2>3, <2>4, <2>5
<1>17. pc' = "idle" \/ (/\ pc' = "sweep" /\ taker'.id = x /\ taker'.owner = w
                        /\ x \in DOMAIN map.rev /\ Identity(map, x, w) /\ Seen(logged', x, w))
  <2> SUFFICES ASSUME pc' # "idle"
               PROVE  /\ pc' = "sweep" /\ taker'.id = x /\ taker'.owner = w
                      /\ x \in DOMAIN map.rev /\ Identity(map, x, w) /\ Seen(logged', x, w)
    OBVIOUS
  <2>1. /\ pc' = "sweep" /\ taker'.id = x
        /\ (x \notin DOMAIN index /\ taker'.owner = w) \/ Held(book, x, taker'.owner)
    BY <1>11 DEF CommandEffect
  <2>2. x # NoId
    <3>1. taker' \in Takers
      BY <1>12, <2>1 DEF Inv, TypeOK, TakerTypes
    <3> QED
      BY <2>1, <3>1, BookAssumption DEF Takers
  <2>3. x \in DOMAIN map.rev /\ map.rev[x].owner = w
    BY <1>6, <2>2
  <2>4. taker'.owner = w
    <3>1. ASSUME NEW v, Held(book, x, v) PROVE v = w
      <4>1. Identity(map, x, v)
        BY <1>16, <3>1
      <4> QED
        BY <2>3, <4>1 DEF Identity
    <3> QED
      BY <2>1, <3>1
  <2>5. Identity(map, x, w) /\ Seen(logged', x, w)
    BY <1>14, <2>3 DEF Identity, Seen
  <2> QED
    BY <2>1, <2>3, <2>4, <2>5
<1>18. ASSUME NEW y \in DOMAIN map.rev PROVE y \in DOMAIN index' \/ y = x
  BY <1>1, <1>2, <1>6, <1>11 DEF CommandEffect, NamesCovered
<1>19. SinkReady(map, a)
  <2>1. \A y, v : Held(book', y, v) => Identity(map, y, v) /\ Seen(logged', y, v)
    BY <1>11, <1>16 DEF CommandEffect
  <2> QED
    BY <1>7, <1>9, <1>17, <1>18, <2>1 DEF SinkReady
<1> QED
  BY <1>1, <1>2, <1>6, <1>12, <1>15, <1>19, SinkStep

\* The command under way goes on.
LEMMA ContinueStep ==
    ASSUME Inv, IdsInv, Continue
    PROVE  Inv' /\ IdsInv'
<1>1. (Match \/ FinishMatch) /\ Sink(ids, cur) /\ UNCHANGED sessionVars /\ logged' = logged
  BY DEF Continue, Proceed
<1>2. Inv'
  BY <1>1, NextInv, BookAssumption DEF Next
<1>3. SweepEffect
  BY <1>1, SweepHeld, BookAssumption
<1>4. SessionsInv /\ MapOK(ids) /\ LogInv /\ OrdersKnown /\ TakerKnown /\ NamesCovered
  BY DEF IdsInv
<1>5. /\ cur = [fd |-> cur.fd, cid |-> cur.cid, id |-> cur.id, mentioned |-> cur.mentioned]
      /\ cur.fd \in DOMAIN conns /\ conns[cur.fd] = taker.owner /\ cur.id = taker.id
      /\ taker.id \in DOMAIN ids.rev
      /\ Identity(ids, taker.id, taker.owner) /\ Seen(logged, taker.id, taker.owner)
  BY <1>3, <1>4 DEF SweepEffect, TakerKnown
<1>6. \A x, w : Held(book', x, w) => Identity(ids, x, w) /\ Seen(logged', x, w)
  BY <1>1, <1>3, <1>4, <1>5, OrdersKnownHeld DEF SweepEffect
<1>7. \A x \in DOMAIN ids.rev :
         x \in DOMAIN index' \/ x = cur.id \/ x \in cur.mentioned \/ Named(events', x)
  BY <1>3, <1>4 DEF SweepEffect, NamesCovered
<1>8. SinkReady(ids, cur)
  BY <1>1, <1>3, <1>5, <1>6, <1>7 DEF SinkReady, SweepEffect
<1>9. LogReady(ids)
  BY <1>1, <1>4 DEF LogReady, LogInv
<1> DEFINE map == ids
           c == cur
<1>10. MapOK(map) /\ SinkReady(map, c) /\ LogReady(map) /\ Sink(map, c)
  BY <1>1, <1>4, <1>8, <1>9
<1> HIDE DEF map, c
<1> QED
  BY <1>1, <1>2, <1>4, <1>10, SinkStep

\* accept: the owner is new to the book, so the connection has no orders yet.
LEMMA AcceptStep ==
    ASSUME Inv, IdsInv, NEW fd \in Fds, AcceptConn(fd)
    PROVE  Inv' /\ IdsInv'
<1> DEFINE w == nextOwner
<1>1. /\ pc = "idle" /\ fd \notin DOMAIN conns /\ w \in Owners
      /\ conns' = With(conns, fd, w) /\ ownerFd' = With(ownerFd, w, fd) /\ nextOwner' = w + 1
      /\ UNCHANGED <<bookVars, config, ids, logged>>
  BY DEF AcceptConn
<1>2. SessionsInv /\ MapOK(ids) /\ LogInv /\ OrdersKnown /\ NamesCovered
  BY DEF IdsInv
<1>3. BookStays /\ pc' = "idle" /\ ids' = ids /\ logged' = logged /\ config' = config
      /\ book' = book /\ index' = index
  BY <1>1 DEF bookVars, BookStays
<1>4. Inv'
  BY <1>3, SameBookInv
<1>5. w \in Nat /\ w # 0
  <2>1. w \in Nat /\ logged.owner \in Nat /\ logged.owner < w
    BY <1>2 DEF SessionsInv, LogInv
  <2> QED
    BY <2>1
<1>6. /\ DOMAIN conns' = DOMAIN conns \cup {fd} /\ conns'[fd] = w
      /\ \A g \in DOMAIN conns : conns'[g] = conns[g]
      /\ conns' = [g \in DOMAIN conns' |-> conns'[g]]
  BY <1>1 DEF With
<1>7. /\ DOMAIN ownerFd' = DOMAIN ownerFd \cup {w} /\ ownerFd'[w] = fd
      /\ \A v \in DOMAIN ownerFd : v # w => ownerFd'[v] = ownerFd[v]
  BY <1>1 DEF With
<1>8. \A g \in DOMAIN conns : /\ conns[g] \in Owners /\ conns[g] \in 1 .. w - 1
                              /\ conns[g] \in DOMAIN ownerFd /\ ownerFd[conns[g]] = g
  BY <1>2 DEF SessionsInv
<1> HIDE DEF w
<1>9. SessionsInv'
  <2>1. DOMAIN ownerFd' = {conns'[g] : g \in DOMAIN conns'}
    <3>1. DOMAIN ownerFd = {conns[g] : g \in DOMAIN conns}
      BY <1>2 DEF SessionsInv
    <3> QED
      BY <1>6, <1>7, <3>1
  <2>2. ASSUME NEW g \in DOMAIN conns'
        PROVE  conns'[g] \in Owners /\ conns'[g] \in 1 .. (w + 1) - 1 /\ ownerFd'[conns'[g]] = g
    <3>1. CASE g = fd
      BY <1>1, <1>5, <1>6, <1>7, <3>1
    <3>2. CASE g # fd
      <4>1. conns'[g] = conns[g] /\ conns[g] \in Owners /\ conns[g] \in 1 .. w - 1
            /\ conns[g] \in DOMAIN ownerFd /\ ownerFd[conns[g]] = g
        BY <1>6, <1>8, <3>2
      <4>2. conns[g] # w /\ conns[g] \in 1 .. (w + 1) - 1
        BY <1>5, <4>1
      <4> QED
        BY <1>7, <4>1, <4>2
    <3> QED
      BY <3>1, <3>2
  <2>3. config \in Deployments /\ DOMAIN conns \subseteq Fds
    BY <1>2 DEF SessionsInv
  <2>4. nextOwner' \in Nat /\ nextOwner' = w + 1
    BY <1>1, <1>5
  <2> QED
    BY <1>3, <1>6, <2>1, <2>2, <2>3, <2>4 DEF SessionsInv
<1>10. LogInv'
  <2>1. nextOwner' = nextOwner + 1 /\ nextOwner \in Nat
    BY <1>1, <1>5 DEF w
  <2> QED
    BY <1>2, <1>3, <2>1 DEF LogInv
<1>11. OrdersKnown'
  <2>1. ASSUME NEW x, NEW v, Held(book', x, v)
        PROVE  Identity(ids, x, v)' /\ Seen(logged', x, v)
    <3>1. Identity(ids, x, v) /\ Seen(logged, x, v)
      BY <1>2, <1>3, <2>1, OrdersKnownHeld
    <3>2. v # w
      <4>1. logged.owner \in Nat /\ logged.owner < w
        BY <1>2 DEF LogInv, w
      <4> QED
        BY <1>5, <3>1, <4>1 DEF Seen
    <3> QED
      BY <1>3, <1>7, <3>1, <3>2 DEF Identity
  <2> QED
    BY <2>1, HeldOrdersKnown
<1>12. MapOK(ids)' /\ TakerKnown' /\ NamesCovered'
  <2>1. MapOK(ids)'
    BY <1>2, <1>3 DEF MapOK
  <2>2. TakerKnown'
    BY <1>3 DEF TakerKnown
  <2>3. NamesCovered'
    BY <1>1, <1>2, <1>3 DEF NamesCovered
  <2> QED
    BY <2>1, <2>2, <2>3
<1> QED
  BY <1>4, <1>9, <1>10, <1>11, <1>12 DEF IdsInv

\* close_conn: the orders of the session stay, under names nobody asks for.
LEMMA CloseStep ==
    ASSUME Inv, IdsInv, NEW fd \in DOMAIN conns, CloseConn(fd)
    PROVE  Inv' /\ IdsInv'
<1> DEFINE w == conns[fd]
<1>1. /\ pc = "idle"
      /\ conns' = Without(conns, {fd}) /\ ownerFd' = Without(ownerFd, {w})
      /\ UNCHANGED <<bookVars, config, nextOwner, ids, logged>>
  BY DEF CloseConn
<1>2. SessionsInv /\ MapOK(ids) /\ LogInv /\ OrdersKnown /\ NamesCovered
  BY DEF IdsInv
<1>3. BookStays /\ pc' = "idle" /\ ids' = ids /\ logged' = logged /\ config' = config
      /\ book' = book /\ index' = index /\ nextOwner' = nextOwner
  BY <1>1 DEF bookVars, BookStays
<1>4. Inv'
  BY <1>3, SameBookInv
<1>5. /\ DOMAIN conns' = DOMAIN conns \ {fd}
      /\ \A g \in DOMAIN conns' : conns'[g] = conns[g]
      /\ conns' = [g \in DOMAIN conns' |-> conns'[g]]
  BY <1>1 DEF Without
<1>6. DOMAIN ownerFd' = DOMAIN ownerFd \ {w} /\ \A v \in DOMAIN ownerFd' : ownerFd'[v] = ownerFd[v]
  BY <1>1 DEF Without
<1>7. \A g \in DOMAIN conns : /\ conns[g] \in Owners /\ conns[g] \in 1 .. nextOwner - 1
                              /\ conns[g] \in DOMAIN ownerFd /\ ownerFd[conns[g]] = g
  BY <1>2 DEF SessionsInv
<1>8. \A g \in DOMAIN conns' : conns[g] # w
  BY <1>5, <1>7
<1>9. SessionsInv'
  <2>1. DOMAIN ownerFd = {conns[g] : g \in DOMAIN conns} /\ config \in Deployments
        /\ DOMAIN conns \subseteq Fds /\ nextOwner \in Nat
    BY <1>2 DEF SessionsInv
  <2>2. DOMAIN ownerFd' = {conns'[g] : g \in DOMAIN conns'}
    BY <1>5, <1>6, <1>8, <2>1
  <2>3. ASSUME NEW g \in DOMAIN conns'
        PROVE  conns'[g] \in Owners /\ conns'[g] \in 1 .. nextOwner - 1 /\ ownerFd'[conns'[g]] = g
    BY <1>5, <1>6, <1>7, <1>8
  <2> QED
    BY <1>3, <1>5, <2>1, <2>2, <2>3 DEF SessionsInv
<1>10. LogInv'
  BY <1>2, <1>3 DEF LogInv
<1>11. OrdersKnown'
  <2>1. ASSUME NEW x, NEW v, Held(book', x, v)
        PROVE  Identity(ids, x, v)' /\ Seen(logged', x, v)
    <3>1. Identity(ids, x, v) /\ Seen(logged, x, v)
      BY <1>2, <1>3, <2>1, OrdersKnownHeld
    <3> QED
      BY <1>3, <1>6, <3>1 DEF Identity
  <2> QED
    BY <2>1, HeldOrdersKnown
<1>12. MapOK(ids)'
  BY <1>2, <1>3 DEF MapOK
<1>13. TakerKnown' /\ NamesCovered'
  BY <1>1, <1>2, <1>3 DEF TakerKnown, NamesCovered
<1> QED
  BY <1>4, <1>9, <1>10, <1>11, <1>12, <1>13 DEF IdsInv

\* A restart: every name is gone, and the journal says which ids and owners are
\* not to be used again.
LEMMA RestartStep ==
    ASSUME Inv, IdsInv, Restart
    PROVE  Inv' /\ IdsInv'
<1>1. /\ pc = "idle" /\ conns' = Empty /\ ownerFd' = Empty
      /\ logged' = [logged EXCEPT !.restarts = @ + 1]
      /\ ids' = [fwd |-> Empty, rev |-> Empty, next |-> logged.id + 1]
      /\ nextOwner' = logged.owner + 1
      /\ UNCHANGED <<bookVars, config>>
  BY DEF Restart
<1>2. SessionsInv /\ LogInv /\ OrdersKnown
  BY DEF IdsInv
<1>3. BookStays /\ pc' = "idle" /\ config' = config /\ book' = book /\ index' = index
  BY <1>1 DEF bookVars, BookStays
<1>4. Inv'
  BY <1>3, SameBookInv
<1>5. DOMAIN Empty = {} /\ Empty = [x \in {} |-> Empty[x]]
  BY DEF Empty
<1>6. /\ logged'.owner = logged.owner /\ logged'.id = logged.id
      /\ logged' = [owner |-> logged'.owner, id |-> logged'.id, restarts |-> logged'.restarts]
      /\ logged.owner \in Nat /\ logged.id \in Nat
  <2> DEFINE o == logged.owner
             i == logged.id
             r == logged.restarts
  <2>1. logged = [owner |-> o, id |-> i, restarts |-> r] /\ o \in Nat /\ i \in Nat
    BY <1>2 DEF LogInv
  <2> HIDE DEF o, i, r
  <2>2. logged' = [owner |-> o, id |-> i, restarts |-> r + 1]
    BY <1>1, <2>1
  <2> QED
    BY <2>1, <2>2 DEF o, i
<1>7. ids'.fwd = Empty /\ ids'.rev = Empty /\ ids'.next = logged.id + 1
      /\ ids' = [fwd |-> ids'.fwd, rev |-> ids'.rev, next |-> ids'.next]
  BY <1>1
<1> HIDE DEF Empty
<1>8. SessionsInv'
  <2>1. config \in Deployments /\ nextOwner' \in Nat
    BY <1>1, <1>2, <1>6 DEF SessionsInv
  <2> QED
    BY <1>1, <1>3, <1>5, <2>1 DEF SessionsInv
<1>9. MapOK(ids)'
  <2>1. ids'.next \in Nat \ {0}
    BY <1>6, <1>7
  <2> QED
    BY <1>5, <1>7, <2>1 DEF MapOK
<1>10. LogInv'
  <2>1. logged.owner < logged.owner + 1 /\ logged.id < logged.id + 1
    BY <1>6
  <2> QED
    BY <1>1, <1>6, <1>7, <2>1 DEF LogInv
<1>11. OrdersKnown'
  <2>1. ASSUME NEW x, NEW v, Held(book', x, v)
        PROVE  Identity(ids, x, v)' /\ Seen(logged', x, v)
    <3>1. Seen(logged, x, v)
      BY <1>2, <1>3, <2>1, OrdersKnownHeld
    <3> QED
      BY <1>1, <1>5, <1>6, <1>7, <3>1 DEF Identity, Seen
  <2> QED
    BY <2>1, HeldOrdersKnown
<1>12. TakerKnown' /\ NamesCovered'
  BY <1>3, <1>5, <1>7 DEF TakerKnown, NamesCovered
<1> QED
  BY <1>4, <1>8, <1>9, <1>10, <1>11, <1>12 DEF IdsInv

\* The invariant of the gateway: that of its book, of its sessions and of its names.
GatewayInv == Inv /\ IdsInv

\* It holds at the start.
LEMMA GatewayInitInv ==
    ASSUME GatewayInit
    PROVE  GatewayInv
<1>1. /\ config \in Deployments /\ Init /\ conns = Empty /\ ownerFd = Empty
      /\ ids = [fwd |-> Empty, rev |-> Empty, next |-> 1] /\ nextOwner = 1
      /\ logged = [owner |-> 0, id |-> 0, restarts |-> 0]
  BY DEF GatewayInit
<1>2. Inv /\ pc = "idle" /\ book = [s \in Sides |-> [p \in Prices |-> <<>>]]
  BY <1>1, InitInv, BookAssumption DEF Init
<1>3. DOMAIN Empty = {} /\ Empty = [x \in {} |-> Empty[x]]
  BY DEF Empty
<1> HIDE DEF Empty
<1>4. SessionsInv
  BY <1>1, <1>3 DEF SessionsInv
<1>5. MapOK(ids)
  BY <1>1, <1>3 DEF MapOK
<1>6. LogInv
  BY <1>1 DEF LogInv
<1>7. OrdersKnown
  BY <1>2, EmptySeq DEF OrdersKnown
<1>8. TakerKnown /\ NamesCovered
  BY <1>1, <1>2, <1>3 DEF TakerKnown, NamesCovered
<1> QED
  BY <1>2, <1>4, <1>5, <1>6, <1>7, <1>8 DEF GatewayInv, IdsInv

\* Every step of the gateway keeps it.
LEMMA GatewayStepInv ==
    ASSUME GatewayInv, [GatewayNext]_allVars
    PROVE  GatewayInv'
<1>1. Inv /\ IdsInv
  BY DEF GatewayInv
<1>2. CASE UNCHANGED <<bookVars, sessionVars, ids, cur, logged>>
  <2>1. BookStays /\ book' = book /\ index' = index /\ taker' = taker /\ pc' = pc
        /\ ids' = ids /\ cur' = cur /\ logged' = logged /\ UNCHANGED sessionVars
        /\ ownerFd' = ownerFd /\ conns' = conns /\ nextOwner' = nextOwner
    BY <1>2 DEF bookVars, BookStays, sessionVars
  <2>2. Inv' /\ SessionsInv'
    BY <1>1, <2>1, SameBookInv, SameSessions DEF IdsInv
  <2>3. MapOK(ids)' /\ LogInv' /\ NamesCovered'
    BY <1>1, <2>1 DEF IdsInv, MapOK, LogInv, NamesCovered
  <2>4. OrdersKnown'
    BY <1>1, <2>1 DEF IdsInv, OrdersKnown, Identity, Seen
  <2>5. TakerKnown'
    BY <1>1, <2>1 DEF IdsInv, TakerKnown, Identity, Seen
  <2> QED
    BY <2>2, <2>3, <2>4, <2>5 DEF GatewayInv, IdsInv
<1>3. ASSUME NEW fd \in DOMAIN conns, NEW c \in ClientNew(conns[fd]), Handle(fd, "New", c)
      PROVE  GatewayInv'
  BY <1>1, <1>3, HandleStep DEF GatewayInv
<1>4. ASSUME NEW fd \in DOMAIN conns, NEW c \in ClientModify, Handle(fd, "Modify", c)
      PROVE  GatewayInv'
  BY <1>1, <1>4, HandleStep DEF GatewayInv
<1>5. ASSUME NEW fd \in DOMAIN conns, NEW c \in ClientCancel, Handle(fd, "Cancel", c)
      PROVE  GatewayInv'
  BY <1>1, <1>5, HandleStep DEF GatewayInv
<1>6. ASSUME NEW fd \in DOMAIN conns, CloseConn(fd) PROVE GatewayInv'
  BY <1>1, <1>6, CloseStep DEF GatewayInv
<1>7. CASE Continue
  BY <1>1, <1>7, ContinueStep DEF GatewayInv
<1>8. ASSUME NEW fd \in Fds, AcceptConn(fd) PROVE GatewayInv'
  BY <1>1, <1>8, AcceptStep DEF GatewayInv
<1>9. CASE Restart
  BY <1>1, <1>9, RestartStep DEF GatewayInv
<1>10. CASE PassTime
  BY <1>2, <1>10 DEF PassTime
<1>11. CASE UNCHANGED allVars
  BY <1>2, <1>11 DEF allVars
<1> QED
  BY <1>3, <1>4, <1>5, <1>6, <1>7, <1>8, <1>9, <1>10, <1>11 DEF GatewayNext

\* client_ids.hpp:17-19 and 101, gateway.hpp:192-194, for any number of sessions,
\* orders, ids and restarts: between commands the names are exactly those of the
\* live orders, each with its own session, and no exchange id is given out twice.
THEOREM NamesFollowTheBook == GatewaySpec => []IdsFollowTheBook
<1>1. GatewayInv => IdsFollowTheBook
  <2> SUFFICES ASSUME GatewayInv PROVE IdsFollowTheBook
    OBVIOUS
  <2>1. BookInv /\ SessionsInv /\ MapOK(ids) /\ LogInv /\ OrdersKnown /\ NamesCovered
    BY InvBookInv DEF GatewayInv, IdsInv
  <2>2. SessionsOK
    <3>1. conns \in [DOMAIN conns -> Owners]
      BY <2>1 DEF SessionsInv
    <3> QED
      BY <2>1, <3>1 DEF SessionsOK, SessionsInv, MapOK
  <2>3. ASSUME NEW x \in DOMAIN index
        PROVE  /\ Identity(ids, x, OwnerInBook(x)) /\ x < ids.next
    <3>1. PICK w : w = OwnerInBook(x)
      OBVIOUS
    <3>2. Held(book, x, w)
      BY <2>1, <3>1, HeldFacts
    <3>3. Identity(ids, x, w) /\ x =< logged.id
      BY <2>1, <3>2, OrdersKnownHeld DEF Seen
    <3>4. x \in Nat /\ logged.id \in Nat /\ ids.next \in Nat /\ logged.id < ids.next
      BY <2>1, GatewayAssumption DEF BookInv, BookTypes, LogInv, MapOK
    <3> QED
      BY <3>1, <3>3, <3>4
  <2>4. ASSUME pc = "idle", NEW x \in DOMAIN ids.rev
        PROVE  x \in DOMAIN index /\ ids.rev[x].owner = OwnerInBook(x)
    BY <2>1, <2>3, <2>4 DEF NamesCovered, Identity
  <2>5. ASSUME NEW x \in DOMAIN index, OwnerInBook(x) \in DOMAIN ownerFd
        PROVE  x \in DOMAIN ids.rev
    BY <2>3, <2>5 DEF Identity
  <2> QED
    BY <2>2, <2>3, <2>4, <2>5 DEF IdsFollowTheBook
<1>2. GatewayInv /\ [GatewayNext]_allVars => GatewayInv'
  BY GatewayStepInv
<1> QED
  BY <1>1, <1>2, GatewayInitInv, PTL DEF GatewaySpec

-----------------------------------------------------------------------------
(* The reports of a trade. *)

\* Of the steps inside a match loop only an iteration that trades says so.
LEMMA TradeStep ==
    ASSUME Matching, GatewayNext, NEW k \in DOMAIN events', events'[k].type = "Trade"
    PROVE  /\ Sink(ids, cur) /\ k = 1
           /\ \E qty, left : events' = <<Trade(taker.id, Maker.id, taker.side,
                                               Best(Opposite(taker.side)), qty, left)>>
<1>1. pc = "sweep" /\ pc # "idle"
  BY DEF Matching
<1>2. Continue
  <2>1. \A fd, kind, c : ~Handle(fd, kind, c)
    BY <1>1 DEF Handle
  <2>2. \A fd : ~CloseConn(fd) /\ ~AcceptConn(fd)
    BY <1>1 DEF CloseConn, AcceptConn
  <2>3. ~Restart /\ ~PassTime
    BY <1>1 DEF Restart, PassTime, Tick
  <2> QED
    BY <2>1, <2>2, <2>3 DEF GatewayNext
<1>3. (Match \/ FinishMatch) /\ Sink(ids, cur)
  BY <1>2 DEF Continue, Proceed
<1>4. ~FinishMatch
  BY DEF FinishMatch, FinishFilled, FinishStopped, FinishExpired, FinishFull, FinishRest,
         Drop, Finish
<1>5. ~MatchStop
  BY DEF MatchStop
<1>6. ASSUME NEW id, NEW side, NEW px, NEW n, NEW reason
      PROVE  /\ Canceled(id, side, px, n, reason).type # "Trade"
             /\ StpDecrement(id, side, px, n).type # "Trade"
  BY DEF Canceled, StpDecrement, Event
<1>7. ~MatchDecrementMaker
  <2> SUFFICES ASSUME MatchDecrementMaker PROVE FALSE
    OBVIOUS
  <2>1. PICK e : events' = <<e>> /\ e.type # "Trade"
    BY <1>6 DEF MatchDecrementMaker
  <2> QED
    BY <2>1
<1>8. ~MatchCancelMaker
  <2> SUFFICES ASSUME MatchCancelMaker PROVE FALSE
    OBVIOUS
  <2>1. PICK e, f : (events' = <<e>> \/ events' = <<e, f>>) /\ e.type # "Trade" /\ f.type # "Trade"
    BY <1>6 DEF MatchCancelMaker
  <2> QED
    BY <2>1
<1>9. MatchTrade
  BY <1>3, <1>4, <1>5, <1>7, <1>8 DEF Match
<1>10. PICK qty, left : events' = <<Trade(taker.id, Maker.id, taker.side,
                                          Best(Opposite(taker.side)), qty, left)>>
  BY <1>9 DEF MatchTrade
<1>11. k = 1
  BY <1>10
<1> QED
  BY <1>3, <1>10, <1>11

\* What the id map says of the order at the front.
LEMMA MakerKnown ==
    ASSUME GatewayInv, Matching
    PROVE  /\ Identity(ids, Maker.id, Maker.owner) /\ Maker.id # NoId
           /\ cur.fd \in DOMAIN conns /\ conns[cur.fd] = taker.owner
           /\ taker.owner \in DOMAIN ownerFd
<1>1. Inv /\ SessionsInv /\ OrdersKnown /\ TakerKnown /\ pc = "sweep"
  BY DEF GatewayInv, IdsInv, Matching
<1> DEFINE s == Opposite(taker.side)
           p == Best(s)
<1>2. s \in Sides /\ p \in Prices /\ 1 \in DOMAIN book[s][p] /\ Maker = book[s][p][1]
      /\ Maker \in Order
  BY <1>1, MakerFacts, BookAssumption
<1> HIDE DEF s, p
<1>3. Identity(ids, Maker.id, Maker.owner)
  BY <1>1, <1>2 DEF OrdersKnown
<1>4. Maker.id # NoId
  BY <1>2, BookAssumption DEF Order
<1>5. cur.fd \in DOMAIN conns /\ conns[cur.fd] = taker.owner
  BY <1>1 DEF TakerKnown
<1> QED
  BY <1>1, <1>3, <1>4, <1>5 DEF SessionsInv

\* The name of an order is one of its owner's client ids.
LEMMA NameIsMine ==
    ASSUME MapOK(ids), NEW x \in DOMAIN ids.rev
    PROVE  /\ ids.rev[x].cid \in ClientIds
           /\ ids.rev[x] = Key(ids.rev[x].owner, ids.rev[x].cid)
           /\ ids.rev[x] \in DOMAIN ids.fwd /\ ids.fwd[ids.rev[x]] = x
<1>1. PICK w \in Owners, c \in ClientIds \ {NoId} : ids.rev[x] = Key(w, c)
  BY DEF MapOK
<1>2. Key(w, c).owner = w /\ Key(w, c).cid = c
  BY DEF Key
<1> QED
  BY <1>1, <1>2 DEF MapOK

\* The report to the maker, for an event e that is a trade with x of owner v.
LEMMA MakerReport ==
    ASSUME SessionsInv, MapOK(ids), NEW x, NEW v, Identity(ids, x, v),
           NEW w \in DOMAIN ownerFd, NEW e, e.type = "Trade", e.maker = x,
           NEW id, NEW side, NEW px, NEW qty, NEW left, e = Trade(id, x, side, px, qty, left)
    PROVE  LET reports == MakerReports(ids, w, e)
               mine == {c \in ClientIds : Key(v, c) \in DOMAIN ids.fwd /\ ids.fwd[Key(v, c)] = x}
           IN  /\ {r.fd : r \in reports} = {fd \in DOMAIN conns : conns[fd] = v /\ v # w}
               /\ \A r \in reports : r.event.maker \in mine
<1> DEFINE reports == MakerReports(ids, w, e)
           owner == OwnerOf(ids, x)
           report == [fd |-> ownerFd[owner],
                      event |-> [e EXCEPT !.id = NoId, !.maker = ToClient(ids, @, owner)]]
           mine == {c \in ClientIds : Key(v, c) \in DOMAIN ids.fwd /\ ids.fwd[Key(v, c)] = x}
<1>1. reports = IF owner # w /\ owner \in DOMAIN ownerFd THEN {report} ELSE {}
  BY DEF MakerReports
<1>2. report.fd = ownerFd[owner] /\ report.event.maker = ToClient(ids, x, owner)
  <2> DEFINE cid == ToClient(ids, x, owner)
  <2>1. [e EXCEPT !.id = NoId, !.maker = ToClient(ids, @, owner)] =
          [e EXCEPT !.id = NoId, !.maker = cid]
    BY DEF Trade
  <2> HIDE DEF cid
  <2>2. [e EXCEPT !.id = NoId, !.maker = cid].maker = cid
    BY DEF Trade
  <2> QED
    BY <2>1, <2>2 DEF cid
<1> HIDE DEF report
<1>3. 0 \notin DOMAIN ownerFd
  BY DEF SessionsInv
<1>4. ASSUME owner # w /\ owner \in DOMAIN ownerFd
      PROVE  /\ {r.fd : r \in reports} = {fd \in DOMAIN conns : conns[fd] = v /\ v # w}
             /\ \A r \in reports : r.event.maker \in mine
  <2>1. x \in DOMAIN ids.rev /\ owner = ids.rev[x].owner /\ owner = v
    BY <1>3, <1>4 DEF OwnerOf, Identity
  <2>2. ToClient(ids, x, owner) = ids.rev[x].cid
    BY <2>1 DEF ToClient
  <2>3. {fd \in DOMAIN conns : conns[fd] = v /\ v # w} = {ownerFd[v]}
    BY <1>4, <2>1 DEF SessionsInv
  <2>4. {r.fd : r \in reports} = {ownerFd[v]}
    <3>1. reports = {report} /\ report.fd = ownerFd[v]
      BY <1>1, <1>2, <1>4, <2>1
    <3> HIDE DEF reports
    <3> QED
      BY <3>1
  <2>5. \A r \in reports : r.event.maker = ids.rev[x].cid
    BY <1>1, <1>2, <1>4, <2>2
  <2>6. ids.rev[x].cid \in mine
    <3> DEFINE c == ids.rev[x].cid
    <3>1. c \in ClientIds /\ ids.rev[x] = Key(v, c)
          /\ ids.rev[x] \in DOMAIN ids.fwd /\ ids.fwd[ids.rev[x]] = x
      BY <2>1, NameIsMine
    <3>2. Key(v, c) \in DOMAIN ids.fwd /\ ids.fwd[Key(v, c)] = x
      BY <3>1
    <3> HIDE DEF c
    <3>3. c \in mine
      BY <3>1, <3>2
    <3> QED
      BY <3>3 DEF c
  <2> HIDE DEF reports, mine
  <2> QED
    BY <2>3, <2>4, <2>5, <2>6
<1>5. ASSUME ~(owner # w /\ owner \in DOMAIN ownerFd)
      PROVE  /\ {r.fd : r \in reports} = {fd \in DOMAIN conns : conns[fd] = v /\ v # w}
             /\ \A r \in reports : r.event.maker \in mine
  <2>1. reports = {}
    BY <1>1, <1>5
  <2>2. v \in DOMAIN ownerFd => v = owner
    BY DEF Identity, OwnerOf
  <2>3. {fd \in DOMAIN conns : conns[fd] = v /\ v # w} = {}
    BY <1>5, <2>2 DEF SessionsInv
  <2> HIDE DEF reports, mine
  <2>4. {r.fd : r \in reports} = {} /\ \A r \in reports : FALSE
    BY <2>1
  <2> QED
    BY <2>3, <2>4
<1> QED
  BY <1>4, <1>5

\* The maker's id in the reply to the taker.
LEMMA TakerReply ==
    ASSUME MapOK(ids), NEW x, x # NoId, NEW v, Identity(ids, x, v),
           NEW w \in DOMAIN ownerFd, NEW c, NEW e,
           NEW id, NEW side, NEW px, NEW qty, NEW left, e = Trade(id, x, side, px, qty, left)
    PROVE  LET mine == {d \in ClientIds : Key(v, d) \in DOMAIN ids.fwd /\ ids.fwd[Key(v, d)] = x}
           IN  Reply(ids, c, w, e).maker \in (IF v = w THEN mine ELSE {NoId})
<1> DEFINE a == IF id = c.id THEN c.cid ELSE ToClient(ids, id, w)
           m == ToClient(ids, x, w)
<1>1. Reply(ids, c, w, e) = [e EXCEPT !.id = a, !.maker = m]
  BY DEF Reply, Trade
<1>2. [e EXCEPT !.id = a, !.maker = m].maker = m
  <2> HIDE DEF a, m
  <2> QED
    BY DEF Trade
<1>3. CASE v = w
  <2>1. x \in DOMAIN ids.rev /\ ids.rev[x].owner = w
    BY <1>3 DEF Identity
  <2>2. m = ids.rev[x].cid
    BY <2>1 DEF ToClient
  <2> HIDE DEF m
  <2> QED
    BY <1>1, <1>2, <1>3, <2>1, <2>2, NameIsMine
<1>4. CASE v # w
  <2>1. m = NoId
    BY <1>4 DEF ToClient, Identity
  <2> HIDE DEF m
  <2> QED
    BY <1>1, <1>2, <1>4, <2>1
<1> QED
  BY <1>3, <1>4

\* The step that reports a trade reports it to the right parties.
LEMMA TradeReportedStep ==
    ASSUME GatewayInv, GatewayNext
    PROVE  TradeReported
<1> SUFFICES ASSUME Matching, NEW k \in DOMAIN events', events'[k].type = "Trade"
             PROVE  LET w == Maker.owner
                        mine == {c \in ClientIds : Key(w, c) \in DOMAIN ids.fwd
                                                   /\ ids.fwd[Key(w, c)] = Maker.id}
                        own == w = taker.owner
                        to == {fd \in DOMAIN conns : conns[fd] = w /\ ~own}
                    IN  /\ {r.fd : r \in told'.makers} = to
                        /\ \A r \in told'.makers : r.event.maker \in mine
                        /\ told'.replies[k].maker \in (IF own THEN mine ELSE {NoId})
  BY DEF TradeReported
<1>1. SessionsInv /\ MapOK(ids)
  BY DEF GatewayInv, IdsInv
<1> DEFINE x == Maker.id
           v == Maker.owner
           w == taker.owner
           mine == {c \in ClientIds : Key(v, c) \in DOMAIN ids.fwd /\ ids.fwd[Key(v, c)] = x}
<1>2. /\ Identity(ids, x, v) /\ x # NoId /\ w \in DOMAIN ownerFd
      /\ cur.fd \in DOMAIN conns /\ conns[cur.fd] = w
  BY MakerKnown
<1>3. Sink(ids, cur) /\ k = 1
      /\ \E qty, left : events' = <<Trade(taker.id, x, taker.side, Best(Opposite(taker.side)), qty, left)>>
  BY TradeStep
<1>4. PICK id, side, px, qty, left : events' = <<Trade(id, x, side, px, qty, left)>>
  BY <1>3
<1>5. PICK e : e = Trade(id, x, side, px, qty, left)
  OBVIOUS
<1>6. events' = <<e>> /\ e.type = "Trade" /\ e.maker = x
  BY <1>4, <1>5 DEF Trade
<1> HIDE DEF x, v, w, mine
<1>7. /\ told' = [replies |-> [j \in DOMAIN events' |-> Reply(ids, cur, w, events'[j])],
                  makers |-> UNION {MakerReports(ids, w, f) : f \in Elements(events')}]
  BY <1>2, <1>3 DEF Sink
<1>8. told'.replies[k] = Reply(ids, cur, w, e)
  <2>1. told'.replies = [j \in DOMAIN events' |-> Reply(ids, cur, w, events'[j])]
    BY <1>7
  <2>2. told'.replies[k] = Reply(ids, cur, w, events'[k])
    BY <2>1
  <2> QED
    BY <1>3, <1>6, <2>2
<1>9. told'.makers = MakerReports(ids, w, e)
  <2>1. Elements(events') = {e}
    BY <1>6 DEF Elements
  <2>2. told'.makers = UNION {MakerReports(ids, w, f) : f \in Elements(events')}
    BY <1>7
  <2>3. told'.makers = UNION {MakerReports(ids, w, f) : f \in {e}}
    BY <2>1, <2>2
  <2> QED
    BY <2>3
<1>10. /\ {r.fd : r \in MakerReports(ids, w, e)} = {fd \in DOMAIN conns : conns[fd] = v /\ v # w}
       /\ \A r \in MakerReports(ids, w, e) : r.event.maker \in mine
  BY <1>1, <1>2, <1>5, <1>6, MakerReport DEF mine
<1>11. Reply(ids, cur, w, e).maker \in (IF v = w THEN mine ELSE {NoId})
  BY <1>1, <1>2, <1>5, TakerReply DEF mine
<1> QED
  BY <1>8, <1>9, <1>10, <1>11 DEF x, v, w, mine

\* gateway.hpp:19 and client_ids.hpp:14, for any number of sessions and orders:
\* the maker's session is told of every trade of its orders, under its own id, and
\* nobody else learns that id.
THEOREM TradesReachTheirParties == GatewaySpec => TradesAreReported
<1>1. GatewayInv /\ [GatewayNext]_allVars => GatewayInv'
  BY GatewayStepInv
<1>2. GatewayInv /\ [GatewayNext]_allVars => [TradeReported]_allVars
  BY TradeReportedStep
<1> QED
  BY <1>1, <1>2, GatewayInitInv, PTL DEF GatewaySpec, TradesAreReported

-----------------------------------------------------------------------------
(***************************************************************************)
(* The client connection.                                                  *)
(***************************************************************************)

Strings == Seq(Cells)

-----------------------------------------------------------------------------
(* Sequences. *)

\* What is behind a position.
LEMMA BehindFacts ==
    ASSUME NEW s \in Strings, NEW off \in 0 .. Len(s)
    PROVE  /\ Behind(s, off) \in Strings
           /\ Len(Behind(s, off)) = Len(s) - off
           /\ \A i \in 1 .. Len(s) - off : Behind(s, off)[i] = s[off + i]
<1>1. Len(s) \in Nat /\ off \in Nat
  BY LenProperties DEF Strings
<1>2. \A i \in off + 1 .. Len(s) : s[i] \in Cells
  BY <1>1, ElementOfSeq DEF Strings
<1> DEFINE n == Len(s)
           b == SubSeq(s, off + 1, n)
<1>3. n \in Int /\ off + 1 \in Int
  BY <1>1
<1>4. n \in Nat /\ off \in 0 .. n
  BY <1>1
<1>5. /\ b \in Seq(Cells)
      /\ Len(b) = IF off + 1 <= n THEN n - (off + 1) + 1 ELSE 0
      /\ \A i \in 1 .. n - (off + 1) + 1 : b[i] = s[off + 1 + i - 1]
  <2>1. \A i \in off + 1 .. n : s[i] \in Cells
    BY <1>2
  <2> HIDE DEF n
  <2> QED
    BY <1>3, <2>1, SubSeqProperties
<1> HIDE DEF n, b
<1>6. Len(b) = n - off
  BY <1>4, <1>5
<1>7. \A i \in 1 .. n - off : b[i] = s[off + i]
  <2> TAKE i \in 1 .. n - off
  <2>1. i \in 1 .. n - (off + 1) + 1 /\ off + 1 + i - 1 = off + i
    BY <1>4
  <2> QED
    BY <1>5, <2>1
<1> QED
  BY <1>5, <1>6, <1>7 DEF Behind, n, b, Strings

\* A message at the front.
LEMMA FrontFacts ==
    ASSUME NEW s \in Strings, NEW a \in Nat, NEW b \in 0 .. Len(s), a =< b
    PROVE  /\ SubSeq(s, a + 1, b) \in Strings
           /\ Len(SubSeq(s, a + 1, b)) = b - a
           /\ \A i \in 1 .. b - a : SubSeq(s, a + 1, b)[i] = s[a + i]
<1>1. Len(s) \in Nat /\ b \in Nat
  BY LenProperties DEF Strings
<1>2. \A i \in a + 1 .. b : s[i] \in Cells
  BY <1>1, ElementOfSeq DEF Strings
<1> DEFINE t == SubSeq(s, a + 1, b)
<1>5. /\ t \in Seq(Cells)
      /\ Len(t) = IF a + 1 <= b THEN b - (a + 1) + 1 ELSE 0
      /\ \A i \in 1 .. b - (a + 1) + 1 : t[i] = s[a + 1 + i - 1]
  <2>1. b \in Int /\ a + 1 \in Int
    BY <1>1
  <2> QED
    BY <1>2, <2>1, SubSeqProperties
<1> HIDE DEF t
<1>6. Len(t) = b - a
  BY <1>1, <1>5
<1>7. \A i \in 1 .. b - a : t[i] = s[a + i]
  <2> TAKE i \in 1 .. b - a
  <2>1. i \in 1 .. b - (a + 1) + 1 /\ a + 1 + i - 1 = a + i
    BY <1>1
  <2> QED
    BY <1>5, <2>1
<1> QED
  BY <1>5, <1>6, <1>7 DEF t, Strings

\* Positions add up.
LEMMA BehindBehind ==
    ASSUME NEW s \in Strings, NEW a \in 0 .. Len(s), NEW b \in 0 .. Len(s) - a
    PROVE  Behind(Behind(s, a), b) = Behind(s, a + b)
<1>1. Len(s) \in Nat
  BY LenProperties DEF Strings
<1> DEFINE t == Behind(s, a)
           u == Behind(t, b)
           v == Behind(s, a + b)
           n == Len(s)
<1>2. n \in Nat /\ a \in 0 .. n /\ b \in 0 .. n - a /\ a + b \in 0 .. n
  BY <1>1
<1>3. t \in Strings /\ Len(t) = n - a /\ \A i \in 1 .. n - a : t[i] = s[a + i]
  BY BehindFacts
<1>4. v \in Strings /\ Len(v) = n - (a + b) /\ \A i \in 1 .. n - (a + b) : v[i] = s[a + b + i]
  BY <1>2, BehindFacts
<1>5. u \in Strings /\ Len(u) = n - a - b /\ \A i \in 1 .. n - a - b : u[i] = t[b + i]
  <2>1. t \in Strings /\ b \in 0 .. Len(t)
    BY <1>2, <1>3
  <2> HIDE DEF t
  <2> QED
    BY <1>3, <2>1, BehindFacts
<1> HIDE DEF t, u, v, n
<1>6. Len(u) = Len(v)
  BY <1>2, <1>4, <1>5
<1>7. \A i \in 1 .. Len(u) : u[i] = v[i]
  <2> TAKE i \in 1 .. Len(u)
  <2>1. i \in 1 .. n - a - b /\ i \in 1 .. n - (a + b) /\ b + i \in 1 .. n - a /\ a + (b + i) = a + b + i
    BY <1>2, <1>5
  <2> QED
    BY <1>3, <1>4, <1>5, <2>1
<1>8. u = v
  BY <1>4, <1>5, <1>6, <1>7, SeqEqual DEF Strings
<1> QED
  BY <1>8 DEF t, u, v

\* A message behind a position.
LEMMA FrontBehind ==
    ASSUME NEW s \in Strings, NEW a \in 0 .. Len(s), NEW o \in Nat, NEW b \in o .. Len(s) - a
    PROVE  SubSeq(Behind(s, a), o + 1, b) = SubSeq(s, a + o + 1, a + b)
<1>1. Len(s) \in Nat
  BY LenProperties DEF Strings
<1> DEFINE t == Behind(s, a)
           u == SubSeq(t, o + 1, b)
           v == SubSeq(s, a + o + 1, a + b)
           n == Len(s)
<1>2. n \in Nat /\ a \in 0 .. n /\ b \in 0 .. n - a /\ o =< b /\ a + b \in 0 .. n /\ a + o \in Nat
      /\ a + o =< a + b
  BY <1>1
<1>3. t \in Strings /\ Len(t) = n - a /\ \A i \in 1 .. n - a : t[i] = s[a + i]
  BY BehindFacts
<1>4. v \in Strings /\ Len(v) = a + b - (a + o) /\ \A i \in 1 .. a + b - (a + o) : v[i] = s[a + o + i]
  <2> DEFINE c == a + o
             d == a + b
  <2>1. c \in Nat /\ d \in 0 .. Len(s) /\ c =< d
    BY <1>2
  <2>2. v = SubSeq(s, c + 1, d)
    OBVIOUS
  <2> HIDE DEF c, d, v
  <2>3. v \in Strings /\ Len(v) = d - c /\ \A i \in 1 .. d - c : v[i] = s[c + i]
    BY <2>1, <2>2, FrontFacts
  <2> QED
    BY <2>3 DEF c, d
<1>5. u \in Strings /\ Len(u) = b - o /\ \A i \in 1 .. b - o : u[i] = t[o + i]
  <2>1. t \in Strings /\ b \in 0 .. Len(t)
    BY <1>2, <1>3
  <2> HIDE DEF t
  <2> QED
    BY <1>2, <2>1, FrontFacts
<1> HIDE DEF t, u, v, n
<1>6. Len(u) = Len(v)
  BY <1>2, <1>4, <1>5
<1>7. \A i \in 1 .. Len(u) : u[i] = v[i]
  <2> TAKE i \in 1 .. Len(u)
  <2>0. a \in Nat /\ o \in Nat /\ b \in Nat /\ n \in Nat /\ b =< n - a
    BY <1>2
  <2>2. i \in 1 .. b - o
    BY <1>5
  <2>3. i \in Nat /\ 1 =< i /\ i =< b - o
    BY <2>0, <2>2
  <2>4. i \in 1 .. a + b - (a + o)
    BY <2>0, <2>3
  <2>5. o + i \in 1 .. n - a
    BY <2>0, <2>3
  <2>1. i \in 1 .. b - o /\ i \in 1 .. a + b - (a + o) /\ o + i \in 1 .. n - a
        /\ a + (o + i) = a + o + i
    BY <2>0, <2>2, <2>3, <2>4, <2>5
  <2> QED
    BY <1>3, <1>4, <1>5, <2>1
<1>8. u = v
  BY <1>4, <1>5, <1>6, <1>7, SeqEqual DEF Strings
<1> QED
  BY <1>8 DEF t, u, v

\* More cells at the end stay there.
LEMMA BehindMore ==
    ASSUME NEW s \in Strings, NEW u \in Strings, NEW a \in 0 .. Len(s)
    PROVE  Behind(s \o u, a) = Behind(s, a) \o u
<1>1. Len(s) \in Nat /\ Len(u) \in Nat
  BY LenProperties DEF Strings
<1> DEFINE w == s \o u
           x == Behind(w, a)
           t == Behind(s, a)
           y == t \o u
           n == Len(s)
           m == Len(u)
<1>2. n \in Nat /\ m \in Nat /\ a \in 0 .. n
  BY <1>1
<1>3. w \in Strings /\ Len(w) = n + m
      /\ \A i \in 1 .. n + m : w[i] = IF i <= n THEN s[i] ELSE u[i - n]
  BY ConcatProperties DEF Strings
<1>4. t \in Strings /\ Len(t) = n - a /\ \A i \in 1 .. n - a : t[i] = s[a + i]
  BY BehindFacts
<1>5. y \in Strings /\ Len(y) = (n - a) + m
      /\ \A i \in 1 .. (n - a) + m : y[i] = IF i <= n - a THEN t[i] ELSE u[i - (n - a)]
  <2> HIDE DEF t
  <2>1. y \in Strings /\ Len(y) = Len(t) + m
        /\ \A i \in 1 .. Len(t) + m : y[i] = IF i <= Len(t) THEN t[i] ELSE u[i - Len(t)]
    BY <1>4, ConcatProperties DEF Strings
  <2> HIDE DEF y, m
  <2> QED
    BY <1>4, <2>1
<1>6. x \in Strings /\ Len(x) = n + m - a /\ \A i \in 1 .. n + m - a : x[i] = w[a + i]
  <2>1. a \in 0 .. Len(w)
    BY <1>2, <1>3
  <2> HIDE DEF w
  <2>2. x \in Strings /\ Len(x) = Len(w) - a /\ \A i \in 1 .. Len(w) - a : x[i] = w[a + i]
    BY <1>3, <2>1, BehindFacts
  <2>3. Len(w) = n + m
    BY <1>3
  <2> HIDE DEF x, n, m
  <2> QED
    BY <1>2, <2>2, <2>3
<1> HIDE DEF w, x, t, y, n, m
<1>7. Len(x) = Len(y)
  BY <1>2, <1>5, <1>6
<1>8. \A i \in 1 .. Len(x) : x[i] = y[i]
  <2> TAKE i \in 1 .. Len(x)
  <2>1. i \in 1 .. n + m - a /\ i \in 1 .. (n - a) + m /\ a + i \in 1 .. n + m /\ i \in Nat
    BY <1>2, <1>6
  <2>2. CASE i =< n - a
    <3>1. a + i <= n /\ i \in 1 .. n - a
      BY <1>2, <2>1, <2>2
    <3> QED
      BY <1>3, <1>4, <1>5, <1>6, <2>1, <2>2, <3>1
  <2>3. CASE ~(i <= n - a)
    <3>1. ~(a + i <= n) /\ a + i - n = i - (n - a)
      BY <1>2, <2>1, <2>3
    <3>2. x[i] = u[a + i - n]
      <4> DEFINE q == a + i
      <4>1. x[i] = w[q] /\ q \in 1 .. n + m /\ ~(q <= n)
        BY <1>6, <2>1, <3>1
      <4> HIDE DEF q
      <4>2. w[q] = u[q - n]
        BY <1>3, <4>1
      <4> QED
        BY <1>2, <2>1, <4>1, <4>2 DEF q
    <3>3. y[i] = u[i - (n - a)]
      BY <1>5, <2>1, <2>3
    <3> QED
      BY <3>1, <3>2, <3>3
  <2> QED
    BY <2>2, <2>3
<1>9. x = y
  BY <1>5, <1>6, <1>7, <1>8, SeqEqual DEF Strings
<1> QED
  BY <1>9 DEF x, y, w, t

\* A message at the front is not changed by more cells at the end.
LEMMA FrontMore ==
    ASSUME NEW s \in Strings, NEW u \in Strings, NEW b \in 0 .. Len(s)
    PROVE  SubSeq(s \o u, 1, b) = SubSeq(s, 1, b)
<1>1. Len(s) \in Nat /\ Len(u) \in Nat
  BY LenProperties DEF Strings
<1>2. CASE b = 0
  BY <1>2, SubSeqEmpty
<1>3. CASE b # 0
  BY <1>1, <1>3, SubSeqOfConcat1 DEF Strings
<1> QED
  BY <1>2, <1>3

-----------------------------------------------------------------------------
(* One message. *)

\* What decode returns.
LEMMA DecodeFacts ==
    ASSUME NEW s \in Strings
    PROVE  /\ Decode(s) \in [status : {"Incomplete", "Malformed", "Ok"}, consumed : 0 .. Len(s)]
           /\ Decode(s).status = "Incomplete" => Decode(s).consumed = 0
           /\ Decode(s).status = "Ok" => Decode(s).consumed # 0
<1>1. Len(s) \in Nat
  BY LenProperties DEF Strings
<1>2. CASE Len(s) < HeaderCells
  BY <1>1, <1>2 DEF Decode, Result
<1>3. CASE ~(Len(s) < HeaderCells)
  <2>1. s[1] \in Nat /\ s[2] \in Nat
    <3>1. 1 \in 1 .. Len(s) /\ 2 \in 1 .. Len(s)
      BY <1>1, <1>3 DEF HeaderCells
    <3> QED
      BY <3>1, ElementOfSeq, ConnAssumption DEF Strings
  <2>2. CASE s[1] < HeaderCells
    BY <1>1, <1>3, <2>2 DEF Decode, Result
  <2>3. CASE ~(s[1] < HeaderCells) /\ Len(s) < s[1]
    BY <1>1, <1>3, <2>3 DEF Decode, Result
  <2>4. CASE ~(s[1] < HeaderCells) /\ ~(Len(s) < s[1])
    <3>1. s[1] \in 0 .. Len(s) /\ s[1] # 0
      BY <1>1, <2>1, <2>4 DEF HeaderCells
    <3>2. Decode(s) \in {Result("Malformed", s[1]), Result("Ok", s[1])}
      BY <1>3, <2>4 DEF Decode
    <3> QED
      BY <3>1, <3>2 DEF Result
  <2> QED
    BY <2>2, <2>3, <2>4
<1> QED
  BY <1>2, <1>3

\* A message that is whole, or cannot be one, is decoded the same whatever follows.
LEMMA DecodeMore ==
    ASSUME NEW s \in Strings, NEW u \in Strings, Decode(s).status # "Incomplete"
    PROVE  Decode(s \o u) = Decode(s)
<1>1. Len(s) \in Nat /\ Len(u) \in Nat
  BY LenProperties DEF Strings
<1> DEFINE w == s \o u
<1>2. Len(w) = Len(s) + Len(u) /\ \A i \in 1 .. Len(s) : w[i] = s[i]
  BY <1>1, ConcatProperties DEF Strings
<1>3. ~(Len(s) < HeaderCells)
  BY DEF Decode, Result
<1>4. ~(Len(w) < HeaderCells) /\ 1 \in 1 .. Len(s) /\ 2 \in 1 .. Len(s)
  BY <1>1, <1>2, <1>3 DEF HeaderCells
<1>5. w[1] = s[1] /\ w[2] = s[2] /\ s[1] \in Nat
  BY <1>2, <1>4, ElementOfSeq, ConnAssumption DEF Strings
<1> HIDE DEF w
<1>6. CASE s[1] < HeaderCells
  BY <1>3, <1>4, <1>5, <1>6 DEF Decode, w
<1>7. CASE ~(s[1] < HeaderCells)
  <2>1. ~(Len(s) < s[1])
    BY <1>3, <1>7 DEF Decode, Result
  <2>2. ~(Len(w) < s[1])
    BY <1>1, <1>2, <1>5, <2>1
  <2> DEFINE Wrong(x) == \/ x[2] \notin {NewMsg, CancelMsg}
                         \/ x[1] # SizeOf[x[2]]
                         \/ x[2] = NewMsg /\ x[3] > 1
  <2>3. Decode(s) = IF Wrong(s) THEN Result("Malformed", s[1]) ELSE Result("Ok", s[1])
    BY <1>3, <1>7, <2>1 DEF Decode
  <2>4. Decode(w) = IF Wrong(w) THEN Result("Malformed", s[1]) ELSE Result("Ok", s[1])
    BY <1>4, <1>5, <1>7, <2>2 DEF Decode
  <2>5. Wrong(s) <=> Wrong(w)
    <3>1. CASE s[2] = NewMsg /\ s[1] = 3
      <4>1. 3 \in 1 .. Len(s)
        BY <1>1, <1>5, <2>1, <3>1
      <4> QED
        BY <1>2, <1>5, <4>1
    <3>2. CASE ~(s[2] = NewMsg /\ s[1] = 3)
      BY <1>5, <3>2 DEF SizeOf, NewMsg, CancelMsg
    <3> QED
      BY <3>1, <3>2
  <2> HIDE DEF Wrong
  <2> QED
    BY <2>3, <2>4, <2>5 DEF w
<1> QED
  BY <1>6, <1>7

-----------------------------------------------------------------------------
(* The loop of DecodeAll. *)

\* One turn of the loop at off, when L is the outcome of the later ones.
Turn(s, L, off) ==
    LET r == Decode(Behind(s, off))
    IN  IF r.consumed = 0
        THEN [cmds |-> <<>>, bad |-> 0, off |-> off, broken |-> r.status = "Malformed"]
        ELSE LET rest == L[off + r.consumed]
             IN  IF r.status = "Ok"
                 THEN [rest EXCEPT !.cmds = <<SubSeq(s, off + 1, off + r.consumed)>> \o @]
                 ELSE [rest EXCEPT !.bad = @ + 1]

IsLoop(s, L) == L = [off \in 0 .. Len(s) |-> Turn(s, L, off)]

Outcomes(n) == [cmds : Seq(Strings), bad : Nat, off : 0 .. n, broken : BOOLEAN]

\* An outcome from its parts.
LEMMA OutcomeIntro ==
    ASSUME NEW n, NEW c \in Seq(Strings), NEW b \in Nat, NEW o \in 0 .. n, NEW k \in BOOLEAN
    PROVE  [cmds |-> c, bad |-> b, off |-> o, broken |-> k] \in Outcomes(n)
BY DEF Outcomes

\* DecodeAll is the loop from the first cell.
LEMMA DecodeAllLoop ==
    ASSUME NEW s
    PROVE  DecodeAll(s) = (CHOOSE L : IsLoop(s, L))[0]
BY DEF DecodeAll, IsLoop, Turn

\* A turn looks at later ones only.
LEMMA TurnLater ==
    ASSUME NEW s \in Strings, NEW off \in 0 .. Len(s), NEW L, NEW M,
           \A o \in off + 1 .. Len(s) : L[o] = M[o]
    PROVE  Turn(s, L, off) = Turn(s, M, off)
<1> DEFINE r == Decode(Behind(s, off))
<1>1. Len(s) \in Nat
  BY LenProperties DEF Strings
<1>2. r.consumed \in 0 .. Len(s) - off
  <2> DEFINE t == Behind(s, off)
  <2>1. t \in Strings /\ Len(t) = Len(s) - off
    BY BehindFacts
  <2> HIDE DEF t
  <2>2. Decode(t) \in [status : {"Incomplete", "Malformed", "Ok"}, consumed : 0 .. Len(t)]
    BY <2>1, DecodeFacts
  <2> QED
    BY <2>1, <2>2 DEF t
<1>3. CASE r.consumed = 0
  BY <1>3 DEF Turn
<1>4. CASE r.consumed # 0
  <2> DEFINE k == off + r.consumed
  <2> HIDE DEF r
  <2>1. k \in off + 1 .. Len(s)
    BY <1>1, <1>2, <1>4
  <2>2. L[k] = M[k]
    BY <2>1
  <2> QED
    BY <1>4, <2>2 DEF Turn, r
<1> QED
  BY <1>3, <1>4

\* The loop ends: there is one.
LEMMA LoopExists ==
    ASSUME NEW s \in Strings
    PROVE  \E L : IsLoop(s, L)
<1> DEFINE N == Len(s)
           From(L, n) == /\ L = [off \in 0 .. N |-> L[off]]
                         /\ \A off \in n .. N : L[off] = Turn(s, L, off)
           S == {k \in 0 .. N + 1 : \E L : From(L, N + 1 - k)}
<1>1. N \in Nat
  BY LenProperties DEF Strings
<1>2. 0 \in S
  <2> DEFINE L == [off \in 0 .. N |-> 0]
  <2>1. L = [off \in 0 .. N |-> L[off]]
    OBVIOUS
  <2>2. \A off \in N + 1 - 0 .. N : FALSE
    BY <1>1
  <2> HIDE DEF N, L
  <2>3. From(L, N + 1 - 0)
    BY <2>1, <2>2
  <2> HIDE DEF From
  <2> QED
    BY <1>1, <2>3
<1>3. ASSUME NEW k \in 0 .. N, k \in S PROVE k + 1 \in S
  <2> DEFINE n == N - k
  <2>0. n \in 0 .. N /\ N + 1 - k = n + 1 /\ N + 1 - (k + 1) = n /\ k + 1 \in 0 .. N + 1
    BY <1>1
  <2>1. PICK L : From(L, n + 1)
    BY <1>3, <2>0
  <2> DEFINE M == [off \in 0 .. N |-> IF off = n THEN Turn(s, L, n) ELSE L[off]]
  <2> HIDE DEF n
  <2>2. M = [off \in 0 .. N |-> M[off]]
    OBVIOUS
  <2>3. \A off \in n + 1 .. N : M[off] = L[off]
    BY <1>1, <2>0
  <2>4. M[n] = Turn(s, L, n)
    BY <2>0
  <2> HIDE DEF M
  <2>5. ASSUME NEW off \in n .. N PROVE M[off] = Turn(s, M, off)
    <3>1. off \in 0 .. Len(s) /\ \A o \in off + 1 .. Len(s) : o \in n + 1 .. N
      BY <1>1, <2>0
    <3>2. \A o \in off + 1 .. Len(s) : L[o] = M[o]
      BY <2>3, <3>1
    <3>3. Turn(s, L, off) = Turn(s, M, off)
      BY <3>1, <3>2, TurnLater
    <3>4. off = n \/ off \in n + 1 .. N
      BY <1>1, <2>0
    <3> QED
      BY <2>1, <2>3, <2>4, <3>3, <3>4
  <2>6. From(M, n)
    BY <2>2, <2>5
  <2> HIDE DEF From
  <2> QED
    BY <2>0, <2>6
<1>4. N + 1 \in S
  <2> HIDE DEF S
  <2>1. N + 1 \in Nat /\ \A k \in 0 .. N + 1 - 1 : k \in S => k + 1 \in S
    BY <1>1, <1>3
  <2> DEFINE K == N + 1
  <2>2. K \in Nat /\ \A k \in 0 .. K - 1 : k \in S => k + 1 \in S
    BY <2>1
  <2> HIDE DEF K
  <2>3. 0 .. K \subseteq S
    BY <1>2, <2>2, UpTo
  <2> QED
    BY <2>2, <2>3 DEF K
<1>5. PICK L : From(L, N + 1 - (N + 1))
  BY <1>4
<1>6. L = [off \in 0 .. N |-> L[off]] /\ \A off \in 0 .. N : L[off] = Turn(s, L, off)
  <2>1. N + 1 - (N + 1) = 0
    BY <1>1
  <2> QED
    BY <1>5, <2>1
<1>7. L = [off \in 0 .. N |-> Turn(s, L, off)]
  BY <1>6, Zenon
<1> QED
  BY <1>7 DEF IsLoop

\* A turn in fields.
LEMMA TurnFields ==
    ASSUME NEW s \in Strings, NEW off \in 0 .. Len(s), NEW L,
           \A o \in off + 1 .. Len(s) : L[o] \in Outcomes(Len(s))
    PROVE  LET r == Decode(Behind(s, off))
               e == L[off + r.consumed]
           IN  /\ r.consumed = 0 =>
                    Turn(s, L, off) = [cmds |-> <<>>, bad |-> 0, off |-> off,
                                       broken |-> r.status = "Malformed"]
               /\ r.consumed # 0 =>
                    /\ e \in Outcomes(Len(s))
                    /\ SubSeq(s, off + 1, off + r.consumed) \in Strings
                    /\ off + r.consumed \in off + 1 .. Len(s)
                    /\ Turn(s, L, off) =
                         [cmds |-> IF r.status = "Ok"
                                   THEN <<SubSeq(s, off + 1, off + r.consumed)>> \o e.cmds
                                   ELSE e.cmds,
                          bad |-> IF r.status = "Ok" THEN e.bad ELSE e.bad + 1,
                          off |-> e.off, broken |-> e.broken]
<1> DEFINE r == Decode(Behind(s, off))
           k == off + r.consumed
           e == L[k]
<1>1. Len(s) \in Nat
  BY LenProperties DEF Strings
<1>2. r.consumed \in 0 .. Len(s) - off
  <2> DEFINE t == Behind(s, off)
  <2>1. t \in Strings /\ Len(t) = Len(s) - off
    BY BehindFacts
  <2> HIDE DEF t
  <2>2. Decode(t) \in [status : {"Incomplete", "Malformed", "Ok"}, consumed : 0 .. Len(t)]
    BY <2>1, DecodeFacts
  <2> QED
    BY <2>1, <2>2 DEF t
<1>3. ASSUME r.consumed = 0
      PROVE  Turn(s, L, off) = [cmds |-> <<>>, bad |-> 0, off |-> off,
                                broken |-> r.status = "Malformed"]
  BY <1>3 DEF Turn
<1>4. ASSUME r.consumed # 0
      PROVE  /\ e \in Outcomes(Len(s))
             /\ SubSeq(s, off + 1, k) \in Strings
             /\ k \in off + 1 .. Len(s)
             /\ Turn(s, L, off) =
                  [cmds |-> IF r.status = "Ok" THEN <<SubSeq(s, off + 1, k)>> \o e.cmds ELSE e.cmds,
                   bad |-> IF r.status = "Ok" THEN e.bad ELSE e.bad + 1,
                   off |-> e.off, broken |-> e.broken]
  <2>1. k \in off + 1 .. Len(s) /\ k \in 0 .. Len(s) /\ off =< k
    <3> HIDE DEF r
    <3> QED
      BY <1>1, <1>2, <1>4
  <2>2. e \in Outcomes(Len(s))
    <3> HIDE DEF k
    <3> QED
      BY <2>1
  <2>3. SubSeq(s, off + 1, k) \in Strings
    <3>1. PICK w : w = k
      OBVIOUS
    <3> HIDE DEF k
    <3>2. w \in 0 .. Len(s) /\ off =< w /\ off \in Nat
      BY <1>1, <2>1, <3>1
    <3>3. SubSeq(s, off + 1, w) \in Strings
      BY <3>2, FrontFacts
    <3> QED
      BY <3>1, <3>3
  <2> DEFINE m == SubSeq(s, off + 1, k)
  <2>4. Turn(s, L, off) = IF r.status = "Ok" THEN [e EXCEPT !.cmds = <<m>> \o @]
                          ELSE [e EXCEPT !.bad = @ + 1]
    BY <1>4 DEF Turn
  <2> HIDE DEF m, e
  <2>5. [e EXCEPT !.cmds = <<m>> \o @] =
           [cmds |-> <<m>> \o e.cmds, bad |-> e.bad, off |-> e.off, broken |-> e.broken]
    <3> DEFINE c == <<m>> \o e.cmds
    <3> HIDE DEF c
    <3>1. [e EXCEPT !.cmds = c] =
             [cmds |-> c, bad |-> e.bad, off |-> e.off, broken |-> e.broken]
      BY <2>2 DEF Outcomes
    <3> QED
      BY <3>1 DEF c
  <2>6. [e EXCEPT !.bad = @ + 1] =
           [cmds |-> e.cmds, bad |-> e.bad + 1, off |-> e.off, broken |-> e.broken]
    BY <2>2 DEF Outcomes
  <2>7. Turn(s, L, off) =
           [cmds |-> IF r.status = "Ok" THEN <<m>> \o e.cmds ELSE e.cmds,
            bad |-> IF r.status = "Ok" THEN e.bad ELSE e.bad + 1,
            off |-> e.off, broken |-> e.broken]
    <3> HIDE DEF r
    <3>1. CASE r.status = "Ok"
      BY <2>4, <2>5, <3>1
    <3>2. CASE r.status # "Ok"
      BY <2>4, <2>6, <3>2
    <3> QED
      BY <3>1, <3>2
  <2> QED
    BY <2>1, <2>2, <2>3, <2>7 DEF e, m
<1> QED
  BY <1>3, <1>4

\* What the loop returns, and where: at a message that is not whole, unless
\* framing was lost.
LEMMA LoopType ==
    ASSUME NEW s \in Strings, NEW L, IsLoop(s, L)
    PROVE  \A off \in 0 .. Len(s) : L[off] \in Outcomes(Len(s))
<1> DEFINE N == Len(s)
           S == {off \in 0 .. N : L[off] \in Outcomes(N)}
<1>1. N \in Nat
  BY LenProperties DEF Strings
<1>2. ASSUME NEW off \in 0 .. N, \A m \in off + 1 .. N : m \in S
      PROVE  off \in S
  <2>1. \A o \in off + 1 .. N : L[o] \in Outcomes(N)
    BY <1>2
  <2>2. L[off] = Turn(s, L, off)
    BY DEF IsLoop
  <2> DEFINE r == Decode(Behind(s, off))
             e == L[off + r.consumed]
             m == SubSeq(s, off + 1, off + r.consumed)
  <2>3. /\ r.consumed = 0 =>
             Turn(s, L, off) = [cmds |-> <<>>, bad |-> 0, off |-> off,
                                broken |-> r.status = "Malformed"]
        /\ r.consumed # 0 =>
             /\ e \in Outcomes(N)
             /\ m \in Strings
             /\ Turn(s, L, off) =
                 [cmds |-> IF r.status = "Ok" THEN <<m>> \o e.cmds ELSE e.cmds,
                  bad |-> IF r.status = "Ok" THEN e.bad ELSE e.bad + 1,
                  off |-> e.off, broken |-> e.broken]
    BY <2>1, TurnFields
  <2> HIDE DEF r, e, m
  <2> DEFINE bad == r.status = "Malformed"
  <2>4. CASE r.consumed = 0
    <3>1. L[off] = [cmds |-> <<>>, bad |-> 0, off |-> off, broken |-> bad]
      BY <2>2, <2>3, <2>4
    <3>2. bad \in BOOLEAN
      OBVIOUS
    <3> HIDE DEF bad, N
    <3>3. L[off] \in Outcomes(N)
      BY <3>1, <3>2, EmptySeq, OutcomeIntro
    <3> QED
      BY <3>3
  <2>5. CASE r.consumed # 0
    <3>1. e \in Outcomes(N) /\ m \in Strings
      BY <2>3, <2>5
    <3>2. <<m>> \o e.cmds \in Seq(Strings)
      <4>1. <<m>> \in Seq(Strings) /\ e.cmds \in Seq(Strings)
        BY <3>1 DEF Outcomes
      <4> QED
        BY <4>1, ConcatProperties
    <3> DEFINE c == IF r.status = "Ok" THEN <<m>> \o e.cmds ELSE e.cmds
               b == IF r.status = "Ok" THEN e.bad ELSE e.bad + 1
    <3>3. c \in Seq(Strings) /\ b \in Nat /\ e.off \in 0 .. N /\ e.broken \in BOOLEAN
      <4> HIDE DEF N
      <4>1. e.cmds \in Seq(Strings) /\ e.bad \in Nat /\ e.off \in 0 .. N /\ e.broken \in BOOLEAN
        BY <3>1 DEF Outcomes
      <4> QED
        BY <3>2, <4>1
    <3>4. L[off] = [cmds |-> c, bad |-> b, off |-> e.off, broken |-> e.broken]
      BY <2>2, <2>3, <2>5
    <3> HIDE DEF c, b, N
    <3>5. L[off] \in Outcomes(N)
      BY <3>3, <3>4, OutcomeIntro
    <3> QED
      BY <3>5
  <2> QED
    BY <2>4, <2>5
<1>3. 0 .. N \subseteq S
  <2> HIDE DEF N, S
  <2> QED
    BY <1>1, <1>2, DownFrom
<1> QED
  BY <1>3

\* An outcome at a position a cells further on.
Shift(b, a) == [cmds |-> b.cmds, bad |-> b.bad, off |-> b.off + a, broken |-> b.broken]

\* The loop does not look back: behind a position it does what it does there on
\* its own.
LEMMA LoopShift ==
    ASSUME NEW s \in Strings, NEW a \in 0 .. Len(s), NEW L, IsLoop(s, L),
           NEW B, IsLoop(Behind(s, a), B)
    PROVE  \A o \in 0 .. Len(s) - a : L[a + o] = Shift(B[o], a)
<1> DEFINE N == Len(s) - a
           t == Behind(s, a)
           S == {o \in 0 .. N : L[a + o] = Shift(B[o], a)}
<1>1. N \in Nat /\ Len(s) \in Nat /\ a \in Nat /\ Len(s) = N + a
  BY LenProperties DEF Strings
<1>2. t \in Strings /\ Len(t) = N
  BY BehindFacts
<1>3. \A o \in 0 .. Len(s) : L[o] \in Outcomes(Len(s)) /\ L[o] = Turn(s, L, o)
  BY LoopType DEF IsLoop
<1>4. \A o \in 0 .. N : B[o] \in Outcomes(N) /\ B[o] = Turn(t, B, o)
  <2> HIDE DEF t
  <2>1. IsLoop(t, B)
    BY DEF t
  <2>2. \A o \in 0 .. Len(t) : B[o] \in Outcomes(Len(t))
    BY <1>2, <2>1, LoopType
  <2>3. \A o \in 0 .. Len(t) : B[o] = Turn(t, B, o)
    BY <2>1 DEF IsLoop
  <2> QED
    BY <1>2, <2>2, <2>3
<1>5. ASSUME NEW o \in 0 .. N, \A m \in o + 1 .. N : m \in S
      PROVE  o \in S
  <2> DEFINE x == a + o
             r == Decode(Behind(t, o))
             c == r.consumed
  <2>1. x \in 0 .. Len(s) /\ o \in Nat /\ x \in Nat
    BY <1>1
  <2>2. Behind(t, o) = Behind(s, x)
    BY BehindBehind
  <2>3. /\ c = 0 => Turn(s, L, x) = [cmds |-> <<>>, bad |-> 0, off |-> x,
                                     broken |-> r.status = "Malformed"]
        /\ c # 0 => Turn(s, L, x) =
                      [cmds |-> IF r.status = "Ok" THEN <<SubSeq(s, x + 1, x + c)>> \o L[x + c].cmds
                                ELSE L[x + c].cmds,
                       bad |-> IF r.status = "Ok" THEN L[x + c].bad ELSE L[x + c].bad + 1,
                       off |-> L[x + c].off, broken |-> L[x + c].broken]
    <3>1. \A i \in x + 1 .. Len(s) : L[i] \in Outcomes(Len(s))
      BY <1>1, <1>3, <2>1
    <3>2. r = Decode(Behind(s, x))
      BY <2>2
    <3> HIDE DEF x, t
    <3> QED
      BY <2>1, <3>1, <3>2, TurnFields
  <2>4. /\ c = 0 => Turn(t, B, o) = [cmds |-> <<>>, bad |-> 0, off |-> o,
                                     broken |-> r.status = "Malformed"]
        /\ c # 0 => /\ o + c \in o + 1 .. N
                    /\ B[o + c] \in Outcomes(N)
                    /\ Turn(t, B, o) =
                      [cmds |-> IF r.status = "Ok" THEN <<SubSeq(t, o + 1, o + c)>> \o B[o + c].cmds
                                ELSE B[o + c].cmds,
                       bad |-> IF r.status = "Ok" THEN B[o + c].bad ELSE B[o + c].bad + 1,
                       off |-> B[o + c].off, broken |-> B[o + c].broken]
    <3>1. \A i \in o + 1 .. Len(t) : B[i] \in Outcomes(Len(t))
      <4> HIDE DEF t
      <4> QED
        BY <1>1, <1>2, <1>4, <2>1
    <3>2. o \in 0 .. Len(t)
      BY <1>2
    <3> HIDE DEF t, N
    <3> QED
      BY <1>2, <3>1, <3>2, TurnFields
  <2>5. L[x] = Turn(s, L, x) /\ B[o] = Turn(t, B, o)
    BY <1>3, <1>4, <2>1
  <2> HIDE DEF t, r
  <2>6. CASE c = 0
    <3>1. o + a = x
      BY <2>1, <1>1
    <3>2. L[x] = [cmds |-> <<>>, bad |-> 0, off |-> x, broken |-> r.status = "Malformed"]
      BY <2>3, <2>5, <2>6
    <3>3. B[o] = [cmds |-> <<>>, bad |-> 0, off |-> o, broken |-> r.status = "Malformed"]
      BY <2>4, <2>5, <2>6
    <3> HIDE DEF x
    <3>4. L[x] = Shift(B[o], a)
      BY <3>1, <3>2, <3>3 DEF Shift
    <3> QED
      BY <3>4 DEF x
  <2>7. CASE c # 0
    <3> DEFINE k == o + c
    <3>1. k \in o + 1 .. N /\ B[k] \in Outcomes(N)
      BY <2>4, <2>7
    <3>2. k \in S
      BY <1>5, <3>1
    <3>3. c \in Int
      <4>1. Behind(t, o) \in Strings
        BY <1>2, BehindFacts
      <4> DEFINE v == Behind(t, o)
      <4> HIDE DEF v
      <4>2. Decode(v) \in [status : {"Incomplete", "Malformed", "Ok"}, consumed : 0 .. Len(v)]
        BY <4>1, DecodeFacts DEF v
      <4> QED
        BY <4>2 DEF r, v
    <3>4. x + c = a + k
      BY <1>1, <2>1, <3>3
    <3>5. L[a + k] = Shift(B[k], a)
      BY <3>2
    <3>6. SubSeq(t, o + 1, k) = SubSeq(s, x + 1, a + k)
      <4>1. k \in o .. Len(s) - a
        BY <1>1, <2>1, <3>1
      <4> HIDE DEF k
      <4>2. SubSeq(t, o + 1, k) = SubSeq(s, a + o + 1, a + k)
        BY <2>1, <4>1, FrontBehind DEF t
      <4> QED
        BY <4>2
    <3> DEFINE z == SubSeq(t, o + 1, k)
               b == B[k]
               l == L[a + k]
               y == <<z>> \o b.cmds
    <3>7. L[x] = [cmds |-> IF r.status = "Ok" THEN y ELSE b.cmds,
                  bad |-> IF r.status = "Ok" THEN b.bad ELSE b.bad + 1,
                  off |-> b.off + a, broken |-> b.broken]
      <4>1. L[x] = [cmds |-> IF r.status = "Ok" THEN <<z>> \o l.cmds ELSE l.cmds,
                    bad |-> IF r.status = "Ok" THEN l.bad ELSE l.bad + 1,
                    off |-> l.off, broken |-> l.broken]
        BY <2>3, <2>5, <2>7, <3>4, <3>6
      <4>2. l.cmds = b.cmds /\ l.bad = b.bad /\ l.off = b.off + a /\ l.broken = b.broken
        BY <3>5 DEF Shift
      <4> HIDE DEF l, b, x, z
      <4> QED
        BY <4>1, <4>2
    <3>8. B[o] = [cmds |-> IF r.status = "Ok" THEN y ELSE b.cmds,
                  bad |-> IF r.status = "Ok" THEN b.bad ELSE b.bad + 1,
                  off |-> b.off, broken |-> b.broken]
      BY <2>4, <2>5, <2>7
    <3> HIDE DEF b, y, x
    <3>9. L[x] = Shift(B[o], a)
      BY <3>7, <3>8 DEF Shift
    <3> QED
      BY <3>9 DEF x
  <2> QED
    BY <2>6, <2>7
<1>6. 0 .. N \subseteq S
  <2> HIDE DEF N, S
  <2> QED
    BY <1>1, <1>5, DownFrom
<1> QED
  BY <1>6

\* Nothing is in front of the first cell.
LEMMA BehindNone ==
    ASSUME NEW s \in Strings
    PROVE  Behind(s, 0) = s
<1>1. SubSeq(s, 1, Len(s)) = s
  BY SubSeqFull DEF Strings
<1>2. 0 + 1 = 1
  OBVIOUS
<1> QED
  BY <1>1, <1>2 DEF Behind

\* DecodeAll by the first message and the rest.
LEMMA DecodeAllUnfold ==
    ASSUME NEW s \in Strings
    PROVE  LET r == Decode(s)
               e == DecodeAll(Behind(s, r.consumed))
           IN  /\ r.consumed \in 0 .. Len(s)
               /\ DecodeAll(s) \in Outcomes(Len(s))
               /\ r.consumed = 0 =>
                    DecodeAll(s) = [cmds |-> <<>>, bad |-> 0, off |-> 0,
                                    broken |-> r.status = "Malformed"]
               /\ r.consumed # 0 =>
                    DecodeAll(s) =
                      [cmds |-> IF r.status = "Ok" THEN <<SubSeq(s, 1, r.consumed)>> \o e.cmds
                                ELSE e.cmds,
                       bad |-> IF r.status = "Ok" THEN e.bad ELSE e.bad + 1,
                       off |-> e.off + r.consumed, broken |-> e.broken]
<1> DEFINE r == Decode(s)
           c == r.consumed
           t == Behind(s, c)
           e == DecodeAll(t)
           L == CHOOSE M : IsLoop(s, M)
           B == CHOOSE M : IsLoop(t, M)
<1>1. r \in [status : {"Incomplete", "Malformed", "Ok"}, consumed : 0 .. Len(s)]
  BY DecodeFacts
<1>2. c \in 0 .. Len(s) /\ Len(s) \in Nat
  BY <1>1, LenProperties DEF Strings
<1>3. t \in Strings
  <2> HIDE DEF c
  <2> QED
    BY <1>2, BehindFacts
<1>4. IsLoop(s, L)
  BY LoopExists
<1>5. IsLoop(t, B)
  <2> HIDE DEF t
  <2> QED
    BY <1>3, LoopExists
<1>6. DecodeAll(s) = L[0] /\ e = B[0]
  BY DecodeAllLoop
<1> HIDE DEF L, B, e
<1>7. \A o \in 0 .. Len(s) : L[o] \in Outcomes(Len(s)) /\ L[o] = Turn(s, L, o)
  BY <1>4, LoopType DEF IsLoop
<1>8. L[c + 0] = Shift(B[0], c)
  <2> HIDE DEF c
  <2>1. 0 \in 0 .. Len(s) - c
    BY <1>2
  <2> QED
    BY <1>2, <1>4, <1>5, <2>1, LoopShift DEF t
<1>9. /\ c = 0 => Turn(s, L, 0) = [cmds |-> <<>>, bad |-> 0, off |-> 0,
                                   broken |-> r.status = "Malformed"]
      /\ c # 0 => Turn(s, L, 0) =
                    [cmds |-> IF r.status = "Ok" THEN <<SubSeq(s, 0 + 1, 0 + c)>> \o L[0 + c].cmds
                              ELSE L[0 + c].cmds,
                     bad |-> IF r.status = "Ok" THEN L[0 + c].bad ELSE L[0 + c].bad + 1,
                     off |-> L[0 + c].off, broken |-> L[0 + c].broken]
  <2>1. 0 \in 0 .. Len(s) /\ \A o \in 0 + 1 .. Len(s) : L[o] \in Outcomes(Len(s))
    BY <1>2, <1>7
  <2>2. r = Decode(Behind(s, 0))
    BY BehindNone
  <2> HIDE DEF r
  <2> DEFINE z == 0
  <2>3. z \in 0 .. Len(s) /\ (\A o \in z + 1 .. Len(s) : L[o] \in Outcomes(Len(s)))
        /\ r = Decode(Behind(s, z))
    BY <2>1, <2>2
  <2> HIDE DEF z
  <2>4. /\ c = 0 => Turn(s, L, z) = [cmds |-> <<>>, bad |-> 0, off |-> z,
                                     broken |-> r.status = "Malformed"]
        /\ c # 0 => Turn(s, L, z) =
                      [cmds |-> IF r.status = "Ok" THEN <<SubSeq(s, z + 1, z + c)>> \o L[z + c].cmds
                                ELSE L[z + c].cmds,
                       bad |-> IF r.status = "Ok" THEN L[z + c].bad ELSE L[z + c].bad + 1,
                       off |-> L[z + c].off, broken |-> L[z + c].broken]
    BY <2>3, TurnFields
  <2> QED
    BY <2>4 DEF z
<1>10. L[0] = Turn(s, L, 0) /\ L[0] \in Outcomes(Len(s)) /\ 0 + c = c /\ c + 0 = c /\ 0 + 1 = 1
  <2> HIDE DEF c
  <2> QED
    BY <1>2, <1>7
<1>11. ASSUME c # 0
       PROVE  DecodeAll(s) =
                [cmds |-> IF r.status = "Ok" THEN <<SubSeq(s, 1, c)>> \o e.cmds ELSE e.cmds,
                 bad |-> IF r.status = "Ok" THEN e.bad ELSE e.bad + 1,
                 off |-> e.off + c, broken |-> e.broken]
  <2> DEFINE l == L[c]
             m == <<SubSeq(s, 1, c)>>
  <2>1. DecodeAll(s) =
                [cmds |-> IF r.status = "Ok" THEN m \o l.cmds ELSE l.cmds,
                 bad |-> IF r.status = "Ok" THEN l.bad ELSE l.bad + 1,
                 off |-> l.off, broken |-> l.broken]
    BY <1>6, <1>9, <1>10, <1>11
  <2>2. l.cmds = e.cmds /\ l.bad = e.bad /\ l.off = e.off + c /\ l.broken = e.broken
    BY <1>6, <1>8, <1>10 DEF Shift
  <2> HIDE DEF l, m, r
  <2>3. DecodeAll(s) =
                [cmds |-> IF r.status = "Ok" THEN m \o e.cmds ELSE e.cmds,
                 bad |-> IF r.status = "Ok" THEN e.bad ELSE e.bad + 1,
                 off |-> e.off + c, broken |-> e.broken]
    BY <2>1, <2>2
  <2> QED
    BY <2>3 DEF m
<1>12. c = 0 => DecodeAll(s) = [cmds |-> <<>>, bad |-> 0, off |-> 0,
                                broken |-> r.status = "Malformed"]
  BY <1>6, <1>9, <1>10
<1>13. DecodeAll(s) \in Outcomes(Len(s))
  BY <1>6, <1>10
<1> QED
  BY <1>2, <1>11, <1>12, <1>13 DEF e

\* The outcome of a part and then of the rest.
Joined(d, e) ==
    [cmds |-> d.cmds \o e.cmds, bad |-> d.bad + e.bad, off |-> d.off + e.off, broken |-> e.broken]

\* s may be cut anywhere: what is left of it, with the cells that follow, is
\* decoded as in the whole; and at the end of s a message is not whole.
CutsWell(s, u) ==
    LET d == DecodeAll(s)
    IN  ~d.broken => /\ DecodeAll(s \o u) = Joined(d, DecodeAll(Behind(s, d.off) \o u))
                     /\ Decode(Behind(s, d.off)).status = "Incomplete"

\* The stream can be cut at any cell.
LEMMA AnyCut ==
    ASSUME NEW s \in Strings, NEW u \in Strings
    PROVE  CutsWell(s, u)
<1> DEFINE S == {n \in Nat : \A t \in Strings : Len(t) =< n => CutsWell(t, u)}
<1>1. ASSUME NEW t \in Strings, Decode(t).consumed = 0 PROVE CutsWell(t, u)
  <2> DEFINE d == DecodeAll(t)
  <2> SUFFICES ASSUME ~d.broken
               PROVE  /\ DecodeAll(t \o u) = Joined(d, DecodeAll(Behind(t, d.off) \o u))
                      /\ Decode(Behind(t, d.off)).status = "Incomplete"
    BY DEF CutsWell
  <2>1. d = [cmds |-> <<>>, bad |-> 0, off |-> 0, broken |-> Decode(t).status = "Malformed"]
    BY <1>1, DecodeAllUnfold
  <2>2. Decode(t).status = "Incomplete"
    <3> DEFINE k == Decode(t).status = "Malformed"
    <3>1. ~k
      <4>1. d = [cmds |-> <<>>, bad |-> 0, off |-> 0, broken |-> k]
        BY <2>1
      <4> HIDE DEF k
      <4>2. d.broken = k
        BY <4>1
      <4> QED
        BY <4>2, Zenon
    <3> QED
      BY <1>1, <3>1, DecodeFacts
  <2>3. Behind(t, d.off) = t
    BY <2>1, BehindNone
  <2> DEFINE w == t \o u
             e == DecodeAll(w)
  <2>4. e \in Outcomes(Len(w))
    <3>1. w \in Strings
      BY ConcatProperties DEF Strings
    <3> HIDE DEF w
    <3> QED
      BY <3>1, DecodeAllUnfold
  <2> HIDE DEF w, e, d
  <2>5. e = Joined(d, e)
    <3>1. e.cmds \in Seq(Strings) /\ e.bad \in Nat /\ e.off \in Int
      BY <2>4 DEF Outcomes
    <3>2. d.cmds \o e.cmds = e.cmds
      BY <2>1, <3>1, ConcatEmptySeq
    <3>3. d.bad + e.bad = e.bad /\ d.off + e.off = e.off
      BY <2>1, <3>1
    <3>4. Joined(d, e) = [cmds |-> e.cmds, bad |-> e.bad, off |-> e.off, broken |-> e.broken]
      BY <3>2, <3>3 DEF Joined
    <3> QED
      BY <2>4, <3>4 DEF Outcomes
  <2> QED
    BY <2>2, <2>3, <2>5 DEF e, w
<1>2. 0 \in S
  <2>1. ASSUME NEW t \in Strings, Len(t) =< 0 PROVE CutsWell(t, u)
    <3>1. Decode(t).consumed = 0
      BY <2>1, DecodeFacts, LenProperties DEF Strings
    <3> QED
      BY <1>1, <3>1
  <2> HIDE DEF CutsWell
  <2> QED
    BY <2>1
<1>3. ASSUME NEW n \in Nat, n \in S PROVE n + 1 \in S
  <2>1. ASSUME NEW t \in Strings, Len(t) =< n + 1, Decode(t).consumed # 0 PROVE CutsWell(t, u)
    <3> DEFINE r == Decode(t)
               c == r.consumed
               b == Behind(t, c)
               d == DecodeAll(t)
               x == DecodeAll(b)
    <3> SUFFICES ASSUME ~d.broken
                 PROVE  /\ DecodeAll(t \o u) = Joined(d, DecodeAll(Behind(t, d.off) \o u))
                        /\ Decode(Behind(t, d.off)).status = "Incomplete"
      BY DEF CutsWell
    <3>1. c \in 1 .. Len(t) /\ Len(t) \in Nat
      BY <2>1, DecodeFacts, LenProperties DEF Strings
    <3>2. b \in Strings /\ Len(b) = Len(t) - c
      <4> HIDE DEF c
      <4> QED
        BY <3>1, BehindFacts
    <3>3. CutsWell(b, u)
      <4> HIDE DEF b, CutsWell, c
      <4>1. Len(b) =< n
        BY <2>1, <3>1, <3>2
      <4> QED
        BY <1>3, <3>2, <4>1
    <3> DEFINE m == SubSeq(t, 1, c)
    <3>4. d = [cmds |-> IF r.status = "Ok" THEN <<m>> \o x.cmds ELSE x.cmds,
               bad |-> IF r.status = "Ok" THEN x.bad ELSE x.bad + 1,
               off |-> x.off + c, broken |-> x.broken]
      BY <2>1, DecodeAllUnfold
    <3>5. x \in Outcomes(Len(b))
      <4> HIDE DEF b
      <4> QED
        BY <3>2, DecodeAllUnfold
    <3> DEFINE v == Behind(b, x.off)
               y == DecodeAll(v \o u)
    <3>6. /\ DecodeAll(b \o u) = Joined(x, y)
          /\ Decode(v).status = "Incomplete"
          /\ v \in Strings
          /\ x.off \in 0 .. Len(b)
      <4>1. ~x.broken
        <5> HIDE DEF d, x, m, r, c
        <5> QED
          BY <3>4
      <4>2. x.off \in 0 .. Len(b)
        <5> HIDE DEF x, b
        <5> QED
          BY <3>5 DEF Outcomes
      <4>3. v \in Strings
        <5> DEFINE o == x.off
        <5> HIDE DEF b, o
        <5> QED
          BY <3>2, <4>2, BehindFacts DEF o
      <4> QED
        BY <3>3, <4>1, <4>2, <4>3 DEF CutsWell
    <3>7. Behind(t, d.off) = v
      <4> DEFINE o == x.off
      <4> HIDE DEF o, c
      <4>1. o \in 0 .. Len(t) - c /\ c + o = o + c
        BY <3>1, <3>2, <3>6 DEF o
      <4>2. Behind(Behind(t, c), o) = Behind(t, c + o)
        BY <3>1, <4>1, BehindBehind
      <4> HIDE DEF d, x, m, r
      <4>3. d.off = o + c
        BY <3>4 DEF o, c
      <4> QED
        BY <4>1, <4>2, <4>3 DEF o
    <3> DEFINE w == t \o u
    <3>8. w \in Strings /\ Decode(w) = r /\ SubSeq(w, 1, c) = m /\ Behind(w, c) = b \o u
      <4>1. w \in Strings
        BY ConcatProperties DEF Strings
      <4>2. Decode(w) = r
        BY <2>1, DecodeFacts, DecodeMore
      <4>3. c \in 0 .. Len(t)
        BY <3>1
      <4> HIDE DEF c
      <4> QED
        BY <4>1, <4>2, <4>3, FrontMore, BehindMore
    <3> DEFINE z == DecodeAll(b \o u)
    <3>9. DecodeAll(w) = [cmds |-> IF r.status = "Ok" THEN <<m>> \o z.cmds ELSE z.cmds,
                          bad |-> IF r.status = "Ok" THEN z.bad ELSE z.bad + 1,
                          off |-> z.off + c, broken |-> z.broken]
      <4> HIDE DEF w
      <4>1. /\ Decode(w).consumed = c /\ Decode(w).status = r.status
            /\ SubSeq(w, 1, Decode(w).consumed) = m /\ Behind(w, Decode(w).consumed) = b \o u
        BY <3>8
      <4> HIDE DEF r, c, m, b
      <4> QED
        BY <2>1, <3>8, <4>1, DecodeAllUnfold DEF c, r
    <3>10. y \in Outcomes(Len(v \o u))
      <4>1. v \o u \in Strings
        BY <3>6, ConcatProperties DEF Strings
      <4> DEFINE q == v \o u
      <4> HIDE DEF q
      <4> QED
        BY <4>1, DecodeAllUnfold DEF q
    <3>11. DecodeAll(w) = Joined(d, y)
      <4>1. z = Joined(x, y)
        BY <3>6
      <4>2. m \in Strings
        <5>1. c \in 0 .. Len(t) /\ 0 \in Nat /\ 0 =< c /\ 0 + 1 = 1
          BY <3>1
        <5> HIDE DEF c
        <5>2. SubSeq(t, 0 + 1, c) \in Strings
          BY <5>1, FrontFacts
        <5> QED
          BY <5>1, <5>2
      <4>3. c \in Int
        BY <3>1
      <4> HIDE DEF w, z, d, x, y, m, c, v
      <4>4. /\ x.cmds \in Seq(Strings) /\ x.bad \in Nat /\ x.off \in Int
            /\ y.cmds \in Seq(Strings) /\ y.bad \in Nat /\ y.off \in Int
        BY <3>5, <3>10 DEF Outcomes
      <4>5. z.cmds = x.cmds \o y.cmds /\ z.bad = x.bad + y.bad /\ z.off = x.off + y.off
            /\ z.broken = y.broken
        BY <4>1 DEF Joined
      <4>6. <<m>> \o (x.cmds \o y.cmds) = (<<m>> \o x.cmds) \o y.cmds
        <5>1. <<m>> \in Seq(Strings)
          BY <4>2
        <5> DEFINE f == <<m>>
                   g == x.cmds
                   h == y.cmds
        <5>2. f \in Seq(Strings) /\ g \in Seq(Strings) /\ h \in Seq(Strings)
          BY <4>4, <5>1
        <5> HIDE DEF f, g, h
        <5>3. (f \o g) \o h = f \o (g \o h)
          BY <5>2, ConcatAssociative
        <5> QED
          BY <5>3 DEF f, g, h
      <4>7. z.off + c = d.off + y.off
        BY <3>4, <4>3, <4>4, <4>5
      <4>8. (IF r.status = "Ok" THEN z.bad ELSE z.bad + 1) = d.bad + y.bad
        <5> HIDE DEF r
        <5>1. d.bad = IF r.status = "Ok" THEN x.bad ELSE x.bad + 1
          BY <3>4
        <5> QED
          BY <4>4, <4>5, <5>1
      <4>9. (IF r.status = "Ok" THEN <<m>> \o z.cmds ELSE z.cmds) = d.cmds \o y.cmds
        <5> HIDE DEF r
        <5>1. d.cmds = IF r.status = "Ok" THEN <<m>> \o x.cmds ELSE x.cmds
          BY <3>4
        <5> QED
          BY <4>5, <4>6, <5>1
      <4> HIDE DEF r
      <4> QED
        BY <3>9, <4>5, <4>7, <4>8, <4>9 DEF Joined
    <3> QED
      BY <3>6, <3>7, <3>11
  <2>2. ASSUME NEW t \in Strings, Len(t) =< n + 1 PROVE CutsWell(t, u)
    BY <1>1, <2>1, <2>2
  <2> HIDE DEF CutsWell
  <2> QED
    BY <2>2
<1>4. Len(s) \in S
  <2>1. Len(s) \in Nat
    BY LenProperties DEF Strings
  <2> DEFINE N == Len(s)
  <2> HIDE DEF S, N
  <2>2. \A k \in 0 .. N - 1 : k \in S => k + 1 \in S
    BY <1>3, <2>1 DEF N
  <2>3. 0 .. N \subseteq S
    BY <1>2, <2>1, <2>2, UpTo DEF N
  <2> QED
    BY <2>1, <2>3 DEF N
<1> HIDE DEF CutsWell
<1>5. Len(s) =< Len(s)
  BY LenProperties DEF Strings
<1> QED
  BY <1>4, <1>5

-----------------------------------------------------------------------------
(* The connection. *)

ConnTypes ==
    /\ stream \in Strings
    /\ ran \in [cmds : Seq(Strings), bad : Nat]
    /\ conn \in [open : BOOLEAN, in : Strings, unsent : Nat, wantOut : BOOLEAN,
                 paused : BOOLEAN, touched : BOOLEAN]

\* While the connection is open, framing is intact and what it keeps is the rest
\* of the stream.
Decoded ==
    LET whole == DecodeAll(stream)
    IN  /\ ran.cmds = whole.cmds
        /\ ran.bad = whole.bad + IF whole.broken THEN 1 ELSE 0
        /\ conn.open => ~whole.broken /\ conn.in = Behind(stream, whole.off)

\* The registration is that of the connection's flags, at every step; the flags
\* follow the backlog when the batch is over.
Interest ==
    conn.open =>
       /\ epoll = Registered(conn)
       /\ ~conn.touched => /\ conn.wantOut = (conn.unsent > 0)
                           /\ conn.paused = (conn.unsent > OutLimit)

ConnInv == ConnTypes /\ Decoded /\ Interest

\* try_write leaves a connection whose flags follow its backlog.
LEMMA AfterWriteFacts ==
    ASSUME ConnTypes, NEW c \in AfterWrite
    PROVE  /\ c \in [open : BOOLEAN, in : Strings, unsent : Nat, wantOut : BOOLEAN,
                     paused : BOOLEAN, touched : BOOLEAN]
           /\ c.open = conn.open /\ c.in = conn.in /\ c.touched = conn.touched
           /\ c.wantOut = (c.unsent > 0)
           /\ c.paused = (c.unsent > OutLimit)
<1>1. PICK n \in 0 .. conn.unsent : c = SentSome(conn, n)
  BY DEF AfterWrite
<1> DEFINE left == conn.unsent - n
           w == left > 0
           p == left > OutLimit
<1>2. left \in Nat /\ w \in BOOLEAN /\ p \in BOOLEAN
  BY DEF ConnTypes
<1>3. c = [conn EXCEPT !.unsent = left, !.wantOut = w, !.paused = p]
  BY <1>1 DEF SentSome
<1> HIDE DEF left, w, p
<1>4. /\ c \in [open : BOOLEAN, in : Strings, unsent : Nat, wantOut : BOOLEAN,
                paused : BOOLEAN, touched : BOOLEAN]
      /\ c.open = conn.open /\ c.in = conn.in /\ c.touched = conn.touched
  BY <1>2, <1>3 DEF ConnTypes
<1>5. c.unsent = left /\ c.wantOut = w /\ c.paused = p
  BY <1>3 DEF ConnTypes
<1> QED
  BY <1>4, <1>5 DEF w, p

\* The registration that rearm leaves is that of the new flags.
LEMMA RearmFacts ==
    ASSUME NEW c, epoll = Registered(conn)
    PROVE  Rearm(conn, c) = Registered(c)
BY DEF Rearm, Registered

\* A chunk is decoded as in the whole stream, and the batch will see to the
\* answers.
LEMMA ReceiveFacts ==
    ASSUME ConnTypes, Decoded, conn.open,
           NEW c \in [open : BOOLEAN, in : Strings, unsent : Nat, wantOut : BOOLEAN,
                      paused : BOOLEAN, touched : BOOLEAN],
           c.in = conn.in, NEW chunk \in Strings,
           Receive(c, chunk), stream' = stream \o chunk
    PROVE  /\ ConnTypes' /\ Decoded'
           /\ conn'.wantOut = c.wantOut /\ conn'.paused = c.paused
           /\ conn'.open => conn'.touched
<1> DEFINE a == DecodeAll(stream)
           x == c.in \o chunk
           d == DecodeAll(x)
           w == stream \o chunk
           b == DecodeAll(w)
<1>1. /\ stream \in Strings /\ w \in Strings /\ x \in Strings
      /\ a \in Outcomes(Len(stream)) /\ d \in Outcomes(Len(x)) /\ b \in Outcomes(Len(w))
  <2>1. stream \in Strings /\ w \in Strings /\ x \in Strings
    BY ConcatProperties DEF ConnTypes, Strings
  <2> HIDE DEF w, x
  <2> QED
    BY <2>1, DecodeAllUnfold
<1>2. /\ a.cmds = ran.cmds /\ ~a.broken /\ conn.in = Behind(stream, a.off)
      /\ ran.bad = a.bad + IF a.broken THEN 1 ELSE 0
  BY DEF Decoded
<1>3. b = Joined(a, d)
  BY <1>1, <1>2, AnyCut DEF CutsWell
<1>4. ran' = [cmds |-> ran.cmds \o d.cmds, bad |-> ran.bad + d.bad + IF d.broken THEN 1 ELSE 0]
  BY DEF Receive
<1>5. conn' = [c EXCEPT !.in = Behind(x, d.off), !.open = ~d.broken,
                        !.touched = c.touched \/ ~d.broken, !.unsent = c.unsent + Len(d.cmds)]
  BY DEF Receive
<1>6. stream' = w
  OBVIOUS
<1>7. a.off \in 0 .. Len(stream) /\ d.off \in 0 .. Len(x)
  <2> HIDE DEF a, d, x
  <2> QED
    BY <1>1 DEF Outcomes
<1>8. Behind(x, d.off) = Behind(w, b.off) /\ Behind(x, d.off) \in Strings
  <2> DEFINE i == a.off
             j == d.off
  <2>1. b.off = i + j
    BY <1>3 DEF Joined
  <2>2. x = Behind(w, i)
    <3>1. i \in 0 .. Len(stream) /\ conn.in = Behind(stream, i)
      BY <1>2, <1>7
    <3> HIDE DEF i
    <3>2. Behind(stream \o chunk, i) = Behind(stream, i) \o chunk
      BY <1>1, <3>1, BehindMore
    <3> QED
      BY <3>1, <3>2
  <2>3. Len(stream) \in Nat /\ Len(chunk) \in Nat /\ Len(w) = Len(stream) + Len(chunk)
    BY <1>1, ConcatProperties, LenProperties DEF Strings
  <2>4. i \in 0 .. Len(w) /\ j \in 0 .. Len(x)
    BY <1>7, <2>3
  <2> HIDE DEF i, j, w, x
  <2>5. Len(x) = Len(w) - i
    BY <1>1, <2>2, <2>4, BehindFacts
  <2>6. Behind(Behind(w, i), j) = Behind(w, i + j)
    BY <1>1, <2>4, <2>5, BehindBehind
  <2>7. Behind(x, j) \in Strings
    BY <1>1, <2>4, BehindFacts
  <2> QED
    BY <2>1, <2>2, <2>6, <2>7 DEF j
<1> HIDE DEF a, x, d, w, b
<1>9. /\ d.cmds \in Seq(Strings) /\ d.bad \in Nat /\ d.broken \in BOOLEAN
      /\ a.cmds \in Seq(Strings) /\ a.bad \in Nat /\ b.broken = d.broken
      /\ b.cmds = a.cmds \o d.cmds /\ b.bad = a.bad + d.bad
  BY <1>1, <1>3 DEF Outcomes, Joined
<1> DEFINE rest == Behind(x, d.off)
           op == ~d.broken
           to == c.touched \/ ~d.broken
           un == c.unsent + Len(d.cmds)
           g == d.cmds
           h == ran.bad + d.bad + IF d.broken THEN 1 ELSE 0
<1>10. rest \in Strings /\ op \in BOOLEAN /\ to \in BOOLEAN /\ un \in Nat
  <2>1. Len(d.cmds) \in Nat
    BY <1>9, LenProperties
  <2> QED
    BY <1>8, <2>1
<1>11. op => to
  OBVIOUS
<1>12. conn' = [c EXCEPT !.in = rest, !.open = op, !.touched = to, !.unsent = un]
  BY <1>5
<1>13. ran'.cmds = b.cmds /\ ran'.bad = b.bad + (IF b.broken THEN 1 ELSE 0)
  <2>1. ran'.cmds = ran.cmds \o d.cmds /\ ran'.bad = h
    BY <1>4
  <2>2. h = b.bad + (IF b.broken THEN 1 ELSE 0)
    <3>1. ran.bad = a.bad
      BY <1>2, <1>9
    <3> QED
      BY <1>9, <3>1
  <2> HIDE DEF h
  <2> QED
    BY <1>2, <1>9, <2>1, <2>2
<1>14. ran' \in [cmds : Seq(Strings), bad : Nat]
  <2>1. ran.cmds \o d.cmds \in Seq(Strings)
    BY <1>2, <1>9, ConcatProperties
  <2>2. h \in Nat
    BY <1>9 DEF ConnTypes
  <2> DEFINE y == ran.cmds \o d.cmds
  <2>3. ran' = [cmds |-> y, bad |-> h]
    BY <1>4
  <2> HIDE DEF y, h
  <2> QED
    BY <2>1, <2>2, <2>3 DEF y
<1>15. conn'.open => ~b.broken /\ conn'.in = Behind(w, b.off)
  <2>1. conn'.open = op /\ conn'.in = rest
    <3> HIDE DEF rest, op, to, un
    <3> QED
      BY <1>12
  <2>2. op => ~b.broken
    BY <1>9
  <2> HIDE DEF op
  <2> QED
    BY <1>8, <2>1, <2>2
<1>16. conn' \in [open : BOOLEAN, in : Strings, unsent : Nat, wantOut : BOOLEAN,
                  paused : BOOLEAN, touched : BOOLEAN]
  <2> HIDE DEF rest, op, to, un
  <2> QED
    BY <1>10, <1>12
<1>17. conn'.wantOut = c.wantOut /\ conn'.paused = c.paused /\ (conn'.open => conn'.touched)
  <2> HIDE DEF rest, op, to, un
  <2> QED
    BY <1>11, <1>12
<1>18. Decoded'
  <2>1. DecodeAll(stream)' = b
    BY <1>6 DEF b
  <2> QED
    BY <1>6, <1>13, <1>15, <2>1 DEF Decoded
<1> QED
  BY <1>1, <1>6, <1>14, <1>16, <1>17, <1>18 DEF ConnTypes

\* Nothing was received yet.
LEMMA ConnInitInv == ConnInit => ConnInv
<1> SUFFICES ASSUME ConnInit PROVE ConnInv
  OBVIOUS
<1>1. stream \in Strings /\ stream = <<>> /\ Len(stream) = 0
  BY EmptySeq DEF ConnInit, Strings
<1>2. Decode(stream) = Result("Incomplete", 0)
  BY <1>1 DEF Decode, HeaderCells
<1> DEFINE a == DecodeAll(stream)
<1>3. a.cmds = <<>> /\ a.bad = 0 /\ a.off = 0 /\ ~a.broken
  <2>1. Decode(stream).consumed = 0 /\ Decode(stream).status # "Malformed"
    BY <1>2 DEF Result
  <2> DEFINE k == Decode(stream).status = "Malformed"
  <2>2. ~k
    BY <2>1
  <2>3. a = [cmds |-> <<>>, bad |-> 0, off |-> 0, broken |-> k]
    BY <1>1, <2>1, DecodeAllUnfold
  <2> HIDE DEF k, a
  <2> QED
    BY <2>2, <2>3
<1>4. ConnTypes
  <2>1. <<>> \in Strings /\ <<>> \in Seq(Strings)
    BY EmptySeq DEF Strings
  <2> QED
    BY <1>1, <2>1 DEF ConnInit, ConnTypes
<1>5. Decoded
  <2>1. Behind(stream, 0) = <<>>
    BY <1>1, BehindNone
  <2> HIDE DEF a
  <2>2. ran.cmds = a.cmds /\ ran.bad = a.bad + (IF a.broken THEN 1 ELSE 0)
        /\ ~a.broken /\ conn.in = Behind(stream, a.off)
    BY <1>3, <2>1 DEF ConnInit
  <2> QED
    BY <2>2 DEF Decoded, a
<1>6. Interest
  <2>1. epoll = Registered(conn)
    BY DEF ConnInit, Registered
  <2>2. conn.wantOut = (conn.unsent > 0) /\ conn.paused = (conn.unsent > OutLimit)
    <3>1. conn.wantOut = FALSE /\ conn.paused = FALSE /\ conn.unsent = 0
      BY DEF ConnInit
    <3>2. ~(0 > 0) /\ ~(0 > OutLimit)
      BY ConnAssumption
    <3>3. (conn.unsent > 0) = FALSE /\ (conn.unsent > OutLimit) = FALSE
      BY <3>1, <3>2
    <3> QED
      BY <3>1, <3>3
  <2> QED
    BY <2>1, <2>2 DEF Interest
<1> QED
  BY <1>4, <1>5, <1>6 DEF ConnInv

\* Each step keeps the invariant.
LEMMA ConnStep == ConnInv /\ [ConnNext]_connVars => ConnInv'
<1> SUFFICES ASSUME ConnInv, [ConnNext]_connVars PROVE ConnInv'
  OBVIOUS
<1>0. ConnTypes /\ Decoded /\ Interest
  BY DEF ConnInv
<1>1. CASE UNCHANGED connVars
  BY <1>0, <1>1 DEF connVars, ConnInv, ConnTypes, Decoded, Interest, Registered
<1>2. ASSUME ReadChunk PROVE ConnInv'
  <2>1. conn.open
    BY <1>2 DEF ReadChunk
  <2>2. PICK c \in {conn} \cup (IF epoll.out THEN AfterWrite ELSE {}), n \in 1 .. MaxChunk :
           /\ epoll' = Rearm(conn, c)
           /\ \E chunk \in [1 .. n -> Cells] : Receive(c, chunk) /\ stream' = stream \o chunk
    BY <1>2 DEF ReadChunk
  <2>3. PICK chunk \in [1 .. n -> Cells] : Receive(c, chunk) /\ stream' = stream \o chunk
    BY <2>2
  <2>4. chunk \in Strings
    <3>1. n \in Nat
      BY ConnAssumption
    <3> QED
      BY <3>1 DEF Strings
  <2>5. /\ c \in [open : BOOLEAN, in : Strings, unsent : Nat, wantOut : BOOLEAN,
                  paused : BOOLEAN, touched : BOOLEAN]
        /\ c.in = conn.in
    <3>1. CASE c = conn
      BY <1>0, <3>1 DEF ConnTypes
    <3>2. CASE c \in AfterWrite
      BY <1>0, <3>2, AfterWriteFacts
    <3> QED
      BY <2>2, <3>1, <3>2
  <2>6. /\ ConnTypes' /\ Decoded'
        /\ conn'.wantOut = c.wantOut /\ conn'.paused = c.paused
        /\ conn'.open => conn'.touched
    BY <1>0, <2>1, <2>3, <2>4, <2>5, ReceiveFacts
  <2>7. epoll' = Registered(c)
    BY <1>0, <2>1, <2>2, RearmFacts DEF Interest
  <2>8. Interest'
    BY <2>6, <2>7 DEF Interest, Registered
  <2> QED
    BY <2>6, <2>8 DEF ConnInv
<1>3. ASSUME Writable PROVE ConnInv'
  <2>1. conn.open /\ UNCHANGED <<ran, stream>>
    BY <1>3 DEF Writable
  <2>2. PICK c \in AfterWrite : conn' = c /\ epoll' = Rearm(conn, c)
    BY <1>3 DEF Writable
  <2>3. epoll' = Registered(conn')
    BY <1>0, <2>1, <2>2, RearmFacts DEF Interest
  <2>4. /\ conn' \in [open : BOOLEAN, in : Strings, unsent : Nat, wantOut : BOOLEAN,
                      paused : BOOLEAN, touched : BOOLEAN]
        /\ conn'.open = conn.open /\ conn'.in = conn.in
        /\ conn'.wantOut = (conn'.unsent > 0)
        /\ conn'.paused = (conn'.unsent > OutLimit)
    BY <1>0, <2>2, AfterWriteFacts
  <2>5. ConnTypes'
    BY <1>0, <2>1, <2>4 DEF ConnTypes
  <2>6. Decoded'
    BY <1>0, <2>1, <2>4 DEF Decoded
  <2>7. Interest'
    <3>1. Registered(conn)' = Registered(conn')
      BY DEF Registered
    <3> QED
      BY <2>3, <2>4, <3>1 DEF Interest
  <2> QED
    BY <2>5, <2>6, <2>7 DEF ConnInv
<1>4. ASSUME ReportToMaker PROVE ConnInv'
  <2>1. conn' = [conn EXCEPT !.unsent = @ + 1, !.touched = TRUE] /\ UNCHANGED <<epoll, ran, stream>>
    BY <1>4 DEF ReportToMaker
  <2>2. /\ conn' \in [open : BOOLEAN, in : Strings, unsent : Nat, wantOut : BOOLEAN,
                      paused : BOOLEAN, touched : BOOLEAN]
        /\ conn'.open = conn.open /\ conn'.in = conn.in
        /\ conn'.wantOut = conn.wantOut /\ conn'.paused = conn.paused /\ conn'.touched
    <3> DEFINE un == conn.unsent + 1
    <3>1. un \in Nat
      BY <1>0 DEF ConnTypes
    <3>2. conn' = [conn EXCEPT !.unsent = un, !.touched = TRUE]
      BY <2>1
    <3> HIDE DEF un
    <3> QED
      BY <1>0, <3>1, <3>2 DEF ConnTypes
  <2>3. ConnTypes' /\ Decoded'
    BY <1>0, <2>1, <2>2 DEF ConnTypes, Decoded
  <2>4. Interest'
    BY <1>0, <2>1, <2>2 DEF Interest, Registered
  <2> QED
    BY <2>3, <2>4 DEF ConnInv
<1>5. ASSUME Answer PROVE ConnInv'
  <2>1. conn.open /\ UNCHANGED <<ran, stream>>
    BY <1>5 DEF Answer
  <2>2. PICK c \in AfterWrite : conn' = [c EXCEPT !.touched = FALSE] /\ epoll' = Rearm(conn, c)
    BY <1>5 DEF Answer
  <2>3. epoll' = Registered(c)
    BY <1>0, <2>1, <2>2, RearmFacts DEF Interest
  <2>4. /\ c \in [open : BOOLEAN, in : Strings, unsent : Nat, wantOut : BOOLEAN,
                  paused : BOOLEAN, touched : BOOLEAN]
        /\ c.open = conn.open /\ c.in = conn.in
        /\ c.wantOut = (c.unsent > 0)
        /\ c.paused = (c.unsent > OutLimit)
    BY <1>0, AfterWriteFacts
  <2>5. /\ conn' \in [open : BOOLEAN, in : Strings, unsent : Nat, wantOut : BOOLEAN,
                      paused : BOOLEAN, touched : BOOLEAN]
        /\ conn'.open = c.open /\ conn'.in = c.in /\ conn'.unsent = c.unsent
        /\ conn'.wantOut = c.wantOut /\ conn'.paused = c.paused
    BY <2>2, <2>4
  <2>6. ConnTypes' /\ Decoded'
    BY <1>0, <2>1, <2>4, <2>5 DEF ConnTypes, Decoded
  <2>7. Interest'
    BY <2>3, <2>4, <2>5 DEF Interest, Registered
  <2> QED
    BY <2>6, <2>7 DEF ConnInv
<1>6. ASSUME DropConn PROVE ConnInv'
  <2>1. conn' = [conn EXCEPT !.open = FALSE] /\ UNCHANGED <<epoll, ran, stream>>
    BY <1>6 DEF DropConn
  <2>2. /\ conn' \in [open : BOOLEAN, in : Strings, unsent : Nat, wantOut : BOOLEAN,
                      paused : BOOLEAN, touched : BOOLEAN]
        /\ ~conn'.open
    BY <1>0, <2>1 DEF ConnTypes
  <2> QED
    BY <1>0, <2>1, <2>2 DEF ConnInv, ConnTypes, Decoded, Interest
<1>7. ASSUME ConnClosed PROVE ConnInv'
  BY <1>1, <1>7 DEF ConnClosed
<1> QED
  BY <1>1, <1>2, <1>3, <1>4, <1>5, <1>6, <1>7 DEF ConnNext, Readable, HungUp

\* The invariant says what the properties say.
LEMMA ConnInvImplies ==
    ASSUME ConnInv, \E c \in Cells : HeaderCells =< c
    PROVE  CommandsAreTheStream
<1> DEFINE whole == DecodeAll(stream)
<1>1. /\ ran.cmds = whole.cmds
      /\ ran.bad = whole.bad + IF whole.broken THEN 1 ELSE 0
      /\ conn.open => ~whole.broken /\ conn.in = Behind(stream, whole.off)
      /\ stream \in Strings
  BY DEF ConnInv, Decoded, ConnTypes
<1>2. ASSUME conn.open, NEW n \in Cells, \A c \in Cells : c =< n
      PROVE  Len(conn.in) < n
  <2> DEFINE t == conn.in
  <2>1. Decode(t).status = "Incomplete"
    BY <1>1, <1>2, AnyCut DEF CutsWell
  <2>2. t \in Strings
    BY DEF ConnInv, ConnTypes
  <2> HIDE DEF t
  <2>3. Len(t) \in Nat /\ n \in Nat /\ HeaderCells =< n
    <3>1. PICK c \in Cells : HeaderCells =< c
      OBVIOUS
    <3>2. c =< n /\ c \in Nat /\ n \in Nat
      BY <1>2, ConnAssumption
    <3> QED
      BY <2>2, <3>1, <3>2, LenProperties DEF Strings, HeaderCells
  <2>4. CASE Len(t) < HeaderCells
    BY <2>3, <2>4 DEF HeaderCells, t
  <2>5. CASE ~(Len(t) < HeaderCells)
    <3>1. t[1] \in Cells
      <4>1. 1 \in 1 .. Len(t)
        BY <2>3, <2>5 DEF HeaderCells
      <4> QED
        BY <2>2, <4>1, ElementOfSeq DEF Strings
    <3>2. Len(t) < t[1]
      BY <2>1, <2>5 DEF Decode, Result
    <3>3. t[1] =< n /\ t[1] \in Nat
      BY <1>2, <3>1, ConnAssumption
    <3> QED
      BY <2>3, <3>2, <3>3 DEF t
  <2> QED
    BY <2>4, <2>5
<1> QED
  BY <1>1, <1>2 DEF CommandsAreTheStream

\* gateway.hpp:334-382 (the read loop) against decode_stream of wire_file.hpp:30,
\* for every alphabet of cells, every length of the stream and of the chunks of
\* recv: the commands that a connection executed are those of the whole stream
\* decoded at once, wherever it was cut.
THEOREM AnyChunksAreTheStream ==
    ASSUME \E c \in Cells : HeaderCells =< c
    PROVE  ConnSpec => []CommandsAreTheStream
<1>1. ConnInv => CommandsAreTheStream
  BY ConnInvImplies
<1> QED
  BY <1>1, ConnInitInv, ConnStep, PTL DEF ConnSpec

\* gateway.hpp:233-253 and 413-416 (rearm, try_write, the end of a batch): between
\* batches the registration with epoll is exactly the one that the backlog
\* needs, for every limit.
THEOREM EpollFollowsBacklog == ConnSpec => []NobodyIsForgotten
<1>1. ConnInv => NobodyIsForgotten
  <2> SUFFICES ASSUME ConnInv, conn.open, ~conn.touched
               PROVE  epoll = [in |-> conn.unsent =< OutLimit, out |-> conn.unsent > 0]
    BY DEF NobodyIsForgotten
  <2>1. epoll = [in |-> ~conn.paused, out |-> conn.wantOut]
    BY DEF ConnInv, Interest, Registered
  <2>2. conn.wantOut = (conn.unsent > 0) /\ conn.paused = (conn.unsent > OutLimit)
    BY DEF ConnInv, Interest
  <2>3. conn.unsent \in Nat
    BY DEF ConnInv, ConnTypes
  <2>4. (conn.unsent =< OutLimit) = ~(conn.unsent > OutLimit)
    BY <2>3, ConnAssumption
  <2> DEFINE p == conn.unsent > OutLimit
             w == conn.unsent > 0
             q == conn.unsent =< OutLimit
  <2>5. conn.wantOut = w /\ conn.paused = p /\ q = ~p
    BY <2>2, <2>4
  <2> HIDE DEF p, w, q
  <2>6. epoll = [in |-> q, out |-> w]
    BY <2>1, <2>5
  <2> QED
    BY <2>6 DEF q, w
<1> QED
  BY <1>1, ConnInitInv, ConnStep, PTL DEF ConnSpec
=============================================================================
