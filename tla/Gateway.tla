------------------------------ MODULE Gateway ------------------------------
(***************************************************************************)
(* Sessions and identities in tools/gateway.hpp: a connection is an owner, *)
(* client order ids are translated to exchange ids (ClientIdMap of         *)
(* include/exsim/client_ids.hpp) before the risk gate and the engine see   *)
(* them, and ReportSink translates every event back for each party.        *)
(*                                                                         *)
(* The engine is ReferenceBook behind RiskGate, on exchange ids.  A        *)
(* command runs to its end before the next; each step of the engine hands  *)
(* its events to the sink.  `told' is what the last step wrote to          *)
(* connections.  Journal, replicas and the order of flush and answer are   *)
(* the subject of module Replication.                                      *)
(***************************************************************************)
EXTENDS RiskGate

CONSTANTS
    Fds,            \* file descriptors of connections, which are used again
    ClientIds,      \* the ids clients use, besides 0
    Deployments     \* records: limits, oneClient, fds, varieties of orders, and
                    \* the bounds maxQty, maxPrice, maxId and restarts

ASSUME GatewayAssumption ==
    /\ NoId = 0 /\ OrderIds \subseteq Nat /\ Owners \subseteq Nat
    /\ \A d \in Deployments :
          /\ d.varieties \subseteq Varieties /\ d.maxQty \in 0 .. MaxQty
          /\ d.maxId \in Nat /\ 1 .. d.maxId \subseteq OrderIds

VARIABLES
    config,         \* the deployment
    conns,          \* conns: descriptor -> owner of the connection
    ownerFd,        \* owner_fd
    ids,            \* ClientIdMap: fwd_, rev_ and next_
    nextOwner,      \* next_owner
    cur,            \* the command under way, as the sink sees it
    told,           \* what the last step wrote: replies, and reports to makers
    logged          \* the highest owner and order id in the journal

sessionVars == <<config, conns, ownerFd, nextOwner>>
bookVars == <<book, index, taker, pc, events>>
allVars == <<bookVars, gateVars, sessionVars, ids, cur, told, logged>>

NoCommand == [fd |-> 0, cid |-> NoId, id |-> NoId, mentioned |-> {}]
NoReports == [replies |-> <<>>, makers |-> {}]
Empty == << >>
With(f, k, v) == [x \in DOMAIN f \cup {k} |-> IF x = k THEN v ELSE f[x]]
Without(f, keys) == [k \in DOMAIN f \ keys |-> f[k]]
Larger(a, b) == IF a < b THEN b ELSE a

GatewayInit ==
    /\ config \in Deployments
    /\ limits = config.limits
    /\ Init
    /\ GateInit
    /\ conns = Empty
    /\ ownerFd = Empty
    /\ ids = [fwd |-> Empty, rev |-> Empty, next |-> 1]
    /\ nextOwner = 1
    /\ cur = NoCommand
    /\ told = NoReports
    /\ logged = [owner |-> 0, id |-> 0, restarts |-> 0]

-----------------------------------------------------------------------------
(* ClientIdMap. *)

Key(owner, cid) == [owner |-> owner, cid |-> cid]

\* for_new, as the map afterwards and the exchange id.
ForNewAlways(k) ==
    [map |-> [fwd |-> With(ids.fwd, k, ids.next), rev |-> With(ids.rev, ids.next, k),
              next |-> ids.next + 1],
     id |-> ids.next]
ForNew(k) ==
    IF k.cid = NoId THEN [map |-> ids, id |-> NoId]
    ELSE IF k \in DOMAIN ids.fwd THEN [map |-> ids, id |-> ids.fwd[k]]
    ELSE [map |-> [fwd |-> With(ids.fwd, k, ids.next), rev |-> With(ids.rev, ids.next, k),
                   next |-> ids.next + 1],
          id |-> ids.next]

Find(k) == [map |-> ids, id |-> IF k \in DOMAIN ids.fwd THEN ids.fwd[k] ELSE NoId]

ToClientAny(map, x, viewer) == IF x \in DOMAIN map.rev THEN map.rev[x].cid ELSE NoId
ToClient(map, x, viewer) ==
    IF x \in DOMAIN map.rev /\ map.rev[x].owner = viewer THEN map.rev[x].cid ELSE NoId

OwnerOf(map, x) == IF x \in DOMAIN map.rev THEN map.rev[x].owner ELSE 0

Retire(map, gone) ==
    LET known == gone \cap DOMAIN map.rev
    IN  [map EXCEPT !.fwd = Without(@, {map.rev[x] : x \in known}), !.rev = Without(@, known)]

-----------------------------------------------------------------------------
(* ReportSink, and what follows gate.process in the loop. *)

\* The view of the client whose command this is.
Reply(map, c, w, e) ==
    [e EXCEPT !.id = IF @ = c.id THEN c.cid ELSE ToClient(map, @, w),
              !.maker = IF @ # NoId THEN ToClient(map, @, w) ELSE @]

\* The report to the maker of a trade, if its session is another and still there.
MakerReports(map, w, e) ==
    LET owner == OwnerOf(map, e.maker)
    IN  IF e.type = "Trade" /\ owner # w /\ owner \in DOMAIN ownerFd
        THEN {[fd |-> ownerFd[owner],
               event |-> [e EXCEPT !.id = NoId, !.maker = ToClient(map, @, owner)]]}
        ELSE {}

Elements(seq) == {seq[i] : i \in DOMAIN seq}
Mentioned(c, evs) == (UNION {{e.id, e.maker} : e \in Elements(evs)}) \ {c.id, NoId}

\* Orders of the command that are no longer live release their client ids.
ReleasedOwn(c) == {x \in {c.id} : x # NoId /\ x \notin DOMAIN index'}
Released(c) == {x \in c.mentioned \cup {c.id} : x # NoId /\ x \notin DOMAIN index'}

\* The events of this step go to the sink; at the end of the command ids are
\* released.
Sink(map, c) ==
    LET w == conns[c.fd]
        d == [c EXCEPT !.mentioned = @ \cup Mentioned(c, events')]
    IN  /\ told' = [replies |-> [k \in DOMAIN events' |-> Reply(map, c, w, events'[k])],
                    makers |-> UNION {MakerReports(map, w, e) : e \in Elements(events')}]
        /\ \/ pc' = "idle" /\ cur' = NoCommand /\ ids' = Retire(map, Released(d))
           \/ pc' # "idle" /\ cur' = d /\ ids' = map

\* A command is read from connection fd: named, stamped, logged, processed.
Handle(fd, kind, m) ==
    LET w == conns[fd]
        key == Key(w, m.id)
        named == IF kind = "New" THEN ForNew(key) ELSE Find(key)
        x == named.id
        c == IF kind = "New" THEN [m EXCEPT !.id = x, !.owner = w] ELSE [m EXCEPT !.id = x]
    IN  /\ pc = "idle"
        /\ named.map.next =< config.maxId + 1
        /\ logged' = [logged EXCEPT !.owner = Larger(@, w), !.id = Larger(@, x)]
        /\ Process(kind, c, w)
        /\ Sink(named.map, [fd |-> fd, cid |-> m.id, id |-> x, mentioned |-> {}])
        /\ UNCHANGED sessionVars

Continue ==
    /\ Proceed
    /\ Sink(ids, cur)
    /\ UNCHANGED <<sessionVars, logged>>

-----------------------------------------------------------------------------
(* Connections, and a restart. *)

\* accept: the next owner id, whatever the descriptor was before.
AcceptConn(fd) ==
    /\ pc = "idle"
    /\ fd \in config.fds \ DOMAIN conns
    /\ nextOwner \in Owners
    /\ conns' = With(conns, fd, nextOwner)
    /\ ownerFd' = With(ownerFd, nextOwner, fd)
    /\ nextOwner' = nextOwner + 1
    /\ UNCHANGED <<bookVars, gateVars, config, ids, cur, told, logged>>

\* close_conn.  The orders of the session stay.
CloseConn(fd) ==
    /\ pc = "idle"
    /\ ~config.oneClient
    /\ conns' = Without(conns, {fd})
    /\ ownerFd' = Without(ownerFd, {conns[fd]})
    /\ UNCHANGED <<bookVars, gateVars, config, nextOwner, ids, cur, told, logged>>

\* The server is restarted, or a replica promoted: replaying the journal gives
\* the same book and gate; owners and exchange ids go on above the journal's.
Restart ==
    /\ pc = "idle"
    /\ logged.restarts < config.restarts
    /\ logged' = [logged EXCEPT !.restarts = @ + 1]
    /\ conns' = Empty
    /\ ownerFd' = Empty
    /\ ids' = [fwd |-> Empty, rev |-> Empty, next |-> logged.id + 1]
    /\ nextOwner' = logged.owner + 1
    /\ UNCHANGED <<bookVars, gateVars, config, cur, told>>

PassTime == Tick /\ UNCHANGED <<bookVars, sessionVars, ids, cur, told, logged>>

-----------------------------------------------------------------------------
(* The book as the client knows it, with its own ids. *)

Cid(x) == IF x \in DOMAIN ids.rev THEN ids.rev[x].cid ELSE NoId

LocalQueue(q) == [i \in DOMAIN q |-> [q[i] EXCEPT !.id = Cid(@)]]

Local == INSTANCE ReferenceBook WITH
    book <- [s \in Sides |-> [p \in Prices |-> LocalQueue(book[s][p])]],
    index <- [c \in {Cid(x) : x \in DOMAIN index} |->
                index[CHOOSE x \in DOMAIN index : Cid(x) = c]],
    taker <- [taker EXCEPT !.id = Cid(@)],
    events <- told.replies

\* What clients send: limit orders, and the ill-formed ones that the id map and
\* the gate look at (no id, no quantity).
ClientNew(w) ==
    {NewOrder(cid, w, side, "Limit", p, n, v) :
       cid \in ClientIds, side \in Sides, p \in MinPrice .. config.maxPrice,
       n \in 1 .. config.maxQty, v \in config.varieties}
      \cup {NewOrder(cid, w, "Buy", "Limit", MinPrice, n, v) :
              cid \in {NoId} \cup ClientIds, n \in {0}, v \in config.varieties}
ClientModify ==
    [id : ClientIds, side : {"Buy"}, price : MinPrice .. config.maxPrice, qty : 0 .. config.maxQty]
ClientCancel == [id : {NoId} \cup ClientIds, side : {"Buy"}]

GatewayNext ==
    \/ \E fd \in DOMAIN conns :
          \/ \E c \in ClientNew(conns[fd]) : Handle(fd, "New", c)
          \/ \E c \in ClientModify : Handle(fd, "Modify", c)
          \/ \E c \in ClientCancel : Handle(fd, "Cancel", c)
          \/ CloseConn(fd)
    \/ Continue
    \/ \E fd \in Fds : AcceptConn(fd)
    \/ Restart
    \/ PassTime

GatewaySpec == GatewayInit /\ [][GatewayNext]_allVars

-----------------------------------------------------------------------------
(* Properties. *)

\* owner_fd is the inverse of conns, so conns.at() in the sink finds the session
\* it looks for, and the two directions of the id map agree (gateway.hpp:192-194,
\* client_ids.hpp:120-122).
SessionsOK ==
    /\ conns \in [DOMAIN conns -> Owners] /\ DOMAIN conns \subseteq Fds
    /\ DOMAIN ownerFd = {conns[fd] : fd \in DOMAIN conns}
    /\ \A fd \in DOMAIN conns : ownerFd[conns[fd]] = fd
    /\ \A k \in DOMAIN ids.fwd : ids.rev[ids.fwd[k]] = k
    /\ \A x \in DOMAIN ids.rev : ids.fwd[ids.rev[x]] = x

OwnerInBook(x) ==
    LET q == book[index[x].side][index[x].price]
    IN  q[Position(q, x)].owner

\* Between commands the map follows the book (client_ids.hpp:101 and 17-19):
\* a client id is held by a live order of that owner and no other, every live
\* order of a connected client can be named by it, whichever way orders ended
\* (filled, cancelled, self-trade, rejected, full book) and however often the
\* server restarted, and no exchange id is given out twice.  Sessions and names are
\* consistent also inside a command.
IdsFollowTheBook ==
    /\ SessionsOK
    /\ pc = "idle" =>
         /\ \A x \in DOMAIN ids.rev : x \in DOMAIN index /\ ids.rev[x].owner = OwnerInBook(x)
         /\ \A x \in DOMAIN index :
               /\ x < ids.next
               /\ OwnerInBook(x) \in DOMAIN ownerFd => x \in DOMAIN ids.rev

\* The reports of a trade between the taker and the order at the front.
TradeReported ==
    Matching =>
       \A k \in DOMAIN events' :
          events'[k].type = "Trade" =>
             LET w == Maker.owner
                 mine == {c \in ClientIds : Key(w, c) \in DOMAIN ids.fwd
                                            /\ ids.fwd[Key(w, c)] = Maker.id}
                 own == w = taker.owner
                 to == {fd \in DOMAIN conns : conns[fd] = w /\ ~own}
             IN  /\ {r.fd : r \in told'.makers} = to
                 /\ \A r \in told'.makers : r.event.maker \in mine
                 /\ told'.replies[k].maker \in (IF own THEN mine ELSE {NoId})

\* gateway.hpp:19, "Every party to a trade gets a report", and client_ids.hpp:14,
\* "an order's owner sees its own client id, and anyone else sees 0": the maker's
\* session, if there is one, is told of its own order, nobody else is told, and
\* the taker learns the maker's id only if the order is its own.
TradesAreReported == [][TradeReported]_allVars

RiskReasons == {"RiskMaxQty", "RiskMaxNotional", "RiskCollar", "UnknownOwner", "RiskRateLimit"}

RiskRejection ==
    LET reason == told'.replies[1].reason
    IN  /\ told'.replies # <<>> /\ reason \in RiskReasons
        /\ \E c \in ClientModify \cup ClientNew(1) : Local!Reject(c, reason)

\* A book that is given the client's commands as they are, but for those that
\* the gate turns down.
LocalNext ==
    \/ RiskRejection
    \/ Local!Match \/ Local!FinishMatch
    \/ \E c \in ClientCancel : Local!Cancel(c)
    \/ \E c \in ClientModify : Local!Modify(c)
    \/ \E c \in ClientNew(1) : Local!Add(c)

\* client_ids.hpp:19-20, "a client's report stream is identical to what a local
\* engine run on its own ids produces": for a client that is alone, the reports
\* and the book in its own ids are those of a book that never heard of exchange
\* ids, but for rejections by the risk gate.
LocalEngine == Local!Init /\ [][config.oneClient => LocalNext]_(Local!vars)
=============================================================================
