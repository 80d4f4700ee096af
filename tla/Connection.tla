----------------------------- MODULE Connection -----------------------------
(***************************************************************************)
(* One client connection of tools/gateway.hpp: how the bytes it receives   *)
(* become commands (wire::decode of protocol.hpp in the read loop), and    *)
(* how its output buffer, the interest it registers with epoll and the     *)
(* pause of a slow reader follow one another.                              *)
(*                                                                         *)
(* The stream is a sequence of cells.  A header is two cells, the length   *)
(* and the type; a type that is neither a new order nor a cancel stands    *)
(* for an unknown type, a wrong version and every command of a fixed size  *)
(* that this alphabet does not have.  The output buffer is the number of   *)
(* reports that were not sent.                                             *)
(***************************************************************************)
EXTENDS Integers, Sequences

CONSTANTS
    Cells,           \* the values of a cell, numbers from 0
    MaxStream,       \* bound: cells received on the connection
    MaxChunk,        \* bound: cells of one recv
    OutLimit,        \* the backlog above which the connection is paused
    MaxUnsent        \* bound: reports that were not sent

ASSUME ConnAssumption ==
    Cells \subseteq Nat /\ MaxStream \in Nat /\ MaxChunk \in Nat /\ OutLimit \in Nat

VARIABLES
    conn,            \* Conn
    epoll,           \* what the connection is registered for
    ran,             \* the commands executed and the malformed messages counted
    stream           \* history: every cell received

connVars == <<conn, epoll, ran, stream>>

-----------------------------------------------------------------------------
(* protocol.hpp *)

HeaderCells == 2
NewMsg == 1
CancelMsg == 2
SizeOf == [t \in {NewMsg, CancelMsg} |-> IF t = NewMsg THEN 3 ELSE 2]

Result(status, consumed) == [status |-> status, consumed |-> consumed]

\* decode, of the cells s.
Decode(s) ==
    IF Len(s) < HeaderCells THEN Result("Incomplete", 0)
    ELSE LET length == s[1]
             type == s[2]
         IN  IF length < HeaderCells THEN Result("Malformed", 0)
             ELSE IF Len(s) < length THEN Result("Incomplete", 0)
             ELSE IF \/ type \notin {NewMsg, CancelMsg}
                     \/ length # SizeOf[type]
                     \/ type = NewMsg /\ s[3] > 1
                  THEN Result("Malformed", length)
             ELSE Result("Ok", length)

Behind(s, off) == SubSeq(s, off + 1, Len(s))

\* The loop that decodes s, from its first cell to the first that cannot be
\* decoded: the commands, how many messages were skipped, where it stopped and
\* whether framing was lost.  Both the read loop and decode_stream have it.
DecodeAll(s) ==
    LET Loop[off \in 0 .. Len(s)] ==
            LET r == Decode(Behind(s, off))
            IN  IF r.consumed = 0
                THEN [cmds |-> <<>>, bad |-> 0, off |-> off, broken |-> r.status = "Malformed"]
                ELSE LET rest == Loop[off + r.consumed]
                     IN  IF r.status = "Ok"
                         THEN [rest EXCEPT !.cmds = <<SubSeq(s, off + 1, off + r.consumed)>> \o @]
                         ELSE [rest EXCEPT !.bad = @ + 1]
    IN  Loop[0]

-----------------------------------------------------------------------------
(* gateway.hpp *)

\* rearm, when it is called: the interest follows the connection.
Registered(c) == [in |-> ~c.paused, out |-> c.wantOut]

\* try_write when the socket takes n reports.
SentSome(c, n) ==
    LET left == c.unsent - n
    IN  [c EXCEPT !.unsent = left, !.wantOut = left > 0, !.paused = left > OutLimit]

\* The registration is renewed for the output only.
RearmOutOnly(old, new) == IF old.wantOut # new.wantOut THEN Registered(new) ELSE epoll

Rearm(old, new) ==
    IF old.wantOut # new.wantOut \/ old.paused # new.paused THEN Registered(new) ELSE epoll

\* The connection after try_write, whatever the socket takes.
AfterWrite == {SentSome(conn, n) : n \in 0 .. conn.unsent}

\* recv of a chunk by the connection c, and the commands in it.  What follows
\* the last whole message is kept for the next time; lost framing closes the
\* connection, and the answers to the commands ahead of it are lost.
ReceiveForgets(c, chunk) ==
    LET d == DecodeAll(c.in \o chunk)
    IN  /\ ran' = [cmds |-> ran.cmds \o d.cmds,
                   bad |-> ran.bad + d.bad + IF d.broken THEN 1 ELSE 0]
        /\ conn' = [c EXCEPT !.in = <<>>, !.open = ~d.broken, !.touched = @ \/ ~d.broken,
                             !.unsent = @ + Len(d.cmds)]

Receive(c, chunk) ==
    LET d == DecodeAll(c.in \o chunk)
    IN  /\ ran' = [cmds |-> ran.cmds \o d.cmds,
                   bad |-> ran.bad + d.bad + IF d.broken THEN 1 ELSE 0]
        /\ conn' = [c EXCEPT !.in = Behind(@ \o chunk, d.off), !.open = ~d.broken,
                             !.touched = @ \/ ~d.broken, !.unsent = @ + Len(d.cmds)]

\* An event to be read, perhaps with EPOLLOUT, which comes first.
ReadChunk ==
    /\ conn.open
    /\ \E c \in {conn} \cup (IF epoll.out THEN AfterWrite ELSE {}), n \in 1 .. MaxChunk :
          /\ Len(stream) + n =< MaxStream
          /\ epoll' = Rearm(conn, c)
          /\ \E chunk \in [1 .. n -> Cells] : Receive(c, chunk) /\ stream' = stream \o chunk
    /\ conn'.unsent =< MaxUnsent

\* An event with EPOLLIN.
Readable == epoll.in /\ ReadChunk

\* EPOLLHUP or EPOLLERR, which are reported unasked: what the client sent before
\* it went is read also while the connection is paused.
HungUp == ~epoll.in /\ ReadChunk

\* An event with EPOLLOUT only.
Writable ==
    /\ conn.open /\ epoll.out
    /\ \E c \in AfterWrite : conn' = c /\ epoll' = Rearm(conn, c)
    /\ UNCHANGED <<ran, stream>>

\* ReportSink: a command of another connection trades with an order of this one.
ReportToMaker ==
    /\ conn.open /\ conn.unsent < MaxUnsent
    /\ conn' = [conn EXCEPT !.unsent = @ + 1, !.touched = TRUE]
    /\ UNCHANGED <<epoll, ran, stream>>

\* The end of the batch, for a connection that was touched in it.
Answer ==
    /\ conn.open /\ conn.touched
    /\ \E c \in AfterWrite : conn' = [c EXCEPT !.touched = FALSE] /\ epoll' = Rearm(conn, c)
    /\ UNCHANGED <<ran, stream>>

\* The client is gone: recv returns 0, or send fails.
DropConn ==
    /\ conn.open
    /\ conn' = [conn EXCEPT !.open = FALSE]
    /\ UNCHANGED <<epoll, ran, stream>>

ConnClosed == ~conn.open /\ UNCHANGED connVars

ConnInit ==
    /\ conn = [open |-> TRUE, in |-> <<>>, unsent |-> 0, wantOut |-> FALSE, paused |-> FALSE,
               touched |-> FALSE]
    /\ epoll = [in |-> TRUE, out |-> FALSE]
    /\ ran = [cmds |-> <<>>, bad |-> 0]
    /\ stream = <<>>

ConnNext == Readable \/ HungUp \/ Writable \/ ReportToMaker \/ Answer \/ DropConn \/ ConnClosed

ConnSpec == ConnInit /\ [][ConnNext]_connVars

-----------------------------------------------------------------------------
(* Properties. *)

\* gateway.hpp:334-382 against decode_stream of wire_file.hpp:30: however the
\* stream is cut into chunks, in the middle of headers and of malformed
\* messages, the commands executed and the messages counted are those of the
\* whole stream decoded at once, up to the point where framing is lost; and what
\* the connection keeps is less than one message.
CommandsAreTheStream ==
    LET whole == DecodeAll(stream)
    IN  /\ ran.cmds = whole.cmds
        /\ ran.bad = whole.bad + IF whole.broken THEN 1 ELSE 0
        /\ conn.open => /\ conn.in = Behind(stream, whole.off)
                        /\ \A n \in Cells : (\A c \in Cells : c =< n) => Len(conn.in) < n

\* gateway.hpp:238: between batches a connection with unsent reports waits for
\* EPOLLOUT, whoever appended them and however much the socket took, and it asks
\* to be read exactly while its backlog is within the limit: no report is left
\* behind and no connection is paused for ever, nor, unless its client hung up
\* (gateway.hpp:326), read without bound.
NobodyIsForgotten ==
    conn.open /\ ~conn.touched => epoll = [in |-> conn.unsent =< OutLimit, out |-> conn.unsent > 0]
=============================================================================
