------------------------------ MODULE Pipeline ------------------------------
(***************************************************************************)
(* The three threads of tools/exsim_pipeline.cpp: the feed decodes         *)
(* commands into one ring, the matcher takes them through the engine and   *)
(* puts trades and top-of-book changes into a second ring, the publisher   *)
(* consumes those.  Two flags tell a thread that the one before it has     *)
(* finished.                                                               *)
(*                                                                         *)
(* A load of a flag may return a stale FALSE.  Once a thread has read TRUE *)
(* with acquire order, everything the other did before setting the flag is *)
(* visible to it, the last value of the ring's tail_ included.             *)
(***************************************************************************)
EXTENDS Integers, Sequences

CONSTANTS
    Count,        \* the commands in the capture
    MaxOut,       \* bound: messages that one command causes
    Requested,    \* --queue, the capacity of both rings
    Bits,         \* the width of the rings' indices
    Torn

VARIABLES
    qIn, qMd,     \* the rings q_in and q_md
    pc,           \* where each thread is
    done,         \* feed_done and engine_done
    go,           \* the start signal
    out,          \* messages the command under way still causes
    seen          \* history: commands fed, commands processed, messages
                  \* published, messages consumed

vars == <<qIn, qMd, pc, done, go, out, seen>>

In == INSTANCE SpscQueue WITH q <- qIn, Values <- 1 .. Count
Md == INSTANCE SpscQueue WITH q <- qMd, Values <- (1 .. Count) \X (1 .. MaxOut)

ASSUME PipelineAssumption ==
    /\ Count \in Nat /\ MaxOut \in Nat
    /\ Bits \in Nat /\ Requested \in Nat
    /\ Bits >= 2 /\ Requested =< In!Pow2[Bits - 1]
    /\ Torn \notin 1 .. Count \cup (1 .. Count) \X (1 .. MaxOut)

Threads == {"feed", "matcher", "publisher"}

At(t, where) == pc[t] = where
Goto(t, where) == pc' = [pc EXCEPT ![t] = where]
Note(what, x) == seen' = [seen EXCEPT ![what] = Append(@, x)]

\* A thread announces that it is ready (the feed then waits for go).
Ready(t) ==
    /\ At(t, "start")
    /\ Goto(t, "look")
    /\ UNCHANGED <<qIn, qMd, done, go, out, seen>>

\* The main thread waits for all three and starts the clock.
Go ==
    /\ ~go
    /\ \A t \in Threads : ~At(t, "start")
    /\ go' = TRUE
    /\ UNCHANGED <<qIn, qMd, pc, done, out, seen>>

-----------------------------------------------------------------------------
(* The feed thread. *)

Fed == Len(seen.fed)

\* try_push of the next command, spinning while the ring is full.
FeedPush ==
    /\ go
    /\ At("feed", "look")
    /\ Fed < Count
    /\ \/ (In!PushRefresh \/ In!PushBegin) /\ UNCHANGED seen
       \/ In!PushEnd(Fed + 1) /\ Note("fed", Fed + 1)
    /\ UNCHANGED <<qMd, pc, done, go, out>>

\* The feed ends without saying so.
FeedEndSilent ==
    /\ go
    /\ At("feed", "look")
    /\ Fed = Count
    /\ Goto("feed", "done")
    /\ UNCHANGED <<qIn, qMd, done, go, out, seen>>

FeedEnd ==
    /\ go
    /\ At("feed", "look")
    /\ Fed = Count
    /\ Goto("feed", "done")
    /\ done' = [done EXCEPT !.feed = TRUE]
    /\ UNCHANGED <<qIn, qMd, go, out, seen>>

-----------------------------------------------------------------------------
(* The matcher thread. *)

\* front() sees more of the ring than before.
MatcherSees ==
    /\ At("matcher", "look")
    /\ In!FrontRefresh(In!Visible(qIn.tailCache, qIn.tail))
    /\ UNCHANGED <<qMd, pc, done, go, out, seen>>

\* front() finds nothing in what it can see of the ring.
MatcherNull ==
    /\ At("matcher", "look")
    /\ In!LooksEmpty
    /\ Goto("matcher", "check")
    /\ UNCHANGED <<qIn, qMd, done, go, out, seen>>

\* feed_done reads FALSE, which may be stale.
MatcherSpins ==
    /\ At("matcher", "check")
    /\ Goto("matcher", "look")
    /\ UNCHANGED <<qIn, qMd, done, go, out, seen>>

\* The matcher ends at once.
MatcherEndsAtOnce ==
    /\ At("matcher", "check")
    /\ done.feed
    /\ Goto("matcher", "done")
    /\ done' = [done EXCEPT !.engine = TRUE]
    /\ UNCHANGED <<qIn, qMd, go, out, seen>>

\* feed_done reads TRUE: the matcher looks once more before it ends.
MatcherRechecks ==
    /\ At("matcher", "check")
    /\ done.feed
    /\ In!FrontRefresh({qIn.tail})
    /\ \/ /\ qIn.tail = qIn.head
          /\ Goto("matcher", "done")
          /\ done' = [done EXCEPT !.engine = TRUE]
       \/ /\ qIn.tail # qIn.head
          /\ Goto("matcher", "look")
          /\ UNCHANGED done
    /\ UNCHANGED <<qMd, go, out, seen>>

\* front() returns a command, and the engine processes it.
MatcherTakes ==
    /\ At("matcher", "look")
    /\ In!Front
    /\ Goto("matcher", "emit")
    /\ out' \in 0 .. MaxOut
    /\ UNCHANGED <<qMd, done, go, seen>>

\* EngineSink::publish, spinning while the ring is full.
MatcherEmits ==
    /\ At("matcher", "emit")
    /\ out > 0
    /\ \/ (Md!PushRefresh \/ Md!PushBegin) /\ UNCHANGED <<out, seen>>
       \/ LET m == <<In!Element, out>>
          IN  Md!PushEnd(m) /\ out' = out - 1 /\ Note("published", m)
    /\ UNCHANGED <<qIn, pc, done, go>>

MatcherPops ==
    /\ At("matcher", "emit")
    /\ out = 0
    /\ In!Pop
    /\ Note("processed", In!Element)
    /\ Goto("matcher", "look")
    /\ UNCHANGED <<qMd, done, go, out>>

-----------------------------------------------------------------------------
(* The publisher thread. *)

PublisherSees ==
    /\ At("publisher", "look")
    /\ Md!FrontRefresh(Md!Visible(qMd.tailCache, qMd.tail))
    /\ UNCHANGED <<qIn, pc, done, go, out, seen>>

PublisherNull ==
    /\ At("publisher", "look")
    /\ Md!LooksEmpty
    /\ Goto("publisher", "check")
    /\ UNCHANGED <<qIn, qMd, done, go, out, seen>>

PublisherSpins ==
    /\ At("publisher", "check")
    /\ Goto("publisher", "look")
    /\ UNCHANGED <<qIn, qMd, done, go, out, seen>>

PublisherRechecks ==
    /\ At("publisher", "check")
    /\ done.engine
    /\ Md!FrontRefresh({qMd.tail})
    /\ Goto("publisher", IF qMd.tail = qMd.head THEN "done" ELSE "look")
    /\ UNCHANGED <<qIn, done, go, out, seen>>

PublisherTakes ==
    /\ At("publisher", "look")
    /\ Md!Front
    /\ UNCHANGED <<qIn, pc, done, go, out, seen>>

PublisherPops ==
    /\ At("publisher", "look")
    /\ Md!Pop
    /\ Note("consumed", Md!Element)
    /\ UNCHANGED <<qIn, pc, done, go, out>>

-----------------------------------------------------------------------------

Init ==
    /\ In!Init
    /\ Md!Init
    /\ pc = [t \in Threads |-> "start"]
    /\ done = [feed |-> FALSE, engine |-> FALSE]
    /\ go = FALSE
    /\ out = 0
    /\ seen = [fed |-> <<>>, processed |-> <<>>, published |-> <<>>, consumed |-> <<>>]

Feed == FeedPush \/ FeedEnd

Matcher ==
    \/ MatcherSees
    \/ MatcherNull
    \/ MatcherSpins
    \/ MatcherRechecks
    \/ MatcherTakes
    \/ MatcherEmits
    \/ MatcherPops

Publisher ==
    \/ PublisherSees
    \/ PublisherNull
    \/ PublisherSpins
    \/ PublisherRechecks
    \/ PublisherTakes
    \/ PublisherPops

\* All three threads were joined.
Joined == \A t \in Threads : At(t, "done")

Terminated == Joined /\ UNCHANGED vars

Next ==
    \/ \E t \in Threads : Ready(t)
    \/ Go
    \/ Feed
    \/ Matcher
    \/ Publisher
    \/ Terminated

\* Every thread keeps running, and a store to an atomic becomes visible to the
\* loads of another thread in finite time.
Fairness ==
    /\ \A t \in Threads : WF_vars(Ready(t))
    /\ WF_vars(Go)
    /\ WF_vars(Feed)
    /\ WF_vars(Matcher)
    /\ WF_vars(Publisher)
    /\ SF_vars(MatcherSees)
    /\ SF_vars(MatcherRechecks)
    /\ SF_vars(PublisherSees)
    /\ SF_vars(PublisherRechecks)

Spec == Init /\ [][Next]_vars /\ Fairness

-----------------------------------------------------------------------------
(* Properties. *)

\* Neither ring is ever read or prefetched where it is being written
\* (spsc_queue.hpp:48 and 61), with the two threads of each ring running their
\* loops, and the indices keep their types.
RingsSound == In!TypeOK /\ Md!TypeOK /\ In!NoTornRead /\ Md!NoTornRead

\* With stale indices, cached indices and indices that wrap, each ring is still
\* a bounded FIFO queue between its threads: full and empty are never mistaken
\* for each other (spsc_queue.hpp:31).
RingsAreFifos == In!IsFifo /\ Md!IsFifo

\* Nothing is left behind: a thread that ends because the one before it has
\* finished has seen everything that one produced, in order.  The flag is read
\* after the ring was found empty, so without the second look the last
\* elements would be lost.
NothingLeftBehind ==
    /\ At("matcher", "done") => seen.processed = [i \in 1 .. Count |-> i]
    /\ At("publisher", "done") => seen.consumed = seen.published

\* The three threads are joined: full and empty rings, spinning and stale loads
\* never leave them waiting on one another.
Terminates == At("feed", "start") ~> Joined
=============================================================================
