--------------------------- MODULE PipelineProofs ---------------------------
(***************************************************************************)
(* Proofs about Pipeline, for every number of commands, every number of    *)
(* messages that a command causes, every capacity and every width of the   *)
(* indices.  Each ring is an instance of the one SpscQueueProofs is about. *)
(***************************************************************************)
EXTENDS Pipeline, TLAPS

InP == INSTANCE SpscQueueProofs WITH q <- qIn, Values <- 1 .. Count
MdP == INSTANCE SpscQueueProofs WITH q <- qMd, Values <- (1 .. Count) \X (1 .. MaxOut)

\* The rings of Pipeline are the ones that SpscQueueProofs is about.
LEMMA InRing ==
    /\ In!Pow2 = InP!Pow2 /\ In!Width = InP!Width /\ In!Cap = InP!Cap
    /\ \A a, b : In!Diff(a, b) = InP!Diff(a, b) /\ In!Visible(a, b) = InP!Visible(a, b)
    /\ \A a : In!Slot(a) = InP!Slot(a) /\ In!Inc(a) = InP!Inc(a)
<1>1. In!Pow2 = InP!Pow2
  BY DEF In!Pow2, InP!Pow2
<1>2. In!Width = InP!Width
  BY <1>1 DEF In!Width, InP!Width
<1>3. In!Cap = InP!Cap
  BY <1>1 DEF In!Cap, InP!Cap, In!Min, InP!Min
<1>4. \A a, b : In!Diff(a, b) = InP!Diff(a, b)
  BY <1>2, Zenon DEF In!Diff, InP!Diff
<1>5. \A a, b : In!Visible(a, b) = InP!Visible(a, b)
  BY <1>2, <1>4, Zenon DEF In!Visible, InP!Visible
<1>6. \A a : In!Slot(a) = InP!Slot(a) /\ In!Inc(a) = InP!Inc(a)
  BY <1>2, <1>3, Zenon DEF In!Slot, InP!Slot, In!Inc, InP!Inc
<1> QED
  BY <1>1, <1>2, <1>3, <1>4, <1>5, <1>6

\* ... and so are the actions of its threads and its contents.
LEMMA InActions ==
    /\ In!Init <=> InP!Init
    /\ In!PushRefresh <=> InP!PushRefresh
    /\ In!PushBegin <=> InP!PushBegin
    /\ \A v : In!PushEnd(v) <=> InP!PushEnd(v)
    /\ \A tails : In!FrontRefresh(tails) <=> InP!FrontRefresh(tails)
    /\ In!Front <=> InP!Front
    /\ In!Pop <=> InP!Pop
    /\ In!Element = InP!Element
    /\ In!Contents = InP!Contents
    /\ In!TypeOK <=> InP!TypeOK
    /\ In!NoTornRead <=> InP!NoTornRead
<1>1. In!Init <=> InP!Init
  BY InRing, Zenon DEF In!Init, InP!Init
<1>2. In!LooksFull <=> InP!LooksFull
  BY InRing, Zenon DEF In!LooksFull, InP!LooksFull
<1>3. In!LooksEmpty <=> InP!LooksEmpty
  BY Zenon DEF In!LooksEmpty, InP!LooksEmpty
<1>4. In!PushRefresh <=> InP!PushRefresh
  BY <1>2, InRing, Zenon DEF In!PushRefresh, InP!PushRefresh
<1>5. In!PushBegin <=> InP!PushBegin
  BY <1>2, InRing, Zenon DEF In!PushBegin, InP!PushBegin
<1>6. \A v : In!PushEnd(v) <=> InP!PushEnd(v)
  BY InRing, Zenon DEF In!PushEnd, InP!PushEnd
<1>7. \A tails : In!FrontRefresh(tails) <=> InP!FrontRefresh(tails)
  BY <1>3, Zenon DEF In!FrontRefresh, InP!FrontRefresh
<1>8. In!Front <=> InP!Front
  BY <1>3, Zenon DEF In!Front, InP!Front
<1>9. In!Pop <=> InP!Pop
  BY InRing, Zenon DEF In!Pop, InP!Pop
<1>10. In!Element = InP!Element
  BY InRing, Zenon DEF In!Element, InP!Element
<1>11. In!Contents = InP!Contents
  BY InRing, Zenon DEF In!Contents, InP!Contents
<1>12. In!TypeOK <=> InP!TypeOK
  BY InRing, Zenon DEF In!TypeOK, InP!TypeOK
<1>13. In!Prefetched = InP!Prefetched
  BY InRing, Zenon DEF In!Prefetched, InP!Prefetched
<1>14. In!NoTornRead <=> InP!NoTornRead
  BY <1>10, <1>13, Zenon DEF In!NoTornRead, InP!NoTornRead
<1> QED
  BY <1>1, <1>4, <1>5, <1>6, <1>7, <1>8, <1>9, <1>10, <1>11, <1>12, <1>14

\* The same for the ring of messages.
LEMMA MdRing ==
    /\ Md!Pow2 = MdP!Pow2 /\ Md!Width = MdP!Width /\ Md!Cap = MdP!Cap
    /\ \A a, b : Md!Diff(a, b) = MdP!Diff(a, b) /\ Md!Visible(a, b) = MdP!Visible(a, b)
    /\ \A a : Md!Slot(a) = MdP!Slot(a) /\ Md!Inc(a) = MdP!Inc(a)
<1>1. Md!Pow2 = MdP!Pow2
  BY DEF Md!Pow2, MdP!Pow2
<1>2. Md!Width = MdP!Width
  BY <1>1 DEF Md!Width, MdP!Width
<1>3. Md!Cap = MdP!Cap
  BY <1>1 DEF Md!Cap, MdP!Cap, Md!Min, MdP!Min
<1>4. \A a, b : Md!Diff(a, b) = MdP!Diff(a, b)
  BY <1>2, Zenon DEF Md!Diff, MdP!Diff
<1>5. \A a, b : Md!Visible(a, b) = MdP!Visible(a, b)
  BY <1>2, <1>4, Zenon DEF Md!Visible, MdP!Visible
<1>6. \A a : Md!Slot(a) = MdP!Slot(a) /\ Md!Inc(a) = MdP!Inc(a)
  BY <1>2, <1>3, Zenon DEF Md!Slot, MdP!Slot, Md!Inc, MdP!Inc
<1> QED
  BY <1>1, <1>2, <1>3, <1>4, <1>5, <1>6

\* ... and so are the actions of its threads and its contents.
LEMMA MdActions ==
    /\ Md!Init <=> MdP!Init
    /\ Md!PushRefresh <=> MdP!PushRefresh
    /\ Md!PushBegin <=> MdP!PushBegin
    /\ \A v : Md!PushEnd(v) <=> MdP!PushEnd(v)
    /\ \A tails : Md!FrontRefresh(tails) <=> MdP!FrontRefresh(tails)
    /\ Md!Front <=> MdP!Front
    /\ Md!Pop <=> MdP!Pop
    /\ Md!Element = MdP!Element
    /\ Md!Contents = MdP!Contents
    /\ Md!TypeOK <=> MdP!TypeOK
    /\ Md!NoTornRead <=> MdP!NoTornRead
<1>1. Md!Init <=> MdP!Init
  BY MdRing, Zenon DEF Md!Init, MdP!Init
<1>2. Md!LooksFull <=> MdP!LooksFull
  BY MdRing, Zenon DEF Md!LooksFull, MdP!LooksFull
<1>3. Md!LooksEmpty <=> MdP!LooksEmpty
  BY Zenon DEF Md!LooksEmpty, MdP!LooksEmpty
<1>4. Md!PushRefresh <=> MdP!PushRefresh
  BY <1>2, MdRing, Zenon DEF Md!PushRefresh, MdP!PushRefresh
<1>5. Md!PushBegin <=> MdP!PushBegin
  BY <1>2, MdRing, Zenon DEF Md!PushBegin, MdP!PushBegin
<1>6. \A v : Md!PushEnd(v) <=> MdP!PushEnd(v)
  BY MdRing, Zenon DEF Md!PushEnd, MdP!PushEnd
<1>7. \A tails : Md!FrontRefresh(tails) <=> MdP!FrontRefresh(tails)
  BY <1>3, Zenon DEF Md!FrontRefresh, MdP!FrontRefresh
<1>8. Md!Front <=> MdP!Front
  BY <1>3, Zenon DEF Md!Front, MdP!Front
<1>9. Md!Pop <=> MdP!Pop
  BY MdRing, Zenon DEF Md!Pop, MdP!Pop
<1>10. Md!Element = MdP!Element
  BY MdRing, Zenon DEF Md!Element, MdP!Element
<1>11. Md!Contents = MdP!Contents
  BY MdRing, Zenon DEF Md!Contents, MdP!Contents
<1>12. Md!TypeOK <=> MdP!TypeOK
  BY MdRing, Zenon DEF Md!TypeOK, MdP!TypeOK
<1>13. Md!Prefetched = MdP!Prefetched
  BY MdRing, Zenon DEF Md!Prefetched, MdP!Prefetched
<1>14. Md!NoTornRead <=> MdP!NoTornRead
  BY <1>10, <1>13, Zenon DEF Md!NoTornRead, MdP!NoTornRead
<1> QED
  BY <1>1, <1>4, <1>5, <1>6, <1>7, <1>8, <1>9, <1>10, <1>11, <1>12, <1>14
-----------------------------------------------------------------------------
(* Sequences. *)

\* What was put in is still what came out followed by what is inside.
LEMMA PutKeeps ==
    ASSUME NEW S, NEW s \in Seq(S), NEW c \in Seq(S), NEW v \in S
    PROVE  s \o c \in Seq(S) /\ s \o Append(c, v) = Append(s \o c, v)
OBVIOUS

\* Taking the oldest element moves it from what is inside to what came out.
LEMMA TakeKeeps ==
    ASSUME NEW S, NEW s \in Seq(S), NEW c \in Seq(S), c # <<>>
    PROVE  c[1] \in S /\ Append(s, c[1]) \o Tail(c) = s \o c
OBVIOUS

-----------------------------------------------------------------------------
(* The invariant. *)

Commands == 1 .. Count
Messages == (1 .. Count) \X (1 .. MaxOut)

PipeTypes ==
    /\ pc \in [Threads -> {"start", "look", "check", "emit", "done"}]
    /\ done \in [feed : BOOLEAN, engine : BOOLEAN]
    /\ out \in 0 .. MaxOut
    /\ seen \in [fed : Seq(Commands), processed : Seq(Commands),
                 published : Seq(Messages), consumed : Seq(Messages)]

\* What went into a ring is what came out of it, followed by what is inside.
Accounts ==
    /\ seen.fed = seen.processed \o InP!Contents
    /\ seen.published = seen.consumed \o MdP!Contents
    /\ Len(seen.fed) =< Count
    /\ \A i \in 1 .. Len(seen.fed) : seen.fed[i] = i

\* What a thread knows when it has ended, and a flag says so.
Handover ==
    /\ At("matcher", "emit") <=> qIn.cons = "reading"
    /\ done.feed => At("feed", "done")
    /\ At("feed", "done") => Len(seen.fed) = Count
    /\ done.engine => At("matcher", "done")
    /\ At("matcher", "done") => done.feed /\ seen.processed = seen.fed
    /\ At("publisher", "done") => done.engine /\ seen.consumed = seen.published

RingsInv == InP!RingInv /\ MdP!RingInv

PipeInv == RingsInv /\ PipeTypes /\ Accounts /\ Handover

\* Both rings are within what SpscQueueProofs assumes of a ring.
LEMMA RingsFit == InP!RingAssumption /\ MdP!RingAssumption
<1>1. InP!Pow2 = In!Pow2 /\ MdP!Pow2 = In!Pow2
  BY Zenon DEF In!Pow2, InP!Pow2, MdP!Pow2
<1>2. Torn \notin 1 .. Count /\ Torn \notin (1 .. Count) \X (1 .. MaxOut)
  BY PipelineAssumption, Zenon
<1>3. Bits \in Nat /\ Bits >= 2 /\ Requested \in Nat /\ Requested =< In!Pow2[Bits - 1]
  BY PipelineAssumption
<1> QED
  BY <1>1, <1>2, <1>3, Zenon DEF InP!RingAssumption, MdP!RingAssumption

\* What each ring promises of the actions of its threads.
LEMMA InSteps ==
    ASSUME InP!RingInv
    PROVE  /\ In!PushRefresh => InP!RingInv' /\ InP!Contents' = InP!Contents
           /\ In!PushBegin => InP!RingInv' /\ InP!Contents' = InP!Contents
           /\ \A v \in Commands : In!PushEnd(v) =>
                 InP!RingInv' /\ InP!Contents' = Append(InP!Contents, v)
                 /\ Len(InP!Contents) < In!Cap
           /\ \A tails : In!FrontRefresh(tails) /\ tails \subseteq In!Visible(qIn.tailCache, qIn.tail) =>
                 InP!RingInv' /\ InP!Contents' = InP!Contents
           /\ In!Front => InP!RingInv' /\ InP!Contents' = InP!Contents
           /\ In!Pop => /\ InP!RingInv' /\ InP!Contents # <<>>
                        /\ InP!Contents' = Tail(InP!Contents) /\ In!Element = InP!Contents[1]
           /\ InP!Contents \in Seq(Commands)
           /\ qIn.cons = "reading" => In!Element \in Commands
<1> USE RingsFit, InActions
<1>1. In!PushRefresh => InP!RingInv' /\ InP!Contents' = InP!Contents
  BY InP!PushRefreshStep
<1>2. In!PushBegin => InP!RingInv' /\ InP!Contents' = InP!Contents
  BY InP!PushBeginStep
<1>3. \A v \in Commands : In!PushEnd(v) =>
        InP!RingInv' /\ InP!Contents' = Append(InP!Contents, v) /\ Len(InP!Contents) < In!Cap
  BY InP!PushEndStep, InRing DEF Commands
<1>4. \A tails : In!FrontRefresh(tails) /\ tails \subseteq In!Visible(qIn.tailCache, qIn.tail) =>
        InP!RingInv' /\ InP!Contents' = InP!Contents
  BY InP!FrontRefreshStep, InRing
<1>5. In!Front => InP!RingInv' /\ InP!Contents' = InP!Contents
  BY InP!FrontStep
<1>6. In!Pop => /\ InP!RingInv' /\ InP!Contents # <<>>
                /\ InP!Contents' = Tail(InP!Contents) /\ In!Element = InP!Contents[1]
  BY InP!PopStep
<1>7. InP!Contents \in Seq(Commands)
  BY InP!ContentsFacts DEF Commands
<1>8. qIn.cons = "reading" => In!Element \in Commands
  BY InP!ReadingFacts DEF Commands
<1> QED
  BY <1>1, <1>2, <1>3, <1>4, <1>5, <1>6, <1>7, <1>8

\* The same for the ring of messages.
LEMMA MdSteps ==
    ASSUME MdP!RingInv
    PROVE  /\ Md!PushRefresh => MdP!RingInv' /\ MdP!Contents' = MdP!Contents
           /\ Md!PushBegin => MdP!RingInv' /\ MdP!Contents' = MdP!Contents
           /\ \A v \in Messages : Md!PushEnd(v) =>
                 MdP!RingInv' /\ MdP!Contents' = Append(MdP!Contents, v)
                 /\ Len(MdP!Contents) < Md!Cap
           /\ \A tails : Md!FrontRefresh(tails) /\ tails \subseteq Md!Visible(qMd.tailCache, qMd.tail) =>
                 MdP!RingInv' /\ MdP!Contents' = MdP!Contents
           /\ Md!Front => MdP!RingInv' /\ MdP!Contents' = MdP!Contents
           /\ Md!Pop => /\ MdP!RingInv' /\ MdP!Contents # <<>>
                        /\ MdP!Contents' = Tail(MdP!Contents) /\ Md!Element = MdP!Contents[1]
           /\ MdP!Contents \in Seq(Messages)
           /\ qMd.cons = "reading" => Md!Element \in Messages
<1> USE RingsFit, MdActions
<1>1. Md!PushRefresh => MdP!RingInv' /\ MdP!Contents' = MdP!Contents
  BY MdP!PushRefreshStep
<1>2. Md!PushBegin => MdP!RingInv' /\ MdP!Contents' = MdP!Contents
  BY MdP!PushBeginStep
<1>3. \A v \in Messages : Md!PushEnd(v) =>
        MdP!RingInv' /\ MdP!Contents' = Append(MdP!Contents, v) /\ Len(MdP!Contents) < Md!Cap
  BY MdP!PushEndStep, MdRing DEF Messages
<1>4. \A tails : Md!FrontRefresh(tails) /\ tails \subseteq Md!Visible(qMd.tailCache, qMd.tail) =>
        MdP!RingInv' /\ MdP!Contents' = MdP!Contents
  BY MdP!FrontRefreshStep, MdRing
<1>5. Md!Front => MdP!RingInv' /\ MdP!Contents' = MdP!Contents
  BY MdP!FrontStep
<1>6. Md!Pop => /\ MdP!RingInv' /\ MdP!Contents # <<>>
                /\ MdP!Contents' = Tail(MdP!Contents) /\ Md!Element = MdP!Contents[1]
  BY MdP!PopStep
<1>7. MdP!Contents \in Seq(Messages)
  BY MdP!ContentsFacts DEF Messages
<1>8. qMd.cons = "reading" => Md!Element \in Messages
  BY MdP!ReadingFacts DEF Messages
<1> QED
  BY <1>1, <1>2, <1>3, <1>4, <1>5, <1>6, <1>7, <1>8
-----------------------------------------------------------------------------
(* Every step keeps the invariant and is a step of a queue, or none, in each  *)
(* ring.                                                                      *)

InMoves ==
    \/ InP!Contents' = InP!Contents
    \/ InP!Contents # <<>> /\ InP!Contents' = Tail(InP!Contents)
    \/ \E v \in Commands :
          Len(InP!Contents) < In!Cap /\ InP!Contents' = Append(InP!Contents, v)

MdMoves ==
    \/ MdP!Contents' = MdP!Contents
    \/ MdP!Contents # <<>> /\ MdP!Contents' = Tail(MdP!Contents)
    \/ \E v \in Messages :
          Len(MdP!Contents) < Md!Cap /\ MdP!Contents' = Append(MdP!Contents, v)

\* A step that leaves a ring alone.
LEMMA RingsStay ==
    /\ qIn' = qIn => (InP!RingInv' <=> InP!RingInv) /\ InP!Contents' = InP!Contents
    /\ qMd' = qMd => (MdP!RingInv' <=> MdP!RingInv) /\ MdP!Contents' = MdP!Contents
<1>1. ASSUME qIn' = qIn
      PROVE (InP!RingInv' <=> InP!RingInv) /\ InP!Contents' = InP!Contents
  BY <1>1, Zenon DEF InP!RingInv, InP!QueueTypes, InP!InOrder, InP!Published, InP!Used,
                     InP!Contents, InP!Diff, InP!Slot
<1>2. ASSUME qMd' = qMd
      PROVE (MdP!RingInv' <=> MdP!RingInv) /\ MdP!Contents' = MdP!Contents
  BY <1>2, Zenon DEF MdP!RingInv, MdP!QueueTypes, MdP!InOrder, MdP!Published, MdP!Used,
                     MdP!Contents, MdP!Diff, MdP!Slot
<1> QED
  BY <1>1, <1>2

\* Steps that move neither ring nor the history.
LEMMA QuietStep ==
    ASSUME PipeInv, UNCHANGED <<qIn, qMd, seen>>
    PROVE  RingsInv' /\ Accounts' /\ InMoves /\ MdMoves
<1>1. InP!Contents' = InP!Contents /\ MdP!Contents' = MdP!Contents /\ RingsInv'
  BY RingsStay DEF PipeInv, RingsInv
<1> QED
  BY <1>1 DEF PipeInv, Accounts, InMoves, MdMoves

\* The start, and the spinning of the three threads.
LEMMA SpinStep ==
    ASSUME PipeInv,
           \/ \E t \in Threads : Ready(t)
           \/ Go
           \/ MatcherNull
           \/ MatcherSpins
           \/ PublisherNull
           \/ PublisherSpins
           \/ UNCHANGED vars
    PROVE  PipeInv' /\ InMoves /\ MdMoves
<1>1. UNCHANGED <<qIn, qMd, done, out, seen>>
  BY DEF Ready, Go, MatcherNull, MatcherSpins, PublisherNull, PublisherSpins, vars
<1>2. RingsInv' /\ Accounts' /\ InMoves /\ MdMoves
  BY <1>1, QuietStep
<1>3. PipeTypes /\ Handover
  BY DEF PipeInv
<1>4. pc' = pc \/ \E t \in Threads : \E w \in {"look", "check"} :
          pc' = [pc EXCEPT ![t] = w] /\ pc[t] \in {"start", "look", "check"}
  BY <1>3 DEF Ready, Go, MatcherNull, MatcherSpins, PublisherNull, PublisherSpins, vars,
              Goto, At, Threads, PipeTypes
<1>5. PipeTypes'
  BY <1>1, <1>3, <1>4 DEF PipeTypes
<1>6. Handover'
  BY <1>1, <1>3, <1>4 DEF Handover, At, PipeTypes, Threads
<1> QED
  BY <1>2, <1>5, <1>6 DEF PipeInv

\* The feed pushes.
LEMMA FeedPushStep ==
    ASSUME PipeInv, FeedPush
    PROVE  PipeInv' /\ InMoves /\ MdMoves
<1>1. /\ At("feed", "look") /\ Fed < Count
      /\ UNCHANGED <<qMd, pc, done, go, out>>
      /\ InP!RingInv /\ MdP!RingInv /\ PipeTypes /\ Accounts /\ Handover
  BY DEF FeedPush, PipeInv, RingsInv
<1>2. MdP!RingInv' /\ MdP!Contents' = MdP!Contents
  BY <1>1, RingsStay
<1>3. InP!Contents \in Seq(Commands) /\ MdP!Contents \in Seq(Messages)
  BY <1>1, InSteps, MdSteps
<1>4. qIn'.cons = qIn.cons
  BY <1>1 DEF FeedPush, In!PushRefresh, In!PushBegin, In!PushEnd, InP!RingInv, InP!QueueTypes
<1>5. CASE (In!PushRefresh \/ In!PushBegin) /\ UNCHANGED seen
  <2>1. InP!RingInv' /\ InP!Contents' = InP!Contents
    BY <1>1, <1>5, InSteps
  <2>2. PipeTypes'
    BY <1>1, <1>5 DEF PipeTypes
  <2>3. Accounts'
    BY <1>1, <1>2, <1>5, <2>1 DEF Accounts
  <2>4. Handover'
    BY <1>1, <1>4, <1>5 DEF Handover, At
  <2> QED
    BY <1>2, <2>1, <2>2, <2>3, <2>4 DEF PipeInv, RingsInv, InMoves, MdMoves
<1>6. CASE In!PushEnd(Fed + 1) /\ Note("fed", Fed + 1)
  <2>1. Fed + 1 \in Commands /\ Fed \in Nat /\ Count \in Nat
    BY <1>1, PipelineAssumption DEF Fed, PipeTypes, Commands
  <2>2. /\ InP!RingInv' /\ InP!Contents' = Append(InP!Contents, Fed + 1)
        /\ Len(InP!Contents) < In!Cap
    BY <1>1, <1>6, <2>1, InSteps
  <2>3. /\ seen'.fed = Append(seen.fed, Fed + 1) /\ seen'.processed = seen.processed
        /\ seen'.published = seen.published /\ seen'.consumed = seen.consumed
        /\ seen' = [fed |-> seen'.fed, processed |-> seen'.processed,
                    published |-> seen'.published, consumed |-> seen'.consumed]
    BY <1>1, <1>6 DEF Note, PipeTypes
  <2>4. PipeTypes'
    <3>1. seen.fed \in Seq(Commands) /\ seen.processed \in Seq(Commands)
          /\ seen.published \in Seq(Messages) /\ seen.consumed \in Seq(Messages)
      BY <1>1 DEF PipeTypes
    <3>2. seen'.fed \in Seq(Commands)
      BY <2>1, <2>3, <3>1
    <3>3. seen' \in [fed : Seq(Commands), processed : Seq(Commands),
                     published : Seq(Messages), consumed : Seq(Messages)]
      BY <2>3, <3>1, <3>2
    <3> QED
      BY <1>1, <3>3 DEF PipeTypes
  <2>5. Accounts'
    <3>1. seen'.fed = seen'.processed \o InP!Contents'
      <4> DEFINE s == seen.processed
                 c == InP!Contents
                 v == Fed + 1
      <4>1. s \in Seq(Commands) /\ c \in Seq(Commands) /\ v \in Commands
        BY <1>1, <1>3, <2>1 DEF PipeTypes
      <4>2. s \o Append(c, v) = Append(s \o c, v)
        <5> HIDE DEF s, c, v
        <5> QED
          BY <4>1, PutKeeps
      <4>3. seen.fed = s \o c
        BY <1>1 DEF Accounts
      <4> QED
        BY <2>2, <2>3, <4>2, <4>3, Zenon
    <3>2. seen'.published = seen'.consumed \o MdP!Contents'
      BY <1>1, <1>2, <2>3 DEF Accounts
    <3>3. seen.fed \in Seq(Commands) /\ Len(seen.fed) = Fed
      BY <1>1 DEF PipeTypes, Fed
    <3>4. /\ Len(seen'.fed) = Fed + 1 /\ seen'.fed[Fed + 1] = Fed + 1
          /\ \A i \in 1 .. Fed : seen'.fed[i] = seen.fed[i]
      BY <2>1, <2>3, <3>3
    <3>5. Len(seen'.fed) =< Count
      BY <1>1, <2>1, <3>4
    <3>6. ASSUME NEW i \in 1 .. Len(seen'.fed) PROVE seen'.fed[i] = i
      <4>1. i \in 1 .. Fed \/ i = Fed + 1
        BY <2>1, <3>4
      <4>2. \A k \in 1 .. Fed : seen.fed[k] = k
        BY <1>1, <3>3 DEF Accounts
      <4> QED
        BY <3>4, <4>1, <4>2
    <3> QED
      BY <3>1, <3>2, <3>5, <3>6 DEF Accounts
  <2>6. Handover'
    BY <1>1, <1>4, <2>3 DEF Handover, At
  <2> QED
    BY <1>2, <2>1, <2>2, <2>4, <2>5, <2>6 DEF PipeInv, RingsInv, InMoves, MdMoves
<1> QED
  BY <1>5, <1>6 DEF FeedPush

\* The feed has pushed everything, and says so.
LEMMA FeedEndStep ==
    ASSUME PipeInv, FeedEnd
    PROVE  PipeInv' /\ InMoves /\ MdMoves
<1>1. UNCHANGED <<qIn, qMd, seen>> /\ PipeTypes /\ Handover
  BY DEF FeedEnd, PipeInv
<1>2. RingsInv' /\ Accounts' /\ InMoves /\ MdMoves
  BY <1>1, QuietStep
<1>3. PipeTypes'
  BY <1>1 DEF PipeTypes, FeedEnd, Goto, Threads
<1>4. Handover'
  BY <1>1 DEF PipeTypes, Handover, FeedEnd, Goto, At, Threads, Fed
<1> QED
  BY <1>2, <1>3, <1>4 DEF PipeInv

\* The matcher's looks at the ring.
LEMMA MatcherLookStep ==
    ASSUME PipeInv, MatcherSees \/ MatcherRechecks
    PROVE  PipeInv' /\ InMoves /\ MdMoves
<1>1. /\ InP!RingInv /\ MdP!RingInv /\ PipeTypes /\ Accounts /\ Handover
      /\ UNCHANGED <<qMd, go, out, seen>>
  BY DEF PipeInv, RingsInv, MatcherSees, MatcherRechecks
<1>2. /\ qIn.tail \in In!Visible(qIn.tailCache, qIn.tail)
      /\ qIn.tail = qIn.head => InP!Contents = <<>>
  <2>1. InP!Cap \in Nat \ {0} /\ InP!Width \in Nat \ {0}
    BY RingsFit, InP!CapFacts
  <2>2. qIn.tail \in InP!Indices /\ qIn.tailCache \in InP!Indices /\ qIn.head \in InP!Indices
    BY <1>1 DEF InP!RingInv, InP!QueueTypes
  <2>3. qIn.tail \in InP!Visible(qIn.tailCache, qIn.tail)
    BY <2>2, RingsFit, InP!NewestVisible
  <2>4. ASSUME qIn.tail = qIn.head PROVE InP!Contents = <<>>
    BY <1>1, <2>4, RingsFit, InP!EmptyRing
  <2> QED
    BY <2>3, <2>4, InRing
<1>3. InP!RingInv' /\ InP!Contents' = InP!Contents
  <2>1. In!FrontRefresh(In!Visible(qIn.tailCache, qIn.tail)) \/ In!FrontRefresh({qIn.tail})
    BY DEF MatcherSees, MatcherRechecks
  <2>2. {qIn.tail} \subseteq In!Visible(qIn.tailCache, qIn.tail)
    BY <1>2
  <2> QED
    BY <1>1, <2>1, <2>2, InSteps
<1>4. MdP!RingInv' /\ MdP!Contents' = MdP!Contents
  BY <1>1, RingsStay
<1>5. qIn'.cons = qIn.cons
  BY <1>1 DEF MatcherSees, MatcherRechecks, In!FrontRefresh, InP!RingInv, InP!QueueTypes
<1>6. PipeTypes'
  BY <1>1, ZenonT(40) DEF PipeTypes, MatcherSees, MatcherRechecks, Goto, Threads
<1>7. Accounts'
  BY <1>1, <1>3, <1>4 DEF Accounts
<1>8. Handover'
  <2>1. CASE MatcherSees
    BY <1>1, <1>5, <2>1 DEF Handover, MatcherSees, At
  <2>2. CASE MatcherRechecks
    <3>1. qIn.tail = qIn.head => seen.processed = seen.fed
      <4>1. seen.processed \in Seq(Commands)
        BY <1>1 DEF PipeTypes
      <4>2. seen.processed \o <<>> = seen.processed
        BY <4>1
      <4> QED
        BY <1>1, <1>2, <4>2 DEF Accounts
    <3> QED
      BY <1>1, <1>5, <2>2, <3>1 DEF Handover, MatcherRechecks, At, Goto, PipeTypes, Threads
  <2> QED
    BY <2>1, <2>2
<1> QED
  BY <1>3, <1>4, <1>6, <1>7, <1>8 DEF PipeInv, RingsInv, InMoves, MdMoves

\* The matcher takes a command.
LEMMA MatcherTakesStep ==
    ASSUME PipeInv, MatcherTakes
    PROVE  PipeInv' /\ InMoves /\ MdMoves
<1>1. /\ InP!RingInv /\ MdP!RingInv /\ PipeTypes /\ Accounts /\ Handover
      /\ UNCHANGED <<qMd, done, go, seen>> /\ In!Front /\ out' \in 0 .. MaxOut
      /\ At("matcher", "look") /\ Goto("matcher", "emit")
  BY DEF PipeInv, RingsInv, MatcherTakes
<1>2. InP!RingInv' /\ InP!Contents' = InP!Contents
  BY <1>1, InSteps
<1>3. MdP!RingInv' /\ MdP!Contents' = MdP!Contents
  BY <1>1, RingsStay
<1>4. qIn'.cons = "reading"
  BY <1>1 DEF In!Front, InP!RingInv, InP!QueueTypes
<1>5. PipeTypes'
  BY <1>1 DEF PipeTypes, Goto, Threads
<1>6. Accounts'
  BY <1>1, <1>2, <1>3 DEF Accounts
<1>7. Handover'
  BY <1>1, <1>4 DEF Handover, At, Goto, PipeTypes, Threads
<1> QED
  BY <1>2, <1>3, <1>5, <1>6, <1>7 DEF PipeInv, RingsInv, InMoves, MdMoves

\* The matcher publishes.
LEMMA MatcherEmitsStep ==
    ASSUME PipeInv, MatcherEmits
    PROVE  PipeInv' /\ InMoves /\ MdMoves
<1>1. /\ At("matcher", "emit") /\ out > 0
      /\ UNCHANGED <<qIn, pc, done, go>>
      /\ InP!RingInv /\ MdP!RingInv /\ PipeTypes /\ Accounts /\ Handover
  BY DEF MatcherEmits, PipeInv, RingsInv
<1>2. InP!RingInv' /\ InP!Contents' = InP!Contents
  BY <1>1, RingsStay
<1>3. InP!Contents \in Seq(Commands) /\ MdP!Contents \in Seq(Messages)
  BY <1>1, InSteps, MdSteps
<1>4. CASE (Md!PushRefresh \/ Md!PushBegin) /\ UNCHANGED <<out, seen>>
  <2>1. MdP!RingInv' /\ MdP!Contents' = MdP!Contents
    BY <1>1, <1>4, MdSteps
  <2>2. PipeTypes'
    BY <1>1, <1>4 DEF PipeTypes
  <2>3. Accounts'
    BY <1>1, <1>2, <1>4, <2>1 DEF Accounts
  <2>4. Handover'
    BY <1>1, <1>4 DEF Handover, At
  <2> QED
    BY <1>2, <2>1, <2>2, <2>3, <2>4 DEF PipeInv, RingsInv, InMoves, MdMoves
<1>5. CASE /\ Md!PushEnd(<<In!Element, out>>) /\ out' = out - 1
           /\ Note("published", <<In!Element, out>>)
  <2> DEFINE m == <<In!Element, out>>
  <2>1. m \in Messages /\ out' \in 0 .. MaxOut
    <3>1. In!Element \in Commands
      BY <1>1, InSteps DEF Handover
    <3>2. out \in 1 .. MaxOut /\ out - 1 \in 0 .. MaxOut
      BY <1>1, PipelineAssumption DEF PipeTypes
    <3> QED
      BY <1>5, <3>1, <3>2 DEF Messages, Commands
  <2>2. Md!PushEnd(m) /\ Note("published", m)
    BY <1>5
  <2> HIDE DEF m
  <2>3. /\ MdP!RingInv' /\ MdP!Contents' = Append(MdP!Contents, m)
        /\ Len(MdP!Contents) < Md!Cap
    BY <1>1, <2>1, <2>2, MdSteps
  <2>4. /\ seen'.published = Append(seen.published, m) /\ seen'.processed = seen.processed
        /\ seen'.fed = seen.fed /\ seen'.consumed = seen.consumed
        /\ seen' = [fed |-> seen'.fed, processed |-> seen'.processed,
                    published |-> seen'.published, consumed |-> seen'.consumed]
    BY <1>1, <2>2 DEF Note, PipeTypes
  <2>5. seen.fed \in Seq(Commands) /\ seen.processed \in Seq(Commands)
        /\ seen.published \in Seq(Messages) /\ seen.consumed \in Seq(Messages)
    BY <1>1 DEF PipeTypes
  <2>6. PipeTypes'
    <3>1. seen'.published \in Seq(Messages)
      BY <2>1, <2>4, <2>5
    <3>2. seen' \in [fed : Seq(Commands), processed : Seq(Commands),
                     published : Seq(Messages), consumed : Seq(Messages)]
      BY <2>4, <2>5, <3>1
    <3> QED
      BY <1>1, <2>1, <3>2 DEF PipeTypes
  <2>7. Accounts'
    <3> DEFINE s == seen.consumed
               c == MdP!Contents
    <3>1. s \in Seq(Messages) /\ c \in Seq(Messages) /\ m \in Messages
      BY <1>3, <2>1, <2>5
    <3>2. s \o Append(c, m) = Append(s \o c, m)
      <4> HIDE DEF s, c
      <4> QED
        BY <3>1, PutKeeps
    <3>3. seen'.published = seen'.consumed \o MdP!Contents'
      BY <1>1, <2>3, <2>4, <3>2, Zenon DEF Accounts
    <3> QED
      BY <1>1, <1>2, <2>4, <3>3 DEF Accounts
  <2>8. Handover'
    BY <1>1, <2>4 DEF Handover, At
  <2> QED
    BY <1>2, <2>1, <2>3, <2>6, <2>7, <2>8 DEF PipeInv, RingsInv, InMoves, MdMoves
<1> QED
  BY <1>4, <1>5 DEF MatcherEmits

\* The matcher is through with a command.
LEMMA MatcherPopsStep ==
    ASSUME PipeInv, MatcherPops
    PROVE  PipeInv' /\ InMoves /\ MdMoves
<1>1. /\ InP!RingInv /\ MdP!RingInv /\ PipeTypes /\ Accounts /\ Handover
      /\ UNCHANGED <<qMd, done, go, out>> /\ In!Pop /\ Note("processed", In!Element)
      /\ At("matcher", "emit") /\ Goto("matcher", "look")
  BY DEF PipeInv, RingsInv, MatcherPops
<1>2. /\ InP!RingInv' /\ InP!Contents # <<>> /\ InP!Contents \in Seq(Commands)
      /\ InP!Contents' = Tail(InP!Contents) /\ In!Element = InP!Contents[1]
  BY <1>1, InSteps
<1>3. MdP!RingInv' /\ MdP!Contents' = MdP!Contents
  BY <1>1, RingsStay
<1>4. qIn'.cons = "idle"
  BY <1>1 DEF In!Pop, InP!RingInv, InP!QueueTypes
<1>5. seen.fed \in Seq(Commands) /\ seen.processed \in Seq(Commands)
      /\ seen.published \in Seq(Messages) /\ seen.consumed \in Seq(Messages)
  BY <1>1 DEF PipeTypes
<1>6. /\ InP!Contents[1] \in Commands
      /\ Append(seen.processed, InP!Contents[1]) \o Tail(InP!Contents)
           = seen.processed \o InP!Contents
  BY <1>2, <1>5, TakeKeeps, Zenon
<1>7. /\ seen'.processed = Append(seen.processed, InP!Contents[1]) /\ seen'.fed = seen.fed
      /\ seen'.published = seen.published /\ seen'.consumed = seen.consumed
      /\ seen' = [fed |-> seen'.fed, processed |-> seen'.processed,
                  published |-> seen'.published, consumed |-> seen'.consumed]
  BY <1>1, <1>2 DEF Note, PipeTypes
<1>8. PipeTypes'
  <2>1. seen'.processed \in Seq(Commands)
    BY <1>5, <1>6, <1>7
  <2>2. seen' \in [fed : Seq(Commands), processed : Seq(Commands),
                   published : Seq(Messages), consumed : Seq(Messages)]
    BY <1>5, <1>7, <2>1
  <2> QED
    BY <1>1, <2>2 DEF PipeTypes, Goto, Threads
<1>9. Accounts'
  <2>1. seen'.fed = seen'.processed \o InP!Contents'
    BY <1>1, <1>2, <1>6, <1>7, Zenon DEF Accounts
  <2> QED
    BY <1>1, <1>3, <1>7, <2>1 DEF Accounts
<1>10. Handover'
  BY <1>1, <1>4, <1>7 DEF Handover, At, Goto, PipeTypes, Threads
<1> QED
  BY <1>2, <1>3, <1>8, <1>9, <1>10 DEF PipeInv, RingsInv, InMoves, MdMoves

\* The publisher's looks at the ring.
LEMMA PublisherLookStep ==
    ASSUME PipeInv, PublisherSees \/ PublisherRechecks
    PROVE  PipeInv' /\ InMoves /\ MdMoves
<1>1. /\ InP!RingInv /\ MdP!RingInv /\ PipeTypes /\ Accounts /\ Handover
      /\ UNCHANGED <<qIn, done, go, out, seen>>
  BY DEF PipeInv, RingsInv, PublisherSees, PublisherRechecks
<1>2. /\ qMd.tail \in Md!Visible(qMd.tailCache, qMd.tail)
      /\ qMd.tail = qMd.head => MdP!Contents = <<>>
  <2>1. qMd.tail \in MdP!Indices /\ qMd.tailCache \in MdP!Indices
    BY <1>1 DEF MdP!RingInv, MdP!QueueTypes
  <2>2. qMd.tail \in MdP!Visible(qMd.tailCache, qMd.tail)
    BY <2>1, RingsFit, MdP!NewestVisible
  <2>3. ASSUME qMd.tail = qMd.head PROVE MdP!Contents = <<>>
    BY <1>1, <2>3, RingsFit, MdP!EmptyRing
  <2> QED
    BY <2>2, <2>3, MdRing
<1>3. MdP!RingInv' /\ MdP!Contents' = MdP!Contents
  <2>1. Md!FrontRefresh(Md!Visible(qMd.tailCache, qMd.tail)) \/ Md!FrontRefresh({qMd.tail})
    BY DEF PublisherSees, PublisherRechecks
  <2>2. {qMd.tail} \subseteq Md!Visible(qMd.tailCache, qMd.tail)
    BY <1>2
  <2> QED
    BY <1>1, <2>1, <2>2, MdSteps
<1>4. InP!RingInv' /\ InP!Contents' = InP!Contents
  BY <1>1, RingsStay
<1>5. PipeTypes'
  BY <1>1 DEF PipeTypes, PublisherSees, PublisherRechecks, Goto, Threads
<1>6. Accounts'
  BY <1>1, <1>3, <1>4 DEF Accounts
<1>7. Handover'
  <2>1. CASE PublisherSees
    BY <1>1, <2>1 DEF Handover, PublisherSees, At
  <2>2. CASE PublisherRechecks
    <3>1. qMd.tail = qMd.head => seen.consumed = seen.published
      <4>1. seen.consumed \in Seq(Messages)
        BY <1>1 DEF PipeTypes
      <4>2. seen.consumed \o <<>> = seen.consumed
        BY <4>1
      <4> QED
        BY <1>1, <1>2, <4>2 DEF Accounts
    <3> QED
      BY <1>1, <2>2, <3>1 DEF Handover, PublisherRechecks, At, Goto, PipeTypes, Threads
  <2> QED
    BY <2>1, <2>2
<1> QED
  BY <1>3, <1>4, <1>5, <1>6, <1>7 DEF PipeInv, RingsInv, InMoves, MdMoves

\* The publisher takes a message.
LEMMA PublisherTakesStep ==
    ASSUME PipeInv, PublisherTakes
    PROVE  PipeInv' /\ InMoves /\ MdMoves
<1>1. /\ InP!RingInv /\ MdP!RingInv /\ PipeTypes /\ Accounts /\ Handover
      /\ UNCHANGED <<qIn, pc, done, go, out, seen>> /\ Md!Front
  BY DEF PipeInv, RingsInv, PublisherTakes
<1>2. MdP!RingInv' /\ MdP!Contents' = MdP!Contents
  BY <1>1, MdSteps
<1>3. InP!RingInv' /\ InP!Contents' = InP!Contents
  BY <1>1, RingsStay
<1>4. PipeTypes' /\ Handover'
  BY <1>1 DEF PipeTypes, Handover, At
<1>5. Accounts'
  BY <1>1, <1>2, <1>3 DEF Accounts
<1> QED
  BY <1>2, <1>3, <1>4, <1>5 DEF PipeInv, RingsInv, InMoves, MdMoves

\* The publisher is through with a message.
LEMMA PublisherPopsStep ==
    ASSUME PipeInv, PublisherPops
    PROVE  PipeInv' /\ InMoves /\ MdMoves
<1>1. /\ InP!RingInv /\ MdP!RingInv /\ PipeTypes /\ Accounts /\ Handover
      /\ UNCHANGED <<qIn, pc, done, go, out>> /\ Md!Pop /\ Note("consumed", Md!Element)
      /\ At("publisher", "look")
  BY DEF PipeInv, RingsInv, PublisherPops
<1>2. /\ MdP!RingInv' /\ MdP!Contents # <<>> /\ MdP!Contents \in Seq(Messages)
      /\ MdP!Contents' = Tail(MdP!Contents) /\ Md!Element = MdP!Contents[1]
  BY <1>1, MdSteps
<1>3. InP!RingInv' /\ InP!Contents' = InP!Contents
  BY <1>1, RingsStay
<1>4. seen.fed \in Seq(Commands) /\ seen.processed \in Seq(Commands)
      /\ seen.published \in Seq(Messages) /\ seen.consumed \in Seq(Messages)
  BY <1>1 DEF PipeTypes
<1>5. /\ MdP!Contents[1] \in Messages
      /\ Append(seen.consumed, MdP!Contents[1]) \o Tail(MdP!Contents)
           = seen.consumed \o MdP!Contents
  BY <1>2, <1>4, TakeKeeps, Zenon
<1>6. /\ seen'.consumed = Append(seen.consumed, MdP!Contents[1]) /\ seen'.fed = seen.fed
      /\ seen'.published = seen.published /\ seen'.processed = seen.processed
      /\ seen' = [fed |-> seen'.fed, processed |-> seen'.processed,
                  published |-> seen'.published, consumed |-> seen'.consumed]
  BY <1>1, <1>2 DEF Note, PipeTypes
<1>7. PipeTypes'
  <2>1. seen'.consumed \in Seq(Messages)
    BY <1>4, <1>5, <1>6
  <2>2. seen' \in [fed : Seq(Commands), processed : Seq(Commands),
                   published : Seq(Messages), consumed : Seq(Messages)]
    BY <1>4, <1>6, <2>1
  <2> QED
    BY <1>1, <2>2 DEF PipeTypes
<1>8. Accounts'
  <2>1. seen'.published = seen'.consumed \o MdP!Contents'
    BY <1>1, <1>2, <1>5, <1>6, Zenon DEF Accounts
  <2> QED
    BY <1>1, <1>3, <1>6, <2>1 DEF Accounts
<1>9. Handover'
  BY <1>1, <1>6 DEF Handover, At
<1> QED
  BY <1>2, <1>3, <1>7, <1>8, <1>9 DEF PipeInv, RingsInv, InMoves, MdMoves

-----------------------------------------------------------------------------

\* Before the threads start.
LEMMA PipeInit ==
    ASSUME Init
    PROVE  PipeInv /\ InP!Contents = <<>> /\ MdP!Contents = <<>>
<1>1. InP!RingInv /\ InP!Contents = <<>>
  BY RingsFit, InActions, InP!RingInit DEF Init
<1>2. MdP!RingInv /\ MdP!Contents = <<>>
  BY RingsFit, MdActions, MdP!RingInit DEF Init
<1>3. PipeTypes
  BY PipelineAssumption DEF Init, PipeTypes, Threads
<1>4. Accounts
  BY <1>1, <1>2, PipelineAssumption DEF Init, Accounts
<1>5. Handover
  BY DEF Init, Handover, At, Threads, In!Init
<1> QED
  BY <1>1, <1>2, <1>3, <1>4, <1>5 DEF PipeInv, RingsInv

\* Every step of every thread keeps the invariant.
LEMMA PipeNext ==
    ASSUME PipeInv, [Next]_vars
    PROVE  PipeInv' /\ InMoves /\ MdMoves
BY SpinStep, FeedPushStep, FeedEndStep, MatcherLookStep, MatcherTakesStep, MatcherEmitsStep,
   MatcherPopsStep, PublisherLookStep, PublisherTakesStep, PublisherPopsStep
   DEF Next, Feed, Matcher, Publisher, Terminated

\* spsc_queue.hpp in exsim_pipeline.cpp: neither ring is read or prefetched
\* where it is being written, for every capture, capacity and index width.
THEOREM PipelineNeverTorn == Spec => []RingsSound
<1>1. Init => PipeInv
  BY PipeInit
<1>2. PipeInv /\ [Next]_vars => PipeInv'
  BY PipeNext
<1>3. PipeInv => RingsSound
  BY RingsFit, InActions, MdActions, InP!RingSound, MdP!RingSound DEF PipeInv, RingsInv, RingsSound
<1> QED
  BY <1>1, <1>2, <1>3, PTL DEF Spec

\* exsim_pipeline.cpp, the two flags and the second look at the ring: a thread
\* that ends has seen everything the one before it produced, in order, for
\* every number of commands and messages.
THEOREM PipelineIsComplete == Spec => []NothingLeftBehind
<1>1. Init => PipeInv
  BY PipeInit
<1>2. PipeInv /\ [Next]_vars => PipeInv'
  BY PipeNext
<1>3. PipeInv => NothingLeftBehind
  <2> SUFFICES ASSUME PipeInv PROVE NothingLeftBehind
    OBVIOUS
  <2>1. /\ seen.fed \in Seq(Commands) /\ \A i \in 1 .. Len(seen.fed) : seen.fed[i] = i
        /\ Handover
    BY DEF PipeInv, PipeTypes, Accounts
  <2>2. seen.fed = [i \in 1 .. Len(seen.fed) |-> i]
    BY <2>1
  <2> QED
    BY <2>1, <2>2 DEF NothingLeftBehind, Handover
<1> QED
  BY <1>1, <1>2, <1>3, PTL DEF Spec

\* Each ring of the pipeline implements the bounded FIFO queue.
THEOREM PipelineRingsAreFifos == Spec => RingsAreFifos
<1>1. Init => PipeInv /\ In!Fifo!Init /\ Md!Fifo!Init
  BY PipeInit, InActions, MdActions DEF In!Fifo!Init, Md!Fifo!Init
<1>2. In!Contents = InP!Contents /\ Md!Contents = MdP!Contents
  BY InActions, MdActions
<1>3. (In!Contents = InP!Contents)' /\ (Md!Contents = MdP!Contents)'
  BY <1>2, PTL
<1>4. PipeInv /\ [Next]_vars =>
        PipeInv' /\ [In!Fifo!Next]_(In!Contents) /\ [Md!Fifo!Next]_(Md!Contents)
  <2> SUFFICES ASSUME PipeInv, [Next]_vars
               PROVE PipeInv' /\ [In!Fifo!Next]_(In!Contents) /\ [Md!Fifo!Next]_(Md!Contents)
    OBVIOUS
  <2>1. PipeInv' /\ InMoves /\ MdMoves
    BY PipeNext
  <2>2. [In!Fifo!Next]_(In!Contents)
    BY <1>2, <1>3, <2>1 DEF InMoves, Commands, In!Fifo!Next, In!Fifo!Put, In!Fifo!Take
  <2>3. [Md!Fifo!Next]_(Md!Contents)
    BY <1>2, <1>3, <2>1 DEF MdMoves, Messages, Md!Fifo!Next, Md!Fifo!Put, Md!Fifo!Take
  <2> QED
    BY <2>1, <2>2, <2>3
<1> QED
  BY <1>1, <1>4, PTL DEF Spec, RingsAreFifos, In!IsFifo, Md!IsFifo, In!Fifo!Spec, Md!Fifo!Spec

=============================================================================
