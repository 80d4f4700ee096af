------------------------------ MODULE RiskGate ------------------------------
(***************************************************************************)
(* The pre-trade risk gate of include/exsim/risk.hpp, in front of one      *)
(* book: caps on size and notional, a collar around the last trade, and a  *)
(* limit on the rate of new orders and modifies of each owner (generic     *)
(* cell rate algorithm).  Halts are set by no program of the repository    *)
(* and are left out.                                                       *)
(***************************************************************************)
EXTENDS ReferenceBook

CONSTANT MaxTime      \* bound: the clock

ASSUME GateAssumption == MaxTime \in Nat

VARIABLES
    limits,      \* RiskConfig; interval is interval_, 0 for no rate limit
    now,         \* the clock that stamps Command::ts
    lastPx,      \* last_px_ of the symbol, 0 before the first trade
    tat,         \* tat_, by owner
    admitted     \* history: when the messages the rate limit let pass came, by owner

gateVars == <<limits, now, lastPx, tat, admitted>>

GateInit ==
    /\ now = 0
    /\ lastPx = 0
    /\ tat = [w \in Owners |-> 0]
    /\ admitted = [w \in Owners |-> <<>>]

\* burst messages may arrive together.
SlackWhole == limits.interval * limits.burst
Slack == limits.interval * (IF limits.burst # 0 THEN limits.burst - 1 ELSE 0)

AllowedFrom(w) == IF tat[w] > Slack THEN tat[w] - Slack ELSE 0

Distance(p, q) == IF p < q THEN q - p ELSE p - q

\* check, for a new order or a modify c of owner w.
Check(kind, c, w) ==
    LET priced == kind = "Modify" \/ ~Market(c)
        px == IF c.price < 0 THEN 0 ELSE c.price
    IN  IF c.qty > limits.maxQty THEN "RiskMaxQty"
        ELSE IF priced /\ limits.maxNotional # 0 /\ c.qty # 0
                       /\ px > limits.maxNotional \div c.qty THEN "RiskMaxNotional"
        ELSE IF priced /\ limits.collar # 0 /\ lastPx # 0
                       /\ Distance(c.price, lastPx) > limits.collar THEN "RiskCollar"
        ELSE IF w >= limits.maxOwners THEN "UnknownOwner"
        ELSE IF limits.interval # 0 /\ now < AllowedFrom(w) THEN "RiskRateLimit"
        ELSE "None"

\* A message of w passes the rate limit.
Admit(w) ==
    IF limits.interval = 0 THEN UNCHANGED <<tat, admitted>>
    ELSE /\ tat' = [tat EXCEPT ![w] = (IF now > @ THEN now ELSE @) + limits.interval]
         /\ admitted' = [admitted EXCEPT ![w] = Append(@, now)]

\* Tap: the price of the last trade among the events of this step.
TapTrades ==
    LET isTrade(e) == e.type = "Trade"
        trades == SelectSeq(events', isTrade)
    IN  lastPx' = IF trades = <<>> THEN lastPx ELSE trades[Len(trades)].price

\* process: a rejection ends here, anything else goes on to the book.
Process(kind, c, w) ==
    LET reason == IF kind = "Cancel" THEN "None" ELSE Check(kind, c, w)
    IN  \/ /\ reason # "None"
           /\ Reject(c, reason)
           /\ UNCHANGED gateVars
        \/ /\ reason = "None"
           /\ \/ kind = "New" /\ Add(c)
              \/ kind = "Modify" /\ Modify(c)
              \/ kind = "Cancel" /\ Cancel(c)
           /\ TapTrades
           /\ IF kind = "Cancel" THEN UNCHANGED <<tat, admitted>> ELSE Admit(w)
           /\ UNCHANGED <<limits, now>>

\* The book goes on with the command under way.
Proceed ==
    /\ Match \/ FinishMatch
    /\ TapTrades
    /\ UNCHANGED <<limits, now, tat, admitted>>

\* Time passes, while somebody looks at the clock: a command is stamped before
\* it is processed, so what passes during it counts for the next.
Tick ==
    /\ pc = "idle"
    /\ limits.interval # 0
    /\ now < MaxTime
    /\ now' = now + 1
    /\ UNCHANGED <<limits, lastPx, tat, admitted>>

-----------------------------------------------------------------------------

(* Properties. *)

\* What a rate limit means, with no state but the history: from any message to
\* any later one, both included, there are at most `burst' more messages than
\* the time between them pays for.
WithinRate(times) ==
    \A i, j \in DOMAIN times :
       i =< j => (j - i + 1 - limits.burst) * limits.interval =< times[j] - times[i]

\* risk.hpp:17-19, "burst messages may arrive at once, then rate_per_sec
\* sustained": the one number that the gate keeps for an owner decides every
\* message, now or later, exactly as the whole history of that owner would.
RateIsExact ==
    limits.interval # 0 =>
       \A w \in Owners, t \in now .. MaxTime :
          t < AllowedFrom(w) <=> ~WithinRate(Append(admitted[w], t))
=============================================================================
