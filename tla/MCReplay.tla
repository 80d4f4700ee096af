------------------------------ MODULE MCReplay ------------------------------
(***************************************************************************)
(* Small instances of the replay tools, the queue study and the            *)
(* market-making simulation for one run of TLC.  A behaviour is one of the *)
(* tool `tool'; the others stay as they are.                               *)
(***************************************************************************)
EXTENDS QueueStudy, BookMirror, MmSim

VARIABLE tool

NoVarieties == {}

-----------------------------------------------------------------------------
(* Days of the exchange for exsim_l3replay. *)

At(i, q, w) == [id |-> i, qty |-> q, owner |-> w]

Strangers ==
    [EmptyBook EXCEPT !["Buy"][1] = <<At(1, 2, 1)>>,
                      !["Sell"][2] = <<At(2, 1, 2), At(3, 1, 3)>>,
                      !["Sell"][3] = <<At(4, 2, 4)>>]

\* Two of the orders belong to the family.
WithFamily ==
    [EmptyBook EXCEPT !["Buy"][1] = <<At(1, 2, Family)>>,
                      !["Sell"][2] = <<At(2, 1, 2), At(3, 1, Family)>>,
                      !["Sell"][3] = <<At(4, 2, 4)>>]

Day ==
    [start |-> Strangers, ops |-> 2, varieties |-> {"Day"}, who |-> {FALSE}, sides |-> Sides,
     limits |-> 1 .. 3, qtys |-> 1 .. 2, other |-> {}, mode |-> "CancelResting", late |-> FALSE,
     losses |-> 0, snaps |-> 1, check |-> FALSE, dropEvery |-> 0]

\* Self-trade prevention of every mode, for every kind of arrival.
StpDays ==
    {[Day EXCEPT !.start = WithFamily, !.varieties = {"Day", "Ioc", "Funds", "Market"},
                 !.who = BOOLEAN, !.sides = {"Buy"}, !.limits = 2 .. 3, !.qtys = 1 .. 3,
                 !.mode = m] : m \in Modes}

\* Modifies, inside and outside of the band, and orders that vanish; the same
\* with whole-book checks.
ModifyDays ==
    {[Day EXCEPT !.other = {"Modify", "Cancel", "Vanish"}, !.limits = 1 .. 4],
     [Day EXCEPT !.other = {"Modify", "Cancel"}, !.check = TRUE]}

PostOnlyDay == [Day EXCEPT !.varieties = {"PostOnly", "Ioc"}, !.limits = 1 .. 4]

\* A message is lost, and snapshots reach the file late.
GapDay ==
    [Day EXCEPT !.ops = 3, !.losses = 1, !.snaps = 2, !.late = TRUE, !.sides = {"Buy"},
                !.limits = {2}, !.qtys = {1}, !.other = {"Cancel"}]

\* The tool withholds cancels from the engine.
FaultDay ==
    [Day EXCEPT !.ops = 3, !.dropEvery = 1, !.check = TRUE, !.sides = {"Buy"},
                !.limits = {2}, !.qtys = {1}, !.other = {"Cancel"}]

\* Cancels, modifies and trades around the probes of the queue study.
StudyDay ==
    [Day EXCEPT !.ops = 3, !.sides = {"Buy"}, !.limits = {2}, !.varieties = {"Ioc"},
                !.other = {"Cancel", "Modify"}]

StudyDays == {StudyDay, GapDay} \cup {d \in StpDays : d.mode = "DecrementCancel"}

Days == StpDays \cup ModifyDays \cup {PostOnlyDay, GapDay, FaultDay, StudyDay}

-----------------------------------------------------------------------------
(* Captures for exsim_mdreplay. *)

Levels(bids, asks) ==
    [s \in Sides |-> [p \in Prices |-> IF s = "Buy" THEN bids[p] ELSE asks[p]]]

\* The mid ticks up and down inside of a diff, with one level known per side.
Moving ==
    [start |-> Levels(<<1, 0, 0, 0>>, <<0, 1, 1, 0>>), updates |-> 4, losses |-> 0, snaps |-> 2,
     depth |-> 1, top |-> 1, maxOrders |-> 8, dropEvery |-> 0,
     moves |-> {<<"Buy", 2, 1>>, <<"Buy", 2, 0>>, <<"Sell", 2, 0>>, <<"Sell", 2, 2>>,
                <<"Buy", 1, 0>>, <<"Sell", 3, 2>>}]

CaptureSet ==
    {Moving,
     \* a diff is lost
     [Moving EXCEPT !.losses = 1, !.depth = 2, !.updates = 3],
     \* the engine's book is full, and a level lies outside of the ladder
     [Moving EXCEPT !.maxOrders = 2, !.depth = 3, !.top = 2, !.updates = 3,
                    !.moves = @ \cup {<<"Sell", 4, 1>>}],
     \* level updates are withheld
     [Moving EXCEPT !.dropEvery = 2, !.updates = 2, !.snaps = 1]}

-----------------------------------------------------------------------------
(* Captures for the market-making simulation. *)

\* Quotes at the touch, whose level trades, grows and shrinks.
Joining ==
    [start |-> Levels(<<1, 2, 0, 0>>, <<0, 0, 1, 1>>), records |-> 5, strategy |-> "JoinTouch",
     optimistic |-> FALSE, size |-> 1, maxUnits |-> 1, latency |-> 1, requoteTicks |-> 2,
     halfSpread |-> 0, warmup |-> 0, cancelled |-> 2,
     moves |-> {<<"Buy", 2, 3>>, <<"Buy", 2, 1>>}]

\* The place in the queue does not matter to the optimistic ones.
Simulations ==
    {Joining,
     [Joining EXCEPT !.strategy = "AvellanedaStoikov", !.records = 4, !.cancelled = 1],
     [Joining EXCEPT !.strategy = "FixedSpread", !.optimistic = TRUE, !.size = 2, !.warmup = 1,
                     !.records = 4, !.cancelled = 0, !.moves = @ \cup {<<"Sell", 3, 0>>}],
     \* quotes that are moved while they are live, one after the other
     [Joining EXCEPT !.strategy = "AvellanedaStoikov", !.optimistic = TRUE, !.size = 2,
                     !.start = Levels(<<1, 2, 0, 0>>, <<0, 0, 0, 1>>), !.requoteTicks = 1,
                     !.moves = {<<"Buy", 2, 2>>}, !.records = 6, !.cancelled = 0]}

-----------------------------------------------------------------------------

ToolInit ==
    /\ tool \in {"l3replay", "queuestudy", "mdreplay", "mmsim"}
    /\ Init
    /\ StudyInit
    /\ MirrorInit
    /\ MmInit
    /\ CASE tool = "l3replay" -> scen # StudyDay
         [] tool = "queuestudy" -> scen \in StudyDays
         [] OTHER -> scen = GapDay
    /\ tool # "queuestudy" => study.every = 1
    /\ tool # "mdreplay" => cap = Moving
    /\ tool # "mmsim" => run = Joining

ToolNext ==
    \/ tool = "l3replay" /\ Next /\ UNCHANGED <<study, mirrorVars, mmVars, tool>>
    \/ tool = "queuestudy" /\ StudyNext /\ UNCHANGED <<mirrorVars, mmVars, tool>>
    \/ tool = "mdreplay" /\ MirrorNext /\ UNCHANGED <<vars, study, mmVars, tool>>
    \/ tool = "mmsim" /\ MmNext /\ UNCHANGED <<vars, study, mirrorVars, tool>>

ToolSpec == ToolInit /\ [][ToolNext]_<<vars, study, mirrorVars, mmVars, tool>>
=============================================================================
