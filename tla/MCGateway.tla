----------------------------- MODULE MCGateway -----------------------------
(* Sessions, client ids and risk limits for TLC. *)
EXTENDS Gateway

\* Day orders, with the book's self-trade mode (none) or their own.
DayVarieties == [tif : {"Day"}, postOnly : {FALSE}, stp : {"None", "DecrementCancel"}]

Plain == {v \in DayVarieties : v.stp = "None"}

NoLimits == [maxQty |-> MaxQty, maxNotional |-> 0, collar |-> 0, maxOwners |-> 9,
             interval |-> 0, burst |-> 1]

\* One client that trades with itself, as exsim_client does.
OneClient == [limits |-> NoLimits, oneClient |-> TRUE, fds |-> {1},
              varieties |-> Varieties, maxQty |-> 2,
              maxPrice |-> 1, maxId |-> 3, restarts |-> 0]

\* Two connections at a time, by three owners, who come and go.
Sessions == [OneClient EXCEPT !.oneClient = FALSE, !.fds = {1, 2}, !.maxQty = 1,
                              !.varieties = Plain]

\* A restart leaves orders of sessions that are gone.  The third owner is
\* beyond max_owners.
Restarted == [Sessions EXCEPT !.maxId = 2, !.restarts = 1, !.limits.maxOwners = 3]

\* Every limit in force; the highest price is outside the band.
Limited == [OneClient EXCEPT !.maxPrice = 3, !.maxId = 2, !.varieties = Plain,
              !.limits = [maxQty |-> 1, maxNotional |-> 2, collar |-> 1, maxOwners |-> 9,
                          interval |-> 2, burst |-> 2]]

AllDeployments == {OneClient, Sessions, Restarted, Limited}
=============================================================================
