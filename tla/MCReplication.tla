--------------------------- MODULE MCReplication ---------------------------
(* Small deployments of the replicated exchange for TLC. *)
EXTENDS Replication

CONSTANTS n1, n2, n3

\* A server and one standby that waits to take over.
Pair ==
    [backups |-> {n2}, wait |-> TRUE, halt |-> TRUE, standby |-> TRUE, late |-> {},
     spares |-> {}, stops |-> TRUE, perPacket |-> 1, ring |-> 2, maxAsk |-> 1,
     journalFails |-> FALSE, slowClients |-> FALSE,
     maxBatch |-> 2, maxSeq |-> 2, maxCrashes |-> 1, maxRuns |-> 2]

\* The same, where the primary goes on without its backup.
Alone == [Pair EXCEPT !.halt = FALSE, !.maxRuns = 1]

\* A server without replicas, whose journal may fail.
Single ==
    [Pair EXCEPT !.backups = {}, !.wait = FALSE, !.standby = FALSE, !.journalFails = TRUE,
                 !.maxSeq = 3]

\* A primary that recovers next to the standby that replaced it.
Rejoin == [Pair EXCEPT !.maxSeq = 1, !.maxRuns = 3]

\* The promoted standby gets a backup of its own, from a full copy of its journal.
Succession ==
    [Pair EXCEPT !.late = {"full"}, !.spares = {n3}, !.stops = FALSE, !.maxSeq = 1,
                 !.maxCrashes = 0, !.maxRuns = 3]

\* No waiting; replicas join late and catch up, two commands to a packet.  The
\* ring holds a batch and not the whole stream.
Stream ==
    [Pair EXCEPT !.backups = {}, !.wait = FALSE, !.standby = FALSE,
                 !.late = {"older"}, !.spares = {n2}, !.stops = FALSE,
                 !.perPacket = 2, !.maxAsk = 2, !.maxSeq = 3, !.maxCrashes = 0, !.maxRuns = 1]

\* One backup that does not promote, also with clients that read slowly.
Lossy ==
    [Pair EXCEPT !.standby = FALSE, !.stops = FALSE, !.maxCrashes = 0, !.maxRuns = 1]
LossySlow == [Lossy EXCEPT !.slowClients = TRUE, !.maxSeq = 1]

SlowClient == [Pair EXCEPT !.slowClients = TRUE, !.maxRuns = 1]
JournalFailure == [Pair EXCEPT !.journalFails = TRUE, !.maxCrashes = 0, !.maxRuns = 1]

FailoverConfigs == {Pair, Alone, Single, Rejoin, Succession, Stream}
LossyConfigs == {Lossy, LossySlow}
SlowClientConfigs == {SlowClient}
JournalFailureConfigs == {JournalFailure}
=============================================================================
