------------------------------ MODULE Scaling ------------------------------
(***************************************************************************)
(* Dynamic scaling: sqlr-scaler opens sqlr-connection processes when the   *)
(* pool is below its minimum or the queue of clients is too long, from two *)
(* counters in shared memory that the scaler, the connections and the      *)
(* listeners maintain (sqlr-scaler.cpp, sqlrservercontroller.cpp,          *)
(* sqlrlistener.cpp).  Each counter update is made under its semaphore (4  *)
(* or 5), hence one step.  Semaphore 6 only wakes the scaler earlier than  *)
(* its tenth of a second would, and is left out.  There is one database.   *)
(***************************************************************************)
EXTENDS Integers, FiniteSets

CONSTANTS
    Procs,        \* sqlr-connection processes; a reaped pid may be used again
    Manual,       \* the ones sqlr-start (or a person) starts
    Clients,      \* clients, each with its listener process
    None,
    Pools,        \* how the pool may be configured, see Pool
    Attempts,     \* DEFAULT_CONNECTION_START_ATTEMPTS
    ManualFirst,  \* sqlr-start's connections log in before the scaler runs
    Ttl,          \* scaler-spawned connections exit, idle or after a session
    SpawnFails,   \* process::spawn() may fail
    MissedClients,\* a connection may announce itself and get no client
    MortalManual, \* the connections of sqlr-start that may be killed
    MaxFaults     \* bound: slow or failed starts, crashes, database failures

\* connections, maxconnections, maxqueuelength and growby.
Pool == [min : Nat, max : Nat, queue : Nat, growby : Nat \ {0}]

ASSUME ScalingAssumption ==
    /\ IsFiniteSet(Procs) /\ IsFiniteSet(Clients)
    /\ Manual \subseteq Procs
    /\ None \notin Procs \cup Clients
    /\ \A q \in Pools : q \in Pool /\ q.min <= q.max
    /\ Attempts \in Nat \ {0}
    /\ {ManualFirst, Ttl, SpawnFails, MissedClients} \subseteq BOOLEAN
    /\ MortalManual \subseteq Manual
    /\ MaxFaults \in Nat

VARIABLES
    pool,      \* the configuration
    total,     \* shm->totalconnections
    clients,   \* shm->connectedclients
    sem8,      \* connection -> scaler: ready
    pc,        \* where the scaler is in openMoreConnections()
    seenClients, seenConns,  \* connectedclients, currentconnections: its locals
    toOpen,    \* connections still to open: opencount - i
    attempts,
    connpid,
    proc,      \* the life of each connection process
    serving,   \* the client each connection serves
    lpc,       \* where each client's listener is
    up,        \* the database's .up file exists
    faults,    \* faults so far
    killedConns, killedClients  \* history: counted processes and clients that
                                \* were killed before they could be uncounted

shmvars    == <<total, clients, sem8>>
scalervars == <<pc, seenClients, seenConns, toOpen, attempts, connpid>>
procvars   == <<proc, serving>>
history    == <<killedConns, killedClients>>
vars == <<pool, shmvars, scalervars, procvars, lpc, up, faults, history>>

\* MUTANT: without the test for 0.
LessUntested(n) == n - 1

\* What decrementing a counter that may be 0 leaves.
Less(n) == IF n > 0 THEN n - 1 ELSE 0

Live == {p \in Procs : proc[p] \in {"starting", "running"}}
Waiting == {k \in Clients : lpc[k] = "waiting"}
InSession == {k \in Clients : lpc[k] = "session"}

Init ==
    /\ pool \in Pools
    /\ proc = [p \in Procs |-> IF p \notin Manual THEN "none"
                               ELSE IF ManualFirst THEN "running"
                               ELSE "starting"]
    /\ total = IF ManualFirst THEN Cardinality(Manual) ELSE 0
    /\ clients = 0 /\ sem8 = 0
    /\ pc = "reap"
    /\ seenClients = 0 /\ seenConns = 0 /\ toOpen = 0 /\ attempts = 0
    /\ connpid = None
    /\ serving = [p \in Procs |-> None]
    /\ lpc = [k \in Clients |-> "absent"]
    /\ up = TRUE
    /\ faults = 0 /\ killedConns = 0 /\ killedClients = 0

Fault == faults < MaxFaults /\ faults' = faults + 1

\* The process is gone; the scaler has its own children to reap.
Gone(p) ==
    proc' = [proc EXCEPT ![p] = IF p \in Manual THEN "none" ELSE "zombie"]

\* The session of p ends: decrementConnectedClientCount.
EndSession(p) ==
    /\ lpc' = [lpc EXCEPT ![serving[p]] = "done"]
    /\ serving' = [serving EXCEPT ![p] = None]
    /\ clients' = Less(clients)

\* p is killed without a chance to run its shutdown handler.
Killed(p) ==
    /\ proc[p] \in {"starting", "running"}
    /\ Gone(p)
    /\ serving' = [serving EXCEPT ![p] = None]
    /\ lpc' = [k \in Clients |-> IF serving[p] = k THEN "done" ELSE lpc[k]]
    /\ killedClients' = killedClients + (IF serving[p] = None THEN 0 ELSE 1)

-----------------------------------------------------------------------------
(* The scaler: openMoreConnections. *)

\* MUTANT: reap without decrementing.
ReapUncounted(p) ==
    /\ pc = "reap"
    /\ proc[p] = "zombie"
    /\ proc' = [proc EXCEPT ![p] = "none"]
    /\ UNCHANGED <<pool, shmvars, scalervars, serving, lpc, up, faults,
                   history>>

\* reapChildren(-1): one more child has exited.
Reap(p) ==
    /\ pc = "reap"
    /\ proc[p] = "zombie"
    /\ proc' = [proc EXCEPT ![p] = "none"]
    /\ total' = Less(total)
    /\ UNCHANGED <<pool, clients, sem8, scalervars, serving, lpc, up, faults,
                   history>>

\* No more children: getConnectedClientCount, which takes no semaphore ...
ReadClients ==
    /\ pc = "reap"
    /\ \A p \in Procs : proc[p] # "zombie"
    /\ seenClients' = clients
    /\ pc' = "decide"
    /\ UNCHANGED <<pool, shmvars, seenConns, toOpen, attempts, connpid,
                   procvars, lpc, up, faults, history>>

BelowMin == total < pool.min
QueueTooLong == seenClients >= total /\ seenClients - total > pool.queue

\* How many connections to open, with currentconnections = total.
OpenCount ==
    IF ~BelowMin /\ ~QueueTooLong THEN 0
    ELSE IF total + pool.growby <= pool.max THEN pool.growby
    ELSE IF BelowMin THEN pool.max - total ELSE 0

\* MUTANT: only the queue counts.
OpenForQueue ==
    /\ pc = "decide"
    /\ seenConns' = total
    /\ toOpen' = IF QueueTooLong /\ total + pool.growby <= pool.max
                 THEN pool.growby ELSE 0
    /\ attempts' = 0
    /\ pc' = IF toOpen' = 0 THEN "reap" ELSE "choose"
    /\ UNCHANGED <<pool, shmvars, seenClients, connpid, procvars, lpc, up,
                   faults, history>>

\* MUTANT: growing is not capped.
OpenUncapped ==
    /\ pc = "decide"
    /\ seenConns' = total
    /\ toOpen' = IF BelowMin \/ QueueTooLong THEN pool.growby ELSE 0
    /\ attempts' = 0
    /\ pc' = IF toOpen' = 0 THEN "reap" ELSE "choose"
    /\ UNCHANGED <<pool, shmvars, seenClients, connpid, procvars, lpc, up,
                   faults, history>>

\* ... then getConnectionCount, and the decision.
Decide ==
    /\ pc = "decide"
    /\ seenConns' = total
    /\ toOpen' = OpenCount
    /\ attempts' = 0
    /\ pc' = IF OpenCount = 0 THEN "reap" ELSE "choose"
    /\ UNCHANGED <<pool, shmvars, seenClients, connpid, procvars, lpc, up,
                   faults, history>>

\* One attempt has failed: try again, or give up on all that are to be opened.
FailedAttempt ==
    /\ attempts' = attempts + 1
    /\ pc' = IF attempts' = Attempts THEN "reap" ELSE "choose"

\* MUTANT: a database that is down does not count as an attempt.
SkipDownDatabaseFree ==
    /\ pc = "choose"
    /\ seenConns # 0 /\ ~up
    /\ UNCHANGED vars

\* availableDatabase is false; only asked if there were connections.
SkipDownDatabase ==
    /\ pc = "choose"
    /\ seenConns # 0 /\ ~up
    /\ FailedAttempt
    /\ UNCHANGED <<pool, shmvars, seenClients, seenConns, toOpen, connpid,
                   procvars, lpc, up, faults, history>>

\* MUTANT: semaphore 8 is not reset.
PrepareStartStale ==
    /\ pc = "choose"
    /\ seenConns = 0 \/ up
    /\ pc' = "spawn"
    /\ UNCHANGED <<pool, shmvars, seenClients, seenConns, toOpen, attempts,
                   connpid, procvars, lpc, up, faults, history>>

PrepareStart ==
    /\ pc = "choose"
    /\ seenConns = 0 \/ up
    /\ sem8' = 0
    /\ pc' = "spawn"
    /\ UNCHANGED <<pool, total, clients, seenClients, seenConns, toOpen,
                   attempts, connpid, procvars, lpc, up, faults, history>>

\* openOneConnection.
Spawn(p) ==
    /\ pc = "spawn"
    /\ p \notin Manual /\ proc[p] = "none"
    /\ proc' = [proc EXCEPT ![p] = "starting"]
    /\ connpid' = p
    /\ pc' = "count"
    /\ UNCHANGED <<pool, shmvars, seenClients, seenConns, toOpen, attempts,
                   serving, lpc, up, faults, history>>

\* ... returns 0: connpid stays 0, attempts is not incremented.
SpawnFailed ==
    /\ SpawnFails
    /\ pc = "spawn"
    /\ pc' = "choose"
    /\ UNCHANGED <<pool, shmvars, seenClients, seenConns, toOpen, attempts,
                   connpid, procvars, lpc, up, faults, history>>

CountConnection ==
    /\ pc = "count"
    /\ total' = total + 1
    /\ pc' = "started"
    /\ UNCHANGED <<pool, clients, sem8, seenClients, seenConns, toOpen,
                   attempts, connpid, procvars, lpc, up, faults, history>>

\* connectionStarted: on to the next connection.
ConnectionStarted ==
    /\ pc = "started"
    /\ sem8 > 0
    /\ sem8' = sem8 - 1
    /\ toOpen' = toOpen - 1
    /\ attempts' = 0
    /\ connpid' = None
    /\ pc' = IF toOpen' = 0 THEN "reap" ELSE "choose"
    /\ UNCHANGED <<pool, total, clients, seenClients, seenConns, procvars, lpc,
                   up, faults, history>>

\* ... or its timeout passes first, which takes a start that failed or is slow.
StartTimeout ==
    /\ pc = "started"
    /\ sem8 = 0
    /\ \/ proc[connpid] = "zombie" /\ UNCHANGED faults
       \/ proc[connpid] = "starting" /\ Fault
    /\ pc' = "kill"
    /\ UNCHANGED <<pool, shmvars, seenClients, seenConns, toOpen, attempts,
                   connpid, procvars, lpc, up, history>>

\* killConnection: it has exited, or SIGTERM makes it end its session and
\* exit ...
Terminate ==
    /\ pc = "kill"
    /\ proc[connpid] \in {"starting", "running"}
    /\ proc' = [proc EXCEPT ![connpid] = "zombie"]
    /\ IF serving[connpid] = None
       THEN UNCHANGED <<clients, serving, lpc>>
       ELSE EndSession(connpid)
    /\ UNCHANGED <<pool, total, sem8, scalervars, up, faults, history>>

\* ... or it takes SIGKILL.
Kill ==
    /\ pc = "kill"
    /\ Fault
    /\ Killed(connpid)
    /\ UNCHANGED <<pool, shmvars, scalervars, up, killedConns>>

\* ... reapChildren(connpid), and the attempt has failed.
ReapKilled ==
    /\ pc = "kill"
    /\ proc[connpid] = "zombie"
    /\ proc' = [proc EXCEPT ![connpid] = "none"]
    /\ total' = Less(total)
    /\ connpid' = None
    /\ FailedAttempt
    /\ UNCHANGED <<pool, clients, sem8, seenClients, seenConns, toOpen,
                   serving, lpc, up, faults, history>>

-----------------------------------------------------------------------------
(* The connection processes. *)

\* init has logged in: incrementConnectionCount and markDatabaseAvailable.
Ready(p) ==
    /\ proc[p] = "starting"
    /\ proc' = [proc EXCEPT ![p] = "running"]
    /\ IF p \in Manual THEN total' = total + 1 /\ UNCHANGED sem8
                       ELSE sem8' = sem8 + 1 /\ UNCHANGED total
    /\ up' = TRUE
    /\ UNCHANGED <<pool, clients, scalervars, serving, lpc, faults, history>>

\* init fails to log in.
LogInFails(p) ==
    /\ Fault
    /\ proc[p] = "starting"
    /\ Gone(p)
    /\ UNCHANGED <<pool, shmvars, scalervars, serving, lpc, up, history>>

\* waitForClient returns 1.
TakeClient(p, k) ==
    /\ up
    /\ proc[p] = "running" /\ serving[p] = None
    /\ lpc[k] = "waiting"
    /\ serving' = [serving EXCEPT ![p] = k]
    /\ lpc' = [lpc EXCEPT ![k] = "session"]
    /\ UNCHANGED <<pool, shmvars, scalervars, proc, up, faults, history>>

\* MUTANT: the client is not uncounted when its session ends.
EndClientUncounted(p) ==
    /\ serving[p] # None
    /\ lpc' = [lpc EXCEPT ![serving[p]] = "done"]
    /\ serving' = [serving EXCEPT ![p] = None]
    /\ UNCHANGED <<pool, shmvars, scalervars, proc, up, faults, history>>

\* The session ends: decrementConnectedClientCount, and a scaler-spawned
\* connection may have reached its ttl, session count or lifetime.
EndClient(p) ==
    /\ serving[p] # None
    /\ EndSession(p)
    /\ \/ UNCHANGED proc
       \/ Ttl /\ p \notin Manual /\ Gone(p)
    /\ UNCHANGED <<pool, total, sem8, scalervars, up, faults, history>>

\* getAListener gives up: the ttl of an idle scaler-spawned connection.
IdleExit(p) ==
    /\ Ttl /\ p \notin Manual
    /\ proc[p] = "running" /\ serving[p] = None
    /\ Gone(p)
    /\ UNCHANGED <<pool, shmvars, scalervars, serving, lpc, up, faults,
                   history>>

\* waitForClient returns -1: the listener that read the announcement did not
\* hand its client over in time, and is still waiting with it.
MissClient(p) ==
    /\ MissedClients
    /\ proc[p] = "running" /\ serving[p] = None
    /\ Waiting # {}
    /\ clients' = Less(clients)
    /\ UNCHANGED <<pool, total, sem8, scalervars, procvars, lpc, up, faults,
                   history>>

\* The process is killed; nobody uncounts one that sqlr-start started.
Crash(p) ==
    /\ p \in Manual => p \in MortalManual
    /\ Fault
    /\ Killed(p)
    /\ killedConns' = killedConns + (IF p \in Manual /\ proc[p] = "running"
                                     THEN 1 ELSE 0)
    /\ UNCHANGED <<pool, shmvars, scalervars, up>>

\* A session finds the database dead (markDatabaseUnavailable); a connection
\* has logged in again (markDatabaseAvailable).
MarkDown(p) ==
    /\ Fault
    /\ serving[p] # None
    /\ up' = FALSE
    /\ UNCHANGED <<pool, shmvars, scalervars, procvars, lpc, history>>

MarkUp(p) ==
    /\ proc[p] = "running"
    /\ ~up
    /\ up' = TRUE
    /\ UNCHANGED <<pool, shmvars, scalervars, procvars, lpc, faults, history>>

-----------------------------------------------------------------------------
(* The listener of each client: clientSession. *)

\* MUTANT: the client is not counted.
ArriveUncounted(k) ==
    /\ lpc[k] = "absent"
    /\ lpc' = [lpc EXCEPT ![k] = "waiting"]
    /\ UNCHANGED <<pool, shmvars, scalervars, procvars, up, faults, history>>

Arrive(k) ==
    /\ lpc[k] = "absent"
    /\ lpc' = [lpc EXCEPT ![k] = "waiting"]
    /\ clients' = clients + 1
    /\ UNCHANGED <<pool, total, sem8, scalervars, procvars, up, faults,
                   history>>

\* handOffOrProxyClient fails: listenertimeout, or all databases are down.
GiveUp(k) ==
    /\ lpc[k] = "waiting"
    /\ lpc' = [lpc EXCEPT ![k] = "done"]
    /\ clients' = Less(clients)
    /\ UNCHANGED <<pool, total, sem8, scalervars, procvars, up, faults,
                   history>>

\* The listener is killed.
CrashListener(k) ==
    /\ Fault
    /\ lpc[k] = "waiting"
    /\ lpc' = [lpc EXCEPT ![k] = "done"]
    /\ killedClients' = killedClients + 1
    /\ UNCHANGED <<pool, shmvars, scalervars, procvars, up, killedConns>>

-----------------------------------------------------------------------------

ScalerStep ==
    \/ \E p \in Procs : Reap(p) \/ Spawn(p)
    \/ ReadClients \/ Decide \/ SkipDownDatabase \/ PrepareStart
    \/ SpawnFailed \/ CountConnection \/ ConnectionStarted \/ StartTimeout
    \/ Terminate \/ Kill \/ ReapKilled

Next ==
    \/ ScalerStep
    \/ \E p \in Procs :
        \/ Ready(p) \/ LogInFails(p) \/ EndClient(p) \/ IdleExit(p)
        \/ MissClient(p) \/ Crash(p) \/ MarkDown(p) \/ MarkUp(p)
        \/ \E k \in Clients : TakeClient(p, k)
    \/ \E k \in Clients : Arrive(k) \/ GiveUp(k) \/ CrashListener(k)

Spec == Init /\ [][Next]_vars

(***************************************************************************)
(* The scaler keeps running, starting connections get ready or fail, and a *)
(* running one takes clients: a handoff takes milliseconds and a ttl       *)
(* seconds, so an idle connection does not time out each time just as      *)
(* clients wait, hence strong fairness.  Sessions need not end and a       *)
(* database that is down need not come back.                               *)
(***************************************************************************)
FairSpec ==
    /\ Spec
    /\ WF_vars(ScalerStep)
    /\ \A p \in Procs : WF_vars(Ready(p))
    /\ \A p \in Procs : SF_vars(\E k \in Clients : TakeClient(p, k))

-----------------------------------------------------------------------------

\* The counters, which only ever go down when they are above 0, and the rest of
\* the state keep their types (decrementConnectedClientCount).
TypeOK ==
    /\ pool \in Pools
    /\ total \in Nat /\ clients \in Nat /\ sem8 \in Nat
    /\ pc \in {"reap", "decide", "choose", "spawn", "count", "started", "kill"}
    /\ seenClients \in Nat /\ seenConns \in Nat /\ toOpen \in Nat
    /\ attempts \in 0 .. Attempts
    /\ connpid \in Procs \cup {None}
    /\ proc \in [Procs -> {"none", "starting", "running", "zombie"}]
    /\ serving \in [Procs -> Clients \cup {None}]
    /\ lpc \in [Clients -> {"absent", "waiting", "session", "done"}]
    /\ up \in BOOLEAN
    /\ faults \in 0 .. MaxFaults
    /\ killedConns \in 0 .. faults /\ killedClients \in 0 .. faults

\* The processes that totalconnections stands for: sqlr-start's count
\* themselves once they have logged in, the scaler's count from
\* incrementConnectionCount until it has reaped them.
Counted == {p \in Procs : IF p \in Manual THEN proc[p] = "running"
                          ELSE /\ proc[p] # "none"
                               /\ ~(pc = "count" /\ connpid = p)}

\* totalconnections is the number of connection processes and of the ones from
\* sqlr-start that were killed, whatever exits, fails to start or is given up on
\* (reapChildren, killConnection, incrementConnectionCount).
ConnectionCountRight == total = Cardinality(Counted) + killedConns

\* connectedclients is the number of clients with a listener or a connection and
\* of those whose process was killed (sqlrlistener.cpp:672-675): "listener
\* increases connected client count when a client connects", "connection
\* decreases connected client count when a client disconnects".
ClientCountRight ==
    clients = Cardinality(Waiting) + Cardinality(InSession) + killedClients

\* maxconnections is "the maximum number of database connections to scale up to"
\* (configreference.wt:56), which growing in steps of growby and from below the
\* minimum must keep (sqlr-scaler.cpp:571-580).
PoolWithinMax == Cardinality(Live) <= pool.max

\* The scaler takes semaphore 8 for the connection it has just spawned: a signal
\* of one it had given up on does not make another one ready.
StartedIsReady ==
    [][pc = "started" /\ sem8' < sem8 => proc[connpid] # "starting"]_vars

\* "the pool has fallen below its configured minimum" (sqlr-scaler.cpp:561):
\* once the database stays up, connections are opened until it has not.
BelowMinimum == Cardinality(Live) < pool.min
MinimumRestored == <>[]up => (BelowMinimum ~> ~BelowMinimum)

\* Once the database stays up, a queue that is too long does not stay that way
\* while the pool can grow (sqlr-scaler.cpp:564-568).
QueueTooLongForPool ==
    /\ Cardinality(Waiting) > pool.queue
    /\ Cardinality(Live) + pool.growby <= pool.max
QueueGrowsPool == <>[]up => (QueueTooLongForPool ~> ~QueueTooLongForPool)

\* The scaler always returns to reap children and look at the pool again
\* (sqlr-scaler.cpp:577-583, 602-606), whatever the database does.
ScalerReturns == pc # "reap" ~> pc = "reap"
=============================================================================
