------------------------------ MODULE Handoff ------------------------------
(***************************************************************************)
(* How sqlr-listener and sqlr-connection processes meet.  Connections      *)
(* announce themselves one at a time through a shared-memory slot; the     *)
(* main listener forks a child per client (or serves it inline), the child *)
(* takes the announced pid, finds that connection's handoff socket and     *)
(* passes the client's descriptor over it.  sqlrlistener.cpp and           *)
(* sqlrservercontroller.cpp, with the semaphores created at                *)
(* sqlrlistener.cpp:643-690:                                               *)
(*   sem0  connections' announce mutex          (initially 1, SEM_UNDO)    *)
(*   sem1  listeners' shared-memory mutex       (initially 1, SEM_UNDO)    *)
(*   sem2  connection -> listener "registered"  (initially 0)              *)
(*   sem3  listener -> connection "read it"     (initially 0)              *)
(* A client stands for the listener process that serves it.  The three     *)
(* writes of a handoff (mode, protocol, descriptor) are one message, and a *)
(* pid is never reused.                                                    *)
(***************************************************************************)
EXTENDS Naturals, Sequences, FiniteSets

CONSTANTS
    Conns,           \* pids of sqlr-connection processes, one per process life
    Clients,         \* clients, each with the listener process that serves it
    None,            \* "no pid", "no client"
    Reconnect,       \* the HANDOFF_RECONNECT command
    Dbs,             \* connection ids (a database each)
    DbOf,            \* the connection id a connection logs in to
    DynamicScaling,  \* maxconnections > connections: every client is forked for
    UseThreads,      \* sessionhandler="thread": children share the main's list
    Ttl,             \* idle connections give up (ttl, maxsessioncount, softttl)
    SlowHandoff,     \* the 1s reads of a handoff may expire on a peer at work
    ListenerTimeout, \* listenertimeout > 0
    WaitForDownDb,   \* waitfordowndatabase
    SocketBuffer,    \* bound: messages a handoff socket holds before writes block
    MaxDbFailures,   \* bound: database failures in a behaviour
    MortalConns,     \* bound: the connections that may crash
    MortalListeners  \* bound: the forked listeners that may crash

ASSUME HandoffAssumption ==
    /\ None \notin Conns \cup Clients
    /\ Reconnect \notin Clients \cup {None}
    /\ DbOf \in [Conns -> Dbs]
    /\ {DynamicScaling, UseThreads, Ttl, SlowHandoff, ListenerTimeout,
        WaitForDownDb} \subseteq BOOLEAN
    /\ SocketBuffer \in Nat \ {0}
    /\ MaxDbFailures \in Nat
    /\ MortalConns \subseteq Conns
    /\ MortalListeners \subseteq Clients

VARIABLES
    sem0, sem1, sem2, sem3,
    shmPid,      \* shm->connectioninfo.connectionpid (connectionid is its DbOf)
    cpc,         \* where each connection is in listen() / getAListener()
    serving,     \* the client a connection is in a session with
    sock,        \* connections whose end of the handoff socket is open
    hq,          \* what listeners wrote to a handoff socket, not yet read
    ack,         \* ACK bytes written back on it, not yet read
    lpc,         \* where each listener process is in handOffOrProxyClient()
    got,         \* the pid a listener read from shared memory
    copy,        \* a child's fork-time copy of the main's handoffsocklist
    reg,         \* the main listener's handoffsocklist
    pendreg,     \* registrations sent, not accepted by the main listener
    pendrem,     \* deregistrations sent, not accepted by the main listener
    inline,      \* the client the main listener serves itself
    up,          \* connection ids whose .up file exists
    pings,       \* pids that pingDatabase() children are to jog
    served,      \* how often a connection has picked a client up
    failures     \* database failures so far

semvars  == <<sem0, sem1, sem2, sem3, shmPid>>
connvars == <<cpc, serving>>
sockvars == <<sock, hq, ack>>
lsnrvars == <<lpc, got, copy>>
mainvars == <<reg, pendreg, pendrem, inline>>
dbvars   == <<up, pings, failures>>
vars == <<semvars, connvars, sockvars, lsnrvars, mainvars, dbvars, served>>

ConnStates == {"off", "avail", "markdown", "relogin", "register", "announce",
               "reset", "write", "signal2", "wait3", "release", "giveup",
               "close", "waitclient", "session", "sessdown", "exit", "gone"}
LsnrStates == {"new", "start", "accept", "read", "signal3", "release",
               "abandon", "check", "find", "fixup", "send", "ack", "done",
               "failed", "dead"}

\* Connections between acquireShmAccess() and releaseShmAccess().
Announcing == {"reset", "write", "signal2", "wait3", "release", "giveup"}
\* Listeners between their acquireShmAccess() and releaseShmAccess().
Reading == {"accept", "read", "signal3", "release", "abandon"}
\* Listeners holding the pid of a connection they have not yet written to.
Promised == {"signal3", "release", "check", "find", "fixup", "send"}
\* Listeners that have not finished with their client.
Active == LsnrStates \ {"new", "done", "failed", "dead"}

\* Semaphore 10, which a listener that dies never gives back.
Busy == {k \in Clients : lpc[k] \in Active \cup {"dead"}}

\* The handoffsocklist a listener searches: threads and the main listener use
\* the live list, a forked child the copy it was forked with.
List(k) == IF UseThreads \/ inline = k THEN reg ELSE copy[k]

\* The listeners that hold the pid of c and have not yet written to it.
HoldersOf(c) == {k \in Clients : lpc[k] \in Promised /\ got[k] = c}

\* c is about to read its handoff socket.
AboutToRead(c) == \/ cpc[c] \in {"release", "waitclient"}
                  \/ cpc[c] = "wait3" /\ sem3 > 0

Init ==
    /\ sem0 = 1 /\ sem1 = 1 /\ sem2 = 0 /\ sem3 = 0
    /\ shmPid = None
    /\ cpc = [c \in Conns |-> "off"]
    /\ serving = [c \in Conns |-> None]
    /\ sock = {}
    /\ hq = [c \in Conns |-> <<>>]
    /\ ack = [c \in Conns |-> 0]
    /\ lpc = [k \in Clients |-> "new"]
    /\ got = [k \in Clients |-> None]
    /\ copy = [k \in Clients |-> {}]
    /\ reg = {} /\ pendreg = {} /\ pendrem = {}
    /\ inline = None
    /\ up = Dbs
    /\ pings = {}
    /\ served = [k \in Clients |-> 0]
    /\ failures = 0

-----------------------------------------------------------------------------
(* The connection daemon. *)

GotoC(c, s) == cpc' = [cpc EXCEPT ![c] = s]
\* getAListener registers the process unless it has.
Ready(c) == IF c \in sock THEN "announce" ELSE "register"

\* waitForAvailableDatabase: look for the .up file ...
CheckDatabase(c) ==
    /\ cpc[c] \in {"off", "avail"}
    /\ GotoC(c, IF DbOf[c] \in up THEN Ready(c) ELSE "markdown")
    /\ UNCHANGED <<semvars, serving, sockvars, lsnrvars, mainvars, dbvars,
                   served>>

\* ... and without one reLogIn(false) marks the database unavailable (again)
\* and logs in over and over.
MarkUnavailable(c) ==
    /\ cpc[c] = "markdown"
    /\ up' = up \ {DbOf[c]}
    /\ GotoC(c, "relogin")
    /\ UNCHANGED <<semvars, serving, sockvars, lsnrvars, mainvars, pings,
                   failures, served>>

\* reLogIn succeeds: markDatabaseAvailable.
LoggedInAgain(c) ==
    /\ cpc[c] \in {"relogin", "sessdown"}
    /\ GotoC(c, IF cpc[c] = "relogin" THEN Ready(c) ELSE "session")
    /\ up' = up \cup {DbOf[c]}
    /\ UNCHANGED <<semvars, serving, sockvars, lsnrvars, mainvars, pings,
                   failures, served>>

\* registerForHandoff: connect to the handoff socket and write the pid.  Both
\* succeed as soon as they are queued on the listener's socket.
Register(c) ==
    /\ cpc[c] = "register"
    /\ GotoC(c, "announce")
    /\ sock' = sock \cup {c}
    /\ pendreg' = pendreg \cup {c}
    /\ UNCHANGED <<semvars, serving, hq, ack, lsnrvars, reg, pendrem, inline,
                   dbvars, served>>

\* MUTANT: a wait on semaphore 0 that does not block.
AcquireAnnounceUnblocked(c) ==
    /\ cpc[c] = "announce"
    /\ sem0' = sem0 - 1
    /\ GotoC(c, "reset")
    /\ UNCHANGED <<sem1, sem2, sem3, shmPid, serving, sockvars, lsnrvars,
                   mainvars, dbvars, served>>

\* acquireShmAccess: wait on semaphore 0.
AcquireAnnounce(c) ==
    /\ cpc[c] = "announce"
    /\ sem0 > 0
    /\ sem0' = sem0 - 1
    /\ GotoC(c, "reset")
    /\ UNCHANGED <<sem1, sem2, sem3, shmPid, serving, sockvars, lsnrvars,
                   mainvars, dbvars, served>>

\* MUTANT: release a mutex that was not acquired.
AnnounceTimeoutReleases(c) ==
    /\ Ttl
    /\ cpc[c] = "announce"
    /\ GotoC(c, "giveup")
    /\ UNCHANGED <<semvars, serving, sockvars, lsnrvars, mainvars, dbvars,
                   served>>

\* ... or the ttl runs out first and the process goes on to exit.
AnnounceTimeout(c) ==
    /\ Ttl
    /\ cpc[c] = "announce"
    /\ GotoC(c, "exit")
    /\ UNCHANGED <<semvars, serving, sockvars, lsnrvars, mainvars, dbvars,
                   served>>

\* resetSemaphores.
ResetSemaphores(c) ==
    /\ cpc[c] = "reset"
    /\ sem2' = 0 /\ sem3' = 0
    /\ GotoC(c, "write")
    /\ UNCHANGED <<sem0, sem1, shmPid, serving, sockvars, lsnrvars, mainvars,
                   dbvars, served>>

\* Write the connection id and the pid into the segment.
WritePid(c) ==
    /\ cpc[c] = "write"
    /\ shmPid' = c
    /\ GotoC(c, "signal2")
    /\ UNCHANGED <<sem0, sem1, sem2, sem3, serving, sockvars, lsnrvars,
                   mainvars, dbvars, served>>

\* signalListenerToRead.
SignalListener(c) ==
    /\ cpc[c] = "signal2"
    /\ sem2' = sem2 + 1
    /\ GotoC(c, "wait3")
    /\ UNCHANGED <<sem0, sem1, sem3, shmPid, serving, sockvars, lsnrvars,
                   mainvars, dbvars, served>>

\* MUTANT: go on without waiting for semaphore 3.
ListenerReadUnwaited(c) ==
    /\ cpc[c] = "wait3"
    /\ sem3' = IF sem3 > 0 THEN sem3 - 1 ELSE 0
    /\ GotoC(c, "release")
    /\ UNCHANGED <<sem0, sem1, sem2, shmPid, serving, sockvars, lsnrvars,
                   mainvars, dbvars, served>>

\* waitForListenerToFinishReading: semaphore 3 arrives, or the ttl runs out.
ListenerRead(c) ==
    /\ cpc[c] = "wait3"
    /\ sem3 > 0
    /\ sem3' = sem3 - 1
    /\ GotoC(c, "release")
    /\ UNCHANGED <<sem0, sem1, sem2, shmPid, serving, sockvars, lsnrvars,
                   mainvars, dbvars, served>>

ListenerReadTimeout(c) ==
    /\ Ttl
    /\ cpc[c] = "wait3"
    /\ GotoC(c, "giveup")
    /\ UNCHANGED <<semvars, serving, sockvars, lsnrvars, mainvars, dbvars,
                   served>>

\* releaseShmAccess, on success and after a timeout.
ReleaseAnnounce(c) ==
    /\ cpc[c] \in {"release", "giveup"}
    /\ sem0' = sem0 + 1
    /\ GotoC(c, IF cpc[c] = "release" THEN "waitclient" ELSE "close")
    /\ UNCHANGED <<sem1, sem2, sem3, shmPid, serving, sockvars, lsnrvars,
                   mainvars, dbvars, served>>

\* After a timeout the handoff socket is closed so that a handoff fails.
CloseHandoffSocket(c) ==
    /\ cpc[c] = "close"
    /\ sock' = sock \ {c}
    /\ hq' = [hq EXCEPT ![c] = <<>>]
    /\ GotoC(c, "exit")
    /\ UNCHANGED <<semvars, serving, ack, lsnrvars, mainvars, dbvars, served>>

\* MUTANT: no ack.
PickUpClientSilently(c) ==
    /\ cpc[c] = "waitclient"
    /\ hq[c] # <<>>
    /\ Head(hq[c]) # Reconnect
    /\ serving' = [serving EXCEPT ![c] = Head(hq[c])]
    /\ served' = [served EXCEPT ![Head(hq[c])] = @ + 1]
    /\ hq' = [hq EXCEPT ![c] = Tail(@)]
    /\ GotoC(c, "session")
    /\ UNCHANGED <<semvars, sock, ack, lsnrvars, mainvars, dbvars>>

\* MUTANT: ack before the descriptor is received, which then fails.
PickUpClientAckFirst(c) ==
    /\ cpc[c] = "waitclient"
    /\ hq[c] # <<>>
    /\ Head(hq[c]) # Reconnect
    /\ hq' = [hq EXCEPT ![c] = Tail(@)]
    /\ ack' = [ack EXCEPT ![c] = @ + 1]
    /\ GotoC(c, "avail")
    /\ UNCHANGED <<semvars, serving, sock, lsnrvars, mainvars, dbvars, served>>

\* waitForClient reads HANDOFF_PASS, the protocol and the descriptor, acks,
\* and the session begins.
PickUpClient(c) ==
    /\ cpc[c] = "waitclient"
    /\ hq[c] # <<>>
    /\ Head(hq[c]) # Reconnect
    /\ serving' = [serving EXCEPT ![c] = Head(hq[c])]
    /\ served' = [served EXCEPT ![Head(hq[c])] = @ + 1]
    /\ hq' = [hq EXCEPT ![c] = Tail(@)]
    /\ ack' = [ack EXCEPT ![c] = @ + 1]
    /\ GotoC(c, "session")
    /\ UNCHANGED <<semvars, sock, lsnrvars, mainvars, dbvars>>

\* waitForClient reads HANDOFF_RECONNECT and returns 2: loop back.
PickUpReconnect(c) ==
    /\ cpc[c] = "waitclient"
    /\ hq[c] # <<>>
    /\ Head(hq[c]) = Reconnect
    /\ hq' = [hq EXCEPT ![c] = Tail(@)]
    /\ GotoC(c, "avail")
    /\ UNCHANGED <<semvars, serving, sock, ack, lsnrvars, mainvars, dbvars,
                   served>>

\* Nothing arrives within the one second of waitForClient's read: it returns
\* -1 and listen() loops back to announce again.  Unless SlowHandoff, that only
\* happens when nobody is about to write to the connection.
WaitForClientTimeout(c) ==
    /\ cpc[c] = "waitclient"
    /\ hq[c] = <<>>
    /\ SlowHandoff \/ (HoldersOf(c) = {} /\ c \notin pings)
    /\ GotoC(c, "avail")
    /\ UNCHANGED <<semvars, serving, sockvars, lsnrvars, mainvars, dbvars,
                   served>>

\* The session ends.  listen() loops back, or a scaler-spawned connection has
\* used up its ttl, session count or lifetime and returns.
EndSession(c) ==
    /\ cpc[c] = "session"
    /\ serving' = [serving EXCEPT ![c] = None]
    /\ \/ GotoC(c, "avail")
       \/ Ttl /\ DynamicScaling /\ GotoC(c, "exit")
    /\ UNCHANGED <<semvars, sockvars, lsnrvars, mainvars, dbvars, served>>

\* A session finds its database dead and reLogIn(true) marks it unavailable.
DatabaseDies(c) ==
    /\ failures < MaxDbFailures
    /\ cpc[c] = "session"
    /\ failures' = failures + 1
    /\ up' = up \ {DbOf[c]}
    /\ GotoC(c, "sessdown")
    /\ UNCHANGED <<semvars, serving, sockvars, lsnrvars, mainvars, pings,
                   served>>

\* shutDown: deregister, and the exit closes the socket.
Exit(c) ==
    /\ cpc[c] = "exit"
    /\ pendrem' = pendrem \cup {c}
    /\ sock' = sock \ {c}
    /\ hq' = [hq EXCEPT ![c] = <<>>]
    /\ GotoC(c, "gone")
    /\ UNCHANGED <<semvars, serving, ack, lsnrvars, reg, pendreg, inline,
                   dbvars, served>>

\* A connection dies anywhere: the kernel closes its socket and undoes its wait
\* on semaphore 0; nobody resets semaphores 2 and 3 or deregisters it.
CrashConnection(c) ==
    /\ c \in MortalConns
    /\ cpc[c] \notin {"off", "gone"}
    /\ sem0' = IF cpc[c] \in Announcing THEN sem0 + 1 ELSE sem0
    /\ sock' = sock \ {c}
    /\ hq' = [hq EXCEPT ![c] = <<>>]
    /\ serving' = [serving EXCEPT ![c] = None]
    /\ GotoC(c, "gone")
    /\ UNCHANGED <<sem1, sem2, sem3, shmPid, ack, lsnrvars, mainvars, dbvars,
                   served>>

-----------------------------------------------------------------------------
(* The main listener. *)

MainFree == inline = None

\* handleTraffic on the handoff and removehandoff sockets.
RegisterHandoff(c) ==
    /\ MainFree
    /\ c \in pendreg
    /\ pendreg' = pendreg \ {c}
    /\ reg' = reg \cup {c}
    /\ UNCHANGED <<semvars, connvars, sockvars, lsnrvars, pendrem, inline,
                   dbvars, served>>

DeRegisterHandoff(c) ==
    /\ MainFree
    /\ c \in pendrem
    /\ pendrem' = pendrem \ {c}
    /\ reg' = reg \ {c}
    /\ UNCHANGED <<semvars, connvars, sockvars, lsnrvars, pendreg, inline,
                   dbvars, served>>

\* fixup: a listener asked for the socket of a pid it does not know.
Fixup(k) ==
    /\ MainFree
    /\ lpc[k] = "fixup"
    /\ lpc' = [lpc EXCEPT ![k] = IF got[k] \in reg THEN "send" ELSE "start"]
    /\ UNCHANGED <<semvars, connvars, sockvars, got, copy, mainvars, dbvars,
                   served>>

\* handleTraffic on a client socket: fork unless no listener is busy and a
\* connection is announced, in which case the main listener serves it inline.
AcceptClient(k) ==
    /\ MainFree
    /\ lpc[k] = "new"
    /\ lpc' = [lpc EXCEPT ![k] = "start"]
    /\ IF DynamicScaling \/ Busy # {} \/ sem2 = 0
       THEN copy' = [copy EXCEPT ![k] = reg] /\ UNCHANGED inline
       ELSE inline' = k /\ UNCHANGED copy
    /\ UNCHANGED <<semvars, connvars, sockvars, got, reg, pendreg, pendrem,
                   dbvars, served>>

-----------------------------------------------------------------------------
(* The listener process of client k: handOffOrProxyClient, HANDOFF_PASS. *)

GotoL(k, s) == lpc' = [lpc EXCEPT ![k] = s]
\* The client is dealt with, and the main listener is free if it served it.
FinishL(k, s) ==
    /\ GotoL(k, s)
    /\ inline' = IF inline = k THEN None ELSE inline

\* acquireShmAccess: wait on semaphore 1.
AcquireShm(k) ==
    /\ lpc[k] = "start"
    /\ sem1 > 0
    /\ sem1' = sem1 - 1
    /\ GotoL(k, "accept")
    /\ UNCHANGED <<sem0, sem2, sem3, shmPid, connvars, sockvars, got, copy,
                   mainvars, dbvars, served>>

\* ... or listenertimeout passes and the client gets an error.
AcquireShmTimeout(k) ==
    /\ ListenerTimeout
    /\ lpc[k] = "start"
    /\ FinishL(k, "failed")
    /\ UNCHANGED <<semvars, connvars, sockvars, got, copy, reg, pendreg,
                   pendrem, dbvars, served>>

\* MUTANT: look at semaphore 2 without taking its token.
AcceptConnectionPeeks(k) ==
    /\ lpc[k] = "accept"
    /\ WaitForDownDb \/ up # {}
    /\ sem2 > 0
    /\ GotoL(k, "read")
    /\ UNCHANGED <<semvars, connvars, sockvars, got, copy, mainvars, dbvars,
                   served>>

\* MUTANT: go on without waiting for semaphore 2.
AcceptConnectionUnwaited(k) ==
    /\ lpc[k] = "accept"
    /\ sem2' = IF sem2 > 0 THEN sem2 - 1 ELSE 0
    /\ GotoL(k, "read")
    /\ UNCHANGED <<sem0, sem1, sem3, shmPid, connvars, sockvars, got, copy,
                   mainvars, dbvars, served>>

\* acceptAvailableConnection: wait on semaphore 2 ...
AcceptConnection(k) ==
    /\ lpc[k] = "accept"
    /\ WaitForDownDb \/ up # {}
    /\ sem2 > 0
    /\ sem2' = sem2 - 1
    /\ GotoL(k, "read")
    /\ UNCHANGED <<sem0, sem1, sem3, shmPid, connvars, sockvars, got, copy,
                   mainvars, dbvars, served>>

\* ... unless every database is down or listenertimeout passes.
AcceptConnectionFails(k) ==
    /\ lpc[k] = "accept"
    /\ ListenerTimeout \/ (~WaitForDownDb /\ up = {})
    /\ GotoL(k, "abandon")
    /\ UNCHANGED <<semvars, connvars, sockvars, got, copy, mainvars, dbvars,
                   served>>

\* Read the pid from the segment.
ReadPid(k) ==
    /\ lpc[k] = "read"
    /\ got' = [got EXCEPT ![k] = shmPid]
    /\ GotoL(k, "signal3")
    /\ UNCHANGED <<semvars, connvars, sockvars, copy, mainvars, dbvars, served>>

\* doneAcceptingAvailableConnection.
DoneAccepting(k) ==
    /\ lpc[k] = "signal3"
    /\ sem3' = sem3 + 1
    /\ GotoL(k, "release")
    /\ UNCHANGED <<sem0, sem1, sem2, shmPid, connvars, sockvars, got, copy,
                   mainvars, dbvars, served>>

\* releaseShmAccess.
ReleaseShm(k) ==
    /\ lpc[k] \in {"release", "abandon"}
    /\ sem1' = sem1 + 1
    /\ IF lpc[k] = "release"
       THEN GotoL(k, "check") /\ UNCHANGED inline
       ELSE FinishL(k, "failed")
    /\ UNCHANGED <<sem0, sem2, sem3, shmPid, connvars, sockvars, got, copy,
                   reg, pendreg, pendrem, dbvars, served>>

\* connectionIsUp(shm->connectionid), read after the mutex is released; if the
\* database is down, a child is forked to jog the connection and the listener
\* goes back for another one.
CheckUp(k) ==
    /\ lpc[k] = "check"
    /\ IF DbOf[shmPid] \in up
       THEN GotoL(k, "find") /\ UNCHANGED pings
       ELSE GotoL(k, "start") /\ pings' = pings \cup {got[k]}
    /\ UNCHANGED <<semvars, connvars, sockvars, got, copy, mainvars, up,
                   failures, served>>

\* pingDatabaseInternal: findMatchingSocket, then write HANDOFF_RECONNECT.
Ping(c) ==
    /\ c \in pings
    /\ Len(hq[c]) < SocketBuffer
    /\ pings' = pings \ {c}
    /\ hq' = IF c \in reg /\ c \in sock
             THEN [hq EXCEPT ![c] = Append(@, Reconnect)] ELSE hq
    /\ UNCHANGED <<semvars, connvars, sock, ack, lsnrvars, mainvars, up,
                   failures, served>>

\* findMatchingSocket, and requestFixup if the pid is not in the list.
FindSocket(k) ==
    /\ lpc[k] = "find"
    /\ GotoL(k, IF got[k] \in List(k) THEN "send" ELSE "fixup")
    /\ UNCHANGED <<semvars, connvars, sockvars, got, copy, mainvars, dbvars,
                   served>>

\* MUTANT: give up on the client when the write fails.
PassClientOnce(k) ==
    /\ lpc[k] = "send"
    /\ Len(hq[got[k]]) < SocketBuffer
    /\ IF got[k] \in sock
       THEN /\ hq' = [hq EXCEPT ![got[k]] = Append(@, k)]
            /\ GotoL(k, "ack") /\ UNCHANGED inline
       ELSE UNCHANGED hq /\ FinishL(k, "failed")
    /\ UNCHANGED <<semvars, connvars, sock, ack, got, copy, reg, pendreg,
                   pendrem, dbvars, served>>

\* Write the mode and protocol and pass the descriptor; if the connection has
\* closed its end, loop back for another connection.
PassClient(k) ==
    /\ lpc[k] = "send"
    /\ Len(hq[got[k]]) < SocketBuffer
    /\ IF got[k] \in sock
       THEN /\ hq' = [hq EXCEPT ![got[k]] = Append(@, k)]
            /\ GotoL(k, "ack")
       ELSE UNCHANGED hq /\ GotoL(k, "start")
    /\ UNCHANGED <<semvars, connvars, sock, ack, got, copy, mainvars, dbvars,
                   served>>

\* MUTANT: read whatever the socket holds.
ReadAckAll(k) ==
    /\ lpc[k] = "ack"
    /\ ack[got[k]] > 0
    /\ ack' = [ack EXCEPT ![got[k]] = 0]
    /\ FinishL(k, "done")
    /\ UNCHANGED <<semvars, connvars, sock, hq, got, copy, reg, pendreg,
                   pendrem, dbvars, served>>

\* Read the ack: the handoff worked.
ReadAck(k) ==
    /\ lpc[k] = "ack"
    /\ ack[got[k]] > 0
    /\ ack' = [ack EXCEPT ![got[k]] = @ - 1]
    /\ FinishL(k, "done")
    /\ UNCHANGED <<semvars, connvars, sock, hq, got, copy, reg, pendreg,
                   pendrem, dbvars, served>>

\* The socket is closed or the one second of the read passes before an ack
\* comes: loop back.  What was written stays in the socket.
ReadAckFails(k) ==
    /\ lpc[k] = "ack"
    /\ ack[got[k]] = 0
    /\ SlowHandoff \/ ~AboutToRead(got[k])
    /\ GotoL(k, "start")
    /\ UNCHANGED <<semvars, connvars, sockvars, got, copy, mainvars, dbvars,
                   served>>

\* A forked child dies: the kernel undoes its wait on semaphore 1.
CrashListener(k) ==
    /\ k \in MortalListeners
    /\ lpc[k] \in Active
    /\ inline # k /\ ~UseThreads
    /\ sem1' = IF lpc[k] \in Reading THEN sem1 + 1 ELSE sem1
    /\ GotoL(k, "dead")
    /\ UNCHANGED <<sem0, sem2, sem3, shmPid, connvars, sockvars, got, copy,
                   mainvars, dbvars, served>>

-----------------------------------------------------------------------------

ConnStep(c) ==
    \/ Register(c) \/ CheckDatabase(c) \/ MarkUnavailable(c)
    \/ LoggedInAgain(c) \/ AcquireAnnounce(c) \/ AnnounceTimeout(c)
    \/ ResetSemaphores(c) \/ WritePid(c) \/ SignalListener(c)
    \/ ListenerRead(c) \/ ListenerReadTimeout(c) \/ ReleaseAnnounce(c)
    \/ CloseHandoffSocket(c) \/ PickUpClient(c) \/ PickUpReconnect(c)
    \/ WaitForClientTimeout(c) \/ EndSession(c) \/ Exit(c)

LsnrStep(k) ==
    \/ AcquireShm(k) \/ AcquireShmTimeout(k) \/ AcceptConnection(k)
    \/ AcceptConnectionFails(k) \/ ReadPid(k) \/ DoneAccepting(k)
    \/ ReleaseShm(k) \/ CheckUp(k) \/ FindSocket(k) \/ PassClient(k)
    \/ ReadAck(k) \/ ReadAckFails(k)

MainStep ==
    \/ \E c \in Conns : RegisterHandoff(c) \/ DeRegisterHandoff(c)
    \/ \E k \in Clients : Fixup(k)

Next ==
    \/ \E c \in Conns : ConnStep(c) \/ Ping(c)
    \/ \E c \in Conns : DatabaseDies(c) \/ CrashConnection(c)
    \/ \E k \in Clients : LsnrStep(k) \/ AcceptClient(k) \/ CrashListener(k)
    \/ MainStep

Spec == Init /\ [][Next]_vars

(***************************************************************************)
(* Every process keeps running, sessions end and databases come back.      *)
(* semop() wakes sleepers in order, hence strong fairness for the two      *)
(* mutexes.                                                                *)
(***************************************************************************)
Fairness ==
    /\ \A c \in Conns : WF_vars(ConnStep(c)) /\ SF_vars(AcquireAnnounce(c))
    /\ \A c \in Conns : WF_vars(Ping(c))
    /\ \A k \in Clients : WF_vars(LsnrStep(k)) /\ SF_vars(AcquireShm(k))
    /\ \A c \in Conns : WF_vars(RegisterHandoff(c))
    /\ \A c \in Conns : WF_vars(DeRegisterHandoff(c))
    /\ \A k \in Clients : WF_vars(Fixup(k))

FairSpec == Spec /\ Fairness

-----------------------------------------------------------------------------
(* Properties. *)

\* Types: the semaphores, which every process gives back, never go below 0, and
\* the pids and descriptors around are those of connections and clients
\* (createSharedMemoryAndSemaphores, acquireShmAccess, releaseShmAccess).
TypeOK ==
    /\ sem0 \in Nat /\ sem1 \in Nat /\ sem2 \in Nat /\ sem3 \in Nat
    /\ shmPid \in Conns \cup {None}
    /\ cpc \in [Conns -> ConnStates]
    /\ serving \in [Conns -> Clients \cup {None}]
    /\ sock \subseteq Conns
    /\ hq \in [Conns -> Seq(Clients \cup {Reconnect})]
    /\ ack \in [Conns -> Nat]
    /\ lpc \in [Clients -> LsnrStates]
    /\ got \in [Clients -> Conns \cup {None}]
    /\ copy \in [Clients -> SUBSET Conns]
    /\ reg \subseteq Conns /\ pendreg \subseteq Conns /\ pendrem \subseteq Conns
    /\ inline \in Clients \cup {None}
    /\ up \subseteq Dbs
    /\ pings \subseteq Conns
    /\ served \in [Clients -> Nat]
    /\ failures \in 0 .. MaxDbFailures

\* At most one connection is between acquireShmAccess() and releaseShmAccess(),
\* and at most one listener between its own, whatever times out or crashes.
MutualExclusion ==
    /\ \A c, d \in Conns : cpc[c] \in Announcing /\ cpc[d] \in Announcing
                           => c = d
    /\ \A k, m \in Clients : lpc[k] \in Reading /\ lpc[m] \in Reading => k = m

\* No listener searches the handoffsocklist for pid 0, which every free slot of
\* the list matches, with a NULL socket (sqlrlistener.cpp:2006): the pid it read
\* is always a connection's, even if that connection is gone.
NeverPidZero ==
    \A k \in Clients : lpc[k] \in Promised \cup {"ack"} => got[k] # None

\* The clients connection c is to pick up: listeners that hold its pid and have
\* not written to it, and what is already in its handoff socket.
PromisedTo(c) == HoldersOf(c) \cup {hq[c][i] : i \in DOMAIN hq[c]}

\* A connection is promised to at most one listener, and to none while it is in
\* a session: nobody queues behind another client (getAConnection,
\* getAListener and the four semaphores).
OneClientPerConnection ==
    \A c \in Conns :
        /\ \A k, m \in PromisedTo(c) : k = m
        /\ Len(hq[c]) <= 1
        /\ serving[c] # None => PromisedTo(c) = {}

\* The listener that takes a pid reads the pid of a connection that is waiting
\* for that very read: never of one still writing it, and never a leftover.
ReadsWaitingConnection ==
    \A k \in Clients : lpc[k] = "read" =>
        shmPid # None /\ cpc[shmPid] = "wait3" /\ sem3 = 0

\* "If we got this far, everything worked" (sqlrlistener.cpp:1713): a listener
\* is only done with a client that was picked up, or (its ack may have been for
\* an earlier client) is in the handoff socket of a live connection, which will
\* read it.
NoClientLost ==
    \A k \in Clients : lpc[k] = "done" /\ served[k] = 0 =>
        \E c \in sock : \E i \in DOMAIN hq[c] : hq[c][i] = k

\* The listeners waiting for an ack on c's socket.
Awaiting(c) == {k \in Clients : lpc[k] = "ack" /\ got[k] = c}

\* No listener waits for an ack that cannot come: on an open handoff socket
\* there are at least as many unread acks and unread clients as listeners waiting,
\* whoever takes whose ack and whoever dies.
NobodyWaitsForNothing ==
    \A c \in sock : Cardinality(Awaiting(c)) <=
        ack[c] + Cardinality({i \in DOMAIN hq[c] : hq[c][i] # Reconnect})

\* "then it must have fired up after we forked" (sqlrlistener.cpp:2034): only a
\* forked listener asks the main listener for a socket.
FixupOnlyFromChild == \A k \in Clients : lpc[k] = "fixup" => inline # k

\* "make sure the connection is actually up" (sqlrlistener.cpp:1874): a listener
\* goes on only with a connection whose database is marked up at the check.  It
\* may not: the id it looks up may be of another connection by then, see README.
ChecksItsOwnConnection ==
    [][\A k \in Clients : lpc[k] = "check" /\ lpc'[k] = "find"
            => DbOf[got[k]] \in up]_vars

\* A client that was accepted is picked up by a connection although one dies: a
\* listener whose handoff fails goes back for another (handOffOrProxyClient).
EveryClientServed ==
    \A k \in Clients : lpc[k] = "start" ~> served[k] > 0
=============================================================================
