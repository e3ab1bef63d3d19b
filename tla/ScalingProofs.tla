--------------------------- MODULE ScalingProofs ---------------------------
(***************************************************************************)
(* Proofs about Scaling, for any processes, clients and configurations.    *)
(***************************************************************************)
EXTENDS Scaling, FiniteSetTheorems, TLAPS

\* Where the scaler has connections to open, and where it has spawned one.
Opening == {"choose", "spawn", "count", "started", "kill"}
Spawned == {"count", "started", "kill"}

\* While openMoreConnections works at a connection there is one to open, it has
\* an attempt left, and connpid is the child it has spawned and not yet reaped.
ScalerRight ==
    /\ pc \in Opening => toOpen > 0 /\ attempts < Attempts
    /\ pc \in Spawned =>
          connpid \in Procs /\ connpid \notin Manual /\ proc[connpid] # "none"
    /\ pc \notin Spawned => connpid = None

\* A connection serves a client only while it runs, each client is served by at
\* most one, and sqlr-start's connections are no children of the scaler.
ProcsRight ==
    /\ \A p \in Procs : serving[p] # None =>
          proc[p] = "running" /\ lpc[serving[p]] = "session"
    /\ \A p, q \in Procs : serving[p] = serving[q] /\ p # q => serving[p] = None
    /\ \A p \in Manual : proc[p] # "zombie"

TypeInv == TypeOK /\ ScalerRight /\ ProcsRight

\* The state of the scaler and of the processes keeps its shape, whatever fails.
LEMMA TypeInvariant == Spec => []TypeInv
<1> USE ScalingAssumption DEF TypeInv, Pool
<1>1. Init => TypeInv
  <2> SUFFICES ASSUME Init PROVE TypeInv
    OBVIOUS
  <2>1. Cardinality(Manual) \in Nat
    BY FS_Subset, FS_CardinalityType
  <2>. QED BY <2>1 DEF Init, TypeOK, ScalerRight, ProcsRight, Opening, Spawned
<1>2. TypeInv /\ [Next]_vars => TypeInv'
  <2> SUFFICES ASSUME TypeInv, [Next]_vars PROVE TypeInv'
    OBVIOUS
  <2> USE DEF TypeOK, ScalerRight, ProcsRight, Opening, Spawned, Less, Fault, Gone,
      EndSession, Killed, FailedAttempt, shmvars, scalervars, procvars, history
  <2>1. ASSUME NEW p \in Procs, Reap(p) PROVE TypeInv'
    BY <2>1 DEF Reap
  <2>2. ASSUME NEW p \in Procs, Spawn(p) PROVE TypeInv'
    BY <2>2 DEF Spawn
  <2>3. CASE ReadClients
    BY <2>3 DEF ReadClients
  <2>4. CASE Decide
    BY <2>4 DEF Decide, OpenCount, BelowMin, QueueTooLong
  <2>5. CASE SkipDownDatabase
    BY <2>5 DEF SkipDownDatabase
  <2>6. CASE PrepareStart
    BY <2>6 DEF PrepareStart
  <2>7. CASE SpawnFailed
    BY <2>7 DEF SpawnFailed
  <2>8. CASE CountConnection
    BY <2>8 DEF CountConnection
  <2>9. CASE ConnectionStarted
    BY <2>9 DEF ConnectionStarted
  <2>10. CASE StartTimeout
    BY <2>10 DEF StartTimeout
  <2>11. CASE Terminate
    BY <2>11 DEF Terminate
  <2>12. CASE Kill
    BY <2>12 DEF Kill
  <2>13. CASE ReapKilled
    BY <2>13 DEF ReapKilled
  <2>14. ASSUME NEW p \in Procs, Ready(p) PROVE TypeInv'
    BY <2>14 DEF Ready
  <2>15. ASSUME NEW p \in Procs, LogInFails(p) PROVE TypeInv'
    BY <2>15 DEF LogInFails
  <2>16. ASSUME NEW p \in Procs, EndClient(p) PROVE TypeInv'
    BY <2>16 DEF EndClient
  <2>17. ASSUME NEW p \in Procs, IdleExit(p) PROVE TypeInv'
    BY <2>17 DEF IdleExit
  <2>18. ASSUME NEW p \in Procs, MissClient(p) PROVE TypeInv'
    BY <2>18 DEF MissClient
  <2>19. ASSUME NEW p \in Procs, Crash(p) PROVE TypeInv'
    BY <2>19 DEF Crash
  <2>20. ASSUME NEW p \in Procs, MarkDown(p) PROVE TypeInv'
    <3>1. up' \in BOOLEAN
      BY <2>20 DEF MarkDown
    <3>2. /\ faults' = faults + 1 /\ faults < MaxFaults
          /\ UNCHANGED <<pool, shmvars, scalervars, procvars, lpc, history>>
      BY <2>20 DEF MarkDown
    <3>. QED BY <3>1, <3>2
  <2>21. ASSUME NEW p \in Procs, MarkUp(p) PROVE TypeInv'
    BY <2>21 DEF MarkUp
  <2>22. ASSUME NEW p \in Procs, NEW k \in Clients, TakeClient(p, k)
         PROVE TypeInv'
    BY <2>22 DEF TakeClient
  <2>23. ASSUME NEW k \in Clients, Arrive(k) PROVE TypeInv'
    BY <2>23 DEF Arrive
  <2>24. ASSUME NEW k \in Clients, GiveUp(k) PROVE TypeInv'
    BY <2>24 DEF GiveUp
  <2>25. ASSUME NEW k \in Clients, CrashListener(k) PROVE TypeInv'
    BY <2>25 DEF CrashListener
  <2>26. CASE UNCHANGED vars
    BY <2>26 DEF vars
  <2>. QED BY <2>1, <2>2, <2>3, <2>4, <2>5, <2>6, <2>7, <2>8, <2>9, <2>10,
           <2>11, <2>12, <2>13, <2>14, <2>15, <2>16, <2>17, <2>18, <2>19,
           <2>20, <2>21, <2>22, <2>23, <2>24, <2>25, <2>26
           DEF Next, ScalerStep
<1>. QED BY <1>1, <1>2, PTL DEF Spec

\* Counting one process or client more, or one less, with a counter that never
\* goes below 0 (incrementConnectionCount, decrementConnectionCount).
LEMMA CountOneMore ==
    ASSUME NEW S, NEW x, IsFiniteSet(S), x \notin S
    PROVE  /\ Cardinality(S) \in Nat
           /\ Cardinality(S \cup {x}) = Cardinality(S) + 1
BY FS_AddElement, FS_CardinalityType

LEMMA CountOneLess ==
    ASSUME NEW S, NEW x, IsFiniteSet(S), x \in S
    PROVE  /\ Cardinality(S) \in Nat /\ Cardinality(S) > 0
           /\ Cardinality(S \ {x}) = Cardinality(S) - 1
<1>1. Cardinality(S) \in Nat
  BY FS_CardinalityType
<1>2. Cardinality(S) # 0
  BY FS_EmptySet
<1>3. Cardinality(S \ {x}) = Cardinality(S) - 1
  BY FS_RemoveElement
<1>. QED BY <1>1, <1>2, <1>3

\* The counted processes are finitely many in every state.
LEMMA CountedFinite ==
    ASSUME ScalingAssumption
    PROVE  IsFiniteSet(Counted) /\ IsFiniteSet(Counted')
<1>1. Counted \subseteq Procs /\ Counted' \subseteq Procs
  BY DEF Counted
<1>. QED BY <1>1, FS_Subset DEF ScalingAssumption

\* A step that counts the same processes and leaves the counter alone.
LEMMA SameCount ==
    ASSUME ConnectionCountRight, Counted' = Counted,
           UNCHANGED <<total, killedConns>>
    PROVE  ConnectionCountRight'
BY DEF ConnectionCountRight

\* totalconnections is the number of connection processes and of the ones from
\* sqlr-start that were killed, whatever exits, fails to start or is given up on
\* (reapChildren, killConnection, incrementConnectionCount).
THEOREM TotalCountsConnections == Spec => []ConnectionCountRight
<1> USE ScalingAssumption
<1>1. Init => ConnectionCountRight
  <2> SUFFICES ASSUME Init PROVE ConnectionCountRight
    OBVIOUS
  <2>1. CASE ManualFirst
    <3>1. Counted = Manual
      BY <2>1 DEF Init, Counted
    <3>2. Cardinality(Manual) \in Nat
      BY FS_Subset, FS_CardinalityType
    <3>. QED BY <2>1, <3>1, <3>2 DEF Init, ConnectionCountRight
  <2>2. CASE ~ManualFirst
    <3>1. Counted = {}
      BY <2>2 DEF Init, Counted
    <3>2. Cardinality(Counted) = 0
      BY <3>1, FS_EmptySet
    <3>. QED BY <2>2, <3>2 DEF Init, ConnectionCountRight
  <2>. QED BY <2>1, <2>2
<1>2. TypeInv /\ ConnectionCountRight /\ [Next]_vars => ConnectionCountRight'
  <2> SUFFICES ASSUME TypeInv, ConnectionCountRight, [Next]_vars
               PROVE  ConnectionCountRight'
    OBVIOUS
  <2> DEFINE Same == Counted' = Counted /\ UNCHANGED <<total, killedConns>>
  <2> USE DEF Counted, TypeInv, TypeOK, ScalerRight, ProcsRight, Opening,
      Spawned, Gone, Killed, shmvars, scalervars, procvars, history
  <2>0. /\ total \in Nat /\ killedConns \in Nat
        /\ total = Cardinality(Counted) + killedConns
    BY DEF ConnectionCountRight
  <2>1. ASSUME NEW p \in Procs, Reap(p) PROVE ConnectionCountRight'
    <3>1. p \in Counted /\ Counted' = Counted \ {p}
      BY <2>1 DEF Reap
    <3>2. total' = Less(total) /\ killedConns' = killedConns
      BY <2>1 DEF Reap
    <3>3. /\ Cardinality(Counted) \in Nat /\ Cardinality(Counted) > 0
          /\ Cardinality(Counted') = Cardinality(Counted) - 1
      BY ONLY <3>1, CountedFinite, CountOneLess, ScalingAssumption
    <3>. HIDE DEF Counted
    <3>. QED BY ONLY <2>0, <3>2, <3>3 DEF Less, ConnectionCountRight
  <2>2. ASSUME NEW p \in Procs, Spawn(p) PROVE ConnectionCountRight'
    <3>1. Same
      BY <2>2 DEF Spawn
    <3>. QED BY ONLY <3>1, ConnectionCountRight, SameCount
  <2>3. CASE CountConnection
    <3>1. connpid \notin Counted /\ Counted' = Counted \cup {connpid}
      BY <2>3 DEF CountConnection
    <3>2. total' = total + 1 /\ killedConns' = killedConns
      BY <2>3 DEF CountConnection
    <3>3. /\ Cardinality(Counted) \in Nat
          /\ Cardinality(Counted') = Cardinality(Counted) + 1
      BY ONLY <3>1, CountedFinite, CountOneMore, ScalingAssumption
    <3>. QED BY ONLY <2>0, <3>2, <3>3 DEF ConnectionCountRight
  <2>4. CASE Terminate
    <3>1. Same
      BY <2>4 DEF Terminate, EndSession
    <3>. QED BY ONLY <3>1, ConnectionCountRight, SameCount
  <2>5. CASE Kill
    <3>1. Same
      BY <2>5 DEF Kill
    <3>. QED BY ONLY <3>1, ConnectionCountRight, SameCount
  <2>6. CASE ReapKilled
    <3>1. connpid \in Counted /\ Counted' = Counted \ {connpid}
      BY <2>6 DEF ReapKilled, FailedAttempt
    <3>2. total' = Less(total) /\ killedConns' = killedConns
      BY <2>6 DEF ReapKilled
    <3>3. /\ Cardinality(Counted) \in Nat /\ Cardinality(Counted) > 0
          /\ Cardinality(Counted') = Cardinality(Counted) - 1
      BY ONLY <3>1, CountedFinite, CountOneLess, ScalingAssumption
    <3>. QED BY ONLY <2>0, <3>2, <3>3 DEF Less, ConnectionCountRight
  <2>7. ASSUME NEW p \in Procs, Ready(p) PROVE ConnectionCountRight'
    <3>1. CASE p \in Manual
      <4>1. p \notin Counted /\ Counted' = Counted \cup {p}
        BY <2>7, <3>1 DEF Ready
      <4>2. total' = total + 1 /\ killedConns' = killedConns
        BY <2>7, <3>1 DEF Ready
      <4>3. /\ Cardinality(Counted) \in Nat
            /\ Cardinality(Counted') = Cardinality(Counted) + 1
        BY ONLY <4>1, CountedFinite, CountOneMore, ScalingAssumption
      <4>. QED BY ONLY <2>0, <4>2, <4>3 DEF ConnectionCountRight
    <3>2. CASE p \notin Manual
      <4>1. Same
        BY <2>7, <3>2 DEF Ready
      <4>. QED BY ONLY <4>1, ConnectionCountRight, SameCount
    <3>. QED BY <3>1, <3>2
  <2>8. ASSUME NEW p \in Procs, LogInFails(p) PROVE ConnectionCountRight'
    <3>1. Same
      BY <2>8 DEF LogInFails
    <3>. QED BY ONLY <3>1, ConnectionCountRight, SameCount
  <2>9. ASSUME NEW p \in Procs, EndClient(p) PROVE ConnectionCountRight'
    <3>1. Same
      BY <2>9 DEF EndClient, EndSession
    <3>. QED BY ONLY <3>1, ConnectionCountRight, SameCount
  <2>10. ASSUME NEW p \in Procs, IdleExit(p) PROVE ConnectionCountRight'
    <3>1. Same
      BY <2>10 DEF IdleExit
    <3>. QED BY ONLY <3>1, ConnectionCountRight, SameCount
  <2>11. ASSUME NEW p \in Procs, Crash(p) PROVE ConnectionCountRight'
    <3>1. CASE p \in Manual /\ proc[p] = "running"
      <4>1. p \in Counted /\ Counted' = Counted \ {p}
        BY <2>11, <3>1 DEF Crash
      <4>2. total' = total /\ killedConns' = killedConns + 1
        BY <2>11, <3>1 DEF Crash
      <4>3. /\ Cardinality(Counted) \in Nat /\ Cardinality(Counted) > 0
            /\ Cardinality(Counted') = Cardinality(Counted) - 1
        BY ONLY <4>1, CountedFinite, CountOneLess, ScalingAssumption
      <4>. QED BY ONLY <2>0, <4>2, <4>3 DEF ConnectionCountRight
    <3>2. CASE ~(p \in Manual /\ proc[p] = "running")
      <4>1. Same
        BY <2>11, <3>2 DEF Crash
      <4>. QED BY ONLY <4>1, ConnectionCountRight, SameCount
    <3>. QED BY <3>1, <3>2
  <2>12. CASE \/ ReadClients \/ Decide \/ SkipDownDatabase \/ PrepareStart
              \/ SpawnFailed \/ ConnectionStarted \/ StartTimeout
              \/ \E p \in Procs : \/ MissClient(p) \/ MarkDown(p) \/ MarkUp(p)
                                  \/ \E k \in Clients : TakeClient(p, k)
              \/ \E k \in Clients : Arrive(k) \/ GiveUp(k) \/ CrashListener(k)
              \/ UNCHANGED vars
    <3>1. UNCHANGED <<proc, total, killedConns>> /\ (pc' = "count" => pc = "count")
      BY <2>12 DEF ReadClients, Decide, SkipDownDatabase, FailedAttempt,
         PrepareStart, SpawnFailed, ConnectionStarted, StartTimeout, MissClient,
         MarkDown, MarkUp, TakeClient, Arrive, GiveUp, CrashListener, vars
    <3>2. pc = "count" => UNCHANGED <<pc, connpid>>
      BY <2>12 DEF ReadClients, Decide, SkipDownDatabase, FailedAttempt,
         PrepareStart, SpawnFailed, ConnectionStarted, StartTimeout, MissClient,
         MarkDown, MarkUp, TakeClient, Arrive, GiveUp, CrashListener, vars
    <3>3. Same
      BY <3>1, <3>2
    <3>. QED BY ONLY <3>3, ConnectionCountRight, SameCount
  <2>. QED BY <2>1, <2>2, <2>3, <2>4, <2>5, <2>6, <2>7, <2>8, <2>9, <2>10,
           <2>11, <2>12 DEF Next, ScalerStep
<1>. QED BY <1>1, <1>2, TypeInvariant, PTL DEF Spec

\* The clients with a listener or in a session.
LEMMA ClientsFinite ==
    ASSUME ScalingAssumption
    PROVE  /\ IsFiniteSet(Waiting) /\ IsFiniteSet(Waiting')
           /\ IsFiniteSet(InSession) /\ IsFiniteSet(InSession')
           /\ Cardinality(Waiting) \in Nat /\ Cardinality(InSession) \in Nat
<1>1. /\ Waiting \subseteq Clients /\ Waiting' \subseteq Clients
      /\ InSession \subseteq Clients /\ InSession' \subseteq Clients
  BY DEF Waiting, InSession
<1>2. /\ IsFiniteSet(Waiting) /\ IsFiniteSet(Waiting')
      /\ IsFiniteSet(InSession) /\ IsFiniteSet(InSession')
  BY <1>1, FS_Subset DEF ScalingAssumption
<1>. QED BY <1>2, FS_CardinalityType

\* The session of p ends and its client is uncounted, or counted as lost with
\* the process that served it.
LEMMA SessionLeaves ==
    ASSUME ScalingAssumption, TypeInv, NEW p \in Procs, serving[p] # None,
           lpc' = [lpc EXCEPT ![serving[p]] = "done"]
    PROVE  /\ Waiting' = Waiting
           /\ Cardinality(InSession) > 0
           /\ Cardinality(InSession') = Cardinality(InSession) - 1
<1>1. Waiting' = Waiting
  BY DEF Waiting, TypeInv, TypeOK, ProcsRight
<1>2. serving[p] \in InSession /\ InSession' = InSession \ {serving[p]}
  BY DEF InSession, TypeInv, TypeOK, ProcsRight
<1>. QED BY <1>1, <1>2, ClientsFinite, CountOneLess

\* The client of a waiting listener is counted no more.
LEMMA WaitingLeaves ==
    ASSUME ScalingAssumption, TypeInv, NEW k \in Clients, lpc[k] = "waiting",
           lpc' = [lpc EXCEPT ![k] = "done"]
    PROVE  /\ InSession' = InSession
           /\ Cardinality(Waiting) > 0
           /\ Cardinality(Waiting') = Cardinality(Waiting) - 1
<1>1. InSession' = InSession
  BY DEF InSession, TypeInv, TypeOK
<1>2. k \in Waiting /\ Waiting' = Waiting \ {k}
  BY DEF Waiting, TypeInv, TypeOK
<1>. QED BY <1>1, <1>2, ClientsFinite, CountOneLess

\* A process that is killed leaves the count of the client it served behind.
LEMMA KilledKeepsCount ==
    ASSUME ScalingAssumption, TypeInv, ClientCountRight,
           NEW p \in Procs, Killed(p), UNCHANGED clients
    PROVE  ClientCountRight'
<1> USE DEF TypeInv, TypeOK, Killed
<1>1. CASE serving[p] = None
  <2>1. lpc' = lpc /\ killedClients' = killedClients /\ clients' = clients
    BY <1>1 DEF ScalingAssumption
  <2>. QED BY ONLY <2>1, ClientCountRight
           DEF ClientCountRight, Waiting, InSession
<1>2. CASE serving[p] # None
  <2>1. lpc' = [lpc EXCEPT ![serving[p]] = "done"]
    BY <1>2 DEF ScalingAssumption
  <2>2. killedClients' = killedClients + 1
    BY <1>2
  <2>3. /\ Waiting' = Waiting
        /\ Cardinality(InSession') = Cardinality(InSession) - 1
    BY <1>2, <2>1, SessionLeaves
  <2>4. killedClients \in Nat /\ Cardinality(Waiting) \in Nat
        /\ Cardinality(InSession) \in Nat
    BY ClientsFinite
  <2>5. clients = Cardinality(Waiting) + Cardinality(InSession) + killedClients
    BY DEF ClientCountRight
  <2>6. clients' = clients
    OBVIOUS
  <2>. QED BY ONLY <2>2, <2>3, <2>4, <2>5, <2>6 DEF ClientCountRight
<1>. QED BY <1>1, <1>2

\* connectedclients is the number of clients with a listener or a connection and
\* of those whose process was killed, if no connection announces itself to a
\* listener that does not hand its client over (MissClient):
\* "listener increases connected client count when a client connects",
\* "connection decreases connected client count when a client disconnects".
THEOREM ClientsAreCounted ==
    ASSUME ~MissedClients
    PROVE  Spec => []ClientCountRight
<1> USE ScalingAssumption
<1>1. Init => ClientCountRight
  <2> SUFFICES ASSUME Init PROVE ClientCountRight
    OBVIOUS
  <2>1. Waiting = {} /\ InSession = {}
    BY DEF Init, Waiting, InSession
  <2>. QED BY <2>1, FS_EmptySet DEF Init, ClientCountRight
<1>2. TypeInv /\ ClientCountRight /\ [Next]_vars => ClientCountRight'
  <2> SUFFICES ASSUME TypeInv, ClientCountRight, [Next]_vars
               PROVE  ClientCountRight'
    OBVIOUS
  <2>0. /\ clients \in Nat /\ killedClients \in Nat
        /\ Cardinality(Waiting) \in Nat /\ Cardinality(InSession) \in Nat
        /\ clients
           = Cardinality(Waiting) + Cardinality(InSession) + killedClients
    BY ClientsFinite DEF TypeInv, TypeOK, ClientCountRight
  <2>1. ASSUME NEW p \in Procs, serving[p] # None, EndSession(p),
               UNCHANGED killedClients
        PROVE  ClientCountRight'
    <3>1. /\ Waiting' = Waiting
          /\ Cardinality(InSession) > 0
          /\ Cardinality(InSession') = Cardinality(InSession) - 1
      BY <2>1, SessionLeaves DEF EndSession
    <3>2. clients' = Less(clients) /\ killedClients' = killedClients
      BY <2>1 DEF EndSession
    <3>. QED BY ONLY <2>0, <3>1, <3>2 DEF Less, ClientCountRight
  <2>2. ASSUME NEW p \in Procs, EndClient(p) PROVE ClientCountRight'
    BY <2>1, <2>2 DEF EndClient, history
  <2>3. CASE Terminate
    <3>1. connpid \in Procs
      BY <2>3 DEF Terminate, TypeInv, ScalerRight, Spawned
    <3>2. CASE serving[connpid] = None
      BY <2>3, <3>2 DEF Terminate, history, ClientCountRight, Waiting, InSession
    <3>3. CASE serving[connpid] # None
      BY <2>1, <2>3, <3>1, <3>3 DEF Terminate, history
    <3>. QED BY <3>2, <3>3
  <2>4. CASE Kill
    <3>1. connpid \in Procs
      BY <2>4 DEF Kill, TypeInv, ScalerRight, Spawned
    <3>. QED BY <2>4, <3>1, KilledKeepsCount DEF Kill, shmvars
  <2>5. ASSUME NEW p \in Procs, Crash(p) PROVE ClientCountRight'
    BY <2>5, KilledKeepsCount DEF Crash, shmvars
  <2>6. ASSUME NEW p \in Procs, NEW k \in Clients, TakeClient(p, k)
        PROVE  ClientCountRight'
    <3>1. k \in Waiting /\ Waiting' = Waiting \ {k}
      BY <2>6 DEF TakeClient, Waiting, TypeInv, TypeOK
    <3>2. k \notin InSession /\ InSession' = InSession \cup {k}
      BY <2>6 DEF TakeClient, InSession, TypeInv, TypeOK
    <3>3. Cardinality(Waiting') = Cardinality(Waiting) - 1
      BY <3>1, ClientsFinite, CountOneLess
    <3>4. Cardinality(InSession') = Cardinality(InSession) + 1
      BY <3>2, ClientsFinite, CountOneMore
    <3>5. clients' = clients /\ killedClients' = killedClients
      BY <2>6 DEF TakeClient, shmvars, history
    <3>. QED BY ONLY <2>0, <3>3, <3>4, <3>5 DEF ClientCountRight
  <2>7. ASSUME NEW k \in Clients, Arrive(k) PROVE ClientCountRight'
    <3>1. k \notin Waiting /\ Waiting' = Waiting \cup {k}
      BY <2>7 DEF Arrive, Waiting, TypeInv, TypeOK
    <3>2. InSession' = InSession
      BY <2>7 DEF Arrive, InSession, TypeInv, TypeOK
    <3>3. Cardinality(Waiting') = Cardinality(Waiting) + 1
      BY <3>1, ClientsFinite, CountOneMore
    <3>4. clients' = clients + 1 /\ killedClients' = killedClients
      BY <2>7 DEF Arrive, history
    <3>. QED BY ONLY <2>0, <3>2, <3>3, <3>4 DEF ClientCountRight
  <2>8. ASSUME NEW k \in Clients, GiveUp(k) PROVE ClientCountRight'
    <3>1. /\ InSession' = InSession
          /\ Cardinality(Waiting) > 0
          /\ Cardinality(Waiting') = Cardinality(Waiting) - 1
      BY <2>8, WaitingLeaves DEF GiveUp
    <3>2. clients' = Less(clients) /\ killedClients' = killedClients
      BY <2>8 DEF GiveUp, history
    <3>. QED BY ONLY <2>0, <3>1, <3>2 DEF Less, ClientCountRight
  <2>9. ASSUME NEW k \in Clients, CrashListener(k) PROVE ClientCountRight'
    <3>1. /\ InSession' = InSession
          /\ Cardinality(Waiting) > 0
          /\ Cardinality(Waiting') = Cardinality(Waiting) - 1
      BY <2>9, WaitingLeaves DEF CrashListener
    <3>2. clients' = clients /\ killedClients' = killedClients + 1
      BY <2>9 DEF CrashListener, shmvars
    <3>. QED BY ONLY <2>0, <3>1, <3>2 DEF ClientCountRight
  <2>10. CASE \/ ReadClients \/ Decide \/ SkipDownDatabase \/ PrepareStart
              \/ SpawnFailed \/ CountConnection \/ ConnectionStarted
              \/ StartTimeout \/ ReapKilled
              \/ \E p \in Procs : \/ Reap(p) \/ Spawn(p) \/ Ready(p)
                                  \/ LogInFails(p) \/ IdleExit(p)
                                  \/ MarkDown(p) \/ MarkUp(p)
              \/ UNCHANGED vars
    <3>1. UNCHANGED <<lpc, clients, killedClients>>
      BY <2>10 DEF ReadClients, Decide, SkipDownDatabase, PrepareStart,
         SpawnFailed, CountConnection, ConnectionStarted, StartTimeout,
         ReapKilled, Reap, Spawn, Ready, LogInFails, IdleExit, MarkDown, MarkUp,
         vars, shmvars, history
    <3>. QED BY <3>1 DEF ClientCountRight, Waiting, InSession
  <2>11. ASSUME NEW p \in Procs, MissClient(p) PROVE FALSE
    BY <2>11 DEF MissClient
  <2>. QED BY <2>2, <2>3, <2>4, <2>5, <2>6, <2>7, <2>8, <2>9, <2>10, <2>11
           DEF Next, ScalerStep
<1>. QED BY <1>1, <1>2, TypeInvariant, PTL DEF Spec

\* What the scaler has still to open fits below the maximum, and every process
\* that lives has been counted or is about to be.
RoomInv ==
    /\ \A p \in Manual : proc[p] # "starting"
    /\ total <= pool.max
    /\ pc \in {"choose", "spawn", "count"} => total + toOpen <= pool.max
    /\ pc \in {"started", "kill"} => total + toOpen <= pool.max + 1

\* There is a connection to count while killConnection reaps one.
LEMMA CountedToReap ==
    ASSUME ScalingAssumption, TypeInv, ConnectionCountRight, pc = "kill",
           proc[connpid] = "zombie"
    PROVE  total > 0
<1>1. connpid \in Counted
  BY DEF TypeInv, ScalerRight, Spawned, Counted
<1>2. Cardinality(Counted) \in Nat /\ Cardinality(Counted) > 0
  BY <1>1, CountedFinite, CountOneLess
<1>3. total = Cardinality(Counted) + killedConns /\ killedConns \in Nat
  BY DEF TypeInv, TypeOK, ConnectionCountRight
<1>. QED BY ONLY <1>2, <1>3

LEMMA RoomInvariant ==
    ASSUME ManualFirst, \A q \in Pools : Cardinality(Manual) <= q.max
    PROVE  Spec => []RoomInv
<1> USE ScalingAssumption DEF TypeInv, TypeOK, Pool, RoomInv
<1>1. Init => RoomInv
  BY DEF Init
<1>2. TypeInv /\ ConnectionCountRight /\ RoomInv /\ [Next]_vars => RoomInv'
  <2> SUFFICES ASSUME TypeInv, ConnectionCountRight, RoomInv, [Next]_vars
               PROVE  RoomInv'
    OBVIOUS
  <2> USE DEF ScalerRight, ProcsRight, Opening, Spawned, Less, Gone, Killed,
      FailedAttempt, shmvars, scalervars, procvars
  <2>1. ASSUME NEW p \in Procs, Reap(p) PROVE RoomInv'
    BY <2>1 DEF Reap
  <2>2. ASSUME NEW p \in Procs, Spawn(p) PROVE RoomInv'
    BY <2>2 DEF Spawn
  <2>3. CASE Decide
    <3>1. OpenCount \in Nat /\ (OpenCount # 0 => total + OpenCount <= pool.max)
      BY DEF OpenCount, BelowMin, QueueTooLong
    <3>. QED BY <2>3, <3>1 DEF Decide
  <2>4. CASE CountConnection
    BY <2>4 DEF CountConnection
  <2>5. CASE ConnectionStarted
    BY <2>5 DEF ConnectionStarted
  <2>6. CASE Terminate \/ Kill \/ StartTimeout
    BY <2>6 DEF Terminate, Kill, StartTimeout, EndSession
  <2>7. CASE ReapKilled
    <3>1. total > 0
      BY <2>7, CountedToReap DEF ReapKilled
    <3>. QED BY <2>7, <3>1 DEF ReapKilled
  <2>8. ASSUME NEW p \in Procs, Ready(p) PROVE RoomInv'
    BY <2>8 DEF Ready
  <2>9. ASSUME NEW p \in Procs, LogInFails(p) \/ IdleExit(p) PROVE RoomInv'
    BY <2>9 DEF LogInFails, IdleExit
  <2>10. ASSUME NEW p \in Procs, EndClient(p) PROVE RoomInv'
    BY <2>10 DEF EndClient, EndSession
  <2>11. ASSUME NEW p \in Procs, Crash(p) PROVE RoomInv'
    BY <2>11 DEF Crash
  <2>12. CASE \/ ReadClients \/ SkipDownDatabase \/ PrepareStart \/ SpawnFailed
              \/ \E p \in Procs : \/ MissClient(p) \/ MarkDown(p) \/ MarkUp(p)
                                  \/ \E k \in Clients : TakeClient(p, k)
              \/ \E k \in Clients : Arrive(k) \/ GiveUp(k) \/ CrashListener(k)
              \/ UNCHANGED vars
    BY <2>12 DEF ReadClients, SkipDownDatabase, PrepareStart, SpawnFailed,
       MissClient, MarkDown, MarkUp, TakeClient, Arrive, GiveUp, CrashListener,
       vars
  <2>. QED BY <2>1, <2>2, <2>3, <2>4, <2>5, <2>6, <2>7, <2>8, <2>9, <2>10,
           <2>11, <2>12 DEF Next, ScalerStep
<1>. QED BY <1>1, <1>2, TypeInvariant, TotalCountsConnections, PTL DEF Spec

\* The pool never grows past maxconnections, "the maximum number of database
\* connections to scale up to", when sqlr-start's connections, no more of them
\* than that, have logged in before the scaler looks at the pool: whatever
\* spawned connections fail, time out, exit or are killed (openMoreConnections,
\* killConnection, reapChildren).
THEOREM PoolStaysWithinMax ==
    ASSUME ManualFirst, \A q \in Pools : Cardinality(Manual) <= q.max
    PROVE  Spec => []PoolWithinMax
<1>1. TypeInv /\ ConnectionCountRight /\ RoomInv => PoolWithinMax
  <2> SUFFICES ASSUME TypeInv, ConnectionCountRight, RoomInv
               PROVE  PoolWithinMax
    OBVIOUS
  <2>1. /\ total \in Nat /\ toOpen \in Nat /\ killedConns \in Nat
        /\ pool.max \in Nat
        /\ total = Cardinality(Counted) + killedConns
    BY ScalingAssumption DEF TypeInv, TypeOK, ConnectionCountRight, Pool
  <2>2. IsFiniteSet(Counted) /\ Cardinality(Counted) \in Nat
    BY ScalingAssumption, CountedFinite, FS_CardinalityType
  <2>3. CASE pc = "count"
    <3>1. Live \subseteq Counted \cup {connpid} /\ connpid \notin Counted
      BY <2>3 DEF Live, Counted, RoomInv, TypeInv, ScalerRight, Spawned
    <3>2. /\ IsFiniteSet(Counted \cup {connpid})
          /\ Cardinality(Counted \cup {connpid}) = Cardinality(Counted) + 1
      BY <2>2, <3>1, FS_AddElement
    <3>3. Cardinality(Live) <= Cardinality(Counted) + 1
      BY <3>1, <3>2, FS_Subset
    <3>4. IsFiniteSet(Live) /\ Cardinality(Live) \in Nat
      BY <3>1, <3>2, FS_Subset, FS_CardinalityType
    <3>5. toOpen > 0 /\ total + toOpen <= pool.max
      BY <2>3 DEF RoomInv, TypeInv, ScalerRight, Opening
    <3>. QED BY ONLY <2>1, <2>2, <3>3, <3>4, <3>5 DEF PoolWithinMax
  <2>4. CASE pc # "count"
    <3>1. Live \subseteq Counted
      BY <2>4 DEF Live, Counted, RoomInv
    <3>2. Cardinality(Live) <= Cardinality(Counted) /\ Cardinality(Live) \in Nat
      BY <2>2, <3>1, FS_Subset, FS_CardinalityType
    <3>3. total <= pool.max
      BY DEF RoomInv
    <3>. QED BY ONLY <2>1, <2>2, <3>2, <3>3 DEF PoolWithinMax
  <2>. QED BY <2>3, <2>4
<1>. QED BY <1>1, TypeInvariant, TotalCountsConnections, RoomInvariant, PTL

\* The scaler's child is the only connection of its own that may still be
\* starting, and semaphore 8 was reset before it was spawned: what it then counts
\* is this child's signal.
ReadyInv ==
    /\ \A p \in Procs : p \notin Manual /\ proc[p] = "starting" => p = connpid
    /\ pc = "spawn" => sem8 = 0
    /\ pc \in {"count", "started"} /\ sem8 > 0 => proc[connpid] # "starting"

LEMMA ReadyInvariant == Spec => []ReadyInv
<1> USE ScalingAssumption DEF TypeInv, TypeOK, ReadyInv
<1>1. Init => ReadyInv
  BY DEF Init
<1>2. TypeInv /\ ReadyInv /\ [Next]_vars => ReadyInv'
  <2> SUFFICES ASSUME TypeInv, ReadyInv, [Next]_vars PROVE ReadyInv'
    OBVIOUS
  <2> USE DEF ScalerRight, ProcsRight, Opening, Spawned, Gone, Killed,
      FailedAttempt, shmvars, scalervars, procvars
  <2>1. ASSUME NEW p \in Procs, Reap(p) PROVE ReadyInv'
    BY <2>1 DEF Reap
  <2>2. ASSUME NEW p \in Procs, Spawn(p) PROVE ReadyInv'
    BY <2>2 DEF Spawn
  <2>3. CASE ConnectionStarted
    BY <2>3 DEF ConnectionStarted
  <2>4. CASE Terminate \/ Kill
    BY <2>4 DEF Terminate, Kill, EndSession
  <2>5. CASE ReapKilled
    BY <2>5 DEF ReapKilled
  <2>6. ASSUME NEW p \in Procs, Ready(p) PROVE ReadyInv'
    BY <2>6 DEF Ready
  <2>7. ASSUME NEW p \in Procs, LogInFails(p) \/ IdleExit(p) PROVE ReadyInv'
    BY <2>7 DEF LogInFails, IdleExit
  <2>8. ASSUME NEW p \in Procs, EndClient(p) PROVE ReadyInv'
    BY <2>8 DEF EndClient, EndSession
  <2>9. ASSUME NEW p \in Procs, Crash(p) PROVE ReadyInv'
    BY <2>9 DEF Crash
  <2>10. CASE \/ ReadClients \/ Decide \/ SkipDownDatabase \/ PrepareStart
              \/ SpawnFailed \/ CountConnection \/ StartTimeout
    BY <2>10 DEF ReadClients, Decide, SkipDownDatabase, PrepareStart,
       SpawnFailed, CountConnection, StartTimeout
  <2>11. CASE \/ \E p \in Procs : \/ MissClient(p) \/ MarkDown(p) \/ MarkUp(p)
                                  \/ \E k \in Clients : TakeClient(p, k)
              \/ \E k \in Clients : Arrive(k) \/ GiveUp(k) \/ CrashListener(k)
              \/ UNCHANGED vars
    BY <2>11 DEF MissClient, MarkDown, MarkUp, TakeClient, Arrive, GiveUp,
       CrashListener, vars
  <2>. QED BY <2>1, <2>2, <2>3, <2>4, <2>5, <2>6, <2>7, <2>8, <2>9, <2>10,
           <2>11 DEF Next, ScalerStep
<1>. QED BY <1>1, <1>2, TypeInvariant, PTL DEF Spec

\* The scaler takes semaphore 8 for the connection it has just spawned: a signal
\* of one it had given up on does not make another one ready.
THEOREM SignalIsOfTheSpawned == Spec => StartedIsReady
<1>1. TypeInv /\ ReadyInv =>
        (pc = "started" /\ sem8' < sem8 /\ [Next]_vars
           => proc[connpid] # "starting")
  <2> SUFFICES ASSUME TypeInv, ReadyInv, pc = "started", sem8' < sem8,
                      [Next]_vars
               PROVE  proc[connpid] # "starting"
    OBVIOUS
  <2>1. CASE sem8 > 0
    BY <2>1 DEF ReadyInv
  <2>2. CASE sem8 = 0
    <3>1. sem8' = sem8 \/ sem8' = sem8 + 1
      BY <2>2 DEF Next, ScalerStep, Reap, Spawn, ReadClients, Decide,
         SkipDownDatabase, PrepareStart, SpawnFailed, CountConnection,
         ConnectionStarted, StartTimeout, Terminate, Kill, ReapKilled, Ready,
         LogInFails, EndClient, IdleExit, MissClient, Crash, MarkDown, MarkUp,
         TakeClient, Arrive, GiveUp, CrashListener, vars, shmvars, EndSession
    <3>. QED BY <2>2, <3>1
  <2>. QED BY <2>1, <2>2 DEF TypeInv, TypeOK
<1>. QED BY <1>1, TypeInvariant, ReadyInvariant, PTL DEF Spec, StartedIsReady

\* The counters, which only ever go down when they are above 0, and the rest of
\* the state keep their types (decrementConnectedClientCount).
THEOREM ScalingTypeCorrect == Spec => []TypeOK
<1>. QED BY TypeInvariant, PTL DEF TypeInv

=============================================================================
