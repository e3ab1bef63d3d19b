--------------------------- MODULE HandoffProofs ---------------------------
(***************************************************************************)
(* Proofs about Handoff, for any connections, clients and databases.       *)
(***************************************************************************)
EXTENDS Handoff, TLAPS

\* A listener only reads the segment once a connection has written its pid.
PidWritten ==
    /\ sem2 > 0 => shmPid # None
    /\ \A c \in Conns : cpc[c] = "signal2" => shmPid # None
    /\ \A k \in Clients : lpc[k] = "read" => shmPid # None

TypeInv == TypeOK /\ PidWritten /\ NeverPidZero

LEMMA TypeInvariant == Spec => []TypeInv
<1> USE HandoffAssumption DEF TypeInv
<1>1. Init => TypeInv
  BY DEF Init, TypeOK, PidWritten, NeverPidZero, Promised, ConnStates,
     LsnrStates
<1>2. TypeInv /\ [Next]_vars => TypeInv'
  <2> SUFFICES ASSUME TypeInv, [Next]_vars PROVE TypeInv'
    OBVIOUS
  <2> USE DEF TypeOK, PidWritten, NeverPidZero, Promised, GotoC, GotoL,
      FinishL, ConnStates, LsnrStates, vars, semvars, connvars, sockvars,
      lsnrvars, mainvars, dbvars
  <2>1. ASSUME NEW c \in Conns, Register(c) PROVE TypeInv'
    BY <2>1 DEF Register
  <2>2. ASSUME NEW c \in Conns, CheckDatabase(c) PROVE TypeInv'
    BY <2>2 DEF CheckDatabase, Ready
  <2>3. ASSUME NEW c \in Conns, MarkUnavailable(c) PROVE TypeInv'
    BY <2>3 DEF MarkUnavailable
  <2>4. ASSUME NEW c \in Conns, LoggedInAgain(c) PROVE TypeInv'
    BY <2>4 DEF LoggedInAgain, Ready
  <2>5. ASSUME NEW c \in Conns, AcquireAnnounce(c) PROVE TypeInv'
    BY <2>5 DEF AcquireAnnounce
  <2>6. ASSUME NEW c \in Conns, AnnounceTimeout(c) PROVE TypeInv'
    BY <2>6 DEF AnnounceTimeout
  <2>7. ASSUME NEW c \in Conns, ResetSemaphores(c) PROVE TypeInv'
    BY <2>7 DEF ResetSemaphores
  <2>8. ASSUME NEW c \in Conns, WritePid(c) PROVE TypeInv'
    BY <2>8 DEF WritePid
  <2>9. ASSUME NEW c \in Conns, SignalListener(c) PROVE TypeInv'
    BY <2>9 DEF SignalListener
  <2>10. ASSUME NEW c \in Conns, ListenerRead(c) PROVE TypeInv'
    BY <2>10 DEF ListenerRead
  <2>11. ASSUME NEW c \in Conns, ListenerReadTimeout(c) PROVE TypeInv'
    BY <2>11 DEF ListenerReadTimeout
  <2>12. ASSUME NEW c \in Conns, ReleaseAnnounce(c) PROVE TypeInv'
    BY <2>12 DEF ReleaseAnnounce
  <2>13. ASSUME NEW c \in Conns, CloseHandoffSocket(c) PROVE TypeInv'
    BY <2>13 DEF CloseHandoffSocket
  <2>14. ASSUME NEW c \in Conns, PickUpClient(c) PROVE TypeInv'
    BY <2>14 DEF PickUpClient
  <2>15. ASSUME NEW c \in Conns, PickUpReconnect(c) PROVE TypeInv'
    BY <2>15 DEF PickUpReconnect
  <2>16. ASSUME NEW c \in Conns, WaitForClientTimeout(c) PROVE TypeInv'
    BY <2>16 DEF WaitForClientTimeout
  <2>17. ASSUME NEW c \in Conns, EndSession(c) PROVE TypeInv'
    <3>1. TypeOK'
      <4>1. cpc' \in [Conns -> ConnStates]
        BY <2>17 DEF EndSession
      <4>2. serving' \in [Conns -> Clients \cup {None}]
        BY <2>17 DEF EndSession
      <4>. QED BY <2>17, <4>1, <4>2 DEF EndSession
    <3>2. PidWritten'
      BY <2>17 DEF EndSession
    <3>3. NeverPidZero'
      BY <2>17 DEF EndSession
    <3>. QED BY <3>1, <3>2, <3>3
  <2>18. ASSUME NEW c \in Conns, Exit(c) PROVE TypeInv'
    BY <2>18 DEF Exit
  <2>19. ASSUME NEW c \in Conns, Ping(c) PROVE TypeInv'
    BY <2>19 DEF Ping
  <2>20. ASSUME NEW c \in Conns, DatabaseDies(c) PROVE TypeInv'
    BY <2>20 DEF DatabaseDies
  <2>21. ASSUME NEW c \in Conns, CrashConnection(c) PROVE TypeInv'
    BY <2>21 DEF CrashConnection
  <2>22. ASSUME NEW c \in Conns, RegisterHandoff(c) PROVE TypeInv'
    BY <2>22 DEF RegisterHandoff
  <2>23. ASSUME NEW c \in Conns, DeRegisterHandoff(c) PROVE TypeInv'
    BY <2>23 DEF DeRegisterHandoff
  <2>24. ASSUME NEW k \in Clients, AcquireShm(k) PROVE TypeInv'
    BY <2>24 DEF AcquireShm
  <2>25. ASSUME NEW k \in Clients, AcquireShmTimeout(k) PROVE TypeInv'
    BY <2>25 DEF AcquireShmTimeout
  <2>26. ASSUME NEW k \in Clients, AcceptConnection(k) PROVE TypeInv'
    BY <2>26 DEF AcceptConnection
  <2>27. ASSUME NEW k \in Clients, AcceptConnectionFails(k) PROVE TypeInv'
    BY <2>27 DEF AcceptConnectionFails
  <2>28. ASSUME NEW k \in Clients, ReadPid(k) PROVE TypeInv'
    BY <2>28 DEF ReadPid
  <2>29. ASSUME NEW k \in Clients, DoneAccepting(k) PROVE TypeInv'
    BY <2>29 DEF DoneAccepting
  <2>30. ASSUME NEW k \in Clients, ReleaseShm(k) PROVE TypeInv'
    <3>1. TypeOK'
      <4>1. lpc' \in [Clients -> LsnrStates]
        BY <2>30 DEF ReleaseShm
      <4>2. inline' \in Clients \cup {None}
        BY <2>30 DEF ReleaseShm
      <4>3. sem1' \in Nat
        BY <2>30 DEF ReleaseShm
      <4>. QED BY <2>30, <4>1, <4>2, <4>3 DEF ReleaseShm
    <3>2. PidWritten'
      BY <2>30 DEF ReleaseShm
    <3>3. NeverPidZero'
      BY <2>30 DEF ReleaseShm
    <3>. QED BY <3>1, <3>2, <3>3
  <2>31. ASSUME NEW k \in Clients, CheckUp(k) PROVE TypeInv'
    <3>0. got[k] \in Conns
      BY <2>31 DEF CheckUp
    <3>1. lpc' \in [Clients -> LsnrStates] /\ pings' \subseteq Conns
      <4>1. pings' \subseteq Conns
        BY <2>31, <3>0 DEF CheckUp
      <4>2. \E s \in {"find", "start"} : lpc' = [lpc EXCEPT ![k] = s]
        BY <2>31 DEF CheckUp
      <4>. QED BY <4>1, <4>2
    <3>2. \A m \in Clients : lpc'[m] \in Promised \cup {"ack"} => got[m] # None
      BY <2>31 DEF CheckUp
    <3>3. \A m \in Clients : lpc'[m] # "read" \/ lpc[m] = "read"
      BY <2>31 DEF CheckUp
    <3>. QED BY <2>31, <3>1, <3>2, <3>3 DEF CheckUp
  <2>32. ASSUME NEW k \in Clients, FindSocket(k) PROVE TypeInv'
    BY <2>32 DEF FindSocket
  <2>33. ASSUME NEW k \in Clients, PassClient(k) PROVE TypeInv'
    <3>1. TypeOK'
      <4>1. lpc' \in [Clients -> LsnrStates]
        BY <2>33 DEF PassClient
      <4>2. hq' \in [Conns -> Seq(Clients \cup {Reconnect})]
        <5>1. got[k] \in Conns
          BY <2>33 DEF PassClient
        <5>2. Append(hq[got[k]], k) \in Seq(Clients \cup {Reconnect})
          BY <5>1
        <5>3. CASE got[k] \in sock
          <6>1. hq' = [hq EXCEPT ![got[k]] = Append(hq[got[k]], k)]
            BY <2>33, <5>3 DEF PassClient
          <6>. QED BY <6>1, <5>1, <5>2
        <5>4. CASE got[k] \notin sock
          BY <2>33, <5>4 DEF PassClient
        <5>. QED BY <5>3, <5>4
      <4>. QED BY <2>33, <4>1, <4>2 DEF PassClient
    <3>2. PidWritten'
      BY <2>33 DEF PassClient
    <3>3. NeverPidZero'
      BY <2>33 DEF PassClient
    <3>. QED BY <3>1, <3>2, <3>3
  <2>34. ASSUME NEW k \in Clients, ReadAck(k) PROVE TypeInv'
    BY <2>34 DEF ReadAck
  <2>35. ASSUME NEW k \in Clients, ReadAckFails(k) PROVE TypeInv'
    BY <2>35 DEF ReadAckFails
  <2>36. ASSUME NEW k \in Clients, AcceptClient(k) PROVE TypeInv'
    <3>1. TypeOK'
      <4>1. lpc' \in [Clients -> LsnrStates]
        BY <2>36 DEF AcceptClient
      <4>2. copy' \in [Clients -> SUBSET Conns]
        <5>1. reg \in SUBSET Conns
          OBVIOUS
        <5>2. copy' = copy \/ copy' = [copy EXCEPT ![k] = reg]
          BY <2>36 DEF AcceptClient
        <5>3. [copy EXCEPT ![k] = reg] \in [Clients -> SUBSET Conns]
          BY <5>1
        <5>. QED BY <5>2, <5>3
      <4>3. inline' \in Clients \cup {None}
        BY <2>36 DEF AcceptClient
      <4>. QED BY <2>36, <4>1, <4>2, <4>3 DEF AcceptClient
    <3>2. PidWritten'
      BY <2>36 DEF AcceptClient
    <3>3. NeverPidZero'
      BY <2>36 DEF AcceptClient
    <3>. QED BY <3>1, <3>2, <3>3
  <2>37. ASSUME NEW k \in Clients, CrashListener(k) PROVE TypeInv'
    BY <2>37 DEF CrashListener
  <2>38. ASSUME NEW k \in Clients, Fixup(k) PROVE TypeInv'
    BY <2>38 DEF Fixup
  <2>39. CASE UNCHANGED vars
    BY <2>39
  <2>. QED
    BY <2>1, <2>2, <2>3, <2>4, <2>5, <2>6, <2>7, <2>8, <2>9, <2>10, <2>11,
       <2>12, <2>13, <2>14, <2>15, <2>16, <2>17, <2>18, <2>19, <2>20, <2>21,
       <2>22, <2>23, <2>24, <2>25, <2>26, <2>27, <2>28, <2>29, <2>30, <2>31,
       <2>32, <2>33, <2>34, <2>35, <2>36, <2>37, <2>38, <2>39 DEF Next,
       ConnStep, LsnrStep, MainStep
<1>. QED BY <1>1, <1>2, PTL DEF Spec

\* Every variable of the handoff protocol keeps its type.
THEOREM TypeCorrect == Spec => []TypeOK
  BY TypeInvariant, PTL DEF TypeInv

\* The pid a listener works with is never 0.
THEOREM PidZeroNever == Spec => []NeverPidZero
  BY TypeInvariant, PTL DEF TypeInv

-----------------------------------------------------------------------------
(* The two mutexes.  Semaphores 0 and 1 are 0 exactly while some process is   *)
(* between its wait and its signal, crashes and timeouts included.            *)

MutexInv ==
    /\ sem0 <= 1 /\ sem1 <= 1
    /\ \A c \in Conns : cpc[c] \in Announcing => sem0 = 0
    /\ \A k \in Clients : lpc[k] \in Reading => sem1 = 0
    /\ MutualExclusion

LEMMA MutexInvariant == Spec => []MutexInv
<1>1. Init => MutexInv
  BY DEF Init, MutexInv, MutualExclusion, Announcing, Reading
<1>2. MutexInv /\ TypeOK /\ [Next]_vars => MutexInv'
  <2> SUFFICES ASSUME MutexInv, TypeOK, [Next]_vars PROVE MutexInv'
    OBVIOUS
  <2> USE DEF TypeOK, MutexInv, MutualExclusion, Announcing, Reading, GotoC,
      GotoL, FinishL, vars, semvars, connvars, sockvars, lsnrvars, mainvars,
      dbvars
  <2>1. ASSUME NEW c \in Conns, Register(c) PROVE MutexInv'
    BY <2>1 DEF Register
  <2>2. ASSUME NEW c \in Conns, CheckDatabase(c) PROVE MutexInv'
    BY <2>2 DEF CheckDatabase, Ready
  <2>3. ASSUME NEW c \in Conns, MarkUnavailable(c) PROVE MutexInv'
    BY <2>3 DEF MarkUnavailable
  <2>4. ASSUME NEW c \in Conns, LoggedInAgain(c) PROVE MutexInv'
    BY <2>4 DEF LoggedInAgain, Ready
  <2>5. ASSUME NEW c \in Conns, AcquireAnnounce(c) PROVE MutexInv'
    BY <2>5 DEF AcquireAnnounce
  <2>6. ASSUME NEW c \in Conns, AnnounceTimeout(c) PROVE MutexInv'
    BY <2>6 DEF AnnounceTimeout
  <2>7. ASSUME NEW c \in Conns, ResetSemaphores(c) PROVE MutexInv'
    BY <2>7 DEF ResetSemaphores
  <2>8. ASSUME NEW c \in Conns, WritePid(c) PROVE MutexInv'
    BY <2>8 DEF WritePid
  <2>9. ASSUME NEW c \in Conns, SignalListener(c) PROVE MutexInv'
    BY <2>9 DEF SignalListener
  <2>10. ASSUME NEW c \in Conns, ListenerRead(c) PROVE MutexInv'
    BY <2>10 DEF ListenerRead
  <2>11. ASSUME NEW c \in Conns, ListenerReadTimeout(c) PROVE MutexInv'
    BY <2>11 DEF ListenerReadTimeout
  <2>12. ASSUME NEW c \in Conns, ReleaseAnnounce(c) PROVE MutexInv'
    BY <2>12 DEF ReleaseAnnounce
  <2>13. ASSUME NEW c \in Conns, CloseHandoffSocket(c) PROVE MutexInv'
    BY <2>13 DEF CloseHandoffSocket
  <2>14. ASSUME NEW c \in Conns, PickUpClient(c) PROVE MutexInv'
    BY <2>14 DEF PickUpClient
  <2>15. ASSUME NEW c \in Conns, PickUpReconnect(c) PROVE MutexInv'
    BY <2>15 DEF PickUpReconnect
  <2>16. ASSUME NEW c \in Conns, WaitForClientTimeout(c) PROVE MutexInv'
    BY <2>16 DEF WaitForClientTimeout
  <2>17. ASSUME NEW c \in Conns, EndSession(c) PROVE MutexInv'
    BY <2>17 DEF EndSession
  <2>18. ASSUME NEW c \in Conns, Exit(c) PROVE MutexInv'
    BY <2>18 DEF Exit
  <2>19. ASSUME NEW c \in Conns, Ping(c) PROVE MutexInv'
    BY <2>19 DEF Ping
  <2>20. ASSUME NEW c \in Conns, DatabaseDies(c) PROVE MutexInv'
    BY <2>20 DEF DatabaseDies
  <2>21. ASSUME NEW c \in Conns, CrashConnection(c) PROVE MutexInv'
    BY <2>21 DEF CrashConnection
  <2>22. ASSUME NEW c \in Conns, RegisterHandoff(c) PROVE MutexInv'
    BY <2>22 DEF RegisterHandoff
  <2>23. ASSUME NEW c \in Conns, DeRegisterHandoff(c) PROVE MutexInv'
    BY <2>23 DEF DeRegisterHandoff
  <2>24. ASSUME NEW k \in Clients, AcquireShm(k) PROVE MutexInv'
    BY <2>24 DEF AcquireShm
  <2>25. ASSUME NEW k \in Clients, AcquireShmTimeout(k) PROVE MutexInv'
    BY <2>25 DEF AcquireShmTimeout
  <2>26. ASSUME NEW k \in Clients, AcceptConnection(k) PROVE MutexInv'
    BY <2>26 DEF AcceptConnection
  <2>27. ASSUME NEW k \in Clients, AcceptConnectionFails(k) PROVE MutexInv'
    BY <2>27 DEF AcceptConnectionFails
  <2>28. ASSUME NEW k \in Clients, ReadPid(k) PROVE MutexInv'
    BY <2>28 DEF ReadPid
  <2>29. ASSUME NEW k \in Clients, DoneAccepting(k) PROVE MutexInv'
    BY <2>29 DEF DoneAccepting
  <2>30. ASSUME NEW k \in Clients, ReleaseShm(k) PROVE MutexInv'
    <3>1. lpc[k] \in Reading /\ sem1' = sem1 + 1
      BY <2>30 DEF ReleaseShm
    <3>2. lpc' = [lpc EXCEPT ![k] = "check"] \/ lpc' = [lpc EXCEPT ![k] = "failed"]
      BY <2>30 DEF ReleaseShm
    <3>3. \A m \in Clients : lpc'[m] \in Reading => lpc[m] \in Reading /\ m # k
      BY <3>1, <3>2
    <3>4. UNCHANGED <<sem0, cpc>>
      BY <2>30 DEF ReleaseShm
    <3>. QED BY <3>1, <3>3, <3>4
  <2>31. ASSUME NEW k \in Clients, CheckUp(k) PROVE MutexInv'
    BY <2>31 DEF CheckUp
  <2>32. ASSUME NEW k \in Clients, FindSocket(k) PROVE MutexInv'
    BY <2>32 DEF FindSocket
  <2>33. ASSUME NEW k \in Clients, PassClient(k) PROVE MutexInv'
    BY <2>33 DEF PassClient
  <2>34. ASSUME NEW k \in Clients, ReadAck(k) PROVE MutexInv'
    BY <2>34 DEF ReadAck
  <2>35. ASSUME NEW k \in Clients, ReadAckFails(k) PROVE MutexInv'
    BY <2>35 DEF ReadAckFails
  <2>36. ASSUME NEW k \in Clients, AcceptClient(k) PROVE MutexInv'
    BY <2>36 DEF AcceptClient
  <2>37. ASSUME NEW k \in Clients, CrashListener(k) PROVE MutexInv'
    BY <2>37 DEF CrashListener
  <2>38. ASSUME NEW k \in Clients, Fixup(k) PROVE MutexInv'
    BY <2>38 DEF Fixup
  <2>39. CASE UNCHANGED vars
    BY <2>39
  <2>. QED
    BY <2>1, <2>2, <2>3, <2>4, <2>5, <2>6, <2>7, <2>8, <2>9, <2>10, <2>11,
       <2>12, <2>13, <2>14, <2>15, <2>16, <2>17, <2>18, <2>19, <2>20, <2>21,
       <2>22, <2>23, <2>24, <2>25, <2>26, <2>27, <2>28, <2>29, <2>30, <2>31,
       <2>32, <2>33, <2>34, <2>35, <2>36, <2>37, <2>38, <2>39 DEF Next,
       ConnStep, LsnrStep, MainStep
<1>. QED BY <1>1, <1>2, TypeCorrect, PTL DEF Spec

\* At most one connection announces and at most one listener reads at a time,
\* whatever times out or crashes.
THEOREM MutexCorrect == Spec => []MutualExclusion
  BY MutexInvariant, PTL DEF MutexInv

-----------------------------------------------------------------------------
(***************************************************************************)
(* The interlock.  When no connection gives up or dies in the middle of an *)
(* announcement, and the one second reads do not expire on a peer at work, *)
(* an announcement is one token: semaphore 2, then a listener reading,     *)
(* then a listener holding the pid, then a message in the handoff socket.  *)
(***************************************************************************)

Orderly ==
    /\ Ttl = FALSE
    /\ SlowHandoff = FALSE
    /\ MortalConns = {}

Holds(k, c) == lpc[k] \in Promised /\ got[k] = c

\* Nothing of an earlier announcement of c is under way.
Fresh(c) ==
    /\ \A k \in Clients : ~Holds(k, c)
    /\ hq[c] = <<>>
    /\ c \notin pings

\* Of a holder, a message and a ping there is at most one.
OneToken(c) ==
    /\ \A k, m \in Clients : Holds(k, c) /\ Holds(m, c) => k = m
    /\ \A k \in Clients : Holds(k, c) => hq[c] = <<>> /\ c \notin pings
    /\ c \in pings => hq[c] = <<>>
    /\ Len(hq[c]) <= 1

NobodyReads == \A k \in Clients : lpc[k] \notin {"read", "signal3"}

Interlock ==
    /\ \A c \in Conns : cpc[c] \in {"signal2", "wait3"} => shmPid = c
    /\ sem2 > 0 => /\ sem2 = 1 /\ sem3 = 0
                   /\ cpc[shmPid] = "wait3" /\ Fresh(shmPid)
                   /\ NobodyReads
    /\ \A k \in Clients : lpc[k] \in {"read", "signal3"} =>
                   /\ sem2 = 0 /\ sem3 = 0 /\ cpc[shmPid] = "wait3"
    /\ \A k \in Clients : lpc[k] = "read" => Fresh(shmPid)
    /\ \A k \in Clients : lpc[k] = "signal3" => got[k] = shmPid
    /\ sem3 > 0 => /\ sem2 = 0 /\ sem3 = 1
                   /\ shmPid # None /\ cpc[shmPid] = "wait3"
                   /\ NobodyReads

OrderlyInv ==
    /\ \A c \in Conns : cpc[c] \notin {"giveup", "close", "exit", "gone"}
    /\ \A c \in Conns : serving[c] # None => cpc[c] \in {"session", "sessdown"}
    /\ \A c \in Conns : cpc[c] \notin {"wait3", "release", "waitclient"}
                            => Fresh(c)
    /\ \A c \in Conns : OneToken(c)
    /\ Interlock

LEMMA OrderlyInvariant ==
    ASSUME Orderly PROVE Spec => []OrderlyInv
<1> USE HandoffAssumption DEF Orderly
<1>1. Init => OrderlyInv
  BY DEF Init, OrderlyInv, Fresh, OneToken, Holds, Interlock, NobodyReads,
     Promised
<1>2. OrderlyInv /\ MutexInv /\ TypeInv /\ [Next]_vars => OrderlyInv'
  <2> SUFFICES ASSUME OrderlyInv, MutexInv, TypeInv, [Next]_vars
               PROVE OrderlyInv'
    OBVIOUS
  <2> USE DEF TypeInv, TypeOK, PidWritten, NeverPidZero, MutexInv,
      MutualExclusion, Announcing, Reading, OrderlyInv, Fresh, OneToken, Holds,
      Interlock, NobodyReads, Promised, GotoC, GotoL, FinishL, vars, semvars,
      connvars, sockvars, lsnrvars, mainvars, dbvars
  <2>1. ASSUME NEW c \in Conns, Register(c) PROVE OrderlyInv'
    BY <2>1 DEF Register
  <2>2. ASSUME NEW c \in Conns, CheckDatabase(c) PROVE OrderlyInv'
    BY <2>2 DEF CheckDatabase, Ready
  <2>3. ASSUME NEW c \in Conns, MarkUnavailable(c) PROVE OrderlyInv'
    BY <2>3 DEF MarkUnavailable
  <2>4. ASSUME NEW c \in Conns, LoggedInAgain(c) PROVE OrderlyInv'
    <3>1. CASE cpc[c] = "relogin"
      BY <2>4, <3>1 DEF LoggedInAgain, Ready
    <3>2. CASE cpc[c] = "sessdown"
      BY <2>4, <3>2 DEF LoggedInAgain, Ready
    <3>. QED BY <2>4, <3>1, <3>2 DEF LoggedInAgain, Ready
  <2>5. ASSUME NEW c \in Conns, AcquireAnnounce(c) PROVE OrderlyInv'
    BY <2>5 DEF AcquireAnnounce
  <2>6. ASSUME NEW c \in Conns, AnnounceTimeout(c) PROVE OrderlyInv'
    BY <2>6 DEF AnnounceTimeout
  <2>7. ASSUME NEW c \in Conns, ResetSemaphores(c) PROVE OrderlyInv'
    BY <2>7 DEF ResetSemaphores
  <2>8. ASSUME NEW c \in Conns, WritePid(c) PROVE OrderlyInv'
    BY <2>8 DEF WritePid
  <2>9. ASSUME NEW c \in Conns, SignalListener(c) PROVE OrderlyInv'
    <3>1. shmPid = c /\ cpc[c] = "signal2"
      BY <2>9 DEF SignalListener
    <3>2. sem2 = 0 /\ sem3 = 0 /\ NobodyReads
      BY <3>1
    <3>3. Fresh(c)
      BY <3>1
    <3>. QED BY <2>9, <3>1, <3>2, <3>3 DEF SignalListener
  <2>10. ASSUME NEW c \in Conns, ListenerRead(c) PROVE OrderlyInv'
    BY <2>10 DEF ListenerRead
  <2>11. ASSUME NEW c \in Conns, ListenerReadTimeout(c) PROVE OrderlyInv'
    BY <2>11 DEF ListenerReadTimeout
  <2>12. ASSUME NEW c \in Conns, ReleaseAnnounce(c) PROVE OrderlyInv'
    BY <2>12 DEF ReleaseAnnounce
  <2>13. ASSUME NEW c \in Conns, CloseHandoffSocket(c) PROVE OrderlyInv'
    BY <2>13 DEF CloseHandoffSocket
  <2>14. ASSUME NEW c \in Conns, PickUpClient(c) PROVE OrderlyInv'
    BY <2>14 DEF PickUpClient
  <2>15. ASSUME NEW c \in Conns, PickUpReconnect(c) PROVE OrderlyInv'
    BY <2>15 DEF PickUpReconnect
  <2>16. ASSUME NEW c \in Conns, WaitForClientTimeout(c) PROVE OrderlyInv'
    BY <2>16 DEF WaitForClientTimeout, HoldersOf
  <2>17. ASSUME NEW c \in Conns, EndSession(c) PROVE OrderlyInv'
    BY <2>17 DEF EndSession
  <2>18. ASSUME NEW c \in Conns, Exit(c) PROVE OrderlyInv'
    BY <2>18 DEF Exit
  <2>19. ASSUME NEW c \in Conns, Ping(c) PROVE OrderlyInv'
    BY <2>19 DEF Ping
  <2>20. ASSUME NEW c \in Conns, DatabaseDies(c) PROVE OrderlyInv'
    BY <2>20 DEF DatabaseDies
  <2>21. ASSUME NEW c \in Conns, CrashConnection(c) PROVE OrderlyInv'
    BY <2>21 DEF CrashConnection
  <2>22. ASSUME NEW c \in Conns, RegisterHandoff(c) PROVE OrderlyInv'
    BY <2>22 DEF RegisterHandoff
  <2>23. ASSUME NEW c \in Conns, DeRegisterHandoff(c) PROVE OrderlyInv'
    BY <2>23 DEF DeRegisterHandoff
  <2>24. ASSUME NEW k \in Clients, AcquireShm(k) PROVE OrderlyInv'
    BY <2>24 DEF AcquireShm
  <2>25. ASSUME NEW k \in Clients, AcquireShmTimeout(k) PROVE OrderlyInv'
    BY <2>25 DEF AcquireShmTimeout
  <2>26. ASSUME NEW k \in Clients, AcceptConnection(k) PROVE OrderlyInv'
    BY <2>26 DEF AcceptConnection
  <2>27. ASSUME NEW k \in Clients, AcceptConnectionFails(k) PROVE OrderlyInv'
    BY <2>27 DEF AcceptConnectionFails
  <2>28. ASSUME NEW k \in Clients, ReadPid(k) PROVE OrderlyInv'
    BY <2>28 DEF ReadPid
  <2>29. ASSUME NEW k \in Clients, DoneAccepting(k) PROVE OrderlyInv'
    BY <2>29 DEF DoneAccepting
  <2>30. ASSUME NEW k \in Clients, ReleaseShm(k) PROVE OrderlyInv'
    <3>1. \/ lpc[k] = "release" /\ lpc' = [lpc EXCEPT ![k] = "check"]
          \/ lpc[k] = "abandon" /\ lpc' = [lpc EXCEPT ![k] = "failed"]
      BY <2>30 DEF ReleaseShm
    <3>2. \A m \in Clients :
            /\ (lpc'[m] \in Promised) = (lpc[m] \in Promised)
            /\ (lpc'[m] = "read") = (lpc[m] = "read")
            /\ (lpc'[m] = "signal3") = (lpc[m] = "signal3")
      BY <3>1
    <3>3. UNCHANGED <<sem0, sem2, sem3, shmPid, cpc, serving, pings, got, hq>>
      BY <2>30 DEF ReleaseShm
    <3>4. \A m \in Clients, c \in Conns : Holds(m, c)' = Holds(m, c)
      BY <3>2, <3>3
    <3>5. \A c \in Conns : Fresh(c)' = Fresh(c) /\ OneToken(c)' = OneToken(c)
      BY <3>3, <3>4
    <3>6. shmPid # None /\ Fresh(shmPid) => Fresh(shmPid)'
      <4>1. shmPid # None => shmPid \in Conns
        OBVIOUS
      <4>. QED BY <3>3, <3>4, <4>1
    <3>7. Interlock'
      BY <3>1, <3>2, <3>3, <3>6
    <3>. QED BY <3>3, <3>5, <3>7
  <2>31. ASSUME NEW k \in Clients, CheckUp(k) PROVE OrderlyInv'
    BY <2>31 DEF CheckUp
  <2>32. ASSUME NEW k \in Clients, FindSocket(k) PROVE OrderlyInv'
    <3>1. CASE got[k] \in List(k)
      BY <2>32, <3>1 DEF FindSocket
    <3>2. CASE got[k] \notin List(k)
      BY <2>32, <3>2 DEF FindSocket
    <3>. QED BY <3>1, <3>2
  <2>33. ASSUME NEW k \in Clients, PassClient(k) PROVE OrderlyInv'
    <3>1. got[k] \in Conns /\ Holds(k, got[k])
      BY <2>33 DEF PassClient
    <3>2. CASE got[k] \in sock
      <4>1. /\ hq' = [hq EXCEPT ![got[k]] = Append(hq[got[k]], k)]
            /\ lpc' = [lpc EXCEPT ![k] = "ack"]
        BY <2>33, <3>2 DEF PassClient
      <4>2. hq[got[k]] = <<>> /\ got[k] \notin pings
        BY <3>1
      <4>3. Len(hq'[got[k]]) = 1
        BY <4>1, <4>2, <3>1
      <4>4. cpc[got[k]] \in {"wait3", "release", "waitclient"}
        BY <3>1
      <4>5. UNCHANGED <<sem0, sem2, sem3, shmPid, cpc, serving, pings, got>>
        BY <2>33 DEF PassClient
      <4>6. \A m \in Clients, c \in Conns : Holds(m, c)' => Holds(m, c) /\ m # k
        BY <4>1, <4>5
      <4>7. \A m \in Clients : ~Holds(m, got[k])'
        <5>. SUFFICES ASSUME NEW m \in Clients, Holds(m, got[k])' PROVE FALSE
          OBVIOUS
        <5>1. Holds(m, got[k]) /\ m # k
          BY <4>5, <4>6, <3>1
        <5>2. OneToken(got[k])
          BY <3>1
        <5>. QED BY <5>1, <5>2, <3>1
      <4>8. \A c \in Conns : c # got[k] => hq'[c] = hq[c]
        BY <4>1
      <4>9. \A c \in Conns : c # got[k] /\ Fresh(c) => Fresh(c)'
        BY <4>5, <4>6, <4>8
      <4>10. \A c \in Conns : OneToken(c)'
        <5>. SUFFICES ASSUME NEW c \in Conns PROVE OneToken(c)'
          OBVIOUS
        <5>1. CASE c = got[k]
          BY <5>1, <4>2, <4>3, <4>5, <4>7
        <5>2. CASE c # got[k]
          <6>1. OneToken(c) /\ hq'[c] = hq[c]
            BY <5>2, <4>8
          <6>. QED BY <6>1, <4>5, <4>6
        <5>. QED BY <5>1, <5>2
      <4>11. Interlock'
        BY <3>1, <4>1, <4>5, <4>9, <2>33 DEF PassClient
      <4>. QED BY <3>1, <4>4, <4>5, <4>9, <4>10, <4>11
    <3>3. CASE got[k] \notin sock
      <4>1. lpc' = [lpc EXCEPT ![k] = "start"] /\ UNCHANGED <<hq, got, pings>>
        BY <2>33, <3>3 DEF PassClient
      <4>2. \A m \in Clients : lpc'[m] = lpc[m] \/ lpc'[m] = "start"
        BY <4>1
      <4>3. \A c \in Conns : Fresh(c) => Fresh(c)'
        BY <4>1, <4>2
      <4>4. \A c \in Conns : OneToken(c)'
        BY <4>1, <4>2
      <4>5. Interlock'
        BY <2>33, <4>1, <4>2, <4>3 DEF PassClient
      <4>. QED BY <2>33, <4>3, <4>4, <4>5 DEF PassClient
    <3>. QED BY <3>2, <3>3
  <2>34. ASSUME NEW k \in Clients, ReadAck(k) PROVE OrderlyInv'
    BY <2>34 DEF ReadAck
  <2>35. ASSUME NEW k \in Clients, ReadAckFails(k) PROVE OrderlyInv'
    BY <2>35 DEF ReadAckFails
  <2>36. ASSUME NEW k \in Clients, AcceptClient(k) PROVE OrderlyInv'
    BY <2>36 DEF AcceptClient
  <2>37. ASSUME NEW k \in Clients, CrashListener(k) PROVE OrderlyInv'
    <3>1. /\ \A m \in Clients : Holds(m, shmPid)' => Holds(m, shmPid)
          /\ \A m \in Clients : lpc'[m] \in {"read", "signal3"}
                                  => lpc'[m] = lpc[m]
      BY <2>37 DEF CrashListener
    <3>2. \A c \in Conns : Fresh(c) => Fresh(c)'
      BY <2>37 DEF CrashListener
    <3>3. \A c \in Conns : OneToken(c)'
      BY <2>37 DEF CrashListener
    <3>4. Interlock'
      BY <2>37, <3>1, <3>2 DEF CrashListener
    <3>. QED BY <2>37, <3>2, <3>3, <3>4 DEF CrashListener
  <2>38. ASSUME NEW k \in Clients, Fixup(k) PROVE OrderlyInv'
    BY <2>38 DEF Fixup
  <2>39. CASE UNCHANGED vars
    BY <2>39
  <2>. QED
    BY <2>1, <2>2, <2>3, <2>4, <2>5, <2>6, <2>7, <2>8, <2>9, <2>10, <2>11,
       <2>12, <2>13, <2>14, <2>15, <2>16, <2>17, <2>18, <2>19, <2>20, <2>21,
       <2>22, <2>23, <2>24, <2>25, <2>26, <2>27, <2>28, <2>29, <2>30, <2>31,
       <2>32, <2>33, <2>34, <2>35, <2>36, <2>37, <2>38, <2>39 DEF Next,
       ConnStep, LsnrStep, MainStep
<1>. QED BY <1>1, <1>2, MutexInvariant, TypeInvariant, PTL DEF Spec
LEMMA TokenUnique ==
    OrderlyInv /\ TypeOK => OneClientPerConnection
<1> SUFFICES ASSUME OrderlyInv, TypeOK, NEW c \in Conns
             PROVE /\ \A k, m \in PromisedTo(c) : k = m
                   /\ Len(hq[c]) <= 1
                   /\ serving[c] # None => PromisedTo(c) = {}
  BY DEF OneClientPerConnection
<1>1. OneToken(c) /\ hq[c] \in Seq(Clients \cup {Reconnect})
  BY DEF OrderlyInv, TypeOK
<1>2. \A k \in HoldersOf(c) : Holds(k, c) /\ k \in Clients
  BY DEF HoldersOf, Holds
<1>3. Len(hq[c]) <= 1
  BY <1>1 DEF OneToken
<1>4. \A i, j \in DOMAIN hq[c] : i = j
  BY <1>1, <1>3
<1>5. hq[c] = <<>> => DOMAIN hq[c] = {}
  OBVIOUS
<1>6. \A k, m \in PromisedTo(c) : k = m
  <2> SUFFICES ASSUME NEW k \in PromisedTo(c), NEW m \in PromisedTo(c)
               PROVE k = m
    OBVIOUS
  <2>1. CASE k \in HoldersOf(c) \/ m \in HoldersOf(c)
    <3>1. DOMAIN hq[c] = {}
      BY <2>1, <1>1, <1>2, <1>5 DEF OneToken
    <3>2. PromisedTo(c) = HoldersOf(c)
      BY <3>1 DEF PromisedTo
    <3>. QED BY <3>2, <1>1, <1>2 DEF OneToken
  <2>2. CASE k \notin HoldersOf(c) /\ m \notin HoldersOf(c)
    <3>1. PICK i \in DOMAIN hq[c] : k = hq[c][i]
      BY <2>2 DEF PromisedTo
    <3>2. PICK j \in DOMAIN hq[c] : m = hq[c][j]
      BY <2>2 DEF PromisedTo
    <3>. QED BY <3>1, <3>2, <1>4
  <2>. QED BY <2>1, <2>2
<1>7. ASSUME serving[c] # None PROVE PromisedTo(c) = {}
  <2>1. Fresh(c)
    BY <1>7 DEF OrderlyInv
  <2>2. HoldersOf(c) = {} /\ DOMAIN hq[c] = {}
    BY <2>1, <1>2, <1>5 DEF Fresh
  <2>. QED BY <2>2 DEF PromisedTo
<1>. QED BY <1>3, <1>6, <1>7

\* Without idle ttl, expired one second reads and deaths of connections, a
\* connection is never promised to two clients, nor to one while it serves
\* another, although listeners time out, die or are served inline.
THEOREM ExclusiveHandoff ==
    ASSUME Orderly PROVE Spec => []OneClientPerConnection
<1>1. OrderlyInv /\ TypeOK => OneClientPerConnection
  BY TokenUnique
<1>2. Spec => []OrderlyInv
  BY OrderlyInvariant
<1>. QED BY <1>1, <1>2, TypeCorrect, PTL

-----------------------------------------------------------------------------
(***************************************************************************)
(* Whose turn it is.  The part of the interlock that concerns the segment  *)
(* needs no more than that nobody leaves in the middle of an announcement: *)
(* no connection gives up or dies.  Reads may expire at any time.          *)
(***************************************************************************)

Staying == Ttl = FALSE /\ MortalConns = {}

TurnInv ==
    /\ \A c \in Conns : cpc[c] \notin {"giveup", "close", "exit", "gone"}
    /\ \A c \in Conns : cpc[c] \in {"signal2", "wait3"} => shmPid = c
    /\ sem2 > 0 => /\ sem2 = 1 /\ sem3 = 0
                   /\ cpc[shmPid] = "wait3"
                   /\ NobodyReads
    /\ \A k \in Clients : lpc[k] \in {"read", "signal3"} =>
                   /\ sem2 = 0 /\ sem3 = 0
                   /\ shmPid # None /\ cpc[shmPid] = "wait3"
    /\ sem3 > 0 => /\ sem2 = 0 /\ sem3 = 1
                   /\ shmPid # None /\ cpc[shmPid] = "wait3"
                   /\ NobodyReads

LEMMA TurnInvariant ==
    ASSUME Staying PROVE Spec => []TurnInv
<1> USE HandoffAssumption DEF Staying
<1>1. Init => TurnInv
  BY DEF Init, TurnInv, NobodyReads
<1>2. TurnInv /\ MutexInv /\ TypeInv /\ [Next]_vars => TurnInv'
  <2> SUFFICES ASSUME TurnInv, MutexInv, TypeInv, [Next]_vars PROVE TurnInv'
    OBVIOUS
  <2> USE DEF TypeInv, TypeOK, PidWritten, MutexInv, MutualExclusion,
      Announcing, Reading, TurnInv, NobodyReads, GotoC, GotoL, FinishL, vars,
      semvars, connvars, sockvars, lsnrvars, mainvars, dbvars
  <2>1. ASSUME NEW c \in Conns, Register(c) PROVE TurnInv'
    BY <2>1 DEF Register
  <2>2. ASSUME NEW c \in Conns, CheckDatabase(c) PROVE TurnInv'
    BY <2>2 DEF CheckDatabase, Ready
  <2>3. ASSUME NEW c \in Conns, MarkUnavailable(c) PROVE TurnInv'
    BY <2>3 DEF MarkUnavailable
  <2>4. ASSUME NEW c \in Conns, LoggedInAgain(c) PROVE TurnInv'
    BY <2>4 DEF LoggedInAgain, Ready
  <2>5. ASSUME NEW c \in Conns, AcquireAnnounce(c) PROVE TurnInv'
    BY <2>5 DEF AcquireAnnounce
  <2>6. ASSUME NEW c \in Conns, AnnounceTimeout(c) PROVE TurnInv'
    BY <2>6 DEF AnnounceTimeout
  <2>7. ASSUME NEW c \in Conns, ResetSemaphores(c) PROVE TurnInv'
    BY <2>7 DEF ResetSemaphores
  <2>8. ASSUME NEW c \in Conns, WritePid(c) PROVE TurnInv'
    <3>1. \A d \in Conns : cpc[d] # "wait3"
      BY <2>8 DEF WritePid
    <3>2. sem2 = 0 /\ sem3 = 0 /\ NobodyReads
      BY <3>1
    <3>. QED BY <2>8, <3>1, <3>2 DEF WritePid
  <2>9. ASSUME NEW c \in Conns, SignalListener(c) PROVE TurnInv'
    BY <2>9 DEF SignalListener
  <2>10. ASSUME NEW c \in Conns, ListenerRead(c) PROVE TurnInv'
    BY <2>10 DEF ListenerRead
  <2>11. ASSUME NEW c \in Conns, ListenerReadTimeout(c) PROVE TurnInv'
    BY <2>11 DEF ListenerReadTimeout
  <2>12. ASSUME NEW c \in Conns, ReleaseAnnounce(c) PROVE TurnInv'
    BY <2>12 DEF ReleaseAnnounce
  <2>13. ASSUME NEW c \in Conns, CloseHandoffSocket(c) PROVE TurnInv'
    BY <2>13 DEF CloseHandoffSocket
  <2>14. ASSUME NEW c \in Conns, PickUpClient(c) PROVE TurnInv'
    BY <2>14 DEF PickUpClient
  <2>15. ASSUME NEW c \in Conns, PickUpReconnect(c) PROVE TurnInv'
    BY <2>15 DEF PickUpReconnect
  <2>16. ASSUME NEW c \in Conns, WaitForClientTimeout(c) PROVE TurnInv'
    BY <2>16 DEF WaitForClientTimeout
  <2>17. ASSUME NEW c \in Conns, EndSession(c) PROVE TurnInv'
    <3>1. cpc' = [cpc EXCEPT ![c] = "avail"] /\ cpc[c] = "session"
      BY <2>17 DEF EndSession
    <3>2. UNCHANGED <<sem2, sem3, shmPid, lpc>>
      BY <2>17 DEF EndSession
    <3>. QED BY <3>1, <3>2
  <2>18. ASSUME NEW c \in Conns, Exit(c) PROVE TurnInv'
    BY <2>18 DEF Exit
  <2>19. ASSUME NEW c \in Conns, Ping(c) PROVE TurnInv'
    BY <2>19 DEF Ping
  <2>20. ASSUME NEW c \in Conns, DatabaseDies(c) PROVE TurnInv'
    BY <2>20 DEF DatabaseDies
  <2>21. ASSUME NEW c \in Conns, CrashConnection(c) PROVE TurnInv'
    BY <2>21 DEF CrashConnection
  <2>22. ASSUME NEW c \in Conns, RegisterHandoff(c) PROVE TurnInv'
    BY <2>22 DEF RegisterHandoff
  <2>23. ASSUME NEW c \in Conns, DeRegisterHandoff(c) PROVE TurnInv'
    BY <2>23 DEF DeRegisterHandoff
  <2>24. ASSUME NEW k \in Clients, AcquireShm(k) PROVE TurnInv'
    BY <2>24 DEF AcquireShm
  <2>25. ASSUME NEW k \in Clients, AcquireShmTimeout(k) PROVE TurnInv'
    BY <2>25 DEF AcquireShmTimeout
  <2>26. ASSUME NEW k \in Clients, AcceptConnection(k) PROVE TurnInv'
    BY <2>26 DEF AcceptConnection
  <2>27. ASSUME NEW k \in Clients, AcceptConnectionFails(k) PROVE TurnInv'
    BY <2>27 DEF AcceptConnectionFails
  <2>28. ASSUME NEW k \in Clients, ReadPid(k) PROVE TurnInv'
    BY <2>28 DEF ReadPid
  <2>29. ASSUME NEW k \in Clients, DoneAccepting(k) PROVE TurnInv'
    BY <2>29 DEF DoneAccepting
  <2>30. ASSUME NEW k \in Clients, ReleaseShm(k) PROVE TurnInv'
    BY <2>30 DEF ReleaseShm
  <2>31. ASSUME NEW k \in Clients, CheckUp(k) PROVE TurnInv'
    BY <2>31 DEF CheckUp
  <2>32. ASSUME NEW k \in Clients, FindSocket(k) PROVE TurnInv'
    BY <2>32 DEF FindSocket
  <2>33. ASSUME NEW k \in Clients, PassClient(k) PROVE TurnInv'
    BY <2>33 DEF PassClient
  <2>34. ASSUME NEW k \in Clients, ReadAck(k) PROVE TurnInv'
    BY <2>34 DEF ReadAck
  <2>35. ASSUME NEW k \in Clients, ReadAckFails(k) PROVE TurnInv'
    BY <2>35 DEF ReadAckFails
  <2>36. ASSUME NEW k \in Clients, AcceptClient(k) PROVE TurnInv'
    BY <2>36 DEF AcceptClient
  <2>37. ASSUME NEW k \in Clients, CrashListener(k) PROVE TurnInv'
    BY <2>37 DEF CrashListener
  <2>38. ASSUME NEW k \in Clients, Fixup(k) PROVE TurnInv'
    BY <2>38 DEF Fixup
  <2>39. CASE UNCHANGED vars
    BY <2>39
  <2>. QED
    BY <2>1, <2>2, <2>3, <2>4, <2>5, <2>6, <2>7, <2>8, <2>9, <2>10, <2>11,
       <2>12, <2>13, <2>14, <2>15, <2>16, <2>17, <2>18, <2>19, <2>20,
       <2>21, <2>22, <2>23, <2>24, <2>25, <2>26, <2>27, <2>28, <2>29,
       <2>30, <2>31, <2>32, <2>33, <2>34, <2>35, <2>36, <2>37, <2>38,
       <2>39 DEF Next,
       ConnStep, LsnrStep, MainStep
<1>. QED BY <1>1, <1>2, MutexInvariant, TypeInvariant, PTL DEF Spec

\* Unless a connection gives up or dies, a listener reads the pid of the
\* connection that is waiting for that read, even if reads of the handoff
\* sockets expire and listeners time out or die (signalListenerToRead,
\* acceptAvailableConnection, waitForListenerToFinishReading).
THEOREM ReadIsCurrent ==
    ASSUME Staying PROVE Spec => []ReadsWaitingConnection
<1>1. TurnInv /\ TypeInv => ReadsWaitingConnection
  BY DEF TurnInv, TypeInv, TypeOK, PidWritten, ReadsWaitingConnection
<1>2. Spec => []TurnInv
  BY TurnInvariant
<1>. QED BY <1>1, <1>2, TypeInvariant, PTL
=============================================================================
