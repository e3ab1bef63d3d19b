------------------------- MODULE HandoffPoolProofs -------------------------
(***************************************************************************)
(* Proofs about Handoff's sockets and acks: no client is lost, nobody      *)
(* waits for an ack that cannot come, and the protocol implements          *)
(* ClientPool.                                                             *)
(***************************************************************************)
EXTENDS HandoffPool, HandoffProofs, FiniteSetTheorems, FunctionTheorems

\* The states in which a connection has its end of the handoff socket open.
Connected == {"announce", "reset", "write", "signal2", "wait3", "release",
              "giveup", "close", "waitclient", "session", "sessdown"}

\* A connection that has registered has its socket open, one that is about to
\* register has not, and nothing is queued on a closed socket, whoever dies.
SockInv ==
    \A c \in Conns :
        /\ cpc[c] \in Connected => c \in sock
        /\ cpc[c] = "register" => c \notin sock
        /\ \A k \in Clients : lpc[k] = "ack" /\ got[k] = c
                => c \in sock \/ cpc[c] \in {"exit", "gone"}
        /\ c \notin sock => hq[c] = <<>>

LEMMA SockInvariant == Spec => []SockInv
<1> USE HandoffAssumption
<1>1. Init => SockInv
  BY DEF Init, SockInv, Connected
<1>2. SockInv /\ TypeInv /\ [Next]_vars => SockInv'
  <2> SUFFICES ASSUME SockInv, TypeInv, [Next]_vars PROVE SockInv'
    OBVIOUS
  <2> USE DEF TypeInv, TypeOK, NeverPidZero, Promised, SockInv, Connected,
      GotoC, GotoL, FinishL, vars, semvars, connvars, sockvars, lsnrvars,
      mainvars, dbvars
  <2>1. ASSUME NEW c \in Conns, Register(c) PROVE SockInv'
    BY <2>1 DEF Register
  <2>2. ASSUME NEW c \in Conns, CheckDatabase(c) PROVE SockInv'
    BY <2>2 DEF CheckDatabase, Ready
  <2>3. ASSUME NEW c \in Conns, MarkUnavailable(c) PROVE SockInv'
    BY <2>3 DEF MarkUnavailable
  <2>4. ASSUME NEW c \in Conns, LoggedInAgain(c) PROVE SockInv'
    BY <2>4 DEF LoggedInAgain, Ready
  <2>5. ASSUME NEW c \in Conns, AcquireAnnounce(c) PROVE SockInv'
    BY <2>5 DEF AcquireAnnounce
  <2>6. ASSUME NEW c \in Conns, AnnounceTimeout(c) PROVE SockInv'
    BY <2>6 DEF AnnounceTimeout
  <2>7. ASSUME NEW c \in Conns, ResetSemaphores(c) PROVE SockInv'
    BY <2>7 DEF ResetSemaphores
  <2>8. ASSUME NEW c \in Conns, WritePid(c) PROVE SockInv'
    BY <2>8 DEF WritePid
  <2>9. ASSUME NEW c \in Conns, SignalListener(c) PROVE SockInv'
    BY <2>9 DEF SignalListener
  <2>10. ASSUME NEW c \in Conns, ListenerRead(c) PROVE SockInv'
    BY <2>10 DEF ListenerRead
  <2>11. ASSUME NEW c \in Conns, ListenerReadTimeout(c) PROVE SockInv'
    BY <2>11 DEF ListenerReadTimeout
  <2>12. ASSUME NEW c \in Conns, ReleaseAnnounce(c) PROVE SockInv'
    BY <2>12 DEF ReleaseAnnounce
  <2>13. ASSUME NEW c \in Conns, CloseHandoffSocket(c) PROVE SockInv'
    BY <2>13 DEF CloseHandoffSocket
  <2>14. ASSUME NEW c \in Conns, PickUpClient(c) PROVE SockInv'
    BY <2>14 DEF PickUpClient
  <2>15. ASSUME NEW c \in Conns, PickUpReconnect(c) PROVE SockInv'
    BY <2>15 DEF PickUpReconnect
  <2>16. ASSUME NEW c \in Conns, WaitForClientTimeout(c) PROVE SockInv'
    BY <2>16 DEF WaitForClientTimeout
  <2>17. ASSUME NEW c \in Conns, EndSession(c) PROVE SockInv'
    <3>1. \/ cpc' = [cpc EXCEPT ![c] = "avail"]
          \/ cpc' = [cpc EXCEPT ![c] = "exit"]
      BY <2>17 DEF EndSession
    <3>2. cpc[c] = "session" /\ UNCHANGED <<sock, hq, lpc, got>>
      BY <2>17 DEF EndSession
    <3>3. CASE cpc' = [cpc EXCEPT ![c] = "avail"]
      BY <3>2, <3>3
    <3>4. CASE cpc' = [cpc EXCEPT ![c] = "exit"]
      BY <3>2, <3>4
    <3>. QED BY <3>1, <3>3, <3>4
  <2>18. ASSUME NEW c \in Conns, Exit(c) PROVE SockInv'
    BY <2>18 DEF Exit
  <2>19. ASSUME NEW c \in Conns, Ping(c) PROVE SockInv'
    BY <2>19 DEF Ping
  <2>20. ASSUME NEW c \in Conns, DatabaseDies(c) PROVE SockInv'
    BY <2>20 DEF DatabaseDies
  <2>21. ASSUME NEW c \in Conns, CrashConnection(c) PROVE SockInv'
    BY <2>21 DEF CrashConnection
  <2>22. ASSUME NEW c \in Conns, RegisterHandoff(c) PROVE SockInv'
    BY <2>22 DEF RegisterHandoff
  <2>23. ASSUME NEW c \in Conns, DeRegisterHandoff(c) PROVE SockInv'
    BY <2>23 DEF DeRegisterHandoff
  <2>24. ASSUME NEW k \in Clients, AcquireShm(k) PROVE SockInv'
    BY <2>24 DEF AcquireShm
  <2>25. ASSUME NEW k \in Clients, AcquireShmTimeout(k) PROVE SockInv'
    BY <2>25 DEF AcquireShmTimeout
  <2>26. ASSUME NEW k \in Clients, AcceptConnection(k) PROVE SockInv'
    BY <2>26 DEF AcceptConnection
  <2>27. ASSUME NEW k \in Clients, AcceptConnectionFails(k) PROVE SockInv'
    BY <2>27 DEF AcceptConnectionFails
  <2>28. ASSUME NEW k \in Clients, ReadPid(k) PROVE SockInv'
    BY <2>28 DEF ReadPid
  <2>29. ASSUME NEW k \in Clients, DoneAccepting(k) PROVE SockInv'
    BY <2>29 DEF DoneAccepting
  <2>30. ASSUME NEW k \in Clients, ReleaseShm(k) PROVE SockInv'
    BY <2>30 DEF ReleaseShm
  <2>31. ASSUME NEW k \in Clients, CheckUp(k) PROVE SockInv'
    BY <2>31 DEF CheckUp
  <2>32. ASSUME NEW k \in Clients, FindSocket(k) PROVE SockInv'
    BY <2>32 DEF FindSocket
  <2>33. ASSUME NEW k \in Clients, PassClient(k) PROVE SockInv'
    BY <2>33 DEF PassClient
  <2>34. ASSUME NEW k \in Clients, ReadAck(k) PROVE SockInv'
    BY <2>34 DEF ReadAck
  <2>35. ASSUME NEW k \in Clients, ReadAckFails(k) PROVE SockInv'
    BY <2>35 DEF ReadAckFails
  <2>36. ASSUME NEW k \in Clients, AcceptClient(k) PROVE SockInv'
    BY <2>36 DEF AcceptClient
  <2>37. ASSUME NEW k \in Clients, CrashListener(k) PROVE SockInv'
    BY <2>37 DEF CrashListener
  <2>38. ASSUME NEW k \in Clients, Fixup(k) PROVE SockInv'
    BY <2>38 DEF Fixup
  <2>39. CASE UNCHANGED vars
    BY <2>39
  <2>. QED
    BY <2>1, <2>2, <2>3, <2>4, <2>5, <2>6, <2>7, <2>8, <2>9, <2>10, <2>11,
       <2>12, <2>13, <2>14, <2>15, <2>16, <2>17, <2>18, <2>19, <2>20,
       <2>21, <2>22, <2>23, <2>24, <2>25, <2>26, <2>27, <2>28, <2>29,
       <2>30, <2>31, <2>32, <2>33, <2>34, <2>35, <2>36, <2>37, <2>38,
       <2>39 DEF Next,
       ConnStep, LsnrStep, MainStep
<1>. QED BY <1>1, <1>2, TypeInvariant, PTL DEF Spec
-----------------------------------------------------------------------------
(* What a handoff socket holds. *)

Queued(q) == {q[i] : i \in DOMAIN q}

LEMMA QueuedEmpty == Queued(<<>>) = {}
  BY DEF Queued

LEMMA QueuedAppend ==
    ASSUME NEW S, NEW q \in Seq(S), NEW x \in S
    PROVE  Queued(Append(q, x)) = Queued(q) \cup {x}
<1>1. /\ Len(Append(q, x)) = Len(q) + 1
      /\ \A i \in 1 .. Len(q) : Append(q, x)[i] = q[i]
      /\ Append(q, x)[Len(q) + 1] = x
      /\ Append(q, x) \in Seq(S) /\ Len(q) \in Nat
  OBVIOUS
<1>2. DOMAIN Append(q, x) = DOMAIN q \cup {Len(q) + 1} /\ DOMAIN q = 1 .. Len(q)
  BY <1>1
<1>. QED BY <1>1, <1>2 DEF Queued

LEMMA QueuedTail ==
    ASSUME NEW S, NEW q \in Seq(S), q # <<>>
    PROVE  /\ Queued(q) = Queued(Tail(q)) \cup {Head(q)}
           /\ Tail(q) \in Seq(S) /\ Head(q) \in S
<1>1. /\ Len(q) \in Nat \ {0} /\ Len(Tail(q)) = Len(q) - 1
      /\ \A i \in 1 .. Len(q) - 1 : Tail(q)[i] = q[i + 1]
      /\ Head(q) = q[1] /\ Tail(q) \in Seq(S) /\ Head(q) \in S
      /\ DOMAIN q = 1 .. Len(q) /\ DOMAIN Tail(q) = 1 .. Len(Tail(q))
  OBVIOUS
<1>2. \A i \in DOMAIN q :
        i = 1 \/ (i - 1 \in DOMAIN Tail(q) /\ q[i] = Tail(q)[i - 1])
  BY <1>1
<1>3. \A i \in DOMAIN Tail(q) : i + 1 \in DOMAIN q /\ Tail(q)[i] = q[i + 1]
  BY <1>1
<1>4. 1 \in DOMAIN q
  BY <1>1
<1>5. ASSUME NEW x \in Queued(q) PROVE x \in Queued(Tail(q)) \cup {Head(q)}
  <2>1. PICK i \in DOMAIN q : x = q[i]
    BY <1>5 DEF Queued
  <2>. QED BY <2>1, <1>1, <1>2 DEF Queued
<1>6. ASSUME NEW x \in Queued(Tail(q)) \cup {Head(q)} PROVE x \in Queued(q)
  <2>1. CASE x = Head(q)
    BY <2>1, <1>1, <1>4 DEF Queued
  <2>2. CASE x \in Queued(Tail(q))
    <3>1. PICK i \in DOMAIN Tail(q) : x = Tail(q)[i]
      BY <2>2 DEF Queued
    <3>. QED BY <3>1, <1>3 DEF Queued
  <2>. QED BY <1>6, <2>1, <2>2
<1>. QED BY <1>1, <1>5, <1>6
LEMMA MessageAppended ==
    ASSUME TypeOK, NEW c \in Conns, NEW x \in Clients \cup {Reconnect}
    PROVE  Queued(Append(hq[c], x)) = Queued(hq[c]) \cup {x}
<1> DEFINE S == Clients \cup {Reconnect}
<1>1. hq[c] \in Seq(S) /\ x \in S
  BY DEF TypeOK
<1> HIDE DEF S
<1>. QED BY <1>1, QueuedAppend

-----------------------------------------------------------------------------
(* No client is lost as long as no connection gives up or dies (Staying).     *)
(* Listeners may time out, die, and hand a client to several connections.     *)

KeptInv ==
    /\ \A c \in Conns : cpc[c] \notin {"giveup", "close", "exit", "gone"}
    /\ \A k \in Clients : lpc[k] \in {"ack", "done"} /\ served[k] = 0
            => \E c \in sock : k \in Queued(hq[c])

LEMMA KeptInvariant == ASSUME Staying PROVE Spec => []KeptInv
<1> USE HandoffAssumption DEF Staying
<1>1. Init => KeptInv
  BY DEF Init, KeptInv
<1>2. KeptInv /\ TypeInv /\ [Next]_vars => KeptInv'
  <2> SUFFICES ASSUME KeptInv, TypeInv, [Next]_vars PROVE KeptInv'
    OBVIOUS
  <2> USE DEF TypeInv, TypeOK, NeverPidZero, Promised, KeptInv,
      GotoC, GotoL, FinishL, vars, semvars, connvars, sockvars, lsnrvars,
      mainvars, dbvars
  <2>1. ASSUME NEW c \in Conns, Register(c) PROVE KeptInv'
    BY <2>1 DEF Register
  <2>2. ASSUME NEW c \in Conns, CheckDatabase(c) PROVE KeptInv'
    BY <2>2 DEF CheckDatabase, Ready
  <2>3. ASSUME NEW c \in Conns, MarkUnavailable(c) PROVE KeptInv'
    BY <2>3 DEF MarkUnavailable
  <2>4. ASSUME NEW c \in Conns, LoggedInAgain(c) PROVE KeptInv'
    BY <2>4 DEF LoggedInAgain, Ready
  <2>5. ASSUME NEW c \in Conns, AcquireAnnounce(c) PROVE KeptInv'
    BY <2>5 DEF AcquireAnnounce
  <2>6. ASSUME NEW c \in Conns, AnnounceTimeout(c) PROVE KeptInv'
    BY <2>6 DEF AnnounceTimeout
  <2>7. ASSUME NEW c \in Conns, ResetSemaphores(c) PROVE KeptInv'
    BY <2>7 DEF ResetSemaphores
  <2>8. ASSUME NEW c \in Conns, WritePid(c) PROVE KeptInv'
    BY <2>8 DEF WritePid
  <2>9. ASSUME NEW c \in Conns, SignalListener(c) PROVE KeptInv'
    BY <2>9 DEF SignalListener
  <2>10. ASSUME NEW c \in Conns, ListenerRead(c) PROVE KeptInv'
    BY <2>10 DEF ListenerRead
  <2>11. ASSUME NEW c \in Conns, ListenerReadTimeout(c) PROVE KeptInv'
    BY <2>11 DEF ListenerReadTimeout
  <2>12. ASSUME NEW c \in Conns, ReleaseAnnounce(c) PROVE KeptInv'
    BY <2>12 DEF ReleaseAnnounce
  <2>13. ASSUME NEW c \in Conns, CloseHandoffSocket(c) PROVE KeptInv'
    BY <2>13 DEF CloseHandoffSocket
  <2>14. ASSUME NEW c \in Conns, PickUpClient(c) PROVE KeptInv'
    <3>1. /\ cpc[c] = "waitclient" /\ hq[c] # <<>> /\ Head(hq[c]) # Reconnect
          /\ cpc' = [cpc EXCEPT ![c] = "session"]
          /\ hq' = [hq EXCEPT ![c] = Tail(hq[c])]
          /\ served' = [served EXCEPT ![Head(hq[c])] = @ + 1]
          /\ UNCHANGED <<sock, lpc>>
      BY <2>14 DEF PickUpClient
    <3>2. Queued(hq[c]) = Queued(Tail(hq[c])) \cup {Head(hq[c])}
      BY <3>1, QueuedTail
    <3>3. Head(hq[c]) \in Clients
      BY <3>1, QueuedTail
    <3>4. \A k \in Clients : k # Head(hq[c]) => served'[k] = served[k]
      BY <3>1, <3>3
    <3>5. served'[Head(hq[c])] # 0
      BY <3>1, <3>3
    <3>6. \A k \in Clients, d \in Conns :
            k # Head(hq[c]) /\ k \in Queued(hq[d]) => k \in Queued(hq'[d])
      BY <3>1, <3>2
    <3>. QED BY <3>1, <3>4, <3>5, <3>6
  <2>15. ASSUME NEW c \in Conns, PickUpReconnect(c) PROVE KeptInv'
    <3>1. /\ cpc[c] = "waitclient" /\ hq[c] # <<>> /\ Head(hq[c]) = Reconnect
          /\ cpc' = [cpc EXCEPT ![c] = "avail"]
          /\ hq' = [hq EXCEPT ![c] = Tail(hq[c])]
          /\ UNCHANGED <<sock, lpc, served>>
      BY <2>15 DEF PickUpReconnect
    <3>2. Queued(hq[c]) = Queued(Tail(hq[c])) \cup {Reconnect}
      BY <3>1, QueuedTail
    <3>3. \A k \in Clients, d \in Conns :
            k \in Queued(hq[d]) => k \in Queued(hq'[d])
      BY <3>1, <3>2
    <3>. QED BY <3>1, <3>3
  <2>16. ASSUME NEW c \in Conns, WaitForClientTimeout(c) PROVE KeptInv'
    BY <2>16 DEF WaitForClientTimeout
  <2>17. ASSUME NEW c \in Conns, EndSession(c) PROVE KeptInv'
    BY <2>17 DEF EndSession
  <2>18. ASSUME NEW c \in Conns, Exit(c) PROVE KeptInv'
    BY <2>18 DEF Exit
  <2>19. ASSUME NEW c \in Conns, Ping(c) PROVE KeptInv'
    <3>1. hq' = hq \/ hq' = [hq EXCEPT ![c] = Append(hq[c], Reconnect)]
      BY <2>19 DEF Ping
    <3>2. Queued(Append(hq[c], Reconnect)) = Queued(hq[c]) \cup {Reconnect}
      BY MessageAppended
    <3>3. \A k \in Clients, d \in Conns :
            k \in Queued(hq[d]) => k \in Queued(hq'[d])
      BY <3>1, <3>2
    <3>4. UNCHANGED <<cpc, sock, lpc, served>>
      BY <2>19 DEF Ping
    <3>. QED BY <3>3, <3>4
  <2>20. ASSUME NEW c \in Conns, DatabaseDies(c) PROVE KeptInv'
    BY <2>20 DEF DatabaseDies
  <2>21. ASSUME NEW c \in Conns, CrashConnection(c) PROVE KeptInv'
    BY <2>21 DEF CrashConnection
  <2>22. ASSUME NEW c \in Conns, RegisterHandoff(c) PROVE KeptInv'
    BY <2>22 DEF RegisterHandoff
  <2>23. ASSUME NEW c \in Conns, DeRegisterHandoff(c) PROVE KeptInv'
    BY <2>23 DEF DeRegisterHandoff
  <2>24. ASSUME NEW k \in Clients, AcquireShm(k) PROVE KeptInv'
    BY <2>24 DEF AcquireShm
  <2>25. ASSUME NEW k \in Clients, AcquireShmTimeout(k) PROVE KeptInv'
    BY <2>25 DEF AcquireShmTimeout
  <2>26. ASSUME NEW k \in Clients, AcceptConnection(k) PROVE KeptInv'
    BY <2>26 DEF AcceptConnection
  <2>27. ASSUME NEW k \in Clients, AcceptConnectionFails(k) PROVE KeptInv'
    BY <2>27 DEF AcceptConnectionFails
  <2>28. ASSUME NEW k \in Clients, ReadPid(k) PROVE KeptInv'
    BY <2>28 DEF ReadPid
  <2>29. ASSUME NEW k \in Clients, DoneAccepting(k) PROVE KeptInv'
    BY <2>29 DEF DoneAccepting
  <2>30. ASSUME NEW k \in Clients, ReleaseShm(k) PROVE KeptInv'
    <3>1. \A m \in Clients : lpc'[m] \in {"ack", "done"} => lpc'[m] = lpc[m]
      BY <2>30 DEF ReleaseShm
    <3>2. UNCHANGED <<cpc, sock, hq, served>>
      BY <2>30 DEF ReleaseShm
    <3>. QED BY <3>1, <3>2
  <2>31. ASSUME NEW k \in Clients, CheckUp(k) PROVE KeptInv'
    <3>1. \A m \in Clients : lpc'[m] \in {"ack", "done"} => lpc'[m] = lpc[m]
      BY <2>31 DEF CheckUp
    <3>2. UNCHANGED <<cpc, sock, hq, served>>
      BY <2>31 DEF CheckUp
    <3>. QED BY <3>1, <3>2
  <2>32. ASSUME NEW k \in Clients, FindSocket(k) PROVE KeptInv'
    BY <2>32 DEF FindSocket
  <2>33. ASSUME NEW k \in Clients, PassClient(k) PROVE KeptInv'
    <3>1. got[k] \in Conns
      BY <2>33 DEF PassClient
    <3>2. UNCHANGED <<cpc, sock, served>>
      BY <2>33 DEF PassClient
    <3>3. CASE got[k] \in sock
      <4>1. /\ hq' = [hq EXCEPT ![got[k]] = Append(hq[got[k]], k)]
            /\ lpc' = [lpc EXCEPT ![k] = "ack"]
        BY <2>33, <3>3 DEF PassClient
      <4>2. Queued(Append(hq[got[k]], k)) = Queued(hq[got[k]]) \cup {k}
        BY <3>1, MessageAppended
      <4>3. \A m \in Clients, d \in Conns :
              m \in Queued(hq[d]) => m \in Queued(hq'[d])
        BY <3>1, <4>1, <4>2
      <4>4. k \in Queued(hq'[got[k]])
        BY <3>1, <4>1, <4>2
      <4>. QED BY <3>2, <3>3, <4>1, <4>3, <4>4
    <3>4. CASE got[k] \notin sock
      BY <2>33, <3>2, <3>4 DEF PassClient
    <3>. QED BY <3>3, <3>4
  <2>34. ASSUME NEW k \in Clients, ReadAck(k) PROVE KeptInv'
    BY <2>34 DEF ReadAck
  <2>35. ASSUME NEW k \in Clients, ReadAckFails(k) PROVE KeptInv'
    BY <2>35 DEF ReadAckFails
  <2>36. ASSUME NEW k \in Clients, AcceptClient(k) PROVE KeptInv'
    BY <2>36 DEF AcceptClient
  <2>37. ASSUME NEW k \in Clients, CrashListener(k) PROVE KeptInv'
    BY <2>37 DEF CrashListener
  <2>38. ASSUME NEW k \in Clients, Fixup(k) PROVE KeptInv'
    BY <2>38 DEF Fixup
  <2>39. CASE UNCHANGED vars
    BY <2>39
  <2>. QED
    BY <2>1, <2>2, <2>3, <2>4, <2>5, <2>6, <2>7, <2>8, <2>9, <2>10, <2>11,
       <2>12, <2>13, <2>14, <2>15, <2>16, <2>17, <2>18, <2>19, <2>20,
       <2>21, <2>22, <2>23, <2>24, <2>25, <2>26, <2>27, <2>28, <2>29,
       <2>30, <2>31, <2>32, <2>33, <2>34, <2>35, <2>36, <2>37, <2>38,
       <2>39 DEF Next,
       ConnStep, LsnrStep, MainStep
<1>. QED BY <1>1, <1>2, TypeInvariant, PTL DEF Spec

\* "If we got this far, everything worked" (sqlrlistener.cpp:1713): with idle
\* ttl off and no connection dying, a listener is only done with a client that
\* has been picked up, or is in an open handoff socket, to be read.
THEOREM ClientsAreKept ==
    ASSUME Staying PROVE Spec => []NoClientLost
<1>1. KeptInv => NoClientLost
  BY DEF KeptInv, NoClientLost, Queued
<1>2. Spec => []KeptInv
  BY KeptInvariant
<1>. QED BY <1>1, <1>2, PTL
-----------------------------------------------------------------------------
(* How many clients, rather than reconnect commands, a handoff socket holds.  *)

Unread(q) == {i \in DOMAIN q : q[i] # Reconnect}

LEMMA UnreadFinite ==
    ASSUME NEW S, NEW q \in Seq(S)
    PROVE  IsFiniteSet(Unread(q)) /\ Cardinality(Unread(q)) \in Nat
<1>1. Len(q) \in Nat /\ DOMAIN q = 1 .. Len(q)
  OBVIOUS
<1>2. IsFiniteSet(1 .. Len(q))
  BY <1>1, FS_Interval
<1>3. Unread(q) \in SUBSET (1 .. Len(q))
  BY <1>1 DEF Unread
<1>4. IsFiniteSet(Unread(q))
  BY <1>2, <1>3, FS_Subset
<1>. QED BY <1>4, FS_CardinalityType

LEMMA UnreadAppend ==
    ASSUME NEW S, NEW q \in Seq(S), NEW x \in S
    PROVE  Cardinality(Unread(Append(q, x))) =
             IF x = Reconnect THEN Cardinality(Unread(q))
             ELSE Cardinality(Unread(q)) + 1
<1>1. /\ \A i \in 1 .. Len(q) : Append(q, x)[i] = q[i]
      /\ Append(q, x)[Len(q) + 1] = x
      /\ DOMAIN Append(q, x) = 1 .. (Len(q) + 1)
      /\ DOMAIN q = 1 .. Len(q) /\ Len(q) \in Nat
  OBVIOUS
<1>2. 1 .. (Len(q) + 1) = (1 .. Len(q)) \cup {Len(q) + 1}
  BY <1>1
<1>3. Unread(Append(q, x)) = IF x = Reconnect THEN Unread(q)
                             ELSE Unread(q) \cup {Len(q) + 1}
  BY <1>1, <1>2 DEF Unread
<1>4. Len(q) + 1 \notin Unread(q)
  BY <1>1 DEF Unread
<1>5. Cardinality(Unread(q) \cup {Len(q) + 1}) = Cardinality(Unread(q)) + 1
  BY <1>4, UnreadFinite, FS_AddElement
<1>. QED BY <1>3, <1>5

LEMMA UnreadTail ==
    ASSUME NEW S, NEW q \in Seq(S), q # <<>>
    PROVE  Cardinality(Unread(Tail(q))) =
             IF Head(q) = Reconnect THEN Cardinality(Unread(q))
             ELSE Cardinality(Unread(q)) - 1
<1>1. /\ Len(q) \in Nat \ {0} /\ Head(q) = q[1]
      /\ \A i \in 1 .. Len(q) - 1 : Tail(q)[i] = q[i + 1]
      /\ DOMAIN q = 1 .. Len(q) /\ DOMAIN Tail(q) = 1 .. (Len(q) - 1)
      /\ Tail(q) \in Seq(S)
  OBVIOUS
<1> DEFINE f == [i \in Unread(Tail(q)) |-> i + 1]
<1>2. f \in [Unread(Tail(q)) -> Unread(q) \ {1}]
  BY <1>1 DEF Unread
<1>3. \A i, j \in Unread(Tail(q)) : f[i] = f[j] => i = j
  BY <1>1 DEF Unread
<1>4. \A j \in Unread(q) \ {1} : \E i \in Unread(Tail(q)) : f[i] = j
  <2> SUFFICES ASSUME NEW j \in Unread(q) \ {1}
               PROVE  j - 1 \in Unread(Tail(q)) /\ f[j - 1] = j
    OBVIOUS
  <2>1. j \in 2 .. Len(q) /\ q[j] # Reconnect
    BY <1>1 DEF Unread
  <2>2. j - 1 \in Unread(Tail(q))
    BY <2>1, <1>1 DEF Unread
  <2>. QED BY <2>1, <2>2
<1> HIDE DEF f
<1>5. ExistsBijection(Unread(Tail(q)), Unread(q) \ {1})
  BY <1>2, <1>3, <1>4, Fun_IsBij DEF ExistsBijection
<1>6. Cardinality(Unread(q) \ {1}) = Cardinality(Unread(Tail(q)))
  BY <1>1, <1>5, UnreadFinite, FS_Bijection
<1>7. 1 \in Unread(q) <=> Head(q) # Reconnect
  BY <1>1 DEF Unread
<1>. QED BY <1>6, <1>7, UnreadFinite, FS_RemoveElement
-----------------------------------------------------------------------------
(* Acks: on an open handoff socket there is one on its way for each listener  *)
(* that waits.                                                                *)

AckInvAt(c) ==
    /\ IsFiniteSet(Awaiting(c))
    /\ c \in sock => Cardinality(Awaiting(c)) <=
                        ack[c] + Cardinality(Unread(hq[c]))

AckInv == \A c \in Conns : AckInvAt(c)

LEMMA MessageCounted ==
    ASSUME TypeOK, NEW c \in Conns, NEW x \in Clients \cup {Reconnect}
    PROVE  /\ Cardinality(Unread(hq[c])) \in Nat
           /\ Cardinality(Unread(Append(hq[c], x))) =
                IF x = Reconnect THEN Cardinality(Unread(hq[c]))
                ELSE Cardinality(Unread(hq[c])) + 1
<1> DEFINE S == Clients \cup {Reconnect}
<1>1. hq[c] \in Seq(S) /\ x \in S
  BY DEF TypeOK
<1> HIDE DEF S
<1>. QED BY <1>1, UnreadFinite, UnreadAppend

LEMMA MessageUncounted ==
    ASSUME TypeOK, NEW c \in Conns, hq[c] # <<>>
    PROVE  /\ Cardinality(Unread(hq[c])) \in Nat
           /\ Cardinality(Unread(Tail(hq[c]))) =
                IF Head(hq[c]) = Reconnect THEN Cardinality(Unread(hq[c]))
                ELSE Cardinality(Unread(hq[c])) - 1
<1> DEFINE S == Clients \cup {Reconnect}
<1>1. hq[c] \in Seq(S)
  BY DEF TypeOK
<1> HIDE DEF S
<1>. QED BY <1>1, UnreadFinite, UnreadTail

\* A step that makes nobody wait on c, does not open its socket and takes no ack
\* or message from it.
LEMMA AckKeptAt ==
    ASSUME TypeOK, NEW c \in Conns, AckInvAt(c),
           \A k \in Clients : lpc'[k] = "ack" /\ got'[k] = c
                                => lpc[k] = "ack" /\ got[k] = c,
           c \in sock' => c \in sock /\ ack'[c] = ack[c] /\ hq'[c] = hq[c]
    PROVE  AckInvAt(c)'
<1>1. Awaiting(c)' \in SUBSET Awaiting(c)
  BY DEF Awaiting
<1>2. IsFiniteSet(Awaiting(c))
  BY DEF AckInvAt
<1>3. /\ IsFiniteSet(Awaiting(c)')
      /\ Cardinality(Awaiting(c)') <= Cardinality(Awaiting(c))
  BY <1>1, <1>2, FS_Subset
<1>4. Cardinality(Awaiting(c)) \in Nat /\ Cardinality(Awaiting(c)') \in Nat
  BY <1>2, <1>3, FS_CardinalityType
<1>5. Cardinality(Unread(hq[c])) \in Nat /\ ack[c] \in Nat
  BY MessageCounted DEF TypeOK
<1>6. c \in sock => Cardinality(Awaiting(c)) <=
                     ack[c] + Cardinality(Unread(hq[c]))
  BY DEF AckInvAt
<1>. QED BY <1>3, <1>4, <1>5, <1>6 DEF AckInvAt

LEMMA AckKept ==
    ASSUME TypeOK, AckInv,
           \A k \in Clients : lpc'[k] = "ack"
                                => lpc[k] = "ack" /\ got'[k] = got[k],
           \A c \in sock' : c \in sock /\ ack'[c] = ack[c] /\ hq'[c] = hq[c]
    PROVE  AckInv'
<1> SUFFICES ASSUME NEW c \in Conns PROVE AckInvAt(c)'
  BY DEF AckInv
<1>1. AckInvAt(c)
  BY DEF AckInv
<1>. QED BY <1>1, AckKeptAt

LEMMA AckKeptElsewhere ==
    ASSUME TypeOK, AckInv, NEW c \in Conns, AckInvAt(c)',
           \A k \in Clients : lpc'[k] = "ack" /\ got'[k] # c
                                => lpc[k] = "ack" /\ got'[k] = got[k],
           \A d \in sock' : d # c
                => d \in sock /\ ack'[d] = ack[d] /\ hq'[d] = hq[d]
    PROVE  AckInv'
<1> SUFFICES ASSUME NEW d \in Conns PROVE AckInvAt(d)'
  BY DEF AckInv
<1>1. AckInvAt(d)
  BY DEF AckInv
<1>2. CASE d = c
  BY <1>2
<1>3. CASE d # c
  BY <1>1, <1>3, AckKeptAt
<1>. QED BY <1>2, <1>3

LEMMA AckInvariant == Spec => []AckInv
<1> USE HandoffAssumption
<1>1. Init => AckInv
  <2> SUFFICES ASSUME Init, NEW c \in Conns
               PROVE IsFiniteSet(Awaiting(c)) /\ c \notin sock
    BY DEF AckInv, AckInvAt
  <2>1. Awaiting(c) = {} /\ sock = {}
    BY DEF Init, Awaiting
  <2>. QED BY <2>1, FS_EmptySet
<1>2. AckInv /\ SockInv /\ TypeInv /\ [Next]_vars => AckInv'
  <2> SUFFICES ASSUME AckInv, SockInv, TypeOK, NeverPidZero, [Next]_vars
               PROVE  AckInv'
    BY DEF TypeInv
  <2> USE DEF TypeOK, NeverPidZero, Promised, GotoC, GotoL, FinishL, vars,
      semvars,
      connvars, sockvars, lsnrvars, mainvars, dbvars
  <2>1. ASSUME NEW c \in Conns, Register(c) PROVE AckInv'
    <3>1. /\ cpc[c] = "register" /\ sock' = sock \cup {c}
          /\ UNCHANGED <<lpc, got, ack, hq>>
      BY <2>1 DEF Register
    <3>2. Awaiting(c)' = {}
      BY <3>1 DEF Awaiting, SockInv
    <3>3. Cardinality(Unread(hq[c])) \in Nat
      BY MessageCounted
    <3>4. IsFiniteSet(Awaiting(c)') /\ Cardinality(Awaiting(c)') = 0
      BY <3>2, FS_EmptySet
    <3>5. AckInvAt(c)'
      BY <3>1, <3>3, <3>4 DEF AckInvAt
    <3>. QED BY <3>1, <3>5, AckKeptElsewhere
  <2>2. ASSUME NEW c \in Conns, CheckDatabase(c) PROVE AckInv'
    BY <2>2, AckKept DEF CheckDatabase, Ready
  <2>3. ASSUME NEW c \in Conns, MarkUnavailable(c) PROVE AckInv'
    BY <2>3, AckKept DEF MarkUnavailable
  <2>4. ASSUME NEW c \in Conns, LoggedInAgain(c) PROVE AckInv'
    BY <2>4, AckKept DEF LoggedInAgain, Ready
  <2>5. ASSUME NEW c \in Conns, AcquireAnnounce(c) PROVE AckInv'
    BY <2>5, AckKept DEF AcquireAnnounce
  <2>6. ASSUME NEW c \in Conns, AnnounceTimeout(c) PROVE AckInv'
    BY <2>6, AckKept DEF AnnounceTimeout
  <2>7. ASSUME NEW c \in Conns, ResetSemaphores(c) PROVE AckInv'
    BY <2>7, AckKept DEF ResetSemaphores
  <2>8. ASSUME NEW c \in Conns, WritePid(c) PROVE AckInv'
    BY <2>8, AckKept DEF WritePid
  <2>9. ASSUME NEW c \in Conns, SignalListener(c) PROVE AckInv'
    BY <2>9, AckKept DEF SignalListener
  <2>10. ASSUME NEW c \in Conns, ListenerRead(c) PROVE AckInv'
    BY <2>10, AckKept DEF ListenerRead
  <2>11. ASSUME NEW c \in Conns, ListenerReadTimeout(c) PROVE AckInv'
    BY <2>11, AckKept DEF ListenerReadTimeout
  <2>12. ASSUME NEW c \in Conns, ReleaseAnnounce(c) PROVE AckInv'
    BY <2>12, AckKept DEF ReleaseAnnounce
  <2>13. ASSUME NEW c \in Conns, CloseHandoffSocket(c) PROVE AckInv'
    BY <2>13, AckKept DEF CloseHandoffSocket
  <2>14. ASSUME NEW c \in Conns, PickUpClient(c) PROVE AckInv'
    <3>1. /\ hq[c] # <<>> /\ Head(hq[c]) # Reconnect
          /\ hq' = [hq EXCEPT ![c] = Tail(hq[c])]
          /\ ack' = [ack EXCEPT ![c] = ack[c] + 1]
          /\ UNCHANGED <<sock, lpc, got>>
      BY <2>14 DEF PickUpClient
    <3>2. /\ Cardinality(Unread(hq[c])) \in Nat
          /\ Cardinality(Unread(Tail(hq[c]))) = Cardinality(Unread(hq[c])) - 1
      BY <3>1, MessageUncounted
    <3>3. Awaiting(c)' = Awaiting(c)
      BY <3>1 DEF Awaiting
    <3>4. ack[c] + Cardinality(Unread(hq[c]))
            = ack'[c] + Cardinality(Unread(hq'[c]))
      BY <3>1, <3>2
    <3>5. AckInvAt(c)'
      BY <3>1, <3>3, <3>4 DEF AckInv, AckInvAt
    <3>. QED BY <3>1, <3>5, AckKeptElsewhere
  <2>15. ASSUME NEW c \in Conns, PickUpReconnect(c) PROVE AckInv'
    <3>1. /\ hq[c] # <<>> /\ Head(hq[c]) = Reconnect
          /\ hq' = [hq EXCEPT ![c] = Tail(hq[c])]
          /\ UNCHANGED <<sock, lpc, got, ack>>
      BY <2>15 DEF PickUpReconnect
    <3>2. Cardinality(Unread(hq'[c])) = Cardinality(Unread(hq[c]))
      BY <3>1, MessageUncounted
    <3>3. Awaiting(c)' = Awaiting(c)
      BY <3>1 DEF Awaiting
    <3>4. AckInvAt(c)'
      BY <3>1, <3>2, <3>3 DEF AckInv, AckInvAt
    <3>. QED BY <3>1, <3>4, AckKeptElsewhere
  <2>16. ASSUME NEW c \in Conns, WaitForClientTimeout(c) PROVE AckInv'
    BY <2>16, AckKept DEF WaitForClientTimeout
  <2>17. ASSUME NEW c \in Conns, EndSession(c) PROVE AckInv'
    BY <2>17, AckKept DEF EndSession
  <2>18. ASSUME NEW c \in Conns, Exit(c) PROVE AckInv'
    BY <2>18, AckKept DEF Exit
  <2>19. ASSUME NEW c \in Conns, Ping(c) PROVE AckInv'
    <3>1. /\ hq' = hq \/ hq' = [hq EXCEPT ![c] = Append(hq[c], Reconnect)]
          /\ UNCHANGED <<sock, lpc, got, ack>>
      BY <2>19 DEF Ping
    <3>2. Cardinality(Unread(Append(hq[c], Reconnect)))
            = Cardinality(Unread(hq[c]))
      BY MessageCounted
    <3>3. Cardinality(Unread(hq'[c])) = Cardinality(Unread(hq[c]))
      BY <3>1, <3>2
    <3>4. Awaiting(c)' = Awaiting(c)
      BY <3>1 DEF Awaiting
    <3>5. AckInvAt(c)'
      BY <3>1, <3>3, <3>4 DEF AckInv, AckInvAt
    <3>. QED BY <3>1, <3>5, AckKeptElsewhere
  <2>20. ASSUME NEW c \in Conns, DatabaseDies(c) PROVE AckInv'
    BY <2>20, AckKept DEF DatabaseDies
  <2>21. ASSUME NEW c \in Conns, CrashConnection(c) PROVE AckInv'
    BY <2>21, AckKept DEF CrashConnection
  <2>22. ASSUME NEW c \in Conns, RegisterHandoff(c) PROVE AckInv'
    BY <2>22, AckKept DEF RegisterHandoff
  <2>23. ASSUME NEW c \in Conns, DeRegisterHandoff(c) PROVE AckInv'
    BY <2>23, AckKept DEF DeRegisterHandoff
  <2>24. ASSUME NEW k \in Clients, AcquireShm(k) PROVE AckInv'
    BY <2>24, AckKept DEF AcquireShm
  <2>25. ASSUME NEW k \in Clients, AcquireShmTimeout(k) PROVE AckInv'
    BY <2>25, AckKept DEF AcquireShmTimeout
  <2>26. ASSUME NEW k \in Clients, AcceptConnection(k) PROVE AckInv'
    BY <2>26, AckKept DEF AcceptConnection
  <2>27. ASSUME NEW k \in Clients, AcceptConnectionFails(k) PROVE AckInv'
    BY <2>27, AckKept DEF AcceptConnectionFails
  <2>28. ASSUME NEW k \in Clients, ReadPid(k) PROVE AckInv'
    BY <2>28, AckKept DEF ReadPid
  <2>29. ASSUME NEW k \in Clients, DoneAccepting(k) PROVE AckInv'
    BY <2>29, AckKept DEF DoneAccepting
  <2>30. ASSUME NEW k \in Clients, ReleaseShm(k) PROVE AckInv'
    BY <2>30, AckKept DEF ReleaseShm
  <2>31. ASSUME NEW k \in Clients, CheckUp(k) PROVE AckInv'
    BY <2>31, AckKept DEF CheckUp
  <2>32. ASSUME NEW k \in Clients, FindSocket(k) PROVE AckInv'
    BY <2>32, AckKept DEF FindSocket
  <2>33. ASSUME NEW k \in Clients, PassClient(k) PROVE AckInv'
    <3>1. CASE got[k] \notin sock
      BY <2>33, <3>1, AckKept DEF PassClient
    <3>2. CASE got[k] \in sock
      <4>0. PICK c \in Conns : c = got[k]
        BY <2>33 DEF PassClient
      <4>1. /\ c = got[k] /\ lpc[k] = "send"
            /\ lpc' = [lpc EXCEPT ![k] = "ack"]
            /\ hq' = [hq EXCEPT ![c] = Append(hq[c], k)]
            /\ UNCHANGED <<sock, got, ack>>
        BY <2>33, <3>2, <4>0 DEF PassClient
      <4>2. got'[k] = c
        BY <4>1
      <4>3. /\ Awaiting(c)' = Awaiting(c) \cup {k}
            /\ k \notin Awaiting(c)
        BY <4>1, <4>2 DEF Awaiting
      <4>4. AckInvAt(c)
        BY <4>1 DEF AckInv
      <4>5. IsFiniteSet(Awaiting(c)')
        BY <4>3, <4>4, FS_AddElement DEF AckInvAt
      <4>6. /\ Cardinality(Awaiting(c)') = Cardinality(Awaiting(c)) + 1
            /\ Cardinality(Awaiting(c)) \in Nat
        <5>1. IsFiniteSet(Awaiting(c))
          BY <4>4 DEF AckInvAt
        <5>2. Cardinality(Awaiting(c) \cup {k}) = Cardinality(Awaiting(c)) + 1
          BY <4>3, <5>1, FS_AddElement
        <5>3. Cardinality(Awaiting(c)) \in Nat
          BY <5>1, FS_CardinalityType
        <5>. QED BY <4>3, <5>2, <5>3
      <4>7. /\ Cardinality(Unread(hq'[c])) = Cardinality(Unread(hq[c])) + 1
            /\ Cardinality(Unread(hq[c])) \in Nat
        <5>1. k # Reconnect
          OBVIOUS
        <5>. QED BY <4>1, <5>1, MessageCounted
      <4>8. AckInvAt(c)'
        BY <4>1, <4>4, <4>5, <4>6, <4>7 DEF AckInvAt
      <4>. QED BY <4>1, <4>2, <4>8, AckKeptElsewhere
    <3>. QED BY <3>1, <3>2
  <2>34. ASSUME NEW k \in Clients, ReadAck(k) PROVE AckInv'
    <3>0. PICK c \in Conns : c = got[k]
      BY <2>34 DEF ReadAck
    <3>1. /\ lpc[k] = "ack" /\ ack[c] > 0
          /\ lpc' = [lpc EXCEPT ![k] = "done"]
          /\ ack' = [ack EXCEPT ![c] = ack[c] - 1]
          /\ UNCHANGED <<sock, got, hq>>
      BY <2>34, <3>0 DEF ReadAck
    <3>2. got[k] = c
      BY <3>0
    <3>3. /\ Awaiting(c)' = Awaiting(c) \ {k}
          /\ k \in Awaiting(c)
      BY <3>1, <3>2 DEF Awaiting
    <3>4. AckInvAt(c)
      BY <3>1 DEF AckInv
    <3>5. /\ IsFiniteSet(Awaiting(c)')
          /\ Cardinality(Awaiting(c)') = Cardinality(Awaiting(c)) - 1
          /\ Cardinality(Awaiting(c)) \in Nat
      BY <3>3, <3>4, FS_RemoveElement, FS_CardinalityType DEF AckInvAt
    <3>6. Cardinality(Unread(hq[c])) \in Nat
      BY <3>1, MessageCounted
    <3>7. AckInvAt(c)'
      BY <3>1, <3>4, <3>5, <3>6 DEF AckInvAt
    <3>. QED BY <3>1, <3>2, <3>7, AckKeptElsewhere
  <2>35. ASSUME NEW k \in Clients, ReadAckFails(k) PROVE AckInv'
    BY <2>35, AckKept DEF ReadAckFails
  <2>36. ASSUME NEW k \in Clients, AcceptClient(k) PROVE AckInv'
    BY <2>36, AckKept DEF AcceptClient
  <2>37. ASSUME NEW k \in Clients, CrashListener(k) PROVE AckInv'
    BY <2>37, AckKept DEF CrashListener
  <2>38. ASSUME NEW k \in Clients, Fixup(k) PROVE AckInv'
    BY <2>38, AckKept DEF Fixup
  <2>39. CASE UNCHANGED vars
    BY <2>39, AckKept
  <2>. QED
    BY <2>1, <2>2, <2>3, <2>4, <2>5, <2>6, <2>7, <2>8, <2>9, <2>10, <2>11,
       <2>12, <2>13, <2>14, <2>15, <2>16, <2>17, <2>18, <2>19, <2>20,
       <2>21, <2>22, <2>23, <2>24, <2>25, <2>26, <2>27, <2>28, <2>29,
       <2>30, <2>31, <2>32, <2>33, <2>34, <2>35, <2>36, <2>37, <2>38,
       <2>39 DEF Next,
       ConnStep, LsnrStep, MainStep
<1>. QED BY <1>1, <1>2, SockInvariant, TypeInvariant, PTL DEF Spec
\* Whoever dies, times out or takes another's ack, on an open handoff socket
\* there are as many unread acks and unread clients as listeners waiting, so
\* that none waits for an ack that cannot come (waitForClient acks each client
\* it reads, handOffOrProxyClient reads one ack for each it wrote).
THEOREM NobodyWaitsInVain == Spec => []NobodyWaitsForNothing
<1>1. AckInv /\ TypeOK => NobodyWaitsForNothing
  <2> SUFFICES ASSUME AckInv, TypeOK, NEW c \in sock
               PROVE  Cardinality(Awaiting(c)) <=
                        ack[c] + Cardinality(Unread(hq[c]))
    BY DEF NobodyWaitsForNothing, Unread
  <2>1. c \in Conns
    BY DEF TypeOK
  <2>. QED BY <2>1 DEF AckInv, AckInvAt
<1>. QED BY <1>1, AckInvariant, TypeCorrect, PTL
-----------------------------------------------------------------------------
(***************************************************************************)
(* The refinement of ClientPool, under the conditions of the interlock.    *)
(* Two more invariants: a connection that has been promised has been told  *)
(* so on semaphore 3, hence reads its socket next; and a client is in one  *)
(* place, and never goes back.                                             *)
(***************************************************************************)

ToldInv ==
    \A c \in Conns : cpc[c] = "wait3" /\ sem3 = 0 =>
        /\ c \notin pings /\ hq[c] = <<>>
        /\ \A k \in Clients : lpc[k] \in Promised \ {"signal3"} => got[k] # c

LEMMA ToldInvariant == ASSUME Orderly PROVE Spec => []ToldInv
<1> USE HandoffAssumption DEF Orderly
<1>1. Init => ToldInv
  BY DEF Init, ToldInv
<1>2. ToldInv /\ OrderlyInv /\ MutexInv /\ TypeInv /\ [Next]_vars => ToldInv'
  <2> SUFFICES ASSUME ToldInv, OrderlyInv, MutexInv, TypeInv, [Next]_vars
               PROVE  ToldInv'
    OBVIOUS
  <2> USE DEF TypeInv, TypeOK, NeverPidZero, MutexInv, MutualExclusion,
      Announcing, OrderlyInv, Fresh, Holds, Promised, ToldInv, GotoC, GotoL,
      FinishL, vars, semvars, connvars, sockvars, lsnrvars, mainvars, dbvars
  <2>1. ASSUME NEW c \in Conns, Register(c) PROVE ToldInv'
    BY <2>1 DEF Register
  <2>2. ASSUME NEW c \in Conns, CheckDatabase(c) PROVE ToldInv'
    BY <2>2 DEF CheckDatabase, Ready
  <2>3. ASSUME NEW c \in Conns, MarkUnavailable(c) PROVE ToldInv'
    BY <2>3 DEF MarkUnavailable
  <2>4. ASSUME NEW c \in Conns, LoggedInAgain(c) PROVE ToldInv'
    BY <2>4 DEF LoggedInAgain, Ready
  <2>5. ASSUME NEW c \in Conns, AcquireAnnounce(c) PROVE ToldInv'
    BY <2>5 DEF AcquireAnnounce
  <2>6. ASSUME NEW c \in Conns, AnnounceTimeout(c) PROVE ToldInv'
    BY <2>6 DEF AnnounceTimeout
  <2>7. ASSUME NEW c \in Conns, ResetSemaphores(c) PROVE ToldInv'
    BY <2>7 DEF ResetSemaphores
  <2>8. ASSUME NEW c \in Conns, WritePid(c) PROVE ToldInv'
    BY <2>8 DEF WritePid
  <2>9. ASSUME NEW c \in Conns, SignalListener(c) PROVE ToldInv'
    BY <2>9 DEF SignalListener
  <2>10. ASSUME NEW c \in Conns, ListenerRead(c) PROVE ToldInv'
    BY <2>10 DEF ListenerRead
  <2>11. ASSUME NEW c \in Conns, ListenerReadTimeout(c) PROVE ToldInv'
    BY <2>11 DEF ListenerReadTimeout
  <2>12. ASSUME NEW c \in Conns, ReleaseAnnounce(c) PROVE ToldInv'
    BY <2>12 DEF ReleaseAnnounce
  <2>13. ASSUME NEW c \in Conns, CloseHandoffSocket(c) PROVE ToldInv'
    BY <2>13 DEF CloseHandoffSocket
  <2>14. ASSUME NEW c \in Conns, PickUpClient(c) PROVE ToldInv'
    BY <2>14 DEF PickUpClient
  <2>15. ASSUME NEW c \in Conns, PickUpReconnect(c) PROVE ToldInv'
    BY <2>15 DEF PickUpReconnect
  <2>16. ASSUME NEW c \in Conns, WaitForClientTimeout(c) PROVE ToldInv'
    BY <2>16 DEF WaitForClientTimeout
  <2>17. ASSUME NEW c \in Conns, EndSession(c) PROVE ToldInv'
    BY <2>17 DEF EndSession
  <2>18. ASSUME NEW c \in Conns, Exit(c) PROVE ToldInv'
    BY <2>18 DEF Exit
  <2>19. ASSUME NEW c \in Conns, Ping(c) PROVE ToldInv'
    BY <2>19 DEF Ping
  <2>20. ASSUME NEW c \in Conns, DatabaseDies(c) PROVE ToldInv'
    BY <2>20 DEF DatabaseDies
  <2>21. ASSUME NEW c \in Conns, CrashConnection(c) PROVE ToldInv'
    BY <2>21 DEF CrashConnection
  <2>22. ASSUME NEW c \in Conns, RegisterHandoff(c) PROVE ToldInv'
    BY <2>22 DEF RegisterHandoff
  <2>23. ASSUME NEW c \in Conns, DeRegisterHandoff(c) PROVE ToldInv'
    BY <2>23 DEF DeRegisterHandoff
  <2>24. ASSUME NEW k \in Clients, AcquireShm(k) PROVE ToldInv'
    BY <2>24 DEF AcquireShm
  <2>25. ASSUME NEW k \in Clients, AcquireShmTimeout(k) PROVE ToldInv'
    BY <2>25 DEF AcquireShmTimeout
  <2>26. ASSUME NEW k \in Clients, AcceptConnection(k) PROVE ToldInv'
    BY <2>26 DEF AcceptConnection
  <2>27. ASSUME NEW k \in Clients, AcceptConnectionFails(k) PROVE ToldInv'
    BY <2>27 DEF AcceptConnectionFails
  <2>28. ASSUME NEW k \in Clients, ReadPid(k) PROVE ToldInv'
    BY <2>28 DEF ReadPid
  <2>29. ASSUME NEW k \in Clients, DoneAccepting(k) PROVE ToldInv'
    BY <2>29 DEF DoneAccepting
  <2>30. ASSUME NEW k \in Clients, ReleaseShm(k) PROVE ToldInv'
    <3>1. \A m \in Clients : (lpc'[m] \in Promised \ {"signal3"})
                               => lpc[m] \in Promised \ {"signal3"}
      BY <2>30 DEF ReleaseShm
    <3>2. UNCHANGED <<cpc, sem3, pings, hq, got>>
      BY <2>30 DEF ReleaseShm
    <3>. QED BY <3>1, <3>2
  <2>31. ASSUME NEW k \in Clients, CheckUp(k) PROVE ToldInv'
    <3>1. \A m \in Clients : (lpc'[m] \in Promised \ {"signal3"})
                               => lpc[m] \in Promised \ {"signal3"}
      BY <2>31 DEF CheckUp
    <3>2. pings' = pings \/ pings' = pings \cup {got[k]}
      BY <2>31 DEF CheckUp
    <3>3. lpc[k] = "check" /\ UNCHANGED <<cpc, sem3, hq, got>>
      BY <2>31 DEF CheckUp
    <3>. QED BY <3>1, <3>2, <3>3
  <2>32. ASSUME NEW k \in Clients, FindSocket(k) PROVE ToldInv'
    BY <2>32 DEF FindSocket
  <2>33. ASSUME NEW k \in Clients, PassClient(k) PROVE ToldInv'
    <3>1. \A m \in Clients : (lpc'[m] \in Promised \ {"signal3"})
                               => lpc[m] \in Promised \ {"signal3"}
      BY <2>33 DEF PassClient
    <3>2. \A c \in Conns : c # got[k] => hq'[c] = hq[c]
      BY <2>33 DEF PassClient
    <3>3. lpc[k] = "send" /\ UNCHANGED <<cpc, sem3, pings, got>>
      BY <2>33 DEF PassClient
    <3>. QED BY <3>1, <3>2, <3>3
  <2>34. ASSUME NEW k \in Clients, ReadAck(k) PROVE ToldInv'
    BY <2>34 DEF ReadAck
  <2>35. ASSUME NEW k \in Clients, ReadAckFails(k) PROVE ToldInv'
    BY <2>35 DEF ReadAckFails
  <2>36. ASSUME NEW k \in Clients, AcceptClient(k) PROVE ToldInv'
    BY <2>36 DEF AcceptClient
  <2>37. ASSUME NEW k \in Clients, CrashListener(k) PROVE ToldInv'
    BY <2>37 DEF CrashListener
  <2>38. ASSUME NEW k \in Clients, Fixup(k) PROVE ToldInv'
    BY <2>38 DEF Fixup
  <2>39. CASE UNCHANGED vars
    BY <2>39
  <2>. QED
    BY <2>1, <2>2, <2>3, <2>4, <2>5, <2>6, <2>7, <2>8, <2>9, <2>10, <2>11,
       <2>12, <2>13, <2>14, <2>15, <2>16, <2>17, <2>18, <2>19, <2>20,
       <2>21, <2>22, <2>23, <2>24, <2>25, <2>26, <2>27, <2>28, <2>29,
       <2>30, <2>31, <2>32, <2>33, <2>34, <2>35, <2>36, <2>37, <2>38,
       <2>39 DEF Next,
       ConnStep, LsnrStep, MainStep
<1>. QED BY <1>1, <1>2, OrderlyInvariant, MutexInvariant, TypeInvariant,
     PTL DEF Spec
\* The ack of a handoff comes: a listener never gives up on one.
LEMMA AckComes ==
    ASSUME Orderly, TypeInv, OrderlyInv, SockInv, AckInv, ToldInv,
           NEW k \in Clients, ReadAckFails(k)
    PROVE  FALSE
<1> USE DEF TypeInv, TypeOK, NeverPidZero
<1>0. PICK c \in Conns : c = got[k]
  BY DEF ReadAckFails
<1>1. lpc[k] = "ack" /\ ack[c] = 0 /\ ~AboutToRead(c)
  BY <1>0 DEF ReadAckFails, Orderly
<1>2. c \in sock
  BY <1>0, <1>1 DEF SockInv, OrderlyInv
<1>3. IsFiniteSet(Awaiting(c)) /\ k \in Awaiting(c)
  BY <1>0, <1>1 DEF AckInv, AckInvAt, Awaiting
<1>4. Cardinality(Awaiting(c)) # 0 /\ Cardinality(Awaiting(c)) \in Nat
  BY <1>3, FS_EmptySet, FS_CardinalityType
<1>5. Cardinality(Unread(hq[c])) # 0
  <2>1. Cardinality(Awaiting(c)) <= ack[c] + Cardinality(Unread(hq[c]))
    BY <1>2 DEF AckInv, AckInvAt
  <2>2. Cardinality(Unread(hq[c])) \in Nat
    BY MessageCounted
  <2>. QED BY <2>1, <2>2, <1>1, <1>4
<1>6. hq[c] # <<>>
  <2>1. hq[c] = <<>> => Unread(hq[c]) = {}
    BY DEF Unread
  <2>. QED BY <1>5, <2>1, FS_EmptySet
<1>7. cpc[c] = "wait3" /\ sem3 = 0
  BY <1>1, <1>6 DEF AboutToRead, OrderlyInv, Fresh
<1>. QED BY <1>6, <1>7 DEF ToldInv

\* Where a client can be: taken by a connection only once, and from then on, as
\* from the moment it is in a handoff socket, its listener does not start again.
HandedOver == {"ack", "done", "dead"}

PlaceInv ==
    /\ \A k \in Clients : /\ served[k] > 0 => lpc[k] \in HandedOver
                          /\ served[k] <= 1
    /\ \A k \in Clients, c \in Conns : k \in Queued(hq[c]) =>
            /\ lpc[k] \in HandedOver /\ served[k] = 0
            /\ \A d \in Conns : k \in Queued(hq[d]) => d = c
    /\ \A k \in Clients, c \in Conns : serving[c] = k =>
            /\ served[k] > 0
            /\ \A d \in Conns : serving[d] = k => d = c

LEMMA OneMessage ==
    ASSUME NEW S, NEW q \in Seq(S), Len(q) <= 1, q # <<>>
    PROVE  Tail(q) = <<>>
<1>1. Len(q) \in Nat /\ Len(q) # 0
  OBVIOUS
<1>2. Tail(q) \in Seq(S) /\ Len(Tail(q)) = 0
  BY <1>1
<1>. QED BY <1>2

LEMMA MessageTaken ==
    ASSUME TypeOK, NEW c \in Conns, Len(hq[c]) <= 1, hq[c] # <<>>
    PROVE  /\ Tail(hq[c]) = <<>>
           /\ Queued(hq[c]) = {Head(hq[c])}
           /\ Queued(Tail(hq[c])) = {}
           /\ Head(hq[c]) \in Clients \cup {Reconnect}
<1> DEFINE S == Clients \cup {Reconnect}
<1>1. hq[c] \in Seq(S)
  BY DEF TypeOK
<1> HIDE DEF S
<1>2. Tail(hq[c]) = <<>>
  BY <1>1, OneMessage
<1>3. /\ Queued(hq[c]) = Queued(Tail(hq[c])) \cup {Head(hq[c])}
      /\ Head(hq[c]) \in S
  BY <1>1, QueuedTail
<1>. QED BY <1>2, <1>3, QueuedEmpty DEF S

\* A step in which nobody is put into a socket or picked up.
LEMMA PlaceKept ==
    ASSUME PlaceInv,
           \A k \in Clients : lpc[k] \in HandedOver => lpc'[k] \in HandedOver,
           \A k \in Clients, c \in Conns :
                k \in Queued(hq'[c]) => k \in Queued(hq[c]),
           \A k \in Clients, c \in Conns : serving'[c] = k => serving[c] = k,
           served' = served
    PROVE  PlaceInv'
  BY DEF PlaceInv

LEMMA PlaceInvariant == ASSUME Orderly PROVE Spec => []PlaceInv
<1> USE HandoffAssumption DEF Orderly
<1>1. Init => PlaceInv
  BY QueuedEmpty DEF Init, PlaceInv
<1>2. /\ PlaceInv /\ ToldInv /\ AckInv /\ SockInv /\ OrderlyInv /\ TypeInv
      /\ [Next]_vars
      => PlaceInv'
  <2> SUFFICES ASSUME PlaceInv, ToldInv, AckInv, SockInv, OrderlyInv, TypeInv,
                      [Next]_vars
               PROVE  PlaceInv'
    OBVIOUS
  <2>0. TypeOK
    BY DEF TypeInv
  <2> USE DEF TypeOK, HandedOver, GotoC, GotoL, FinishL, vars, semvars,
      connvars, sockvars,
      lsnrvars, mainvars, dbvars
  <2>1. ASSUME NEW c \in Conns, Register(c) PROVE PlaceInv'
    BY <2>0, PlaceKept, <2>1 DEF Register
  <2>2. ASSUME NEW c \in Conns, CheckDatabase(c) PROVE PlaceInv'
    BY <2>0, PlaceKept, <2>2 DEF CheckDatabase, Ready
  <2>3. ASSUME NEW c \in Conns, MarkUnavailable(c) PROVE PlaceInv'
    BY <2>0, PlaceKept, <2>3 DEF MarkUnavailable
  <2>4. ASSUME NEW c \in Conns, LoggedInAgain(c) PROVE PlaceInv'
    BY <2>0, PlaceKept, <2>4 DEF LoggedInAgain, Ready
  <2>5. ASSUME NEW c \in Conns, AcquireAnnounce(c) PROVE PlaceInv'
    BY <2>0, PlaceKept, <2>5 DEF AcquireAnnounce
  <2>6. ASSUME NEW c \in Conns, AnnounceTimeout(c) PROVE PlaceInv'
    BY <2>0, PlaceKept, <2>6 DEF AnnounceTimeout
  <2>7. ASSUME NEW c \in Conns, ResetSemaphores(c) PROVE PlaceInv'
    BY <2>0, PlaceKept, <2>7 DEF ResetSemaphores
  <2>8. ASSUME NEW c \in Conns, WritePid(c) PROVE PlaceInv'
    BY <2>0, PlaceKept, <2>8 DEF WritePid
  <2>9. ASSUME NEW c \in Conns, SignalListener(c) PROVE PlaceInv'
    BY <2>0, PlaceKept, <2>9 DEF SignalListener
  <2>10. ASSUME NEW c \in Conns, ListenerRead(c) PROVE PlaceInv'
    BY <2>0, PlaceKept, <2>10 DEF ListenerRead
  <2>11. ASSUME NEW c \in Conns, ListenerReadTimeout(c) PROVE PlaceInv'
    BY <2>0, PlaceKept, <2>11 DEF ListenerReadTimeout
  <2>12. ASSUME NEW c \in Conns, ReleaseAnnounce(c) PROVE PlaceInv'
    BY <2>0, PlaceKept, <2>12 DEF ReleaseAnnounce
  <2>13. ASSUME NEW c \in Conns, CloseHandoffSocket(c) PROVE PlaceInv'
    BY <2>13 DEF CloseHandoffSocket, OrderlyInv
  <2>14. ASSUME NEW c \in Conns, PickUpClient(c) PROVE PlaceInv'
    <3>0. Len(hq[c]) <= 1
      BY DEF OrderlyInv, OneToken
    <3>1. PICK h \in Clients : h = Head(hq[c])
      BY <2>0, <2>14, <3>0, MessageTaken DEF PickUpClient
    <3>2. /\ hq' = [hq EXCEPT ![c] = Tail(hq[c])]
          /\ serving' = [serving EXCEPT ![c] = h]
          /\ served' = [served EXCEPT ![h] = served[h] + 1]
          /\ hq[c] # <<>> /\ UNCHANGED lpc
      BY <2>14, <3>1 DEF PickUpClient
    <3>3. Queued(hq[c]) = {h} /\ Queued(Tail(hq[c])) = {}
      BY <2>0, <3>0, <3>1, <3>2, MessageTaken
    <3>4. \A d \in Conns : Queued(hq'[d]) = IF d = c THEN {} ELSE Queued(hq[d])
      BY <2>0, <3>2, <3>3
    <3>5. /\ lpc[h] \in HandedOver /\ served[h] = 0
          /\ \A d \in Conns : h \in Queued(hq[d]) => d = c
      BY <3>3 DEF PlaceInv
    <3>6. /\ \A d \in Conns : serving[d] # h
          /\ \A d \in Conns : serving'[d] = IF d = c THEN h ELSE serving[d]
          /\ \A k \in Clients : served'[k] = IF k = h THEN 1 ELSE served[k]
      BY <2>0, <3>2, <3>5 DEF PlaceInv
    <3> HIDE DEF TypeOK, HandedOver
    <3>. QED BY <3>2, <3>4, <3>5, <3>6 DEF PlaceInv
  <2>15. ASSUME NEW c \in Conns, PickUpReconnect(c) PROVE PlaceInv'
    <3>1. /\ hq' = [hq EXCEPT ![c] = Tail(hq[c])] /\ hq[c] # <<>>
          /\ UNCHANGED <<lpc, serving, served>>
      BY <2>15 DEF PickUpReconnect
    <3>2. Queued(Tail(hq[c])) = {}
      BY <2>0, <3>1, MessageTaken DEF OrderlyInv, OneToken
    <3>3. \A d \in Conns : hq'[d] = IF d = c THEN Tail(hq[c]) ELSE hq[d]
      BY <2>0, <3>1
    <3>4. \A d \in Conns, k \in Clients :
            k \in Queued(hq'[d]) => k \in Queued(hq[d])
      BY <3>2, <3>3
    <3>. QED BY <3>1, <3>4, PlaceKept
  <2>16. ASSUME NEW c \in Conns, WaitForClientTimeout(c) PROVE PlaceInv'
    BY <2>0, PlaceKept, <2>16 DEF WaitForClientTimeout
  <2>17. ASSUME NEW c \in Conns, EndSession(c) PROVE PlaceInv'
    BY <2>0, PlaceKept, <2>17 DEF EndSession
  <2>18. ASSUME NEW c \in Conns, Exit(c) PROVE PlaceInv'
    BY <2>18 DEF Exit, OrderlyInv
  <2>19. ASSUME NEW c \in Conns, Ping(c) PROVE PlaceInv'
    <3>1. /\ hq' = hq \/ hq' = [hq EXCEPT ![c] = Append(hq[c], Reconnect)]
          /\ UNCHANGED <<lpc, serving, served>>
      BY <2>19 DEF Ping
    <3>2. Queued(Append(hq[c], Reconnect)) = Queued(hq[c]) \cup {Reconnect}
      BY <2>0, MessageAppended
    <3>3. \A d \in Conns : \/ hq'[d] = hq[d]
                           \/ d = c /\ hq'[d] = Append(hq[c], Reconnect)
      BY <2>0, <3>1
    <3>4. \A k \in Clients : k # Reconnect
      OBVIOUS
    <3>5. \A d \in Conns, k \in Clients :
            k \in Queued(hq'[d]) => k \in Queued(hq[d])
      BY <3>2, <3>3, <3>4
    <3>. QED BY <3>1, <3>5, PlaceKept
  <2>20. ASSUME NEW c \in Conns, DatabaseDies(c) PROVE PlaceInv'
    BY <2>0, PlaceKept, <2>20 DEF DatabaseDies
  <2>21. ASSUME NEW c \in Conns, CrashConnection(c) PROVE PlaceInv'
    BY <2>0, PlaceKept, <2>21 DEF CrashConnection
  <2>22. ASSUME NEW c \in Conns, RegisterHandoff(c) PROVE PlaceInv'
    BY <2>0, PlaceKept, <2>22 DEF RegisterHandoff
  <2>23. ASSUME NEW c \in Conns, DeRegisterHandoff(c) PROVE PlaceInv'
    BY <2>0, PlaceKept, <2>23 DEF DeRegisterHandoff
  <2>24. ASSUME NEW k \in Clients, AcquireShm(k) PROVE PlaceInv'
    BY <2>0, PlaceKept, <2>24 DEF AcquireShm
  <2>25. ASSUME NEW k \in Clients, AcquireShmTimeout(k) PROVE PlaceInv'
    BY <2>0, PlaceKept, <2>25 DEF AcquireShmTimeout
  <2>26. ASSUME NEW k \in Clients, AcceptConnection(k) PROVE PlaceInv'
    BY <2>0, PlaceKept, <2>26 DEF AcceptConnection
  <2>27. ASSUME NEW k \in Clients, AcceptConnectionFails(k) PROVE PlaceInv'
    BY <2>0, PlaceKept, <2>27 DEF AcceptConnectionFails
  <2>28. ASSUME NEW k \in Clients, ReadPid(k) PROVE PlaceInv'
    BY <2>0, PlaceKept, <2>28 DEF ReadPid
  <2>29. ASSUME NEW k \in Clients, DoneAccepting(k) PROVE PlaceInv'
    BY <2>0, PlaceKept, <2>29 DEF DoneAccepting
  <2>30. ASSUME NEW k \in Clients, ReleaseShm(k) PROVE PlaceInv'
    <3>1. \A m \in Clients : lpc[m] \in HandedOver => lpc'[m] = lpc[m]
      BY <2>0, <2>30 DEF ReleaseShm
    <3>2. UNCHANGED <<hq, serving, served>>
      BY <2>30 DEF ReleaseShm
    <3>. QED BY <3>1, <3>2, PlaceKept
  <2>31. ASSUME NEW k \in Clients, CheckUp(k) PROVE PlaceInv'
    <3>1. \A m \in Clients : lpc[m] \in HandedOver => lpc'[m] = lpc[m]
      BY <2>0, <2>31 DEF CheckUp
    <3>2. UNCHANGED <<hq, serving, served>>
      BY <2>31 DEF CheckUp
    <3>. QED BY <3>1, <3>2, PlaceKept
  <2>32. ASSUME NEW k \in Clients, FindSocket(k) PROVE PlaceInv'
    BY <2>0, PlaceKept, <2>32 DEF FindSocket
  <2>33. ASSUME NEW k \in Clients, PassClient(k) PROVE PlaceInv'
    <3>1. /\ lpc[k] = "send" /\ got[k] \in Conns
          /\ UNCHANGED <<serving, served>>
      BY <2>33 DEF PassClient, TypeInv, NeverPidZero, Promised
    <3>2. served[k] = 0 /\ \A d \in Conns : k \notin Queued(hq[d])
      <4>1. lpc[k] \notin HandedOver /\ served[k] \in Nat
        BY <2>0, <3>1
      <4> HIDE DEF TypeOK, HandedOver
      <4>. QED BY <4>1 DEF PlaceInv
    <3>3. \A m \in Clients : lpc[m] \in HandedOver => lpc'[m] = lpc[m]
      BY <2>0, <2>33 DEF PassClient
    <3>4. CASE got[k] \in sock
      <4>1. /\ hq' = [hq EXCEPT ![got[k]] = Append(hq[got[k]], k)]
            /\ lpc' = [lpc EXCEPT ![k] = "ack"]
        BY <2>33, <3>4 DEF PassClient
      <4>2. Queued(Append(hq[got[k]], k)) = Queued(hq[got[k]]) \cup {k}
        BY <2>0, <3>1, MessageAppended
      <4>3. \A d \in Conns : Queued(hq'[d]) = IF d = got[k]
                               THEN Queued(hq[d]) \cup {k} ELSE Queued(hq[d])
        BY <2>0, <3>1, <4>1, <4>2
      <4>4. lpc'[k] \in HandedOver
        BY <2>0, <4>1
      <4> HIDE DEF TypeOK, HandedOver
      <4>5. \A m \in Clients : /\ served'[m] > 0 => lpc'[m] \in HandedOver
                               /\ served'[m] <= 1
        BY <3>1, <3>3 DEF PlaceInv
      <4>6. ASSUME NEW m \in Clients, NEW c \in Conns, m \in Queued(hq'[c])
            PROVE  /\ lpc'[m] \in HandedOver /\ served'[m] = 0
                   /\ \A d \in Conns : m \in Queued(hq'[d]) => d = c
        <5>1. CASE m = k
          BY <5>1, <4>6, <3>1, <3>2, <4>3, <4>4
        <5>2. CASE m # k
          <6>1. m \in Queued(hq[c])
            BY <5>2, <4>6, <4>3
          <6>2. /\ lpc[m] \in HandedOver /\ served[m] = 0
                /\ \A d \in Conns : m \in Queued(hq[d]) => d = c
            BY <6>1 DEF PlaceInv
          <6>3. \A d \in Conns : m \in Queued(hq'[d]) => m \in Queued(hq[d])
            BY <5>2, <4>3
          <6>. QED BY <6>2, <6>3, <3>1, <3>3
        <5>. QED BY <5>1, <5>2
      <4>7. \A m \in Clients, c \in Conns : serving'[c] = m =>
               /\ served'[m] > 0
               /\ \A d \in Conns : serving'[d] = m => d = c
        BY <3>1 DEF PlaceInv
      <4>. QED BY <4>5, <4>6, <4>7 DEF PlaceInv
    <3>5. CASE got[k] \notin sock
      BY <2>33, <3>1, <3>3, <3>5, PlaceKept DEF PassClient
    <3>. QED BY <3>4, <3>5
  <2>34. ASSUME NEW k \in Clients, ReadAck(k) PROVE PlaceInv'
    BY <2>0, PlaceKept, <2>34 DEF ReadAck
  <2>35. ASSUME NEW k \in Clients, ReadAckFails(k) PROVE PlaceInv'
    BY <2>35, AckComes
  <2>36. ASSUME NEW k \in Clients, AcceptClient(k) PROVE PlaceInv'
    BY <2>0, PlaceKept, <2>36 DEF AcceptClient
  <2>37. ASSUME NEW k \in Clients, CrashListener(k) PROVE PlaceInv'
    BY <2>0, PlaceKept, <2>37 DEF CrashListener
  <2>38. ASSUME NEW k \in Clients, Fixup(k) PROVE PlaceInv'
    BY <2>0, PlaceKept, <2>38 DEF Fixup
  <2>39. CASE UNCHANGED vars
    BY <2>0, PlaceKept, <2>39
  <2>. QED
    BY <2>1, <2>2, <2>3, <2>4, <2>5, <2>6, <2>7, <2>8, <2>9, <2>10, <2>11,
       <2>12, <2>13, <2>14, <2>15, <2>16, <2>17, <2>18, <2>19, <2>20,
       <2>21, <2>22, <2>23, <2>24, <2>25, <2>26, <2>27, <2>28, <2>29,
       <2>30, <2>31, <2>32, <2>33, <2>34, <2>35, <2>36, <2>37, <2>38,
       <2>39 DEF Next,
       ConnStep, LsnrStep, MainStep
<1>3. Spec => [](ToldInv /\ OrderlyInv)
  BY ToldInvariant, OrderlyInvariant, PTL
<1>. QED BY <1>1, <1>2, <1>3, AckInvariant, SockInvariant, TypeInvariant,
     PTL DEF Spec
-----------------------------------------------------------------------------
(* The refinement mapping, point by point.                                    *)

Claims(c) == PromisedTo(c) \ {Reconnect}

LEMMA ClaimsAre ==
    ASSUME NEW c \in Conns
    PROVE  Claims(c) = HoldersOf(c) \cup (Queued(hq[c]) \ {Reconnect})
<1>1. Reconnect \notin HoldersOf(c)
  BY HandoffAssumption DEF HoldersOf
<1>. QED BY <1>1 DEF Claims, PromisedTo, Queued

LEMMA MapUnchanged ==
    ASSUME \A k \in Clients : ClientState(k)' = ClientState(k),
           \A c \in Conns : Claims(c)' = Claims(c),
           serving' = serving
    PROVE  UNCHANGED Pool!poolvars
  BY DEF Pool!poolvars, Claims

LEMMA MapArrive ==
    ASSUME NEW k \in Clients,
           ClientState(k) = "absent", ClientState(k)' = "waiting",
           \A m \in Clients \ {k} : ClientState(m)' = ClientState(m),
           \A c \in Conns : Claims(c)' = Claims(c),
           serving' = serving
    PROVE  Pool!Arrive(k)
  BY DEF Pool!Arrive, Claims

LEMMA MapRefuse ==
    ASSUME NEW k \in Clients,
           ClientState(k) = "waiting", ClientState(k)' = "refused",
           \A m \in Clients \ {k} : ClientState(m)' = ClientState(m),
           \A c \in Conns : k \notin Claims(c),
           \A c \in Conns : Claims(c)' = Claims(c),
           serving' = serving
    PROVE  Pool!Refuse(k)
  BY DEF Pool!Refuse, Claims

LEMMA MapClaim ==
    ASSUME NEW k \in Clients, NEW c \in Conns,
           ClientState(k) = "waiting",
           \A m \in Clients : ClientState(m)' = ClientState(m),
           \A d \in Conns : k \notin Claims(d),
           Claims(c) = {}, serving[c] = None, Claims(c)' = {k},
           \A d \in Conns \ {c} : Claims(d)' = Claims(d),
           serving' = serving
    PROVE  Pool!Claim(k, c)
  BY DEF Pool!Claim, Claims

LEMMA MapUnclaim ==
    ASSUME NEW k \in Clients, NEW c \in Conns,
           \A m \in Clients : ClientState(m)' = ClientState(m),
           Claims(c) = {k}, Claims(c)' = {},
           \A d \in Conns \ {c} : Claims(d)' = Claims(d),
           serving' = serving
    PROVE  Pool!Unclaim(k, c)
  BY DEF Pool!Unclaim, Claims

LEMMA MapServe ==
    ASSUME NEW k \in Clients, NEW c \in Conns,
           Claims(c) = {k}, serving[c] = None, Claims(c)' = {},
           \A d \in Conns \ {c} : Claims(d)' = Claims(d),
           serving' = [serving EXCEPT ![c] = k],
           ClientState(k)' = "insession",
           \A m \in Clients \ {k} : ClientState(m)' = ClientState(m)
    PROVE  Pool!Serve(k, c)
  BY DEF Pool!Serve, Claims

LEMMA MapLeave ==
    ASSUME NEW k \in Clients, NEW c \in Conns, serving[c] = k, k # None,
           serving' = [serving EXCEPT ![c] = None],
           ClientState(k)' = "over",
           \A m \in Clients \ {k} : ClientState(m)' = ClientState(m),
           \A d \in Conns : Claims(d)' = Claims(d)
    PROVE  Pool!Leave(c)
  BY DEF Pool!Leave, Claims

\* What the two halves of the mapping depend on.
LEMMA StateKept ==
    ASSUME NEW k \in Clients,
           serving' = serving, served' = served,
           (lpc'[k] = "new") = (lpc[k] = "new"),
           (lpc'[k] = "failed") = (lpc[k] = "failed")
    PROVE  ClientState(k)' = ClientState(k)
  BY DEF ClientState

LEMMA ClaimKept ==
    ASSUME NEW c \in Conns, hq'[c] = hq[c],
           \A k \in Clients : Holds(k, c)' <=> Holds(k, c)
    PROVE  Claims(c)' = Claims(c)
<1>1. HoldersOf(c)' = HoldersOf(c)
  BY DEF HoldersOf, Holds
<1>. QED BY <1>1 DEF Claims, PromisedTo

\* A step that is none of the pool's.
LEMMA MapStutter ==
    ASSUME serving' = serving, served' = served, hq' = hq,
           \A k \in Clients :
                /\ (lpc'[k] = "new") = (lpc[k] = "new")
                /\ (lpc'[k] = "failed") = (lpc[k] = "failed")
                /\ \A c \in Conns : Holds(k, c)' <=> Holds(k, c)
    PROVE  UNCHANGED Pool!poolvars
<1>1. \A k \in Clients : ClientState(k)' = ClientState(k)
  BY StateKept
<1>2. \A c \in Conns : Claims(c)' = Claims(c)
  BY ClaimKept
<1>. QED BY <1>1, <1>2, MapUnchanged

\* A client that has not been handed over waits, and nobody is to pick it up but
\* the connection whose pid its listener holds.
LEMMA NotServed ==
    ASSUME TypeOK, PlaceInv, NEW k \in Clients, lpc[k] \notin HandedOver
    PROVE  served[k] = 0 /\ \A c \in Conns : serving[c] # k
<1>1. served[k] = 0
  BY DEF PlaceInv, TypeOK
<1>. QED BY <1>1 DEF PlaceInv

LEMMA StateWaiting ==
    ASSUME TypeOK, PlaceInv, NEW k \in Clients,
           lpc[k] \notin HandedOver \cup {"new", "failed"}
    PROVE  ClientState(k) = "waiting"
  BY NotServed DEF ClientState

LEMMA NotClaimed ==
    ASSUME TypeOK, PlaceInv, NEW k \in Clients, NEW c \in Conns,
           lpc[k] \notin HandedOver, ~Holds(k, c)
    PROVE  k \notin Claims(c)
<1>1. k \notin Queued(hq[c])
  BY DEF PlaceInv
<1>2. k \notin HoldersOf(c)
  BY DEF HoldersOf, Holds
<1>. QED BY <1>1, <1>2, ClaimsAre

LEMMA HolderClaims ==
    ASSUME TypeOK, NEW k \in Clients, NEW c \in Conns, OneToken(c), Holds(k, c)
    PROVE  Claims(c) = {k} /\ hq[c] = <<>>
<1>1. hq[c] = <<>> /\ \A m \in Clients : Holds(m, c) <=> m = k
  BY DEF OneToken
<1>2. HoldersOf(c) = {k}
  BY <1>1 DEF HoldersOf, Holds
<1>. QED BY <1>1, <1>2, ClaimsAre, QueuedEmpty
-----------------------------------------------------------------------------
(* Each step is one of the pool's or changes nothing there.                   *)

PoolInv == TypeInv /\ OrderlyInv /\ SockInv /\ AckInv /\ ToldInv /\ PlaceInv

PoolStep == Pool!PoolNext \/ UNCHANGED Pool!poolvars

\* A listener that loses its connection gives up its claim.
LEMMA GivesUpClaim ==
    ASSUME PoolInv, NEW k \in Clients, lpc[k] \in Promised,
           NEW s \in {"start", "dead"}, lpc' = [lpc EXCEPT ![k] = s],
           UNCHANGED <<got, hq, serving, served>>
    PROVE  PoolStep
<1> USE DEF PoolInv, TypeInv
<1>1. PICK c \in Conns : c = got[k]
  BY DEF TypeOK, NeverPidZero
<1>2. Holds(k, c) /\ OneToken(c)
  BY <1>1 DEF Holds, OrderlyInv
<1>3. Claims(c) = {k} /\ hq[c] = <<>> /\ \A m \in Clients : Holds(m, c) => m = k
  BY <1>2, HolderClaims DEF OneToken
<1>4. \A m \in Clients, d \in Conns :
        Holds(m, d)' <=> Holds(m, d) /\ m # k
  BY DEF Holds, Promised, TypeOK
<1>5. \A m \in Clients : ~Holds(m, c)'
  BY <1>3, <1>4
<1>6. Claims(c)' = {}
  <2>1. HoldersOf(c)' = {}
    BY <1>5 DEF HoldersOf, Holds
  <2>2. hq'[c] = <<>>
    BY <1>3
  <2>. QED BY <2>1, <2>2 DEF Claims, PromisedTo
<1>7. \A d \in Conns \ {c} : Claims(d)' = Claims(d)
  <2> SUFFICES ASSUME NEW d \in Conns \ {c} PROVE Claims(d)' = Claims(d)
    OBVIOUS
  <2>1. ~Holds(k, d)
    BY <1>1 DEF Holds
  <2>2. \A m \in Clients : Holds(m, d)' <=> Holds(m, d)
    BY <1>4, <2>1
  <2>. QED BY <2>2, ClaimKept
<1>8. \A m \in Clients : ClientState(m)' = ClientState(m)
  <2>1. \A m \in Clients : /\ (lpc'[m] = "new") = (lpc[m] = "new")
                           /\ (lpc'[m] = "failed") = (lpc[m] = "failed")
    BY DEF Promised, TypeOK
  <2>. QED BY <2>1, StateKept
<1>9. Pool!Unclaim(k, c)
  BY <1>3, <1>6, <1>7, <1>8, MapUnclaim
<1>. QED BY <1>9 DEF PoolStep, Pool!PoolNext

\* A listener that gives up before it has a connection refuses its client.
LEMMA RefusesClient ==
    ASSUME PoolInv, NEW k \in Clients, lpc[k] \in {"start", "abandon"},
           lpc' = [lpc EXCEPT ![k] = "failed"],
           UNCHANGED <<got, hq, serving, served>>
    PROVE  PoolStep
<1> USE DEF PoolInv, TypeInv
<1>1. ClientState(k) = "waiting"
  BY StateWaiting DEF HandedOver
<1>2. served[k] = 0 /\ \A c \in Conns : serving[c] # k
  BY NotServed DEF HandedOver
<1>3. ClientState(k)' = "refused"
  <2>1. /\ lpc'[k] = "failed" /\ served'[k] = 0
        /\ \A c \in Conns : serving'[c] # k
    BY <1>2 DEF TypeOK
  <2>. QED BY <2>1 DEF ClientState
<1>4. \A m \in Clients \ {k} : ClientState(m)' = ClientState(m)
  <2>1. \A m \in Clients \ {k} : lpc'[m] = lpc[m]
    BY DEF TypeOK
  <2>. QED BY <2>1, StateKept
<1>5. \A c \in Conns : k \notin Claims(c)
  BY NotClaimed DEF HandedOver, Holds, Promised
<1>6. \A c \in Conns : Claims(c)' = Claims(c)
  <2>1. \A c \in Conns, m \in Clients : Holds(m, c)' <=> Holds(m, c)
    BY DEF Holds, Promised, TypeOK
  <2>. QED BY <2>1, ClaimKept
<1>7. Pool!Refuse(k)
  BY <1>1, <1>3, <1>4, <1>5, <1>6, MapRefuse
<1>. QED BY <1>7 DEF PoolStep, Pool!PoolNext

LEMMA ArrivesInPool ==
    ASSUME PoolInv, NEW k \in Clients, AcceptClient(k) PROVE PoolStep
<1> USE DEF PoolInv, TypeInv
<1>1. /\ lpc[k] = "new" /\ lpc' = [lpc EXCEPT ![k] = "start"]
      /\ UNCHANGED <<got, hq, serving, served>>
  BY DEF AcceptClient, connvars, sockvars
<1>2. served[k] = 0 /\ \A c \in Conns : serving[c] # k
  BY <1>1, NotServed DEF HandedOver
<1>3. ClientState(k) = "absent"
  BY <1>1, <1>2 DEF ClientState
<1>4. ClientState(k)' = "waiting"
  <2>1. /\ lpc'[k] = "start" /\ served'[k] = 0
        /\ \A c \in Conns : serving'[c] # k
    BY <1>1, <1>2 DEF TypeOK
  <2>. QED BY <2>1 DEF ClientState
<1>5. \A m \in Clients \ {k} : ClientState(m)' = ClientState(m)
  <2>1. \A m \in Clients \ {k} : lpc'[m] = lpc[m]
    BY <1>1 DEF TypeOK
  <2>. QED BY <1>1, <2>1, StateKept
<1>6. \A c \in Conns : Claims(c)' = Claims(c)
  <2>1. \A c \in Conns, m \in Clients : Holds(m, c)' <=> Holds(m, c)
    BY <1>1 DEF Holds, Promised, TypeOK
  <2>. QED BY <1>1, <2>1, ClaimKept
<1>7. Pool!Arrive(k)
  BY <1>1, <1>3, <1>4, <1>5, <1>6, MapArrive
<1>. QED BY <1>7 DEF PoolStep, Pool!PoolNext
LEMMA ClaimsConnection ==
    ASSUME PoolInv, NEW k \in Clients, ReadPid(k) PROVE PoolStep
<1> USE DEF PoolInv, TypeInv
<1>1. PICK c \in Conns : c = shmPid
  BY DEF ReadPid, TypeOK, PidWritten
<1>2. /\ lpc[k] = "read" /\ lpc' = [lpc EXCEPT ![k] = "signal3"]
      /\ got' = [got EXCEPT ![k] = c]
      /\ UNCHANGED <<hq, serving, served>>
  BY <1>1 DEF ReadPid, GotoL, connvars, sockvars
<1>3. Fresh(c) /\ cpc[c] = "wait3"
  BY <1>1, <1>2 DEF OrderlyInv, Interlock
<1>4. serving[c] = None
  BY <1>3 DEF OrderlyInv
<1>5. ClientState(k) = "waiting"
  BY <1>2, StateWaiting DEF HandedOver
<1>6. \A d \in Conns : k \notin Claims(d)
  BY <1>2, NotClaimed DEF HandedOver, Holds, Promised
<1>7. \A m \in Clients, d \in Conns :
        Holds(m, d)' <=> Holds(m, d) \/ (m = k /\ d = c)
  BY <1>2 DEF Holds, Promised, TypeOK
<1>8. Claims(c) = {}
  <2>1. HoldersOf(c) = {} /\ hq[c] = <<>>
    BY <1>3 DEF Fresh, HoldersOf, Holds
  <2>. QED BY <2>1, QueuedEmpty, ClaimsAre
<1>9. Claims(c)' = {k}
  <2>1. \A m \in Clients : Holds(m, c)' <=> m = k
    BY <1>3, <1>7 DEF Fresh
  <2>2. HoldersOf(c)' = {k}
    BY <2>1 DEF HoldersOf, Holds
  <2>3. hq'[c] = <<>>
    BY <1>2, <1>3 DEF Fresh
  <2>4. k # Reconnect
    BY HandoffAssumption
  <2>. QED BY <2>2, <2>3, <2>4 DEF Claims, PromisedTo
<1>10. \A d \in Conns \ {c} : Claims(d)' = Claims(d)
  BY <1>2, <1>7, ClaimKept
<1>11. \A m \in Clients : ClientState(m)' = ClientState(m)
  <2>1. \A m \in Clients : /\ (lpc'[m] = "new") = (lpc[m] = "new")
                           /\ (lpc'[m] = "failed") = (lpc[m] = "failed")
    BY <1>2 DEF TypeOK
  <2>. QED BY <1>2, <2>1, StateKept
<1>12. Pool!Claim(k, c)
  BY <1>2, <1>4, <1>5, <1>6, <1>8, <1>9, <1>10, <1>11, MapClaim
<1>. QED BY <1>12 DEF PoolStep, Pool!PoolNext

\* Writing to the socket turns the pid a listener holds into a message.
LEMMA KeepsClaim ==
    ASSUME PoolInv, NEW k \in Clients, PassClient(k), got[k] \in sock
    PROVE  PoolStep
<1> USE DEF PoolInv, TypeInv
<1>1. PICK c \in Conns : c = got[k]
  BY DEF PassClient, TypeOK
<1>2. /\ lpc[k] = "send" /\ lpc' = [lpc EXCEPT ![k] = "ack"]
      /\ hq' = [hq EXCEPT ![c] = Append(hq[c], k)]
      /\ UNCHANGED <<got, serving, served>>
  BY <1>1 DEF PassClient, GotoL, connvars
<1>3. Holds(k, c) /\ OneToken(c)
  BY <1>1, <1>2 DEF Holds, OrderlyInv, Promised
<1>4. Claims(c) = {k} /\ hq[c] = <<>> /\ \A m \in Clients : Holds(m, c) => m = k
  BY <1>3, HolderClaims DEF OneToken
<1>5. \A m \in Clients, d \in Conns : Holds(m, d)' <=> Holds(m, d) /\ m # k
  BY <1>2 DEF Holds, Promised, TypeOK
<1>6. Claims(c)' = {k}
  <2>1. \A m \in Clients : ~Holds(m, c)'
    BY <1>4, <1>5
  <2>2. HoldersOf(c)' = {}
    BY <2>1 DEF HoldersOf, Holds
  <2>3. hq'[c] = Append(hq[c], k)
    BY <1>2 DEF TypeOK
  <2>4. Queued(hq'[c]) = {k}
    BY <1>4, <2>3, MessageAppended, QueuedEmpty
  <2>5. k # Reconnect
    BY HandoffAssumption
  <2>. QED BY <2>2, <2>4, <2>5 DEF Claims, PromisedTo, Queued
<1>7. \A d \in Conns \ {c} : Claims(d)' = Claims(d)
  <2> SUFFICES ASSUME NEW d \in Conns \ {c} PROVE Claims(d)' = Claims(d)
    OBVIOUS
  <2>1. ~Holds(k, d)
    BY <1>1 DEF Holds
  <2>2. \A m \in Clients : Holds(m, d)' <=> Holds(m, d)
    BY <1>5, <2>1
  <2>3. hq'[d] = hq[d]
    BY <1>2 DEF TypeOK
  <2>. QED BY <2>2, <2>3, ClaimKept
<1>8. \A m \in Clients : ClientState(m)' = ClientState(m)
  <2>1. \A m \in Clients : /\ (lpc'[m] = "new") = (lpc[m] = "new")
                           /\ (lpc'[m] = "failed") = (lpc[m] = "failed")
    BY <1>2 DEF TypeOK
  <2>. QED BY <1>2, <2>1, StateKept
<1>9. \A d \in Conns : Claims(d)' = Claims(d)
  BY <1>4, <1>6, <1>7
<1>10. UNCHANGED Pool!poolvars
  BY <1>2, <1>8, <1>9, MapUnchanged
<1>. QED BY <1>10 DEF PoolStep

\* A socket in which only a reconnect command comes or goes.
LEMMA ReconnectStutters ==
    ASSUME PoolInv, NEW c \in Conns, PickUpReconnect(c) \/ Ping(c)
    PROVE  PoolStep
<1> USE DEF PoolInv, TypeInv
<1>1. UNCHANGED <<lpc, got, serving, served>>
  BY DEF PickUpReconnect, Ping, connvars, lsnrvars
<1>2. Queued(hq'[c]) \ {Reconnect} = Queued(hq[c]) \ {Reconnect}
  <2>1. CASE PickUpReconnect(c)
    <3>1. hq[c] # <<>> /\ Head(hq[c]) = Reconnect /\ hq'[c] = Tail(hq[c])
      BY <2>1 DEF PickUpReconnect, TypeOK
    <3>2. Len(hq[c]) <= 1
      BY DEF OrderlyInv, OneToken
    <3>. QED BY <3>1, <3>2, MessageTaken
  <2>2. CASE Ping(c)
    <3>1. hq'[c] = hq[c] \/ hq'[c] = Append(hq[c], Reconnect)
      BY <2>2 DEF Ping, TypeOK
    <3>2. Queued(Append(hq[c], Reconnect)) = Queued(hq[c]) \cup {Reconnect}
      BY MessageAppended
    <3>. QED BY <3>1, <3>2
  <2>. QED BY <2>1, <2>2
<1>3. \A d \in Conns \ {c} : hq'[d] = hq[d]
  BY DEF PickUpReconnect, Ping, TypeOK
<1>4. \A d \in Conns : Claims(d)' = Claims(d)
  <2> SUFFICES ASSUME NEW d \in Conns PROVE Claims(d)' = Claims(d)
    OBVIOUS
  <2>1. HoldersOf(d)' = HoldersOf(d)
    BY <1>1 DEF HoldersOf
  <2>2. Queued(hq'[d]) \ {Reconnect} = Queued(hq[d]) \ {Reconnect}
    BY <1>2, <1>3
  <2>. QED BY <2>1, <2>2 DEF Claims, PromisedTo, Queued
<1>5. \A m \in Clients : ClientState(m)' = ClientState(m)
  BY <1>1, StateKept
<1>6. UNCHANGED Pool!poolvars
  BY <1>1, <1>4, <1>5, MapUnchanged
<1>. QED BY <1>6 DEF PoolStep
LEMMA ServesClient ==
    ASSUME PoolInv, NEW c \in Conns, PickUpClient(c) PROVE PoolStep
<1> USE DEF PoolInv, TypeInv
<1>1. /\ cpc[c] = "waitclient" /\ hq[c] # <<>> /\ Len(hq[c]) <= 1
      /\ Head(hq[c]) # Reconnect
  BY DEF PickUpClient, OrderlyInv, OneToken
<1>2. PICK h \in Clients : h = Head(hq[c])
  BY <1>1, MessageTaken
<1>3. Queued(hq[c]) = {h} /\ Tail(hq[c]) = <<>>
  BY <1>1, <1>2, MessageTaken
<1>4. /\ hq' = [hq EXCEPT ![c] = <<>>]
      /\ serving' = [serving EXCEPT ![c] = h]
      /\ served' = [served EXCEPT ![h] = served[h] + 1]
      /\ UNCHANGED <<lpc, got>>
  BY <1>2, <1>3 DEF PickUpClient, lsnrvars
<1>5. serving[c] = None
  BY <1>1 DEF OrderlyInv
<1>6. \A m \in Clients : ~Holds(m, c)
  BY <1>1 DEF OrderlyInv, OneToken
<1>7. \A m \in Clients, d \in Conns : Holds(m, d)' <=> Holds(m, d)
  BY <1>4 DEF Holds
<1>8. Claims(c) = {h}
  <2>1. HoldersOf(c) = {}
    BY <1>6 DEF HoldersOf, Holds
  <2>. QED BY <1>1, <1>2, <1>3, <2>1, ClaimsAre
<1>9. Claims(c)' = {}
  <2>1. HoldersOf(c)' = {}
    BY <1>6, <1>7 DEF HoldersOf, Holds
  <2>2. hq'[c] = <<>>
    BY <1>4 DEF TypeOK
  <2>. QED BY <2>1, <2>2 DEF Claims, PromisedTo
<1>10. \A d \in Conns \ {c} : Claims(d)' = Claims(d)
  <2>1. \A d \in Conns \ {c} : hq'[d] = hq[d]
    BY <1>4 DEF TypeOK
  <2>. QED BY <1>7, <2>1, ClaimKept
<1>11. \A d \in Conns : serving'[d] = IF d = c THEN h ELSE serving[d]
  BY <1>4 DEF TypeOK
<1>12. ClientState(h)' = "insession"
  BY <1>11 DEF ClientState
<1>13. \A m \in Clients \ {h} : ClientState(m)' = ClientState(m)
  <2> SUFFICES ASSUME NEW m \in Clients \ {h}
               PROVE  ClientState(m)' = ClientState(m)
    OBVIOUS
  <2>1. served'[m] = served[m] /\ lpc'[m] = lpc[m] /\ m # None
    BY <1>4, HandoffAssumption DEF TypeOK
  <2>2. (\E d \in Conns : serving'[d] = m) <=> (\E d \in Conns : serving[d] = m)
    BY <1>5, <1>11, <2>1
  <2>. QED BY <2>1, <2>2 DEF ClientState
<1>14. Pool!Serve(h, c)
  BY <1>4, <1>5, <1>8, <1>9, <1>10, <1>12, <1>13, MapServe
<1>. QED BY <1>14 DEF PoolStep, Pool!PoolNext

LEMMA LeavesConnection ==
    ASSUME PoolInv, NEW c \in Conns, EndSession(c) PROVE PoolStep
<1> USE DEF PoolInv, TypeInv
<1>1. /\ serving' = [serving EXCEPT ![c] = None]
      /\ UNCHANGED <<lpc, got, hq, served>>
  BY DEF EndSession, sockvars, lsnrvars
<1>2. \A d \in Conns : Claims(d)' = Claims(d)
  <2>1. \A d \in Conns, m \in Clients : Holds(m, d)' <=> Holds(m, d)
    BY <1>1 DEF Holds
  <2>. QED BY <1>1, <2>1, ClaimKept
<1>3. CASE serving[c] = None
  <2>1. serving' = serving
    BY <1>1, <1>3 DEF TypeOK
  <2>2. \A m \in Clients : ClientState(m)' = ClientState(m)
    BY <1>1, <2>1, StateKept
  <2>3. UNCHANGED Pool!poolvars
    BY <1>2, <2>1, <2>2, MapUnchanged
  <2>. QED BY <2>3 DEF PoolStep
<1>4. CASE serving[c] # None
  <2>1. PICK k \in Clients : serving[c] = k
    BY <1>4 DEF TypeOK
  <2>2. k # None
    BY HandoffAssumption
  <2>3. served[k] > 0 /\ \A d \in Conns : serving[d] = k => d = c
    BY <2>1 DEF PlaceInv
  <2>4. \A d \in Conns : serving'[d] = IF d = c THEN None ELSE serving[d]
    BY <1>1 DEF TypeOK
  <2>5. ClientState(k)' = "over"
    <3>1. \A d \in Conns : serving'[d] # k
      BY <2>2, <2>3, <2>4
    <3>2. served'[k] > 0
      BY <1>1, <2>3
    <3>. QED BY <3>1, <3>2 DEF ClientState
  <2>6. \A m \in Clients \ {k} : ClientState(m)' = ClientState(m)
    <3> SUFFICES ASSUME NEW m \in Clients \ {k}
                 PROVE  ClientState(m)' = ClientState(m)
      OBVIOUS
    <3>1. m # None
      BY HandoffAssumption
    <3>2. (\E d \in Conns : serving'[d] = m)
            <=> (\E d \in Conns : serving[d] = m)
      BY <2>1, <2>4, <3>1
    <3>. QED BY <1>1, <3>2 DEF ClientState
  <2>7. Pool!Leave(c)
    BY <1>1, <1>2, <2>1, <2>2, <2>5, <2>6, MapLeave
  <2>. QED BY <2>7 DEF PoolStep, Pool!PoolNext
<1>. QED BY <1>3, <1>4

LEMMA StepImplementsPool ==
    ASSUME Orderly, PoolInv, [Next]_vars PROVE PoolStep
<1>0. TypeOK
  BY DEF PoolInv, TypeInv
<1> USE HandoffAssumption DEF Orderly, TypeOK, Holds, Promised, GotoC, GotoL,
    FinishL, vars, semvars, connvars, sockvars, lsnrvars, mainvars, dbvars,
    PoolStep
<1>1. ASSUME NEW c \in Conns, Register(c) PROVE PoolStep
  BY <1>0, MapStutter, <1>1 DEF Register
<1>2. ASSUME NEW c \in Conns, CheckDatabase(c) PROVE PoolStep
  BY <1>0, MapStutter, <1>2 DEF CheckDatabase, Ready
<1>3. ASSUME NEW c \in Conns, MarkUnavailable(c) PROVE PoolStep
  BY <1>0, MapStutter, <1>3 DEF MarkUnavailable
<1>4. ASSUME NEW c \in Conns, LoggedInAgain(c) PROVE PoolStep
  BY <1>0, MapStutter, <1>4 DEF LoggedInAgain, Ready
<1>5. ASSUME NEW c \in Conns, AcquireAnnounce(c) PROVE PoolStep
  BY <1>0, MapStutter, <1>5 DEF AcquireAnnounce
<1>6. ASSUME NEW c \in Conns, AnnounceTimeout(c) PROVE PoolStep
  BY <1>0, MapStutter, <1>6 DEF AnnounceTimeout
<1>7. ASSUME NEW c \in Conns, ResetSemaphores(c) PROVE PoolStep
  BY <1>0, MapStutter, <1>7 DEF ResetSemaphores
<1>8. ASSUME NEW c \in Conns, WritePid(c) PROVE PoolStep
  BY <1>0, MapStutter, <1>8 DEF WritePid
<1>9. ASSUME NEW c \in Conns, SignalListener(c) PROVE PoolStep
  BY <1>0, MapStutter, <1>9 DEF SignalListener
<1>10. ASSUME NEW c \in Conns, ListenerRead(c) PROVE PoolStep
  BY <1>0, MapStutter, <1>10 DEF ListenerRead
<1>11. ASSUME NEW c \in Conns, ListenerReadTimeout(c) PROVE PoolStep
  BY <1>0, MapStutter, <1>11 DEF ListenerReadTimeout
<1>12. ASSUME NEW c \in Conns, ReleaseAnnounce(c) PROVE PoolStep
  BY <1>0, MapStutter, <1>12 DEF ReleaseAnnounce
<1>13. ASSUME NEW c \in Conns, CloseHandoffSocket(c) PROVE PoolStep
  BY <1>13 DEF CloseHandoffSocket, PoolInv, OrderlyInv
<1>14. ASSUME NEW c \in Conns, PickUpClient(c) PROVE PoolStep
  BY <1>14, ServesClient
<1>15. ASSUME NEW c \in Conns, PickUpReconnect(c) PROVE PoolStep
  BY <1>15, ReconnectStutters
<1>16. ASSUME NEW c \in Conns, WaitForClientTimeout(c) PROVE PoolStep
  BY <1>0, MapStutter, <1>16 DEF WaitForClientTimeout
<1>17. ASSUME NEW c \in Conns, EndSession(c) PROVE PoolStep
  BY <1>17, LeavesConnection
<1>18. ASSUME NEW c \in Conns, Exit(c) PROVE PoolStep
  BY <1>18 DEF Exit, PoolInv, OrderlyInv
<1>19. ASSUME NEW c \in Conns, Ping(c) PROVE PoolStep
  BY <1>19, ReconnectStutters
<1>20. ASSUME NEW c \in Conns, DatabaseDies(c) PROVE PoolStep
  BY <1>0, MapStutter, <1>20 DEF DatabaseDies
<1>21. ASSUME NEW c \in Conns, CrashConnection(c) PROVE PoolStep
  BY <1>0, MapStutter, <1>21 DEF CrashConnection
<1>22. ASSUME NEW c \in Conns, RegisterHandoff(c) PROVE PoolStep
  BY <1>0, MapStutter, <1>22 DEF RegisterHandoff
<1>23. ASSUME NEW c \in Conns, DeRegisterHandoff(c) PROVE PoolStep
  BY <1>0, MapStutter, <1>23 DEF DeRegisterHandoff
<1>24. ASSUME NEW k \in Clients, AcquireShm(k) PROVE PoolStep
  BY <1>0, MapStutter, <1>24 DEF AcquireShm
<1>25. ASSUME NEW k \in Clients, AcquireShmTimeout(k) PROVE PoolStep
  BY <1>25, RefusesClient DEF AcquireShmTimeout
<1>26. ASSUME NEW k \in Clients, AcceptConnection(k) PROVE PoolStep
  BY <1>0, MapStutter, <1>26 DEF AcceptConnection
<1>27. ASSUME NEW k \in Clients, AcceptConnectionFails(k) PROVE PoolStep
  BY <1>0, MapStutter, <1>27 DEF AcceptConnectionFails
<1>28. ASSUME NEW k \in Clients, ReadPid(k) PROVE PoolStep
  BY <1>28, ClaimsConnection
<1>29. ASSUME NEW k \in Clients, DoneAccepting(k) PROVE PoolStep
  BY <1>0, MapStutter, <1>29 DEF DoneAccepting
<1>30. ASSUME NEW k \in Clients, ReleaseShm(k) PROVE PoolStep
  <2>1. UNCHANGED <<got, hq, serving, served>>
    BY <1>30 DEF ReleaseShm
  <2>2. CASE lpc[k] = "release"
    BY <1>0, <1>30, <2>1, <2>2, MapStutter DEF ReleaseShm
  <2>3. CASE lpc[k] = "abandon"
    BY <1>30, <2>1, <2>3, RefusesClient DEF ReleaseShm
  <2>. QED BY <1>30, <2>2, <2>3 DEF ReleaseShm
<1>31. ASSUME NEW k \in Clients, CheckUp(k) PROVE PoolStep
  <2>1. lpc[k] = "check" /\ UNCHANGED <<got, hq, serving, served>>
    BY <1>31 DEF CheckUp
  <2>2. CASE DbOf[shmPid] \in up
    BY <1>0, <1>31, <2>1, <2>2, MapStutter DEF CheckUp
  <2>3. CASE DbOf[shmPid] \notin up
    BY <1>31, <2>1, <2>3, GivesUpClaim DEF CheckUp
  <2>. QED BY <2>2, <2>3
<1>32. ASSUME NEW k \in Clients, FindSocket(k) PROVE PoolStep
  BY <1>0, MapStutter, <1>32 DEF FindSocket
<1>33. ASSUME NEW k \in Clients, PassClient(k) PROVE PoolStep
  <2>1. CASE got[k] \in sock
    BY <1>33, <2>1, KeepsClaim
  <2>2. CASE got[k] \notin sock
    <3>1. lpc[k] = "send" /\ lpc' = [lpc EXCEPT ![k] = "start"]
      BY <1>33, <2>2 DEF PassClient
    <3>2. UNCHANGED <<got, hq, serving, served>>
      BY <1>33, <2>2 DEF PassClient
    <3>. QED BY <3>1, <3>2, GivesUpClaim
  <2>. QED BY <2>1, <2>2
<1>34. ASSUME NEW k \in Clients, ReadAck(k) PROVE PoolStep
  BY <1>0, MapStutter, <1>34 DEF ReadAck
<1>35. ASSUME NEW k \in Clients, ReadAckFails(k) PROVE PoolStep
  BY <1>35, AckComes DEF PoolInv
<1>36. ASSUME NEW k \in Clients, AcceptClient(k) PROVE PoolStep
  BY <1>36, ArrivesInPool
<1>37. ASSUME NEW k \in Clients, CrashListener(k) PROVE PoolStep
  <2>1. /\ lpc' = [lpc EXCEPT ![k] = "dead"]
        /\ UNCHANGED <<got, hq, serving, served>>
    BY <1>37 DEF CrashListener
  <2>2. CASE lpc[k] \in Promised
    BY <2>1, <2>2, GivesUpClaim
  <2>3. CASE lpc[k] \notin Promised
    <3>1. lpc[k] \notin {"new", "failed"}
      BY <1>37 DEF CrashListener, Active
    <3>. QED BY <1>0, <2>1, <2>3, <3>1, MapStutter
  <2>. QED BY <2>2, <2>3
<1>38. ASSUME NEW k \in Clients, Fixup(k) PROVE PoolStep
  <2>1. lpc[k] = "fixup" /\ UNCHANGED <<got, hq, serving, served>>
    BY <1>38 DEF Fixup
  <2>2. CASE got[k] \in reg
    BY <1>0, <1>38, <2>1, <2>2, MapStutter DEF Fixup
  <2>3. CASE got[k] \notin reg
    BY <1>38, <2>1, <2>3, GivesUpClaim DEF Fixup
  <2>. QED BY <2>2, <2>3
<1>39. CASE UNCHANGED vars
  BY <1>0, MapStutter, <1>39
<1>. QED
  BY <1>1, <1>2, <1>3, <1>4, <1>5, <1>6, <1>7, <1>8, <1>9, <1>10, <1>11,
     <1>12, <1>13, <1>14, <1>15, <1>16, <1>17, <1>18, <1>19, <1>20,
     <1>21, <1>22, <1>23, <1>24, <1>25, <1>26, <1>27, <1>28, <1>29,
     <1>30, <1>31, <1>32, <1>33, <1>34, <1>35, <1>36, <1>37, <1>38,
     <1>39 DEF Next,
     ConnStep, LsnrStep, MainStep
LEMMA InitImplementsPool == Init => Pool!PoolInit
<1> SUFFICES ASSUME Init PROVE Pool!PoolInit
  OBVIOUS
<1>1. \A k \in Clients : ClientState(k) = "absent"
  <2>1. \A k \in Clients : k # None
    BY HandoffAssumption
  <2>. QED BY <2>1 DEF Init, ClientState
<1>2. \A c \in Conns : Claims(c) = {}
  <2> SUFFICES ASSUME NEW c \in Conns PROVE Claims(c) = {}
    OBVIOUS
  <2>1. HoldersOf(c) = {} /\ hq[c] = <<>>
    BY DEF Init, HoldersOf, Promised
  <2>. QED BY <2>1, QueuedEmpty, ClaimsAre
<1>3. serving = [c \in Conns |-> None]
  BY DEF Init
<1>. QED BY <1>1, <1>2, <1>3 DEF Pool!PoolInit, Claims

\* With idle ttl off, no connection dying and no one second read expiring on a
\* peer at work, every behaviour of the listener and the connections is one of
\* the pool's: a client is promised to one free connection, served by it once,
\* or refused without having been served, although listeners time out, die and
\* are served inline, and databases fail (getAConnection, getAListener,
\* waitForClient).
THEOREM HandoffImplementsPool ==
    ASSUME Orderly PROVE Spec => ImplementsPool
<1>1. PoolInv /\ [Next]_vars => [Pool!PoolNext]_(Pool!poolvars)
  BY StepImplementsPool DEF PoolStep
<1>2. Spec => [](ToldInv /\ PlaceInv /\ OrderlyInv)
  BY ToldInvariant, PlaceInvariant, OrderlyInvariant, PTL
<1>3. Spec => []PoolInv
  BY <1>2, AckInvariant, SockInvariant, TypeInvariant, PTL DEF PoolInv
<1>. QED BY <1>1, <1>3, InitImplementsPool, PTL
         DEF Spec, ImplementsPool, Pool!PoolSpec

\* Nobody is picked up twice: neither the client whose listener started again
\* after a failed handoff, nor the one whose listener died.
PickedUpOnce == \A k \in Clients : served[k] <= 1

\* Under the same conditions a client is picked up once, by one connection
\* (waitForClient, and the retries of handOffOrProxyClient).
THEOREM ServedOnce == ASSUME Orderly PROVE Spec => []PickedUpOnce
<1>1. PlaceInv => PickedUpOnce
  BY DEF PlaceInv, PickedUpOnce
<1>2. Spec => []PlaceInv
  BY PlaceInvariant
<1>. QED BY <1>1, <1>2, PTL
=============================================================================
