---------------------------- MODULE SessionProofs ----------------------------
(***************************************************************************)
(* Proofs about Session, for any clients, any cursors of their programs,   *)
(* any pools and timeouts and any number of sessions.  What clients may do *)
(* is a premise where the property fails without it: each premise is one   *)
(* on the deployments, and those that the model checker runs satisfy all.  *)
(***************************************************************************)
EXTENDS Session, TLAPS

\* getCursor appends to the array of cursors: those there were keep their ids
\* and their states.
LEMMA GrownKeeps ==
    ASSUME cur \in Seq(States), NEW n \in Nat
    PROVE  /\ Grown(n) \in Seq(States)
           /\ Len(Grown(n)) = Len(cur) + n
           /\ \A i \in DOMAIN cur : Grown(n)[i] = cur[i]
           /\ DOMAIN cur \subseteq DOMAIN Grown(n)
<1> DEFINE new == [i \in 1 .. n |-> "available"]
<1>1. new \in Seq(States) /\ Len(new) = n
  BY DEF States
<1>. QED BY <1>1 DEF Grown

\* getCursor opens a cursor at least, and none beyond maxcursors, even if its sum
\* of 16 bits wraps around.
LEMMA GrowsWithinLimit ==
    ASSUME TypeOK, Len(cur) < dep.maxcursors
    PROVE  ExpandTo \in Len(cur) + 1 .. dep.maxcursors
<1> DEFINE sum == (Len(cur) + dep.growby) % CounterSize
<1>1. Len(cur) \in Nat /\ dep.growby \in Nat /\ dep.maxcursors \in Nat
    /\ CounterSize \in Nat \ {0}
  BY SessionAssumption DEF TypeOK, Deployment
<1>2. sum \in Nat
  BY <1>1
<1>. QED BY <1>1, <1>2 DEF ExpandTo, Least

\* The type of the daemon.
DaemonTypes ==
    [pc : {"idle", "session", "suspended"}, peer : Clients \cup {None},
     session : 0 .. MaxSessions, sockets : BOOLEAN, waited : 0 .. dep.timeout,
     asked : BOOLEAN, work : BOOLEAN, settings : BOOLEAN]

\* The deployment, and what the types say of the other variables.
LEMMA Typed ==
    ASSUME TypeOK
    PROVE  /\ dep.cursors \in Nat \ {0} /\ dep.maxcursors \in Nat
           /\ dep.cursors <= dep.maxcursors /\ dep.growby \in Nat
           /\ dep.timeout \in Nat /\ dep.failures \in Nat
           /\ MaxSessions \in Nat /\ 0 \in 0 .. dep.timeout
           /\ daemon \in DaemonTypes
           /\ cur \in Seq(States) /\ Len(cur) \in dep.cursors .. dep.maxcursors
           /\ backlog \in Seq(Clients)
           /\ home \in [Clients -> 0 .. MaxSessions]
           /\ hands \in [Clients -> [Hands -> Hand]]
           /\ failures \in 0 .. dep.failures
<1>1. dep \in Deployment /\ dep.cursors <= dep.maxcursors /\ MaxSessions \in Nat
  BY SessionAssumption DEF TypeOK
<1>2. dep.timeout \in Nat
  BY <1>1 DEF Deployment
<1>. QED BY <1>1, <1>2 DEF TypeOK, Deployment, DaemonTypes

\* The daemon keeps its type when two of its fields change, as they do together
\* in Connect, SuspendSession and queries.
LEMMA DaemonUpdated ==
    ASSUME NEW d \in DaemonTypes
    PROVE  /\ \A p \in {"idle", "session", "suspended"}, q \in Clients \cup {None} :
                [d EXCEPT !.pc = p, !.peer = q] \in DaemonTypes
           /\ \A n \in 0 .. dep.timeout, b \in BOOLEAN :
                [d EXCEPT !.waited = n, !.sockets = b] \in DaemonTypes
           /\ \A n \in 0 .. MaxSessions, b \in BOOLEAN :
                [d EXCEPT !.asked = b, !.session = n] \in DaemonTypes
           /\ \A b, c \in BOOLEAN :
                [d EXCEPT !.work = b, !.settings = c] \in DaemonTypes
BY DEF DaemonTypes

\* What a query does to the daemon and to the client that sent it.
LEMMA RunOnDoes ==
    ASSUME TypeOK, NEW k \in Clients, NEW h \in Hands, NEW pool, NEW i,
           RunOn(k, h, i, pool)
    PROVE  /\ UNCHANGED <<dep, backlog, home>>
           /\ cur' \in {pool, [pool EXCEPT ![i] = "busy"]}
           /\ \E open \in BOOLEAN : hands' = [hands EXCEPT
                ![k][h] = [id |-> i, open |-> open, parked |-> FALSE]]
           /\ daemon' \in DaemonTypes
           /\ daemon'.pc = daemon.pc /\ daemon'.peer = daemon.peer
           /\ daemon'.session = daemon.session
           /\ daemon'.asked
           /\ "settings" \notin dep.uses /\ ~daemon.settings => ~daemon'.settings
<1>1. PICK ok, open, work, settings \in BOOLEAN :
        /\ open => ok
        /\ daemon.work => work
        /\ daemon.settings => settings
        /\ work => ok \/ daemon.work
        /\ settings => (ok /\ "settings" \in dep.uses) \/ daemon.settings
        /\ cur' = IF ok THEN [pool EXCEPT ![i] = "busy"] ELSE pool
        /\ hands' = [hands EXCEPT
                ![k][h] = [id |-> i, open |-> open, parked |-> FALSE]]
        /\ daemon' = [daemon EXCEPT !.asked = TRUE, !.work = work,
                                    !.settings = settings]
        /\ UNCHANGED <<dep, backlog, home>>
  BY Zenon DEF RunOn
<1>2. daemon \in DaemonTypes
  BY Typed
<1>3. /\ daemon' \in DaemonTypes
      /\ daemon'.pc = daemon.pc /\ daemon'.peer = daemon.peer
      /\ daemon'.session = daemon.session
  <2> DEFINE d == [daemon EXCEPT !.asked = TRUE]
  <2>1. d \in DaemonTypes
    BY <1>2 DEF DaemonTypes
  <2>2. [d EXCEPT !.work = work, !.settings = settings] \in DaemonTypes
    BY <2>1, DaemonUpdated
  <2>3. daemon' \in DaemonTypes
    BY <1>1, <2>2, Zenon
  <2>4. daemon'.pc = daemon.pc /\ daemon'.peer = daemon.peer
      /\ daemon'.session = daemon.session
    BY <1>1, <1>2 DEF DaemonTypes
  <2>. QED BY <2>3, <2>4
<1>4. daemon'.asked /\ (daemon'.settings <=> settings)
  BY <1>1, <1>2 DEF DaemonTypes
<1>. QED BY <1>1, <1>3, <1>4

\* The cursors of programs keep their types when one of them changes: a query,
\* the end of a result set, its suspension.
LEMMA HandUpdated ==
    ASSUME hands \in [Clients -> [Hands -> Hand]],
           NEW k \in Clients, NEW h \in Hands
    PROVE  /\ \A hand \in Hand :
                [hands EXCEPT ![k][h] = hand] \in [Clients -> [Hands -> Hand]]
           /\ [hands EXCEPT ![k][h].open = FALSE] \in [Clients -> [Hands -> Hand]]
           /\ \A b \in BOOLEAN : [hands EXCEPT ![k][h].parked = b]
                                    \in [Clients -> [Hands -> Hand]]
<1>1. hands[k] \in [Hands -> Hand] /\ hands[k][h] \in Hand
  OBVIOUS
<1>2. ASSUME NEW hand \in Hand
      PROVE  [hands EXCEPT ![k][h] = hand] \in [Clients -> [Hands -> Hand]]
  <2>1. [hands[k] EXCEPT ![h] = hand] \in [Hands -> Hand]
    BY <1>1
  <2>. QED BY <2>1
<1>3. [hands[k][h] EXCEPT !.open = FALSE] \in Hand
  BY <1>1 DEF Hand
<1>4. ASSUME NEW b \in BOOLEAN PROVE [hands[k][h] EXCEPT !.parked = b] \in Hand
  BY <1>1 DEF Hand
<1>. QED BY <1>2, <1>3, <1>4, Zenon

\* The pool keeps its type and length when one of its cursors changes state.
LEMMA CursorUpdated ==
    ASSUME NEW pool \in Seq(States), NEW i \in DOMAIN pool, NEW s \in States
    PROVE  /\ [pool EXCEPT ![i] = s] \in Seq(States)
           /\ Len([pool EXCEPT ![i] = s]) = Len(pool)
OBVIOUS

\* A query keeps the types, whether getCursor found the cursor or made it.
LEMMA RunOnTypes ==
    ASSUME TypeOK, NEW k \in Clients, NEW h \in Hands, NEW pool \in Seq(States),
           Len(pool) \in dep.cursors .. dep.maxcursors,
           NEW i \in DOMAIN pool, RunOn(k, h, i, pool),
           failures' \in 0 .. dep.failures
    PROVE  TypeOK'
<1>1. cur' \in Seq(States) /\ Len(cur') \in dep.cursors .. dep.maxcursors
  BY RunOnDoes DEF States
<1>2. \A open \in BOOLEAN : [id |-> i, open |-> open, parked |-> FALSE] \in Hand
  BY DEF Hand
<1>3. hands' \in [Clients -> [Hands -> Hand]]
  <2>1. PICK open \in BOOLEAN : hands' = [hands EXCEPT
                ![k][h] = [id |-> i, open |-> open, parked |-> FALSE]]
    BY RunOnDoes
  <2>2. hands \in [Clients -> [Hands -> Hand]]
    BY Typed
  <2>. QED BY <1>2, <2>1, <2>2, HandUpdated, Zenon
<1>4. daemon' \in DaemonTypes /\ UNCHANGED <<dep, backlog, home>>
  BY RunOnDoes
<1>. QED BY <1>1, <1>3, <1>4 DEF TypeOK, DaemonTypes

\* A program that starts has no cursor of the daemon (_havecursorid is false).
LEMMA NewProgramTypes == NewProgram \in [Hands -> Hand]
BY DEF NewProgram, NoCursor, Hand

\* Every step keeps the types; among them, that getCursor does not let the pool
\* outgrow maxcursors, nor endSession shrink it below cursors.
LEMMA TypesKept == TypeOK /\ [Next]_vars => TypeOK'
<1> SUFFICES ASSUME TypeOK, [Next]_vars PROVE TypeOK'
  OBVIOUS
<1> USE NewProgramTypes
<1>1. ASSUME NEW k \in Clients, Connect(k) PROVE TypeOK'
  <2>1. daemon.session + 1 \in 0 .. MaxSessions
    BY <1>1, Typed DEF Connect, DaemonTypes
  <2>2. [daemon EXCEPT !.pc = "session", !.peer = k] \in DaemonTypes
    BY Typed, DaemonUpdated
  <2>3. ASSUME NEW d \in DaemonTypes
        PROVE  [d EXCEPT !.asked = FALSE, !.session = daemon.session + 1]
                    \in DaemonTypes
    BY <2>1, DaemonUpdated
  <2>4. daemon' \in DaemonTypes
    BY <1>1, <2>2, <2>3, Zenon DEF Connect
  <2>5. cur' \in Seq(States) /\ Len(cur') = Len(cur)
    BY <1>1, Typed DEF Connect, Released, States
  <2>6. hands' \in [Clients -> [Hands -> Hand]]
    BY <1>1, Typed DEF Connect
  <2>7. home' \in [Clients -> 0 .. MaxSessions]
    BY <1>1, <2>4, Typed DEF Connect, DaemonTypes
  <2>. QED BY <1>1, <2>4, <2>5, <2>6, <2>7 DEF Connect, TypeOK, DaemonTypes
<1>2. ASSUME NEW k \in Clients, Resume(k) PROVE TypeOK'
  BY <1>2 DEF Resume, TypeOK
<1>3. ASSUME NEW k \in Clients, NEW h \in Hands, QueryAgain(k, h) PROVE TypeOK'
  <2>1. hands[k][h].id \in DOMAIN cur /\ failures' \in 0 .. dep.failures
    BY <1>3, Typed DEF QueryAgain
  <2>. QED BY <1>3, <2>1, Typed, RunOnTypes DEF QueryAgain
<1>4. ASSUME NEW k \in Clients, NEW h \in Hands, QueryNew(k, h) PROVE TypeOK'
  <2>1. PICK i \in Available : RunOn(k, h, i, [cur EXCEPT ![i] = "busy"])
    BY <1>4 DEF QueryNew
  <2> DEFINE pool == [cur EXCEPT ![i] = "busy"]
  <2>2. pool \in Seq(States) /\ Len(pool) \in dep.cursors .. dep.maxcursors
      /\ i \in DOMAIN pool /\ failures' \in 0 .. dep.failures
    BY <1>4, Typed DEF QueryNew, Available, States
  <2>. QED BY <2>1, <2>2, RunOnTypes
<1>5. ASSUME NEW k \in Clients, NEW h \in Hands, QueryGrows(k, h) PROVE TypeOK'
  <2> DEFINE i == Len(cur) + 1
             pool == [FullyGrown EXCEPT ![i] = "busy"]
             n == ExpandTo - Len(cur)
  <2>1. n \in Nat \ {0} /\ Len(cur) + n \in dep.cursors .. dep.maxcursors
    <3>1. ExpandTo \in Len(cur) + 1 .. dep.maxcursors
      BY <1>5, GrowsWithinLimit DEF QueryGrows
    <3>. QED BY <3>1, Typed
  <2>2. FullyGrown \in Seq(States) /\ Len(FullyGrown) = Len(cur) + n
    BY <2>1, Typed, GrownKeeps DEF FullyGrown
  <2>3. pool \in Seq(States) /\ Len(pool) = Len(cur) + n /\ i \in DOMAIN pool
    BY <2>1, <2>2, Typed DEF States
  <2>4. RunOn(k, h, i, pool) /\ failures' \in 0 .. dep.failures
    BY <1>5, Typed DEF QueryGrows
  <2>. QED BY <2>1, <2>3, <2>4, RunOnTypes
<1>6. ASSUME NEW k \in Clients, NEW h \in Hands, GrowFails(k, h) PROVE TypeOK'
  <2>1. PICK n \in Opened : cur' = Grown(n)
    BY <1>6 DEF GrowFails
  <2>2. n \in Nat /\ Len(cur) + n \in dep.cursors .. dep.maxcursors
    <3>1. ExpandTo \in Len(cur) + 1 .. dep.maxcursors
      BY <1>6, GrowsWithinLimit DEF GrowFails
    <3>. QED BY <2>1, <3>1, Typed DEF Opened
  <2>3. cur' \in Seq(States) /\ Len(cur') = Len(cur) + n
    BY <2>1, <2>2, Typed, GrownKeeps
  <2>4. daemon' \in DaemonTypes
    <3>1. daemon' = [daemon EXCEPT !.asked = TRUE]
      BY <1>6 DEF GrowFails
    <3>. QED BY <3>1, Typed DEF DaemonTypes
  <2>5. failures' \in 0 .. dep.failures
    BY <1>6, Typed DEF GrowFails
  <2>. QED BY <1>6, <2>2, <2>3, <2>4, <2>5 DEF GrowFails, TypeOK, DaemonTypes
<1>7. ASSUME NEW k \in Clients, NEW h \in Hands,
             NoAvailableCursors(k, h) \/ FetchRest(k, h)
      PROVE  TypeOK'
  <2>1. hands' \in [Clients -> [Hands -> Hand]]
    <3>1. hands \in [Clients -> [Hands -> Hand]]
      BY Typed
    <3>2. CASE NoAvailableCursors(k, h)
      BY <3>1, <3>2 DEF NoAvailableCursors
    <3>3. CASE FetchRest(k, h)
      BY <3>1, <3>3, HandUpdated, Zenon DEF FetchRest
    <3>. QED BY <1>7, <3>2, <3>3
  <2>2. daemon' \in {daemon, [daemon EXCEPT !.asked = TRUE]}
    BY <1>7 DEF NoAvailableCursors, FetchRest
  <2>3. daemon' \in DaemonTypes
    BY <2>2, Typed DEF DaemonTypes
  <2>. QED BY <1>7, <2>1, <2>3
          DEF NoAvailableCursors, FetchRest, TypeOK, DaemonTypes
<1>8. ASSUME NEW k \in Clients, NEW h \in Hands,
             \/ CloseResultSet(k, h) \/ SuspendResultSet(k, h)
             \/ ResumeResultSet(k, h)
      PROVE  TypeOK'
  <2>1. hands' \in [Clients -> [Hands -> Hand]]
    <3>1. NoCursor \in Hand
      BY DEF NoCursor, Hand
    <3>2. hands \in [Clients -> [Hands -> Hand]]
      BY Typed
    <3>3. CASE CloseResultSet(k, h)
      BY <3>1, <3>2, <3>3, HandUpdated, Zenon DEF CloseResultSet, Closed
    <3>4. CASE SuspendResultSet(k, h)
      BY <3>2, <3>4, HandUpdated, Zenon DEF SuspendResultSet
    <3>5. CASE ResumeResultSet(k, h)
      BY <3>2, <3>5, HandUpdated, Zenon DEF ResumeResultSet
    <3>. QED BY <1>8, <3>3, <3>4, <3>5
  <2>2. cur' \in Seq(States) /\ Len(cur') = Len(cur)
    <3>1. PICK s \in States : /\ hands[k][h].id \in DOMAIN cur
                              /\ cur' = [cur EXCEPT ![hands[k][h].id] = s]
      BY <1>8 DEF CloseResultSet, SuspendResultSet, ResumeResultSet, States
    <3>. QED BY <3>1, Typed, CursorUpdated
  <2>. QED BY <1>8, <2>1, <2>2
          DEF CloseResultSet, SuspendResultSet, ResumeResultSet, TypeOK
<1>9. ASSUME NEW k \in Clients, SuspendSession(k) PROVE TypeOK'
  <2>1. cur' \in Seq(States) /\ Len(cur') = Len(cur)
    <3>1. WithoutBusy \in Seq(States) /\ Len(WithoutBusy) = Len(cur)
      <4>1. cur \in Seq(States)
        BY Typed
      <4>. QED BY <4>1 DEF WithoutBusy, States
    <3>. QED BY <1>9, <3>1 DEF SuspendSession
  <2>2. [daemon EXCEPT !.pc = "suspended", !.peer = None] \in DaemonTypes
    BY Typed, DaemonUpdated
  <2>3. ASSUME NEW d \in DaemonTypes
        PROVE  [d EXCEPT !.waited = 0, !.sockets = TRUE] \in DaemonTypes
    <3>1. 0 \in 0 .. dep.timeout
      BY Typed
    <3>. QED BY <3>1, DaemonUpdated
  <2>4. daemon' \in DaemonTypes
    BY <1>9, <2>2, <2>3, Zenon DEF SuspendSession
  <2>. QED BY <1>9, <2>1, <2>4 DEF SuspendSession, TypeOK, DaemonTypes
<1>10. ASSUME NEW k \in Clients, EndSession(k) \/ Reject(k) PROVE TypeOK'
  <2>1. Shrunk \in Seq(States) /\ Len(Shrunk) = dep.cursors
    BY Typed DEF Shrunk, States
  <2>2. cur' \in Seq(States) /\ Len(cur') \in dep.cursors .. dep.maxcursors
    BY <1>10, <2>1, Typed DEF EndSession, Reject
  <2>3. backlog' = <<>>
    BY <1>10 DEF EndSession, Reject, Told
  <2>4. PICK gone : /\ home' = [c \in Clients |-> IF c \in gone THEN 0 ELSE home[c]]
                    /\ hands' = [c \in Clients |->
                                    IF c \in gone THEN NewProgram ELSE hands[c]]
    BY <1>10, Zenon DEF EndSession, Reject, Told
  <2>5. home' \in [Clients -> 0 .. MaxSessions]
    BY <2>4, Typed
  <2>6. hands' \in [Clients -> [Hands -> Hand]]
    BY <2>4, Typed
  <2>7. daemon' \in DaemonTypes
    BY <1>10, Typed DEF EndSession, Reject, Gone, DaemonTypes
  <2>8. dep' = dep /\ failures' = failures
    BY <1>10 DEF EndSession, Reject
  <2>. QED BY <2>2, <2>3, <2>5, <2>6, <2>7, <2>8 DEF TypeOK, DaemonTypes
<1>11. ASSUME EndTransaction PROVE TypeOK'
  BY <1>11 DEF EndTransaction, TypeOK
<1>12. ASSUME AcceptResumed PROVE TypeOK'
  <2>1. Head(backlog) \in Clients /\ backlog' \in Seq(Clients)
    BY <1>12, Typed DEF AcceptResumed
  <2>2. daemon' = [daemon EXCEPT !.pc = "session", !.peer = Head(backlog),
                                 !.asked = FALSE]
    BY <1>12 DEF AcceptResumed
  <2>3. daemon' \in DaemonTypes
    BY <2>1, <2>2, Typed DEF DaemonTypes
  <2>. QED BY <1>12, <2>1, <2>3 DEF AcceptResumed, TypeOK, DaemonTypes
<1>13. ASSUME WaitAnotherSecond PROVE TypeOK'
  <2>1. daemon' = [daemon EXCEPT !.waited = Least(daemon.waited + 1, dep.timeout)]
    BY <1>13 DEF WaitAnotherSecond
  <2>2. Least(daemon.waited + 1, dep.timeout) \in 0 .. dep.timeout
    BY Typed DEF DaemonTypes, Least
  <2>3. daemon' \in DaemonTypes
    BY <2>1, <2>2, Typed DEF DaemonTypes
  <2>. QED BY <1>13, <2>3 DEF WaitAnotherSecond, TypeOK, DaemonTypes
<1>14. ASSUME TimeOut PROVE TypeOK'
  BY <1>14 DEF TimeOut, GivenUp, TypeOK
<1>15. ASSUME UNCHANGED vars PROVE TypeOK'
  BY <1>15 DEF vars, TypeOK
<1>. QED BY <1>1, <1>2, <1>3, <1>4, <1>5, <1>6, <1>7, <1>8, <1>9, <1>10, <1>11,
            <1>12, <1>13, <1>14, <1>15 DEF Next, Request, Wait
\* The types hold when the daemon has opened its cursors.
LEMMA TypesStart == Init => TypeOK
<1> SUFFICES ASSUME Init PROVE TypeOK
  OBVIOUS
<1>1. dep \in Deployment /\ dep.cursors <= dep.maxcursors /\ MaxSessions \in Nat
  BY SessionAssumption DEF Init
<1>2. dep.cursors \in Nat /\ dep.maxcursors \in Nat /\ dep.timeout \in Nat
    /\ dep.failures \in Nat
  BY <1>1 DEF Deployment
<1>3. cur \in Seq(States) /\ Len(cur) \in dep.cursors .. dep.maxcursors
  BY <1>1, <1>2 DEF Init, States
<1>4. daemon \in DaemonTypes
  BY <1>1, <1>2 DEF Init, DaemonTypes
<1>5. home \in [Clients -> 0 .. MaxSessions] /\ failures \in 0 .. dep.failures
  BY <1>1, <1>2 DEF Init
<1>6. hands \in [Clients -> [Hands -> Hand]]
  BY NewProgramTypes DEF Init
<1>7. dep \in Deployments /\ backlog \in Seq(Clients)
  BY DEF Init
<1>. QED BY <1>3, <1>4, <1>5, <1>6, <1>7 DEF TypeOK, DaemonTypes

\* A daemon never has more cursors than maxcursors nor fewer than cursors, however
\* getCursor and endSession follow each other, and the other types hold.
THEOREM SessionTypeCorrect == Spec => []TypeOK
BY TypesStart, TypesKept, PTL DEF Spec

-----------------------------------------------------------------------------
\* Premise: a session is resumed only before its timeout.
NobodyResumesLate == \A d \in Deployments : "late" \notin d.uses

\* Who waits on the sockets of a suspended session suspended it.
OwnersWait ==
    /\ backlog # <<>> => daemon.pc # "idle"
    /\ \A i \in DOMAIN backlog : home[backlog[i]] = daemon.session

OwnersInv == TypeOK /\ ResumesItsOwn /\ OwnersWait

\* Requests of the client, suspendSession and a timeout that finds nobody waiting
\* do not change who is in which session.
LEMMA OwnersKept ==
    ASSUME OwnersInv, UNCHANGED <<backlog, home, daemon.session>>,
           \/ UNCHANGED <<daemon.pc, daemon.peer>>
           \/ daemon'.pc = "suspended"
           \/ daemon'.pc = "idle" /\ backlog = <<>>
    PROVE  ResumesItsOwn' /\ OwnersWait'
BY DEF OwnersInv, ResumesItsOwn, OwnersWait, InSession

\* Every step of the daemon and of clients keeps sessions with their owners: the
\* clients in the backlog of the sockets are told when the session ends.
LEMMA OwnersStep ==
    ASSUME NobodyResumesLate PROVE OwnersInv /\ [Next]_vars => OwnersInv'
<1> SUFFICES ASSUME OwnersInv, [Next]_vars PROVE ResumesItsOwn' /\ OwnersWait'
  BY TypesKept DEF OwnersInv
<1>0. daemon \in DaemonTypes /\ backlog \in Seq(Clients)
    /\ home \in [Clients -> 0 .. MaxSessions] /\ TypeOK /\ TypeOK'
  BY Typed, TypesKept DEF OwnersInv
<1>1. ASSUME NEW k \in Clients, Connect(k) PROVE ResumesItsOwn' /\ OwnersWait'
  <2>1. daemon'.peer = k /\ backlog = <<>> /\ backlog' = backlog
    BY <1>0, <1>1 DEF Connect, OwnersInv, OwnersWait, DaemonTypes
  <2>2. home'[k] = daemon'.session
    BY <1>0, <1>1 DEF Connect
  <2>. QED BY <2>1, <2>2 DEF ResumesItsOwn, OwnersWait, InSession
<1>2. ASSUME NEW k \in Clients, Resume(k) PROVE ResumesItsOwn' /\ OwnersWait'
  <2>1. "late" \notin dep.uses
    BY <1>0 DEF NobodyResumesLate, TypeOK
  <2>2. daemon.pc = "suspended" /\ daemon.session = home[k]
      /\ backlog' = Append(backlog, k) /\ UNCHANGED <<daemon, home>>
    BY <1>2, <2>1 DEF Resume
  <2>3. \A i \in DOMAIN backlog' : home[backlog'[i]] = daemon.session
    BY <1>0, <2>2 DEF OwnersInv, OwnersWait
  <2>. QED BY <2>2, <2>3 DEF OwnersInv, ResumesItsOwn, OwnersWait, InSession
<1>3. ASSUME NEW k \in Clients, NEW h \in Hands,
             \E i, pool : RunOn(k, h, i, pool)
      PROVE  ResumesItsOwn' /\ OwnersWait'
  BY <1>0, <1>3, RunOnDoes, OwnersKept
<1>4. ASSUME NEW k \in Clients, NEW h \in Hands,
             \/ GrowFails(k, h) \/ NoAvailableCursors(k, h)
             \/ FetchRest(k, h) \/ CloseResultSet(k, h)
             \/ SuspendResultSet(k, h) \/ ResumeResultSet(k, h)
      PROVE  ResumesItsOwn' /\ OwnersWait'
  <2>1. daemon' \in {daemon, [daemon EXCEPT !.asked = TRUE]}
      /\ UNCHANGED <<backlog, home>>
    BY <1>4 DEF GrowFails, NoAvailableCursors, FetchRest, CloseResultSet,
                SuspendResultSet, ResumeResultSet
  <2>2. UNCHANGED <<daemon.session, daemon.pc, daemon.peer>>
    BY <1>0, <2>1 DEF DaemonTypes
  <2>. QED BY <2>1, <2>2, OwnersKept
<1>5. ASSUME NEW k \in Clients, SuspendSession(k)
      PROVE  ResumesItsOwn' /\ OwnersWait'
  <2>1. daemon'.pc = "suspended" /\ daemon'.session = daemon.session
      /\ UNCHANGED <<backlog, home>>
    BY <1>0, <1>5 DEF SuspendSession, DaemonTypes
  <2>. QED BY <2>1, OwnersKept
<1>6. ASSUME NEW k \in Clients, EndSession(k) \/ Reject(k)
      PROVE  ResumesItsOwn' /\ OwnersWait'
  <2>1. daemon'.pc = "idle" /\ backlog' = <<>>
    BY <1>0, <1>6 DEF EndSession, Reject, Told, Gone, DaemonTypes
  <2>. QED BY <2>1 DEF ResumesItsOwn, OwnersWait, InSession
<1>7. ASSUME EndTransaction \/ WaitAnotherSecond \/ TimeOut
      PROVE  ResumesItsOwn' /\ OwnersWait'
  <2>1. UNCHANGED <<backlog, home>> /\ daemon'.session = daemon.session
      /\ \/ UNCHANGED <<daemon.pc, daemon.peer>>
         \/ daemon'.pc = "idle" /\ backlog = <<>>
    BY <1>0, <1>7 DEF EndTransaction, WaitAnotherSecond, TimeOut, GivenUp,
                      NobodyConnected, DaemonTypes
  <2>. QED BY <2>1, OwnersKept
<1>8. ASSUME AcceptResumed PROVE ResumesItsOwn' /\ OwnersWait'
  <2>1. daemon'.pc = "session" /\ daemon'.peer = Head(backlog)
      /\ daemon'.session = daemon.session /\ home' = home
      /\ backlog # <<>> /\ backlog' = Tail(backlog)
    BY <1>0, <1>8 DEF AcceptResumed, DaemonTypes
  <2>2. home[Head(backlog)] = daemon.session
    BY <1>0, <2>1 DEF OwnersInv, OwnersWait
  <2>3. \A i \in DOMAIN backlog' : home[backlog'[i]] = daemon.session
    BY <1>0, <2>1 DEF OwnersInv, OwnersWait
  <2>. QED BY <2>1, <2>2, <2>3 DEF ResumesItsOwn, OwnersWait, InSession
<1>9. CASE UNCHANGED vars
  BY <1>9 DEF vars, OwnersInv, ResumesItsOwn, OwnersWait, InSession
<1>. QED BY <1>1, <1>2, <1>3, <1>4, <1>5, <1>6, <1>7, <1>8, <1>9
     DEF Next, Request, Wait, QueryAgain, QueryNew, QueryGrows

\* A suspended session goes on with the client that suspended it: whoever the
\* daemon accepts on the session's sockets started that session.
THEOREM SessionResumesItsOwn ==
    ASSUME NobodyResumesLate PROVE Spec => []ResumesItsOwn
<1>1. Init => OwnersInv
  BY TypesStart DEF Init, OwnersInv, ResumesItsOwn, OwnersWait, InSession
<1>2. OwnersInv /\ [Next]_vars => OwnersInv'
  BY OwnersStep
<1>3. OwnersInv => ResumesItsOwn
  BY DEF OwnersInv
<1>. QED BY <1>1, <1>2, <1>3, PTL DEF Spec

-----------------------------------------------------------------------------
\* Premise: where sessions are suspended, nobody changes settings and no login is
\* rejected: the daemon clears neither when the session times out, and endSession
\* is not run for a resumed session whose client is rejected.
SuspendedLeaveNothing ==
    \A d \in Deployments :
        "suspend" \in d.uses => d.uses \cap {"settings", "rejected"} = {}

\* Where work and settings may be: never between sessions, settings where
\* clients change them, a suspended session where clients suspend sessions, and
\* before its first query in a session that was resumed.
RemainsOnlyOfThisSession ==
    /\ daemon.settings => "settings" \in dep.uses
    /\ daemon.pc = "suspended" => "suspend" \in dep.uses
    /\ daemon.pc = "session" /\ ~daemon.asked /\ "suspend" \notin dep.uses
        => ~daemon.work /\ ~daemon.settings

CleanInv == TypeOK /\ SessionsStartClean /\ RemainsOnlyOfThisSession

\* A request in the session leaves it there, and asked for something.
LEMMA AskedKept ==
    ASSUME CleanInv, UNCHANGED dep, daemon.pc = "session",
           daemon'.pc = "session",
           \/ daemon'.asked
           \/ UNCHANGED <<daemon.asked, daemon.work, daemon.settings>>,
           daemon'.settings => daemon.settings \/ "settings" \in dep.uses
    PROVE  SessionsStartClean' /\ RemainsOnlyOfThisSession'
BY DEF CleanInv, SessionsStartClean, RemainsOnlyOfThisSession

\* Every step leaves work and settings where RemainsOnlyOfThisSession has them: the
\* end of a session undoes both, its timeout rolls back.
LEMMA CleanStep ==
    ASSUME SuspendedLeaveNothing PROVE CleanInv /\ [Next]_vars => CleanInv'
<1> DEFINE Goal == SessionsStartClean' /\ RemainsOnlyOfThisSession'
<1> SUFFICES ASSUME CleanInv, [Next]_vars PROVE Goal
  BY TypesKept DEF CleanInv
<1>0. daemon \in DaemonTypes /\ dep \in Deployments /\ TypeOK
    /\ ("suspend" \in dep.uses => "settings" \notin dep.uses
                                /\ "rejected" \notin dep.uses)
  BY Typed DEF CleanInv, TypeOK, SuspendedLeaveNothing
<1>1. ASSUME NEW k \in Clients, Connect(k) PROVE Goal
  <2>1. daemon'.pc = "session" /\ daemon'.work = daemon.work
      /\ daemon'.settings = daemon.settings /\ daemon.pc = "idle" /\ dep' = dep
    BY <1>0, <1>1 DEF Connect, DaemonTypes
  <2>. QED BY <2>1 DEF CleanInv, SessionsStartClean, RemainsOnlyOfThisSession
<1>2. ASSUME NEW k \in Clients, Resume(k) PROVE Goal
  BY <1>2 DEF Resume, CleanInv, SessionsStartClean, RemainsOnlyOfThisSession
<1>3. ASSUME NEW k \in Clients, NEW h \in Hands, InSession(k),
             \E i, pool : RunOn(k, h, i, pool)
      PROVE  Goal
  <2>1. PICK i, pool : RunOn(k, h, i, pool)
    BY <1>3
  <2>2. dep' = dep /\ daemon'.asked /\ daemon'.pc = daemon.pc
      /\ ("settings" \notin dep.uses /\ ~daemon.settings => ~daemon'.settings)
    BY <1>0, <2>1, RunOnDoes
  <2>. QED BY <1>3, <2>2, AskedKept DEF InSession
<1>4. ASSUME NEW k \in Clients, NEW h \in Hands,
             \/ GrowFails(k, h) \/ NoAvailableCursors(k, h)
             \/ FetchRest(k, h) \/ CloseResultSet(k, h)
             \/ SuspendResultSet(k, h) \/ ResumeResultSet(k, h)
      PROVE  Goal
  <2>1. daemon' \in {daemon, [daemon EXCEPT !.asked = TRUE]} /\ dep' = dep
      /\ daemon.pc = "session"
    BY <1>4 DEF GrowFails, NoAvailableCursors, FetchRest, CloseResultSet,
                SuspendResultSet, ResumeResultSet, InSession
  <2>2. daemon'.pc = daemon.pc /\ daemon'.settings = daemon.settings
      /\ (daemon'.asked \/ UNCHANGED <<daemon.asked, daemon.work>>)
    BY <1>0, <2>1 DEF DaemonTypes
  <2>. QED BY <2>1, <2>2, AskedKept
<1>5. ASSUME NEW k \in Clients, SuspendSession(k) PROVE Goal
  <2>1. daemon'.pc = "suspended" /\ daemon'.settings = daemon.settings
      /\ dep' = dep /\ "suspend" \in dep.uses
    BY <1>0, <1>5 DEF SuspendSession, DaemonTypes
  <2>. QED BY <2>1 DEF CleanInv, SessionsStartClean, RemainsOnlyOfThisSession
<1>6. ASSUME NEW k \in Clients, EndSession(k) PROVE Goal
  <2>1. daemon'.pc = "idle" /\ ~daemon'.work /\ ~daemon'.settings
    BY <1>0, <1>6 DEF EndSession, Gone, DaemonTypes
  <2>. QED BY <2>1 DEF SessionsStartClean, RemainsOnlyOfThisSession
<1>7. ASSUME NEW k \in Clients, Reject(k) PROVE Goal
  <2>1. ~daemon.work /\ ~daemon.settings
    BY <1>0, <1>7 DEF Reject, InSession, CleanInv, RemainsOnlyOfThisSession
  <2>2. daemon'.pc = "idle" /\ daemon'.work = daemon.work
      /\ daemon'.settings = daemon.settings
    BY <1>0, <1>7 DEF Reject, Gone, DaemonTypes
  <2>. QED BY <2>1, <2>2 DEF SessionsStartClean, RemainsOnlyOfThisSession
<1>8. ASSUME EndTransaction PROVE Goal
  <2>1. daemon' = [daemon EXCEPT !.work = FALSE] /\ dep' = dep
      /\ daemon.pc = "session"
    BY <1>8 DEF EndTransaction, InSession
  <2>2. daemon'.pc = daemon.pc /\ daemon'.settings = daemon.settings
      /\ ~daemon'.work /\ daemon'.asked = daemon.asked
    BY <1>0, <2>1 DEF DaemonTypes
  <2>. QED BY <2>1, <2>2
          DEF CleanInv, SessionsStartClean, RemainsOnlyOfThisSession
<1>9. ASSUME AcceptResumed PROVE Goal
  <2>1. daemon.pc = "suspended" /\ daemon'.pc = "session"
      /\ daemon'.settings = daemon.settings /\ dep' = dep
    BY <1>0, <1>9 DEF AcceptResumed, DaemonTypes
  <2>. QED BY <2>1 DEF CleanInv, SessionsStartClean, RemainsOnlyOfThisSession
<1>10. ASSUME WaitAnotherSecond PROVE Goal
  <2>1. daemon'.pc = daemon.pc /\ daemon'.settings = daemon.settings
      /\ dep' = dep /\ daemon.pc = "suspended"
    BY <1>0, <1>10 DEF WaitAnotherSecond, DaemonTypes
  <2>. QED BY <2>1 DEF CleanInv, SessionsStartClean, RemainsOnlyOfThisSession
<1>11. ASSUME TimeOut PROVE Goal
  <2>1. ~daemon.settings
    BY <1>0, <1>11 DEF TimeOut, CleanInv, RemainsOnlyOfThisSession
  <2>2. daemon'.pc = "idle" /\ daemon'.settings = daemon.settings
      /\ ~daemon'.work /\ dep' = dep
    BY <1>0, <1>11 DEF TimeOut, GivenUp, DaemonTypes
  <2>. QED BY <2>1, <2>2 DEF SessionsStartClean, RemainsOnlyOfThisSession
<1>12. CASE UNCHANGED vars
  BY <1>12 DEF vars, CleanInv, SessionsStartClean, RemainsOnlyOfThisSession
<1>. QED BY <1>1, <1>2, <1>3, <1>4, <1>5, <1>6, <1>7, <1>8, <1>9, <1>10, <1>11,
            <1>12 DEF Next, Request, Wait, QueryAgain, QueryNew, QueryGrows

\* No session starts with the work or the settings of the one before it: endSession
\* ran, or the timeout rolled back, or there was nothing.
THEOREM SessionStartsClean ==
    ASSUME SuspendedLeaveNothing PROVE Spec => []SessionsStartClean
<1>1. Init => CleanInv
  BY TypesStart DEF Init, CleanInv, SessionsStartClean, RemainsOnlyOfThisSession
<1>2. CleanInv /\ [Next]_vars => CleanInv'
  BY CleanStep
<1>3. CleanInv => SessionsStartClean
  BY DEF CleanInv
<1>. QED BY <1>1, <1>2, <1>3, PTL DEF Spec

-----------------------------------------------------------------------------
\* Premise: programs that suspend a session have closed or suspended their result
\* sets before, and resume it in time.
ProgramsLetGo == \A d \in Deployments : d.uses \cap {"keep", "late"} = {}

\* Whose session goes on, or is suspended.
Holder(k) == daemon.pc # "idle" /\ home[k] = daemon.session

\* A cursor of a client refers to one of the daemon's that is not available, a
\* suspended one to a suspended one; a suspended session has no others.
HandRight(hand, pool, pc) ==
    IF hand.id = 0 THEN ~hand.open /\ ~hand.parked
    ELSE /\ hand.id \in DOMAIN pool /\ pool[hand.id] # "available"
         /\ hand.parked => pool[hand.id] = "suspended"
         /\ pc = "suspended" => hand.parked

\* A session is one client's.
SessionsDiffer ==
    /\ daemon.pc # "idle" => daemon.session # 0
    /\ \A k \in Clients : home[k] <= daemon.session
    /\ \A k, c \in Clients : home[k] # 0 /\ home[k] = home[c] => k = c

\* The cursors of the client whose session it is, of which no two are the same
\* cursor of the daemon.
HandsRight ==
    \A k \in Clients : Holder(k) => \A h \in Hands :
        /\ HandRight(hands[k][h], cur, daemon.pc)
        /\ hands[k][h].id # 0 =>
            \A g \in Hands \ {h} : hands[k][g].id # hands[k][h].id

HandsInv == OwnersInv /\ SessionsDiffer /\ HandsRight

\* The client that the daemon serves is the only one that holds the session.
LEMMA OneHolder ==
    ASSUME HandsInv, NEW k \in Clients, InSession(k), NEW c \in Clients, Holder(c)
    PROVE  c = k
BY DEF HandsInv, OwnersInv, ResumesItsOwn, SessionsDiffer, Holder, InSession

\* The client that the daemon serves holds the session.
LEMMA InSessionHolds ==
    ASSUME HandsInv, NEW k \in Clients, InSession(k)
    PROVE  Holder(k) /\ daemon.pc = "session"
BY DEF HandsInv, OwnersInv, ResumesItsOwn, Holder, InSession

\* A request for a cursor of a client changes no cursor of the daemon but the one
\* it names, t, which is in no other hand: the other hands stay right.
LEMMA RequestKeeps ==
    ASSUME HandsInv, NEW k \in Clients, NEW h \in Hands, NEW hand \in Hand,
           NEW t \in Nat, InSession(k),
           UNCHANGED <<home, daemon.pc, daemon.peer, daemon.session>>,
           hands' = [hands EXCEPT ![k][h] = hand],
           DOMAIN cur \subseteq DOMAIN cur',
           \A i \in DOMAIN cur : i = t \/ cur'[i] = cur[i],
           \A g \in Hands \ {h} : hands[k][g].id # 0 => hands[k][g].id # t,
           hand.id \in {0, t}, HandRight(hand, cur', daemon'.pc)
    PROVE  SessionsDiffer' /\ HandsRight'
<1>1. SessionsDiffer'
  BY DEF HandsInv, SessionsDiffer
<1>2. hands \in [Clients -> [Hands -> Hand]]
  BY Typed DEF HandsInv, OwnersInv
<1>3. SUFFICES ASSUME NEW c \in Clients, Holder(c)', NEW f \in Hands
      PROVE  /\ HandRight(hands'[c][f], cur', daemon'.pc)
             /\ hands'[c][f].id # 0 =>
                \A g \in Hands \ {f} : hands'[c][g].id # hands'[c][f].id
  BY <1>1 DEF HandsRight
<1>4. c = k /\ Holder(k) /\ daemon.pc = "session"
  BY <1>3, OneHolder, InSessionHolds DEF Holder
<1>5. hands'[k][h] = hand /\ \A g \in Hands \ {h} : hands'[k][g] = hands[k][g]
  BY <1>2
<1>6. ASSUME NEW g \in Hands \ {h}
      PROVE  /\ HandRight(hands'[k][g], cur', daemon'.pc)
             /\ hands[k][g].id # 0 => hands[k][g].id # hand.id
  <2>1. HandRight(hands[k][g], cur, daemon.pc)
    BY <1>4 DEF HandsInv, HandsRight
  <2>. QED BY <1>5, <2>1 DEF HandRight
<1>7. \A g, e \in Hands \ {h} : g # e /\ hands[k][g].id # 0
                                => hands[k][e].id # hands[k][g].id
  BY <1>4 DEF HandsInv, HandsRight
<1>. QED BY <1>4, <1>5, <1>6, <1>7

\* The cursor that a client names in a request is right, and not another of its
\* cursors, each of which has a cursor of the daemon that is not available.
LEMMA HandKnown ==
    ASSUME HandsInv, NEW k \in Clients, NEW h \in Hands, InSession(k)
    PROVE  /\ hands[k][h] \in Hand /\ HandRight(hands[k][h], cur, daemon.pc)
           /\ \A g \in Hands \ {h} : hands[k][g].id # 0 =>
                /\ hands[k][g].id # hands[k][h].id
                /\ hands[k][g].id \in DOMAIN cur
                /\ cur[hands[k][g].id] # "available"
<1>1. hands \in [Clients -> [Hands -> Hand]]
  BY Typed DEF HandsInv, OwnersInv
<1>. QED BY <1>1, InSessionHolds DEF HandsInv, HandsRight, HandRight

\* A query keeps hands right if the daemon's cursor it runs on is in no other hand
\* of the client, whether getCursor found that by id, as available, or made it.
LEMMA QueryKeeps ==
    ASSUME HandsInv, NEW k \in Clients, NEW h \in Hands, InSession(k),
           NEW i \in Nat \ {0}, \E pool : RunOn(k, h, i, pool),
           i \in DOMAIN cur', cur'[i] # "available",
           DOMAIN cur \subseteq DOMAIN cur',
           \A j \in DOMAIN cur : j = i \/ cur'[j] = cur[j],
           \A g \in Hands \ {h} : hands[k][g].id # 0 => hands[k][g].id # i
    PROVE  SessionsDiffer' /\ HandsRight'
<1>0. TypeOK
  BY DEF HandsInv, OwnersInv
<1>1. PICK hand \in Hand : /\ hands' = [hands EXCEPT ![k][h] = hand]
                          /\ hand.id = i /\ ~hand.parked
  <2>1. PICK open \in BOOLEAN : hands' = [hands EXCEPT
                ![k][h] = [id |-> i, open |-> open, parked |-> FALSE]]
    BY <1>0, RunOnDoes
  <2> DEFINE hand == [id |-> i, open |-> open, parked |-> FALSE]
  <2>2. hand \in Hand /\ hand.id = i /\ ~hand.parked
    BY DEF Hand
  <2> HIDE DEF hand
  <2>. QED BY <2>1, <2>2 DEF hand
<1>2. UNCHANGED <<home, daemon.pc, daemon.peer, daemon.session>>
    /\ daemon'.pc = "session"
  BY <1>0, RunOnDoes DEF InSession
<1>3. HandRight(hand, cur', daemon'.pc)
  BY <1>1, <1>2 DEF HandRight
<1>. QED BY <1>1, <1>2, <1>3, RequestKeeps

\* A query that fails leaves the pool as getCursor left it; one that succeeds makes
\* its cursor busy.  No other cursor changes.
LEMMA QueryTouches ==
    ASSUME TypeOK, NEW k \in Clients, NEW h \in Hands, NEW pool \in Seq(States),
           NEW i \in DOMAIN pool, RunOn(k, h, i, pool),
           DOMAIN cur \subseteq DOMAIN pool, pool[i] # "available",
           \A j \in DOMAIN cur : j = i \/ pool[j] = cur[j]
    PROVE  /\ i \in DOMAIN cur' /\ cur'[i] # "available"
           /\ DOMAIN cur \subseteq DOMAIN cur'
           /\ \A j \in DOMAIN cur : j = i \/ cur'[j] = cur[j]
<1>1. cur' \in {pool, [pool EXCEPT ![i] = "busy"]}
  BY RunOnDoes
<1>. QED BY <1>1

\* Every step keeps hands right: getCursor hands out available cursors only,
\* suspendSession releases busy ones only, closeResultSet forgets the id.
LEMMA HandsStep ==
    ASSUME ProgramsLetGo PROVE HandsInv /\ [Next]_vars => HandsInv'
<1> DEFINE Goal == SessionsDiffer' /\ HandsRight'
<1>0. NobodyResumesLate
  BY DEF ProgramsLetGo, NobodyResumesLate
<1> SUFFICES ASSUME HandsInv, [Next]_vars PROVE Goal
  BY <1>0, OwnersStep DEF HandsInv
<1>t. /\ TypeOK /\ daemon \in DaemonTypes /\ cur \in Seq(States)
       /\ hands \in [Clients -> [Hands -> Hand]]
       /\ home \in [Clients -> 0 .. MaxSessions] /\ "keep" \notin dep.uses
  BY Typed DEF HandsInv, OwnersInv, ProgramsLetGo, TypeOK
<1>1. ASSUME NEW k \in Clients, Connect(k) PROVE Goal
  <2>1. daemon'.session = daemon.session + 1 /\ daemon.session \in Nat
      /\ daemon'.pc = "session" /\ home' = [home EXCEPT ![k] = daemon.session + 1]
      /\ hands' = [hands EXCEPT ![k] = NewProgram]
    BY <1>t, <1>1 DEF Connect, DaemonTypes
  <2>2. \A c \in Clients : home[c] <= daemon.session /\ home[c] \in Nat
    BY <1>t DEF HandsInv, SessionsDiffer
  <2>3. SessionsDiffer'
    BY <1>t, <2>1, <2>2 DEF HandsInv, SessionsDiffer
  <2>4. \A c \in Clients : Holder(c)' => c = k
    BY <1>t, <2>1, <2>2 DEF Holder
  <2>5. \A h \in Hands : hands'[k][h] = NoCursor
    BY <1>t, <2>1 DEF NewProgram
  <2>. QED BY <2>3, <2>4, <2>5 DEF HandsRight, HandRight, NoCursor
<1>2. ASSUME NEW k \in Clients, Resume(k) PROVE Goal
  BY <1>2 DEF Resume, HandsInv, SessionsDiffer, HandsRight, HandRight, Holder
<1>3. ASSUME NEW k \in Clients, NEW h \in Hands, QueryAgain(k, h) PROVE Goal
  <2>1. InSession(k) /\ hands[k][h].id \in DOMAIN cur
      /\ RunOn(k, h, hands[k][h].id, cur)
    BY <1>3 DEF QueryAgain
  <2>2. hands[k][h].id # 0 /\ cur[hands[k][h].id] # "available"
    BY <1>t, <2>1, HandKnown DEF HandRight
  <2>3. \A g \in Hands \ {h} : hands[k][g].id # 0
                                => hands[k][g].id # hands[k][h].id
    BY <2>1, HandKnown
  <2>. QED BY <1>t, <2>1, <2>2, <2>3, QueryTouches, QueryKeeps
<1>4. ASSUME NEW k \in Clients, NEW h \in Hands, QueryNew(k, h) PROVE Goal
  <2>1. PICK i \in Available : RunOn(k, h, i, [cur EXCEPT ![i] = "busy"])
    BY <1>4 DEF QueryNew
  <2> DEFINE pool == [cur EXCEPT ![i] = "busy"]
  <2>2. i \in DOMAIN cur /\ cur[i] = "available" /\ InSession(k)
    BY <1>4 DEF Available, QueryNew
  <2>3. pool \in Seq(States) /\ DOMAIN pool = DOMAIN cur /\ pool[i] = "busy"
      /\ \A j \in DOMAIN cur : j = i \/ pool[j] = cur[j]
    BY <1>t, <2>2 DEF States
  <2>4. \A g \in Hands \ {h} : hands[k][g].id # 0 => hands[k][g].id # i
    BY <2>2, HandKnown
  <2>5. RunOn(k, h, i, pool) /\ i \in DOMAIN pool /\ pool[i] # "available"
      /\ DOMAIN cur \subseteq DOMAIN pool
    BY <2>1, <2>2, <2>3
  <2> HIDE DEF pool
  <2>6. i \in DOMAIN cur' /\ cur'[i] # "available" /\ DOMAIN cur \subseteq DOMAIN cur'
      /\ \A j \in DOMAIN cur : j = i \/ cur'[j] = cur[j]
    BY <1>t, <2>3, <2>5, QueryTouches
  <2>7. i \in Nat \ {0} /\ \E p : RunOn(k, h, i, p)
    BY <1>t, <2>2, <2>5
  <2>. QED BY <2>2, <2>4, <2>6, <2>7, QueryKeeps
<1>5. ASSUME NEW k \in Clients, NEW h \in Hands, QueryGrows(k, h) PROVE Goal
  <2> DEFINE i == Len(cur) + 1
             n == ExpandTo - Len(cur)
             pool == [FullyGrown EXCEPT ![i] = "busy"]
  <2>0. InSession(k) /\ RunOn(k, h, i, pool)
    BY <1>5 DEF QueryGrows
  <2>1. n \in Nat \ {0}
    <3>1. ExpandTo \in Len(cur) + 1 .. dep.maxcursors
      BY <1>t, <1>5, GrowsWithinLimit DEF QueryGrows
    <3>. QED BY <3>1, Typed
  <2>2. FullyGrown \in Seq(States) /\ DOMAIN cur \subseteq DOMAIN FullyGrown
      /\ i \in DOMAIN FullyGrown
      /\ \A j \in DOMAIN cur : FullyGrown[j] = cur[j]
    <3>1. Grown(n) \in Seq(States) /\ Len(Grown(n)) = Len(cur) + n
        /\ \A j \in DOMAIN cur : Grown(n)[j] = cur[j]
      BY <1>t, <2>1, GrownKeeps
    <3>. QED BY <1>t, <2>1, <3>1 DEF FullyGrown
  <2>3. pool \in Seq(States) /\ i \in DOMAIN pool /\ pool[i] # "available"
      /\ DOMAIN cur \subseteq DOMAIN pool
      /\ \A j \in DOMAIN cur : j = i \/ pool[j] = cur[j]
    BY <2>2 DEF States
  <2>4. \A g \in Hands \ {h} : hands[k][g].id # 0 => hands[k][g].id # i
    BY <1>t, <2>0, HandKnown
  <2> HIDE DEF pool, i
  <2>5. i \in DOMAIN cur' /\ cur'[i] # "available" /\ DOMAIN cur \subseteq DOMAIN cur'
      /\ \A j \in DOMAIN cur : j = i \/ cur'[j] = cur[j]
    BY <1>t, <2>0, <2>3, QueryTouches
  <2>6. i \in Nat \ {0} /\ \E p : RunOn(k, h, i, p)
    BY <1>t, <2>0 DEF i
  <2>. QED BY <2>0, <2>4, <2>5, <2>6, QueryKeeps
<1>6. ASSUME NEW k \in Clients, NEW h \in Hands,
             GrowFails(k, h) \/ NoAvailableCursors(k, h)
      PROVE  Goal
  <2>1. UNCHANGED <<home, hands>> /\ daemon' = [daemon EXCEPT !.asked = TRUE]
    BY <1>6 DEF GrowFails, NoAvailableCursors
  <2>2. UNCHANGED <<daemon.pc, daemon.session>>
    BY <1>t, <2>1 DEF DaemonTypes
  <2>3. DOMAIN cur \subseteq DOMAIN cur' /\ \A i \in DOMAIN cur : cur'[i] = cur[i]
    <3>1. CASE GrowFails(k, h)
      <4>1. PICK n \in Opened : cur' = Grown(n)
        BY <3>1 DEF GrowFails
      <4>2. n \in Nat
        BY <4>1 DEF Opened
      <4>. QED BY <1>t, <4>1, <4>2, GrownKeeps
    <3>2. CASE NoAvailableCursors(k, h)
      BY <3>2 DEF NoAvailableCursors
    <3>. QED BY <1>6, <3>1, <3>2
  <2>. QED BY <2>1, <2>2, <2>3
          DEF HandsInv, SessionsDiffer, HandsRight, HandRight, Holder
<1>7. ASSUME NEW k \in Clients, NEW h \in Hands,
             \/ FetchRest(k, h) \/ CloseResultSet(k, h)
             \/ SuspendResultSet(k, h) \/ ResumeResultSet(k, h)
      PROVE  Goal
  <2> DEFINE t == hands[k][h].id
  <2>1. InSession(k) /\ daemon' = daemon /\ home' = home /\ daemon.pc = "session"
    BY <1>7 DEF FetchRest, CloseResultSet, SuspendResultSet, ResumeResultSet,
                InSession
  <2>2. hands[k][h] \in Hand /\ HandRight(hands[k][h], cur, daemon.pc)
      /\ \A g \in Hands \ {h} : hands[k][g].id # 0 => hands[k][g].id # t
    BY <2>1, HandKnown
  <2>3. t \in DOMAIN cur /\ t \in Nat /\ t # 0 /\ cur[t] # "available"
    BY <1>t, <1>7, <2>2
       DEF FetchRest, CloseResultSet, SuspendResultSet, ResumeResultSet, HandRight
  <2>4. PICK hand \in Hand : /\ hands' = [hands EXCEPT ![k][h] = hand]
                             /\ hand.id \in {0, t}
                             /\ HandRight(hand, cur', daemon'.pc)
    <3>1. CASE FetchRest(k, h)
      <4> DEFINE hand == [hands[k][h] EXCEPT !.open = FALSE]
      <4>1. hands' = [hands EXCEPT ![k][h] = hand] /\ cur' = cur
        BY <3>1, Zenon DEF FetchRest
      <4>2. hand \in Hand /\ hand.id = t /\ hand.parked = hands[k][h].parked
        BY <2>2 DEF Hand
      <4>3. HandRight(hand, cur', daemon'.pc)
        BY <2>1, <2>2, <2>3, <4>1, <4>2 DEF HandRight
      <4> HIDE DEF hand
      <4>. QED BY <4>1, <4>2, <4>3
    <3>2. CASE CloseResultSet(k, h)
      <4>1. hands' = [hands EXCEPT ![k][h] = NoCursor]
        BY <3>2, Zenon DEF CloseResultSet, Closed
      <4>2. NoCursor \in Hand /\ NoCursor.id = 0
          /\ HandRight(NoCursor, cur', daemon'.pc)
        BY DEF NoCursor, Hand, HandRight
      <4>. QED BY <4>1, <4>2
    <3>3. CASE SuspendResultSet(k, h)
      <4> DEFINE hand == [hands[k][h] EXCEPT !.parked = TRUE]
      <4>1. hands' = [hands EXCEPT ![k][h] = hand]
          /\ cur' = [cur EXCEPT ![t] = "suspended"]
        BY <3>3, Zenon DEF SuspendResultSet
      <4>2. hand \in Hand /\ hand.id = t
        BY <2>2 DEF Hand
      <4>3. HandRight(hand, cur', daemon'.pc)
        BY <2>1, <2>3, <4>1, <4>2 DEF HandRight
      <4> HIDE DEF hand
      <4>. QED BY <4>1, <4>2, <4>3
    <3>4. CASE ResumeResultSet(k, h)
      <4> DEFINE hand == [hands[k][h] EXCEPT !.parked = FALSE]
      <4>1. hands' = [hands EXCEPT ![k][h] = hand]
          /\ cur' = [cur EXCEPT ![t] = "busy"]
        BY <3>4, Zenon DEF ResumeResultSet
      <4>2. hand \in Hand /\ hand.id = t /\ ~hand.parked
        BY <2>2 DEF Hand
      <4>3. HandRight(hand, cur', daemon'.pc)
        BY <2>1, <2>3, <4>1, <4>2 DEF HandRight
      <4> HIDE DEF hand
      <4>. QED BY <4>1, <4>2, <4>3
    <3>. QED BY <1>7, <3>1, <3>2, <3>3, <3>4
  <2>5. DOMAIN cur \subseteq DOMAIN cur'
      /\ \A i \in DOMAIN cur : i = t \/ cur'[i] = cur[i]
    BY <1>t, <1>7
       DEF FetchRest, CloseResultSet, SuspendResultSet, ResumeResultSet
  <2>6. UNCHANGED <<home, daemon.pc, daemon.peer, daemon.session>>
    BY <2>1
  <2> HIDE DEF t
  <2>. QED BY <2>1, <2>2, <2>3, <2>4, <2>5, <2>6, RequestKeeps
<1>8. ASSUME NEW k \in Clients, SuspendSession(k) PROVE Goal
  <2>1. daemon'.pc = "suspended" /\ daemon'.session = daemon.session
      /\ UNCHANGED <<home, hands>> /\ cur' = WithoutBusy /\ InSession(k)
      /\ \A h \in Hands : hands[k][h].id # 0 => hands[k][h].parked
    BY <1>t, <1>8 DEF SuspendSession, DaemonTypes
  <2>2. \A c \in Clients : Holder(c)' => c = k
    BY <2>1, OneHolder DEF Holder, InSession
  <2>3. ASSUME NEW h \in Hands PROVE HandRight(hands'[k][h], cur', daemon'.pc)
    <3>1. HandRight(hands[k][h], cur, daemon.pc)
      BY <2>1, HandKnown
    <3>. QED BY <2>1, <3>1 DEF HandRight, WithoutBusy
  <2>4. \A h \in Hands : hands[k][h].id # 0 =>
            \A g \in Hands \ {h} : hands[k][g].id # hands[k][h].id
    BY <2>1, HandKnown
  <2>. QED BY <2>1, <2>2, <2>3, <2>4, InSessionHolds
          DEF HandsInv, SessionsDiffer, HandsRight, Holder
<1>9. ASSUME NEW k \in Clients, EndSession(k) \/ Reject(k) PROVE Goal
  <2>1. daemon'.pc = "idle" /\ daemon'.session = daemon.session
    BY <1>t, <1>9 DEF EndSession, Reject, Gone, DaemonTypes
  <2>2. PICK gone : home' = [c \in Clients |-> IF c \in gone THEN 0 ELSE home[c]]
    BY <1>9, Zenon DEF EndSession, Reject, Told
  <2>3. SessionsDiffer'
    BY <1>t, <2>1, <2>2 DEF HandsInv, SessionsDiffer, DaemonTypes
  <2>. QED BY <2>1, <2>3 DEF HandsRight, Holder
<1>10. ASSUME AcceptResumed PROVE Goal
  <2>1. daemon.pc = "suspended" /\ daemon'.pc = "session"
      /\ daemon'.session = daemon.session /\ UNCHANGED <<cur, home, hands>>
    BY <1>t, <1>10 DEF AcceptResumed, DaemonTypes
  <2>. QED BY <2>1 DEF HandsInv, SessionsDiffer, HandsRight, HandRight, Holder
<1>11. ASSUME EndTransaction \/ WaitAnotherSecond PROVE Goal
  <2>1. UNCHANGED <<daemon.pc, daemon.session, cur, home, hands>>
    BY <1>t, <1>11 DEF EndTransaction, WaitAnotherSecond, DaemonTypes
  <2>. QED BY <2>1 DEF HandsInv, SessionsDiffer, HandsRight, HandRight, Holder
<1>12. ASSUME TimeOut PROVE Goal
  <2>1. daemon'.pc = "idle" /\ daemon'.session = daemon.session /\ home' = home
    BY <1>t, <1>12 DEF TimeOut, GivenUp, DaemonTypes
  <2>. QED BY <2>1 DEF HandsInv, SessionsDiffer, HandsRight, Holder
<1>13. CASE UNCHANGED vars
  BY <1>13 DEF vars, HandsInv, SessionsDiffer, HandsRight, HandRight, Holder
<1>. QED BY <1>1, <1>2, <1>3, <1>4, <1>5, <1>6, <1>7, <1>8, <1>9, <1>10, <1>11,
            <1>12, <1>13 DEF Next, Request, Wait

\* Before the first client nobody holds a session.
LEMMA HandsStart == Init => HandsInv
<1> SUFFICES ASSUME Init PROVE HandsInv
  OBVIOUS
<1>1. OwnersInv
  BY TypesStart DEF Init, OwnersInv, ResumesItsOwn, OwnersWait, InSession
<1>. QED BY <1>1 DEF Init, HandsInv, SessionsDiffer, HandsRight, Holder

\* A result set that a client reads is its own: no other cursor of the client runs
\* on the same cursor of the daemon, and getCursor does not give it away.
THEOREM SessionCursorInOneHand ==
    ASSUME ProgramsLetGo PROVE Spec => []CursorInOneHand
<1>1. HandsInv => CursorInOneHand
  <2> SUFFICES ASSUME HandsInv, NEW k \in Clients, InSession(k),
                      NEW h \in Hands, hands[k][h].open
               PROVE  /\ hands[k][h].id \in DOMAIN cur
                      /\ cur[hands[k][h].id] # "available"
                      /\ \A g \in Hands \ {h} : hands[k][g].id # hands[k][h].id
    BY DEF CursorInOneHand
  <2>1. HandRight(hands[k][h], cur, daemon.pc)
    BY HandKnown
  <2>2. hands[k][h].id # 0
    BY <2>1 DEF HandRight
  <2>3. \A g \in Hands \ {h} : hands[k][g].id # hands[k][h].id
    BY <2>2, HandKnown
  <2>. QED BY <2>1, <2>2, <2>3 DEF HandRight
<1>2. HandsInv /\ [Next]_vars => HandsInv'
  BY HandsStep
<1>. QED BY <1>1, <1>2, HandsStart, PTL DEF Spec

\* A suspended result set is still there, and suspended, when its client comes
\* back: neither suspendSession nor any request of the client releases it.
THEOREM SessionSuspendedResultSetsKept ==
    ASSUME ProgramsLetGo PROVE Spec => []SuspendedResultSetsKept
<1>1. HandsInv => SuspendedResultSetsKept
  <2> SUFFICES ASSUME HandsInv, NEW k \in Clients, NEW h \in Hands,
                      hands[k][h].parked, home[k] = daemon.session,
                      daemon.pc = "suspended" \/ InSession(k)
               PROVE  /\ hands[k][h].id \in DOMAIN cur
                      /\ cur[hands[k][h].id] = "suspended"
    BY DEF SuspendedResultSetsKept
  <2>1. HandRight(hands[k][h], cur, daemon.pc)
    BY DEF HandsInv, HandsRight, Holder, InSession
  <2>. QED BY <2>1 DEF HandRight
<1>2. HandsInv /\ [Next]_vars => HandsInv'
  BY HandsStep
<1>. QED BY <1>1, <1>2, HandsStart, PTL DEF Spec

-----------------------------------------------------------------------------
\* Premise: where a cursor may fail to open, the pool grows by one at a time.
FailsAlone == \A d \in Deployments : d.failures # 0 => d.growby = 1

\* A client hears that no cursor is available only if none is: the growth of the
\* pool opens one if there may be one more, whatever wraps around, and leaves
\* none behind that nobody uses.
THEOREM SessionRefusedOnlyWhenFull ==
    ASSUME FailsAlone PROVE Spec => RefusedOnlyWhenFull
<1> DEFINE Refusal == \A k \in Clients, h \in Hands :
                GrowFails(k, h) \/ NoAvailableCursors(k, h)
                => /\ "available" \notin Range(cur')
                   /\ Len(cur') = dep.maxcursors \/ failures' # failures
<1>1. TypeOK => Refusal
  <2> SUFFICES ASSUME TypeOK, NEW k \in Clients, NEW h \in Hands,
                      GrowFails(k, h) \/ NoAvailableCursors(k, h)
               PROVE  /\ "available" \notin Range(cur')
                      /\ Len(cur') = dep.maxcursors \/ failures' # failures
    OBVIOUS
  <2>1. cur \in Seq(States) /\ Len(cur) \in Nat /\ failures \in Nat
      /\ dep \in Deployments /\ dep.maxcursors \in Nat /\ dep.failures \in Nat
    BY Typed DEF TypeOK
  <2>2. \A i \in DOMAIN cur : cur[i] # "available"
    BY DEF GrowFails, NoAvailableCursors, Available
  <2>3. CASE GrowFails(k, h)
    <3>1. dep.growby = 1 /\ Len(cur) < dep.maxcursors /\ failures' # failures
      BY <2>1, <2>3 DEF GrowFails, FailsAlone
    <3>2. ExpandTo = Len(cur) + 1
      <4>1. dep.maxcursors < CounterSize /\ CounterSize \in Nat
        BY <2>1, SessionAssumption
      <4>2. (Len(cur) + 1) % CounterSize = Len(cur) + 1
        BY <2>1, <3>1, <4>1
      <4>. QED BY <2>1, <3>1, <4>1, <4>2 DEF ExpandTo, Least
    <3>3. cur' = Grown(0)
      BY <2>1, <2>3, <3>2 DEF GrowFails, Opened
    <3>4. cur' \in Seq(States) /\ DOMAIN cur' = DOMAIN cur
        /\ \A i \in DOMAIN cur : cur'[i] = cur[i]
      BY <2>1, <3>3, GrownKeeps
    <3>. QED BY <2>2, <3>1, <3>4 DEF Range
  <2>4. CASE NoAvailableCursors(k, h)
    <3>1. Len(cur) = dep.maxcursors
      BY <2>1, <2>4, Typed, GrowsWithinLimit DEF NoAvailableCursors
    <3>2. cur' = cur
      BY <2>4 DEF NoAvailableCursors
    <3>. QED BY <2>2, <3>1, <3>2 DEF Range
  <2>. QED BY <2>3, <2>4
<1>2. TypeOK /\ [Next]_vars => [Refusal]_vars
  BY <1>1
<1>. QED BY <1>2, SessionTypeCorrect, PTL DEF Spec, RefusedOnlyWhenFull
=============================================================================
