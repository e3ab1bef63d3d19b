---------------------------- MODULE RouterProofs ----------------------------
(***************************************************************************)
(* Proofs about Router, for any daemons, backends and deployments.         *)
(***************************************************************************)
EXTENDS Router, TLAPS

\* What a call does to the session on one backend.
LEMMA AfterFields ==
    ASSUME dep \in Deployment, NEW b \in Backends, NEW call \in Calls,
           NEW l \in Link
    PROVE  /\ After(call, l, b) \in Link
           /\ After(call, l, b).work <=> (l.work /\ call \in {"begin", "off"})
           /\ After(call, l, b).fate =
                IF ~l.work \/ call \in {"begin", "off"} THEN l.fate
                ELSE IF call = "rollback" THEN "rolledback" ELSE "committed"
           /\ After(call, l, b).open <=>
                (call \in {"begin", "off"}
                 \/ (call \in {"commit", "rollback"} /\ l.open
                     /\ b \in dep.implicit))
<1>1. CASE call = "begin"
  <2>1. After(call, l, b) = [l EXCEPT !.connected = TRUE, !.open = TRUE]
    BY <1>1 DEF After, Link
  <2>. QED BY <1>1, <2>1 DEF Link
<1>2. CASE call = "commit"
  BY <1>2 DEF After, Over, Link, Calls
<1>3. CASE call = "rollback"
  BY <1>3 DEF After, Over, Link, Calls
<1>4. CASE call = "on"
  BY <1>4 DEF After, Over, Link, Calls
<1>5. CASE call = "off"
  <2>1. After(call, l, b) = [l EXCEPT !.connected = TRUE, !.open = TRUE]
    BY <1>5 DEF After, Link
  <2>. QED BY <1>5, <2>1 DEF Link
<1>. QED BY <1>1, <1>2, <1>3, <1>4, <1>5 DEF Calls

\* The backends on which a call fails.
Failed(call, c, F) == {b \in Targets(c) : <<call, b>> \in F}

\* What a call on several backends does to the daemon.
LEMMA CallFields ==
    ASSUME dep \in Deployment, NEW call \in Calls, NEW c \in Conn, NEW F,
           NEW r, r = Call(call, c, F)
    PROVE  /\ r.auto = c.auto /\ r.needs = c.needs /\ r.home = c.home
           /\ r.current = Routed(c).current
           /\ r.ok <=> Failed(call, c, F) = {}
           /\ r.disable <=>
                c.disable \/ (Failed(call, c, F) # {} /\ ~RoutedOne(c))
           /\ r.failed <=> c.failed \/ Failed(call, c, F) # {}
           /\ \A b \in Backends : r.link[b] =
                IF b \in Targets(c) \ Failed(call, c, F)
                THEN After(call, c.link[b], b) ELSE c.link[b]
<1>1. r = [Routed(c) EXCEPT
             !.ok = Failed(call, c, F) = {},
             !.disable = @ \/ (Failed(call, c, F) # {} /\ ~RoutedOne(c)),
             !.failed = @ \/ Failed(call, c, F) # {},
             !.link = [b \in Backends |->
                IF b \in Targets(c) \ Failed(call, c, F)
                THEN After(call, @[b], b) ELSE @[b]]]
  BY DEF Call, Failed
<1>2. /\ r.ok = (Failed(call, c, F) = {})
      /\ r.disable = (c.disable \/ (Failed(call, c, F) # {} /\ ~RoutedOne(c)))
      /\ r.failed = (c.failed \/ Failed(call, c, F) # {})
  BY <1>1 DEF Conn, Routed
<1>3. /\ r.auto = c.auto /\ r.needs = c.needs /\ r.home = c.home
      /\ r.current = Routed(c).current
      /\ \A b \in Backends : r.link[b] =
                IF b \in Targets(c) \ Failed(call, c, F)
                THEN After(call, c.link[b], b) ELSE c.link[b]
  BY <1>1 DEF Conn, Routed
<1>. QED BY <1>2, <1>3

LEMMA CallType ==
    ASSUME dep \in Deployment, NEW call \in Calls, NEW c \in Conn, NEW F
    PROVE  Call(call, c, F) \in Conn
<1> DEFINE targets == Targets(c)
           failing == Failed(call, c, F)
           link == [b \in Backends |->
                IF b \in targets \ failing THEN After(call, c.link[b], b)
                ELSE c.link[b]]
<1>1. link \in [Backends -> Link]
  <2>1. \A b \in Backends : c.link[b] \in Link
    BY DEF Conn
  <2>. QED BY <2>1, AfterFields
<1>2. Routed(c) \in Conn
  BY DEF Routed, Conn
<1>3. Call(call, c, F) =
        [Routed(c) EXCEPT !.ok = failing = {},
                          !.disable = c.disable \/ (failing # {} /\ ~RoutedOne(c)),
                          !.failed = c.failed \/ failing # {},
                          !.link = link]
  BY DEF Call, Routed, Conn, Failed
<1>4. /\ (failing = {}) \in BOOLEAN
      /\ (c.disable \/ (failing # {} /\ ~RoutedOne(c))) \in BOOLEAN
      /\ (c.failed \/ failing # {}) \in BOOLEAN
  BY DEF Conn
<1> HIDE DEF link, failing
<1>. QED BY <1>1, <1>2, <1>3, <1>4 DEF Conn

\* The controller's operations keep the daemon's record a record of its kind.
LEMMA EndTransactionType ==
    ASSUME dep \in Deployment, NEW c \in Conn, NEW F
    PROVE  /\ EndTransaction(c, F) \in Conn
           /\ EndTransaction(c, F).ok /\ EndTransaction(c, F).auto
           /\ ~EndTransaction(c, F).needs
           /\ EndTransaction(c, F).home = c.home
           /\ EndTransaction(c, F).current = Call("on", c, F).current
           /\ EndTransaction(c, F).disable = Call("on", c, F).disable
           /\ EndTransaction(c, F).failed = Call("on", c, F).failed
           /\ EndTransaction(c, F).link = Call("on", c, F).link
<1>1. Call("on", c, F) \in Conn
  <2>1. "on" \in Calls
    BY DEF Calls
  <2>. QED BY <2>1, CallType
<1>3. Call("on", c, F).home = c.home
  <2>1. "on" \in Calls
    BY DEF Calls
  <2>. QED BY <2>1, CallFields
<1>2. ASSUME NEW d \in Conn
      PROVE  LET r == [d EXCEPT !.ok = TRUE, !.auto = TRUE, !.needs = FALSE]
             IN  /\ r \in Conn /\ r.ok /\ r.auto /\ ~r.needs
                 /\ r.home = d.home /\ r.current = d.current
                 /\ r.disable = d.disable /\ r.failed = d.failed
                 /\ r.link = d.link
  BY DEF Conn
<1>. QED BY <1>1, <1>2, <1>3 DEF EndTransaction

Endings == {"commit", "rollback", "on"}

LEMMA EndType ==
    ASSUME dep \in Deployment, NEW call \in Endings, NEW c \in Conn, NEW F
    PROVE  End(call, c, F) \in Conn
<1>1. Call(call, c, F) \in Conn
  BY CallType DEF Endings, Calls
<1>2. EndTransaction(Call(call, c, F), F) \in Conn
  BY <1>1, EndTransactionType
<1>3. Succeed(c) \in Conn
  BY DEF Succeed, Conn
<1>. QED BY <1>1, <1>2, <1>3 DEF End, Bail

LEMMA BeginType ==
    ASSUME dep \in Deployment, NEW call \in {"begin", "off"}, NEW c \in Conn,
           NEW F
    PROVE  Begin(call, c, F) \in Conn
<1>1. Call(call, c, F) \in Conn
  BY CallType DEF Calls
<1>2. [Call(call, c, F) EXCEPT !.auto = FALSE] \in Conn
  BY <1>1 DEF Conn
<1>3. Succeed(c) \in Conn
  BY DEF Succeed, Conn
<1>. QED BY <1>1, <1>2, <1>3 DEF Begin, Bail

LEMMA CloseType ==
    ASSUME dep \in Deployment, NEW c \in Conn
    PROVE  /\ CloseSessions(c) \in Conn
           /\ CloseSessions(c).current = None
           /\ CloseSessions(c).auto = c.auto /\ CloseSessions(c).ok = c.ok
           /\ CloseSessions(c).needs = c.needs
           /\ CloseSessions(c).home = c.home
           /\ CloseSessions(c).disable = c.disable
           /\ CloseSessions(c).failed = c.failed
           /\ \A b \in Backends : CloseSessions(c).link[b] =
                IF b \in Targets(c) THEN Closed(c, b) ELSE c.link[b]
<1> DEFINE link == [b \in Backends |->
                IF b \in Targets(c) THEN Closed(c, b) ELSE c.link[b]]
<1>1. \A b \in Backends : Closed(c, b) \in Link
  <2>1. \A b \in Backends : c.link[b] \in Link /\ NewLink(b) \in Link
    BY DEF Conn, NewLink, Link
  <2>. QED BY <2>1 DEF Closed, Over, Link
<1>2. link \in [Backends -> Link]
  BY <1>1 DEF Conn
<1>3. CloseSessions(c) = [c EXCEPT !.current = None, !.link = link]
  BY DEF CloseSessions, Conn
<1> HIDE DEF link
<1>4. CloseSessions(c) \in Conn
  BY <1>2, <1>3 DEF Conn
<1>5. CloseSessions(c).link = link
  BY <1>3 DEF Conn
<1>6. /\ CloseSessions(c).current = None
      /\ CloseSessions(c).auto = c.auto /\ CloseSessions(c).ok = c.ok
      /\ CloseSessions(c).needs = c.needs
      /\ CloseSessions(c).home = c.home
      /\ CloseSessions(c).disable = c.disable
      /\ CloseSessions(c).failed = c.failed
  BY <1>3 DEF Conn
<1>. QED BY <1>4, <1>5, <1>6 DEF link

LEMMA SetAutoCommitType ==
    ASSUME dep \in Deployment, NEW on \in BOOLEAN, NEW c \in Conn, NEW F
    PROVE  SetAutoCommit(on, c, F) \in Conn
BY EndType, BeginType DEF SetAutoCommit, Endings

LEMMA EndWorkType ==
    ASSUME dep \in Deployment, NEW c \in Conn, NEW F
    PROVE  EndWork(c, F) \in Conn
BY EndType DEF EndWork, AtEnd, Endings

LEMMA EndOfSessionType ==
    ASSUME dep \in Deployment, NEW c \in Conn, NEW F
    PROVE  EndOfSession(c, F) \in Conn /\ EndOfSession(c, F).current = None
<1>1. EndWork(c, F) \in Conn
  BY EndWorkType
<1>2. dep.auto \in BOOLEAN
  BY DEF Deployment
<1>3. SetAutoCommit(dep.auto, EndWork(c, F), {}) \in Conn
  BY <1>1, <1>2, SetAutoCommitType
<1>. QED BY <1>3, CloseType DEF EndOfSession

\* A query leaves everything but the work on its backend, and currentcon, as is.
LEMMA QueryType ==
    ASSUME NEW c \in Conn, NEW b \in Backends
    PROVE  LET r == Query(c, b)
           IN  /\ r \in Conn
               /\ r.auto = c.auto /\ r.home = c.home /\ r.disable = c.disable
               /\ r.failed = c.failed /\ r.current = b /\ r.ok /\ r.needs
               /\ \A x \in Backends :
                    /\ r.link[x].open = c.link[x].open
                    /\ r.link[x].fate = c.link[x].fate
                    /\ r.link[x].work =
                         IF x = b THEN c.link[x].open ELSE c.link[x].work
<1> DEFINE l == [c.link EXCEPT ![b] = [@ EXCEPT !.connected = TRUE,
                                                !.work = c.link[b].open]]
<1>1. l \in [Backends -> Link]
  BY DEF Conn, Link
<1>2. Query(c, b) = [c EXCEPT !.ok = TRUE, !.needs = TRUE, !.current = b,
                              !.link = l]
  BY DEF Query, Conn
<1>3. \A x \in Backends :
        /\ l[x].open = c.link[x].open
        /\ l[x].fate = c.link[x].fate
        /\ l[x].work = IF x = b THEN c.link[x].open ELSE c.link[x].work
  BY DEF Conn, Link
<1> HIDE DEF l
<1>4. Query(c, b) \in Conn
  BY <1>1, <1>2 DEF Conn
<1>5. Query(c, b).link = l
  BY <1>2 DEF Conn
<1>6. LET r == Query(c, b)
      IN  /\ r.auto = c.auto /\ r.home = c.home /\ r.disable = c.disable
          /\ r.failed = c.failed /\ r.current = b /\ r.ok /\ r.needs
  BY <1>2 DEF Conn
<1>. QED BY <1>3, <1>4, <1>5, <1>6

\* A command starts with what became of earlier work forgotten.
LEMMA AskedType ==
    ASSUME TypeOK, NEW d \in Daemons
    PROVE  /\ Asked(d) \in Conn /\ conn[d] \in Conn
           /\ Asked(d).auto = conn[d].auto /\ Asked(d).needs = conn[d].needs
           /\ Asked(d).current = conn[d].current /\ Asked(d).home = conn[d].home
           /\ Asked(d).disable = conn[d].disable
           /\ Asked(d).failed = conn[d].failed
           /\ \A b \in Backends :
                /\ Asked(d).link[b].open = conn[d].link[b].open
                /\ Asked(d).link[b].work = conn[d].link[b].work
                /\ Asked(d).link[b].fate = "none"
<1>1. conn[d] \in Conn
  BY DEF TypeOK
<1>2. ASSUME NEW c \in Conn
      PROVE  LET l == [b \in Backends |-> [c.link[b] EXCEPT !.fate = "none"]]
             IN  /\ l \in [Backends -> Link]
                 /\ \A b \in Backends :
                      /\ l[b].open = c.link[b].open
                      /\ l[b].work = c.link[b].work
                      /\ l[b].fate = "none"
  BY DEF Conn, Link
<1>3. ASSUME NEW c \in Conn, NEW l \in [Backends -> Link]
      PROVE  LET r == [c EXCEPT !.link = l]
             IN  /\ r \in Conn /\ r.link = l
                 /\ r.auto = c.auto /\ r.needs = c.needs /\ r.failed = c.failed
                 /\ r.current = c.current /\ r.home = c.home
                 /\ r.disable = c.disable
  BY DEF Conn
<1> DEFINE l == [b \in Backends |-> [conn[d].link[b] EXCEPT !.fate = "none"]]
<1>4. Asked(d) = [conn[d] EXCEPT !.link = l]
  BY <1>1 DEF Asked, Conn
<1>5. /\ l \in [Backends -> Link]
      /\ \A b \in Backends :
                      /\ l[b].open = conn[d].link[b].open
                      /\ l[b].work = conn[d].link[b].work
                      /\ l[b].fate = "none"
  BY <1>1, <1>2
<1> HIDE DEF l
<1>. QED BY <1>1, <1>3, <1>4, <1>5

\* Each command is answered with what one of the operations makes of the daemon.
LEMMA Commands ==
    ASSUME NEW d \in Daemons,
           \/ ClientBegin(d) \/ ClientCommit(d) \/ ClientRollback(d)
           \/ AutoCommitOn(d) \/ AutoCommitOff(d)
    PROVE  /\ pc[d] = "command"
           /\ \E F :
                /\ F # {} => failures < dep.failures
                /\ \/ \E call \in Endings :
                        Answer(d, call, "check", End(call, Asked(d), F), F)
                   \/ \E call \in {"begin", "off"} :
                        Answer(d, call, "check", Begin(call, Asked(d), F), F)
<1>1. CASE ClientBegin(d)
  BY <1>1 DEF ClientBegin, Failing
<1>2. CASE ClientCommit(d)
  BY <1>2 DEF ClientCommit, Failing, Endings
<1>3. CASE ClientRollback(d)
  BY <1>3 DEF ClientRollback, Failing, Endings
<1>4. CASE AutoCommitOn(d)
  BY <1>4 DEF AutoCommitOn, Failing, Endings
<1>5. CASE AutoCommitOff(d)
  BY <1>5 DEF AutoCommitOff, Failing
<1>. QED BY <1>1, <1>2, <1>3, <1>4, <1>5

\* The end of a session that had no calls, and logging in.
LEMMA LoggedInType ==
    ASSUME dep \in Deployment
    PROVE  /\ LoggedIn \in Conn /\ LoggedIn.current = None
           /\ dep.auto => /\ LoggedIn.auto
                          /\ \A b \in Backends :
                               LoggedIn.link[b] = NewLink(b)
<1> DEFINE fresh == [auto |-> TRUE, needs |-> FALSE, current |-> None,
                     home |-> None, ok |-> TRUE, disable |-> FALSE,
                     failed |-> FALSE, link |-> [b \in Backends |-> NewLink(b)]]
<1>1. fresh \in Conn
  <2>1. \A b \in Backends : NewLink(b) \in Link
    BY DEF NewLink, Link
  <2>. QED BY <2>1 DEF Conn
<1>2. /\ fresh.auto /\ fresh.current = None /\ fresh.home = None
      /\ \A b \in Backends : fresh.link[b] = NewLink(b)
  OBVIOUS
<1>3. LoggedIn = SetAutoCommit(dep.auto, fresh, {})
  BY DEF LoggedIn
<1> HIDE DEF fresh
<1>4. LoggedIn \in Conn
  <2>1. dep.auto \in BOOLEAN
    BY DEF Deployment
  <2>. QED BY <2>1, <1>1, <1>3, SetAutoCommitType
<1>5. CASE dep.auto
  <2>1. LoggedIn = Succeed(fresh)
    BY <1>2, <1>3, <1>5 DEF SetAutoCommit, End
  <2>2. /\ Succeed(fresh).auto = fresh.auto /\ Succeed(fresh).link = fresh.link
        /\ Succeed(fresh).current = fresh.current
    BY <1>1 DEF Succeed, Conn
  <2>. QED BY <1>2, <1>4, <2>1, <2>2
<1>6. CASE ~dep.auto
  <2> DEFINE r == Call("off", fresh, {})
  <2>1. LoggedIn = Bail(r, [r EXCEPT !.auto = FALSE])
    BY <1>2, <1>3, <1>6 DEF SetAutoCommit, Begin
  <2>2. r \in Conn
    <3>1. "off" \in Calls
      BY DEF Calls
    <3>. QED BY <1>1, <3>1, CallType
  <2>3. r.current = Routed(fresh).current
    <3>1. "off" \in Calls
      BY DEF Calls
    <3>. QED BY <1>1, <3>1, CallFields
  <2>4. Routed(fresh).current = None
    BY <1>1, <1>2 DEF Routed, Conn
  <2> HIDE DEF r
  <2>5. LoggedIn.current = r.current
    BY <2>1, <2>2 DEF Bail, Conn
  <2>. QED BY <1>4, <1>6, <2>3, <2>4, <2>5
<1>. QED BY <1>5, <1>6

\* An answered command leaves the daemon with the answer, the instance disabled
\* if it asks for that, and one more command that met failures, if it did.
LEMMA AnswerType ==
    ASSUME TypeOK, NEW d \in Daemons, NEW name \in Calls \cup {"query", "end"},
           NEW next \in {"idle", "check"}, NEW answer \in Conn,
           next = "idle" => answer.current = None,
           NEW F, F # {} => failures < dep.failures,
           Answer(d, name, next, answer, F), RouterAssumption
    PROVE  TypeOK'
<1> USE DEF TypeOK, Answer
<1>1. dep' \in Deployments /\ dep \in Deployment
  BY DEF RouterAssumption
<1>2. disabled' \in BOOLEAN
  BY DEF Conn
<1>3. /\ conn' \in [Daemons -> Conn]
      /\ conn'[d].current = answer.current
      /\ \A x \in Daemons : x # d => conn'[x] = conn[x]
  <2>1. /\ [answer EXCEPT !.disable = FALSE] \in Conn
        /\ [answer EXCEPT !.disable = FALSE].current = answer.current
    BY DEF Conn
  <2>. QED BY <2>1
<1>4. pc' \in [Daemons -> {"idle", "check", "command"}]
  OBVIOUS
<1>5. \A x \in Daemons : pc'[x] = "idle" => conn'[x].current = None
  BY <1>3
<1>6. last' \in [Daemons -> Calls \cup {"none", "query", "end"}]
  OBVIOUS
<1>7. failures' \in 0 .. dep'.failures
  BY <1>1 DEF Deployment
<1>. QED BY <1>1, <1>2, <1>3, <1>4, <1>5, <1>6, <1>7

\* Types; between sessions a daemon has forgotten the backend it routed to.
THEOREM RouterTypeCorrect == Spec => []TypeOK
<1> USE RouterAssumption
<1>1. Init => TypeOK
  <2> SUFFICES ASSUME Init PROVE TypeOK
    OBVIOUS
  <2>1. dep \in Deployment
    BY DEF Init, RouterAssumption
  <2>2. LoggedIn \in Conn /\ LoggedIn.current = None
    BY <2>1, LoggedInType
  <2>3. failures \in 0 .. dep.failures
    BY <2>1 DEF Init, Deployment
  <2>. QED BY <2>2, <2>3 DEF Init, TypeOK
<1>2. TypeOK /\ [Next]_vars => TypeOK'
  <2> SUFFICES ASSUME TypeOK, [Next]_vars PROVE TypeOK'
    OBVIOUS
  <2>0. dep \in Deployment
    BY DEF TypeOK, RouterAssumption
  <2>1. ASSUME NEW d \in Daemons, BeginSession(d) PROVE TypeOK'
    <3>1. PICK b \in Backends : conn' =
              [conn EXCEPT ![d] = [@ EXCEPT
                  !.needs = FALSE, !.failed = FALSE, !.ok = TRUE,
                  !.home = IF dep.entire THEN b ELSE None]]
      BY <2>1 DEF BeginSession
    <3>2. conn' \in [Daemons -> Conn]
      <4>1. conn[d] \in Conn
        BY DEF TypeOK
      <4>2. [conn[d] EXCEPT !.needs = FALSE, !.failed = FALSE, !.ok = TRUE,
                            !.home = IF dep.entire THEN b ELSE None] \in Conn
        BY <4>1 DEF Conn
      <4>. QED BY <3>1, <4>2 DEF TypeOK
    <3>3. \A x \in Daemons : x # d => conn'[x] = conn[x]
      BY <3>1 DEF TypeOK
    <3>. QED BY <2>1, <3>2, <3>3 DEF TypeOK, BeginSession
  <2>2. ASSUME NEW d \in Daemons, WaitForCommand(d) PROVE TypeOK'
    BY <2>2 DEF TypeOK, WaitForCommand
  <2>3. ASSUME NEW d \in Daemons, EndSession(d) PROVE TypeOK'
    <3>1. PICK F \in Failing({AtEnd, "on"}) :
              Answer(d, "end", "idle", EndOfSession(Asked(d), F), F)
      BY <2>3 DEF EndSession
    <3>2. /\ EndOfSession(Asked(d), F) \in Conn
          /\ EndOfSession(Asked(d), F).current = None
      BY <2>0, AskedType, EndOfSessionType
    <3>3. F # {} => failures < dep.failures
      BY DEF Failing
    <3>. QED BY <3>1, <3>2, <3>3, AnswerType
  <2>4. ASSUME NEW d \in Daemons,
               \/ ClientBegin(d) \/ ClientCommit(d) \/ ClientRollback(d)
               \/ AutoCommitOn(d) \/ AutoCommitOff(d)
        PROVE  TypeOK'
    <3>1. PICK F :
                /\ F # {} => failures < dep.failures
                /\ \/ \E call \in Endings :
                        Answer(d, call, "check", End(call, Asked(d), F), F)
                   \/ \E call \in {"begin", "off"} :
                        Answer(d, call, "check", Begin(call, Asked(d), F), F)
      BY <2>4, Commands
    <3>2. ASSUME NEW call \in Endings,
                 Answer(d, call, "check", End(call, Asked(d), F), F)
          PROVE  TypeOK'
      <4>1. End(call, Asked(d), F) \in Conn
        BY <2>0, AskedType, EndType
      <4>2. call \in Calls
        BY DEF Endings, Calls
      <4>. QED BY <3>1, <3>2, <4>1, <4>2, AnswerType
    <3>3. ASSUME NEW call \in {"begin", "off"},
                 Answer(d, call, "check", Begin(call, Asked(d), F), F)
          PROVE  TypeOK'
      <4>1. Begin(call, Asked(d), F) \in Conn
        BY <2>0, AskedType, BeginType
      <4>2. call \in Calls
        BY DEF Calls
      <4>. QED BY <3>1, <3>3, <4>1, <4>2, AnswerType
    <3>. QED BY <3>1, <3>2, <3>3
  <2>5. ASSUME NEW d \in Daemons, ClientQuery(d) PROVE TypeOK'
    <3>1. PICK b \in Backends :
              Answer(d, "query", "check", Query(Asked(d), b), {})
      BY <2>5 DEF ClientQuery
    <3>2. Query(Asked(d), b) \in Conn
      BY AskedType, QueryType
    <3>. QED BY <3>1, <3>2, AnswerType
  <2>6. CASE UNCHANGED vars
    BY <2>6 DEF vars, TypeOK
  <2>. QED BY <2>1, <2>2, <2>3, <2>4, <2>5, <2>6 DEF Next
<1>. QED BY <1>1, <1>2, PTL DEF Spec

-----------------------------------------------------------------------------
(* Transactions in parallel, for backends with the explicit model. *)

\* The backends that the queries of a session may go to.
Reach(c, q) == {b \in Backends : q.entire => b = c.home}
Homed(c, q) == q.entire => c.home # None

\* The backends that are reached are in a transaction exactly when the
\* controller is.
Parallel(c, q) == \A b \in Reach(c, q) : c.link[b].open <=> ~c.auto

\* A session that has not been routed has nothing open, and there is work only in
\* an open transaction of a backend that is reached, with a commit or rollback
\* to come.
Sound(c, q) ==
    /\ q.entire /\ c.current = None => \A b \in Backends : ~c.link[b].open
    /\ \A b \in Backends : c.link[b].work =>
          c.link[b].open /\ c.needs /\ b \in Reach(c, q)

AllClosed(c) == \A b \in Backends : ~c.link[b].open

Outcome(call) == IF call = "rollback" THEN "rolledback" ELSE "committed"

LEMMA CallSound ==
    ASSUME dep \in Deployment, dep.implicit = {}, NEW call \in Calls,
           NEW c \in Conn, Sound(c, dep), Homed(c, dep), NEW F
    PROVE  /\ Sound(Call(call, c, F), dep)
           /\ Homed(Call(call, c, F), dep)
           /\ dep.entire => ~RoutedOne(Call(call, c, F))
<1> DEFINE r == Call(call, c, F)
<1>1. /\ r.needs = c.needs /\ r.home = c.home
      /\ r.current = Routed(c).current
      /\ \A b \in Backends : r.link[b] =
                    IF b \in Targets(c) \ Failed(call, c, F)
                    THEN After(call, c.link[b], b) ELSE c.link[b]
  BY CallFields
<1> HIDE DEF r
<1>2. dep.entire => r.current # None
  <2>1. dep.entire => Routed(c).current # None
    BY DEF Routed, Homed, Conn
  <2>. QED BY <1>1, <2>1
<1>3. \A b \in Backends : c.link[b] \in Link
  BY DEF Conn
<1>4. ASSUME NEW b \in Backends, r.link[b].work
      PROVE  c.link[b].work /\ r.link[b].open
  <2>1. CASE r.link[b] = c.link[b]
    BY <1>4, <2>1 DEF Sound
  <2>2. CASE r.link[b] = After(call, c.link[b], b)
    BY <1>3, <1>4, <2>2, AfterFields
  <2>. QED BY <1>1, <2>1, <2>2
<1>5. Sound(r, dep)
  BY <1>1, <1>2, <1>4 DEF Sound, Reach
<1>. QED BY <1>1, <1>2, <1>5 DEF r, Homed, RoutedOne

\* A commit, a rollback or autocommit that succeeds everywhere ends all the
\* transactions, with all their work.
LEMMA CallEnds ==
    ASSUME dep \in Deployment, dep.implicit = {}, NEW call \in Endings,
           NEW c \in Conn, Sound(c, dep), Homed(c, dep), NEW F,
           Call(call, c, F).ok
    PROVE  /\ AllClosed(Call(call, c, F))
           /\ \A b \in Backends :
                /\ ~Call(call, c, F).link[b].work
                /\ Call(call, c, F).link[b].fate =
                     IF c.link[b].work THEN Outcome(call) ELSE c.link[b].fate
<1> DEFINE r == Call(call, c, F)
<1>0. call \in Calls
  BY DEF Endings, Calls
<1>1. /\ r.ok <=> Failed(call, c, F) = {}
      /\ \A b \in Backends : r.link[b] =
                    IF b \in Targets(c) \ Failed(call, c, F)
                    THEN After(call, c.link[b], b) ELSE c.link[b]
  BY <1>0, CallFields
<1>2. Failed(call, c, F) = {}
  BY <1>1
<1> HIDE DEF r
<1>3. ASSUME NEW b \in Backends
      PROVE  /\ ~r.link[b].open /\ ~r.link[b].work
             /\ r.link[b].fate =
                     IF c.link[b].work THEN Outcome(call) ELSE c.link[b].fate
  <2>0. c.link[b] \in Link
    BY DEF Conn
  <2>1. CASE b \in Targets(c)
    <3>1. r.link[b] = After(call, c.link[b], b)
      BY <1>1, <1>2, <2>1
    <3>2. call \notin {"begin", "off"}
      BY DEF Endings
    <3>. QED BY <1>0, <2>0, <3>1, <3>2, AfterFields DEF Outcome
  <2>2. CASE b \notin Targets(c)
    <3>1. r.link[b] = c.link[b]
      BY <1>1, <2>2
    <3>2. dep.entire /\ c.current = None
      BY <2>2 DEF Targets, RoutedOne
    <3>3. ~c.link[b].open /\ ~c.link[b].work
      BY <3>2 DEF Sound
    <3>. QED BY <3>1, <3>3
  <2>. QED BY <2>1, <2>2
<1>. QED BY <1>3 DEF r, AllClosed

\* The backends' return to autocommit changes nothing where nothing is open.
LEMMA EndTransactionSound ==
    ASSUME dep \in Deployment, dep.implicit = {}, NEW c \in Conn,
           Sound(c, dep), Homed(c, dep), NEW F, AllClosed(c)
    PROVE  /\ AllClosed(EndTransaction(c, F))
           /\ Sound(EndTransaction(c, F), dep)
           /\ \A b \in Backends :
                /\ ~EndTransaction(c, F).link[b].work
                /\ EndTransaction(c, F).link[b].fate = c.link[b].fate
           /\ c.failed => EndTransaction(c, F).failed
<1> DEFINE d == Call("on", c, F)
<1>0. "on" \in Calls
  BY DEF Calls
<1>1. /\ \A b \in Backends : d.link[b] =
             IF b \in Targets(c) \ Failed("on", c, F)
             THEN After("on", c.link[b], b) ELSE c.link[b]
      /\ d.failed <=> c.failed \/ Failed("on", c, F) # {}
  BY <1>0, CallFields
<1>2. EndTransaction(c, F).link = d.link
      /\ EndTransaction(c, F).failed = d.failed
  BY EndTransactionType
<1> HIDE DEF d
<1>3. ASSUME NEW b \in Backends
      PROVE  /\ ~d.link[b].open /\ ~d.link[b].work
             /\ d.link[b].fate = c.link[b].fate
  <2>1. c.link[b] \in Link /\ ~c.link[b].open /\ ~c.link[b].work
    BY DEF Conn, Sound, AllClosed
  <2>2. /\ ~After("on", c.link[b], b).open /\ ~After("on", c.link[b], b).work
        /\ After("on", c.link[b], b).fate = c.link[b].fate
    BY <1>0, <2>1, AfterFields
  <2>. QED BY <1>1, <2>1, <2>2
<1>. QED BY <1>1, <1>2, <1>3 DEF AllClosed, Sound

\* A transaction that is ended, in the controller's eyes, is ended everywhere, or
\* the instance is to be disabled.
LEMMA EndSound ==
    ASSUME dep \in Deployment, dep.implicit = {}, NEW call \in Endings,
           NEW c \in Conn, Sound(c, dep), Homed(c, dep), NEW F
    PROVE  LET r == End(call, c, F)
           IN  /\ Sound(r, dep) /\ Homed(r, dep)
               /\ c.failed => r.failed
               /\ ~r.failed => r.ok
               /\ F = {} => r.ok
               /\ r.ok => r.auto
               /\ Parallel(c, dep) =>
                    Parallel(r, dep) \/ (r.failed /\ r.disable)
               /\ ~r.ok /\ ~dep.entire => r.disable
               /\ r.ok /\ Parallel(c, dep) => \A b \in Backends :
                    /\ ~r.link[b].work
                    /\ r.link[b].fate = IF c.link[b].work THEN Outcome(call)
                                        ELSE c.link[b].fate
<1> DEFINE r == End(call, c, F)
           d == Call(call, c, F)
<1>0. call \in Calls
  BY DEF Endings, Calls
<1>1. CASE c.auto
  <2>1. /\ r.ok /\ r.auto = c.auto /\ r.needs = c.needs /\ r.home = c.home
        /\ r.link = c.link /\ r.current = c.current /\ r.failed = c.failed
    <3>1. r = Succeed(c)
      BY <1>1 DEF End
    <3>. HIDE DEF r
    <3>. QED BY <3>1 DEF Succeed, Conn
  <2>2. Sound(r, dep) /\ Homed(r, dep)
    BY <2>1 DEF Sound, Homed, Reach
  <2>3. Parallel(c, dep) => Parallel(r, dep)
    BY <2>1 DEF Parallel, Reach
  <2>4. Parallel(c, dep) => \A b \in Backends : ~c.link[b].work
    BY <1>1 DEF Parallel, Sound
  <2>. QED BY <1>1, <2>1, <2>2, <2>3, <2>4
<1>2. CASE ~c.auto
  <2>1. /\ d \in Conn /\ Sound(d, dep) /\ Homed(d, dep)
    BY <1>0, CallType, CallSound
  <2>2. /\ d.home = c.home
        /\ d.ok <=> Failed(call, c, F) = {}
        /\ d.disable <=> (c.disable \/ (Failed(call, c, F) # {} /\ ~RoutedOne(c)))
        /\ d.failed <=> (c.failed \/ Failed(call, c, F) # {})
    BY <1>0, CallFields
  <2>3. CASE ~d.ok
    <3>1. End(call, c, F) = d
      BY <1>2, <2>3 DEF End, Bail
    <3>2. Failed(call, c, F) # {} /\ F # {}
      BY <2>2, <2>3 DEF Failed
    <3>3. Parallel(c, dep) => ~RoutedOne(c)
      <4>1. Homed(c, dep) /\ Sound(c, dep) /\ c.home \in Backends \cup {None}
        BY DEF Conn
      <4>. QED BY <1>2, <4>1 DEF Parallel, Reach, RoutedOne, Sound, Homed
    <3>4. ~dep.entire => ~RoutedOne(c)
      BY DEF RoutedOne
    <3>. HIDE DEF d
    <3>. QED BY <2>1, <2>2, <2>3, <3>1, <3>2, <3>3, <3>4
  <2>4. CASE d.ok
    <3> DEFINE e == EndTransaction(d, F)
    <3>1. End(call, c, F) = e
      BY <1>2, <2>4 DEF End, Bail
    <3>2. /\ AllClosed(d)
          /\ \A b \in Backends :
                d.link[b].fate =
                     IF c.link[b].work THEN Outcome(call) ELSE c.link[b].fate
      BY <2>4, CallEnds
    <3>3. /\ AllClosed(e) /\ Sound(e, dep) /\ (d.failed => e.failed)
          /\ \A b \in Backends :
                ~e.link[b].work /\ e.link[b].fate = d.link[b].fate
      BY <2>1, <3>2, EndTransactionSound
    <3>4. e.ok /\ e.auto /\ e.home = d.home
      BY <2>1, EndTransactionType
    <3>. HIDE DEF d, e
    <3>5. Homed(e, dep)
      BY <2>1, <3>4 DEF Homed
    <3>6. Parallel(e, dep)
      BY <3>3, <3>4 DEF Parallel, AllClosed, Reach
    <3>. QED BY <2>2, <3>1, <3>2, <3>3, <3>4, <3>5, <3>6
  <2>. QED BY <2>3, <2>4
<1>. QED BY <1>1, <1>2 DEF Conn

\* A transaction that is begun, in the controller's eyes, is begun on every
\* backend that is reached, or the instance is to be disabled.
LEMMA BeginSound ==
    ASSUME dep \in Deployment, dep.implicit = {}, NEW call \in {"begin", "off"},
           NEW c \in Conn, Sound(c, dep), Homed(c, dep), NEW F
    PROVE  LET r == Begin(call, c, F)
           IN  /\ Sound(r, dep) /\ Homed(r, dep)
               /\ c.failed => r.failed
               /\ Parallel(c, dep) =>
                    Parallel(r, dep) \/ (r.failed /\ r.disable)
               /\ ~r.ok /\ ~dep.entire => r.disable
<1> DEFINE d == Call(call, c, F)
<1>0. call \in Calls
  BY DEF Calls
<1>1. CASE ~c.auto
  <2>1. Begin(call, c, F) = Succeed(c)
    BY <1>1 DEF Begin
  <2>2. /\ Succeed(c).ok /\ Succeed(c).auto = c.auto
        /\ Succeed(c).needs = c.needs /\ Succeed(c).home = c.home
        /\ Succeed(c).link = c.link /\ Succeed(c).current = c.current
        /\ Succeed(c).failed = c.failed
    BY DEF Succeed, Conn
  <2>3. Sound(Succeed(c), dep) /\ Homed(Succeed(c), dep)
    BY <2>2 DEF Sound, Homed, Reach
  <2>4. Parallel(c, dep) => Parallel(Succeed(c), dep)
    BY <2>2 DEF Parallel, Reach
  <2>. QED BY <2>1, <2>2, <2>3, <2>4
<1>2. CASE c.auto
  <2>1. /\ d \in Conn /\ Sound(d, dep) /\ Homed(d, dep)
    BY <1>0, CallType, CallSound
  <2>2. /\ d.home = c.home /\ d.auto = c.auto
        /\ d.ok <=> Failed(call, c, F) = {}
        /\ d.disable <=>
             c.disable \/ (Failed(call, c, F) # {} /\ ~RoutedOne(c))
        /\ d.failed <=> c.failed \/ Failed(call, c, F) # {}
        /\ \A b \in Backends : d.link[b] =
             IF b \in Targets(c) \ Failed(call, c, F)
             THEN After(call, c.link[b], b) ELSE c.link[b]
    BY <1>0, CallFields
  <2>3. CASE ~d.ok
    <3>1. Begin(call, c, F) = d
      BY <1>2, <2>3 DEF Begin, Bail
    <3>. HIDE DEF d
    <3>2. ~dep.entire => ~RoutedOne(c)
      BY DEF RoutedOne
    <3>3. Parallel(c, dep) /\ RoutedOne(c) => Parallel(d, dep)
      <4>1. RoutedOne(c) => Reach(d, dep) = {c.home}
        BY <2>2 DEF RoutedOne, Reach, Conn
      <4>2. RoutedOne(c) => Failed(call, c, F) = {c.home}
        BY <2>2, <2>3 DEF Failed, Targets
      <4>3. RoutedOne(c) => d.link[c.home] = c.link[c.home]
        BY <2>2, <4>2 DEF RoutedOne, Conn
      <4>4. RoutedOne(c) => c.home \in Reach(c, dep)
        BY DEF RoutedOne, Reach, Conn
      <4>. QED BY <2>2, <4>1, <4>3, <4>4 DEF Parallel
    <3>4. Parallel(c, dep) => Parallel(d, dep) \/ (d.failed /\ d.disable)
      BY <2>2, <2>3, <3>3
    <3>5. /\ c.failed => d.failed
          /\ ~d.ok /\ ~dep.entire => d.disable
      BY <2>2, <2>3, <3>2
    <3>. QED BY <2>1, <3>1, <3>4, <3>5
  <2>4. CASE d.ok
    <3> DEFINE e == [d EXCEPT !.auto = FALSE]
    <3>1. Begin(call, c, F) = e
      BY <1>2, <2>4 DEF Begin, Bail
    <3>2. /\ ~e.auto /\ e.home = d.home /\ e.link = d.link /\ e.ok = d.ok
          /\ e.failed = d.failed /\ e.needs = d.needs /\ e.current = d.current
      <4>. HIDE DEF d
      <4>. QED BY <2>1 DEF Conn
    <3>3. \A b \in Reach(c, dep) : b \in Targets(c)
      BY DEF Reach, Targets, RoutedOne
    <3>4. ASSUME NEW b \in Reach(c, dep) PROVE d.link[b].open
      <4>1. c.link[b] \in Link /\ b \in Backends
        BY DEF Conn, Reach
      <4>2. After(call, c.link[b], b).open
        BY <1>0, <4>1, AfterFields
      <4>. QED BY <2>2, <2>4, <3>3, <4>1, <4>2
    <3>. HIDE DEF d, e
    <3>5. Sound(e, dep) /\ Homed(e, dep)
      BY <2>1, <3>2 DEF Sound, Homed, Reach
    <3>6. Parallel(e, dep)
      BY <2>2, <3>2, <3>4 DEF Parallel, Reach
    <3>. QED BY <2>2, <2>4, <3>1, <3>2, <3>5, <3>6
  <2>. QED BY <2>3, <2>4
<1>. QED BY <1>1, <1>2 DEF Conn

LEMMA QuerySound ==
    ASSUME dep \in Deployment, NEW c \in Conn, Sound(c, dep), Homed(c, dep),
           NEW b \in Backends, dep.entire => b = c.home
    PROVE  /\ Sound(Query(c, b), dep) /\ Homed(Query(c, b), dep)
           /\ c.failed => Query(c, b).failed
           /\ Parallel(c, dep) => Parallel(Query(c, b), dep)
<1> DEFINE r == Query(c, b)
<1>1. /\ r.auto = c.auto /\ r.home = c.home
      /\ r.failed = c.failed /\ r.current = b /\ r.needs
      /\ \A x \in Backends :
           /\ r.link[x].open = c.link[x].open
           /\ r.link[x].work = IF x = b THEN c.link[x].open ELSE c.link[x].work
  BY QueryType
<1> HIDE DEF r
<1>2. Sound(r, dep)
  <2>1. dep.entire => r.current # None
    BY <1>1 DEF Homed
  <2>2. \A x \in Backends : r.link[x].work => r.link[x].open /\ x \in Reach(r, dep)
    BY <1>1 DEF Sound, Reach
  <2>. QED BY <1>1, <2>1, <2>2 DEF Sound
<1>3. Homed(r, dep) /\ (Parallel(c, dep) => Parallel(r, dep))
  BY <1>1 DEF Homed, Parallel, Reach
<1>. QED BY <1>1, <1>2, <1>3 DEF r

\* The end of the sessions on the backends leaves nothing open anywhere.
LEMMA CloseSound ==
    ASSUME dep \in Deployment, dep.implicit = {}, NEW c \in Conn, Sound(c, dep)
    PROVE  /\ AllClosed(CloseSessions(c)) /\ Sound(CloseSessions(c), dep)
           /\ \A b \in Backends : ~c.link[b].work =>
                CloseSessions(c).link[b].fate = c.link[b].fate
<1> DEFINE r == CloseSessions(c)
<1>1. ASSUME NEW b \in Backends
      PROVE  /\ ~r.link[b].open /\ ~r.link[b].work
             /\ ~c.link[b].work => r.link[b].fate = c.link[b].fate
  <2>1. r.link[b] = IF b \in Targets(c) THEN Closed(c, b) ELSE c.link[b]
    BY CloseType
  <2> HIDE DEF r
  <2>2. c.link[b] \in Link
    BY DEF Conn
  <2>3. CASE b \in Targets(c)
    <3>1. /\ ~Closed(c, b).open /\ ~Closed(c, b).work
          /\ ~c.link[b].work => Closed(c, b).fate = c.link[b].fate
      BY <2>2 DEF Closed, NewLink, Over, Link
    <3>. QED BY <2>1, <2>3, <3>1
  <2>4. CASE b \notin Targets(c)
    <3>1. dep.entire /\ c.current = None
      BY <2>4 DEF Targets, RoutedOne
    <3>. QED BY <2>1, <2>4, <3>1 DEF Sound
  <2>. QED BY <2>3, <2>4
<1>. QED BY <1>1 DEF AllClosed, Sound

\* A session ends with nothing open anywhere, autocommit on and, unless a call
\* failed, all the work ended as the router is configured to end it.
LEMMA EndOfSessionSound ==
    ASSUME dep \in Deployment, dep.implicit = {}, dep.auto,
           NEW c \in Conn, Sound(c, dep), Homed(c, dep), NEW F
    PROVE  LET r == EndOfSession(c, F)
           IN  /\ r.auto /\ AllClosed(r) /\ Sound(r, dep)
               /\ c.failed => r.failed
               /\ Parallel(c, dep) /\ ~r.failed =>
                    \A b \in Backends : c.link[b].work =>
                        r.link[b].fate = IF dep.endcommit THEN "committed"
                                         ELSE "rolledback"
<1> DEFINE w == EndWork(c, F)
           s == End("on", w, {})
<1>1. EndOfSession(c, F) = CloseSessions(s)
  BY DEF EndOfSession, SetAutoCommit
<1>2. AtEnd \in Endings /\ "on" \in Endings
      /\ Outcome(AtEnd) = IF dep.endcommit THEN "committed" ELSE "rolledback"
  BY DEF AtEnd, Endings, Outcome
<1>3. /\ w \in Conn /\ Sound(w, dep) /\ Homed(w, dep)
      /\ c.failed => w.failed
  <2>1. CASE c.needs
    <3>1. w = End(AtEnd, c, F)
      BY <2>1 DEF EndWork
    <3>. QED BY <1>2, <3>1, EndType, EndSound
  <2>2. CASE ~c.needs
    BY <2>2 DEF EndWork
  <2>. QED BY <2>1, <2>2
<1>4. Parallel(c, dep) /\ ~w.failed =>
        /\ Parallel(w, dep)
        /\ \A b \in Backends :
             /\ ~w.link[b].work
             /\ c.link[b].work => w.link[b].fate = Outcome(AtEnd)
  <2>1. CASE c.needs
    <3>1. w = End(AtEnd, c, F)
      BY <2>1 DEF EndWork
    <3>. QED BY <1>2, <3>1, EndSound
  <2>2. CASE ~c.needs
    <3>1. w = c
      BY <2>2 DEF EndWork
    <3>. QED BY <2>2, <3>1 DEF Sound
  <2>. QED BY <2>1, <2>2
<1> HIDE DEF w
<1>5. /\ s \in Conn /\ Sound(s, dep) /\ s.auto /\ (w.failed => s.failed)
  BY <1>2, <1>3, EndType, EndSound
<1>6. Parallel(w, dep) =>
        \A b \in Backends :
             /\ ~s.link[b].work
             /\ ~w.link[b].work => s.link[b].fate = w.link[b].fate
  BY <1>2, <1>3, EndSound
<1> HIDE DEF s
<1>7. /\ CloseSessions(s).auto = s.auto /\ CloseSessions(s).failed = s.failed
      /\ AllClosed(CloseSessions(s)) /\ Sound(CloseSessions(s), dep)
      /\ \A b \in Backends : ~s.link[b].work =>
                CloseSessions(s).link[b].fate = s.link[b].fate
  BY <1>5, CloseType, CloseSound
<1>8. Parallel(c, dep) /\ ~s.failed =>
        \A b \in Backends : c.link[b].work =>
            CloseSessions(s).link[b].fate = Outcome(AtEnd)
  BY <1>4, <1>5, <1>6, <1>7
<1>. QED BY <1>1, <1>2, <1>3, <1>5, <1>7, <1>8

-----------------------------------------------------------------------------
(* The sessions of all daemons. *)

\* The router's autocommit parameter is on and the backends have the explicit
\* model, as the router's own; the client protocols look at the flag.
ExplicitAuto == \A q \in Deployments : q.auto /\ q.implicit = {}
FlagSeen == \A q \in Deployments : q.checks

\* Between sessions a daemon has nothing open and autocommit on; within one it
\* and the backends are in parallel unless a call failed.
RouterInv ==
    \A d \in Daemons :
        /\ Sound(conn[d], dep)
        /\ pc[d] = "idle" => conn[d].auto /\ AllClosed(conn[d])
        /\ pc[d] # "idle" =>
              Homed(conn[d], dep) /\ (Parallel(conn[d], dep) \/ conn[d].failed)

\* A daemon that is out of parallel takes no more commands: its instance is
\* disabled.
FlagInv ==
    \A d \in Daemons :
        /\ pc[d] = "command" => Parallel(conn[d], dep)
        /\ pc[d] = "check" => Parallel(conn[d], dep) \/ disabled

LEMMA AskedSound ==
    ASSUME TypeOK, NEW d \in Daemons
    PROVE  /\ Sound(conn[d], dep) => Sound(Asked(d), dep)
           /\ Homed(conn[d], dep) => Homed(Asked(d), dep)
           /\ Parallel(conn[d], dep) <=> Parallel(Asked(d), dep)
<1>1. /\ Asked(d).auto = conn[d].auto /\ Asked(d).needs = conn[d].needs
      /\ Asked(d).current = conn[d].current /\ Asked(d).home = conn[d].home
      /\ \A b \in Backends :
           /\ Asked(d).link[b].open = conn[d].link[b].open
           /\ Asked(d).link[b].work = conn[d].link[b].work
  BY AskedType
<1>. QED BY <1>1 DEF Sound, Homed, Parallel, Reach

LEMMA AnswerSound ==
    ASSUME TypeOK, NEW d \in Daemons, NEW name, NEW next, NEW answer \in Conn,
           NEW F, Answer(d, name, next, answer, F)
    PROVE  /\ dep' = dep /\ pc'[d] = next /\ last'[d] = name
           /\ \A x \in Daemons : x # d =>
                conn'[x] = conn[x] /\ pc'[x] = pc[x] /\ last'[x] = last[x]
           /\ disabled' <=> disabled \/ answer.disable
           /\ conn'[d].auto = answer.auto /\ conn'[d].ok = answer.ok
           /\ conn'[d].failed = answer.failed /\ conn'[d].link = answer.link
           /\ Sound(answer, dep) => Sound(conn'[d], dep)
           /\ Homed(answer, dep) => Homed(conn'[d], dep)
           /\ Parallel(answer, dep) => Parallel(conn'[d], dep)
           /\ AllClosed(answer) => AllClosed(conn'[d])
<1>1. conn'[d] = [answer EXCEPT !.disable = FALSE]
  BY DEF Answer, TypeOK
<1>2. /\ conn'[d].auto = answer.auto /\ conn'[d].ok = answer.ok
      /\ conn'[d].failed = answer.failed /\ conn'[d].link = answer.link
      /\ conn'[d].needs = answer.needs /\ conn'[d].current = answer.current
      /\ conn'[d].home = answer.home
  BY <1>1 DEF Conn
<1>3. /\ dep' = dep /\ pc'[d] = next /\ last'[d] = name
      /\ \A x \in Daemons : x # d =>
           conn'[x] = conn[x] /\ pc'[x] = pc[x] /\ last'[x] = last[x]
      /\ disabled' = (disabled \/ answer.disable)
  BY DEF Answer, TypeOK
<1>4. /\ Sound(answer, dep) => Sound(conn'[d], dep)
      /\ Homed(answer, dep) => Homed(conn'[d], dep)
      /\ Parallel(answer, dep) => Parallel(conn'[d], dep)
      /\ AllClosed(answer) => AllClosed(conn'[d])
  BY <1>2 DEF Sound, Homed, Parallel, Reach, AllClosed
<1>. QED BY <1>2, <1>3, <1>4

\* A command leaves the daemon and its backends in parallel, or a call has failed
\* and the instance is disabled.
LEMMA CommandSound ==
    ASSUME RouterAssumption, ExplicitAuto, TypeOK, RouterInv,
           NEW d \in Daemons,
           \/ ClientBegin(d) \/ ClientCommit(d) \/ ClientRollback(d)
           \/ AutoCommitOn(d) \/ AutoCommitOff(d) \/ ClientQuery(d)
    PROVE  /\ dep' = dep /\ pc[d] = "command" /\ pc'[d] = "check"
           /\ disabled => disabled'
           /\ \A x \in Daemons : x # d =>
                conn'[x] = conn[x] /\ pc'[x] = pc[x] /\ last'[x] = last[x]
           /\ Sound(conn'[d], dep) /\ Homed(conn'[d], dep)
           /\ conn[d].failed => conn'[d].failed
           /\ Parallel(conn[d], dep) =>
                Parallel(conn'[d], dep) \/ (conn'[d].failed /\ disabled')
<1>0. dep \in Deployment /\ dep.implicit = {} /\ dep.auto
  BY DEF TypeOK, RouterAssumption, ExplicitAuto
<1>1. CASE ClientQuery(d)
  <2>1. pc[d] = "command"
    BY <1>1 DEF ClientQuery
  <2>2. PICK b \in Backends :
            /\ dep.entire => b = conn[d].home
            /\ Answer(d, "query", "check", Query(Asked(d), b), {})
    BY <1>1 DEF ClientQuery
  <2>3. /\ Asked(d) \in Conn /\ Sound(Asked(d), dep) /\ Homed(Asked(d), dep)
        /\ Asked(d).home = conn[d].home
        /\ Asked(d).failed = conn[d].failed
        /\ Parallel(conn[d], dep) <=> Parallel(Asked(d), dep)
    BY <2>1, AskedType, AskedSound DEF RouterInv
  <2>4. /\ Query(Asked(d), b) \in Conn
        /\ Sound(Query(Asked(d), b), dep) /\ Homed(Query(Asked(d), b), dep)
        /\ Asked(d).failed => Query(Asked(d), b).failed
        /\ Parallel(Asked(d), dep) => Parallel(Query(Asked(d), b), dep)
    BY <1>0, <2>2, <2>3, QueryType, QuerySound
  <2>. QED BY <2>1, <2>2, <2>3, <2>4, AnswerSound
<1>2. CASE ~ClientQuery(d)
  <2>1. PICK F :
          /\ F # {} => failures < dep.failures
          /\ \/ \E call \in Endings :
                  Answer(d, call, "check", End(call, Asked(d), F), F)
             \/ \E call \in {"begin", "off"} :
                  Answer(d, call, "check", Begin(call, Asked(d), F), F)
    BY <1>2, Commands
  <2>2. pc[d] = "command"
    BY <1>2, Commands
  <2>3. /\ Asked(d) \in Conn /\ Sound(Asked(d), dep) /\ Homed(Asked(d), dep)
        /\ Asked(d).failed = conn[d].failed
        /\ Parallel(conn[d], dep) <=> Parallel(Asked(d), dep)
    BY <2>2, AskedType, AskedSound DEF RouterInv
  <2> DEFINE Fine(name, answer) ==
          /\ Answer(d, name, "check", answer, F)
          /\ Sound(answer, dep) /\ Homed(answer, dep)
          /\ Asked(d).failed => answer.failed
          /\ Parallel(Asked(d), dep) =>
               Parallel(answer, dep) \/ (answer.failed /\ answer.disable)
  <2>4. PICK name \in Endings \cup {"begin", "off"}, answer \in Conn :
          Fine(name, answer)
    <3>1. ASSUME NEW call \in Endings,
                 Answer(d, call, "check", End(call, Asked(d), F), F)
          PROVE  Fine(call, End(call, Asked(d), F))
                 /\ End(call, Asked(d), F) \in Conn
      <4>1. /\ End(call, Asked(d), F) \in Conn
            /\ Sound(End(call, Asked(d), F), dep)
            /\ Homed(End(call, Asked(d), F), dep)
            /\ Asked(d).failed => End(call, Asked(d), F).failed
            /\ Parallel(Asked(d), dep) =>
                 \/ Parallel(End(call, Asked(d), F), dep)
                 \/ /\ End(call, Asked(d), F).failed
                    /\ End(call, Asked(d), F).disable
        BY <1>0, <2>3, EndType, EndSound
      <4>. QED BY <3>1, <4>1
    <3>2. ASSUME NEW call \in {"begin", "off"},
                 Answer(d, call, "check", Begin(call, Asked(d), F), F)
          PROVE  Fine(call, Begin(call, Asked(d), F))
                 /\ Begin(call, Asked(d), F) \in Conn
      <4>1. /\ Begin(call, Asked(d), F) \in Conn
            /\ Sound(Begin(call, Asked(d), F), dep)
            /\ Homed(Begin(call, Asked(d), F), dep)
            /\ Asked(d).failed => Begin(call, Asked(d), F).failed
            /\ Parallel(Asked(d), dep) =>
                 \/ Parallel(Begin(call, Asked(d), F), dep)
                 \/ /\ Begin(call, Asked(d), F).failed
                    /\ Begin(call, Asked(d), F).disable
        BY <1>0, <2>3, BeginType, BeginSound
      <4>. QED BY <3>2, <4>1
    <3>. QED BY <2>1, <3>1, <3>2
  <2>. QED BY <2>2, <2>3, <2>4, AnswerSound
<1>. QED BY <1>1, <1>2

LEMMA RouterInvariant ==
    ASSUME ExplicitAuto
    PROVE  Spec => []RouterInv
<1> USE RouterAssumption
<1>1. Init => RouterInv
  <2> SUFFICES ASSUME Init PROVE RouterInv
    OBVIOUS
  <2>1. dep \in Deployment /\ dep.auto /\ dep.implicit = {}
    BY DEF Init, RouterAssumption, ExplicitAuto
  <2>2. /\ LoggedIn.auto
        /\ \A b \in Backends : LoggedIn.link[b] = NewLink(b)
    BY <2>1, LoggedInType
  <2>3. \A b \in Backends : ~NewLink(b).open /\ ~NewLink(b).work
    BY <2>1 DEF NewLink
  <2>4. Sound(LoggedIn, dep) /\ AllClosed(LoggedIn)
    BY <2>2, <2>3 DEF Sound, AllClosed
  <2>. QED BY <2>2, <2>4 DEF Init, RouterInv
<1>2. TypeOK /\ RouterInv /\ [Next]_vars => RouterInv'
  <2> SUFFICES ASSUME TypeOK, RouterInv, [Next]_vars PROVE RouterInv'
    OBVIOUS
  <2>0. dep \in Deployment /\ dep.auto /\ dep.implicit = {}
    BY DEF TypeOK, RouterAssumption, ExplicitAuto
  <2>1. ASSUME NEW d \in Daemons, BeginSession(d) PROVE RouterInv'
    <3>1. PICK b \in Backends : conn' =
              [conn EXCEPT ![d] = [@ EXCEPT
                  !.needs = FALSE, !.failed = FALSE, !.ok = TRUE,
                  !.home = IF dep.entire THEN b ELSE None]]
      BY <2>1 DEF BeginSession
    <3>2. /\ conn'[d].auto = conn[d].auto /\ conn'[d].link = conn[d].link
          /\ conn'[d].home = IF dep.entire THEN b ELSE None
          /\ conn'[d].current = conn[d].current
      <4>1. conn[d] \in Conn
        BY DEF TypeOK
      <4>2. conn'[d] = [conn[d] EXCEPT
                  !.needs = FALSE, !.failed = FALSE, !.ok = TRUE,
                  !.home = IF dep.entire THEN b ELSE None]
        BY <3>1 DEF TypeOK
      <4>. QED BY <4>1, <4>2 DEF Conn
    <3>3. /\ conn[d].auto /\ AllClosed(conn[d]) /\ Sound(conn[d], dep)
      BY <2>1 DEF BeginSession, RouterInv
    <3>4. /\ Sound(conn'[d], dep) /\ Parallel(conn'[d], dep)
          /\ Homed(conn'[d], dep)
      BY <3>2, <3>3, RouterAssumption
         DEF Sound, Parallel, Homed, AllClosed, Reach
    <3>5. \A x \in Daemons : x # d => conn'[x] = conn[x] /\ pc'[x] = pc[x]
      BY <2>1, <3>1 DEF TypeOK, BeginSession
    <3>6. pc'[d] = "check" /\ dep' = dep
      BY <2>1 DEF TypeOK, BeginSession
    <3>. QED BY <3>4, <3>5, <3>6 DEF RouterInv
  <2>2. ASSUME NEW d \in Daemons, WaitForCommand(d) PROVE RouterInv'
    BY <2>2 DEF TypeOK, WaitForCommand, RouterInv
  <2>3. ASSUME NEW d \in Daemons, EndSession(d) PROVE RouterInv'
    <3>1. PICK F \in Failing({AtEnd, "on"}) :
              Answer(d, "end", "idle", EndOfSession(Asked(d), F), F)
      BY <2>3 DEF EndSession
    <3>2. /\ Asked(d) \in Conn /\ Sound(Asked(d), dep) /\ Homed(Asked(d), dep)
      BY <2>3, AskedType, AskedSound DEF RouterInv, EndSession
    <3>3. /\ EndOfSession(Asked(d), F) \in Conn
          /\ EndOfSession(Asked(d), F).auto
          /\ AllClosed(EndOfSession(Asked(d), F))
          /\ Sound(EndOfSession(Asked(d), F), dep)
      BY <2>0, <3>2, EndOfSessionType, EndOfSessionSound
    <3>4. /\ dep' = dep /\ pc'[d] = "idle"
          /\ conn'[d].auto /\ AllClosed(conn'[d]) /\ Sound(conn'[d], dep)
          /\ \A x \in Daemons : x # d => conn'[x] = conn[x] /\ pc'[x] = pc[x]
      BY <3>1, <3>3, AnswerSound
    <3>. QED BY <3>4 DEF RouterInv
  <2>4. ASSUME NEW d \in Daemons,
               \/ ClientBegin(d) \/ ClientCommit(d) \/ ClientRollback(d)
               \/ AutoCommitOn(d) \/ AutoCommitOff(d) \/ ClientQuery(d)
        PROVE  RouterInv'
    <3>1. /\ dep' = dep /\ pc[d] = "command" /\ pc'[d] = "check"
          /\ \A x \in Daemons : x # d => conn'[x] = conn[x] /\ pc'[x] = pc[x]
          /\ Sound(conn'[d], dep) /\ Homed(conn'[d], dep)
          /\ conn[d].failed => conn'[d].failed
          /\ Parallel(conn[d], dep) =>
               Parallel(conn'[d], dep) \/ (conn'[d].failed /\ disabled')
      BY <2>4, CommandSound
    <3>. QED BY <3>1 DEF RouterInv
  <2>5. CASE UNCHANGED vars
    BY <2>5 DEF vars, RouterInv
  <2>. QED BY <2>1, <2>2, <2>3, <2>4, <2>5 DEF Next
<1>. QED BY <1>1, <1>2, RouterTypeCorrect, PTL DEF Spec

\* "Parallel transactions on each of the databases" (routing.wt): unless a call
\* failed in the session, every backend that its queries may go to has a
\* transaction open exactly when the controller is in one.
THEOREM TransactionsRunInParallel ==
    ASSUME ExplicitAuto
    PROVE  Spec => []InParallel
<1>1. RouterInv => InParallel
  BY DEF RouterInv, InParallel, Parallel, Reach
<1>. QED BY <1>1, RouterInvariant, PTL

\* When a session ends in the middle of a transaction, also because another one
\* disabled the instance, the router's endofsession decides what becomes of the
\* work on every backend, and not what each backend does at the end of its own.
THEOREM EndOfSessionDecides ==
    ASSUME ExplicitAuto
    PROVE  Spec => SessionsEndTogether
<1> USE RouterAssumption
<1> DEFINE Decided ==
        \A d \in Daemons, b \in Backends :
        /\ pc[d] # "idle" /\ pc'[d] = "idle"
        /\ conn[d].link[b].work /\ ~conn'[d].failed
        => conn'[d].link[b].fate =
                IF dep.endcommit THEN "committed" ELSE "rolledback"
<1>1. TypeOK /\ RouterInv /\ [Next]_vars => Decided
  <2> SUFFICES ASSUME TypeOK, RouterInv, [Next]_vars,
                      NEW d \in Daemons, NEW b \in Backends,
                      pc[d] # "idle", pc'[d] = "idle",
                      conn[d].link[b].work, ~conn'[d].failed
               PROVE  conn'[d].link[b].fate =
                        IF dep.endcommit THEN "committed" ELSE "rolledback"
    OBVIOUS
  <2>0. dep \in Deployment /\ dep.auto /\ dep.implicit = {}
    BY DEF TypeOK, RouterAssumption, ExplicitAuto
  <2>1. EndSession(d)
    <3>1. ~UNCHANGED vars
      BY DEF vars
    <3>2. PICK x \in Daemons :
            \/ BeginSession(x) \/ WaitForCommand(x) \/ EndSession(x)
            \/ ClientBegin(x) \/ ClientCommit(x) \/ ClientRollback(x)
            \/ AutoCommitOn(x) \/ AutoCommitOff(x) \/ ClientQuery(x)
      BY <3>1 DEF Next
    <3>3. ~BeginSession(x) /\ ~WaitForCommand(x)
      BY DEF BeginSession, WaitForCommand, TypeOK
    <3>4. ~(\/ ClientBegin(x) \/ ClientCommit(x) \/ ClientRollback(x)
            \/ AutoCommitOn(x) \/ AutoCommitOff(x) \/ ClientQuery(x))
      <4>1. pc' = [pc EXCEPT ![x] = "check"] => FALSE
        BY DEF TypeOK
      <4>. QED BY <4>1 DEF ClientBegin, ClientCommit, ClientRollback,
              AutoCommitOn, AutoCommitOff, ClientQuery, Answer
    <3>5. pc' = [pc EXCEPT ![x] = "idle"]
      BY <3>2, <3>3, <3>4 DEF EndSession, Answer
    <3>. QED BY <3>2, <3>3, <3>4, <3>5 DEF TypeOK
  <2>2. PICK F \in Failing({AtEnd, "on"}) :
              Answer(d, "end", "idle", EndOfSession(Asked(d), F), F)
    BY <2>1 DEF EndSession
  <2> DEFINE r == EndOfSession(Asked(d), F)
  <2>3. /\ Asked(d) \in Conn /\ Sound(Asked(d), dep) /\ Homed(Asked(d), dep)
        /\ Asked(d).link[b].work
        /\ Asked(d).failed = conn[d].failed
        /\ Parallel(Asked(d), dep) \/ Asked(d).failed
    BY AskedType, AskedSound DEF RouterInv
  <2>4. /\ r \in Conn
        /\ Asked(d).failed => r.failed
        /\ Parallel(Asked(d), dep) /\ ~r.failed =>
             r.link[b].fate = IF dep.endcommit THEN "committed" ELSE "rolledback"
    BY <2>0, <2>3, EndOfSessionType, EndOfSessionSound
  <2>5. conn'[d].failed = r.failed /\ conn'[d].link = r.link
    BY <2>2, <2>4, AnswerSound
  <2>. QED BY <2>3, <2>4, <2>5
<1>. QED BY <1>1, RouterTypeCorrect, RouterInvariant, PTL
         DEF Spec, SessionsEndTogether

LEMMA FlagInvariant ==
    ASSUME ExplicitAuto, FlagSeen
    PROVE  Spec => []FlagInv
<1> USE RouterAssumption
<1>1. Init => FlagInv
  BY DEF Init, FlagInv
<1>2. TypeOK /\ RouterInv /\ RouterInv' /\ FlagInv /\ [Next]_vars => FlagInv'
  <2> SUFFICES ASSUME TypeOK, RouterInv, RouterInv', FlagInv, [Next]_vars
               PROVE  FlagInv'
    OBVIOUS
  <2>1. ASSUME NEW d \in Daemons, BeginSession(d) PROVE FlagInv'
    <3>1. PICK b \in Backends : conn' =
              [conn EXCEPT ![d] = [@ EXCEPT
                  !.needs = FALSE, !.failed = FALSE, !.ok = TRUE,
                  !.home = IF dep.entire THEN b ELSE None]]
      BY <2>1 DEF BeginSession
    <3>2. ~conn'[d].failed /\ pc'[d] = "check"
      <4>1. conn'[d] = [conn[d] EXCEPT
                  !.needs = FALSE, !.failed = FALSE, !.ok = TRUE,
                  !.home = IF dep.entire THEN b ELSE None]
        BY <3>1 DEF TypeOK
      <4>. QED BY <2>1, <4>1 DEF TypeOK, Conn, BeginSession
    <3>3. \A x \in Daemons : x # d => conn'[x] = conn[x] /\ pc'[x] = pc[x]
      BY <2>1, <3>1 DEF TypeOK, BeginSession
    <3>4. Parallel(conn'[d], dep)
      BY <2>1, <3>2 DEF RouterInv, BeginSession
    <3>5. dep' = dep /\ disabled' = disabled
      BY <2>1 DEF BeginSession
    <3>. QED BY <3>2, <3>3, <3>4, <3>5 DEF FlagInv
  <2>2. ASSUME NEW d \in Daemons, WaitForCommand(d) PROVE FlagInv'
    <3>1. dep.checks
      BY DEF TypeOK, FlagSeen
    <3>. QED BY <2>2, <3>1 DEF TypeOK, WaitForCommand, GoesOn, FlagInv
  <2>3. ASSUME NEW d \in Daemons, EndSession(d) PROVE FlagInv'
    <3>1. PICK F : Answer(d, "end", "idle", EndOfSession(Asked(d), F), F)
      BY <2>3 DEF EndSession
    <3>2. EndOfSession(Asked(d), F) \in Conn
      BY AskedType, EndOfSessionType DEF TypeOK, RouterAssumption
    <3>3. /\ dep' = dep /\ pc'[d] = "idle" /\ (disabled => disabled')
          /\ \A x \in Daemons : x # d => conn'[x] = conn[x] /\ pc'[x] = pc[x]
      BY <3>1, <3>2, AnswerSound
    <3>. QED BY <3>3 DEF FlagInv
  <2>4. ASSUME NEW d \in Daemons,
               \/ ClientBegin(d) \/ ClientCommit(d) \/ ClientRollback(d)
               \/ AutoCommitOn(d) \/ AutoCommitOff(d) \/ ClientQuery(d)
        PROVE  FlagInv'
    <3>1. /\ dep' = dep /\ pc[d] = "command" /\ pc'[d] = "check"
          /\ disabled => disabled'
          /\ \A x \in Daemons : x # d => conn'[x] = conn[x] /\ pc'[x] = pc[x]
          /\ Parallel(conn[d], dep) =>
               Parallel(conn'[d], dep) \/ (conn'[d].failed /\ disabled')
      BY <2>4, CommandSound
    <3>. QED BY <3>1 DEF FlagInv
  <2>5. CASE UNCHANGED vars
    BY <2>5 DEF vars, FlagInv
  <2>. QED BY <2>1, <2>2, <2>3, <2>4, <2>5 DEF Next
<1>. QED BY <1>1, <1>2, RouterTypeCorrect, RouterInvariant, PTL DEF Spec

\* What the client is told when its commands are answered.
TellsTheTruth(c, name, off, q) ==
    /\ c.ok /\ name \in {"commit", "on"} =>
        \A b \in Backends : ~c.link[b].work /\ c.link[b].fate # "rolledback"
    /\ c.ok /\ name = "rollback" =>
        \A b \in Backends : ~c.link[b].work /\ c.link[b].fate # "committed"
    /\ ~c.ok /\ name \in Calls /\ ~q.entire => off

LEMMA CommandTells ==
    ASSUME RouterAssumption, ExplicitAuto, TypeOK, RouterInv, FlagInv,
           NEW d \in Daemons,
           \/ ClientBegin(d) \/ ClientCommit(d) \/ ClientRollback(d)
           \/ AutoCommitOn(d) \/ AutoCommitOff(d)
    PROVE  TellsTheTruth(conn'[d], last'[d], disabled', dep)
<1>0. dep \in Deployment /\ dep.implicit = {} /\ dep.auto
  BY DEF TypeOK, RouterAssumption, ExplicitAuto
<1>1. pc[d] = "command"
  BY Commands
<1>2. /\ Asked(d) \in Conn /\ Sound(Asked(d), dep) /\ Homed(Asked(d), dep)
      /\ Parallel(Asked(d), dep)
      /\ \A b \in Backends : Asked(d).link[b].fate = "none"
  BY <1>1, AskedType, AskedSound DEF RouterInv, FlagInv
<1>3. PICK F :
        \/ \E call \in Endings :
                Answer(d, call, "check", End(call, Asked(d), F), F)
        \/ \E call \in {"begin", "off"} :
                Answer(d, call, "check", Begin(call, Asked(d), F), F)
  BY Commands
<1>4. ASSUME NEW call \in Endings,
             Answer(d, call, "check", End(call, Asked(d), F), F)
      PROVE  TellsTheTruth(conn'[d], last'[d], disabled', dep)
  <2> DEFINE r == End(call, Asked(d), F)
  <2>1. /\ r \in Conn
        /\ ~r.ok /\ ~dep.entire => r.disable
        /\ r.ok => \A b \in Backends :
              /\ ~r.link[b].work
              /\ r.link[b].fate = IF Asked(d).link[b].work THEN Outcome(call)
                                  ELSE Asked(d).link[b].fate
    BY <1>0, <1>2, EndType, EndSound
  <2>2. /\ last'[d] = call /\ (disabled' <=> disabled \/ r.disable)
        /\ conn'[d].ok = r.ok /\ conn'[d].link = r.link
    BY <1>4, <2>1, AnswerSound
  <2> HIDE DEF r
  <2>3. r.ok => \A b \in Backends :
           ~r.link[b].work /\ r.link[b].fate \in {"none", Outcome(call)}
    BY <1>2, <2>1
  <2>. QED BY <2>1, <2>2, <2>3 DEF TellsTheTruth, Outcome
<1>5. ASSUME NEW call \in {"begin", "off"},
             Answer(d, call, "check", Begin(call, Asked(d), F), F)
      PROVE  TellsTheTruth(conn'[d], last'[d], disabled', dep)
  <2> DEFINE r == Begin(call, Asked(d), F)
  <2>1. r \in Conn /\ (~r.ok /\ ~dep.entire => r.disable)
    BY <1>0, <1>2, BeginType, BeginSound
  <2>2. /\ last'[d] = call /\ (disabled' <=> disabled \/ r.disable)
        /\ conn'[d].ok = r.ok
    BY <1>5, <2>1, AnswerSound
  <2> HIDE DEF r
  <2>. QED BY <2>1, <2>2 DEF TellsTheTruth
<1>. QED BY <1>3, <1>4, <1>5

\* What a client is told of a commit or a rollback is so on every backend, for
\* all the work it has done in the transaction, and one that succeeded on some
\* and failed on others "returns an error, disables the instance" (routing.wt).
THEOREM ClientsAreToldTheTruth ==
    ASSUME ExplicitAuto, FlagSeen
    PROVE  Spec => []ToldTheTruth
<1> USE RouterAssumption
<1> DEFINE Told == \A d \in Daemons :
              TellsTheTruth(conn[d], last[d], disabled, dep)
<1>1. Init => Told
  BY DEF Init, TellsTheTruth, Calls
<1>2. /\ TypeOK /\ RouterInv /\ FlagInv /\ Told /\ [Next]_vars => Told'
  <2> SUFFICES ASSUME TypeOK, RouterInv, FlagInv, Told, [Next]_vars
               PROVE  \A x \in Daemons :
                        TellsTheTruth(conn'[x], last'[x], disabled', dep')
    OBVIOUS
  <2>1. ASSUME NEW d \in Daemons, dep' = dep, disabled => disabled',
               \A x \in Daemons : x # d => conn'[x] = conn[x] /\ last'[x] = last[x],
               TellsTheTruth(conn'[d], last'[d], disabled', dep)
        PROVE  \A x \in Daemons :
                        TellsTheTruth(conn'[x], last'[x], disabled', dep')
    BY <2>1 DEF TellsTheTruth
  <2>2. ASSUME NEW d \in Daemons, BeginSession(d)
        PROVE  /\ dep' = dep /\ (disabled => disabled')
               /\ \A x \in Daemons : x # d =>
                    conn'[x] = conn[x] /\ last'[x] = last[x]
               /\ TellsTheTruth(conn'[d], last'[d], disabled', dep)
    <3>1. last'[d] = "none"
      BY <2>2 DEF BeginSession, TypeOK
    <3>2. TellsTheTruth(conn'[d], last'[d], disabled', dep)
      BY <3>1 DEF TellsTheTruth, Calls
    <3>. QED BY <2>2, <3>2 DEF BeginSession, TypeOK
  <2>3. ASSUME NEW d \in Daemons, WaitForCommand(d)
        PROVE  UNCHANGED <<dep, disabled, conn, last>>
    BY <2>3 DEF WaitForCommand
  <2>4. ASSUME NEW d \in Daemons,
               NEW answer \in Conn, NEW F, NEW next, NEW name \in {"end", "query"},
               Answer(d, name, next, answer, F)
        PROVE  /\ dep' = dep /\ (disabled => disabled')
               /\ \A x \in Daemons : x # d =>
                    conn'[x] = conn[x] /\ last'[x] = last[x]
               /\ TellsTheTruth(conn'[d], last'[d], disabled', dep)
    <3>1. /\ dep' = dep /\ (disabled => disabled') /\ last'[d] = name
          /\ \A x \in Daemons : x # d =>
               conn'[x] = conn[x] /\ last'[x] = last[x]
      BY <2>4, AnswerSound
    <3>2. TellsTheTruth(conn'[d], last'[d], disabled', dep)
      BY <3>1 DEF TellsTheTruth, Calls
    <3>. QED BY <3>1, <3>2
  <2>5. ASSUME NEW d \in Daemons, EndSession(d) \/ ClientQuery(d)
        PROVE  \A x \in Daemons :
                        TellsTheTruth(conn'[x], last'[x], disabled', dep')
    <3>0. Asked(d) \in Conn /\ dep \in Deployment
      BY AskedType DEF TypeOK, RouterAssumption
    <3>1. CASE EndSession(d)
      <4>1. PICK F : Answer(d, "end", "idle", EndOfSession(Asked(d), F), F)
        BY <3>1 DEF EndSession
      <4>2. EndOfSession(Asked(d), F) \in Conn
        BY <3>0, EndOfSessionType
      <4>. QED BY <2>1, <2>4, <4>1, <4>2
    <3>2. CASE ClientQuery(d)
      <4>1. PICK b \in Backends :
                Answer(d, "query", "check", Query(Asked(d), b), {})
        BY <3>2 DEF ClientQuery
      <4>2. Query(Asked(d), b) \in Conn
        BY <3>0, QueryType
      <4>. QED BY <2>1, <2>4, <4>1, <4>2
    <3>. QED BY <2>5, <3>1, <3>2
  <2>6. ASSUME NEW d \in Daemons,
               \/ ClientBegin(d) \/ ClientCommit(d) \/ ClientRollback(d)
               \/ AutoCommitOn(d) \/ AutoCommitOff(d)
        PROVE  \A x \in Daemons :
                        TellsTheTruth(conn'[x], last'[x], disabled', dep')
    <3>1. TellsTheTruth(conn'[d], last'[d], disabled', dep)
      BY <2>6, CommandTells
    <3>2. /\ dep' = dep /\ (disabled => disabled')
          /\ \A x \in Daemons : x # d =>
               conn'[x] = conn[x] /\ last'[x] = last[x]
      BY <2>6, CommandSound
    <3>. QED BY <2>1, <3>1, <3>2
  <2>7. CASE UNCHANGED vars
    BY <2>7 DEF vars
  <2>. QED BY <2>1, <2>2, <2>3, <2>5, <2>6, <2>7 DEF Next
<1>3. Told => ToldTheTruth
  BY DEF TellsTheTruth, ToldTheTruth
<1>. QED BY <1>1, <1>2, <1>3, RouterTypeCorrect, RouterInvariant,
         FlagInvariant, PTL DEF Spec

=============================================================================
