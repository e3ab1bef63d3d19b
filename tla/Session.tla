------------------------------ MODULE Session -------------------------------
(***************************************************************************)
(* Sessions of one sqlr-connection daemon: its pool of cursors, which the  *)
(* client's cursors hold on to by id, and sessions and result sets that    *)
(* one client program suspends and another resumes.  A suspended session   *)
(* waits on sockets of its own, for sessiontimeout seconds.                *)
(*                                                                         *)
(* A client is a user whose programs follow each other: a handle to a      *)
(* suspended session is passed from one to the next.  Handing a client to  *)
(* the daemon is one step here (Handoff), and so is a request.  Work is    *)
(* an uncommitted transaction (Transactions).                              *)
(***************************************************************************)
EXTENDS Naturals, SequencesExt

CONSTANTS Clients,        \* users
          Hands,          \* the cursors of a client program
          None,           \* no client
          Deployments,    \* what may be deployed, see Deployment
          CounterSize,    \* values of the uint16_t that counts cursors: 2^16
          MaxSessions     \* bound: sessions

\* What clients do besides querying: suspend sessions, leave result sets they
\* did not suspend open meanwhile, resume when the session timed out, change
\* settings of the session, get rejected before they log in.
Uses == {"suspend", "keep", "late", "settings", "rejected"}

\* cursors, maxcursors and cursors_growby; sessiontimeout, in steps of a
\* second; a bound: cursors the database fails to open.
Deployment == [cursors : Nat \ {0}, maxcursors : Nat, growby : Nat,
               timeout : Nat, uses : SUBSET Uses, failures : Nat]

ASSUME SessionAssumption ==
    /\ None \notin Clients
    /\ CounterSize \in Nat /\ MaxSessions \in Nat
    /\ \A dep \in Deployments :
        /\ dep \in Deployment
        /\ dep.cursors <= dep.maxcursors /\ dep.maxcursors < CounterSize

VARIABLES
    dep,       \* the deployment
    daemon,    \* the daemon: see TypeOK
    cur,       \* the states of its cursors
    backlog,   \* clients connected to the sockets of a suspended session
    home,      \* the session a client is in or has suspended, 0: none
    hands,     \* the cursors of its program
    failures   \* cursors that were not opened so far

vars == <<dep, daemon, cur, backlog, home, hands, failures>>

States == {"available", "busy", "suspended"}

\* A cursor of a client: the id of the daemon's cursor it has (0: none, _havecursorid
\* is false), whether its result set is not at its end, whether it is suspended.
Hand == [id : Nat, open : BOOLEAN, parked : BOOLEAN]
NoCursor == [id |-> 0, open |-> FALSE, parked |-> FALSE]
NewProgram == [h \in Hands |-> NoCursor]

Least(m, n) == IF m < n THEN m ELSE n

InSession(k) == daemon.pc = "session" /\ daemon.peer = k
Away(k) == ~InSession(k) /\ ~Contains(backlog, k)

-----------------------------------------------------------------------------
(* The pool of cursors. *)

Released == [i \in DOMAIN cur |-> "available"]

\* endSession shrinks the pool to what it was.
Shrunk == [i \in 1 .. dep.cursors |-> "available"]

\* Mutant: a suspended result set goes as well.
WithoutBusyAll == [i \in DOMAIN cur |-> "available"]

\* suspendSession aborts and releases what is busy.
WithoutBusy ==
    [i \in DOMAIN cur |-> IF cur[i] = "busy" THEN "available" ELSE cur[i]]

Available == {i \in DOMAIN cur : cur[i] = "available"}

\* Mutants: no maximum; a while loop, that opens nothing if the sum wraps around.
ExpandToUncapped == Len(cur) + dep.growby
ExpandToWhile == Least(dep.maxcursors, (Len(cur) + dep.growby) % CounterSize)

\* The size to grow to; the loop opens one cursor at least.
ExpandTo ==
    LET sum == (Len(cur) + dep.growby) % CounterSize
        expandto == Least(dep.maxcursors, sum)
    IN IF expandto > Len(cur) THEN expandto ELSE Len(cur) + 1

\* Cursors that open in one call of getCursor.  If one does not, those before
\* it stay, and the client is refused.
Opened == 0 .. (ExpandTo - Len(cur))
Grown(n) == cur \o [i \in 1 .. n |-> "available"]
FullyGrown == Grown(ExpandTo - Len(cur))

-----------------------------------------------------------------------------
(* Steps of the daemon and of a client in session. *)

Init ==
    /\ dep \in Deployments
    /\ daemon = [pc |-> "idle", peer |-> None, session |-> 0, sockets |-> FALSE,
                 waited |-> 0, asked |-> FALSE, work |-> FALSE,
                 settings |-> FALSE]
    /\ cur = [i \in 1 .. dep.cursors |-> "available"]
    /\ backlog = <<>>
    /\ home = [k \in Clients |-> 0]
    /\ hands = [k \in Clients |-> NewProgram]
    /\ failures = 0

\* A client is handed over.  initSession has released all cursors; a program
\* may still hold on to ids of the session it had suspended.
Connect(k) ==
    /\ daemon.pc = "idle" /\ Away(k) /\ daemon.session < MaxSessions
    /\ daemon' = [daemon EXCEPT !.pc = "session", !.peer = k, !.asked = FALSE,
                                !.session = @ + 1]
    /\ cur' = Released
    /\ home' = [home EXCEPT ![k] = daemon'.session]
    /\ hands' = [hands EXCEPT ![k] = IF "keep" \in dep.uses THEN @
                                                            ELSE NewProgram]
    /\ UNCHANGED <<dep, backlog, failures>>

\* A query runs on cursor i, and succeeds, leaving rows to fetch or none, work
\* and settings, or fails.  Only success makes the cursor busy if it was not.
RunOn(k, h, i, pool) ==
    \E ok, open, work, settings \in BOOLEAN :
        /\ open => ok
        /\ daemon.work => work
        /\ daemon.settings => settings
        /\ work => ok \/ daemon.work
        /\ settings => (ok /\ "settings" \in dep.uses) \/ daemon.settings
        /\ cur' = IF ok THEN [pool EXCEPT ![i] = "busy"] ELSE pool
        /\ hands' = [hands EXCEPT
                ![k][h] = [id |-> i, open |-> open, parked |-> FALSE]]
        /\ daemon' = [daemon EXCEPT !.asked = TRUE, !.work = work,
                                    !.settings = settings]
        /\ UNCHANGED <<dep, backlog, home>>

\* A cursor that has an id asks for that one, whatever its state is.
QueryAgain(k, h) ==
    /\ InSession(k) /\ hands[k][h].id \in DOMAIN cur
    /\ RunOn(k, h, hands[k][h].id, cur)
    /\ UNCHANGED failures

\* Another gets the first that is available ...
QueryNew(k, h) ==
    /\ InSession(k) /\ hands[k][h].id = 0
    /\ \E i \in Available :
        /\ \A j \in Available : i <= j
        /\ RunOn(k, h, i, [cur EXCEPT ![i] = "busy"])
    /\ UNCHANGED failures

\* ... or else the first of new ones ...
QueryGrows(k, h) ==
    /\ InSession(k) /\ hands[k][h].id = 0
    /\ Available = {} /\ Len(cur) < dep.maxcursors
    /\ ExpandTo > Len(cur)
    /\ RunOn(k, h, Len(cur) + 1, [FullyGrown EXCEPT ![Len(cur) + 1] = "busy"])
    /\ UNCHANGED failures

\* ... unless one of these cannot be opened ...
GrowFails(k, h) ==
    /\ InSession(k) /\ hands[k][h].id = 0
    /\ Available = {} /\ Len(cur) < dep.maxcursors
    /\ failures < dep.failures
    /\ failures' = failures + 1
    /\ \E n \in Opened \ {ExpandTo - Len(cur)} : cur' = Grown(n)
    /\ daemon' = [daemon EXCEPT !.asked = TRUE]
    /\ UNCHANGED <<dep, backlog, home, hands>>

\* ... or there are too many: "No server-side cursors were available".
NoAvailableCursors(k, h) ==
    /\ InSession(k) /\ hands[k][h].id = 0
    /\ Available = {}
    /\ Len(cur) = dep.maxcursors \/ ExpandTo <= Len(cur)
    /\ daemon' = [daemon EXCEPT !.asked = TRUE]
    /\ UNCHANGED <<dep, cur, backlog, home, hands, failures>>

\* The rest of the result set is fetched: the cursor is kept.
FetchRest(k, h) ==
    /\ InSession(k) /\ hands[k][h].open /\ ~hands[k][h].parked
    /\ hands' = [hands EXCEPT ![k][h].open = FALSE]
    /\ UNCHANGED <<dep, daemon, cur, backlog, home, failures>>

\* Mutant: the client thinks that it still has the cursor it gave back.
ClosedKeepsId(hand) == [hand EXCEPT !.open = FALSE, !.parked = FALSE]

\* closeResultSet.
Closed(hand) == NoCursor

CloseResultSet(k, h) ==
    /\ InSession(k) /\ hands[k][h].id \in DOMAIN cur
    /\ cur' = [cur EXCEPT ![hands[k][h].id] = "available"]
    /\ hands' = [hands EXCEPT ![k][h] = Closed(@)]
    /\ UNCHANGED <<dep, daemon, backlog, home, failures>>

SuspendResultSet(k, h) ==
    /\ InSession(k) /\ "suspend" \in dep.uses
    /\ hands[k][h].open /\ ~hands[k][h].parked
    /\ hands[k][h].id \in DOMAIN cur
    /\ cur' = [cur EXCEPT ![hands[k][h].id] = "suspended"]
    /\ hands' = [hands EXCEPT ![k][h].parked = TRUE]
    /\ UNCHANGED <<dep, daemon, backlog, home, failures>>

\* The cursor of a suspended result set is busy again, if it is suspended.
ResumeResultSet(k, h) ==
    /\ InSession(k) /\ hands[k][h].parked
    /\ hands[k][h].id \in DOMAIN cur /\ cur[hands[k][h].id] = "suspended"
    /\ cur' = [cur EXCEPT ![hands[k][h].id] = "busy"]
    /\ hands' = [hands EXCEPT ![k][h].parked = FALSE]
    /\ UNCHANGED <<dep, daemon, backlog, home, failures>>

EndTransaction ==
    /\ InSession(daemon.peer) /\ daemon.work
    /\ daemon' = [daemon EXCEPT !.work = FALSE]
    /\ UNCHANGED <<dep, cur, backlog, home, hands, failures>>

-----------------------------------------------------------------------------
(* Suspended sessions. *)

\* suspendSession: from now on the daemon waits on sockets to resume on, those
\* it may still have from before.
SuspendSession(k) ==
    /\ InSession(k) /\ "suspend" \in dep.uses
    /\ \/ "keep" \in dep.uses
       \/ \A h \in Hands : hands[k][h].id # 0 => hands[k][h].parked
    /\ daemon' = [daemon EXCEPT !.pc = "suspended", !.peer = None, !.waited = 0,
                                !.sockets = TRUE]
    /\ cur' = WithoutBusy
    /\ UNCHANGED <<dep, backlog, home, hands, failures>>

\* resumeSession connects to the sockets.
Resume(k) ==
    /\ home[k] # 0 /\ Away(k) /\ daemon.sockets
    /\ \/ "late" \in dep.uses
       \/ daemon.pc = "suspended" /\ daemon.session = home[k]
    /\ backlog' = Append(backlog, k)
    /\ UNCHANGED <<dep, daemon, cur, home, hands, failures>>

\* waitForClient, listen: the first client that connected goes on with the
\* session.
AcceptResumed ==
    /\ daemon.pc = "suspended" /\ backlog # <<>>
    /\ daemon' = [daemon EXCEPT !.pc = "session", !.peer = Head(backlog),
                                !.asked = FALSE]
    /\ backlog' = Tail(backlog)
    /\ UNCHANGED <<dep, cur, home, hands, failures>>

\* Mutants: it does not look again whether somebody connected; the timeout is
\* forgotten; what the client had done is left alone.
NobodyConnectedUnseen == TRUE
TooLongNever == FALSE
GivenUpAlone == [daemon EXCEPT !.pc = "idle"]

NobodyConnected == backlog = <<>>

\* A second without a client: the last one.
TooLong == daemon.waited + 1 >= dep.timeout

\* It rolls back and goes for another client.  The sockets stay.
GivenUp == [daemon EXCEPT !.pc = "idle", !.work = FALSE]

WaitAnotherSecond ==
    /\ daemon.pc = "suspended" /\ NobodyConnected /\ ~TooLong
    /\ daemon' = [daemon EXCEPT !.waited = Least(@ + 1, dep.timeout)]
    /\ UNCHANGED <<dep, cur, backlog, home, hands, failures>>

TimeOut ==
    /\ daemon.pc = "suspended" /\ NobodyConnected /\ TooLong
    /\ daemon' = GivenUp
    /\ UNCHANGED <<dep, cur, backlog, home, hands, failures>>

-----------------------------------------------------------------------------
(* The end of a session. *)

\* Nobody is in the session k was in, and who waits for it in vain is told.
Gone(d, k) == [d EXCEPT !.pc = "idle", !.peer = None, !.sockets = FALSE]
Told(k) ==
    LET gone == {k} \cup Range(backlog)
    IN /\ backlog' = <<>>
       /\ home' = [c \in Clients |-> IF c \in gone THEN 0 ELSE home[c]]
       /\ hands' = [c \in Clients |-> IF c \in gone THEN NewProgram ELSE hands[c]]

\* endSession, when the client says so, or disconnects.
EndSession(k) ==
    /\ InSession(k)
    /\ daemon' = [Gone(daemon, k) EXCEPT !.work = FALSE, !.settings = FALSE]
    /\ cur' = Shrunk
    /\ Told(k)
    /\ UNCHANGED <<dep, failures>>

\* The protocol version or the login of a new program is rejected: endSession is
\* not run.
Reject(k) ==
    /\ InSession(k) /\ "rejected" \in dep.uses /\ ~daemon.asked
    /\ daemon' = Gone(daemon, k)
    /\ Told(k)
    /\ UNCHANGED <<dep, cur, failures>>

Request(k) ==
    \/ \E h \in Hands :
        \/ QueryAgain(k, h) \/ QueryNew(k, h) \/ QueryGrows(k, h)
        \/ GrowFails(k, h) \/ NoAvailableCursors(k, h)
        \/ FetchRest(k, h) \/ CloseResultSet(k, h)
        \/ SuspendResultSet(k, h) \/ ResumeResultSet(k, h)
    \/ SuspendSession(k) \/ EndSession(k) \/ Reject(k)

Wait == AcceptResumed \/ WaitAnotherSecond \/ TimeOut

Next ==
    \/ \E k \in Clients : Connect(k) \/ Resume(k) \/ Request(k)
    \/ EndTransaction
    \/ Wait

\* The daemon does not stop waiting for a client to resume.
Spec == Init /\ [][Next]_vars /\ WF_vars(Wait)

-----------------------------------------------------------------------------

\* Types; there are never more cursors than maxcursors.
TypeOK ==
    /\ dep \in Deployments
    /\ daemon \in [pc : {"idle", "session", "suspended"},
                   peer : Clients \cup {None}, session : 0 .. MaxSessions,
                   sockets : BOOLEAN, waited : 0 .. dep.timeout,
                   asked : BOOLEAN, work : BOOLEAN, settings : BOOLEAN]
    /\ cur \in Seq(States) /\ Len(cur) \in dep.cursors .. dep.maxcursors
    /\ backlog \in Seq(Clients)
    /\ home \in [Clients -> 0 .. MaxSessions]
    /\ hands \in [Clients -> [Hands -> Hand]]
    /\ failures \in 0 .. dep.failures

\* While a client reads a result set no other of its cursors has the same cursor
\* of the daemon, whose query would run "out from under it"
\* (sqlrcursor::closeResultSet), and the daemon gives it to nobody.
CursorInOneHand ==
    \A k \in Clients : InSession(k) =>
        \A h \in Hands : hands[k][h].open =>
            /\ hands[k][h].id \in DOMAIN cur
            /\ cur[hands[k][h].id] # "available"
            /\ \A g \in Hands \ {h} : hands[k][g].id # hands[k][h].id

\* A result set a client suspended is there when it resumes, however its other
\* cursors came and went, and whatever the end of a session released.
SuspendedResultSetsKept ==
    \A k \in Clients, h \in Hands :
        /\ hands[k][h].parked /\ home[k] = daemon.session
        /\ daemon.pc = "suspended" \/ InSession(k)
        => /\ hands[k][h].id \in DOMAIN cur
           /\ cur[hands[k][h].id] = "suspended"

\* No session finds uncommitted work or settings of the one before it, however
\* that ended: by the client, by its disconnection, by its timeout.
SessionsStartClean == daemon.pc = "idle" => ~daemon.work /\ ~daemon.settings

\* "A client is picking up a session it suspended" (listen): the client in a
\* session is the one that started it, although the timeout of the session
\* may race its resumption and the sockets outlast the session.
ResumesItsOwn == \A k \in Clients : InSession(k) => home[k] = daemon.session

\* A client hears that no cursor is available only if none is, and as many as
\* maxcursors are in use or the database failed to open one.
RefusedOnlyWhenFull ==
    [][\A k \in Clients, h \in Hands :
            GrowFails(k, h) \/ NoAvailableCursors(k, h)
            => /\ "available" \notin Range(cur')
               /\ Len(cur') = dep.maxcursors \/ failures' # failures]_vars

\* A suspended session comes to an end, or its client comes back: the connection
\* is not lost to other clients.
SuspensionEnds == daemon.pc = "suspended" ~> daemon.pc # "suspended"
=============================================================================
