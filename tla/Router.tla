------------------------------- MODULE Router -------------------------------
(***************************************************************************)
(* The router: sqlr-connection daemons whose "database" is several other   *)
(* instances of SQL Relay.  Queries go to the one that router modules      *)
(* choose, by query or for an entire session, and transactions are run in  *)
(* parallel on all of them, without two-phase commit: when a command       *)
(* succeeds on some and fails on others, the router disables its instance, *)
(* by a flag in shared memory that sessions look at between commands.      *)
(*                                                                         *)
(* The controller is the one of Transactions, for the router's native      *)
(* model: explicit, with autocommit.  The other instances are external and *)
(* keep to TransactionModel.  A daemon's session on each is its own, so    *)
(* that daemons share the flag only, and a command is one step.            *)
(***************************************************************************)
EXTENDS Naturals, FiniteSets

CONSTANTS Daemons, Backends, None,
          Deployments   \* what may be deployed, see Deployment

\* Router modules that route entire sessions; the autocommit parameter and
\* endofsession="commit" of the router; which backends have the implicit model,
\* and which commit when their sessions end; whether the client protocol looks
\* at the flag (sqlrclient does); a bound: commands during which calls fail.
Deployment == [entire : BOOLEAN, auto : BOOLEAN, endcommit : BOOLEAN,
               implicit : SUBSET Backends, committing : SUBSET Backends,
               checks : BOOLEAN, failures : Nat]

ASSUME RouterAssumption ==
    None \notin Backends /\ \A dep \in Deployments : dep \in Deployment

VARIABLES
    dep,       \* the deployment
    disabled,  \* shm->disabled
    conn,      \* the state of each daemon, see Conn
    pc,        \* what it is about to do: "idle", "check", "command"
    last,      \* its last command
    failures   \* commands that met failures

vars == <<dep, disabled, conn, pc, last, failures>>

Calls == {"begin", "commit", "rollback", "on", "off"}

\* A daemon's session on a backend: whether it has one, whether a transaction is
\* open in it, with uncommitted work; history: what became of the last work.
Link == [connected : BOOLEAN, open : BOOLEAN, work : BOOLEAN,
         fate : {"none", "committed", "rolledback"}]

\* A daemon: the controller's _autocommit and _needscommitorrollback, the
\* router's currentcon, the backend the router modules choose for the session,
\* whether the last call succeeded, whether the instance is to be disabled, and
\* history: whether a call failed during the session.
Conn == [auto : BOOLEAN, needs : BOOLEAN, current : Backends \cup {None},
         home : Backends \cup {None}, ok : BOOLEAN, disable : BOOLEAN,
         failed : BOOLEAN, link : [Backends -> Link]]

-----------------------------------------------------------------------------
(* A call on one backend. *)

NewLink(b) == [connected |-> FALSE, open |-> b \in dep.implicit,
               work |-> FALSE, fate |-> "none"]

Over(l, how) == [l EXCEPT !.work = FALSE, !.fate = IF l.work THEN how ELSE @]

After(call, l, b) ==
    LET m == [l EXCEPT !.connected = TRUE]
    IN CASE call = "begin"    -> [m EXCEPT !.open = TRUE]
         [] call = "commit"   -> [Over(m, "committed") EXCEPT
                                    !.open = @ /\ b \in dep.implicit]
         [] call = "rollback" -> [Over(m, "rolledback") EXCEPT
                                    !.open = @ /\ b \in dep.implicit]
         [] call = "on"       -> [Over(m, "committed") EXCEPT !.open = FALSE]
         [] call = "off"      -> [m EXCEPT !.open = TRUE]

-----------------------------------------------------------------------------
(* The router. *)

\* routerconnection::route.  It says that it routed the session only if it did
\* not know already.
RoutedOne(c) == dep.entire /\ c.current = None /\ c.home # None
Routed(c) ==
    [c EXCEPT !.current = IF ~dep.entire THEN None
                          ELSE IF @ # None THEN @ ELSE c.home]

\* Mutant: only where the last query went.
TargetsCurrent(c) == IF c.current # None THEN {c.current} ELSE Backends

\* Where transactions are run: on all backends but for a session just routed.
Targets(c) == IF RoutedOne(c) THEN {c.home} ELSE Backends

\* begin, commit, rollback, setAutoCommitOn, setAutoCommitOff, of which the
\* calls F fail.
Call(call, c, F) ==
    LET targets == Targets(c)
        failing == {b \in targets : <<call, b>> \in F}
    IN [Routed(c) EXCEPT
            !.ok = failing = {},
            !.disable = @ \/ (failing # {} /\ ~RoutedOne(c)),
            !.failed = @ \/ failing # {},
            !.link = [b \in Backends |->
                IF b \in targets \ failing THEN After(call, @[b], b) ELSE @[b]]]

\* The session on the backends ends, and with it work in it if there is any.
Closed(c, b) ==
    [NewLink(b) EXCEPT !.fate = Over(c.link[b], IF b \in dep.committing
                                                THEN "committed"
                                                ELSE "rolledback").fate]

\* Mutant: currentcon is kept.
CloseSessionsKeepsCurrent(c) ==
    [c EXCEPT !.link = [b \in Backends |->
        IF b \in Targets(c) THEN Closed(c, b) ELSE @[b]]]

\* endSession.
CloseSessions(c) ==
    [c EXCEPT !.current = None,
              !.link = [b \in Backends |->
                IF b \in Targets(c) THEN Closed(c, b) ELSE @[b]]]

-----------------------------------------------------------------------------
(* The controller. *)

Succeed(c) == [c EXCEPT !.ok = TRUE]
Bail(c, d) == IF c.ok THEN d ELSE c

\* endTransaction ignores whether the backends turn autocommit on.
EndTransaction(c, F) ==
    [Call("on", c, F) EXCEPT !.ok = TRUE, !.auto = TRUE, !.needs = FALSE]

End(call, c, F) ==
    IF c.auto THEN Succeed(c)
    ELSE LET d == Call(call, c, F) IN Bail(d, EndTransaction(d, F))

\* begin, and setAutoCommitOff, which is the same in this model.
Begin(call, c, F) ==
    IF ~c.auto THEN Succeed(c)
    ELSE LET d == Call(call, c, F) IN Bail(d, [d EXCEPT !.auto = FALSE])

SetAutoCommit(on, c, F) == IF on THEN End("on", c, F) ELSE Begin("off", c, F)

\* A query that changes something, on the backend it is routed to.
Query(c, b) ==
    [c EXCEPT !.ok = TRUE, !.needs = TRUE, !.current = b,
              !.link[b].connected = TRUE, !.link[b].work = c.link[b].open]

AtEnd == IF dep.endcommit THEN "commit" ELSE "rollback"
EndWork(c, F) == IF c.needs THEN End(AtEnd, c, F) ELSE c

\* Mutant: the sessions on the backends end first.
EndOfSessionClosedFirst(c, F) ==
    SetAutoCommit(dep.auto, EndWork(CloseSessions(c), F), {})

\* endSession.
EndOfSession(c, F) ==
    CloseSessions(SetAutoCommit(dep.auto, EndWork(c, F), {}))

-----------------------------------------------------------------------------

\* logIn: the router's logIn ends the sessions that its ping opened, and then
\* autocommit is set.
LoggedIn ==
    SetAutoCommit(dep.auto,
        [auto |-> TRUE, needs |-> FALSE, current |-> None, home |-> None,
         ok |-> TRUE, disable |-> FALSE, failed |-> FALSE,
         link |-> [b \in Backends |-> NewLink(b)]], {})

Init ==
    /\ dep \in Deployments
    /\ disabled = FALSE
    /\ conn = [d \in Daemons |-> LoggedIn]
    /\ pc = [d \in Daemons |-> "idle"]
    /\ last = [d \in Daemons |-> "none"]
    /\ failures = 0

\* A client is handed over, that the router modules send where they like.
BeginSession(d) ==
    /\ pc[d] = "idle"
    /\ \E b \in Backends : conn' =
        [conn EXCEPT ![d] = [@ EXCEPT
            !.needs = FALSE, !.failed = FALSE, !.ok = TRUE,
            !.home = IF dep.entire THEN b ELSE None]]
    /\ pc' = [pc EXCEPT ![d] = "check"]
    /\ last' = [last EXCEPT ![d] = "none"]
    /\ UNCHANGED <<dep, disabled, failures>>

\* Mutant: nobody looks at the flag.
GoesOnAnyway == TRUE

\* clientSession looks at the flag before it waits for a command.
GoesOn == ~disabled \/ ~dep.checks

WaitForCommand(d) ==
    /\ pc[d] = "check" /\ GoesOn
    /\ pc' = [pc EXCEPT ![d] = "command"]
    /\ UNCHANGED <<dep, disabled, conn, last, failures>>

Asked(d) == [conn[d] EXCEPT
    !.link = [b \in Backends |-> [@[b] EXCEPT !.fate = "none"]]]

\* The calls that may fail during a command that makes these.
Failing(calls) ==
    {F \in SUBSET (calls \X Backends) : F # {} => failures < dep.failures}

Answer(d, name, next, answer, F) ==
    /\ conn' = [conn EXCEPT ![d] = [answer EXCEPT !.disable = FALSE]]
    /\ disabled' = (disabled \/ answer.disable)
    /\ pc' = [pc EXCEPT ![d] = next]
    /\ last' = [last EXCEPT ![d] = name]
    /\ failures' = failures + (IF F = {} THEN 0 ELSE 1)
    /\ UNCHANGED dep

ClientBegin(d) ==
    /\ pc[d] = "command"
    /\ \E F \in Failing({"begin"}) :
            Answer(d, "begin", "check", Begin("begin", Asked(d), F), F)

ClientCommit(d) ==
    /\ pc[d] = "command"
    /\ \E F \in Failing({"commit", "on"}) :
            Answer(d, "commit", "check", End("commit", Asked(d), F), F)

ClientRollback(d) ==
    /\ pc[d] = "command"
    /\ \E F \in Failing({"rollback", "on"}) :
            Answer(d, "rollback", "check", End("rollback", Asked(d), F), F)

AutoCommitOn(d) ==
    /\ pc[d] = "command"
    /\ \E F \in Failing({"on"}) :
            Answer(d, "on", "check", End("on", Asked(d), F), F)

AutoCommitOff(d) ==
    /\ pc[d] = "command"
    /\ \E F \in Failing({"off"}) :
            Answer(d, "off", "check", Begin("off", Asked(d), F), F)

ClientQuery(d) ==
    /\ pc[d] = "command"
    /\ \E b \in Backends :
        /\ dep.entire => b = conn[d].home
        /\ Answer(d, "query", "check", Query(Asked(d), b), {})

\* The client ends the session, or the flag does.
EndSession(d) ==
    /\ pc[d] = "command" \/ (pc[d] = "check" /\ ~GoesOn)
    /\ \E F \in Failing({AtEnd, "on"}) :
            Answer(d, "end", "idle", EndOfSession(Asked(d), F), F)

Next ==
    \E d \in Daemons :
        \/ BeginSession(d) \/ WaitForCommand(d) \/ EndSession(d)
        \/ ClientBegin(d) \/ ClientCommit(d) \/ ClientRollback(d)
        \/ AutoCommitOn(d) \/ AutoCommitOff(d) \/ ClientQuery(d)

Spec == Init /\ [][Next]_vars

-----------------------------------------------------------------------------

\* Types; between sessions a daemon has forgotten the backend it routed to.
TypeOK ==
    /\ dep \in Deployments
    /\ disabled \in BOOLEAN
    /\ conn \in [Daemons -> Conn]
    /\ pc \in [Daemons -> {"idle", "check", "command"}]
    /\ \A d \in Daemons : pc[d] = "idle" => conn[d].current = None
    /\ last \in [Daemons -> Calls \cup {"none", "query", "end"}]
    /\ failures \in 0 .. dep.failures

\* "Parallel transactions on each of the databases" (routing.wt): unless a call
\* failed in the session, every backend that its queries may go to has a transaction
\* open exactly when the controller is in one.
InParallel ==
    \A d \in Daemons, b \in Backends :
        /\ pc[d] # "idle" /\ ~conn[d].failed
        /\ dep.entire => b = conn[d].home
        => (conn[d].link[b].open <=> ~conn[d].auto)

\* What a client is told of a commit or a rollback is so on every backend, for
\* all the work it has done in the transaction, and one that succeeded on some
\* and failed on others "returns an error, disables the instance" (routing.wt).
ToldTheTruth ==
    \A d \in Daemons : LET c == conn[d] IN
        /\ c.ok /\ last[d] \in {"commit", "on"} =>
            \A b \in Backends : ~c.link[b].work /\ c.link[b].fate # "rolledback"
        /\ c.ok /\ last[d] = "rollback" =>
            \A b \in Backends : ~c.link[b].work /\ c.link[b].fate # "committed"
        /\ ~c.ok /\ last[d] \in Calls /\ ~dep.entire => disabled

\* When a session ends in the middle of a transaction, also because another one
\* disabled the instance, the router's endofsession decides what becomes of the
\* work on every backend, and not what each backend does at the end of its own.
SessionsEndTogether ==
    [][\A d \in Daemons, b \in Backends :
        /\ pc[d] # "idle" /\ pc'[d] = "idle"
        /\ conn[d].link[b].work /\ ~conn'[d].failed
        => conn'[d].link[b].fate =
                IF dep.endcommit THEN "committed" ELSE "rolledback"]_vars

\* "If routing entire sessions, then just commit for the appropriate connection"
\* (router.cpp, so in begin, rollback, autocommit): a session does not touch
\* another backend.  It does, see README.
SessionOnItsBackend ==
    \A d \in Daemons, b \in Backends :
        dep.entire /\ conn[d].link[b].connected => b = conn[d].home
=============================================================================
