---------------------------- MODULE Transactions ----------------------------
(***************************************************************************)
(* Transactions and autocommit of one sqlr-connection daemon: the state    *)
(* sqlrservercontroller keeps about its database (_txmodel, _autocommit,   *)
(* _intransaction, ...), how client requests and the end of a session      *)
(* change it, and which calls it makes on the connection module to make    *)
(* the database follow.  A pooled connection serves one session after      *)
(* another, so what a session leaves behind is what the next one gets.     *)
(*                                                                         *)
(* The database is external.  It is modelled by what the connection        *)
(* modules rely on: a mode (autocommit or manual), a transaction a begin   *)
(* query opened, and uncommitted work.  Requests run one at a time, each   *)
(* is a step, and the calls it makes are operators on the record st.       *)
(***************************************************************************)
EXTENDS Naturals, FiniteSets

CONSTANT Deployments   \* what may be deployed, see Deployment

TxModels == {"none", "implicit", "explicit", "deferred", "error"}

\* What a connection module says of its database: its native model, whether it
\* has an autocommit of its own, whether that is on after a login, and whether
\* a commit outside of a transaction is an error.
Backend == [native : TxModels \ {"none"}, hasac : BOOLEAN,
            autostart : BOOLEAN, strict : BOOLEAN]

\* What its clients do besides commit, rollback and plain queries: begin, call
\* setTransactionModel, call setAutoCommitOn and -Off, set autocommit among other
\* settings, roll back to savepoints, hide a begin in a block of queries.
Uses == {"begin", "switch", "auto", "settings", "savepoint", "block"}

\* A connection module, the models to configure and to switch between, the
\* autocommit parameter, endofsession="commit", and a bound: the requests during
\* which calls on the database fail.  Whether the controller is expected to
\* keep up with the database (tracked) or only to end sessions well.
Deployment == [backend : Backend, models : SUBSET TxModels,
               autos : SUBSET {"yes", "no", "default"}, endcommit : BOOLEAN,
               uses : SUBSET Uses, failures : Nat, tracked : BOOLEAN]

\* No bundled module has an implicit model without an autocommit of its own.
ASSUME TransactionsAssumption ==
    \A d \in Deployments :
        /\ d \in Deployment
        /\ \/ d.backend.hasac
           \/ d.backend.native # "implicit" /\ d.backend.autostart

VARIABLES
    dep,       \* the deployment
    initial,   \* _initialtxmodel and _initialautocommit
    st,        \* the connection's state
    phase,     \* "idle" between sessions, "session", ...
    last,      \* the last request
    failures   \* requests that met failures

vars == <<dep, initial, st, phase, last, failures>>

DbCalls == {"begin", "commit", "rollback", "autocommiton", "autocommitoff"}

State == [
    \* the controller: _txmodel, _autocommit, _intransaction, _eotautocommit,
    \* _needscommitorrollback, tables to drop, and whether the request succeeded
    model : TxModels, auto : BOOLEAN, intx : BOOLEAN, eot : BOOLEAN,
    needs : BOOLEAN, temp : BOOLEAN, ok : BOOLEAN,
    \* the database: autocommit mode, begin query's transaction, work in it
    dbauto : BOOLEAN, dbtx : BOOLEAN, dirty : BOOLEAN,
    \* the calls that fail during the request
    fails : SUBSET DbCalls,
    \* history: what became of the last uncommitted work
    fate : {"none", "committed", "rolledback"}]

-----------------------------------------------------------------------------
(* The database and the connection module. *)

be == dep.backend

Succeed(s) == [s EXCEPT !.ok = TRUE]
Fail(s) == [s EXCEPT !.ok = FALSE]

\* The open transaction ends.  (commit() and rollback() also clear needs, and
\* EndTransaction, which follows each, does it again.)
Ended(s, fate) ==
    [s EXCEPT !.ok = TRUE, !.dbtx = FALSE, !.dirty = FALSE,
              !.fate = IF s.dirty /\ @ = "none" THEN fate ELSE @]

CannotEnd(s, call) == call \in s.fails \/ (be.strict /\ ~s.dbtx)

DbCommit(s) ==
    IF CannotEnd(s, "commit") THEN Fail(s) ELSE Ended(s, "committed")

DbRollback(s) ==
    IF CannotEnd(s, "rollback") THEN Fail(s) ELSE Ended(s, "rolledback")

\* A begin query.  odbc's begin() runs none while autocommit is off.
DbBegin(s) ==
    IF "begin" \in s.fails THEN Fail(s)
    ELSE IF ~s.dbauto /\ be.native = "explicit"
    THEN [s EXCEPT !.ok = TRUE, !.needs = TRUE]
    ELSE [s EXCEPT !.ok = TRUE, !.needs = TRUE, !.dbtx = TRUE]

\* Turning autocommit on commits, unless it was on all along.
DbAutoOn(s) ==
    IF "autocommiton" \in s.fails THEN Fail(s)
    ELSE IF s.dbauto THEN Succeed(s)
    ELSE [Ended(s, "committed") EXCEPT !.dbauto = TRUE]

DbAutoOff(s) ==
    IF "autocommitoff" \in s.fails THEN Fail(s)
    ELSE [s EXCEPT !.ok = TRUE, !.dbauto = FALSE]

\* A query that changes data or holds locks.
DbExecute(s) == [s EXCEPT !.ok = TRUE, !.dirty = ~s.dbauto \/ s.dbtx]

-----------------------------------------------------------------------------
(* The controller. *)

SupportsExplicit == be.native # "implicit"
FakingImplicit(s) == be.native # "implicit" /\ s.model = "implicit"
FakingExplicit(s) == be.native = "implicit" /\ s.model # "implicit"
FakingDeferred(s) == be.native # "deferred" /\ s.model = "deferred"

BeginTransaction(s) == [s EXCEPT !.ok = TRUE, !.intx = TRUE, !.auto = FALSE]

\* endTransaction, by model.  It ignores whether the database does as it is
\* told.
AfterDeferred(s) ==
    [ IF FakingExplicit(s)
      THEN IF s.eot THEN DbAutoOn(s) ELSE DbAutoOff(s)
      ELSE IF s.eot THEN s ELSE DbBegin(s)
      EXCEPT !.auto = s.eot, !.eot = FALSE ]

\* Mutant: no transaction follows the last.
AfterFakedImplicitNothing(s) == s

AfterFakedImplicit(s) == IF s.auto \/ be.hasac THEN s ELSE DbBegin(s)

AfterExplicit(s) == [IF be.hasac THEN DbAutoOn(s) ELSE s EXCEPT !.auto = TRUE]

AfterTransaction(s) ==
    IF s.model = "deferred" THEN AfterDeferred(s)
    ELSE IF FakingImplicit(s) THEN AfterFakedImplicit(s)
    ELSE IF SupportsExplicit \/ FakingExplicit(s) THEN AfterExplicit(s)
    ELSE s

EndTransaction(s) ==
    LET t == AfterTransaction(s)
    IN [t EXCEPT !.ok = TRUE, !.intx = ~t.auto, !.needs = FALSE]

\* Go on with u if the call that led to t succeeded.
Bail(t, u) == IF t.ok THEN u ELSE t

Commit(s) ==
    IF s.model = "none" \/ s.auto THEN Succeed(s)
    ELSE IF ~s.intx THEN Fail(s)
    ELSE LET t == DbCommit(s) IN Bail(t, EndTransaction(t))

Rollback(s) ==
    IF s.model = "none" \/ s.auto THEN Succeed(s)
    ELSE IF ~s.intx THEN Fail(s)
    ELSE LET t == DbRollback(s) IN Bail(t, EndTransaction(t))

Begin(s) ==
    IF s.model = "none" \/ ~s.auto THEN Succeed(s)
    ELSE IF s.intx THEN Fail(s)
    ELSE IF ~SupportsExplicit /\ ~FakingExplicit(s) THEN Succeed(s)
    ELSE LET t == IF FakingExplicit(s) THEN DbAutoOff(s) ELSE DbBegin(s)
         IN Bail(t, BeginTransaction(
                [t EXCEPT !.eot = @ \/ s.model = "deferred"]))

\* Mutant: autocommit-on is not deferred.
BegunDeferredNever(s) == FALSE

\* A begin started the transaction, in the model that defers autocommit-on then.
BegunDeferred(s) == s.model = "deferred" /\ s.eot

SetAutoCommitOn(s) ==
    IF s.model = "none" THEN [s EXCEPT !.ok = TRUE, !.auto = TRUE]
    ELSE IF s.auto \/ ~s.intx THEN Succeed(s)
    ELSE IF BegunDeferred(s) THEN Succeed(s)
    ELSE IF s.model = "error" THEN Fail(s)
    ELSE LET t == IF be.hasac THEN DbAutoOn(s) ELSE DbCommit(s)
         IN Bail(t, EndTransaction(
                [t EXCEPT !.eot = @ \/ s.model = "deferred",
                          !.auto = @ \/ be.hasac \/ FakingImplicit(s)]))

SetAutoCommitOff(s) ==
    IF s.model = "none" THEN [s EXCEPT !.ok = FALSE, !.auto = TRUE]
    ELSE IF ~s.auto \/ s.intx
    THEN IF s.model = "error" THEN Fail(s)
         ELSE IF s.model = "deferred"
         THEN LET t == IF ~FakingDeferred(s) /\ be.hasac THEN DbAutoOff(s)
                                                          ELSE Succeed(s)
              IN Bail(t, [t EXCEPT !.eot = FALSE])
         ELSE Succeed(s)
    ELSE LET t == IF be.hasac THEN DbAutoOff(s) ELSE DbBegin(s)
         IN Bail(t, BeginTransaction(
                [t EXCEPT !.eot = @ /\ s.model # "deferred"]))

SetAutoCommit(s, on) == IF on THEN SetAutoCommitOn(s) ELSE SetAutoCommitOff(s)

\* Get out of any transaction, as the native model would, then switch.
SetTransactionModel(s, model) ==
    IF model = s.model THEN Succeed(s)
    ELSE LET c == Commit([s EXCEPT !.model = be.native])
             t == IF s.model = "none" THEN Succeed(s)
                  ELSE Bail(c, SetAutoCommitOn(c))
             u == [t EXCEPT !.model = model]
         IN IF ~t.ok THEN [t EXCEPT !.model = s.model]
            ELSE IF model = "implicit" THEN SetAutoCommitOff(u) ELSE u

\* commitOrRollback, after a query the database ran.
MarkNeeds(s, needed) ==
    IF s.model = "none" THEN s ELSE [s EXCEPT !.needs = needed]

Query(s) == MarkNeeds(DbExecute(s), TRUE)

\* executeQuery, after a query that set autocommit among other settings.
SetIncludingOn(s) ==
    LET t == [MarkNeeds(DbAutoOn(s), TRUE) EXCEPT !.auto = TRUE]
    IN IF t.intx THEN EndTransaction(t) ELSE t
SetIncludingOff(s) ==
    LET t == [MarkNeeds(DbAutoOff(s), TRUE) EXCEPT !.auto = FALSE]
    IN IF t.intx THEN t ELSE BeginTransaction(t)

\* Whether endSession has to end a transaction.
Owes(s) ==
    \/ FakingExplicit(s)
    \/ FakingImplicit(s)
    \/ s.model # "none" /\ s.needs

EndWork(s) ==
    IF ~Owes(s) THEN s ELSE IF dep.endcommit THEN Commit(s) ELSE Rollback(s)

\* Mutant: the drop stays uncommitted.
DropTempTablesUncommitted(s) ==
    IF s.temp THEN [Query(s) EXCEPT !.temp = FALSE] ELSE s

\* The session's temporary tables go, in a transaction of their own.
DropTempTables(s) ==
    IF s.temp THEN Commit([Query(s) EXCEPT !.temp = FALSE]) ELSE s

\* Mutant: the model was never saved.
ResetUnsaved(s) ==
    SetAutoCommit(SetTransactionModel(s, "unknown"), initial.auto)

\* The model and the autocommit the next session starts with.
Reset(s) == SetAutoCommit(SetTransactionModel(s, initial.model), initial.auto)

\* Mutant: the reset comes first, and commits what was to be rolled back.
EndOfSessionResetFirst(s) == DropTempTables(EndWork(Reset(s)))

\* endSession: nothing it does stops at a failure.
EndOfSession(s) == Reset(DropTempTables(EndWork(s)))

\* logIn: a new connection, whose work is gone if there was any.
LogIn(s) ==
    SetAutoCommit(
        [s EXCEPT !.auto = be.autostart, !.intx = ~be.autostart,
                  !.dbauto = be.autostart, !.dbtx = FALSE, !.dirty = FALSE,
                  !.fate = IF s.dirty THEN "rolledback" ELSE @],
        initial.auto)

-----------------------------------------------------------------------------

\* sqlrservercontroller's constructor.
Constructed == [
    model |-> initial.model, auto |-> FALSE, intx |-> FALSE, eot |-> FALSE,
    needs |-> FALSE, temp |-> FALSE, ok |-> TRUE,
    dbauto |-> FALSE, dbtx |-> FALSE, dirty |-> FALSE,
    fails |-> {}, fate |-> "none"]

Init ==
    /\ dep \in Deployments
    /\ \E m \in dep.models, a \in dep.autos :
        initial = [model |-> m,
                   auto |-> a = "yes" \/ (a = "default" /\ m # "implicit")]
    /\ st = LogIn(Constructed)
    /\ phase = "idle"
    /\ last = "login"
    /\ failures = 0

\* initSession.
BeginSession ==
    /\ phase = "idle"
    /\ phase' = "session"
    /\ last' = "session"
    /\ st' = [st EXCEPT !.needs = FALSE, !.ok = TRUE, !.fate = "none"]
    /\ UNCHANGED <<dep, initial, failures>>

\* A request of the client, during which the calls in F on the database fail.
Failing == {F \in SUBSET DbCalls : F # {} => failures < dep.failures}
Asked(F) == [st EXCEPT !.fails = F, !.fate = "none"]
Request(name, F, answer) ==
    /\ phase = "session"
    /\ last' = name
    /\ failures' = failures + (IF F = {} THEN 0 ELSE 1)
    /\ st' = [answer EXCEPT !.fails = {}]
    /\ UNCHANGED <<dep, initial, phase>>

ClientBegin ==
    /\ "begin" \in dep.uses
    /\ \E F \in Failing : Request("begin", F, Begin(Asked(F)))
ClientCommit ==
    \E F \in Failing : Request("commit", F, Commit(Asked(F)))
ClientRollback ==
    \E F \in Failing : Request("rollback", F, Rollback(Asked(F)))

AutoCommitOn ==
    /\ "auto" \in dep.uses
    /\ \E F \in Failing : Request("on", F, SetAutoCommitOn(Asked(F)))
AutoCommitOff ==
    /\ "auto" \in dep.uses
    /\ \E F \in Failing : Request("off", F, SetAutoCommitOff(Asked(F)))

Switch(model) ==
    /\ "switch" \in dep.uses
    /\ \E F \in Failing :
            Request("switch", F, SetTransactionModel(Asked(F), model))

\* A query that changes something ...
Execute == Request("query", {}, Query(Asked({})))

\* ... one that makes a temporary table ...
CreateTemp ==
    Request("query", {}, [Query(Asked({})) EXCEPT !.temp = TRUE])

\* ... a select for update ...
SelectForUpdate ==
    Request("query", {}, IF st.auto THEN DbExecute(Asked({}))
                                    ELSE Query(Asked({})))

\* ... or a "rollback to": not intercepted, but commitOrRollback takes it for a
\* rollback.
RollbackToSavepoint ==
    /\ "savepoint" \in dep.uses /\ ~st.auto
    /\ Request("query", {}, MarkNeeds(DbExecute(Asked({})), FALSE))

\* A block of queries with a begin in it, which is not intercepted.
HiddenBegin ==
    /\ "block" \in dep.uses /\ SupportsExplicit
    /\ Request("query", {},
               MarkNeeds([DbExecute(Asked({})) EXCEPT !.dbtx = TRUE], TRUE))

\* "set autocommit=..., ...": the database runs it, and executeQuery follows.
SettingsOn ==
    /\ "settings" \in dep.uses
    /\ Request("settings on", {}, SetIncludingOn(Asked({})))
SettingsOff ==
    /\ "settings" \in dep.uses
    /\ Request("settings off", {}, SetIncludingOff(Asked({})))

\* The database is found dead: reLogIn.
Reconnect ==
    /\ failures < dep.failures
    /\ failures' = failures + 1
    /\ phase = "session"
    /\ last' = "login"
    /\ st' = LogIn([st EXCEPT !.fate = "none"])
    /\ UNCHANGED <<dep, initial, phase>>

EndSession ==
    /\ phase = "session"
    /\ phase' = "idle"
    /\ last' = "end"
    /\ st' = EndOfSession([st EXCEPT !.fate = "none"])
    /\ UNCHANGED <<dep, initial, failures>>

Next ==
    \/ BeginSession \/ EndSession \/ Reconnect
    \/ ClientBegin \/ ClientCommit \/ ClientRollback
    \/ AutoCommitOn \/ AutoCommitOff \/ \E m \in dep.models : Switch(m)
    \/ Execute \/ CreateTemp \/ SelectForUpdate \/ RollbackToSavepoint
    \/ HiddenBegin \/ SettingsOn \/ SettingsOff

Spec == Init /\ [][Next]_vars

-----------------------------------------------------------------------------

\* Types; among the states, _txmodel never becomes what is not a model, which
\* an _initialtxmodel that was never saved would make it.
TypeOK ==
    /\ dep \in Deployments
    /\ initial \in [model : dep.models, auto : BOOLEAN]
    /\ st \in State
    /\ phase \in {"idle", "session"}
    /\ failures \in 0 .. dep.failures

\* No session leaves uncommitted work or locks to the next one: endSession ends
\* every transaction, also one it can only tell from _needscommitorrollback.
NoWorkLeaks == phase = "idle" => ~st.dirty

\* The controller's idea of the transaction agrees with the database's: it
\* counts on autocommit (_autocommit) exactly if the database commits each query
\* at once, and is in a transaction (_intransaction) exactly if it does not.
AgreesWithDatabase == dep.tracked =>
    /\ st.auto <=> st.dbauto /\ ~st.dbtx
    /\ st.intx <=> ~st.auto

\* The endofsession parameter decides what becomes of work in a transaction that
\* is open when the session ends, and nothing endSession does before or after
\* decides otherwise (dropping tables commits, so does autocommit on).
EndOfSessionHonoured ==
    [][phase = "session" /\ phase' = "idle" /\ st.dirty
        => st'.fate = IF dep.endcommit THEN "committed" ELSE "rolledback"]_vars

-----------------------------------------------------------------------------
(* What all of this is for. *)

Model == INSTANCE TransactionModel WITH
    start   <- initial,
    atend   <- IF dep.endcommit THEN "committed" ELSE "rolledback",
    request <- IF last = "settings on" THEN "on"
               ELSE IF last = "settings off" THEN "off" ELSE last,
    ok      <- st.ok,
    model   <- st.model,
    open    <- ~st.dbauto \/ st.dbtx,
    begun   <- st.model = "deferred" /\ st.eot /\ (~st.dbauto \/ st.dbtx),
    work    <- st.dirty,
    fate    <- st.fate

\* Whatever its database does natively, the session follows the transaction model
\* that is configured, as configreference.wt describes it: what begin, commit,
\* rollback and autocommit do to the open transaction and to the work in it, now
\* or, when autocommit on is deferred, requests later.
ImplementsModel ==
    /\ dep.tracked => Model!ModelInit
    /\ [][dep.tracked => Model!ModelNext]_Model!modelvars
=============================================================================
