------------------------------- MODULE Replay -------------------------------
(***************************************************************************)
(* The replay trigger: it logs the queries of a transaction, and when one  *)
(* of them fails with a deadlock or a lock wait timeout, runs the          *)
(* transaction or the query again, so that the client never hears of the   *)
(* error.  That is right if the transaction then holds what the client was *)
(* told it holds, with the keys it was told.                               *)
(*                                                                         *)
(* The database is external, and responds the way the trigger is made for: *)
(* a deadlock undoes the open transaction, which stays open; a lock wait   *)
(* timeout undoes one query; a key once generated is not generated again.  *)
(* Its locks are left out: a query that may wait for one may fail so.      *)
(***************************************************************************)
EXTENDS Integers, SequencesExt

CONSTANTS Deployments,    \* what may be deployed, see Deployment
          MaxQueries      \* bound: the queries a client sends

Errors == {"deadlock", "lockwait"}

\* A query that changes something, an insert with a generated key, an
\* insert-select, a select, one that always fails.
Kinds == {"update", "insert", "insertselect", "select", "bad"}

\* The transaction model; the errors the database gives and those configured as
\* conditions; the kinds of queries sent and those that may meet such an error;
\* includeselects and maxretries (0: no limit); a bound on the errors.
Deployment == [model : {"explicit", "implicit"},
               errors : SUBSET Errors, conditions : SUBSET Errors,
               kinds : SUBSET Kinds, waits : SUBSET Kinds,
               includeselects : BOOLEAN, maxretries : Nat, maxerrors : Nat]

ASSUME ReplayAssumption == Deployments \subseteq Deployment /\ MaxQueries \in Nat

VARIABLES
    dep,       \* the deployment
    intx,      \* the controller's _intransaction
    tr,        \* the trigger between queries: log, wasintx, disabled
    run,       \* the trigger's replay, if it is replaying
    db,        \* the database: rows of the transaction, committed, next key
    client,    \* what the client was told the database holds
    sent,      \* queries sent so far
    errors     \* deadlocks and timeouts so far

vars == <<dep, intx, tr, run, db, client, sent, errors>>

\* A query, or the row it makes.  A key of 0 is yet to be generated.
Query == [id : 1 .. MaxQueries, kind : Kinds, key : Nat]

Idle == [on |-> FALSE]
Replaying == run.on

-----------------------------------------------------------------------------
(* The database. *)

Generates(q) == q.kind = "insert" /\ q.key = 0

\* A bad query fails, and so does an insert of a key that is there already.
Fails(q) ==
    \/ q.kind = "bad"
    \/ q.key # 0 /\ \E r \in Range(db.work \o db.done) : r.key = q.key

RowsOf(q) ==
    IF Fails(q) \/ q.kind = "select" THEN <<>>
    ELSE <<IF Generates(q) THEN [q EXCEPT !.key = db.nextkey] ELSE q>>

\* It runs q to the end ...
Ran(q) ==
    [work |-> IF intx THEN db.work \o RowsOf(q) ELSE db.work,
     done |-> IF intx THEN db.done ELSE db.done \o RowsOf(q),
     nextkey |-> db.nextkey + (IF Generates(q) THEN 1 ELSE 0)]

\* ... or gives up with an error.
GaveUp(error) == IF error = "deadlock" THEN [db EXCEPT !.work = <<>>] ELSE db

\* The errors q may meet.
MayMeet(q) ==
    IF q.kind \in dep.waits /\ errors < dep.maxerrors THEN dep.errors ELSE {}

-----------------------------------------------------------------------------
(* What the client is told. *)

\* q succeeded, and made rows as far as the client can see.
ToldDone(q, rows) ==
    LET told == IF q.kind = "select" THEN <<>>
                ELSE IF rows = <<>> THEN <<q>> ELSE rows
    IN IF intx THEN [client EXCEPT !.work = @ \o told]
               ELSE [client EXCEPT !.done = @ \o told]

\* q failed: after a deadlock the client knows that its transaction is gone.
ToldError(error) ==
    IF error = "deadlock" THEN [client EXCEPT !.work = <<>>] ELSE client

-----------------------------------------------------------------------------
(* The trigger. *)

NewTransaction == [log |-> <<>>, wasintx |-> FALSE, disabled |-> FALSE]

\* Mutants: a transaction keeps the log of what came before it; an insert is
\* logged as it was sent.
LogQueryKept(q, rows) ==
    [tr EXCEPT !.log = @ \o (IF rows = <<>> THEN <<q>> ELSE rows),
               !.wasintx = @ \/ intx]
LogQueryVerbatim(q, rows) ==
    LET log == IF intx /\ tr.wasintx THEN tr.log ELSE <<>>
    IN [tr EXCEPT !.log = Append(log, q), !.wasintx = @ \/ intx]

\* logQuery: q has been run and made rows, which hold the key it generated.
LogQuery(q, rows) ==
    LET log == IF intx /\ tr.wasintx THEN tr.log ELSE <<>>
        t == [tr EXCEPT !.log = log, !.wasintx = @ \/ intx]
    IN IF tr.disabled THEN tr
       ELSE IF q.kind = "select" /\ ~dep.includeselects THEN t
       ELSE IF q.kind = "insertselect"
       THEN IF intx THEN [t EXCEPT !.log = <<>>, !.disabled = TRUE] ELSE t
       ELSE [t EXCEPT !.log = Append(@, IF rows = <<>> THEN q ELSE rows[1])]

\* Where a replay starts, and starts over: the query it looks at now is at at.
\* A deadlock is configured with scope="transaction", a lock wait timeout with
\* scope="query".
First(log, error) == IF error = "deadlock" THEN 1 ELSE Len(log)

\* Mutant: it goes on with the query that failed.
AgainHere(r) == r.at

Again(r) == IF r.cause = "deadlock" THEN 1 ELSE r.at

\* Mutant: there is no limit.
TooOftenNever(retry) == FALSE

TooOften(retry) == dep.maxretries > 0 /\ retry > dep.maxretries

\* Mutant: any error is taken for a replay condition.
ConditionAny(error) == error # "none"

\* replayCondition.
Condition(error) == error \in dep.conditions

\* runAfterExecute, for a query that failed with error.
StartsReplay(error) == ~tr.disabled /\ Condition(error)

-----------------------------------------------------------------------------

Init ==
    /\ dep \in Deployments
    /\ intx = (dep.model = "implicit")
    /\ tr = NewTransaction
    /\ run = Idle
    /\ db = [work |-> <<>>, done |-> <<>>, nextkey |-> 1]
    /\ client = [work |-> <<>>, done |-> <<>>]
    /\ sent = 0 /\ errors = 0

Begin ==
    /\ ~Replaying /\ ~intx /\ sent < MaxQueries
    /\ intx' = TRUE
    /\ UNCHANGED <<dep, tr, run, db, client, sent, errors>>

\* commit and rollback end the transaction, which the trigger is told of.
End(done, told) ==
    /\ ~Replaying /\ intx
    /\ intx' = (dep.model = "implicit")
    /\ tr' = NewTransaction
    /\ db' = [db EXCEPT !.work = <<>>, !.done = done]
    /\ client' = [work |-> <<>>, done |-> told]
    /\ UNCHANGED <<dep, run, sent, errors>>

Commit == End(db.done \o db.work, client.done \o client.work)
Rollback == End(db.done, client.done)

Sent(kind) == [id |-> sent + 1, kind |-> kind, key |-> 0]

Send(q) ==
    /\ ~Replaying /\ sent < MaxQueries
    /\ sent' = sent + 1
    /\ q.kind \in dep.kinds
    /\ UNCHANGED <<dep, intx>>

\* A query that the database runs, or finds fault with.
Execute(kind) ==
    LET q == Sent(kind)
    IN /\ Send(q)
       /\ db' = Ran(q)
       /\ tr' = LogQuery(q, RowsOf(q))
       /\ client' = IF Fails(q) THEN client ELSE ToldDone(q, RowsOf(q))
       /\ UNCHANGED <<run, errors>>

\* A query that fails with an error, which is a condition to replay or not.
ExecuteFails(kind) ==
    LET q == Sent(kind)
    IN \E error \in MayMeet(q) :
        /\ Send(q)
        /\ errors' = errors + 1
        /\ db' = GaveUp(error)
        /\ tr' = LogQuery(q, <<>>)
        /\ IF StartsReplay(error)
           THEN /\ run' = [on |-> TRUE, query |-> q, cause |-> error,
                           at |-> First(tr'.log, error), retry |-> 0,
                           error |-> "none", rows |-> <<>>]
                /\ UNCHANGED client
           ELSE /\ client' = ToldError(error)
                /\ UNCHANGED run

InLog == run.at \in 1 .. Len(tr.log)

\* One query of the replay runs.  If it fails without a condition, that is
\* taken for what it did in the first place.
ReplayRuns ==
    /\ Replaying /\ InLog
    /\ LET q == tr.log[run.at]
           error == IF Fails(q) THEN "error" ELSE "none"
       IN /\ db' = Ran(q)
          /\ run' = [run EXCEPT !.at = IF Condition(error) THEN Again(run)
                                                           ELSE @ + 1,
                                !.error = error, !.rows = RowsOf(q)]
    /\ UNCHANGED <<dep, intx, tr, client, sent, errors>>

\* One query of the replay meets an error again: retry, unless that is no
\* condition.
ReplayRetries ==
    /\ Replaying /\ InLog
    /\ \E error \in MayMeet(tr.log[run.at]) :
        /\ errors' = errors + 1
        /\ db' = GaveUp(error)
        /\ IF Condition(error)
           THEN /\ ~TooOften(run.retry + 1)
                /\ run' = [run EXCEPT !.retry = @ + 1, !.at = Again(run),
                                      !.error = error]
           ELSE run' = [run EXCEPT !.at = @ + 1, !.error = error,
                                   !.rows = <<>>]
    /\ UNCHANGED <<dep, intx, tr, client, sent>>

\* It retried too often: roll back.  As the trigger is replaying it ignores that
\* the transaction ends, and only clears its log.
ReplayFails ==
    /\ Replaying /\ InLog
    /\ TooOften(run.retry + 1)
    /\ \E error \in MayMeet(tr.log[run.at]) \cap dep.conditions :
        /\ errors' = errors + 1
        /\ client' = ToldError(error)
    /\ db' = [db EXCEPT !.work = <<>>]
    /\ intx' = (dep.model = "implicit")
    /\ tr' = [tr EXCEPT !.log = <<>>]
    /\ run' = Idle
    /\ UNCHANGED <<dep, sent>>

\* The log is at its end: the client is told what became of the last query.
ReplayEnds ==
    /\ Replaying /\ ~InLog
    /\ run' = Idle
    /\ client' = IF run.error = "none" THEN ToldDone(run.query, run.rows)
                                       ELSE ToldError(run.error)
    /\ UNCHANGED <<dep, intx, tr, db, sent, errors>>

Replay == ReplayRuns \/ ReplayRetries \/ ReplayFails \/ ReplayEnds

Next ==
    \/ Begin \/ Commit \/ Rollback
    \/ \E kind \in Kinds : Execute(kind) \/ ExecuteFails(kind)
    \/ Replay

\* A replay runs on by itself.
Spec == Init /\ [][Next]_vars /\ WF_vars(Replay)

-----------------------------------------------------------------------------

\* Types; a replay starts over no more often than maxretries says.
TypeOK ==
    /\ dep \in Deployments
    /\ intx \in BOOLEAN
    /\ tr \in [log : Seq(Query), wasintx : BOOLEAN, disabled : BOOLEAN]
    /\ db \in [work : Seq(Query), done : Seq(Query), nextkey : Nat]
    /\ client \in [work : Seq(Query), done : Seq(Query)]
    /\ sent \in 0 .. MaxQueries /\ errors \in 0 .. dep.maxerrors
    /\ Replaying =>
        /\ run.query \in Query /\ run.cause \in dep.conditions
        /\ run.at \in 0 .. Len(tr.log) + 1
        /\ run.error \in Errors \cup {"none", "error"}
        /\ run.rows \in Seq(Query)
        /\ run.retry \in 0 .. (IF dep.maxretries = 0 THEN dep.maxerrors
                                                     ELSE dep.maxretries)

Ids(rows) == [i \in DOMAIN rows |-> rows[i].id]

\* Whatever is replayed, and however often, each query the client was told
\* succeeded is applied once, in the order it was sent, and no other: none is
\* lost with a deadlock, none is applied again by a replay, and what failed for
\* the client has no effect.
AppliedAsTold ==
    ~Replaying => /\ Ids(db.work) = Ids(client.work)
                  /\ Ids(db.done) = Ids(client.done)

\* The keys the client got for its inserts are the keys of its rows: a replayed
\* insert uses the key it generated before, since another query of the
\* transaction may refer to it.
KeysAsTold ==
    ~Replaying => \A told \in Range(client.work \o client.done) :
                    told \in Range(db.work \o db.done)

\* The rows that the queries of log make, when each runs again.
Rebuild(log) ==
    LET rows[i \in 0 .. Len(log)] ==
            IF i = 0 THEN <<>>
            ELSE IF log[i].kind \in {"select", "bad"} THEN rows[i - 1]
            ELSE Append(rows[i - 1], log[i])
    IN rows[Len(log)]

\* At any moment a deadlock could strike, the log rebuilds the transaction: it
\* has the queries that made its rows, in order, none of an earlier transaction,
\* none that cannot be repeated.
LogRebuildsTransaction ==
    ~Replaying /\ intx /\ ~tr.disabled /\ "deadlock" \in dep.conditions
        => Rebuild(IF tr.wasintx THEN tr.log ELSE <<>>) = db.work

\* A replay comes to an end once the database gives no more errors, although
\* maxretries may be 0 and queries that failed before fail again.
ReplayComesToAnEnd == Replaying ~> ~Replaying
=============================================================================
