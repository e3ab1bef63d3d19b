-------------------------- MODULE TransactionModel --------------------------
(***************************************************************************)
(* What SQL Relay promises of transactions, whatever database is behind    *)
(* it: the five values of transactionmodel, as the documentation           *)
(* (configreference.wt, transactionmodel and endofsession) and the names   *)
(* of sqlrtxmodel_t have them.  Work is done in the open transaction, or   *)
(* commits at once.                                                        *)
(***************************************************************************)
EXTENDS Naturals

VARIABLES
    start,    \* the configured model, and whether sessions start in autocommit
    atend,    \* what endofsession does: commit or roll back
    request,  \* the last request
    ok,       \* whether it succeeded
    model,    \* the session's model
    open,     \* a transaction is open
    begun,    \* it was begun, and autocommit is on once it is over
    work,     \* work is uncommitted
    fate,     \* what became of uncommitted work
    failures  \* failures of the database

modelvars ==
    <<start, atend, request, ok, model, open, begun, work, fate, failures>>

ModelInit ==
    /\ request = "login" /\ model = start.model
    /\ open = (model # "none" /\ ~start.auto)
    /\ ~begun /\ ~work /\ fate = "none"

\* The transaction ends, one way or the other.
Over(how) == work' = FALSE /\ fate' = IF work THEN how ELSE "none"

NoChange == UNCHANGED <<open, begun, work>> /\ fate' = "none"

Query ==
    /\ request' = "query"
    /\ work' = open /\ fate' = "none"
    /\ UNCHANGED <<model, open, begun>>

\* "begin required to start a new transaction".  In the implicit model, which has
\* no use for it, a begin ends autocommit or does nothing.
Begin ==
    /\ request' = "begin"
    /\ UNCHANGED model
    /\ \/ /\ model # "none" /\ ~open
          /\ open' = TRUE /\ begun' = (model = "deferred")
          /\ UNCHANGED work /\ fate' = "none"
       \/ (open \/ model \in {"none", "implicit"}) /\ NoChange

\* In the implicit model, and in the deferred one unless the transaction was begun,
\* "commit/rollback implicitly starts a new transaction".
End(how) ==
    /\ UNCHANGED model
    /\ Over(how)
    /\ open' = (open /\ (model = "implicit" \/ (model = "deferred" /\ ~begun)))
    /\ begun' = FALSE

\* "autocommit on/off take effect immediately" ...
On ==
    /\ request' = "on"
    /\ UNCHANGED model
    /\ ~(model = "deferred" /\ begun)
    /\ ~(model = "error" /\ open)
    /\ open' = FALSE /\ begun' = FALSE /\ Over("committed")

\* ... but "while in a begin-initiated transaction, autocommit on takes effect at the
\* next commit/rollback (deferred)".
OnDeferred ==
    /\ request' = "on"
    /\ model = "deferred" /\ begun /\ open
    /\ UNCHANGED model /\ NoChange

\* There are no transactions to switch to in the model none.
Off ==
    /\ request' = "off"
    /\ UNCHANGED model
    /\ model # "none" /\ ~(model = "error" /\ open)
    /\ open' = TRUE /\ begun' = FALSE
    /\ UNCHANGED work /\ fate' = "none"

\* "while in a transaction, autocommit on/off throw an error"
AutoCommitError ==
    /\ request' \in {"on", "off"}
    /\ ~ok'
    /\ \/ model = "error" /\ open
       \/ model = "none" /\ request' = "off"
    /\ UNCHANGED model /\ NoChange

\* Another model, out of any transaction and in autocommit but for the implicit one.
Switch ==
    /\ request' = "switch"
    /\ \/ /\ model' # model
          /\ open' = (model' = "implicit") /\ begun' = FALSE
          /\ Over("committed")
       \/ UNCHANGED model /\ NoChange

\* Something in the database failed.
Failed ==
    ~ok' /\ failures' > failures /\ UNCHANGED model /\ NoChange

BeginSession == request' = "session" /\ UNCHANGED model /\ NoChange

\* Dropping the session's temporary tables is committed in any case.
EndSession ==
    /\ request' = "end"
    /\ model' = start.model
    /\ Over(atend) \/ (~work /\ ~work' /\ fate' = "committed")
    /\ open' = (model' # "none" /\ ~start.auto) /\ begun' = FALSE

\* A new connection to the database: the session goes on without its transaction.
LogIn ==
    /\ request' = "login"
    /\ UNCHANGED model
    /\ Over("rolledback")
    /\ open' = (model # "none" /\ ~start.auto) /\ begun' = FALSE

ModelNext ==
    /\ UNCHANGED <<start, atend>>
    /\ \/ /\ ok'
          /\ \/ Query \/ Begin \/ On \/ OnDeferred \/ Off \/ Switch
             \/ request' = "commit" /\ End("committed")
             \/ request' = "rollback" /\ End("rolledback")
       \/ AutoCommitError \/ Failed
       \/ BeginSession \/ EndSession \/ LogIn

=============================================================================
