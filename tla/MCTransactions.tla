--------------------------- MODULE MCTransactions ---------------------------
(* Deployments of Transactions for TLC. *)
EXTENDS Transactions, DeploymentKinds
oracle     == [native |-> "implicit", hasac |-> TRUE,
               autostart |-> FALSE, strict |-> FALSE]
db2        == [native |-> "implicit", hasac |-> TRUE,
               autostart |-> TRUE, strict |-> FALSE]
mysql      == [native |-> "deferred", hasac |-> TRUE,
               autostart |-> TRUE, strict |-> FALSE]
odbc       == [native |-> "explicit", hasac |-> TRUE,
               autostart |-> TRUE, strict |-> FALSE]
postgresql == [native |-> "explicit", hasac |-> FALSE,
               autostart |-> TRUE, strict |-> FALSE]
sqlite     == [native |-> "explicit", hasac |-> FALSE,
               autostart |-> TRUE, strict |-> TRUE]
freetds    == [native |-> "error", hasac |-> FALSE,
               autostart |-> TRUE, strict |-> TRUE]
NoAutoCommit == {postgresql, sqlite, freetds}
Implicits == {oracle, db2}
Default == {"default"}
All == {"yes", "no", "default"}
Transactional == TxModels \ {"none"}
NotError == TxModels \ {"none", "error"}
FakedExplicit == {"explicit", "deferred"}

Deployed(backends, models, autos, uses, maxfailures) ==
    {[backend |-> b, models |-> models, autos |-> autos, endcommit |-> e,
      uses |-> uses, failures |-> maxfailures, tracked |-> TRUE] :
        b \in backends, e \in BOOLEAN}

\* Where the controller and the database agree, request by request.
Agreeing ==
    Deployed(NoAutoCommit, TxModels, Default, {"begin", "switch", "auto"}, 0)
    \cup Deployed(Implicits, NotError, All, {"begin", "switch", "auto"}, 0)
    \cup Deployed({mysql}, {"deferred"}, All, {"begin", "switch", "auto"}, 1)
    \cup Deployed({mysql}, {"explicit"}, All, {"auto", "settings"}, 0)
    \cup Deployed({odbc}, Transactional, Default, {"begin", "switch"}, 0)

\* Where sessions end clean, whatever fails during a request.
Clean ==
    Deployed(NoAutoCommit, TxModels, All, {"begin", "switch", "auto"}, 1)
    \cup Deployed(Implicits, FakedExplicit, All, {"begin", "auto", "savepoint"}, 0)
    \cup Deployed(NoAutoCommit, {"implicit"}, Default, {"begin", "block"}, 0)

Trusted == Agreeing \cup {[d EXCEPT !.tracked = FALSE] : d \in Clean}

\* The premises of the theorems in TransactionsProofs.
ASSUME KindsAssumption ==
    \A d \in Trusted : (d.tracked => Follows(d)) /\ (Follows(d) \/ EndsWell(d))

HiddenBegins == Deployed({postgresql}, {"explicit"}, Default, {"begin", "block"}, 0)
=============================================================================
