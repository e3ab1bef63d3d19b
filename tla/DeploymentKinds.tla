-------------------------- MODULE DeploymentKinds --------------------------
(***************************************************************************)
(* Kinds of deployments of Transactions and of Replay for which theorems   *)
(* hold.  Each names a reason why the controller, or the replay trigger,   *)
(* cannot lose track, or why losing track does no harm.                    *)
(***************************************************************************)
EXTENDS Naturals

-----------------------------------------------------------------------------
(* Transactions.                                                            *)

\* A database without an autocommit of its own: the controller opens every
\* transaction with a begin query, and nobody else does.
Begins(d) ==
    /\ d.backend.native \in {"explicit", "error"}
    /\ ~d.backend.hasac /\ d.backend.autostart
    /\ d.autos \subseteq {"default"}

BeginsAlways(d) ==
    /\ Begins(d) /\ d.failures = 0
    /\ \/ d.uses \subseteq {"begin", "switch", "auto"}
       \/ d.models \subseteq {"implicit"} /\ d.uses \subseteq {"begin", "block"}

\* A native implicit model: a transaction is open while autocommit is off.
Implicitly(d) ==
    /\ d.backend.native = "implicit" /\ d.backend.hasac /\ ~d.backend.strict
    /\ d.models \cap {"none", "error"} = {} /\ d.failures = 0
    /\ \/ d.uses \subseteq {"begin", "switch", "auto"}
       \/ /\ d.models \subseteq {"explicit", "deferred"}
          /\ d.uses \subseteq {"begin", "switch", "auto", "savepoint"}

\* A native deferred model, and no other: either of the two opens one.
Deferred(d) ==
    /\ d.backend.native = "deferred" /\ d.backend.hasac /\ ~d.backend.strict
    /\ d.backend.autostart
    /\ d.models \subseteq {"deferred"}
    /\ d.uses \subseteq {"begin", "switch", "auto"}

\* The explicit model by autocommit alone.
ByAutocommit(d) ==
    /\ d.backend.native # "implicit" /\ d.backend.hasac /\ ~d.backend.strict
    /\ d.models \subseteq {"explicit"} /\ d.failures = 0
    /\ d.uses # {} /\ d.uses \subseteq {"auto", "settings"}

\* A native explicit model, by begin alone but for the implicit model.
ByBegin(d) ==
    /\ d.backend.native = "explicit" /\ d.backend.hasac /\ ~d.backend.strict
    /\ d.backend.autostart /\ d.autos \subseteq {"default"}
    /\ "none" \notin d.models /\ d.failures = 0
    /\ d.uses \subseteq {"begin", "switch"}

Follows(d) ==
    \/ BeginsAlways(d) \/ Implicitly(d) \/ Deferred(d) \/ ByAutocommit(d)
    \/ ByBegin(d)

\* A database with begin queries and no autocommit of its own.  The controller may
\* believe in a transaction that a failed begin never opened, and whatever is
\* configured ends sessions well.
EndsWell(d) ==
    /\ d.backend.native \in {"explicit", "error"}
    /\ ~d.backend.hasac /\ d.backend.autostart
    /\ d.uses \subseteq {"begin", "switch", "auto"}

-----------------------------------------------------------------------------
(* Replay.                                                                  *)

\* Deadlocks, and whole transactions to replay.  An insert that meets the deadlock
\* itself is not logged with its key, and an insert-select not at all; a replay given
\* up on leaves the explicit model's trigger believing in a transaction.
ReplaysTransactions(d) ==
    /\ d.errors \subseteq {"deadlock"} /\ d.conditions \subseteq {"deadlock"}
    /\ d.waits \cap {"insert", "insertselect"} = {}
    /\ d.maxretries > 0 => d.model = "implicit"

\* Lock wait timeouts, and the last query to replay, which is to be in the log.
ReplaysQueries(d) ==
    /\ d.conditions \subseteq {"lockwait"}
    /\ "insertselect" \notin d.waits
    /\ "select" \in d.waits => d.includeselects
    /\ d.maxretries = 0
=============================================================================
