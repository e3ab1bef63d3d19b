------------------------------ MODULE MCReplay ------------------------------
(* Deployments of Replay for TLC. *)
EXTENDS Replay, DeploymentKinds
Base == [model |-> "explicit", errors |-> {"deadlock"},
         conditions |-> {"deadlock"}, kinds |-> {"update", "insert", "bad"},
         waits |-> {"update"}, includeselects |-> FALSE, maxretries |-> 0,
         maxerrors |-> 2]
LockWait == [Base EXCEPT !.errors = Errors, !.conditions = {"lockwait"}]

\* Deadlocks and whole transactions, lock waits and single queries, selects
\* logged or not, queries that cannot be replayed, a limit to the retries.
Trusted == {
    Base,
    [Base EXCEPT !.model = "implicit", !.maxretries = 1,
                 !.maxerrors = 3],
    [Base EXCEPT !.kinds = {"update", "select"}, !.includeselects = TRUE,
                 !.waits = {"update", "select"}],
    [Base EXCEPT !.kinds = {"update", "select", "insertselect"}],
    LockWait,
    [LockWait EXCEPT !.model = "implicit", !.waits = {"update", "insert"}]}

\* What the theorems about replays ask of a deployment.
ASSUME KindsAssumption ==
    \A d \in Trusted : ReplaysTransactions(d) \/ ReplaysQueries(d)

\* Both conditions, as the example configuration has them.
BothConditions == {[Base EXCEPT !.errors = Errors, !.conditions = Errors]}
=============================================================================
