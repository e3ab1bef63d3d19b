------------------------------ MODULE MCRouter ------------------------------
(* Deployments of Router for TLC. *)
EXTENDS Router
CONSTANTS d1, d2, b1, b2
TwoDaemons == {d1, d2}
TwoBackends == {b1, b2}
Base == [entire |-> FALSE, auto |-> TRUE, endcommit |-> TRUE, implicit |-> {},
         committing |-> {}, checks |-> TRUE, failures |-> 1]
Both(deployment) ==
    {deployment,
     [deployment EXCEPT !.endcommit = FALSE, !.committing = {b1, b2}]}
Trusted ==
    Both(Base) \cup Both([Base EXCEPT !.failures = 2])
    \cup Both([Base EXCEPT !.entire = TRUE])
=============================================================================
