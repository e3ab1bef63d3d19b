----------------------------- MODULE MCSession ------------------------------
(* Deployments of Session for TLC. *)
EXTENDS Session
CONSTANTS k1, k2, h1, h2, h3
TwoClients == {k1, k2}
ThreeHands == {h1, h2, h3}
Base == [cursors |-> 1, maxcursors |-> 3, growby |-> 2, timeout |-> 2,
         uses |-> {"suspend"}, failures |-> 0]
Trusted == {
    Base,
    \* fewer cursors than a program has; sessions that time out at once
    [Base EXCEPT !.maxcursors = 2, !.growby = 1, !.timeout = 0],
    [Base EXCEPT !.maxcursors = 1, !.timeout = 1],
    \* a count of cursors that wraps around
    [Base EXCEPT !.maxcursors = 2, !.growby = 4, !.timeout = 1],
    \* cursors that do not open; sessions that nobody suspends
    [Base EXCEPT !.growby = 1, !.failures = 1, !.uses = {"settings", "rejected"}]}
=============================================================================
