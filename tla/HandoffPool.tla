---------------------------- MODULE HandoffPool ----------------------------
(***************************************************************************)
(* The handoff protocol implements ClientPool: the refinement mapping.     *)
(***************************************************************************)
EXTENDS Handoff

ClientState(k) ==
    IF \E c \in Conns : serving[c] = k THEN "insession"
    ELSE IF served[k] > 0 THEN "over"
    ELSE CASE lpc[k] = "new" -> "absent"
           [] lpc[k] = "failed" -> "refused"
           [] OTHER -> "waiting"

Pool == INSTANCE ClientPool WITH
    state <- [k \in Clients |-> ClientState(k)],
    claim <- [c \in Conns |-> PromisedTo(c) \ {Reconnect}],
    occ   <- serving

\* Every behaviour of the listener and the connections is one of the pool:
\* a client is promised to one free connection, served by it once, or refused
\* without having been served (getAConnection, getAListener, waitForClient).
ImplementsPool == Pool!PoolSpec
=============================================================================
