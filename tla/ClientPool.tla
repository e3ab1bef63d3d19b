----------------------------- MODULE ClientPool -----------------------------
(***************************************************************************)
(* What the listener and the connections promise together: every client is *)
(* paired with one free connection at a time, is served once, by the       *)
(* connection it was paired with, or is refused without having been        *)
(* served; a connection serves one client and is promised to one client.   *)
(***************************************************************************)
CONSTANTS Conns, Clients, None

VARIABLES
    state,   \* the life of each client
    claim,   \* the clients a connection is promised to
    occ      \* the client a connection is serving

poolvars == <<state, claim, occ>>

PoolInit ==
    /\ state = [k \in Clients |-> "absent"]
    /\ claim = [c \in Conns |-> {}]
    /\ occ = [c \in Conns |-> None]

Arrive(k) ==
    /\ state[k] = "absent"
    /\ state' = [state EXCEPT ![k] = "waiting"]
    /\ UNCHANGED <<claim, occ>>

Claim(k, c) ==
    /\ state[k] = "waiting"
    /\ \A d \in Conns : k \notin claim[d]
    /\ claim[c] = {} /\ occ[c] = None
    /\ claim' = [claim EXCEPT ![c] = {k}]
    /\ UNCHANGED <<state, occ>>

\* The handoff failed; the client goes back to waiting.
Unclaim(k, c) ==
    /\ claim[c] = {k}
    /\ claim' = [claim EXCEPT ![c] = {}]
    /\ UNCHANGED <<state, occ>>

Serve(k, c) ==
    /\ claim[c] = {k} /\ occ[c] = None
    /\ claim' = [claim EXCEPT ![c] = {}]
    /\ occ' = [occ EXCEPT ![c] = k]
    /\ state' = [state EXCEPT ![k] = "insession"]

Leave(c) ==
    /\ occ[c] # None
    /\ state' = [state EXCEPT ![occ[c]] = "over"]
    /\ occ' = [occ EXCEPT ![c] = None]
    /\ UNCHANGED claim

Refuse(k) ==
    /\ state[k] = "waiting"
    /\ \A c \in Conns : k \notin claim[c]
    /\ state' = [state EXCEPT ![k] = "refused"]
    /\ UNCHANGED <<claim, occ>>

PoolNext ==
    \/ \E k \in Clients : Arrive(k) \/ Refuse(k)
    \/ \E k \in Clients, c \in Conns :
            Claim(k, c) \/ Unclaim(k, c) \/ Serve(k, c)
    \/ \E c \in Conns : Leave(c)

PoolSpec == PoolInit /\ [][PoolNext]_poolvars
=============================================================================
