---------------------------- MODULE HandoffList ----------------------------
(***************************************************************************)
(* The main listener's handoffsocklist: an array of (pid, socket) slots    *)
(* that is searched from the front (sqlrlistener.cpp registerHandoff,      *)
(* deRegisterHandoff, findMatchingSocket, fixup).  Handoff.tla treats it   *)
(* as the set of pids in it; here are its slots.  Connections register     *)
(* over one unix socket and deregister over another, so the two kinds of   *)
(* message are taken in any order.  In proxy mode a connection registers a *)
(* new socket after every session, without deregistering the old one.      *)
(* Pids are reused, though not while a message of the old process is still *)
(* queued.                                                                 *)
(***************************************************************************)
EXTENDS Naturals, Sequences

CONSTANTS
    Pids,           \* pids that connection processes may have
    NoPid,          \* 0: a free slot
    MaxConnections, \* maxconnections: the slots the list starts with
    ProxyMode,      \* handoff="proxy"
    MaxSocks        \* bound: sockets registered in a behaviour

ASSUME ListAssumption ==
    /\ NoPid \notin Pids
    /\ MaxConnections \in Nat
    /\ ProxyMode \in BOOLEAN
    /\ MaxSocks \in Nat

VARIABLES
    list,   \* handoffsocklist
    cur,    \* each live process's end of its newest handoff socket, or 0
    regq,   \* the socket each pid's queued registration is for, or 0
    remq,   \* pids with a queued deregistration
    socks   \* sockets made so far

vars == <<list, cur, regq, remq, socks>>

Free == [pid |-> NoPid, sock |-> 0]

Init ==
    /\ list = [i \in 1 .. MaxConnections |-> Free]
    /\ cur = [p \in Pids |-> 0]
    /\ regq = [p \in Pids |-> 0]
    /\ remq = {}
    /\ socks = 0

\* The slots of pid p.
At(p) == {i \in DOMAIN list : list[i].pid = p}

\* MUTANT: only free slots are taken.
UsableFreeOnly(p) == At(NoPid)

\* The slots registerHandoff may take for p.
Usable(p) == At(p) \cup At(NoPid)

\* The slot at which a loop over the list for a slot in S stops.
IsFirst(i, S) == i \in S /\ \A j \in S : i <= j

Registers(p) ==
    /\ socks < MaxSocks
    /\ socks' = socks + 1
    /\ cur' = [cur EXCEPT ![p] = socks + 1]
    /\ regq' = [regq EXCEPT ![p] = socks + 1]
    /\ UNCHANGED <<list, remq>>

\* A new process registers: getAListener, not _connected.
Start(p) ==
    /\ cur[p] = 0 /\ regq[p] = 0 /\ p \notin remq
    /\ Registers(p)

\* closeClientConnection in proxy mode, after a session, which takes a
\* registration the listener has handled.
ReRegister(p) ==
    /\ ProxyMode
    /\ cur[p] # 0 /\ regq[p] = 0
    /\ Registers(p)

\* shutDown: deRegisterForHandoff.
Exit(p) ==
    /\ cur[p] # 0
    /\ cur' = [cur EXCEPT ![p] = 0]
    /\ remq' = remq \cup {p}
    /\ UNCHANGED <<list, regq, socks>>

\* The process dies without deregistering.
Crash(p) ==
    /\ cur[p] # 0
    /\ cur' = [cur EXCEPT ![p] = 0]
    /\ UNCHANGED <<list, regq, remq, socks>>

\* Take the first slot that is free or has the same pid, or grow the list.
RegisterHandoff(p) ==
    /\ regq[p] # 0
    /\ regq' = [regq EXCEPT ![p] = 0]
    /\ LET new == [pid |-> p, sock |-> regq[p]]
       IN \/ \E i \in DOMAIN list :
                IsFirst(i, Usable(p)) /\ list' = [list EXCEPT ![i] = new]
          \/ Usable(p) = {} /\ list' = Append(list, new)
    /\ UNCHANGED <<cur, remq, socks>>

\* Free the first slot with the pid, if there is one.
DeRegisterHandoff(p) ==
    /\ p \in remq
    /\ remq' = remq \ {p}
    /\ \/ \E i \in DOMAIN list :
             IsFirst(i, At(p)) /\ list' = [list EXCEPT ![i] = Free]
       \/ At(p) = {} /\ UNCHANGED list
    /\ UNCHANGED <<cur, regq, socks>>

Next == \E p \in Pids :
    \/ Start(p) \/ ReRegister(p) \/ Exit(p) \/ Crash(p)
    \/ RegisterHandoff(p) \/ DeRegisterHandoff(p)

Spec == Init /\ [][Next]_vars

-----------------------------------------------------------------------------

Slots == [pid : Pids \cup {NoPid}, sock : Nat]

ListTypeOK ==
    /\ list \in Seq(Slots)
    /\ cur \in [Pids -> Nat]
    /\ regq \in [Pids -> Nat]
    /\ remq \subseteq Pids
    /\ socks \in Nat

\* findMatchingSocket finds every live connection whose registration has been
\* handled, and through its newest socket: whatever duplicates and leftovers
\* the list holds, the first slot with its pid is the current one.
LiveConnectionFound ==
    \A p \in Pids : cur[p] # 0 /\ regq[p] = 0 =>
        /\ At(p) # {}
        /\ \A i \in At(p) : IsFirst(i, At(p)) => list[i].sock = cur[p]
=============================================================================
