------------------------- MODULE HandoffListProofs -------------------------
(***************************************************************************)
(* The handoff list finds every live connection, for any number of pids,   *)
(* slots and sockets.  On top of the property, the invariant needs that a  *)
(* live connection's queued registration is its newest socket and that it  *)
(* has no deregistration queued.                                           *)
(***************************************************************************)
EXTENDS HandoffList, TLAPS

\* What is queued for live connections.
QueuedIsCurrent ==
    \A p \in Pids : cur[p] # 0 => regq[p] \in {0, cur[p]} /\ p \notin remq

ListInv == ListTypeOK /\ QueuedIsCurrent /\ LiveConnectionFound

\* Replacing the first usable slot of p makes it p's first slot and leaves the
\* first slot of every other pid alone; so does freeing p's first slot.
LEMMA ReplaceFirst ==
    ASSUME ListTypeOK, NEW p \in Pids, NEW q \in Pids, p # q,
           NEW i \in DOMAIN list, NEW s \in Slots, s.pid \in {p, NoPid},
           list[i].pid \in {p, NoPid},
           list' = [list EXCEPT ![i] = s]
    PROVE  /\ list' \in Seq(Slots) /\ DOMAIN list' = DOMAIN list
           /\ list'[i] = s
           /\ At(q)' = At(q)
           /\ \A j \in At(q) : list'[j] = list[j]
<1> USE ListAssumption DEF ListTypeOK
<1>1. list' \in Seq(Slots) /\ DOMAIN list' = DOMAIN list /\ list'[i] = s
  OBVIOUS
<1>2. \A j \in DOMAIN list : j # i => list'[j] = list[j]
  OBVIOUS
<1>3. i \notin At(q) /\ i \notin At(q)'
  BY <1>1 DEF At
<1>4. At(q)' = At(q)
  BY <1>1, <1>2, <1>3 DEF At
<1>. QED BY <1>1, <1>2, <1>3, <1>4 DEF At

\* The invariant of the list: types, queued messages and the property itself.
LEMMA ListInvariant == Spec => []ListInv
<1> USE ListAssumption DEF ListInv
<1>1. Init => ListInv
  <2> SUFFICES ASSUME Init PROVE ListInv
    OBVIOUS
  <2>1. list \in Seq(Slots)
    <3>1. Free \in Slots
      BY DEF Free, Slots
    <3>. QED BY <3>1 DEF Init
  <2>. QED BY <2>1 DEF Init, ListTypeOK, QueuedIsCurrent, LiveConnectionFound
<1>2. ListInv /\ [Next]_vars => ListInv'
  <2> SUFFICES ASSUME ListInv, [Next]_vars PROVE ListInv'
    OBVIOUS
  <2>1. ASSUME NEW p \in Pids, Start(p) PROVE ListInv'
    BY <2>1 DEF Start, Registers, ListTypeOK, QueuedIsCurrent,
                LiveConnectionFound, At, IsFirst
  <2>2. ASSUME NEW p \in Pids, ReRegister(p) PROVE ListInv'
    <3>1. ListTypeOK'
      BY <2>2 DEF ReRegister, Registers, ListTypeOK
    <3>2. QueuedIsCurrent'
      BY <2>2 DEF ReRegister, Registers, ListTypeOK, QueuedIsCurrent
    <3>3. LiveConnectionFound'
      BY <2>2 DEF ReRegister, Registers, ListTypeOK, LiveConnectionFound, At,
                  IsFirst
    <3>. QED BY <3>1, <3>2, <3>3
  <2>3. ASSUME NEW p \in Pids, Exit(p) PROVE ListInv'
    BY <2>3 DEF Exit, ListTypeOK, QueuedIsCurrent, LiveConnectionFound, At,
                IsFirst
  <2>4. ASSUME NEW p \in Pids, Crash(p) PROVE ListInv'
    BY <2>4 DEF Crash, ListTypeOK, QueuedIsCurrent, LiveConnectionFound, At,
                IsFirst
  <2>5. ASSUME NEW p \in Pids, RegisterHandoff(p) PROVE ListInv'
    <3> DEFINE new == [pid |-> p, sock |-> regq[p]]
    <3>1. new \in Slots /\ new.pid = p /\ new.sock = regq[p]
      BY DEF Slots, ListTypeOK
    <3>2. CASE \E i \in DOMAIN list :
                 IsFirst(i, Usable(p)) /\ list' = [list EXCEPT ![i] = new]
      <4>1. PICK i \in DOMAIN list :
                 IsFirst(i, Usable(p)) /\ list' = [list EXCEPT ![i] = new]
        BY <3>2
      <4>2. list[i].pid \in {p, NoPid}
        BY <4>1 DEF IsFirst, Usable, At
      <4>3. list' \in Seq(Slots) /\ DOMAIN list' = DOMAIN list /\ list'[i] = new
        BY <3>1, <4>1 DEF ListTypeOK
      <4>4. \A q \in Pids \ {p} : /\ At(q)' = At(q)
                                  /\ \A j \in At(q) : list'[j] = list[j]
        BY <3>1, <4>1, <4>2, ReplaceFirst
      <4>5. \A j \in At(p)' : IsFirst(j, At(p)') => j = i
        <5>1. i \in At(p)'
          BY <4>3, <3>1 DEF At
        <5>2. \A j \in At(p)' : j = i \/ j \in At(p)
          BY <4>1, <4>3 DEF At, ListTypeOK
        <5>3. \A j \in At(p) : i <= j
          BY <4>1 DEF IsFirst, Usable
        <5>4. DOMAIN list \subseteq Nat
          BY DEF ListTypeOK
        <5>. QED BY <5>1, <5>2, <5>3, <5>4 DEF IsFirst, At
      <4>6. ListTypeOK' /\ QueuedIsCurrent'
        BY <2>5, <4>3 DEF RegisterHandoff, ListTypeOK, QueuedIsCurrent
      <4>7. LiveConnectionFound'
        <5> SUFFICES ASSUME NEW q \in Pids, cur'[q] # 0, regq'[q] = 0
                     PROVE  /\ At(q)' # {}
                            /\ \A j \in At(q)' : IsFirst(j, At(q)')
                                  => list'[j].sock = cur'[q]
          BY DEF LiveConnectionFound, IsFirst
        <5>1. CASE q = p
          <6>1. regq[p] = cur[p] /\ cur' = cur
            BY <2>5, <5>1 DEF RegisterHandoff, QueuedIsCurrent
          <6>2. i \in At(p)'
            BY <4>3, <3>1 DEF At
          <6>. QED BY <5>1, <6>1, <6>2, <4>3, <4>5, <3>1
        <5>2. CASE q # p
          <6>1. cur[q] # 0 /\ regq[q] = 0 /\ cur'[q] = cur[q]
            BY <2>5, <5>2 DEF RegisterHandoff, ListTypeOK
          <6>. QED BY <5>2, <6>1, <4>4 DEF LiveConnectionFound
        <5>. QED BY <5>1, <5>2
      <4>. QED BY <4>6, <4>7
    <3>3. CASE Usable(p) = {} /\ list' = Append(list, new)
      <4>1. list' \in Seq(Slots) /\ DOMAIN list' = 1 .. (Len(list) + 1)
        BY <3>1, <3>3 DEF ListTypeOK
      <4>2. list'[Len(list) + 1] = new /\ DOMAIN list = 1 .. Len(list)
        BY <3>1, <3>3 DEF ListTypeOK
      <4>3. \A j \in DOMAIN list : list'[j] = list[j]
        BY <3>1, <3>3 DEF ListTypeOK
      <4>4. At(p) = {}
        BY <3>3 DEF Usable
      <4>5. At(p)' = {Len(list) + 1}
        <5>1. Len(list) + 1 \in At(p)'
          BY <4>1, <4>2, <3>1 DEF At, ListTypeOK
        <5>2. \A j \in DOMAIN list : list'[j].pid # p
          BY <4>3, <4>4 DEF At
        <5>3. DOMAIN list' = DOMAIN list \cup {Len(list) + 1}
          BY <4>1, <4>2 DEF ListTypeOK
        <5>. QED BY <5>1, <5>2, <5>3 DEF At
      <4>6. \A q \in Pids \ {p} : At(q)' = At(q)
        BY <4>1, <4>2, <4>3, <3>1 DEF At, ListTypeOK
      <4>7. ListTypeOK' /\ QueuedIsCurrent'
        BY <2>5, <4>1 DEF RegisterHandoff, ListTypeOK, QueuedIsCurrent
      <4>8. LiveConnectionFound'
        <5> SUFFICES ASSUME NEW q \in Pids, cur'[q] # 0, regq'[q] = 0
                     PROVE  /\ At(q)' # {}
                            /\ \A j \in At(q)' : IsFirst(j, At(q)')
                                  => list'[j].sock = cur'[q]
          BY DEF LiveConnectionFound, IsFirst
        <5>1. CASE q = p
          <6>1. regq[p] = cur[p] /\ cur' = cur
            BY <2>5, <5>1 DEF RegisterHandoff, QueuedIsCurrent
          <6>. QED BY <5>1, <6>1, <4>2, <4>5, <3>1
        <5>2. CASE q # p
          <6>1. cur[q] # 0 /\ regq[q] = 0 /\ cur'[q] = cur[q]
            BY <2>5, <5>2 DEF RegisterHandoff, ListTypeOK
          <6>2. \A j \in At(q) : list'[j] = list[j]
            BY <4>3 DEF At
          <6>. QED BY <5>2, <6>1, <6>2, <4>6 DEF LiveConnectionFound
        <5>. QED BY <5>1, <5>2
      <4>. QED BY <4>7, <4>8
    <3>. QED BY <2>5, <3>2, <3>3 DEF RegisterHandoff
  <2>6. ASSUME NEW p \in Pids, DeRegisterHandoff(p) PROVE ListInv'
    <3>0. cur' = cur /\ regq' = regq /\ socks' = socks /\ remq' \subseteq remq
      BY <2>6 DEF DeRegisterHandoff
    <3>1. cur[p] = 0
      BY <2>6 DEF DeRegisterHandoff, QueuedIsCurrent
    <3>2. /\ list' \in Seq(Slots)
          /\ \A q \in Pids \ {p} : /\ At(q)' = At(q)
                                   /\ \A j \in At(q) : list'[j] = list[j]
      <4>1. CASE \E i \in DOMAIN list :
                   IsFirst(i, At(p)) /\ list' = [list EXCEPT ![i] = Free]
        <5>1. PICK i \in DOMAIN list :
                   IsFirst(i, At(p)) /\ list' = [list EXCEPT ![i] = Free]
          BY <4>1
        <5>2. list[i].pid = p
          BY <5>1 DEF IsFirst, At
        <5>3. Free \in Slots /\ Free.pid = NoPid
          BY DEF Free, Slots
        <5>4. list' \in Seq(Slots)
          BY <5>1, <5>3 DEF ListTypeOK
        <5>. QED BY <5>1, <5>2, <5>3, <5>4, ReplaceFirst
      <4>2. CASE UNCHANGED list
        BY <4>2 DEF At, ListTypeOK
      <4>. QED BY <2>6, <4>1, <4>2 DEF DeRegisterHandoff
    <3>3. ListTypeOK' /\ QueuedIsCurrent'
      BY <3>0, <3>2 DEF ListTypeOK, QueuedIsCurrent
    <3>4. LiveConnectionFound'
      <4> SUFFICES ASSUME NEW q \in Pids, cur'[q] # 0, regq'[q] = 0
                   PROVE  /\ At(q)' # {}
                          /\ \A j \in At(q)' : IsFirst(j, At(q)')
                                => list'[j].sock = cur'[q]
        BY DEF LiveConnectionFound, IsFirst
      <4>1. q # p
        BY <3>0, <3>1
      <4>. QED BY <3>0, <3>2, <4>1 DEF LiveConnectionFound
    <3>. QED BY <3>3, <3>4
  <2>7. CASE UNCHANGED vars
    BY <2>7 DEF vars, ListTypeOK, QueuedIsCurrent, LiveConnectionFound, At,
                IsFirst
  <2>. QED BY <2>1, <2>2, <2>3, <2>4, <2>5, <2>6, <2>7 DEF Next
<1>. QED BY <1>1, <1>2, PTL DEF Spec

\* The listener finds every live, registered connection through its newest
\* socket (registerHandoff, deRegisterHandoff, findMatchingSocket), for any
\* number of pids, slots and registrations, in both handoff modes.
THEOREM LiveConnectionIsFound == Spec => []LiveConnectionFound
<1>1. ListInv => LiveConnectionFound
  BY DEF ListInv
<1>. QED BY <1>1, ListInvariant, PTL
=============================================================================
