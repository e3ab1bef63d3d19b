----------------------------- MODULE MCHandoff -----------------------------
(* Small instances of Handoff for TLC. *)
EXTENDS HandoffPool, TLC
CONSTANTS c1, c2, c3, k1, k2, db1, db2
TwoConns == {c1, c2}
ThreeConns == {c1, c2, c3}
TwoClients == {k1, k2}
NoConns == {}
OneConn == {c1}
NoClients == {}
OneClient == {k1}
OneDb == {db1}
TwoDbs == {db1, db2}
SameDb == c1 :> db1 @@ c2 :> db1
SymmetricClients == Permutations(TwoClients)
SymmetricConns == Permutations(TwoConns)
Symmetric == SymmetricConns \cup SymmetricClients
OwnDb == c1 :> db1 @@ c2 :> db2
SharedDb == c1 :> db1 @@ c2 :> db2 @@ c3 :> db1
=============================================================================
