--------------------------- MODULE MCHandoffList ---------------------------
(* A small instance of HandoffList for TLC. *)
EXTENDS HandoffList, TLC
CONSTANTS p1, p2, p3
ThreePids == {p1, p2, p3}
Symmetric == Permutations(ThreePids)
=============================================================================
