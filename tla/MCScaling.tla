----------------------------- MODULE MCScaling -----------------------------
(* Small instances of Scaling for TLC. *)
EXTENDS Scaling, TLC
CONSTANTS m1, m2, s1, s2, s3, k1, k2
NoProcs == {}
OneManual == {m1}
TwoManual == {m1, m2}
FourProcs == {m1, s1, s2, s3}
FiveProcs == {m1, m2, s1, s2, s3}
OneClient == {k1}
TwoClients == {k1, k2}
Sized(min, max, queue, growby) ==
    [min |-> min, max |-> max, queue |-> queue, growby |-> growby]
LargePool == {Sized(2, 4, 0, 2)}
\* Growing by one, past the maximum but for the cap, and for a queue only.
SmallPools == {Sized(2, 3, 0, 1), Sized(2, 3, 0, 3), Sized(1, 3, 0, 2)}
=============================================================================
