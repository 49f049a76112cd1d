----------------------------- MODULE MCLifetimes -----------------------------
(* An instance of Lifetimes for TLC.                                        *)
EXTENDS Lifetimes, FiniteSets, TLC

CONSTANTS d1, d2

TwoDevices == {d1, d2}
\* Behaviours of two sessions are followed for two seconds and three pairs.
ShortWithTwoSessions ==
    Len(began) <= 1 \/ (Cardinality(signed) <= 3 /\ now <= 4)

DeviceSymmetry == Permutations(TwoDevices)
=============================================================================
