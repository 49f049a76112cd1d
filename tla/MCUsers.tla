-------------------------------- MODULE MCUsers --------------------------------
(* An instance of Users for TLC.                                            *)
EXTENDS Users

CONSTANTS r1, r2, e1, e2, e3, e4

\* The caller, one with an avatar and one that is archived.
Seed(i, e) == [Blank(i) EXCEPT !.there = TRUE, !.email = e]
ThreeSeeds == << Seed(1, e1), [Seed(2, e2) EXCEPT !.avatar = 2],
                 [Seed(3, e3) EXCEPT !.avatar = 3, !.archived = TRUE] >>

SomePatches == {[email |-> e4], [active |-> FALSE]}
=============================================================================
