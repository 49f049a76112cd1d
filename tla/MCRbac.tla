------------------------------- MODULE MCRbac -------------------------------
(* Instances of Rbac for TLC.                                               *)
EXTENDS Rbac, TLC

CONSTANTS w1, w2

TwoWorkers == {w1, w2}

\* "A%" in an ILIKE finds "admin", and itself.
RoleNames == {"User", "Admin", "ADMIN", "A%"}
NameLower == [n \in RoleNames |-> IF n = "ADMIN" THEN "Admin" ELSE n]
NameLike  == [n \in RoleNames |-> IF n = "A%" THEN {"Admin", "A%"} ELSE {NameLower[n]}]

\* One route of each kind: a derived key, a declared one that is seeded, no check.
MCRoutes == ActivityLogRoutes \cup Declared("users", "PATCH", "restore") \cup SignInRoutes

\* The theorems ask no more of the routes of the repository.
ASSUME AppRoutesAssumption ==
    \A r \in AppRoutes : r.resource # "" /\ r.method \in DOMAIN METHOD_ACTION_MAP

\* The seeded keys, one that a route declares and one that none does, the other
\* discovered key, a key of an administrator.
SeededKeys   == {<<"users", "restore">>, <<"users", "read">>}
MCKeys       == SeededKeys \cup {<<"activity-log", "read">>, <<"notes", "read">>}
ReservedKeys == SeededKeys

Symmetry == Permutations(TwoWorkers)
=============================================================================
