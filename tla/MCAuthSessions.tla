--------------------------- MODULE MCAuthSessions ---------------------------
(* Instances of AuthSessions for TLC.                                       *)
EXTENDS AuthSessions, TLC

CONSTANTS w1, w2, f1, f2

OneWorker   == {w1}
TwoWorkers  == {w1, w2}
OneFamily   == {f1}
TwoFamilies == {f1, f2}

AllEndpoints     == {"signin", "google", "refresh", "logout", "logoutAll",
                     "revokeSession", "changePassword", "resetPassword",
                     "admin", "cron", "expiry"}
RotationRace     == {"signin", "refresh", "logout", "revokeSession", "cron"}
RevocationRace   == {"signin", "refresh", "logoutAll", "changePassword"}
RefreshOnly      == {"signin", "refresh"}

\* Behaviours in which tokens expire or accounts are switched off have two
\* pairs at most.
ShortWhenTimePasses == (atExpired = {} /\ account) \/ issued <= 2

FamilySymmetry == Permutations(TwoFamilies)
Symmetry       == Permutations(TwoWorkers) \cup FamilySymmetry
=============================================================================
