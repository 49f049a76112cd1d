----------------------------- MODULE MCAccounts -----------------------------
(* Instances of Accounts for TLC.                                           *)
EXTENDS Accounts, TLC

CONSTANTS w1, w2, p1, p2, p3

OneWorker      == {w1}
TwoWorkers     == {w1, w2}
TwoPasswords   == {p1, p2}
ThreePasswords == {p1, p2, p3}

AllEndpoints == {"signup", "google", "signin", "resend", "forgot", "verify",
                 "reset", "change", "admin", "expiry", "faults"}
\* Everything that makes or takes a one-time token, and what writes the row beside it.
TokenRace == {"signup", "google", "resend", "forgot", "verify", "reset", "admin", "expiry",
              "faults"}
SigninAndChange == {"signup", "verify", "signin", "change"}

PasswordSymmetry == Permutations(ThreePasswords)
RaceSymmetry     == Permutations(TwoWorkers) \cup Permutations(TwoPasswords)
=============================================================================
