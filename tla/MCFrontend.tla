------------------------------ MODULE MCFrontend ------------------------------
(* An instance of Frontend for TLC.                                         *)
EXTENDS Frontend

CONSTANTS r1, r2, a1, ip, email

TwoRequests == {r1, r2}

\* A route without a limit and one that limits addresses and accounts.
Routes == {<<>>, <<ip, email>>}

Raised(by, code, words) == [by |-> by, code |-> code, words |-> words]

\* A conflict, a deadlock, a lost connection, and a value that the message quotes.
SomeFailures == {Raised("query", "unique", {"unique"}), Raised("query", "deadlock", {"deadlock"}),
                 Raised("connection", "other", {"connection"}),
                 Raised("query", "syntax", {"syntax", "deadlock"})}
=============================================================================
