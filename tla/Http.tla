--------------------------------- MODULE Http ---------------------------------
(* HTTP requests: where each one is and what it was answered.               *)
EXTENDS Naturals, FiniteSets

CONSTANT Requests      \* HTTP requests

ASSUME RequestsAssumption == IsFiniteSet(Requests)

VARIABLES
    http,       \* where each request is
    answer      \* the class of its status, 0 before there is one

httpVars == <<http, answer>>

Stages == {"new", "guard", "handler", "calling", "done", "lost"}

\* HTTP_STATUS.
Statuses == {200, 400, 401, 403, 404, 408, 409, 422, 429, 500, 503}
Class(status) == status \div 100

HttpTypeOK ==
    http \in [Requests -> Stages] /\ answer \in [Requests -> {0} \cup {Class(s) : s \in Statuses}]

HttpInit == http = [r \in Requests |-> "new"] /\ answer = [r \in Requests |-> 0]

In(r, l)   == http[r] = l
Move(r, l) == http' = [http EXCEPT ![r] = l] /\ UNCHANGED answer
=============================================================================
