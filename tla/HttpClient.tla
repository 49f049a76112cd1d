------------------------------ MODULE HttpClient ------------------------------
(***************************************************************************)
(* A call of the HTTP client.  Every failure is tried again, retryCount    *)
(* times, and the last one becomes a response like any other: the caller   *)
(* never sees an error.                                                    *)
(***************************************************************************)
EXTENDS Http

CONSTANT RetryCount

ASSUME RetryAssumption == RetryCount \in Nat

VARIABLE call       \* the call of each request

Calls  == [timed : BOOLEAN, up : BOOLEAN, tries : 0..RetryCount]
NoCall == [timed |-> TRUE, up |-> TRUE, tries |-> 0]

ClientTypeOK == call \in [Requests -> Calls]
ClientInit   == call = [r \in Requests |-> NoCall]

\* HIBP is called with a timeout, the broker's management without one.  A service
\* that is not up answers no attempt, one that is up some.
StartCall(r, timed, up) ==
    call' = [call EXCEPT ![r] = [timed |-> timed, up |-> up, tries |-> 0]]

MayRetry(r) == call[r].tries < RetryCount

\* Mutant of Retry: the retries are not counted.
Retry_Uncounted(r) == MayRetry(r) /\ UNCHANGED call

\* No response, or one with a status that is not 2xx.
Retry(r) == MayRetry(r) /\ call' = [call EXCEPT ![r].tries = @ + 1]

CallEnds(r) == call' = [call EXCEPT ![r] = NoCall]
=============================================================================
