-------------------------- MODULE MCRequestPipeline --------------------------
(* An instance of RequestPipeline for TLC.                                  *)
EXTENDS RequestPipeline

CONSTANTS r1, r2, x, y

TwoRequests == {r1, r2}
\* A client may send the id of another request.
TwoIds      == {[r \in TwoRequests |-> x], [r \in TwoRequests |-> IF r = r1 THEN x ELSE y]}
=============================================================================
