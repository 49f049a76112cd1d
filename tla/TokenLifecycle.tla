--------------------------- MODULE TokenLifecycle ---------------------------
(***************************************************************************)
(* What the refresh tokens of a user promise, whatever handlers interleave *)
(* and wherever one of them stops: a token is minted once, is live for a   *)
(* while and then dead for good, and a token minted by a rotation has a    *)
(* dead parent.  AuthSessions implements it.                               *)
(***************************************************************************)
EXTENDS Naturals

CONSTANT Tokens         \* refresh tokens, numbered from 1

VARIABLES status,       \* "fresh" until minted, then "live", then "dead"
          parent        \* the token a rotation consumed, 0 for a sign-in

lifecycle == <<status, parent>>

Init == /\ status = [t \in Tokens |-> "fresh"]
        /\ parent = [t \in Tokens |-> 0]

\* Sign-in: p = 0.  Rotation: p is a token that is already dead.
Mint(t, p) ==
    /\ status[t] = "fresh"
    /\ p # 0 => status[p] = "dead"
    /\ status' = [status EXCEPT ![t] = "live"]
    /\ parent' = [parent EXCEPT ![t] = p]

\* Rotation, logout, revocation and cleanup end any number of live tokens.
Kill(S) ==
    /\ \A t \in S : status[t] = "live"
    /\ status' = [t \in Tokens |-> IF t \in S THEN "dead" ELSE status[t]]
    /\ UNCHANGED parent

Next == \/ \E t \in Tokens, p \in Tokens \cup {0} : Mint(t, p)
        \/ \E S \in SUBSET Tokens : Kill(S)

Spec == Init /\ [][Next]_lifecycle
=============================================================================
