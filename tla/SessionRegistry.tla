-------------------------- MODULE SessionRegistry ---------------------------
(***************************************************************************)
(* What a user's sessions promise when requests are served one at a time:  *)
(* a session is opened once, holds one refresh token, which a rotation     *)
(* replaces by an unused one, and once ended it never comes back.          *)
(***************************************************************************)
EXTENDS Naturals

CONSTANT Sessions       \* sessions, numbered from 1, and their tokens

VARIABLES current,      \* the refresh token of a session, 0 when it has none
          used          \* tokens and sessions that have been handed out

registry == <<current, used>>

Init == current = [s \in Sessions |-> 0] /\ used = {}

\* A sign-in opens a session under the number of its first token.
Open(s) ==
    /\ s \notin used
    /\ used' = used \cup {s}
    /\ current' = [current EXCEPT ![s] = s]

\* A rotation replaces the token of a session that is open.
Renew(s, t) ==
    /\ current[s] # 0 /\ t \notin used
    /\ used' = used \cup {t}
    /\ current' = [current EXCEPT ![s] = t]

End(S) ==
    /\ current' = [s \in Sessions |-> IF s \in S THEN 0 ELSE current[s]]
    /\ UNCHANGED used

Next == \/ \E s \in Sessions : Open(s) \/ \E t \in Sessions : Renew(s, t)
        \/ \E S \in SUBSET Sessions : End(S)

Spec == Init /\ [][Next]_registry
=============================================================================
