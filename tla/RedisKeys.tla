----------------------------- MODULE RedisKeys ------------------------------
(***************************************************************************)
(* The keys of one prefix in Redis and the commands of RedisService on     *)
(* them, at time now.  A key has a value and a deadline; Redis drops it    *)
(* when the deadline has come.                                             *)
(***************************************************************************)
EXTENDS Naturals

NoKeys == [k \in {} |-> 0]
NoDeadline == 0     \* of a key that is kept until it is deleted

Exists(keys, k) == k \in DOMAIN keys

Put(keys, K, value, deadline) ==
    [k \in DOMAIN keys \cup K |->
        IF k \in K THEN [value |-> value, deadline |-> deadline] ELSE keys[k]]

\* A lifetime of zero is none: the code asks if (ttl).
SetKeys(keys, K, value, ttl, now) ==
    Put(keys, K, value, IF ttl = 0 THEN NoDeadline ELSE now + ttl)

Del(keys, K) == [k \in DOMAIN keys \ K |-> keys[k]]

\* HSET keeps the deadline the key has, and gives a new key none.
HmSet(keys, k, value) ==
    Put(keys, {k}, value, IF Exists(keys, k) THEN keys[k].deadline ELSE NoDeadline)

\* EXPIRE of a key that is not there does nothing.
Expire(keys, k, ttl, now) ==
    IF Exists(keys, k) THEN Put(keys, {k}, keys[k].value, now + ttl) ELSE keys

\* What is left at time t.
Unexpired(keys, t) ==
    Del(keys, {k \in DOMAIN keys : keys[k].deadline # NoDeadline /\ keys[k].deadline <= t})
=============================================================================
