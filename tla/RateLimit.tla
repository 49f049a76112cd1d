------------------------------ MODULE RateLimit ------------------------------
(***************************************************************************)
(* The fixed-window counters in Redis and the guard that hits one for each *)
(* identifier of a request.  INCR, EXPIRE and TTL are three commands: other*)
(* requests, the clock and a failure come between them.                    *)
(***************************************************************************)
EXTENDS Http, Sequences

CONSTANTS
    Counters,      \* the keys rl:action:identifier
    Identifiers,   \* lists of counters a request may hit: the identifiers it has
    MaxAttempts,   \* hits of a window that pass
    Window         \* ticks of a window

ASSUME LimitAssumption ==
    /\ Identifiers \subseteq Seq(Counters)
    /\ MaxAttempts \in Nat /\ Window \in Nat \ {0}

VARIABLES
    hits,          \* value of each counter, 0 when the key is not there
    lifetime,      \* ticks the key has left
    window,        \* keys of each counter that have expired: the number of this one
    guard,         \* the check each request is at
    admitted,      \* requests that passed a counter, by its window
    broken         \* counters whose EXPIRE never came

limitVars == <<hits, lifetime, window, guard, admitted, broken>>

Persistent == Window + 1         \* a key without a lifetime: TTL says -1

Commands   == {"incr", "expire", "ttl"}
Checks     == [todo : Seq(Counters), next : Commands, count : Nat, window : Nat]
Admissions == [by : Requests, counter : Counters, window : Nat, count : Nat]
Unchecked  == [todo |-> <<>>, next |-> "incr", count |-> 0, window |-> 0]

LimitTypeOK ==
    /\ hits \in [Counters -> Nat] /\ window \in [Counters -> Nat]
    /\ lifetime \in [Counters -> 0..Persistent]
    /\ guard \in [Requests -> Checks]
    /\ admitted \subseteq Admissions /\ broken \subseteq Counters

LimitInit ==
    /\ hits = [k \in Counters |-> 0] /\ window = [k \in Counters |-> 0]
    /\ lifetime = [k \in Counters |-> 0]
    /\ guard = [r \in Requests |-> Unchecked]
    /\ admitted = {} /\ broken = {}

-----------------------------------------------------------------------------
(* The guard, one identifier after the other.                              *)

Checking(r) == guard[r].todo # <<>>
Key(r)      == Head(guard[r].todo)
At(r, c)    == Checking(r) /\ guard[r].next = c

\* identifiers of the route that the request has: none if it has no limit.
StartChecks(r, keys) ==
    /\ guard' = [guard EXCEPT ![r] = [Unchecked EXCEPT !.todo = keys]]
    /\ UNCHANGED <<hits, lifetime, window, admitted, broken>>

\* Mutant of Command: every hit renews the window.
Command_Renewing(count) == "expire"

\* What follows INCR.
Command(count) == IF count = 1 THEN "expire" ELSE "ttl"

\* INCR makes the key when it is not there.
Incr(r) ==
    LET k == Key(r) count == hits[k] + 1 IN
    /\ At(r, "incr")
    /\ hits' = [hits EXCEPT ![k] = count]
    /\ lifetime' = [lifetime EXCEPT ![k] = IF hits[k] = 0 THEN Persistent ELSE lifetime[k]]
    /\ guard' = [guard EXCEPT ![r] = [todo |-> guard[r].todo, next |-> Command(count),
                                      count |-> count, window |-> window[k]]]
    /\ UNCHANGED <<window, admitted, broken>>

\* Mutant of Exceeds: the hit that reaches the limit is one too many for nobody.
Exceeds_ByOne(count) == count > MaxAttempts + 1

Exceeds(count) == count > MaxAttempts

\* checkLimit returns: the next identifier, or no more.
Admit(r) ==
    /\ ~Exceeds(guard[r].count)
    /\ guard' = [guard EXCEPT ![r] = [Unchecked EXCEPT !.todo = Tail(guard[r].todo)]]
    /\ admitted' = admitted \cup {[by |-> r, counter |-> Key(r),
                                 window |-> guard[r].window, count |-> guard[r].count]}

\* checkLimit throws: the guard leaves the other identifiers alone.
Refuse(r) ==
    /\ Exceeds(guard[r].count)
    /\ guard' = [guard EXCEPT ![r] = Unchecked]
    /\ UNCHANGED admitted

\* Mutant of SetWindow: milliseconds for seconds.
SetWindow_Millis(k) == lifetime' = [lifetime EXCEPT ![k] = IF hits[k] = 0 THEN 0 ELSE 1000 * Window]

\* Mutant of SetWindow: the key stays as it is.
SetWindow_Dropped(k) == UNCHANGED lifetime

\* EXPIRE does nothing to a key that is not there.
SetWindow(k) ==
    lifetime' = [lifetime EXCEPT ![k] = IF hits[k] = 0 THEN 0 ELSE Window]

\* The answer of the second command decides: TTL is only for the Retry-After.
Expire(r) == At(r, "expire") /\ SetWindow(Key(r)) /\ UNCHANGED <<hits, window, broken>>
Ttl(r)    == At(r, "ttl") /\ UNCHANGED <<hits, window, lifetime, broken>>

Second(r)  == Expire(r) \/ Ttl(r)
Admits(r)  == Second(r) /\ Admit(r)
Refuses(r) == Second(r) /\ Refuse(r)

\* The requests of rs give up what they were checking.
GiveUp(rs) ==
    /\ guard' = [r \in Requests |-> IF r \in rs THEN Unchecked ELSE guard[r]]
    /\ broken' = broken \cup {k \in Counters : \E r \in rs : At(r, "expire") /\ Key(r) = k}
    /\ UNCHANGED <<hits, lifetime, window, admitted>>

\* Redis fails a command: the guard throws what it threw.
CommandFails(r) == Checking(r) /\ GiveUp({r})

-----------------------------------------------------------------------------
\* Keys that are out of time go.
Left(k)    == IF lifetime[k] \in 1..Window THEN lifetime[k] - 1 ELSE lifetime[k]
Expires(k) == lifetime[k] = 1

LimitTick ==
    /\ \E k \in Counters : lifetime[k] \in 1..Window
    /\ lifetime' = [k \in Counters |-> Left(k)]
    /\ hits' = [k \in Counters |-> IF Expires(k) THEN 0 ELSE hits[k]]
    /\ window' = [k \in Counters |-> IF Expires(k) THEN window[k] + 1 ELSE window[k]]
    /\ UNCHANGED <<guard, admitted, broken>>

-----------------------------------------------------------------------------
\* Of a window of a counter no more than maxAttempts requests pass, however their
\* commands interleave with each other and with the end of the window
\* (rate-limit.service.ts, increment-rate-limit.provider.ts).
LimitHolds ==
    \A k \in Counters, w \in {a.window : a \in admitted} :
        Cardinality({a \in admitted : a.counter = k /\ a.window = w}) <= MaxAttempts

\* "Subsequent hits increment the counter without touching the expiry, preserving
\* the original window boundary": a lifetime, once set, only runs down
\* (increment-rate-limit.provider.ts).
WindowKept ==
    [][\A k \in Counters : lifetime[k] \in 1..Window => lifetime'[k] <= lifetime[k]]_limitVars

\* Nobody is locked out for ever: again and again every counter is within its limit,
\* but for those whose first request failed between its two commands
\* (increment-rate-limit.provider.ts).
LockoutEnds == []<>(\A k \in Counters : hits[k] <= MaxAttempts \/ k \in broken)
=============================================================================
