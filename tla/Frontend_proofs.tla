--------------------------- MODULE Frontend_proofs ---------------------------
(***************************************************************************)
(* Theorems about Frontend: every step of a request, of a tracker, of an   *)
(* administrator, of the clock and a crash is a step of the counters or    *)
(* leaves them alone, and the same for the row, so what those steps keep   *)
(* (first the counters, then the row) holds of the whole.                  *)
(*                                                                         *)
(* INCR hands out tickets: the count of a hit and the window it fell in.   *)
(* No two tickets of a counter and a window are equal, so the admitted ones*)
(* are as many as their counts, which are at most maxAttempts.  A counter  *)
(* whose EXPIRE is still to come has no lifetime: it cannot end before, and*)
(* no other EXPIRE is on its way to it.                                    *)
(*                                                                         *)
(* A tracker that is past its upsert has counted at most once, so the count*)
(* of the row, and that of every copy somebody still holds, is at most the *)
(* number of those trackers; a stale save can only bring a smaller count   *)
(* back.  A row never has a count of zero: an upsert that returns one has  *)
(* inserted, and the alerts sent or on their way are at most the inserts.  *)
(*                                                                         *)
(* What ties the two to the answers: a tracker runs only for a request     *)
(* that was answered with a 5xx, and a check only in the guard.            *)
(***************************************************************************)
EXTENDS Frontend, FunctionTheorems, FiniteSetTheorems, WellFoundedInduction,
        TLAPS

-----------------------------------------------------------------------------
(* The counters: what the guards, the clock and failures do to them.       *)

\* Every step that touches the counters.
LimitStep ==
    \/ \E r \in Requests, keys \in Identifiers : StartChecks(r, keys)
    \/ \E r \in Requests : Incr(r) \/ Admits(r) \/ Refuses(r)
    \/ \E rs \in SUBSET Requests : GiveUp(rs)
    \/ LimitTick

Pending(r) == Checking(r) /\ guard[r].next # "incr"
Ticket(r)  == [by |-> r, counter |-> Key(r), window |-> guard[r].window, count |-> guard[r].count]
Tickets    == admitted \cup {Ticket(r) : r \in {q \in Requests : Pending(q)}}

Same(t, u)  == t.counter = u.counter /\ t.window = u.window /\ t.count = u.count
Distinct(T) == \A t, u \in T : Same(t, u) => t = u

\* A ticket was handed out: in this window, by an INCR so far.
Given(t, h, w) ==
    /\ t.count >= 1 /\ t.window <= w[t.counter]
    /\ t.window = w[t.counter] => t.count <= h[t.counter]

TicketsInv  == Distinct(Tickets) /\ \A t \in Tickets : Given(t, hits, window)
AdmittedInv == \A a \in admitted : a.count <= MaxAttempts
ExpireInv   == \A r \in Requests : At(r, "expire") =>
                   /\ guard[r].count = 1 /\ guard[r].window = window[Key(r)]
                   /\ lifetime[Key(r)] = Persistent
KeyInv      == \A k \in Counters : hits[k] = 0 => lifetime[k] = 0

LimitInv == LimitTypeOK /\ TicketsInv /\ AdmittedInv /\ ExpireInv /\ KeyInv

-----------------------------------------------------------------------------
(* The head of a check.                                                    *)

LEMMA CheckParts ==
    ASSUME LimitTypeOK, NEW r \in Requests
    PROVE  /\ guard[r].todo \in Seq(Counters) /\ guard[r].next \in Commands
           /\ guard[r].count \in Nat /\ guard[r].window \in Nat
           /\ Checking(r) => Key(r) \in Counters /\ Tail(guard[r].todo) \in Seq(Counters)
<1>1. guard[r] \in Checks
  BY DEF LimitTypeOK
<1>2. guard[r].todo \in Seq(Counters)
  BY <1>1 DEF Checks
<1>3. ASSUME Checking(r)
      PROVE  Key(r) \in Counters /\ Tail(guard[r].todo) \in Seq(Counters)
  BY <1>2, <1>3 DEF Checking, Key
<1> QED
  BY <1>1, <1>2, <1>3 DEF Checks

LEMMA TicketParts ==
    ASSUME LimitTypeOK, NEW r \in Requests, Checking(r)
    PROVE  Ticket(r) \in Admissions
BY CheckParts DEF Ticket, Admissions

LEMMA UncheckedIsCheck ==
    /\ Unchecked \in Checks
    /\ \A s \in Seq(Counters) : [Unchecked EXCEPT !.todo = s] \in Checks
<1>1. <<>> \in Seq(Counters)
  OBVIOUS
<1> QED
  BY <1>1 DEF Unchecked, Checks, Commands

-----------------------------------------------------------------------------
(* Tickets stay distinct when some go and a new one has the next count.    *)

LEMMA FewerTickets ==
    ASSUME NEW T, NEW U \in SUBSET T, Distinct(T)
    PROVE  Distinct(U)
BY DEF Distinct

LEMMA NextTicket ==
    ASSUME NEW T \in SUBSET Admissions, NEW n \in Admissions,
           NEW h \in [Counters -> Nat], NEW w \in [Counters -> Nat],
           Distinct(T), \A t \in T : Given(t, h, w),
           n.window = w[n.counter], n.count = h[n.counter] + 1
    PROVE  Distinct(T \cup {n})
<1>1. ASSUME NEW t \in T, Same(t, n)
      PROVE  FALSE
  <2>1. t \in Admissions /\ t.counter \in Counters /\ t.count \in Nat
    BY DEF Admissions
  <2>2. t.window = w[t.counter] /\ t.count = h[t.counter] + 1
    BY <1>1 DEF Same
  <2>3. t.count <= h[t.counter]
    BY <2>2 DEF Given
  <2>4. h[t.counter] \in Nat
    BY <2>1
  <2> QED
    BY <2>1, <2>2, <2>3, <2>4
<1> QED
  BY <1>1 DEF Distinct, Same

-----------------------------------------------------------------------------
(* One step of each kind.                                                  *)

LEMMA LimitInitial ==
    ASSUME LimitInit
    PROVE  LimitInv
<1> USE DEF LimitInit
<1>1. LimitTypeOK
  <2>1. 0 \in 0..Persistent
    BY LimitAssumption DEF Persistent
  <2> QED
    BY <2>1, UncheckedIsCheck DEF LimitTypeOK
<1>2. \A r \in Requests : ~Checking(r)
  BY DEF Checking, Unchecked
<1>3. Tickets = {}
  BY <1>2 DEF Tickets, Pending
<1> QED
  BY <1>1, <1>2, <1>3 DEF LimitInv, TicketsInv, Distinct, AdmittedInv, ExpireInv, At, KeyInv

\* Checks that are dropped or begin leave the tickets of the others.
LEMMA ChecksChange ==
    ASSUME LimitInv, guard' \in [Requests -> Checks],
           \A r \in Requests : guard'[r] = guard[r] \/ ~Pending(r)',
           UNCHANGED <<hits, lifetime, window, admitted>>, broken' \subseteq Counters
    PROVE  LimitInv'
<1> USE DEF LimitInv
<1>1. LimitTypeOK'
  BY DEF LimitTypeOK
<1>2. \A r \in Requests : Pending(r)' => Pending(r) /\ guard'[r] = guard[r] /\ Ticket(r)' = Ticket(r)
  BY DEF Pending, Checking, Ticket, Key
<1>3. Tickets' \subseteq Tickets
  BY <1>2 DEF Tickets
<1>4. TicketsInv'
  <2>1. Distinct(Tickets')
    BY <1>3, FewerTickets DEF TicketsInv
  <2>2. \A t \in Tickets' : Given(t, hits', window')
    BY <1>3 DEF TicketsInv
  <2> QED
    BY <2>1, <2>2 DEF TicketsInv
<1>5. ExpireInv'
  <2>1. \A r \in Requests : At(r, "expire")' => Pending(r)'
    BY DEF At, Pending
  <2>2. \A r \in Requests : At(r, "expire")' => At(r, "expire") /\ guard'[r] = guard[r]
    BY <2>1, <1>2 DEF At, Checking
  <2> QED
    BY <2>2 DEF ExpireInv, Key
<1>6. AdmittedInv' /\ KeyInv'
  BY DEF AdmittedInv, KeyInv
<1> QED
  BY <1>1, <1>4, <1>5, <1>6

LEMMA StartStep ==
    ASSUME LimitInv, NEW r \in Requests, NEW keys \in Identifiers, StartChecks(r, keys)
    PROVE  LimitInv'
<1> DEFINE c == [Unchecked EXCEPT !.todo = keys]
<1>1. c \in Checks
  BY LimitAssumption, UncheckedIsCheck
<1>2. c.next = "incr"
  BY DEF Unchecked
<1>3. guard' = [guard EXCEPT ![r] = c] /\ UNCHANGED <<hits, lifetime, window, admitted, broken>>
  BY DEF StartChecks
<1>4. guard \in [Requests -> Checks] /\ broken \subseteq Counters
  BY DEF LimitInv, LimitTypeOK
<1> HIDE DEF c
<1>5. guard' \in [Requests -> Checks] /\ guard'[r] = c
  BY <1>1, <1>3, <1>4
<1>6. \A q \in Requests : guard'[q] = guard[q] \/ ~Pending(q)'
  BY <1>2, <1>3, <1>4, <1>5 DEF Pending
<1> QED
  BY <1>3, <1>4, <1>5, <1>6, ChecksChange

LEMMA RefuseStep ==
    ASSUME LimitInv, NEW r \in Requests, Ttl(r), Refuse(r)
    PROVE  LimitInv'
<1>1. guard' = [guard EXCEPT ![r] = Unchecked] /\ UNCHANGED <<hits, lifetime, window, admitted, broken>>
  BY DEF Ttl, Refuse
<1>2. guard \in [Requests -> Checks] /\ broken \subseteq Counters
  BY DEF LimitInv, LimitTypeOK
<1>3. guard' \in [Requests -> Checks] /\ guard'[r] = Unchecked
  BY <1>1, <1>2, UncheckedIsCheck
<1>4. \A q \in Requests : guard'[q] = guard[q] \/ ~Pending(q)'
  BY <1>1, <1>2, <1>3 DEF Pending, Checking, Unchecked
<1> QED
  BY <1>1, <1>2, <1>3, <1>4, ChecksChange

LEMMA GiveUpStep ==
    ASSUME LimitInv, NEW rs \in SUBSET Requests, GiveUp(rs)
    PROVE  LimitInv'
<1>1. /\ guard' = [r \in Requests |-> IF r \in rs THEN Unchecked ELSE guard[r]]
      /\ UNCHANGED <<hits, lifetime, window, admitted>>
  BY DEF GiveUp
<1>2. guard \in [Requests -> Checks] /\ broken \subseteq Counters
  BY DEF LimitInv, LimitTypeOK
<1>3. guard' \in [Requests -> Checks]
  BY <1>1, <1>2, UncheckedIsCheck
<1>4. \A q \in Requests : guard'[q] = guard[q] \/ ~Pending(q)'
  BY <1>1, <1>2, <1>3 DEF Pending, Checking, Unchecked
<1>5. broken' \subseteq Counters
  BY <1>2 DEF GiveUp
<1> QED
  BY <1>1, <1>3, <1>4, <1>5, ChecksChange

-----------------------------------------------------------------------------
LEMMA IncrStep ==
    ASSUME LimitInv, NEW r \in Requests, Incr(r)
    PROVE  LimitInv'
<1> DEFINE k == Key(r)
           n == hits[k] + 1
           c == [todo |-> guard[r].todo, next |-> Command(n), count |-> n, window |-> window[k]]
           t == [by |-> r, counter |-> k, window |-> window[k], count |-> n]
<1> USE DEF LimitInv
<1>0. Checking(r) /\ guard[r].next = "incr"
  BY DEF Incr, At
<1>1. k \in Counters /\ hits[k] \in Nat /\ window[k] \in Nat /\ n \in Nat
  BY <1>0, CheckParts DEF LimitTypeOK
<1>2. /\ hits' = [hits EXCEPT ![k] = n]
      /\ lifetime' = [lifetime EXCEPT ![k] = IF hits[k] = 0 THEN Persistent ELSE lifetime[k]]
      /\ guard' = [guard EXCEPT ![r] = c]
      /\ UNCHANGED <<window, admitted, broken>>
  BY DEF Incr
<1>3. c \in Checks
  BY <1>1, CheckParts DEF Checks, Commands, Command
<1>4. guard \in [Requests -> Checks] /\ hits \in [Counters -> Nat]
      /\ lifetime \in [Counters -> 0..Persistent] /\ window \in [Counters -> Nat]
  BY DEF LimitTypeOK
<1>5. Persistent \in 0..Persistent
  BY LimitAssumption DEF Persistent
<1>6. /\ c.todo = guard[r].todo /\ c.next = Command(n) /\ c.count = n /\ c.window = window[k]
      /\ t \in Admissions /\ t.counter = k /\ t.window = window[k] /\ t.count = n
  BY <1>1 DEF Admissions
<1> HIDE DEF c
<1>7. guard'[r] = c /\ \A q \in Requests \ {r} : guard'[q] = guard[q]
  BY <1>2, <1>4
<1>8. LimitTypeOK'
  <2>1. hits' \in [Counters -> Nat] /\ lifetime' \in [Counters -> 0..Persistent]
    BY <1>1, <1>2, <1>4, <1>5
  <2>2. guard' \in [Requests -> Checks]
    BY <1>2, <1>3, <1>4
  <2> QED
    BY <1>2, <2>1, <2>2 DEF LimitTypeOK
<1>9. /\ ~Pending(r) /\ Key(r)' = k
      /\ \A q \in Requests \ {r} : (Pending(q)' <=> Pending(q)) /\ Ticket(q)' = Ticket(q)
  BY <1>0, <1>6, <1>7 DEF Pending, Checking, Ticket, Key
<1>10. Ticket(r)' = t
  BY <1>6, <1>7, <1>9 DEF Ticket
<1> HIDE DEF k, n, t
<1>11. Tickets' \subseteq Tickets \cup {t}
  BY <1>2, <1>9, <1>10 DEF Tickets
<1>12. Tickets \subseteq Admissions
  BY TicketParts DEF Tickets, Pending, LimitTypeOK
<1>13. Distinct(Tickets')
  <2>1. Distinct(Tickets \cup {t})
    BY <1>1, <1>4, <1>6, <1>12, NextTicket DEF TicketsInv, n
  <2> QED
    BY <2>1, <1>11, FewerTickets
<1>14. \A u \in Tickets' : Given(u, hits', window')
  <2>1. ASSUME NEW u \in Tickets
        PROVE  Given(u, hits', window')
    <3>1. Given(u, hits, window) /\ u.counter \in Counters /\ u.count \in Nat
      BY <1>12 DEF TicketsInv, Admissions
    <3>2. hits[u.counter] \in Nat /\ hits'[u.counter] >= hits[u.counter] /\ hits'[u.counter] \in Nat
      BY <3>1, <1>1, <1>2, <1>4 DEF n
    <3> QED
      BY <3>1, <3>2, <1>2 DEF Given
  <2>2. Given(t, hits', window')
    BY <1>1, <1>2, <1>4, <1>6 DEF Given, n
  <2> QED
    BY <2>1, <2>2, <1>11
<1>15. ExpireInv'
  <2>1. ASSUME NEW q \in Requests, q # r, At(q, "expire")'
        PROVE  /\ guard'[q].count = 1 /\ guard'[q].window = window'[Key(q)']
               /\ lifetime'[Key(q)'] = Persistent
    <3>1. guard'[q] = guard[q] /\ At(q, "expire") /\ Key(q)' = Key(q) /\ Key(q) \in Counters
      BY <2>1, <1>7, CheckParts DEF At, Checking, Key
    <3>2. guard[q].count = 1 /\ guard[q].window = window[Key(q)] /\ lifetime[Key(q)] = Persistent
      BY <3>1 DEF ExpireInv
    <3> QED
      BY <3>1, <3>2, <1>1, <1>2, <1>4
  <2>2. ASSUME At(r, "expire")'
        PROVE  /\ guard'[r].count = 1 /\ guard'[r].window = window'[Key(r)']
               /\ lifetime'[Key(r)'] = Persistent
    <3>1. Command(n) = "expire"
      BY <2>2, <1>6, <1>7 DEF At
    <3>2. n = 1
      BY <3>1 DEF Command
    <3>3. hits[k] = 0
      BY <3>2, <1>1 DEF n
    <3> QED
      BY <3>2, <3>3, <1>1, <1>2, <1>4, <1>6, <1>7, <1>9
  <2> QED
    BY <2>1, <2>2 DEF ExpireInv
<1>16. AdmittedInv'
  BY <1>2 DEF AdmittedInv
<1>17. KeyInv'
  <2>1. n # 0
    BY <1>1 DEF n
  <2> QED
    BY <2>1, <1>1, <1>2, <1>4 DEF KeyInv
<1> QED
  BY <1>8, <1>13, <1>14, <1>15, <1>16, <1>17 DEF TicketsInv

-----------------------------------------------------------------------------
(* EXPIRE comes once to a key, and the answer of the second command.       *)

LEMMA OneExpire ==
    ASSUME LimitInv, NEW r \in Requests, NEW q \in Requests,
           At(r, "expire"), At(q, "expire"), Key(r) = Key(q)
    PROVE  r = q
<1>1. Ticket(r) \in Tickets /\ Ticket(q) \in Tickets
  BY DEF Tickets, Pending, At
<1>2. Same(Ticket(r), Ticket(q))
  BY DEF Same, Ticket, LimitInv, ExpireInv
<1>3. Ticket(r) = Ticket(q)
  BY <1>1, <1>2 DEF LimitInv, TicketsInv, Distinct
<1> QED
  BY <1>3 DEF Ticket

\* The check of r is over: its ticket is gone, or admitted.
LEMMA AnsweredStep ==
    ASSUME LimitInv, NEW r \in Requests, Pending(r),
           guard' \in [Requests -> Checks], ~Pending(r)',
           \A q \in Requests \ {r} : guard'[q] = guard[q],
           admitted' = admitted \/ (admitted' = admitted \cup {Ticket(r)} /\ ~Exceeds(guard[r].count)),
           lifetime' = lifetime \/ (At(r, "expire") /\ SetWindow(Key(r))),
           UNCHANGED <<hits, window, broken>>
    PROVE  LimitInv'
<1> USE DEF LimitInv
<1>1. Key(r) \in Counters /\ Ticket(r) \in Admissions /\ Ticket(r) \in Tickets
  BY CheckParts, TicketParts DEF Pending, Tickets
<1>2. lifetime \in [Counters -> 0..Persistent] /\ 0 \in 0..Persistent /\ Window \in 0..Persistent
  BY LimitAssumption DEF LimitTypeOK, Persistent
<1>3. LimitTypeOK'
  <2>1. lifetime' \in [Counters -> 0..Persistent]
    BY <1>2 DEF SetWindow
  <2>2. admitted' \subseteq Admissions
    BY <1>1 DEF LimitTypeOK
  <2> QED
    BY <2>1, <2>2 DEF LimitTypeOK
<1>4. \A q \in Requests : Pending(q)' => q # r /\ Pending(q) /\ Key(q)' = Key(q) /\ Ticket(q)' = Ticket(q)
  BY DEF Pending, Checking, Ticket, Key
<1>5. Tickets' \subseteq Tickets
  BY <1>1, <1>4 DEF Tickets
<1>6. TicketsInv'
  <2>1. Distinct(Tickets')
    BY <1>5, FewerTickets DEF TicketsInv
  <2>2. \A t \in Tickets' : Given(t, hits', window')
    BY <1>5 DEF TicketsInv
  <2> QED
    BY <2>1, <2>2 DEF TicketsInv
<1>7. AdmittedInv'
  <2>1. Ticket(r).count = guard[r].count /\ guard[r].count \in Nat
    BY CheckParts DEF Ticket
  <2>2. ~Exceeds(guard[r].count) => Ticket(r).count <= MaxAttempts
    BY <2>1, LimitAssumption DEF Exceeds
  <2> QED
    BY <2>2 DEF AdmittedInv
<1>8. ExpireInv'
  <2>1. ASSUME NEW q \in Requests, At(q, "expire")'
        PROVE  /\ guard'[q].count = 1 /\ guard'[q].window = window'[Key(q)']
               /\ lifetime'[Key(q)'] = Persistent
    <3>1. q # r /\ guard'[q] = guard[q] /\ Key(q)' = Key(q) /\ At(q, "expire")
      BY <2>1, <1>4 DEF At, Pending, Checking
    <3>2. guard[q].count = 1 /\ guard[q].window = window[Key(q)] /\ lifetime[Key(q)] = Persistent
      BY <3>1 DEF ExpireInv
    <3>3. Key(q) \in Counters
      BY <3>1, CheckParts DEF At
    <3>4. lifetime'[Key(q)] = lifetime[Key(q)]
      <4>1. CASE lifetime' = lifetime
        BY <4>1
      <4>2. CASE At(r, "expire") /\ SetWindow(Key(r))
        <5>1. Key(q) # Key(r)
          BY <3>1, <4>2, OneExpire
        <5> QED
          BY <5>1, <4>2, <3>3, <1>2 DEF SetWindow
      <4> QED
        BY <4>1, <4>2
    <3> QED
      BY <3>1, <3>2, <3>4
  <2> QED
    BY <2>1 DEF ExpireInv
<1>9. KeyInv'
  BY <1>1, <1>2 DEF KeyInv, SetWindow
<1> QED
  BY <1>3, <1>6, <1>7, <1>8, <1>9

LEMMA AdmitStep ==
    ASSUME LimitInv, NEW r \in Requests, Admits(r)
    PROVE  LimitInv'
<1> DEFINE c == [Unchecked EXCEPT !.todo = Tail(guard[r].todo)]
<1>1. Checking(r) /\ Pending(r)
  BY DEF Admits, Second, Expire, Ttl, At, Pending
<1>2. c \in Checks /\ c.next = "incr"
  BY <1>1, CheckParts, UncheckedIsCheck DEF LimitInv, Unchecked
<1>3. /\ ~Exceeds(guard[r].count) /\ guard' = [guard EXCEPT ![r] = c]
      /\ admitted' = admitted \cup {Ticket(r)}
  BY DEF Admits, Admit, Ticket
<1> HIDE DEF c
<1>4. guard \in [Requests -> Checks]
  BY DEF LimitInv, LimitTypeOK
<1>5. guard' \in [Requests -> Checks] /\ guard'[r] = c /\ \A q \in Requests \ {r} : guard'[q] = guard[q]
  BY <1>2, <1>3, <1>4
<1>6. ~Pending(r)'
  BY <1>2, <1>5 DEF Pending
<1>7. lifetime' = lifetime \/ (At(r, "expire") /\ SetWindow(Key(r)))
  BY DEF Admits, Second, Expire, Ttl
<1>8. UNCHANGED <<hits, window, broken>>
  BY DEF Admits, Second, Expire, Ttl
<1> QED
  BY <1>1, <1>3, <1>5, <1>6, <1>7, <1>8, AnsweredStep

LEMMA RefusesStep ==
    ASSUME LimitInv, NEW r \in Requests, Refuses(r)
    PROVE  LimitInv'
<1>1. Pending(r)
  BY DEF Refuses, Second, Expire, Ttl, At, Pending
<1>2. guard' = [guard EXCEPT ![r] = Unchecked] /\ admitted' = admitted
  BY DEF Refuses, Refuse
<1>3. guard \in [Requests -> Checks]
  BY DEF LimitInv, LimitTypeOK
<1>4. /\ guard' \in [Requests -> Checks] /\ guard'[r] = Unchecked
      /\ \A q \in Requests \ {r} : guard'[q] = guard[q]
  BY <1>2, <1>3, UncheckedIsCheck
<1>5. ~Pending(r)'
  BY <1>4 DEF Pending, Checking, Unchecked
<1>6. lifetime' = lifetime \/ (At(r, "expire") /\ SetWindow(Key(r)))
  BY DEF Refuses, Second, Expire, Ttl
<1>7. UNCHANGED <<hits, window, broken>>
  BY DEF Refuses, Second, Expire, Ttl
<1> QED
  BY <1>1, <1>2, <1>4, <1>5, <1>6, <1>7, AnsweredStep

-----------------------------------------------------------------------------
(* The clock: a key with a lifetime has no EXPIRE on its way.              *)

LEMMA LeftParts ==
    ASSUME LimitTypeOK, NEW k \in Counters
    PROVE  /\ Left(k) \in 0..Persistent
           /\ lifetime[k] = 0 => Left(k) = 0
           /\ lifetime[k] = Persistent => Left(k) = Persistent /\ ~Expires(k)
           /\ lifetime[k] \in 1..Window => Left(k) <= lifetime[k]
           /\ Expires(k) => Left(k) = 0
<1>1. Window \in Nat /\ Window >= 1 /\ Persistent = Window + 1
  BY LimitAssumption DEF Persistent
<1>2. lifetime[k] \in 0..Persistent
  BY DEF LimitTypeOK
<1> QED
  BY <1>1, <1>2 DEF Left, Expires

LEMMA TickStep ==
    ASSUME LimitInv, LimitTick
    PROVE  LimitInv'
<1> USE DEF LimitInv
<1>1. /\ lifetime' = [k \in Counters |-> Left(k)]
      /\ hits' = [k \in Counters |-> IF Expires(k) THEN 0 ELSE hits[k]]
      /\ window' = [k \in Counters |-> IF Expires(k) THEN window[k] + 1 ELSE window[k]]
      /\ UNCHANGED <<guard, admitted, broken>>
  BY DEF LimitTick
<1>2. hits \in [Counters -> Nat] /\ window \in [Counters -> Nat]
  BY DEF LimitTypeOK
<1>3. LimitTypeOK'
  <2>1. lifetime' \in [Counters -> 0..Persistent]
    BY <1>1, LeftParts
  <2>2. hits' \in [Counters -> Nat] /\ window' \in [Counters -> Nat]
    BY <1>1, <1>2
  <2> QED
    BY <1>1, <2>1, <2>2 DEF LimitTypeOK
<1>4. Tickets' = Tickets
  BY <1>1 DEF Tickets, Pending, Checking, Ticket, Key
<1>5. Tickets \subseteq Admissions
  BY TicketParts DEF Tickets, Pending, LimitTypeOK
<1>6. ASSUME NEW t \in Tickets
      PROVE  Given(t, hits', window')
  <2>1. Given(t, hits, window) /\ t.counter \in Counters /\ t.window \in Nat /\ t.count \in Nat
    BY <1>5 DEF TicketsInv, Admissions
  <2>2. window[t.counter] \in Nat
    BY <1>2, <2>1
  <2>3. CASE Expires(t.counter)
    <3>1. window'[t.counter] = window[t.counter] + 1
      BY <1>1, <2>1, <2>3
    <3> QED
      BY <3>1, <2>1, <2>2 DEF Given
  <2>4. CASE ~Expires(t.counter)
    <3>1. window'[t.counter] = window[t.counter] /\ hits'[t.counter] = hits[t.counter]
      BY <1>1, <2>1, <2>4
    <3> QED
      BY <3>1, <2>1 DEF Given
  <2> QED
    BY <2>3, <2>4
<1>7. TicketsInv'
  BY <1>4, <1>6 DEF TicketsInv
<1>8. ExpireInv'
  <2>1. ASSUME NEW q \in Requests, At(q, "expire")'
        PROVE  /\ guard'[q].count = 1 /\ guard'[q].window = window'[Key(q)']
               /\ lifetime'[Key(q)'] = Persistent
    <3>1. guard'[q] = guard[q] /\ Key(q)' = Key(q) /\ At(q, "expire")
      BY <2>1, <1>1 DEF At, Checking, Key
    <3>2. guard[q].count = 1 /\ guard[q].window = window[Key(q)] /\ lifetime[Key(q)] = Persistent
      BY <3>1 DEF ExpireInv
    <3>3. Key(q) \in Counters
      BY <3>1, CheckParts DEF At
    <3>4. Left(Key(q)) = Persistent /\ ~Expires(Key(q))
      BY <3>2, <3>3, LeftParts
    <3> QED
      BY <1>1, <3>1, <3>2, <3>3, <3>4
  <2> QED
    BY <2>1 DEF ExpireInv
<1>9. KeyInv'
  <2>1. ASSUME NEW k \in Counters, hits'[k] = 0
        PROVE  lifetime'[k] = 0
    BY <1>1, <2>1, LeftParts DEF KeyInv
  <2> QED
    BY <2>1 DEF KeyInv
<1>10. AdmittedInv'
  BY <1>1 DEF AdmittedInv
<1> QED
  BY <1>3, <1>7, <1>8, <1>9, <1>10

-----------------------------------------------------------------------------
(* All of it.                                                              *)

LEMMA LimitStepKeeps ==
    ASSUME LimitInv, LimitStep \/ UNCHANGED limitVars
    PROVE  LimitInv'
<1>1. CASE UNCHANGED limitVars
  <2>1. UNCHANGED <<hits, lifetime, window, admitted, guard, broken>>
    BY <1>1 DEF limitVars
  <2> QED
    BY <2>1, ChecksChange DEF LimitInv, LimitTypeOK
<1>2. CASE LimitStep
  BY <1>2, StartStep, IncrStep, AdmitStep, RefusesStep, GiveUpStep, TickStep DEF LimitStep
<1> QED
  BY <1>1, <1>2

\* Tickets of a counter and a window have different counts, from one to maxAttempts.
LEMMA LimitInvImpliesLimitHolds == LimitInv => LimitHolds
<1> SUFFICES ASSUME LimitInv, NEW k \in Counters, NEW w \in {a.window : a \in admitted}
             PROVE  Cardinality({a \in admitted : a.counter = k /\ a.window = w}) <= MaxAttempts
  BY DEF LimitHolds
<1> DEFINE S == {a \in admitted : a.counter = k /\ a.window = w}
           T == 1..MaxAttempts
           f == [a \in S |-> a.count]
<1>1. \A a \in S : a.count \in T
  <2>1. \A a \in S : a.count \in Nat /\ a.count <= MaxAttempts /\ a.count >= 1
    BY DEF LimitInv, LimitTypeOK, Admissions, AdmittedInv, TicketsInv, Tickets, Given
  <2> QED
    BY <2>1, LimitAssumption
<1>2. \A a, b \in S : f[a] = f[b] => a = b
  BY DEF LimitInv, TicketsInv, Distinct, Same, Tickets
<1>3. f \in [S -> T]
  BY <1>1
<1>4. f \in Injection(S, T)
  BY <1>2, <1>3, Fun_IsInj
<1>5. IsFiniteSet(T) /\ Cardinality(T) = MaxAttempts
  <2>1. 1 \in Int /\ MaxAttempts \in Int /\ MaxAttempts >= 0
    BY LimitAssumption
  <2> HIDE DEF T
  <2>2. IsFiniteSet(1..MaxAttempts) /\ Cardinality(1..MaxAttempts) = IF 1 > MaxAttempts THEN 0 ELSE MaxAttempts - 1 + 1
    BY <2>1, FS_Interval
  <2> QED
    BY <2>1, <2>2 DEF T
<1> HIDE DEF S, T, f
<1>6. Cardinality(S) <= Cardinality(T)
  BY <1>4, <1>5, FS_Injection
<1> QED
  BY <1>5, <1>6 DEF S

\* A lifetime is set once: it only runs down.
LEMMA LifetimeRunsDown ==
    ASSUME LimitInv, LimitStep, NEW k \in Counters, lifetime[k] \in 1..Window
    PROVE  lifetime'[k] <= lifetime[k]
<1> USE DEF LimitInv
<1>1. lifetime[k] \in 0..Persistent /\ lifetime[k] # Persistent /\ lifetime[k] # 0 /\ lifetime[k] \in Int
      /\ lifetime[k] <= lifetime[k]
  BY LimitAssumption DEF LimitTypeOK, Persistent
<1>2. CASE lifetime' = lifetime
  BY <1>1, <1>2
<1>3. CASE \E r \in Requests : Incr(r)
  <2>1. hits[k] # 0
    BY <1>1 DEF KeyInv
  <2>2. lifetime'[k] = lifetime[k]
    BY <1>3, <2>1 DEF Incr, LimitTypeOK
  <2> QED
    BY <1>1, <2>2
<1>4. CASE \E r \in Requests : Expire(r)
  <2>1. PICK r \in Requests : Expire(r)
    BY <1>4
  <2>2. Key(r) # k
    BY <1>1, <2>1 DEF Expire, ExpireInv
  <2>3. lifetime'[k] = lifetime[k]
    BY <2>1, <2>2 DEF Expire, SetWindow, LimitTypeOK
  <2> QED
    BY <1>1, <2>3
<1>5. CASE LimitTick
  BY <1>5, LeftParts DEF LimitTick
<1>6. lifetime' = lifetime \/ (\E r \in Requests : Incr(r) \/ Expire(r)) \/ LimitTick
  BY DEF LimitStep, StartChecks, Admits, Refuses, Second, Ttl, GiveUp
<1> QED
  BY <1>2, <1>3, <1>4, <1>5, <1>6

-----------------------------------------------------------------------------
(* The row of a fingerprint.                                              *)

\* Every step that touches the row.
ErrorStep ==
    \/ \E r \in Requests : TrackStart(r)
    \/ \E j \in Jobs : \/ TrackUpsert(j) \/ TrackAlert(j) \/ JobFind(j)
                       \/ JobSave(j) \/ JobRemove(j) \/ JobFails(j)
    \/ \E j \in Admins : UpdateStatus(j) \/ RemoveError(j)
    \/ JobsCrash

AnyRow == [id : Nat, count : Nat, status : Stati, mailed : BOOLEAN]
AnyJob == [pc : Pcs, id : Nat, patch : Patches, seen : AnyRow]

Past     == {r \in Requests : job[r].pc \notin {"new", "upsert"}}
Alerting == {r \in Requests : job[r].pc = "alert"}

\* A row there may have been with n inserts and u trackers past their upsert.
RowFits(row, n, u) ==
    row \in AnyRow /\ row.id <= n /\ row.count <= u /\ (row.id # 0 => row.count >= 1)
JobFits(j, n, u) == j \in AnyJob /\ j.id <= n /\ RowFits(j.seen, n, u)

ErrorInv ==
    /\ isProd \in BOOLEAN /\ inserts \in Nat /\ alerts \in Nat
    /\ job \in [Jobs -> AnyJob]
    /\ RowFits(error, inserts, Cardinality(Past))
    /\ \A j \in Jobs : JobFits(job[j], inserts, Cardinality(Past))
    /\ \A j \in Admins : job[j].pc \notin {"upsert", "alert"}
    /\ inserts <= Cardinality(Past)
    /\ alerts + Cardinality(Alerting) <= inserts

-----------------------------------------------------------------------------
(* Rows and sizes.                                                         *)

LEMMA MergeParts ==
    ASSUME NEW p \in Patches, NEW row \in AnyRow
    PROVE  /\ Merge(p, row) \in AnyRow
           /\ Merge(p, row).id = row.id /\ Merge(p, row).count = row.count
<1>1. CASE p \in [status : Stati]
  <2>1. p.status \in Stati /\ DOMAIN p = {"status"}
    BY <1>1
  <2>2. Merge(p, row) = [row EXCEPT !.status = p.status]
    BY <2>1 DEF Merge, AnyRow
  <2> QED
    BY <2>1, <2>2 DEF AnyRow
<1>2. CASE p \in [mailed : {TRUE}]
  <2>1. p.mailed = TRUE /\ DOMAIN p = {"mailed"}
    BY <1>2
  <2>2. Merge(p, row) = [row EXCEPT !.mailed = TRUE]
    BY <2>1 DEF Merge, AnyRow
  <2> QED
    BY <2>2 DEF AnyRow
<1> QED
  BY <1>1, <1>2 DEF Patches

LEMMA FixedParts ==
    /\ NoRow \in AnyRow /\ NoRow.id = 0 /\ NoRow.count = 0
    /\ NewJob \in AnyJob /\ NewJob.id = 0 /\ NewJob.seen = NoRow /\ NewJob.pc = "new"
    /\ Stamp \in Patches
BY DEF NoRow, AnyRow, NewJob, AnyJob, Pcs, Stamp, Patches, Stati

LEMMA DoneParts ==
    LET d == [NewJob EXCEPT !.pc = "done"]
    IN  d \in AnyJob /\ d.id = 0 /\ d.seen = NoRow /\ d.pc = "done"
BY FixedParts DEF NewJob, AnyJob, Pcs

LEMMA PastSize ==
    /\ IsFiniteSet(Past) /\ Cardinality(Past) \in Nat /\ Cardinality(Past) <= Cardinality(Requests)
    /\ IsFiniteSet(Alerting) /\ Cardinality(Alerting) \in Nat
    /\ Cardinality(Requests) \in Nat
<1>1. Past \subseteq Requests /\ Alerting \subseteq Requests
  BY DEF Past, Alerting
<1> QED
  BY <1>1, RequestsAssumption, FS_Subset, FS_CardinalityType

LEMMA RowStillFits ==
    ASSUME NEW row, NEW n \in Nat, NEW u \in Nat, NEW m \in Nat, NEW v \in Nat,
           n <= m, u <= v, RowFits(row, n, u)
    PROVE  RowFits(row, m, v)
BY DEF RowFits, AnyRow

LEMMA JobStillFits ==
    ASSUME NEW j, NEW n \in Nat, NEW u \in Nat, NEW m \in Nat, NEW v \in Nat,
           n <= m, u <= v, JobFits(j, n, u)
    PROVE  JobFits(j, m, v)
BY RowStillFits DEF JobFits, AnyJob

LEMMA NoRowFits ==
    ASSUME NEW n \in Nat, NEW u \in Nat
    PROVE  /\ RowFits(NoRow, n, u) /\ JobFits(NewJob, n, u)
           /\ JobFits([NewJob EXCEPT !.pc = "done"], n, u)
BY FixedParts, DoneParts DEF RowFits, JobFits

-----------------------------------------------------------------------------
LEMMA ErrorInitial ==
    ASSUME ErrorInit
    PROVE  ErrorInv
<1> USE DEF ErrorInit
<1>1. Past = {} /\ Alerting = {}
  BY FixedParts DEF Past, Alerting, Jobs
<1>2. Cardinality(Past) = 0 /\ Cardinality(Alerting) = 0
  BY <1>1, FS_EmptySet
<1>3. job \in [Jobs -> AnyJob] /\ \A j \in Jobs : job[j] = NewJob
  BY FixedParts
<1>4. RowFits(NoRow, 0, 0) /\ JobFits(NewJob, 0, 0)
  BY NoRowFits
<1>5. \A j \in Admins : job[j].pc \notin {"upsert", "alert"}
  BY FixedParts DEF Jobs
<1> QED
  BY <1>2, <1>3, <1>4, <1>5 DEF ErrorInv

\* No upsert and no alert: the row and the jobs still fit, more trackers may be past.
LEMMA QuietStep ==
    ASSUME ErrorInv,
           UNCHANGED <<isProd, inserts, alerts>>,
           RowFits(error', inserts, Cardinality(Past)),
           job' \in [Jobs -> AnyJob],
           \A j \in Jobs : JobFits(job'[j], inserts, Cardinality(Past)),
           \A j \in Admins : job'[j].pc \notin {"upsert", "alert"},
           Past \subseteq Past', Alerting' \subseteq Alerting
    PROVE  ErrorInv'
<1> DEFINE u == Cardinality(Past)
           v == Cardinality(Past')
<1>0. IsFiniteSet(Past') /\ Past' \subseteq Requests
  <2>1. Past' \subseteq Requests
    BY DEF Past
  <2> QED
    BY <2>1, RequestsAssumption, FS_Subset
<1>1. u \in Nat /\ v \in Nat /\ u <= v
  BY <1>0, PastSize, FS_Subset, FS_CardinalityType
<1>2. Cardinality(Alerting') <= Cardinality(Alerting) /\ Cardinality(Alerting') \in Nat
      /\ Cardinality(Alerting) \in Nat
  BY PastSize, FS_Subset, FS_CardinalityType
<1>3. inserts \in Nat /\ alerts \in Nat /\ inserts <= u /\ alerts + Cardinality(Alerting) <= inserts
  BY DEF ErrorInv
<1>4. RowFits(error', inserts, v)
  BY <1>1, <1>3, RowStillFits
<1>5. \A j \in Jobs : JobFits(job'[j], inserts, v)
  BY <1>1, <1>3, JobStillFits
<1>6. inserts <= v /\ alerts + Cardinality(Alerting') <= inserts
  BY <1>1, <1>2, <1>3
<1> HIDE DEF u, v
<1> QED
  BY <1>3, <1>4, <1>5, <1>6 DEF ErrorInv, v

\* The job of one changes; only a request that was new goes to the upsert.
LEMMA OneJobStep ==
    ASSUME ErrorInv, NEW j \in Jobs, NEW q,
           UNCHANGED <<isProd, inserts, alerts>>,
           RowFits(error', inserts, Cardinality(Past)),
           job' = [job EXCEPT ![j] = q], JobFits(q, inserts, Cardinality(Past)),
           q.pc \notin {"new", "alert"},
           q.pc = "upsert" => j \in Requests /\ job[j].pc = "new"
    PROVE  ErrorInv'
<1>1. job \in [Jobs -> AnyJob] /\ q \in AnyJob
  BY DEF ErrorInv, JobFits
<1>2. job' \in [Jobs -> AnyJob] /\ job'[j] = q /\ \A i \in Jobs \ {j} : job'[i] = job[i]
  BY <1>1
<1>3. \A i \in Jobs : JobFits(job'[i], inserts, Cardinality(Past))
  BY <1>2 DEF ErrorInv
<1>4. \A i \in Admins : job'[i].pc \notin {"upsert", "alert"}
  BY <1>2, TrackingAssumption DEF ErrorInv, Jobs
<1>5. Past \subseteq Past' /\ Alerting' \subseteq Alerting
  BY <1>2 DEF Past, Alerting, Jobs
<1> QED
  BY <1>2, <1>3, <1>4, <1>5, QuietStep

-----------------------------------------------------------------------------
(* One lemma for each step.                                                *)

LEMMA TrackStartStep ==
    ASSUME ErrorInv, NEW r \in Requests, TrackStart(r)
    PROVE  ErrorInv'
<1> DEFINE q == [job[r] EXCEPT !.pc = "upsert"]
<1>1. r \in Jobs /\ job[r].pc = "new" /\ UNCHANGED <<isProd, error, inserts, alerts>>
  BY DEF TrackStart, Doing, Jobs
<1>2. job' = [job EXCEPT ![r] = q]
  BY DEF TrackStart, Do
<1>3. job[r] \in AnyJob /\ JobFits(job[r], inserts, Cardinality(Past))
  BY <1>1 DEF ErrorInv
<1>4. q.pc = "upsert" /\ JobFits(q, inserts, Cardinality(Past))
  BY <1>3 DEF AnyJob, Pcs, JobFits
<1> HIDE DEF q
<1> QED
  BY <1>1, <1>2, <1>4, OneJobStep DEF ErrorInv

LEMMA FinishStep ==
    ASSUME ErrorInv, NEW j \in Jobs, Finish(j), UNCHANGED <<isProd, inserts, alerts>>,
           RowFits(error', inserts, Cardinality(Past))
    PROVE  ErrorInv'
<1> DEFINE q == [NewJob EXCEPT !.pc = "done"]
<1>1. q.pc = "done" /\ JobFits(q, inserts, Cardinality(Past))
  BY DoneParts, NoRowFits, PastSize DEF ErrorInv
<1>2. job' = [job EXCEPT ![j] = q]
  BY DEF Finish
<1> HIDE DEF q
<1> QED
  BY <1>1, <1>2, OneJobStep

LEMMA AdminStep ==
    ASSUME ErrorInv, NEW j \in Admins, NEW l \in {"find", "remove"}, NEW p \in Patches,
           AdminStart(j, l, p)
    PROVE  ErrorInv'
<1>1. j \in Jobs /\ UNCHANGED <<isProd, error, inserts, alerts>>
  BY DEF AdminStart, Jobs
<1>2. PICK i \in 1..inserts :
         job' = [job EXCEPT ![j] = [pc |-> l, id |-> i, patch |-> p, seen |-> NoRow]]
  BY DEF AdminStart
<1> DEFINE q == [pc |-> l, id |-> i, patch |-> p, seen |-> NoRow]
<1>3. i \in Nat /\ i <= inserts
  BY DEF ErrorInv
<1>4. q \in AnyJob /\ q.id = i /\ q.seen = NoRow /\ q.pc = l
  BY <1>3, FixedParts DEF AnyJob, Pcs
<1> HIDE DEF q
<1>5. JobFits(q, inserts, Cardinality(Past))
  BY <1>3, <1>4, NoRowFits, PastSize DEF JobFits, ErrorInv
<1> QED
  BY <1>1, <1>2, <1>4, <1>5, OneJobStep DEF q, ErrorInv

LEMMA JobFindStep ==
    ASSUME ErrorInv, NEW j \in Jobs, JobFind(j)
    PROVE  ErrorInv'
<1> DEFINE q == [job[j] EXCEPT !.pc = "save", !.seen = error]
<1>1. UNCHANGED <<isProd, error, inserts, alerts>> /\ RowFits(error', inserts, Cardinality(Past))
  BY DEF JobFind, ErrorInv
<1>2. CASE Names(j)
  <2>1. job' = [job EXCEPT ![j] = q]
    BY <1>2 DEF JobFind
  <2>2. job[j] \in AnyJob /\ JobFits(job[j], inserts, Cardinality(Past)) /\ error \in AnyRow
    BY DEF ErrorInv, RowFits
  <2>3. q \in AnyJob /\ q.pc = "save" /\ q.id = job[j].id /\ q.seen = error
    BY <2>2 DEF AnyJob, Pcs
  <2> HIDE DEF q
  <2>4. JobFits(q, inserts, Cardinality(Past))
    BY <2>2, <2>3 DEF JobFits, ErrorInv
  <2> QED
    BY <1>1, <2>1, <2>3, <2>4, OneJobStep
<1>3. CASE ~Names(j)
  BY <1>1, <1>3, FinishStep DEF JobFind
<1> QED
  BY <1>2, <1>3

LEMMA JobSaveStep ==
    ASSUME ErrorInv, NEW j \in Jobs, JobSave(j)
    PROVE  ErrorInv'
<1> DEFINE saved == Merge(job[j].patch, job[j].seen)
<1>1. job[j].patch \in Patches /\ RowFits(job[j].seen, inserts, Cardinality(Past))
  BY DEF ErrorInv, JobFits, AnyJob
<1>2. RowFits(saved, inserts, Cardinality(Past))
  BY <1>1, MergeParts DEF RowFits
<1>3. error' = saved \/ error' = error
  BY DEF JobSave
<1> HIDE DEF saved
<1>4. RowFits(error', inserts, Cardinality(Past))
  BY <1>2, <1>3 DEF ErrorInv
<1> QED
  BY <1>4, FinishStep DEF JobSave

LEMMA JobRemoveStep ==
    ASSUME ErrorInv, NEW j \in Jobs, JobRemove(j)
    PROVE  ErrorInv'
<1>1. RowFits(error', inserts, Cardinality(Past))
  BY NoRowFits, PastSize DEF JobRemove, ErrorInv
<1> QED
  BY <1>1, FinishStep DEF JobRemove

LEMMA JobFailsStep ==
    ASSUME ErrorInv, NEW j \in Jobs, JobFails(j)
    PROVE  ErrorInv'
BY FinishStep DEF JobFails, ErrorInv

LEMMA CrashStep ==
    ASSUME ErrorInv, JobsCrash
    PROVE  ErrorInv'
<1> DEFINE d == [NewJob EXCEPT !.pc = "done"]
<1>1. d \in AnyJob /\ d.pc = "done" /\ NewJob.pc = "new" /\ NewJob \in AnyJob
  BY DoneParts, FixedParts
<1>2. JobFits(d, inserts, Cardinality(Past)) /\ JobFits(NewJob, inserts, Cardinality(Past))
  BY NoRowFits, PastSize DEF ErrorInv
<1>3. job' = [j \in Jobs |-> IF Doing(j, "new") THEN NewJob ELSE d]
  BY DEF JobsCrash
<1> HIDE DEF d
<1>4. job' \in [Jobs -> AnyJob]
  BY <1>1, <1>3
<1>5. \A j \in Jobs : JobFits(job'[j], inserts, Cardinality(Past))
  BY <1>2, <1>3
<1>6. \A j \in Admins : job'[j].pc \notin {"upsert", "alert"}
  BY <1>1, <1>3 DEF Jobs
<1>7. Past \subseteq Past' /\ Alerting' \subseteq Alerting
  BY <1>1, <1>3 DEF Past, Alerting, Jobs, Doing
<1>8. UNCHANGED <<isProd, inserts, alerts>> /\ RowFits(error', inserts, Cardinality(Past))
  BY DEF JobsCrash, ErrorInv
<1> QED
  BY <1>4, <1>5, <1>6, <1>7, <1>8, QuietStep

\* The upsert: one more tracker is past it.
LEMMA TrackUpsertStep ==
    ASSUME ErrorInv, NEW j \in Jobs, TrackUpsert(j)
    PROVE  ErrorInv'
<1> DEFINE u == Cardinality(Past)
           made == FirstRow(inserts + 1)
           more == [error EXCEPT !.count = error.count + 1]
<1>1. j \in Requests /\ job[j].pc = "upsert" /\ j \notin Past /\ j \notin Alerting
  BY DEF TrackUpsert, Doing, ErrorInv, Jobs, Past, Alerting
<1>2. job \in [Jobs -> AnyJob] /\ job[j] \in AnyJob /\ inserts \in Nat /\ alerts \in Nat /\ u \in Nat
      /\ inserts <= u /\ RowFits(error, inserts, u)
  BY PastSize DEF ErrorInv
<1>3. PICK q : /\ job' = [job EXCEPT ![j] = q]
               /\ \/ q.pc = "alert" /\ error'.count = 1
                  \/ q.pc = "done"
               /\ JobFits(q, inserts, u)
  <2>1. CASE error'.count = 1 /\ isProd
    <3> DEFINE q == [job[j] EXCEPT !.pc = "alert"]
    <3>1. job' = [job EXCEPT ![j] = q]
      BY <2>1 DEF TrackUpsert, Do
    <3>2. q.pc = "alert" /\ JobFits(q, inserts, u)
      BY <1>2 DEF AnyJob, Pcs, JobFits, ErrorInv
    <3> HIDE DEF q
    <3> QED
      BY <2>1, <3>1, <3>2
  <2>2. CASE ~(error'.count = 1 /\ isProd)
    <3> DEFINE q == [NewJob EXCEPT !.pc = "done"]
    <3>1. job' = [job EXCEPT ![j] = q]
      BY <2>2 DEF TrackUpsert, Finish
    <3>2. q.pc = "done" /\ JobFits(q, inserts, u)
      BY <1>2, DoneParts, NoRowFits
    <3> HIDE DEF q
    <3> QED
      BY <3>1, <3>2
  <2> QED
    BY <2>1, <2>2
<1>4. job' \in [Jobs -> AnyJob] /\ job'[j] = q /\ \A i \in Jobs \ {j} : job'[i] = job[i]
  BY <1>2, <1>3 DEF JobFits
<1>5. Past' = Past \cup {j}
  BY <1>1, <1>3, <1>4 DEF Past, Jobs
<1>6. Cardinality(Past') = u + 1
  BY <1>1, <1>5, PastSize, FS_AddElement
<1>7. \A i \in Admins : job'[i].pc \notin {"upsert", "alert"}
  BY <1>1, <1>4, TrackingAssumption DEF ErrorInv, Jobs
<1>8. UNCHANGED <<isProd, alerts>> /\ error' = Upserted(error)
      /\ inserts' = IF error.id = 0 THEN inserts + 1 ELSE inserts
  BY DEF TrackUpsert
<1>9. \A i \in Jobs : JobFits(job[i], inserts, u)
  BY DEF ErrorInv
<1>10. Cardinality(Alerting) \in Nat /\ alerts + Cardinality(Alerting) <= inserts
       /\ isProd \in BOOLEAN
  BY PastSize DEF ErrorInv
<1> HIDE DEF u
<1>11. inserts' \in Nat /\ inserts <= inserts' /\ inserts' <= u + 1 /\ u + 1 \in Nat /\ u <= u + 1
  BY <1>2, <1>8
<1>12. \A i \in Jobs : JobFits(job'[i], inserts', u + 1)
  BY <1>2, <1>3, <1>4, <1>9, <1>11, JobStillFits
<1>13. CASE error.id = 0
  <2>1. error' = made /\ inserts' = inserts + 1
    BY <1>8, <1>13 DEF Upserted
  <2>2. made \in AnyRow /\ made.id = inserts + 1 /\ made.count = 1
    <3>1. inserts + 1 \in Nat /\ 1 \in Nat
      BY <1>2
    <3> QED
      BY <3>1 DEF FirstRow, AnyRow, Stati
  <2> HIDE DEF made
  <2>3. RowFits(error', inserts', u + 1)
    BY <1>2, <2>1, <2>2 DEF RowFits
  <2>4. alerts' + Cardinality(Alerting') <= inserts'
    <3>1. CASE q.pc = "alert"
      <4>1. Alerting' = Alerting \cup {j}
        BY <1>1, <1>4, <3>1 DEF Alerting, Jobs
      <4>2. Cardinality(Alerting') = Cardinality(Alerting) + 1
        BY <1>1, <4>1, PastSize, FS_AddElement
      <4> QED
        BY <1>2, <1>8, <1>10, <2>1, <4>2
    <3>2. CASE q.pc = "done"
      <4>1. Alerting' = Alerting
        BY <1>1, <1>4, <3>2 DEF Alerting, Jobs
      <4> QED
        BY <1>2, <1>8, <1>10, <2>1, <4>1
    <3> QED
      BY <1>3, <3>1, <3>2
  <2> QED
    BY <1>2, <1>4, <1>6, <1>7, <1>8, <1>10, <1>11, <1>12, <2>3, <2>4 DEF ErrorInv
<1>14. CASE error.id # 0
  <2>1. error' = more /\ inserts' = inserts
    BY <1>8, <1>14 DEF Upserted
  <2>2. error \in AnyRow /\ error.count >= 1 /\ error.count <= u /\ error.count \in Nat /\ error.id <= inserts
        /\ error.id \in Nat
    BY <1>2, <1>14 DEF RowFits, AnyRow
  <2>3. more \in AnyRow /\ more.id = error.id /\ more.count = error.count + 1
    BY <2>2 DEF AnyRow
  <2> HIDE DEF more
  <2>4. RowFits(error', inserts', u + 1)
    BY <1>2, <2>1, <2>2, <2>3 DEF RowFits
  <2>5. q.pc = "done"
    BY <1>3, <2>1, <2>2, <2>3
  <2>6. Alerting' = Alerting
    BY <1>1, <1>4, <2>5 DEF Alerting, Jobs
  <2> QED
    BY <1>2, <1>4, <1>6, <1>7, <1>8, <1>10, <1>11, <1>12, <2>1, <2>4, <2>6 DEF ErrorInv
<1> QED
  BY <1>13, <1>14

\* The alert leaves, or does not.
LEMMA TrackAlertStep ==
    ASSUME ErrorInv, NEW j \in Jobs, TrackAlert(j)
    PROVE  ErrorInv'
<1> DEFINE q == [job[j] EXCEPT !.pc = "find"]
           u == Cardinality(Past)
<1>1. j \in Requests /\ j \in Alerting
  BY DEF TrackAlert, Doing, ErrorInv, Jobs, Alerting
<1>2. job' = [job EXCEPT ![j] = q] /\ UNCHANGED <<isProd, error, inserts>> /\ alerts' \in {alerts, alerts + 1}
  BY DEF TrackAlert, Do
<1>3. job \in [Jobs -> AnyJob] /\ job[j] \in AnyJob /\ JobFits(job[j], inserts, u)
  BY DEF ErrorInv
<1>4. q \in AnyJob /\ q.pc = "find" /\ JobFits(q, inserts, u)
  BY <1>3 DEF AnyJob, Pcs, JobFits
<1> HIDE DEF q
<1>5. job' \in [Jobs -> AnyJob] /\ job'[j] = q /\ \A i \in Jobs \ {j} : job'[i] = job[i]
  BY <1>2, <1>3, <1>4
<1>6. Past' = Past
  BY <1>1, <1>4, <1>5 DEF Past, Alerting, Jobs
<1>7. Alerting' = Alerting \ {j}
  BY <1>1, <1>4, <1>5 DEF Alerting, Jobs
<1>8. Cardinality(Alerting') = Cardinality(Alerting) - 1
  BY <1>1, <1>7, PastSize, FS_RemoveElement
<1>9. alerts \in Nat /\ inserts \in Nat /\ Cardinality(Alerting) \in Nat /\ Cardinality(Alerting') \in Nat
  <2>1. IsFiniteSet(Alerting')
    BY <1>7, PastSize, FS_RemoveElement
  <2> QED
    BY <2>1, PastSize, FS_CardinalityType DEF ErrorInv
<1>10. alerts' \in Nat /\ alerts' + Cardinality(Alerting') <= inserts'
  BY <1>2, <1>8, <1>9 DEF ErrorInv
<1>11. \A i \in Jobs : JobFits(job'[i], inserts, u)
  BY <1>4, <1>5 DEF ErrorInv
<1>12. \A i \in Admins : job'[i].pc \notin {"upsert", "alert"}
  BY <1>1, <1>5, TrackingAssumption DEF ErrorInv, Jobs
<1>13. Cardinality(Past') = u
  BY <1>6
<1> HIDE DEF u
<1> QED
  BY <1>2, <1>5, <1>10, <1>11, <1>12, <1>13 DEF ErrorInv, u

-----------------------------------------------------------------------------
(* All of it.                                                              *)

LEMMA ErrorStepKeeps ==
    ASSUME ErrorInv, ErrorStep \/ UNCHANGED errorVars
    PROVE  ErrorInv'
<1>1. CASE UNCHANGED errorVars
  <2>1. UNCHANGED <<isProd, error, inserts, alerts, job>>
    BY <1>1 DEF errorVars
  <2>2. Past' = Past /\ Alerting' = Alerting
    BY <2>1 DEF Past, Alerting
  <2> QED
    BY <2>1, <2>2, QuietStep DEF ErrorInv
<1>2. ASSUME NEW j \in Admins, UpdateStatus(j) \/ RemoveError(j)
      PROVE  ErrorInv'
  <2>1. CASE UpdateStatus(j)
    <3>1. PICK s \in Stati : AdminStart(j, "find", [status |-> s])
      BY <2>1 DEF UpdateStatus
    <3>2. [status |-> s] \in Patches
      BY DEF Patches
    <3> QED
      BY <3>1, <3>2, AdminStep
  <2>2. CASE RemoveError(j)
    BY <2>2, FixedParts, AdminStep DEF RemoveError
  <2> QED
    BY <1>2, <2>1, <2>2
<1>3. CASE ErrorStep
  BY <1>2, <1>3, TrackStartStep, TrackUpsertStep, TrackAlertStep, JobFindStep, JobSaveStep,
     JobRemoveStep, JobFailsStep, CrashStep DEF ErrorStep
<1> QED
  BY <1>1, <1>3

LEMMA ErrorInvImpliesTypeOK == ErrorInv => ErrorTypeOK
<1> SUFFICES ASSUME ErrorInv
             PROVE  ErrorTypeOK
  OBVIOUS
<1> DEFINE u == Cardinality(Past)
           n == Cardinality(Requests)
<1>1. u \in Nat /\ n \in Nat /\ u <= n /\ Cardinality(Alerting) \in Nat
  BY PastSize
<1>2. inserts \in Nat /\ alerts \in Nat /\ inserts <= u /\ alerts <= inserts
  BY <1>1 DEF ErrorInv
<1>3. \A row : RowFits(row, inserts, u) => row.id \in 0..n /\ row.count \in 0..n
  BY <1>1, <1>2 DEF RowFits, AnyRow
<1>4. \A row : RowFits(row, inserts, u) => row \in Rows
  BY <1>3 DEF RowFits, AnyRow, Rows, Counted
<1>5. \A j \in Jobs : JobFits(job[j], inserts, u) /\ job[j].id \in Nat /\ job[j].id <= inserts
  BY DEF ErrorInv, JobFits, AnyJob
<1>6. \A j \in Jobs : job[j].id \in 0..n
  BY <1>1, <1>2, <1>5
<1>7. \A j \in Jobs : job[j] \in [pc : Pcs, id : Counted, patch : Patches, seen : Rows]
  BY <1>4, <1>5, <1>6 DEF JobFits, AnyJob, Counted
<1>8. inserts \in 0..n /\ alerts \in 0..n
  BY <1>1, <1>2
<1> QED
  BY <1>4, <1>7, <1>8 DEF ErrorTypeOK, ErrorInv, Counted

LEMMA ErrorInvImpliesAlertOnce == ErrorInv => AlertOncePerRow
BY PastSize DEF ErrorInv, AlertOncePerRow

-----------------------------------------------------------------------------
(* The whole.                                                            *)

\* A request on its way: what it checks and what is tracked of it.
Way(r) ==
    /\ Checking(r) => In(r, "guard")
    /\ ~Doing(r, "new") => In(r, "done") /\ answer[r] = Class(500)

FrontInv ==
    /\ HttpTypeOK /\ ClientTypeOK /\ crashes \in 0..MaxCrashes
    /\ \A r \in Requests : Way(r)

IInv == LimitInv /\ ErrorInv /\ FrontInv

-----------------------------------------------------------------------------
(* Statuses.                                                               *)

LEMMA BranchStatuses ==
    DOMAIN Branches = 1..14 /\ \A i \in DOMAIN Branches : Branches[i].status \in Statuses
<1>1. DOMAIN Branches = 1..14
  BY DEF Branches
<1>2. /\ Branches[1].status = 409 /\ Branches[2].status = 409 /\ Branches[3].status = 422
      /\ Branches[4].status = 422 /\ Branches[5].status = 409 /\ Branches[6].status = 408
      /\ Branches[7].status = 408 /\ Branches[8].status = 408 /\ Branches[9].status = 503
      /\ Branches[10].status = 503 /\ Branches[11].status = 422 /\ Branches[12].status = 422
      /\ Branches[13].status = 422 /\ Branches[14].status = 500
  BY DEF Branches
<1>3. \A i \in 1..14 : i \in {1, 2, 3, 4, 5, 6, 7, 8, 9, 10, 11, 12, 13, 14}
  OBVIOUS
<1> QED
  BY <1>1, <1>2, <1>3 DEF Statuses

\* Whichever branch is the first: its status is one of the response service.
LEMMA StatusInStatuses ==
    ASSUME NEW e \in Errors
    PROVE  StatusOf(e) \in Statuses
<1>1. 500 \in Statuses /\ 503 \in Statuses /\ 408 \in Statuses
  BY DEF Statuses
<1>2. e.by \in {"query", "orm", "connection"}
  BY DEF Errors
<1>3. QueryStatus(e) \in Statuses
  <2>1. CASE \E i \in DOMAIN Branches : Recognises(i, e)
    <3> DEFINE First(i) == Recognises(i, e) /\ \A j \in 1..(i - 1) : ~Recognises(j, e)
               I == {i \in DOMAIN Branches : Recognises(i, e)}
    <3>1. I \subseteq Nat /\ I # {}
      BY <2>1, BranchStatuses
    <3>2. PICK i \in I : \A j \in I : ~(<<j, i>> \in OpToRel(<, Nat))
      <4> HIDE DEF I
      <4> QED
        BY <3>1, NatLessThanWellFounded, WFMin, Zenon
    <3>3. \A j \in I : ~(j < i)
      BY <3>1, <3>2 DEF OpToRel
    <3>4. i \in DOMAIN Branches /\ i \in 1..14 /\ Recognises(i, e)
      BY BranchStatuses
    <3>5. \A j \in 1..(i - 1) : j \in 1..14 /\ j < i
      BY <3>4
    <3>6. First(i)
      BY <3>3, <3>4, <3>5, BranchStatuses
    <3> HIDE DEF I
    <3> QED
      BY <2>1, <3>4, <3>6, BranchStatuses DEF QueryStatus
  <2>2. CASE ~\E i \in DOMAIN Branches : Recognises(i, e)
    BY <1>1, <2>2 DEF QueryStatus
  <2> QED
    BY <2>1, <2>2
<1>4. PlainStatus(e) \in Statuses
  BY <1>1 DEF PlainStatus
<1> QED
  BY <1>1, <1>2, <1>3, <1>4 DEF StatusOf

\* What a handler may answer with.
LEMMA OutcomesInStatuses == Outcomes \subseteq Statuses
<1>1. {200, 404, 500} \subseteq Statuses
  BY DEF Statuses
<1>2. \A e \in Failures : StatusOf(e) \in Statuses
  BY StatusInStatuses, FrontendAssumption
<1> QED
  BY <1>1, <1>2 DEF Outcomes

\* Every fault of the server is of one class.
LEMMA FaultClass ==
    ASSUME NEW s \in Statuses, Tracks(s)
    PROVE  Class(s) = Class(500)
BY DEF Statuses, Tracks, Class

-----------------------------------------------------------------------------
(* The parts see their own steps only.                                     *)

LEMMA StepsOfLimit ==
    ASSUME Next
    PROVE  LimitStep \/ UNCHANGED limitVars
<1>1. ASSUME NEW r \in Requests, Serve(r)
      PROVE  LimitStep \/ UNCHANGED limitVars
  <2>1. CASE \E keys \in Identifiers : StartChecks(r, keys)
    BY <2>1 DEF LimitStep
  <2>2. CASE Incr(r) \/ Admits(r) \/ Refuses(r)
    BY <2>2 DEF LimitStep
  <2>3. CASE GiveUp({r})
    BY <2>3 DEF LimitStep
  <2> QED
    BY <1>1, <2>1, <2>2, <2>3 DEF Serve, Arrive, TurnAway, Hit, Pass, TooMany, RedisFails,
       CommandFails, Respond, CallOut, CallAgain, CallReturns
<1>2. CASE Tick
  BY <1>2 DEF Tick, LimitStep
<1>3. CASE Crash
  BY <1>3 DEF Crash, LimitStep
<1>4. ASSUME NEW j \in Jobs, Track(j) \/ (j \in Admins /\ Administer(j))
      PROVE  UNCHANGED limitVars
  BY <1>4 DEF Track, Administer
<1> QED
  BY <1>1, <1>2, <1>3, <1>4 DEF Next, Jobs

LEMMA StepsOfErrors ==
    ASSUME Next
    PROVE  ErrorStep \/ UNCHANGED errorVars
<1>1. ASSUME NEW r \in Requests, Serve(r)
      PROVE  TrackStart(r) \/ UNCHANGED errorVars
  BY <1>1 DEF Serve, Arrive, TurnAway, Hit, Pass, TooMany, RedisFails, Respond, CallOut,
     CallAgain, CallReturns, PasswordChecked, QueuesRead, Calm, Answer
<1>2. CASE Tick
  BY <1>2 DEF Tick
<1>3. CASE Crash
  BY <1>3 DEF Crash, ErrorStep
<1>4. ASSUME NEW j \in Jobs, Track(j)
      PROVE  ErrorStep
  BY <1>4 DEF Track, ErrorStep
<1>5. ASSUME NEW j \in Admins, Administer(j)
      PROVE  ErrorStep
  BY <1>5 DEF Administer, ErrorStep
<1> QED
  BY <1>1, <1>2, <1>3, <1>4, <1>5 DEF Next, ErrorStep

-----------------------------------------------------------------------------
(* Initial states, and one step of each kind.                              *)

LEMMA InitHolds == Init => IInv
<1> SUFFICES ASSUME Init
             PROVE  IInv
  OBVIOUS
<1>1. HttpTypeOK
  BY DEF Init, HttpInit, HttpTypeOK, Stages
<1>2. 0 \in 0..RetryCount /\ 0 \in 0..MaxCrashes
  BY RetryAssumption, FrontendAssumption
<1>3. ClientTypeOK
  BY <1>2 DEF Init, ClientInit, ClientTypeOK, NoCall, Calls
<1>4. \A r \in Requests : ~Checking(r) /\ Doing(r, "new")
  BY FixedParts DEF Init, LimitInit, ErrorInit, Checking, Unchecked, Doing, Jobs
<1> QED
  BY <1>1, <1>2, <1>3, <1>4, LimitInitial, ErrorInitial DEF Init, IInv, FrontInv, Way

\* Requests that keep their job: one of them moves, or none.
LEMMA MoveStep ==
    ASSUME FrontInv, NEW r \in Requests, NEW l \in Stages, Move(r, l), ~In(r, "done"),
           UNCHANGED <<job, crashes>>, ClientTypeOK',
           guard'[r].todo # <<>> => l = "guard",
           \A q \in Requests \ {r} : guard'[q].todo = guard[q].todo
    PROVE  FrontInv'
<1>1. http' \in [Requests -> Stages] /\ http'[r] = l /\ \A q \in Requests \ {r} : http'[q] = http[q]
  BY DEF FrontInv, HttpTypeOK, Move
<1>2. HttpTypeOK'
  BY <1>1 DEF FrontInv, HttpTypeOK, Move
<1>3. Way(r)'
  BY <1>1 DEF FrontInv, Way, Checking, In, Doing
<1>4. \A q \in Requests \ {r} : Way(q)'
  BY <1>1 DEF FrontInv, Way, Checking, In, Doing, Move
<1> QED
  BY <1>2, <1>3, <1>4 DEF FrontInv

LEMMA StayStep ==
    ASSUME FrontInv, NEW r \in Requests, UNCHANGED <<httpVars, job, crashes>>, ClientTypeOK',
           guard'[r].todo # <<>> => In(r, "guard"),
           \A q \in Requests \ {r} : guard'[q].todo = guard[q].todo
    PROVE  FrontInv'
<1>1. HttpTypeOK'
  BY DEF FrontInv, HttpTypeOK, httpVars
<1>2. Way(r)'
  BY DEF FrontInv, Way, Checking, In, Doing, httpVars
<1>3. \A q \in Requests \ {r} : Way(q)'
  BY DEF FrontInv, Way, Checking, In, Doing, httpVars
<1> QED
  BY <1>1, <1>2, <1>3 DEF FrontInv

\* The tracker of a request starts with an answer of the server's own fault.
LEMMA AnswerStep ==
    ASSUME FrontInv, ErrorInv, NEW r \in Requests, NEW status \in Statuses, Answer(r, status),
           ~In(r, "done"), ClientTypeOK', guard'[r].todo = <<>>,
           \A q \in Requests \ {r} : guard'[q].todo = guard[q].todo
    PROVE  FrontInv'
<1>1. /\ http' \in [Requests -> Stages] /\ http'[r] = "done"
      /\ \A q \in Requests \ {r} : http'[q] = http[q]
      /\ answer'[r] = Class(status) /\ \A q \in Requests \ {r} : answer'[q] = answer[q]
      /\ answer' \in [Requests -> {0} \cup {Class(s) : s \in Statuses}]
  BY DEF FrontInv, HttpTypeOK, Answer, Stages
<1>2. r \in Jobs /\ job \in [Jobs -> AnyJob]
  BY DEF ErrorInv, Jobs
<1>3. Doing(r, "new")
  BY DEF FrontInv, Way
<1>4. \/ Tracks(status) /\ job' = [job EXCEPT ![r].pc = "upsert"]
      \/ job' = job
  <2>1. (Tracks(status) /\ TrackStart(r)) \/ UNCHANGED errorVars
    BY DEF Answer
  <2>2. TrackStart(r) => job' = [job EXCEPT ![r].pc = "upsert"]
    BY DEF TrackStart, Do
  <2>3. UNCHANGED errorVars => job' = job
    BY DEF errorVars
  <2> QED
    BY <2>1, <2>2, <2>3
<1>5. \A q \in Requests \ {r} : job'[q] = job[q]
  BY <1>2, <1>4 DEF Jobs
<1>6. job'[r].pc # "new" => Tracks(status)
  BY <1>3, <1>4 DEF Doing
<1>7. Way(r)'
  BY <1>1, <1>6, FaultClass DEF Way, Checking, In, Doing
<1>8. \A q \in Requests \ {r} : Way(q)'
  BY <1>1, <1>5 DEF FrontInv, Way, Checking, In, Doing
<1> QED
  BY <1>1, <1>7, <1>8 DEF FrontInv, HttpTypeOK, Answer

\* Trackers and administrators.
LEMMA JobStep ==
    ASSUME FrontInv, UNCHANGED <<httpVars, limitVars, call, crashes>>,
           \A r \in Requests : job[r].pc = "new" => job'[r].pc = "new"
    PROVE  FrontInv'
<1>1. HttpTypeOK' /\ ClientTypeOK' /\ crashes' \in 0..MaxCrashes
  BY DEF FrontInv, HttpTypeOK, ClientTypeOK, httpVars
<1>2. \A r \in Requests : Way(r)'
  BY DEF FrontInv, Way, Checking, In, Doing, httpVars, limitVars
<1> QED
  BY <1>1, <1>2 DEF FrontInv

LEMMA NewStaysNew ==
    ASSUME ErrorInv, NEW q \in Requests, job[q].pc = "new",
           \/ \E j \in Jobs : Track(j)
           \/ \E j \in Admins : Administer(j)
    PROVE  job'[q].pc = "new"
<1>1. q \in Jobs /\ q \notin Admins /\ job \in [Jobs -> AnyJob]
  BY TrackingAssumption DEF ErrorInv, Jobs
<1>2. ASSUME NEW j \in Jobs, Track(j)
      PROVE  job'[q] = job[q]
  BY <1>1, <1>2 DEF Track, TrackUpsert, TrackAlert, JobFind, JobSave, JobRemove, JobFails, Doing,
     Do, Finish
<1>3. ASSUME NEW j \in Admins, Administer(j)
      PROVE  job'[q] = job[q]
  BY <1>1, <1>3 DEF Administer, UpdateStatus, RemoveError, AdminStart
<1> QED
  BY <1>2, <1>3

-----------------------------------------------------------------------------
(* One action each.                                                        *)

\* The check of one request changes.
LEMMA OthersChecks ==
    ASSUME LimitInv, NEW r \in Requests,
           Incr(r) \/ Admits(r) \/ Refuses(r) \/ CommandFails(r)
           \/ \E keys \in Identifiers : StartChecks(r, keys)
    PROVE  \A q \in Requests \ {r} : guard'[q].todo = guard[q].todo
<1>1. guard \in [Requests -> Checks]
  BY DEF LimitInv, LimitTypeOK
<1>2. CASE GiveUp({r})
  BY <1>1, <1>2 DEF GiveUp
<1>3. CASE ~GiveUp({r})
  BY <1>1, <1>3 DEF Incr, Admits, Refuses, Admit, Refuse, CommandFails, StartChecks
<1> QED
  BY <1>2, <1>3

LEMMA ClientStays ==
    ASSUME FrontInv, UNCHANGED call
    PROVE  ClientTypeOK'
BY DEF FrontInv, ClientTypeOK

LEMMA ArriveStep ==
    ASSUME IInv, NEW r \in Requests, Arrive(r)
    PROVE  FrontInv'
<1>1. PICK keys \in Identifiers :
        StartChecks(r, keys) /\ Move(r, IF keys = <<>> THEN "handler" ELSE "guard")
  BY DEF Arrive
<1> DEFINE l == IF keys = <<>> THEN "handler" ELSE "guard"
<1>2. guard'[r].todo = keys
  <2>1. guard \in [Requests -> Checks]
    BY DEF IInv, LimitInv, LimitTypeOK
  <2>2. [Unchecked EXCEPT !.todo = keys].todo = keys
    BY DEF Unchecked
  <2> QED
    BY <1>1, <2>1, <2>2 DEF StartChecks
<1>3. l \in Stages /\ (guard'[r].todo # <<>> => l = "guard") /\ Move(r, l)
  BY <1>1, <1>2 DEF Stages
<1>4. \A q \in Requests \ {r} : guard'[q].todo = guard[q].todo
  BY <1>1, OthersChecks DEF IInv
<1>5. UNCHANGED <<job, crashes>> /\ ClientTypeOK' /\ ~In(r, "done")
  BY ClientStays DEF Arrive, Calm, errorVars, IInv, In
<1> HIDE DEF l
<1> QED
  BY <1>3, <1>4, <1>5, MoveStep DEF IInv

LEMMA HitStep ==
    ASSUME IInv, NEW r \in Requests, Hit(r)
    PROVE  FrontInv'
<1>1. Incr(r) /\ UNCHANGED <<httpVars, job, crashes>> /\ ClientTypeOK'
  BY ClientStays DEF Hit, Calm, errorVars, IInv
<1>2. In(r, "guard")
  BY <1>1 DEF Incr, At, IInv, FrontInv, Way
<1> QED
  BY <1>1, <1>2, OthersChecks, StayStep DEF IInv

LEMMA PassStep ==
    ASSUME IInv, NEW r \in Requests, Pass(r)
    PROVE  FrontInv'
<1>1. Admits(r) /\ UNCHANGED <<job, crashes>> /\ ClientTypeOK'
  BY ClientStays DEF Pass, Calm, errorVars, IInv
<1>2. In(r, "guard") /\ ~In(r, "done")
  BY <1>1 DEF Admits, Second, Expire, Ttl, At, IInv, FrontInv, Way, In
<1>3. guard'[r].todo = Tail(guard[r].todo)
  <2> DEFINE t == Tail(guard[r].todo)
  <2>1. guard' = [guard EXCEPT ![r] = [Unchecked EXCEPT !.todo = t]]
    BY <1>1 DEF Admits, Admit
  <2>2. [Unchecked EXCEPT !.todo = t].todo = t
    BY DEF Unchecked
  <2>3. guard \in [Requests -> Checks]
    BY DEF IInv, LimitInv, LimitTypeOK
  <2> HIDE DEF t
  <2> QED
    BY <2>1, <2>2, <2>3 DEF t
<1>4. \A q \in Requests \ {r} : guard'[q].todo = guard[q].todo
  BY <1>1, OthersChecks DEF IInv
<1>5. CASE Tail(guard[r].todo) = <<>>
  <2>1. Move(r, "handler") /\ "handler" \in Stages
    BY <1>5 DEF Pass, Stages
  <2> QED
    BY <1>1, <1>2, <1>3, <1>4, <1>5, <2>1, MoveStep DEF IInv
<1>6. CASE Tail(guard[r].todo) # <<>>
  <2>1. UNCHANGED httpVars
    BY <1>6 DEF Pass
  <2> QED
    BY <1>1, <1>2, <1>4, <2>1, StayStep DEF IInv
<1> QED
  BY <1>5, <1>6

\* The request has no check any more, and had none unless it is in the guard.
LEMMA GuardAnswers ==
    ASSUME IInv, NEW r \in Requests, TurnAway(r) \/ TooMany(r) \/ RedisFails(r)
    PROVE  FrontInv'
<1>1. PICK s \in {401, 429, 500} : Answer(r, s)
  BY DEF TurnAway, TooMany, RedisFails
<1>2. s \in Statuses
  BY DEF Statuses
<1>3. ClientTypeOK'
  BY ClientStays DEF TurnAway, TooMany, RedisFails, IInv
<1>4. guard \in [Requests -> Checks] /\ Unchecked.todo = <<>>
  BY DEF IInv, LimitInv, LimitTypeOK, Unchecked
<1>5. CASE TurnAway(r)
  <2>1. ~Checking(r) /\ guard' = guard /\ ~In(r, "done")
    BY <1>5 DEF TurnAway, limitVars, IInv, FrontInv, Way, In
  <2> QED
    BY <1>1, <1>2, <1>3, <2>1, AnswerStep DEF IInv, Checking
<1>6. CASE TooMany(r) \/ RedisFails(r)
  <2>1. Refuses(r) \/ CommandFails(r)
    BY <1>6 DEF TooMany, RedisFails
  <2>2. ~In(r, "done")
    BY <2>1 DEF Refuses, Second, Expire, Ttl, At, CommandFails, IInv, FrontInv, Way, In
  <2>3. guard'[r].todo = <<>>
    BY <1>4, <2>1 DEF Refuses, Refuse, CommandFails, GiveUp
  <2> QED
    BY <1>1, <1>2, <1>3, <2>1, <2>2, <2>3, OthersChecks, AnswerStep DEF IInv
<1> QED
  BY <1>5, <1>6

\* A call of the client and what it is answered with.
LEMMA HandlerAnswers ==
    ASSUME IInv, NEW r \in Requests, Respond(r) \/ CallReturns(r)
    PROVE  FrontInv'
<1>1. ~Checking(r) /\ ~In(r, "done") /\ guard' = guard
  BY DEF Respond, CallReturns, IInv, FrontInv, Way, In, limitVars
<1>2. PICK status \in Statuses : Answer(r, status)
  <2>1. {200, 404, 422, 500} \subseteq Statuses
    BY DEF Statuses
  <2>2. CASE Respond(r)
    BY <2>2, OutcomesInStatuses DEF Respond
  <2>3. CASE CallReturns(r)
    BY <2>1, <2>3, OutcomesInStatuses DEF CallReturns, PasswordChecked, QueuesRead
  <2> QED
    BY <2>2, <2>3
<1>3. ClientTypeOK'
  <2>1. NoCall \in Calls
    BY RetryAssumption DEF NoCall, Calls
  <2>2. CASE call' = call
    BY <2>2, ClientStays DEF IInv
  <2>3. CASE CallEnds(r)
    BY <2>1, <2>3 DEF CallEnds, IInv, FrontInv, ClientTypeOK
  <2> QED
    BY <2>2, <2>3 DEF Respond, CallReturns
<1> QED
  BY <1>1, <1>2, <1>3, AnswerStep DEF IInv, Checking

LEMMA CallSteps ==
    ASSUME IInv, NEW r \in Requests, CallOut(r) \/ CallAgain(r)
    PROVE  FrontInv'
<1>1. ~Checking(r) /\ ~In(r, "done") /\ guard' = guard /\ UNCHANGED <<job, crashes>>
  BY DEF CallOut, CallAgain, IInv, FrontInv, Way, In, limitVars, errorVars
<1>2. call \in [Requests -> Calls]
  BY DEF IInv, FrontInv, ClientTypeOK
<1>3. CASE CallOut(r)
  <2>1. PICK timed, up \in BOOLEAN : StartCall(r, timed, up)
    BY <1>3 DEF CallOut
  <2>2. 0 \in 0..RetryCount
    BY RetryAssumption
  <2>3. [timed |-> timed, up |-> up, tries |-> 0] \in Calls
    BY <2>2 DEF Calls
  <2>4. ClientTypeOK'
    BY <1>2, <2>1, <2>3 DEF StartCall, ClientTypeOK
  <2>5. Move(r, "calling") /\ "calling" \in Stages
    BY <1>3 DEF CallOut, Stages
  <2> QED
    BY <1>1, <2>4, <2>5, MoveStep DEF IInv, Checking
<1>4. CASE CallAgain(r)
  <2> DEFINE n == call[r].tries + 1
             c == [call[r] EXCEPT !.tries = n]
  <2>1. Retry(r) /\ UNCHANGED httpVars
    BY <1>4 DEF CallAgain
  <2>2. call[r].tries \in 0..RetryCount /\ call[r].tries < RetryCount
    BY <1>2, <2>1 DEF Retry, MayRetry, Calls
  <2>3. n \in 0..RetryCount
    BY <2>2, RetryAssumption
  <2>4. call' = [call EXCEPT ![r] = c]
    BY <1>2, <2>1 DEF Retry
  <2> HIDE DEF n
  <2>5. c \in Calls
    BY <1>2, <2>3 DEF Calls
  <2> HIDE DEF c
  <2>6. ClientTypeOK'
    BY <1>2, <2>4, <2>5 DEF ClientTypeOK
  <2> QED
    BY <1>1, <2>1, <2>6, StayStep DEF IInv, Checking
<1> QED
  BY <1>3, <1>4

\* Everybody who was in the middle of something is lost.
LEMMA ProcessCrash ==
    ASSUME IInv, Crash
    PROVE  FrontInv'
<1>1. HttpTypeOK'
  BY DEF Crash, IInv, FrontInv, HttpTypeOK, Stages
<1>2. ClientTypeOK'
  BY RetryAssumption DEF Crash, ClientTypeOK, NoCall, Calls
<1>3. crashes' \in 0..MaxCrashes
  BY FrontendAssumption DEF Crash, IInv, FrontInv
<1>4. \A r \in Requests : ~Checking(r)'
  BY DEF Crash, GiveUp, Checking, Unchecked
<1>5. ASSUME NEW r \in Requests, job'[r].pc # "new"
      PROVE  http'[r] = "done" /\ answer'[r] = Class(500)
  <2>1. r \in Jobs /\ NewJob.pc = "new"
    BY FixedParts DEF Jobs
  <2>2. ~Doing(r, "new")
    BY <1>5, <2>1 DEF Crash, JobsCrash
  <2> QED
    BY <2>2 DEF Crash, IInv, FrontInv, Way, In
<1> QED
  BY <1>1, <1>2, <1>3, <1>4, <1>5 DEF FrontInv, Way, In, Doing

LEMMA FrontStep ==
    ASSUME IInv, [Next]_vars
    PROVE  FrontInv'
<1>1. ASSUME NEW r \in Requests, Serve(r)
      PROVE  FrontInv'
  BY <1>1, ArriveStep, HitStep, PassStep, GuardAnswers, HandlerAnswers, CallSteps DEF Serve
<1>2. CASE \/ \E j \in Jobs : Track(j)
           \/ \E j \in Admins : Administer(j)
  <2>1. UNCHANGED <<httpVars, limitVars, call, crashes>>
    BY <1>2 DEF Track, Administer
  <2>2. \A r \in Requests : job[r].pc = "new" => job'[r].pc = "new"
    BY <1>2, NewStaysNew DEF IInv
  <2> QED
    BY <2>1, <2>2, JobStep DEF IInv
<1>3. CASE Tick \/ UNCHANGED vars
  <2>1. UNCHANGED <<httpVars, guard, call, job, crashes>>
    BY <1>3 DEF Tick, LimitTick, vars, limitVars, errorVars
  <2>2. HttpTypeOK' /\ ClientTypeOK' /\ crashes' \in 0..MaxCrashes
    BY <2>1 DEF IInv, FrontInv, HttpTypeOK, ClientTypeOK, httpVars
  <2>3. \A r \in Requests : Way(r)'
    BY <2>1 DEF IInv, FrontInv, Way, Checking, In, Doing, httpVars
  <2> QED
    BY <2>2, <2>3 DEF FrontInv
<1>4. CASE Crash
  BY <1>4, ProcessCrash
<1> QED
  BY <1>1, <1>2, <1>3, <1>4 DEF Next

-----------------------------------------------------------------------------
\* The invariant holds at every step.
THEOREM FrontendInvariant == Spec => []IInv
<1>1. IInv /\ [Next]_vars => IInv'
  <2> SUFFICES ASSUME IInv, [Next]_vars
               PROVE  IInv'
    OBVIOUS
  <2>1. LimitStep \/ UNCHANGED limitVars
    BY StepsOfLimit DEF vars
  <2>2. ErrorStep \/ UNCHANGED errorVars
    BY StepsOfErrors DEF vars
  <2> QED
    BY <2>1, <2>2, LimitStepKeeps, ErrorStepKeeps, FrontStep DEF IInv
<1> QED
  BY InitHolds, <1>1, PTL DEF Spec

\* Every variable keeps its type: the row counts no further than there are requests.
THEOREM TypeOKHolds == Spec => []TypeOK
<1>1. IInv => TypeOK
  BY ErrorInvImpliesTypeOK DEF IInv, LimitInv, FrontInv, TypeOK
<1> QED
  BY <1>1, FrontendInvariant, PTL

\* For every limit, window, route and number of requests: no more of them pass in a
\* window than maxAttempts (rate-limit.service.ts).
THEOREM LimitHoldsAlways == Spec => []LimitHolds
<1>1. IInv => LimitHolds
  BY LimitInvImpliesLimitHolds DEF IInv
<1> QED
  BY <1>1, FrontendInvariant, PTL

\* A window that has begun is never renewed (increment-rate-limit.provider.ts).
THEOREM WindowKeptHolds == Spec => WindowKept
<1> DEFINE Runs == \A k \in Counters : lifetime[k] \in 1..Window => lifetime'[k] <= lifetime[k]
<1>1. IInv /\ [Next]_vars => [Runs]_limitVars
  <2> SUFFICES ASSUME IInv, [Next]_vars
               PROVE  Runs \/ UNCHANGED limitVars
    OBVIOUS
  <2>1. LimitStep \/ UNCHANGED limitVars
    BY StepsOfLimit DEF vars
  <2>2. LimitStep => Runs
    BY LifetimeRunsDown DEF IInv
  <2> QED
    BY <2>1, <2>2
<1> QED
  BY <1>1, FrontendInvariant, PTL DEF Spec, WindowKept

\* However trackers, administrators and crashes interleave, a row is alerted at most
\* once (track-error.provider.ts).
THEOREM AlertOncePerRowHolds == Spec => []AlertOncePerRow
<1>1. IInv => AlertOncePerRow
  BY ErrorInvImpliesAlertOnce DEF IInv
<1> QED
  BY <1>1, FrontendInvariant, PTL

\* The row never counts more than the server's own faults (global-exception.filter.ts).
THEOREM OnlyServerFaultsCountedHolds == Spec => []OnlyServerFaultsCounted
<1>1. IInv => OnlyServerFaultsCounted
  <2> SUFFICES ASSUME IInv
               PROVE  OnlyServerFaultsCounted
    OBVIOUS
  <2> DEFINE F == {r \in Requests : answer[r] = Class(500)}
  <2>1. Past \subseteq F /\ F \subseteq Requests
    BY DEF IInv, FrontInv, Way, Doing, Past
  <2> HIDE DEF F
  <2>2. Cardinality(Past) <= Cardinality(F) /\ Cardinality(F) \in Nat
    BY <2>1, RequestsAssumption, FS_Subset, FS_CardinalityType
  <2>3. error.count \in Nat /\ error.count <= Cardinality(Past)
    BY DEF IInv, ErrorInv, RowFits, AnyRow
  <2>4. error.count <= Cardinality(F)
    BY <2>2, <2>3, PastSize
  <2> QED
    BY <2>4 DEF OnlyServerFaultsCounted, F
<1> QED
  BY <1>1, FrontendInvariant, PTL
=============================================================================
