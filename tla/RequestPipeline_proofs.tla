----------------------- MODULE RequestPipeline_proofs -----------------------
(***************************************************************************)
(* The log of a request is stored in the order it was written and once,    *)
(* for any number of requests and entries, prefetch count and deaths of    *)
(* the process, whichever ids the clients send.                            *)
(*                                                                         *)
(* The invariant follows an entry on both ways.  Without RabbitMQ, what is *)
(* stored of a request precedes what waits in the chain of writes, which   *)
(* precedes what it logs next.  With RabbitMQ, contexts and bundles are in *)
(* order, and a request with entries in the table has its row, so that a   *)
(* delivery of its bundle goes no further than that row.                   *)
(***************************************************************************)
EXTENDS RequestPipeline, SequenceTheorems, TLAPS

Rising(s)    == \A i, j \in 1..Len(s) : i < j => s[i] < s[j]
Below(s, k)  == \A i \in 1..Len(s) : s[i] <= k
Ordered(s)   == \A i, j \in 1..Len(s) : i < j /\ s[i].req = s[j].req => s[i].n < s[j].n
Before(s, t) == \A i \in 1..Len(s), j \in 1..Len(t) : s[i].req = t[j].req => s[i].n < t[j].n
Known(s, l)  == \A i \in 1..Len(s) : s[i].n <= l[s[i].req]

\* With RabbitMQ.
Collected == \A r \in Requests : /\ Rising(pending[r].system) /\ Below(pending[r].system, logged[r])
                                 /\ Rising(bundle[r].system)
StoredOnce == \A i \in 1..Len(systemLogs) :
                  LET r == systemLogs[i].req IN requestLogs[r] # "none" /\ message[r] # "system"
ByBundle  == /\ writeQueue = <<>> /\ StoredOnce
             /\ \A r \in Requests : message[r] = "system" => requestLogs[r] # "none"

\* Without it.
Chained   == /\ Before(systemLogs, writeQueue)
             /\ Known(systemLogs, logged) /\ Known(writeQueue, logged)
             /\ \A r \in Requests : message[r] = "none"

OrderInv == /\ Ordered(systemLogs) /\ Ordered(writeQueue)
            /\ Collected
            /\ rabbit => ByBundle
            /\ ~rabbit => Chained

IInv == TypeOK /\ OrderInv

-----------------------------------------------------------------------------
(* Sequences.                                                              *)

LEMMA NumbersAreNat == Numbers \subseteq Nat
BY LogAssumption DEF Numbers

\* The next number at the end of a rising sequence.
LEMMA AppendRising ==
    ASSUME NEW s \in Seq(Numbers), NEW k \in Nat, k + 1 \in Numbers, Rising(s), Below(s, k)
    PROVE  LET t == Append(s, k + 1)
           IN  t \in Seq(Numbers) /\ Rising(t) /\ Below(t, k + 1)
<1> DEFINE t == Append(s, k + 1)
<1>0. \A i \in 1..Len(s) : s[i] \in Numbers
  OBVIOUS
<1>1. \A i \in 1..Len(s) : s[i] \in Nat
  BY <1>0, NumbersAreNat
<1>2. t \in Seq(Numbers) /\ Len(t) = Len(s) + 1 /\ Len(s) \in Nat
  OBVIOUS
<1>3. \A i \in 1..Len(t) : t[i] = IF i = Len(s) + 1 THEN k + 1 ELSE s[i]
  OBVIOUS
<1> HIDE DEF t
<1>4. Rising(t)
  BY <1>1, <1>2, <1>3 DEF Rising, Below
<1>5. Below(t, k + 1)
  BY <1>1, <1>2, <1>3 DEF Below
<1> QED
  BY <1>2, <1>4, <1>5 DEF t

LEMMA EntryFacts ==
    ASSUME NEW s \in Seq(Entries)
    PROVE  /\ Len(s) \in Nat /\ DOMAIN s = 1..Len(s)
           /\ \A i \in 1..Len(s) : s[i] \in Entries /\ s[i].req \in Requests /\ s[i].n \in Nat
<1>1. \A i \in 1..Len(s) : s[i] \in Entries
  OBVIOUS
<1>2. \A e \in Entries : e.req \in Requests /\ e.n \in Nat
  BY NumbersAreNat DEF Entries
<1>3. Len(s) \in Nat /\ DOMAIN s = 1..Len(s)
  OBVIOUS
<1> QED
  BY <1>1, <1>2, <1>3

\* An entry that comes after those of its request.
LEMMA AppendOrdered ==
    ASSUME NEW s \in Seq(Entries), NEW e \in Entries, Ordered(s),
           \A i \in 1..Len(s) : s[i].req = e.req => s[i].n < e.n
    PROVE  /\ Append(s, e) \in Seq(Entries) /\ Ordered(Append(s, e))
           /\ Len(Append(s, e)) = Len(s) + 1
           /\ \A i \in 1..(Len(s) + 1) : Append(s, e)[i] = IF i = Len(s) + 1 THEN e ELSE s[i]
<1> DEFINE t == Append(s, e)
<1>1. /\ t \in Seq(Entries) /\ Len(t) = Len(s) + 1 /\ Len(s) \in Nat
      /\ \A i \in 1..(Len(s) + 1) : t[i] = IF i = Len(s) + 1 THEN e ELSE s[i]
  OBVIOUS
<1> HIDE DEF t
<1>2. Ordered(t)
  BY <1>1 DEF Ordered
<1> QED
  BY <1>1, <1>2 DEF t

\* The first entry of a queue leaves it.
LEMMA TailOrdered ==
    ASSUME NEW s \in Seq(Entries), s # <<>>, Ordered(s)
    PROVE  /\ Head(s) = s[1] /\ 1 \in 1..Len(s) /\ Head(s) \in Entries
           /\ Tail(s) \in Seq(Entries) /\ Ordered(Tail(s)) /\ Len(Tail(s)) = Len(s) - 1
           /\ \A i \in 1..Len(Tail(s)) : Tail(s)[i] = s[i + 1] /\ i + 1 \in 1..Len(s)
<1> DEFINE t == Tail(s)
<1>1. /\ Head(s) \in Entries /\ t \in Seq(Entries) /\ Len(t) = Len(s) - 1
      /\ \A i \in 1..Len(t) : t[i] = s[i + 1]
  BY HeadTailProperties
<1>2. Head(s) = s[1] /\ Len(s) \in Nat \ {0}
  BY EmptySeq
<1> HIDE DEF t
<1>3. \A i \in 1..Len(t) : i + 1 \in 1..Len(s)
  BY <1>1, <1>2
<1>4. Ordered(t)
  BY <1>1, <1>2, <1>3 DEF Ordered
<1> QED
  BY <1>1, <1>2, <1>3, <1>4 DEF t

\* Two sequences that share no request.
LEMMA ConcatOrdered ==
    ASSUME NEW s \in Seq(Entries), NEW t \in Seq(Entries), Ordered(s), Ordered(t),
           \A i \in 1..Len(s), j \in 1..Len(t) : s[i].req # t[j].req
    PROVE  /\ s \o t \in Seq(Entries) /\ Ordered(s \o t)
           /\ \A i \in 1..Len(s \o t) : \/ \E j \in 1..Len(s) : (s \o t)[i] = s[j]
                                        \/ \E j \in 1..Len(t) : (s \o t)[i] = t[j]
<1> DEFINE u == s \o t
<1>1. /\ u \in Seq(Entries) /\ Len(u) = Len(s) + Len(t) /\ Len(s) \in Nat /\ Len(t) \in Nat
      /\ \A i \in 1..Len(u) : u[i] = IF i <= Len(s) THEN s[i] ELSE t[i - Len(s)]
  BY ConcatProperties
<1> HIDE DEF u
<1>2. \A i \in 1..Len(u) : \/ i \in 1..Len(s) /\ u[i] = s[i]
                           \/ i > Len(s) /\ i - Len(s) \in 1..Len(t) /\ u[i] = t[i - Len(s)]
  BY <1>1
<1>3. Ordered(u)
  <2> SUFFICES ASSUME NEW i \in 1..Len(u), NEW j \in 1..Len(u), i < j, u[i].req = u[j].req
               PROVE  u[i].n < u[j].n
    BY DEF Ordered
  <2>1. CASE i \in 1..Len(s) /\ u[i] = s[i] /\ j \in 1..Len(s) /\ u[j] = s[j]
    BY <2>1 DEF Ordered
  <2>2. CASE i \in 1..Len(s) /\ u[i] = s[i] /\ j - Len(s) \in 1..Len(t) /\ u[j] = t[j - Len(s)]
    BY <2>2
  <2>3. CASE /\ i > Len(s) /\ i - Len(s) \in 1..Len(t) /\ u[i] = t[i - Len(s)]
             /\ j - Len(s) \in 1..Len(t) /\ u[j] = t[j - Len(s)]
    <3>1. i - Len(s) < j - Len(s)
      BY <1>1
    <3> QED
      BY <2>3, <3>1 DEF Ordered
  <2> QED
    BY <1>1, <1>2, <2>1, <2>2, <2>3
<1> QED
  BY <1>1, <1>2, <1>3 DEF u

\* The rows of a bundle.
LEMMA RowsOrdered ==
    ASSUME NEW r \in Requests, NEW ns \in Seq(Numbers), Rising(ns)
    PROVE  /\ RowsOf(r, ns) \in Seq(Entries) /\ Ordered(RowsOf(r, ns))
           /\ \A i \in 1..Len(RowsOf(r, ns)) : RowsOf(r, ns)[i].req = r
<1> DEFINE s == RowsOf(r, ns)
<1>1. DOMAIN ns = 1..Len(ns) /\ Len(ns) \in Nat /\ \A i \in 1..Len(ns) : ns[i] \in Numbers
  OBVIOUS
<1>2. \A i \in 1..Len(ns) : s[i] = [req |-> r, n |-> ns[i], log |-> r]
  BY <1>1 DEF RowsOf
<1>3. \A i \in 1..Len(ns) : s[i] \in Entries /\ s[i].req = r /\ s[i].n = ns[i]
  <2>1. \A n \in Numbers : LET e == [req |-> r, n |-> n, log |-> r]
                          IN  e \in Entries /\ e.req = r /\ e.n = n
    BY DEF Entries
  <2> HIDE DEF s
  <2> QED
    BY <1>1, <1>2, <2>1
<1>4. s \in [1..Len(ns) -> Entries]
  BY <1>1, <1>3 DEF RowsOf
<1>5. s \in Seq(Entries) /\ Len(s) = Len(ns)
  BY <1>1, <1>4
<1> HIDE DEF s
<1>6. Ordered(s)
  BY <1>3, <1>5 DEF Ordered, Rising
<1> QED
  BY <1>3, <1>5, <1>6 DEF s

-----------------------------------------------------------------------------
(* Operations of the log.                                                  *)

LogInv == LogTypeOK /\ OrderInv

LEMMA LogFacts ==
    ASSUME LogInv
    PROVE  /\ systemLogs \in Seq(Entries) /\ userLogs \in Seq(Entries) /\ writeQueue \in Seq(Entries)
           /\ logged \in [Requests -> 0..MaxEntries]
           /\ \A r \in Requests : /\ logged[r] \in Nat /\ pending[r] \in Lists /\ bundle[r] \in Lists
                                 /\ pending[r].system \in Seq(Numbers) /\ bundle[r].system \in Seq(Numbers)
                                 /\ pending[r].user \in Seq(Numbers) /\ bundle[r].user \in Seq(Numbers)
<1>1. \A l \in Lists : l.system \in Seq(Numbers) /\ l.user \in Seq(Numbers)
  BY DEF Lists
<1> QED
  BY <1>1, LogAssumption DEF LogInv, LogTypeOK

\* The entry a request logs next.
LEMMA NextEntryTyped ==
    ASSUME LogInv, NEW r \in Requests, NEW log \in Requests \cup {NoLog}, logged[r] < MaxEntries
    PROVE  /\ NextEntry(r, log) \in Entries
           /\ NextEntry(r, log).req = r /\ NextEntry(r, log).n = logged[r] + 1
           /\ logged[r] + 1 \in Numbers
<1>1. logged[r] + 1 \in Numbers
  BY LogFacts, LogAssumption DEF Numbers
<1> QED
  BY <1>1 DEF NextEntry, Entries

\* A step that leaves the tables of entries, the chain, the bundles and the
\* messages alone and logs no more than one entry.
LEMMA LoggedStep ==
    ASSUME LogInv, NEW r \in Requests, logged[r] < MaxEntries,
           logged' = [logged EXCEPT ![r] = @ + 1]
    PROVE  /\ logged' \in [Requests -> 0..MaxEntries]
           /\ logged'[r] = logged[r] + 1
           /\ \A q \in Requests : logged'[q] \in Nat /\ logged[q] <= logged'[q]
<1>1. logged[r] + 1 \in 0..MaxEntries
  BY LogFacts, LogAssumption
<1> QED
  BY <1>1, LogFacts

LEMMA KnownGrows ==
    ASSUME NEW s \in Seq(Entries), NEW l, NEW m, Known(s, l),
           \A q \in Requests : l[q] \in Nat /\ m[q] \in Nat /\ l[q] <= m[q]
    PROVE  Known(s, m)
BY EntryFacts DEF Known

LEMMA LogSystemStep ==
    ASSUME LogInv, NEW r \in Requests, NEW log \in Requests \cup {NoLog}, LogSystem(r, log)
    PROVE  LogInv'
<1>1. logged[r] < MaxEntries /\ logged' = [logged EXCEPT ![r] = @ + 1]
  BY DEF LogSystem
<1>2. UNCHANGED <<rabbit, id, requestLogs, systemLogs, userLogs, userWrites, updates, bundle, message>>
  BY DEF LogSystem, logTables, broker
<1>3. /\ logged' \in [Requests -> 0..MaxEntries] /\ logged'[r] = logged[r] + 1
      /\ \A q \in Requests : logged'[q] \in Nat /\ logged[q] <= logged'[q]
      /\ \A q \in Requests \ {r} : logged'[q] = logged[q]
  BY <1>1, LoggedStep, LogFacts
<1>4. CASE rabbit
  <2>1. pending' = [pending EXCEPT ![r].system = Append(@, logged[r] + 1)] /\ writeQueue' = writeQueue
    BY <1>4 DEF LogSystem
  <2> DEFINE t == Append(pending[r].system, logged[r] + 1)
  <2>2. t \in Seq(Numbers) /\ Rising(t) /\ Below(t, logged[r] + 1)
    BY <1>1, LogFacts, NextEntryTyped, AppendRising DEF LogInv, OrderInv, Collected
  <2>3. /\ pending' \in [Requests -> Lists] /\ pending'[r].system = t
        /\ \A q \in Requests \ {r} : pending'[q] = pending[q]
    BY <2>1, <2>2, LogFacts DEF LogInv, LogTypeOK, Lists
  <2> HIDE DEF t
  <2>4. Collected'
    BY <1>2, <1>3, <2>2, <2>3 DEF LogInv, OrderInv, Collected
  <2>5. LogTypeOK'
    BY <1>2, <1>3, <2>1, <2>3 DEF LogInv, LogTypeOK
  <2>6. OrderInv'
    BY <1>2, <1>4, <2>1, <2>4 DEF LogInv, OrderInv, ByBundle, StoredOnce
  <2> QED
    BY <2>5, <2>6 DEF LogInv
<1>5. CASE ~rabbit
  <2> DEFINE e == NextEntry(r, log)
  <2>1. writeQueue' = Append(writeQueue, e) /\ pending' = pending
    BY <1>5 DEF LogSystem
  <2>2. e \in Entries /\ e.req = r /\ e.n = logged[r] + 1
    BY <1>1, NextEntryTyped
  <2> HIDE DEF e
  <2>3. Ordered(writeQueue) /\ Known(writeQueue, logged) /\ Known(systemLogs, logged) /\ Before(systemLogs, writeQueue)
    BY <1>5 DEF LogInv, OrderInv, Chained
  <2>4. \A i \in 1..Len(writeQueue) : writeQueue[i].req = r => writeQueue[i].n < logged[r] + 1
    BY <2>3, LogFacts, EntryFacts DEF Known
  <2>5. \A i \in 1..Len(systemLogs) : systemLogs[i].req = r => systemLogs[i].n < logged[r] + 1
    BY <2>3, LogFacts, EntryFacts DEF Known
  <2>6. /\ writeQueue' \in Seq(Entries) /\ Ordered(writeQueue)' /\ Len(writeQueue') = Len(writeQueue) + 1
        /\ \A i \in 1..(Len(writeQueue) + 1) :
              writeQueue'[i] = IF i = Len(writeQueue) + 1 THEN e ELSE writeQueue[i]
    BY <2>1, <2>2, <2>3, <2>4, LogFacts, AppendOrdered DEF Ordered
  <2>7. Known(writeQueue, logged) /\ Known(writeQueue, logged') /\ Known(systemLogs, logged')
    BY <1>3, <2>3, LogFacts, KnownGrows
  <2> DEFINE n == Len(writeQueue)
  <2>a. n \in Nat /\ Len(systemLogs) \in Nat
    BY LogFacts, EntryFacts
  <2>b. \A i \in 1..(n + 1) : i = n + 1 \/ i \in 1..n
    BY <2>a
  <2>8. Known(writeQueue, logged)'
    <3>1. \A i \in 1..n : writeQueue[i].n <= logged'[writeQueue[i].req]
      BY <2>7 DEF Known
    <3>2. e.n <= logged'[e.req]
      BY <1>3, <2>2, LogFacts
    <3>3. \A i \in 1..(n + 1) : writeQueue'[i].n <= logged'[writeQueue'[i].req]
      BY <2>b, <2>6, <3>1, <3>2, <2>a
    <3> QED
      BY <2>6, <3>3 DEF Known
  <2>9. Before(systemLogs, writeQueue)'
    <3>1. ASSUME NEW i \in 1..Len(systemLogs), NEW j \in 1..(n + 1),
                 systemLogs[i].req = writeQueue'[j].req
          PROVE  systemLogs[i].n < writeQueue'[j].n
      <4>1. CASE j = n + 1
        BY <4>1, <3>1, <2>2, <2>5, <2>6
      <4>2. CASE j \in 1..n
        BY <4>2, <3>1, <2>3, <2>6, <2>a DEF Before
      <4> QED
        BY <4>1, <4>2, <2>b
    <3> QED
      BY <1>2, <2>6, <3>1 DEF Before
  <2>10. Chained'
    BY <1>2, <1>5, <2>7, <2>8, <2>9 DEF LogInv, OrderInv, Chained, Known
  <2>11. Collected'
    <3>1. \A q \in Requests : Below(pending[q].system, logged[q]) => Below(pending[q].system, logged'[q])
      <4> SUFFICES ASSUME NEW q \in Requests, Below(pending[q].system, logged[q]),
                          NEW i \in 1..Len(pending[q].system)
                   PROVE  pending[q].system[i] <= logged'[q]
        BY DEF Below
      <4>1. pending[q].system[i] \in Numbers
        BY LogFacts, ElementOfSeq
      <4>2. pending[q].system[i] \in Nat /\ pending[q].system[i] <= logged[q]
        BY <4>1, NumbersAreNat DEF Below
      <4> QED
        BY <4>2, <1>3, LogFacts
    <3> QED
      BY <1>2, <2>1, <3>1 DEF LogInv, OrderInv, Collected
  <2>12. LogTypeOK'
    BY <1>2, <1>3, <2>1, <2>6 DEF LogInv, LogTypeOK
  <2>13. Ordered(systemLogs)'
    BY <1>2 DEF LogInv, OrderInv, Ordered
  <2> QED
    BY <1>2, <1>5, <2>6, <2>10, <2>11, <2>12, <2>13 DEF LogInv, OrderInv
<1> QED
  BY <1>4, <1>5

\* A step that leaves entries, contexts and the mode alone.
LEMMA QuietStep ==
    ASSUME LogInv, UNCHANGED <<rabbit, logged, pending, systemLogs, writeQueue>>,
           \A r \in Requests : Rising(bundle[r].system)',
           \A r \in Requests : requestLogs[r] # "none" => requestLogs'[r] # "none",
           \A r \in Requests : message'[r] = "system" /\ message[r] # "system" =>
                                   requestLogs[r] = "none" /\ requestLogs'[r] # "none",
           ~rabbit => message' = message
    PROVE  OrderInv'
<1>1. Collected'
  BY DEF LogInv, OrderInv, Collected
<1>2. ASSUME rabbit PROVE ByBundle'
  <2>1. ByBundle
    BY <1>2 DEF LogInv, OrderInv
  <2>2. \A i \in 1..Len(systemLogs) : systemLogs[i].req \in Requests
    BY LogFacts, EntryFacts
  <2> QED
    BY <2>1, <2>2 DEF ByBundle, StoredOnce
<1>3. ASSUME ~rabbit PROVE Chained'
  BY <1>3 DEF LogInv, OrderInv, Chained, Before, Known
<1> QED
  BY <1>1, <1>2, <1>3 DEF LogInv, OrderInv, Ordered

LEMMA RisingBundles == LogInv => \A r \in Requests : Rising(bundle[r].system) /\ Rising(pending[r].system)
BY DEF LogInv, OrderInv, Collected

LEMMA LogUserStep ==
    ASSUME LogInv, NEW r \in Requests, NEW log \in Requests \cup {NoLog}, LogUser(r, log)
    PROVE  LogInv'
<1>1. logged[r] < MaxEntries /\ logged' = [logged EXCEPT ![r] = @ + 1]
  BY DEF LogUser
<1>2. UNCHANGED <<rabbit, id, requestLogs, systemLogs, userLogs, writeQueue, updates, bundle, message>>
  BY DEF LogUser, logTables, broker
<1>3. /\ logged' \in [Requests -> 0..MaxEntries]
      /\ \A q \in Requests : logged'[q] \in Nat /\ logged[q] <= logged'[q]
  BY <1>1, LoggedStep
<1>4. /\ pending' \in [Requests -> Lists] /\ userWrites' \subseteq Entries
      /\ \A q \in Requests : pending'[q].system = pending[q].system
  <2>1. CASE rabbit
    <3>1. pending' = [pending EXCEPT ![r].user = Append(@, logged[r] + 1)] /\ userWrites' = userWrites
      BY <2>1 DEF LogUser
    <3>2. Append(pending[r].user, logged[r] + 1) \in Seq(Numbers)
      BY <1>1, LogFacts, NextEntryTyped
    <3>3. userWrites \subseteq Entries
      BY DEF LogInv, LogTypeOK
    <3>4. pending \in [Requests -> Lists]
      BY DEF LogInv, LogTypeOK
    <3> QED
      BY <3>1, <3>2, <3>3, <3>4, LogFacts DEF Lists
  <2>2. CASE ~rabbit
    BY <2>2, <1>1, NextEntryTyped DEF LogUser, LogInv, LogTypeOK
  <2> QED
    BY <2>1, <2>2
<1>5. LogTypeOK'
  BY <1>2, <1>3, <1>4 DEF LogInv, LogTypeOK
<1>6. Collected'
  <2> SUFFICES ASSUME NEW q \in Requests
               PROVE  Below(pending[q].system, logged'[q])
    BY <1>2, <1>4, RisingBundles DEF Collected
  <2>1. Below(pending[q].system, logged[q])
    BY DEF LogInv, OrderInv, Collected
  <2> SUFFICES ASSUME NEW i \in 1..Len(pending[q].system)
               PROVE  pending[q].system[i] <= logged'[q]
    BY DEF Below
  <2>2. pending[q].system[i] \in Numbers
    BY LogFacts, ElementOfSeq
  <2>3. pending[q].system[i] \in Nat /\ pending[q].system[i] <= logged[q]
    BY <2>1, <2>2, NumbersAreNat DEF Below
  <2> QED
    BY <2>3, <1>3, LogFacts
<1>7. ASSUME ~rabbit PROVE Chained'
  <2>1. Known(systemLogs, logged) /\ Known(writeQueue, logged)
    BY <1>7 DEF LogInv, OrderInv, Chained
  <2>2. Known(systemLogs, logged') /\ Known(writeQueue, logged')
    BY <2>1, <1>3, LogFacts, KnownGrows
  <2> QED
    BY <1>2, <1>7, <2>2 DEF LogInv, OrderInv, Chained, Known, Before
<1>8. OrderInv'
  BY <1>2, <1>6, <1>7 DEF LogInv, OrderInv, Ordered, ByBundle, StoredOnce
<1> QED
  BY <1>5, <1>8 DEF LogInv

\* The chain of writes: its first entry is stored, or its write fails.
LEMMA WriteSystemStep == ASSUME LogInv, WriteSystem PROVE LogInv'
<1> DEFINE e == Head(writeQueue)
<1>1. UNCHANGED <<rabbit, id, requestLogs, userLogs, logged, pending, userWrites, updates, bundle, message>>
  BY DEF WriteSystem, broker
<1>2. /\ writeQueue # <<>> /\ writeQueue' = Tail(writeQueue)
      /\ systemLogs' = systemLogs \/ systemLogs' = Append(systemLogs, e)
  BY DEF WriteSystem
<1>3. ~rabbit
  BY <1>2 DEF LogInv, OrderInv, ByBundle
<1>4. /\ Ordered(systemLogs) /\ Ordered(writeQueue) /\ Chained
  BY <1>3 DEF LogInv, OrderInv
<1>5. /\ e = writeQueue[1] /\ 1 \in 1..Len(writeQueue) /\ e \in Entries
      /\ writeQueue' \in Seq(Entries) /\ Ordered(writeQueue)' /\ Len(writeQueue') = Len(writeQueue) - 1
      /\ \A i \in 1..Len(writeQueue') : writeQueue'[i] = writeQueue[i + 1] /\ i + 1 \in 1..Len(writeQueue)
  BY <1>2, <1>4, LogFacts, TailOrdered DEF Ordered
<1> HIDE DEF e
<1>6. \A i \in 1..Len(systemLogs) : systemLogs[i].req = e.req => systemLogs[i].n < e.n
  BY <1>4, <1>5 DEF Chained, Before
<1>7. \A i \in 1..Len(writeQueue') : e.req = writeQueue'[i].req => e.n < writeQueue'[i].n
  <2> SUFFICES ASSUME NEW i \in 1..Len(writeQueue'), e.req = writeQueue'[i].req
               PROVE  e.n < writeQueue'[i].n
    OBVIOUS
  <2>1. 1 < i + 1
    BY <1>5, EntryFacts
  <2> QED
    BY <1>4, <1>5, <2>1 DEF Ordered
<1>8. Before(systemLogs, writeQueue')
  BY <1>4, <1>5 DEF Chained, Before
<1>9. Known(writeQueue', logged) /\ e.n <= logged[e.req] /\ Known(systemLogs, logged)
  BY <1>4, <1>5 DEF Chained, Known
<1>10. /\ systemLogs' \in Seq(Entries) /\ Ordered(systemLogs')
       /\ Before(systemLogs', writeQueue') /\ Known(systemLogs', logged)
  <2>1. CASE systemLogs' = systemLogs
    BY <2>1, <1>4, <1>8, <1>9, LogFacts
  <2>2. CASE systemLogs' = Append(systemLogs, e)
    <3>1. /\ systemLogs' \in Seq(Entries) /\ Ordered(systemLogs')
          /\ Len(systemLogs') = Len(systemLogs) + 1
          /\ \A i \in 1..(Len(systemLogs) + 1) :
                systemLogs'[i] = IF i = Len(systemLogs) + 1 THEN e ELSE systemLogs[i]
      BY <2>2, <1>4, <1>5, <1>6, LogFacts, AppendOrdered
    <3>2. \A i \in 1..Len(systemLogs') :
             systemLogs'[i] = e \/ \E j \in 1..Len(systemLogs) : systemLogs'[i] = systemLogs[j]
      BY <3>1, LogFacts, EntryFacts
    <3>3. Before(systemLogs', writeQueue')
      BY <3>2, <1>7, <1>8 DEF Before
    <3>4. Known(systemLogs', logged)
      BY <3>2, <1>9 DEF Known
    <3> QED
      BY <3>1, <3>3, <3>4
  <2> QED
    BY <1>2, <2>1, <2>2
<1>11. LogTypeOK'
  BY <1>1, <1>5, <1>10 DEF LogInv, LogTypeOK
<1>12. Chained'
  BY <1>1, <1>4, <1>9, <1>10 DEF Chained, Known, Before
<1>13. Collected'
  BY <1>1 DEF LogInv, OrderInv, Collected
<1> QED
  BY <1>1, <1>3, <1>5, <1>10, <1>11, <1>12, <1>13 DEF LogInv, OrderInv, Ordered

LEMMA WriteUserStep == ASSUME LogInv, WriteUser PROVE LogInv'
<1>1. PICK e \in userWrites : /\ userWrites' = userWrites \ {e}
                              /\ userLogs' = userLogs \/ userLogs' = Append(userLogs, e)
  BY DEF WriteUser
<1>2. UNCHANGED <<rabbit, id, requestLogs, systemLogs, logged, pending, writeQueue, updates, bundle, message>>
  BY DEF WriteUser, broker
<1>3. e \in Entries /\ userLogs \in Seq(Entries) /\ userWrites' \subseteq Entries
  BY <1>1 DEF LogInv, LogTypeOK
<1>4. userLogs' \in Seq(Entries)
  BY <1>1, <1>3
<1>5. LogTypeOK'
  BY <1>2, <1>3, <1>4 DEF LogInv, LogTypeOK
<1>6. OrderInv'
  BY <1>2, RisingBundles, QuietStep
<1> QED
  BY <1>5, <1>6 DEF LogInv

LEMMA RowSteps ==
    ASSUME LogInv, NEW r \in Requests,
           \/ \E ok \in BOOLEAN : SafeCreate(r, ok)
           \/ SafeUpdate(r) \/ WriteUpdate
    PROVE  LogInv'
<1>1. /\ UNCHANGED <<rabbit, id, systemLogs, userLogs, logged, pending, writeQueue, userWrites, bundle, message>>
      /\ updates' \subseteq Requests
      /\ requestLogs' \in [Requests -> {"none", "open", "closed"}]
      /\ \A q \in Requests : requestLogs[q] # "none" => requestLogs'[q] # "none"
  <2>1. requestLogs \in [Requests -> {"none", "open", "closed"}] /\ updates \subseteq Requests
    BY DEF LogInv, LogTypeOK
  <2>2. CASE \E ok \in BOOLEAN : SafeCreate(r, ok)
    BY <2>1, <2>2 DEF SafeCreate, inProcess, broker
  <2>3. CASE SafeUpdate(r)
    BY <2>1, <2>3 DEF SafeUpdate, logTables, broker
  <2>4. CASE WriteUpdate
    BY <2>1, <2>4 DEF WriteUpdate, broker
  <2> QED
    BY <2>2, <2>3, <2>4
<1>2. LogTypeOK'
  BY <1>1 DEF LogInv, LogTypeOK
<1>3. OrderInv'
  BY <1>1, RisingBundles, QuietStep
<1> QED
  BY <1>2, <1>3 DEF LogInv

LEMMA SafePublishStep == ASSUME LogInv, rabbit, NEW r \in Requests, SafePublish(r) PROVE LogInv'
<1>1. /\ UNCHANGED <<rabbit, id, logTables, inProcess>>
      /\ bundle' = [bundle EXCEPT ![r] = pending[r]]
      /\ \E m \in {"ready", "gone"} : message' = [message EXCEPT ![r] = m]
  BY DEF SafePublish
<1>2. /\ bundle \in [Requests -> Lists] /\ pending[r] \in Lists
      /\ message \in [Requests -> {"none", "ready", "gone"} \cup Handled]
  BY LogFacts DEF LogInv, LogTypeOK
<1>3. /\ bundle' \in [Requests -> Lists] /\ message' \in [Requests -> {"none", "ready", "gone"} \cup Handled]
      /\ \A q \in Requests : message'[q] = "system" => message[q] = "system"
      /\ \A q \in Requests : bundle'[q] = bundle[q] \/ bundle'[q] = pending[q]
  BY <1>1, <1>2
<1>4. \A q \in Requests : Rising(bundle[q].system)'
  BY <1>3, RisingBundles DEF Rising
<1>5. LogTypeOK'
  BY <1>1, <1>3 DEF LogInv, LogTypeOK, logTables, inProcess
<1>6. OrderInv'
  BY <1>1, <1>3, <1>4, QuietStep DEF logTables, inProcess
<1> QED
  BY <1>5, <1>6 DEF LogInv

\* Without RabbitMQ nothing is delivered.
LEMMA OnlyWithRabbit ==
    ASSUME LogInv, NEW r \in Requests, message[r] # "none" PROVE rabbit
BY DEF LogInv, OrderInv, Chained

\* A delivery: the row of the request, its system entries, its user entries, the ack.
LEMMA PassTyped ==
    ASSUME LogInv, NEW r \in Requests, NEW m \in Handled \cup {"gone"}, Pass(r, m)
    PROVE  /\ message' \in [Requests -> {"none", "ready", "gone"} \cup Handled]
           /\ message'[r] = m /\ \A q \in Requests \ {r} : message'[q] = message[q]
BY DEF LogInv, LogTypeOK, Pass

LEMMA ConsumeRequestStep == ASSUME LogInv, NEW r \in Requests, ConsumeRequest(r) PROVE LogInv'
<1>1. /\ UNCHANGED <<rabbit, id, systemLogs, userLogs, inProcess, bundle>> /\ message[r] = "ready"
      /\ \/ ~Inserted(id[r]) /\ requestLogs' = [requestLogs EXCEPT ![r] = "closed"] /\ Pass(r, "system")
         \/ Pass(r, "ack") /\ requestLogs' = requestLogs
  BY DEF ConsumeRequest, Delivered
<1>2. rabbit
  BY <1>1, OnlyWithRabbit
<1>3. requestLogs \in [Requests -> {"none", "open", "closed"}]
  BY DEF LogInv, LogTypeOK
<1>4. \/ /\ requestLogs[r] = "none" /\ requestLogs' = [requestLogs EXCEPT ![r] = "closed"] /\ Pass(r, "system")
      \/ Pass(r, "ack") /\ requestLogs' = requestLogs
  BY <1>1 DEF Inserted
<1>5. /\ message' \in [Requests -> {"none", "ready", "gone"} \cup Handled]
      /\ requestLogs' \in [Requests -> {"none", "open", "closed"}]
      /\ \A q \in Requests : requestLogs[q] # "none" => requestLogs'[q] # "none"
      /\ \A q \in Requests : message'[q] = "system" /\ message[q] # "system" =>
                               requestLogs[q] = "none" /\ requestLogs'[q] # "none"
  <2>1. CASE Pass(r, "ack") /\ requestLogs' = requestLogs
    BY <2>1, <1>3, PassTyped DEF Handled
  <2>2. CASE /\ requestLogs[r] = "none" /\ requestLogs' = [requestLogs EXCEPT ![r] = "closed"]
             /\ Pass(r, "system")
    BY <2>2, <1>3, PassTyped DEF Handled
  <2> QED
    BY <1>4, <2>1, <2>2
<1>6. LogTypeOK'
  BY <1>1, <1>5 DEF LogInv, LogTypeOK, inProcess
<1>7. OrderInv'
  BY <1>1, <1>2, <1>5, RisingBundles, QuietStep DEF inProcess
<1> QED
  BY <1>6, <1>7 DEF LogInv

\* What a step of a delivery after the insert of the row leaves alone.
LEMMA LaterStep ==
    ASSUME LogInv, NEW r \in Requests, NEW m \in Handled \cup {"gone"}, m # "system", Pass(r, m),
           message[r] # "none", userLogs' \in Seq(Entries),
           UNCHANGED <<rabbit, id, requestLogs, systemLogs, inProcess, bundle>>
    PROVE  LogInv'
<1>1. rabbit
  BY OnlyWithRabbit
<1>2. LogTypeOK'
  BY PassTyped DEF LogInv, LogTypeOK, inProcess
<1>3. \A q \in Requests : message'[q] = "system" => message[q] = "system"
  BY PassTyped
<1>4. OrderInv'
  BY <1>1, <1>3, RisingBundles, QuietStep DEF inProcess
<1> QED
  BY <1>2, <1>4 DEF LogInv

LEMMA ConsumeSystemStep == ASSUME LogInv, NEW r \in Requests, ConsumeSystem(r) PROVE LogInv'
<1>1. /\ UNCHANGED <<rabbit, id, requestLogs, userLogs, inProcess, bundle>> /\ message[r] = "system"
      /\ \/ systemLogs' = systemLogs \o RowsOf(r, bundle[r].system) /\ Pass(r, "user")
         \/ Pass(r, "ack") /\ systemLogs' = systemLogs
  BY DEF ConsumeSystem
<1>2. rabbit /\ ByBundle /\ Ordered(systemLogs)
  BY <1>1, OnlyWithRabbit DEF LogInv, OrderInv
<1>3. CASE Pass(r, "ack") /\ systemLogs' = systemLogs
  BY <1>1, <1>3, LaterStep, LogFacts DEF Handled
<1>4. CASE systemLogs' = systemLogs \o RowsOf(r, bundle[r].system) /\ Pass(r, "user")
  <2> DEFINE t == RowsOf(r, bundle[r].system)
  <2>1. t \in Seq(Entries) /\ Ordered(t) /\ \A i \in 1..Len(t) : t[i].req = r
    BY LogFacts, RisingBundles, RowsOrdered
  <2> HIDE DEF t
  <2>2. \A i \in 1..Len(systemLogs) : systemLogs[i].req # r
    BY <1>1, <1>2 DEF ByBundle, StoredOnce
  <2>3. /\ systemLogs' \in Seq(Entries) /\ Ordered(systemLogs')
        /\ \A i \in 1..Len(systemLogs') : \/ \E j \in 1..Len(systemLogs) : systemLogs'[i] = systemLogs[j]
                                          \/ \E j \in 1..Len(t) : systemLogs'[i] = t[j]
    <3>1. \A i \in 1..Len(systemLogs), j \in 1..Len(t) : systemLogs[i].req # t[j].req
      BY <2>1, <2>2
    <3>2. systemLogs' = systemLogs \o t
      BY <1>4 DEF t
    <3> QED
      BY <1>2, <2>1, <3>1, <3>2, LogFacts, ConcatOrdered
  <2>4. /\ message' \in [Requests -> {"none", "ready", "gone"} \cup Handled]
        /\ message'[r] = "user" /\ \A q \in Requests \ {r} : message'[q] = message[q]
    BY <1>4, PassTyped DEF Handled
  <2>5. StoredOnce'
    <3>1. requestLogs[r] # "none" /\ message'[r] # "system"
      BY <1>1, <1>2, <2>4 DEF ByBundle
    <3>2. \A i \in 1..Len(systemLogs) :
             requestLogs[systemLogs[i].req] # "none" /\ message'[systemLogs[i].req] # "system"
      BY <1>2, <2>4, <3>1, LogFacts, EntryFacts DEF ByBundle, StoredOnce
    <3>3. \A i \in 1..Len(systemLogs') :
             requestLogs[systemLogs'[i].req] # "none" /\ message'[systemLogs'[i].req] # "system"
      BY <2>1, <2>3, <3>1, <3>2
    <3> QED
      BY <1>1, <3>3 DEF StoredOnce
  <2>6. ByBundle'
    BY <1>1, <1>2, <2>4, <2>5 DEF ByBundle, inProcess
  <2>7. Collected'
    BY <1>1 DEF LogInv, OrderInv, Collected, inProcess
  <2>8. LogTypeOK'
    BY <1>1, <2>3, <2>4 DEF LogInv, LogTypeOK, inProcess
  <2>9. Ordered(writeQueue)'
    BY <1>1 DEF LogInv, OrderInv, Ordered, inProcess
  <2> QED
    BY <1>1, <1>2, <2>3, <2>6, <2>7, <2>8, <2>9 DEF LogInv, OrderInv, Ordered
<1> QED
  BY <1>1, <1>3, <1>4

LEMMA ConsumeUserStep == ASSUME LogInv, NEW r \in Requests, ConsumeUser(r) PROVE LogInv'
<1>1. RowsOf(r, bundle[r].user) \in Seq(Entries)
  <2> DEFINE ns == bundle[r].user
             s  == RowsOf(r, ns)
  <2>1. ns \in Seq(Numbers)
    BY LogFacts
  <2> HIDE DEF ns
  <2>2. DOMAIN ns = 1..Len(ns) /\ Len(ns) \in Nat /\ \A i \in 1..Len(ns) : ns[i] \in Numbers
    BY <2>1
  <2>3. \A n \in Numbers : [req |-> r, n |-> n, log |-> r] \in Entries
    BY DEF Entries
  <2>4. s \in [1..Len(ns) -> Entries]
    BY <2>2, <2>3 DEF RowsOf
  <2> QED
    BY <2>2, <2>4 DEF ns
<1>2. userLogs' \in Seq(Entries)
  <2>1. userLogs' = userLogs \/ userLogs' = userLogs \o RowsOf(r, bundle[r].user)
    BY DEF ConsumeUser
  <2> QED
    BY <2>1, <1>1, LogFacts, ConcatProperties
<1> QED
  BY <1>2, LaterStep DEF ConsumeUser, Handled

LEMMA AckStep == ASSUME LogInv, NEW r \in Requests, Ack(r) PROVE LogInv'
BY LogFacts, LaterStep DEF Ack, Handled, logTables

LEMMA LogCrashStep == ASSUME LogInv, LogCrash PROVE LogInv'
<1>1. /\ writeQueue' = <<>> /\ userWrites' = {} /\ updates' = {}
      /\ message' = [r \in Requests |-> IF message[r] \in Handled THEN "ready" ELSE message[r]]
      /\ UNCHANGED <<rabbit, id, requestLogs, systemLogs, userLogs, logged, pending, bundle>>
  BY DEF LogCrash, logTables
<1>2. /\ message' \in [Requests -> {"none", "ready", "gone"} \cup Handled]
      /\ \A r \in Requests : message'[r] # "system" /\ (message[r] = "none" => message'[r] = "none")
  BY <1>1 DEF LogInv, LogTypeOK, Handled
<1>3. writeQueue' \in Seq(Entries) /\ Len(writeQueue') = 0
  BY <1>1
<1>4. LogTypeOK'
  BY <1>1, <1>2, <1>3 DEF LogInv, LogTypeOK
<1>5. Ordered(writeQueue)' /\ Before(systemLogs, writeQueue)' /\ Known(writeQueue, logged)'
  BY <1>3 DEF Ordered, Before, Known
<1>6. ASSUME rabbit PROVE ByBundle'
  <2>1. \A i \in 1..Len(systemLogs) : systemLogs[i].req \in Requests
    BY LogFacts, EntryFacts
  <2> QED
    BY <1>1, <1>2, <1>6, <2>1 DEF LogInv, OrderInv, ByBundle, StoredOnce
<1>7. ASSUME ~rabbit PROVE Chained'
  BY <1>1, <1>2, <1>5, <1>7 DEF LogInv, OrderInv, Chained, Known
<1>8. OrderInv'
  BY <1>1, <1>5, <1>6, <1>7 DEF LogInv, OrderInv, Ordered, Collected
<1> QED
  BY <1>4, <1>8 DEF LogInv

-----------------------------------------------------------------------------
(* The pipeline.                                                           *)

LEMMA InitHolds == Init => IInv
<1> SUFFICES ASSUME Init PROVE IInv
  OBVIOUS
<1> USE DEF Init
<1>1. Empty \in Lists /\ Len(Empty.system) = 0
  BY DEF Empty, Lists
<1>2. /\ pending \in [Requests -> Lists] /\ bundle \in [Requests -> Lists]
      /\ \A r \in Requests : pending[r] = Empty /\ bundle[r] = Empty
  BY <1>1 DEF LogInit
<1>3. Collected
  BY <1>1, <1>2 DEF Collected, Rising, Below
<1>4. LogTypeOK
  BY <1>2, LogAssumption DEF LogInit, LogTypeOK
<1>5. TypeOK
  BY <1>4, PipelineAssumption DEF TypeOK, Stages
<1>6. Len(systemLogs) = 0 /\ Len(writeQueue) = 0 /\ \A r \in Requests : message[r] = "none"
  BY DEF LogInit
<1>7. /\ Ordered(systemLogs) /\ Ordered(writeQueue) /\ StoredOnce /\ Before(systemLogs, writeQueue)
      /\ Known(systemLogs, logged) /\ Known(writeQueue, logged)
  BY <1>6 DEF Ordered, StoredOnce, Before, Known
<1> QED
  BY <1>3, <1>5, <1>6, <1>7 DEF IInv, OrderInv, ByBundle, Chained, LogInit

LEMMA Stutter == ASSUME LogInv, UNCHANGED logVars PROVE LogInv'
BY DEF LogInv, logVars, logTables, inProcess, broker, LogTypeOK, OrderInv, Collected,
       ByBundle, StoredOnce, Chained, Before, Known, Ordered

\* What a request logs in its context.
LEMMA RequestStep == ASSUME LogInv, NEW r \in Requests, Request(r) PROVE LogInv'
<1>1. CASE GuardLogs(r)
  BY <1>1, LogSystemStep DEF GuardLogs
<1>2. CASE GuardsPass(r)
  BY <1>2, Stutter DEF GuardsPass
<1>3. CASE GuardsReject(r)
  BY <1>3, Stutter DEF GuardsReject
<1>4. CASE InsertRequestLog(r)
  BY <1>4, RowSteps DEF InsertRequestLog
<1>5. CASE HandlerLogs(r)
  <2>1. LogOf(r) \in Requests \cup {NoLog}
    BY DEF LogOf
  <2> QED
    BY <1>5, <2>1, LogSystemStep, LogUserStep DEF HandlerLogs
<1>6. CASE Respond(r)
  BY <1>6, SafePublishStep, RowSteps DEF Respond
<1>7. CASE TrackerLogs(r)
  BY <1>7, LogSystemStep DEF TrackerLogs
<1> QED
  BY <1>1, <1>2, <1>3, <1>4, <1>5, <1>6, <1>7 DEF Request

LEMMA LogStep == LogInv /\ [Next]_vars => LogInv'
<1> SUFFICES ASSUME LogInv, [Next]_vars PROVE LogInv'
  OBVIOUS
<1>1. ASSUME NEW r \in Requests, Request(r) PROVE LogInv'
  BY <1>1, RequestStep
<1>2. CASE Write
  <2>1. CASE WriteUpdate
    <3>1. PICK r \in updates : TRUE
      BY <2>1 DEF WriteUpdate
    <3>2. r \in Requests
      BY DEF LogInv, LogTypeOK
    <3> QED
      BY <2>1, <3>2, RowSteps
  <2> QED
    BY <1>2, <2>1, WriteSystemStep, WriteUserStep DEF Write
<1>3. CASE Consumer
  BY <1>3, ConsumeRequestStep, ConsumeSystemStep, ConsumeUserStep, AckStep DEF Consumer, Consume
<1>4. CASE Crash
  BY <1>4, LogCrashStep DEF Crash
<1>5. CASE UNCHANGED vars
  BY <1>5, Stutter DEF vars
<1> QED
  BY <1>1, <1>2, <1>3, <1>4, <1>5 DEF Next

\* The stages of requests and the count of deaths keep their types.
LEMMA StageStep == TypeOK /\ [Next]_vars => http' \in [Requests -> Stages] /\ crashes' \in 0..MaxCrashes
<1> SUFFICES ASSUME TypeOK, [Next]_vars
             PROVE  http' \in [Requests -> Stages] /\ crashes' \in 0..MaxCrashes
  OBVIOUS
<1>1. http \in [Requests -> Stages] /\ crashes \in 0..MaxCrashes
  BY DEF TypeOK
<1>2. ASSUME NEW r \in Requests, NEW l \in Stages, Move(r, l)
      PROVE  http' \in [Requests -> Stages] /\ crashes' \in 0..MaxCrashes
  BY <1>1, <1>2 DEF Move
<1>3. CASE Stay
  BY <1>1, <1>3 DEF Stay
<1>4. ASSUME NEW r \in Requests, Request(r)
      PROVE  Stay \/ \E l \in Stages : Move(r, l)
  BY <1>4 DEF Request, GuardLogs, GuardsPass, GuardsReject, InsertRequestLog, HandlerLogs,
              Respond, TrackerLogs, Caught, Stages
<1>5. CASE Crash
  BY <1>1, <1>5, PipelineAssumption DEF Crash, Stages
<1>6. CASE UNCHANGED vars
  BY <1>1, <1>6 DEF vars
<1> QED
  BY <1>2, <1>3, <1>4, <1>5, <1>6 DEF Next, Write, Consumer

\* The invariant holds at every step.
THEOREM PipelineInvariant == Spec => []IInv
<1>1. IInv /\ [Next]_vars => IInv'
  BY LogStep, StageStep DEF IInv, LogInv, TypeOK
<1> QED
  BY InitHolds, <1>1, PTL DEF Spec

\* Every variable of the log and of the requests keeps its type.
THEOREM TypeOKHolds == Spec => []TypeOK
<1>1. IInv => TypeOK
  BY DEF IInv
<1> QED
  BY <1>1, PipelineInvariant, PTL

\* The rows of a request are stored in the order it logged them, and none of
\* them twice (log-bundle.consumer.ts, log-system-activity.provider.ts).
THEOREM SystemLogsInOrderHolds == Spec => []SystemLogsInOrder
<1>1. IInv => SystemLogsInOrder
  <2> SUFFICES ASSUME IInv PROVE SystemLogsInOrder
    OBVIOUS
  <2>1. Ordered(systemLogs) /\ DOMAIN systemLogs = 1..Len(systemLogs)
    BY EntryFacts DEF IInv, OrderInv, TypeOK, LogTypeOK
  <2> QED
    BY <2>1 DEF SystemLogsInOrder, Ordered
<1> QED
  BY <1>1, PipelineInvariant, PTL
=============================================================================
