----------------------------- MODULE ActivityLog -----------------------------
(***************************************************************************)
(* The log of requests.  With RabbitMQ a request collects its entries in   *)
(* its context and publishes them as one bundle, which a consumer stores.  *)
(* Without it, the request's row is inserted before the handler runs and   *)
(* each entry is written beside it: system entries one after the other     *)
(* through a chain of promises, user entries as they come.                 *)
(*                                                                         *)
(* Entry n of a request is the n-th it logged.                             *)
(***************************************************************************)
EXTENDS Naturals, FiniteSets, Sequences, SequencesExt

CONSTANTS
    Requests,     \* HTTP requests
    Ids,          \* which X-Request-Id each request may carry
    MaxEntries,   \* bound: entries of a request
    Prefetch,     \* prefetchCount: deliveries that are not acknowledged yet
    NoLog         \* request_log_id is null

ASSUME LogAssumption == /\ MaxEntries \in Nat /\ Prefetch \in Nat \ {0}
                        /\ NoLog \notin Requests /\ IsFiniteSet(Requests)

VARIABLES
    rabbit,       \* ENABLE_RABBITMQ
    id,           \* requestId of each request
    logged,       \* entries each request has logged
    pending,      \* pendingSystemLogs and pendingUserLogs of each context
    requestLogs,  \* request_logs: the row of each request, its status code filled in or not
    systemLogs, userLogs,   \* system_activity_logs and user_activity_logs, in the order of their ids
    writeQueue,   \* the chain of system entries to write
    userWrites,   \* user entries being written
    updates,      \* request_logs rows being updated
    bundle,       \* what each request published
    message       \* where its message is

logTables  == <<requestLogs, systemLogs, userLogs>>
inProcess  == <<logged, pending, writeQueue, userWrites, updates>>
broker     == <<bundle, message>>
logVars    == <<rabbit, id, logTables, inProcess, broker>>

Numbers == 1..MaxEntries
Entries == [req : Requests, n : Numbers, log : Requests \cup {NoLog}]
Lists   == [system : Seq(Numbers), user : Seq(Numbers)]
Empty   == [system |-> <<>>, user |-> <<>>]
Handled == {"system", "user", "ack"}     \* delivered, by what comes next

LogTypeOK ==
    /\ rabbit \in BOOLEAN /\ id \in Ids
    /\ logged \in [Requests -> 0..MaxEntries]
    /\ pending \in [Requests -> Lists] /\ bundle \in [Requests -> Lists]
    /\ requestLogs \in [Requests -> {"none", "open", "closed"}]
    /\ systemLogs \in Seq(Entries) /\ userLogs \in Seq(Entries)
    /\ writeQueue \in Seq(Entries) /\ userWrites \subseteq Entries /\ updates \subseteq Requests
    /\ message \in [Requests -> {"none", "ready", "gone"} \cup Handled]

LogInit ==
    /\ rabbit \in BOOLEAN /\ id \in Ids
    /\ logged = [r \in Requests |-> 0]
    /\ pending = [r \in Requests |-> Empty] /\ bundle = pending
    /\ requestLogs = [r \in Requests |-> "none"] /\ systemLogs = <<>> /\ userLogs = <<>>
    /\ writeQueue = <<>> /\ userWrites = {} /\ updates = {}
    /\ message = [r \in Requests |-> "none"]

\* request_id is unique.
Inserted(i) == \E r \in Requests : requestLogs[r] # "none" /\ id[r] = i

-----------------------------------------------------------------------------
(* Entries.                                                                *)

NextEntry(r, log) == [req |-> r, n |-> logged[r] + 1, log |-> log]

\* A decorated method has returned or thrown.
LogSystem(r, log) ==
    /\ logged[r] < MaxEntries /\ logged' = [logged EXCEPT ![r] = @ + 1]
    /\ IF rabbit
       THEN /\ pending' = [pending EXCEPT ![r].system = Append(@, logged[r] + 1)]
            /\ UNCHANGED writeQueue
       ELSE /\ writeQueue' = Append(writeQueue, NextEntry(r, log))
            /\ UNCHANGED pending
    /\ UNCHANGED <<rabbit, id, logTables, userWrites, updates, broker>>

LogUser(r, log) ==
    /\ logged[r] < MaxEntries /\ logged' = [logged EXCEPT ![r] = @ + 1]
    /\ IF rabbit
       THEN /\ pending' = [pending EXCEPT ![r].user = Append(@, logged[r] + 1)]
            /\ UNCHANGED userWrites
       ELSE /\ userWrites' = userWrites \cup {NextEntry(r, log)}
            /\ UNCHANGED pending
    /\ UNCHANGED <<rabbit, id, logTables, writeQueue, updates, broker>>

\* Mutant of WriteSystem: every entry is written as it comes.
WriteSystem_Unchained ==
    \E i \in DOMAIN writeQueue :
        /\ writeQueue' = RemoveAt(writeQueue, i)
        /\ systemLogs' \in {systemLogs, Append(systemLogs, writeQueue[i])}
        /\ UNCHANGED <<rabbit, id, requestLogs, userLogs, logged, pending, userWrites, updates, broker>>

\* A write that fails does not break the chain.
WriteSystem ==
    /\ writeQueue # <<>> /\ writeQueue' = Tail(writeQueue)
    /\ systemLogs' \in {systemLogs, Append(systemLogs, Head(writeQueue))}
    /\ UNCHANGED <<rabbit, id, requestLogs, userLogs, logged, pending, userWrites, updates, broker>>

WriteUser ==
    \E e \in userWrites :
        /\ userWrites' = userWrites \ {e}
        /\ userLogs' \in {userLogs, Append(userLogs, e)}
        /\ UNCHANGED <<rabbit, id, requestLogs, systemLogs, logged, pending, writeQueue, updates, broker>>

-----------------------------------------------------------------------------
(* RequestLogInterceptor.                                                  *)

\* The insert before the handler, with its outcome: no row if the id is taken.
SafeCreate(r, ok) ==
    /\ ok => ~Inserted(id[r])
    /\ requestLogs' = IF ok THEN [requestLogs EXCEPT ![r] = "open"] ELSE requestLogs
    /\ UNCHANGED <<rabbit, id, systemLogs, userLogs, inProcess, broker>>

\* The update after it, which nobody waits for.
SafeUpdate(r) ==
    /\ updates' = IF requestLogs[r] = "open" THEN updates \cup {r} ELSE updates
    /\ UNCHANGED <<rabbit, id, logTables, logged, pending, writeQueue, userWrites, broker>>

WriteUpdate ==
    \E r \in updates :
        /\ updates' = updates \ {r}
        /\ requestLogs' \in {requestLogs, [requestLogs EXCEPT ![r] = "closed"]}
        /\ UNCHANGED <<rabbit, id, systemLogs, userLogs, logged, pending, writeQueue, userWrites, broker>>

\* A copy of what was logged so far reaches the broker, or the emit fails.
SafePublish(r) ==
    /\ bundle' = [bundle EXCEPT ![r] = pending[r]]
    /\ \E m \in {"ready", "gone"} : message' = [message EXCEPT ![r] = m]
    /\ UNCHANGED <<rabbit, id, logTables, inProcess>>

-----------------------------------------------------------------------------
(* LogBundleConsumer.                                                      *)

RowsOf(r, ns) == [i \in DOMAIN ns |-> [req |-> r, n |-> ns[i], log |-> r]]
Pass(r, m)  == message' = [message EXCEPT ![r] = m]

\* A message is delivered while there is room, and the request's row inserted.
Delivered(r) == /\ message[r] = "ready"
                /\ Cardinality({q \in Requests : message[q] \in Handled}) < Prefetch

\* Mutant of ConsumeRequest: a failed delivery is not acknowledged.
ConsumeRequest_NoAck(r) ==
    /\ Delivered(r)
    /\ \/ ~Inserted(id[r]) /\ requestLogs' = [requestLogs EXCEPT ![r] = "closed"] /\ Pass(r, "system")
       \/ Inserted(id[r]) /\ Pass(r, "failed") /\ UNCHANGED requestLogs
    /\ UNCHANGED <<rabbit, id, systemLogs, userLogs, inProcess, bundle>>

\* Whatever fails, the message is acknowledged: also when the bundle was
\* delivered before and its row is there.
ConsumeRequest(r) ==
    /\ Delivered(r)
    /\ \/ ~Inserted(id[r]) /\ requestLogs' = [requestLogs EXCEPT ![r] = "closed"] /\ Pass(r, "system")
       \/ Pass(r, "ack") /\ UNCHANGED requestLogs
    /\ UNCHANGED <<rabbit, id, systemLogs, userLogs, inProcess, bundle>>

\* One transaction stores all entries of a kind.
ConsumeSystem(r) ==
    /\ message[r] = "system"
    /\ \/ systemLogs' = systemLogs \o RowsOf(r, bundle[r].system) /\ Pass(r, "user")
       \/ Pass(r, "ack") /\ UNCHANGED systemLogs
    /\ UNCHANGED <<rabbit, id, requestLogs, userLogs, inProcess, bundle>>

ConsumeUser(r) ==
    /\ message[r] = "user"
    /\ userLogs' \in {userLogs, userLogs \o RowsOf(r, bundle[r].user)}
    /\ Pass(r, "ack")
    /\ UNCHANGED <<rabbit, id, requestLogs, systemLogs, inProcess, bundle>>

Ack(r) ==
    /\ message[r] = "ack" /\ Pass(r, "gone")
    /\ UNCHANGED <<rabbit, id, logTables, inProcess, bundle>>

Consume == \E r \in Requests : ConsumeRequest(r) \/ ConsumeSystem(r) \/ ConsumeUser(r) \/ Ack(r)

\* The process dies: the broker delivers again what was not acknowledged.
LogCrash ==
    /\ writeQueue' = <<>> /\ userWrites' = {} /\ updates' = {}
    /\ message' = [r \in Requests |-> IF message[r] \in Handled THEN "ready" ELSE message[r]]
    /\ UNCHANGED <<rabbit, id, logTables, logged, pending, bundle>>

-----------------------------------------------------------------------------
\* "IDs reflect the sequence in which providers ran during the request": the rows
\* of a request are stored in the order they were logged, and none is stored
\* twice, also when a bundle is delivered again (log-bundle.consumer.ts,
\* log-system-activity.provider.ts).
SystemLogsInOrder ==
    \A i, j \in DOMAIN systemLogs :
        i < j /\ systemLogs[i].req = systemLogs[j].req => systemLogs[i].n < systemLogs[j].n

\* "Logging errors must not stall the queue": every bundle the broker has is
\* acknowledged in the end (log-bundle.consumer.ts).
QueueDrains == \A r \in Requests : message[r] = "ready" ~> message[r] = "gone"
=============================================================================
