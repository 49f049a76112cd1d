--------------------------- MODULE RequestPipeline ---------------------------
(***************************************************************************)
(* A request on its way through the application: the context opened by the *)
(* middleware, the guards, RequestLogInterceptor, the handler and the      *)
(* exception filter, which answers a 500 and tracks it behind its back.    *)
(* ActivityLog has the state and the operations of the log.                *)
(***************************************************************************)
EXTENDS ActivityLog

CONSTANT MaxCrashes    \* bound: times the process dies

ASSUME PipelineAssumption == MaxCrashes \in Nat

VARIABLES
    http,       \* where each request is
    crashes     \* times the process has died

vars == <<logVars, http, crashes>>

Stages == {"guards", "insert", "handler", "failed", "done"}

TypeOK ==
    LogTypeOK /\ http \in [Requests -> Stages] /\ crashes \in 0..MaxCrashes

Init == LogInit /\ http = [r \in Requests |-> "guards"] /\ crashes = 0

In(r, l)   == http[r] = l
Move(r, l) == http' = [http EXCEPT ![r] = l] /\ UNCHANGED crashes
Stay       == UNCHANGED <<http, crashes>>

-----------------------------------------------------------------------------
\* What the guards call runs in the middleware's context, which has no log id.
GuardLogs(r) == In(r, "guards") /\ LogSystem(r, NoLog) /\ Stay

\* With RabbitMQ the handler runs at once.
GuardsPass(r) ==
    In(r, "guards") /\ Move(r, IF rabbit THEN "handler" ELSE "insert") /\ UNCHANGED logVars

\* The exception filter answers; a 500 it hands to the tracker.
Caught(r) == Move(r, "done") \/ Move(r, "failed")

\* The interceptors have not run: nothing is published.
GuardsReject(r) == In(r, "guards") /\ Caught(r) /\ UNCHANGED logVars

\* The handler runs whether the row could be inserted or not.
InsertRequestLog(r) ==
    In(r, "insert") /\ Move(r, "handler") /\ \E ok \in BOOLEAN : SafeCreate(r, ok)

\* requestLogId of the handler's context.
LogOf(r) == IF requestLogs[r] = "open" THEN r ELSE NoLog

HandlerLogs(r) ==
    /\ In(r, "handler") /\ Stay
    /\ LogSystem(r, LogOf(r)) \/ LogUser(r, LogOf(r))

\* The handler has returned or thrown.
Respond(r) ==
    /\ In(r, "handler") /\ Caught(r)
    /\ IF rabbit THEN SafePublish(r) ELSE SafeUpdate(r)

\* The tracker, which nobody waits for, is decorated: it logs, in the context of
\* the middleware, what no bundle takes along any more.
TrackerLogs(r) == In(r, "failed") /\ LogSystem(r, NoLog) /\ Stay

-----------------------------------------------------------------------------
Request(r) ==
    \/ GuardLogs(r) \/ GuardsPass(r) \/ GuardsReject(r)
    \/ InsertRequestLog(r) \/ HandlerLogs(r) \/ Respond(r) \/ TrackerLogs(r)

\* Writes nobody waits for.
Write == (WriteSystem \/ WriteUser \/ WriteUpdate) /\ Stay

Consumer == Consume /\ Stay

\* Requests that come after the restart are the ones that have done nothing yet.
Crash ==
    /\ crashes < MaxCrashes /\ crashes' = crashes + 1
    /\ http' = [r \in Requests |-> IF In(r, "guards") /\ logged[r] = 0 THEN "guards" ELSE "done"]
    /\ LogCrash

Next == (\E r \in Requests : Request(r)) \/ Write \/ Consumer \/ Crash

Spec == Init /\ [][Next]_vars

\* The broker delivers and the event loop runs the consumer on.
FairSpec == Spec /\ WF_vars(Consumer)
=============================================================================
