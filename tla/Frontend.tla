------------------------------- MODULE Frontend -------------------------------
(***************************************************************************)
(* A request from the guards of its route to its answer: the rate limit,   *)
(* the handler with its database and the services it calls, and the        *)
(* exception filter, which makes an answer of whatever was thrown and      *)
(* hands the server's own faults to the tracker.                           *)
(***************************************************************************)
EXTENDS RateLimit, HttpClient, ErrorTracking, DatabaseErrors

CONSTANTS
    Failures,      \* errors of the database
    MaxCrashes     \* bound: times the process dies

ASSUME FrontendAssumption == Failures \subseteq Errors /\ MaxCrashes \in Nat

VARIABLE crashes   \* times the process has died

vars == <<httpVars, limitVars, call, errorVars, crashes>>

TypeOK ==
    HttpTypeOK /\ LimitTypeOK /\ ClientTypeOK /\ ErrorTypeOK /\ crashes \in 0..MaxCrashes

Init == HttpInit /\ LimitInit /\ ClientInit /\ ErrorInit /\ crashes = 0

-----------------------------------------------------------------------------
(* The answer.                                                             *)

\* Mutant of Tracks: what is logged is tracked.
Tracks_Logged(status) == status = 408 \/ status >= 500

Tracks(status) == status >= 500

\* The tracker, which nobody waits for, counts the fault in this row or in the
\* row of another fingerprint.
Answer(r, status) ==
    /\ http' = [http EXCEPT ![r] = "done"] /\ answer' = [answer EXCEPT ![r] = Class(status)]
    /\ \/ Tracks(status) /\ TrackStart(r)
       \/ UNCHANGED errorVars
    /\ UNCHANGED crashes

-----------------------------------------------------------------------------
(* Guards.                                                                 *)

Calm == UNCHANGED <<call, errorVars, crashes>>

\* The guards of the application let the request through to those of its route.
Arrive(r) ==
    /\ In(r, "new")
    /\ \E keys \in Identifiers :
          StartChecks(r, keys) /\ Move(r, IF keys = <<>> THEN "handler" ELSE "guard")
    /\ Calm

TurnAway(r) == In(r, "new") /\ Answer(r, 401) /\ UNCHANGED <<limitVars, call>>

Hit(r) == Incr(r) /\ Calm /\ UNCHANGED httpVars

Pass(r) ==
    /\ Admits(r) /\ Calm
    /\ IF Tail(guard[r].todo) = <<>> THEN Move(r, "handler") ELSE UNCHANGED httpVars

TooMany(r) == Refuses(r) /\ Answer(r, 429) /\ UNCHANGED call

\* What Redis throws is no HttpException.
RedisFails(r) == CommandFails(r) /\ Answer(r, 500) /\ UNCHANGED call

-----------------------------------------------------------------------------
(* The handler.                                                            *)

\* It returns, refuses, lets an error of the database through handle or throws.
Outcomes == {200, 404, 500} \cup {StatusOf(e) : e \in Failures}

Respond(r) ==
    /\ In(r, "handler")
    /\ \E status \in Outcomes : Answer(r, status)
    /\ UNCHANGED <<limitVars, call>>

CallOut(r) ==
    /\ In(r, "handler") /\ Move(r, "calling")
    /\ \E timed, up \in BOOLEAN : StartCall(r, timed, up)
    /\ UNCHANGED <<limitVars, errorVars, crashes>>

CallAgain(r) ==
    /\ In(r, "calling") /\ Retry(r)
    /\ UNCHANGED <<httpVars, limitVars, errorVars, crashes>>

\* HIBP lets a password pass that it could not check; the handler goes on.
PasswordChecked(r, success) ==
    /\ call[r].timed
    /\ \E status \in Outcomes \cup {s \in {422} : success} : Answer(r, status)

\* Queues that nobody answers for are not found.
QueuesRead(r, success) ==
    /\ ~call[r].timed
    /\ \E status \in {404} \cup {s \in {200, 500} : success} : Answer(r, status)

CallReturns(r) ==
    /\ In(r, "calling") /\ CallEnds(r)
    /\ \E success \in BOOLEAN :
          /\ IF success THEN call[r].up ELSE ~MayRetry(r)
          /\ PasswordChecked(r, success) \/ QueuesRead(r, success)
    /\ UNCHANGED limitVars

-----------------------------------------------------------------------------
Serve(r) ==
    \/ Arrive(r) \/ TurnAway(r)
    \/ Hit(r) \/ Pass(r) \/ TooMany(r) \/ RedisFails(r)
    \/ Respond(r) \/ CallOut(r) \/ CallAgain(r) \/ CallReturns(r)

Track(j) ==
    /\ TrackUpsert(j) \/ TrackAlert(j) \/ JobFind(j) \/ JobSave(j) \/ JobRemove(j) \/ JobFails(j)
    /\ UNCHANGED <<httpVars, limitVars, call, crashes>>

Administer(j) ==
    /\ UpdateStatus(j) \/ RemoveError(j)
    /\ UNCHANGED <<httpVars, limitVars, call, crashes>>

Tick == LimitTick /\ UNCHANGED <<httpVars, call, errorVars, crashes>>

\* Redis and the database keep what they have.
Crash ==
    /\ crashes < MaxCrashes /\ crashes' = crashes + 1
    /\ http' = [r \in Requests |-> IF http[r] \in {"new", "done"} THEN http[r] ELSE "lost"]
    /\ call' = [r \in Requests |-> NoCall]
    /\ GiveUp(Requests) /\ JobsCrash
    /\ UNCHANGED answer

Next ==
    \/ \E r \in Requests : Serve(r)
    \/ \E j \in Jobs : Track(j)
    \/ \E j \in Admins : Administer(j)
    \/ Tick \/ Crash

Spec == Init /\ [][Next]_vars

\* A call without a timeout may wait for ever.
Hangs(r) == In(r, "calling") /\ ~call[r].timed

Fairness ==
    /\ WF_vars(Tick)
    /\ \A r \in Requests : WF_vars(~In(r, "new") /\ ~Hangs(r) /\ Serve(r))

FairSpec == Spec /\ Fairness

-----------------------------------------------------------------------------
\* The tracker counts the server's faults only: no more occurrences than answers of
\* 500 and above, whatever administrators do to the row and however their saves
\* interleave with the trackers' (global-exception.filter.ts, track-error.provider.ts).
OnlyServerFaultsCounted ==
    error.count <= Cardinality({r \in Requests : answer[r] = Class(500)})

\* Every request that was let in is answered, unless the process dies or it waits for
\* a service that was called without a timeout: a failing Redis, database or service
\* makes an answer of its own (http.service.ts, global-exception.filter.ts).
EveryRequestAnswered ==
    <>[](\A r \in Requests : answer[r] # 0 \/ http[r] \in {"new", "lost"} \/ Hangs(r))
=============================================================================
