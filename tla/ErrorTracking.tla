---------------------------- MODULE ErrorTracking ----------------------------
(***************************************************************************)
(* The server_errors row of ONE fingerprint, under the 500s that count it, *)
(* the alert mail of the first of them and the administrators' endpoints.  *)
(*                                                                         *)
(* Only the counting is one statement.  The stamp of the alert and an      *)
(* administrator's status load the row, merge and save it, like every      *)
(* update of the repository.                                               *)
(***************************************************************************)
EXTENDS Http

CONSTANT Admins       \* administrators' requests

ASSUME TrackingAssumption == Requests \cap Admins = {}

VARIABLES
    isProd,       \* whether alerts are sent at all
    error,        \* the row
    inserts,      \* rows inserted so far: the id of the last
    job,          \* what each tracker and each administrator's request is doing
    alerts        \* alert mails sent

errorVars == <<isProd, error, inserts, job, alerts>>

Jobs    == Requests \cup Admins
Counted == 0..Cardinality(Requests)
Stati   == {"pending", "resolved"}

Rows  == [id : Counted, count : Counted, status : Stati, mailed : BOOLEAN]
NoRow == [id |-> 0, count |-> 0, status |-> "pending", mailed |-> FALSE]

Patches == [status : Stati] \cup [mailed : {TRUE}]
Merge(patch, r) == [c \in DOMAIN r |-> IF c \in DOMAIN patch THEN patch[c] ELSE r[c]]
Stamp == [mailed |-> TRUE]

Pcs == {"new", "upsert", "alert", "find", "save", "remove", "done"}

NewJob == [pc |-> "new", id |-> 0, patch |-> Stamp, seen |-> NoRow]

ErrorTypeOK ==
    /\ isProd \in BOOLEAN /\ error \in Rows /\ inserts \in Counted /\ alerts \in Counted
    /\ job \in [Jobs -> [pc : Pcs, id : Counted, patch : Patches, seen : Rows]]

ErrorInit ==
    /\ isProd \in BOOLEAN /\ error = NoRow /\ inserts = 0 /\ alerts = 0
    /\ job = [j \in Jobs |-> NewJob]

Doing(j, l) == job[j].pc = l
Do(j, l)    == job' = [job EXCEPT ![j].pc = l]
Finish(j)   == job' = [job EXCEPT ![j] = [NewJob EXCEPT !.pc = "done"]]

-----------------------------------------------------------------------------
(* A 5xx.                                                                  *)

TrackStart(j) == Doing(j, "new") /\ Do(j, "upsert") /\ UNCHANGED <<isProd, error, inserts, alerts>>

FirstRow(id) == [id |-> id, count |-> 1, status |-> "pending", mailed |-> FALSE]

\* Mutant of Upserted: the conflict writes the columns of the insert.
Upserted_Reset(r) == IF r.id = 0 THEN FirstRow(inserts + 1) ELSE [r EXCEPT !.count = 1]

\* INSERT ... ON CONFLICT (fingerprint) DO UPDATE, which leaves the status alone.
Upserted(r) == IF r.id = 0 THEN FirstRow(inserts + 1) ELSE [r EXCEPT !.count = r.count + 1]

\* A count of one is a new fingerprint.
TrackUpsert(j) ==
    /\ Doing(j, "upsert")
    /\ error' = Upserted(error)
    /\ inserts' = IF error.id = 0 THEN inserts + 1 ELSE inserts
    /\ IF error'.count = 1 /\ isProd THEN Do(j, "alert") ELSE Finish(j)
    /\ UNCHANGED <<isProd, alerts>>

\* The stamp follows whether the mail left or not: without a support inbox there
\* is none, and the mail service swallows what fails.
TrackAlert(j) ==
    /\ Doing(j, "alert")
    /\ alerts' \in {alerts, alerts + 1}
    /\ Do(j, "find")
    /\ UNCHANGED <<isProd, error, inserts>>

-----------------------------------------------------------------------------
(* Updates.  A tracker names the row by its fingerprint, an administrator  *)
(* by its id.                                                              *)

Names(j) == error.id # 0 /\ (j \in Admins => job[j].id = error.id)

AdminStart(j, l, patch) ==
    /\ Doing(j, "new")
    /\ \E id \in 1..inserts :
          job' = [job EXCEPT ![j] = [pc |-> l, id |-> id, patch |-> patch, seen |-> NoRow]]
    /\ UNCHANGED <<isProd, error, inserts, alerts>>

UpdateStatus(j) == \E s \in Stati : AdminStart(j, "find", [status |-> s])
RemoveError(j)  == AdminStart(j, "remove", Stamp)

JobFind(j) ==
    /\ Doing(j, "find")
    /\ IF Names(j) THEN job' = [job EXCEPT ![j] = [@ EXCEPT !.pc = "save", !.seen = error]]
       ELSE Finish(j)
    /\ UNCHANGED <<isProd, error, inserts, alerts>>

\* The save writes every column.  It inserts a row that is gone again, unless
\* the fingerprint has a row with another id by now.
JobSave(j) ==
    LET seen == job[j].seen IN
    /\ Doing(j, "save")
    /\ error' = IF error.id \in {0, seen.id} THEN Merge(job[j].patch, seen) ELSE error
    /\ Finish(j)
    /\ UNCHANGED <<isProd, inserts, alerts>>

JobRemove(j) ==
    /\ Doing(j, "remove")
    /\ error' = IF Names(j) THEN NoRow ELSE error
    /\ Finish(j)
    /\ UNCHANGED <<isProd, inserts, alerts>>

\* An awaited call throws: the tracker swallows it, the administrator gets it.
JobFails(j) ==
    /\ job[j].pc \notin {"new", "done"}
    /\ Finish(j)
    /\ UNCHANGED <<isProd, error, inserts, alerts>>

\* The process dies.
JobsCrash ==
    /\ job' = [j \in Jobs |-> IF Doing(j, "new") THEN NewJob ELSE [NewJob EXCEPT !.pc = "done"]]
    /\ UNCHANGED <<isProd, error, inserts, alerts>>

-----------------------------------------------------------------------------
\* Every row that is inserted is alerted once at most: a count that a stale save
\* set back or a row that it inserted again is not taken for a new fingerprint
\* (track-error.provider.ts).
AlertOncePerRow == alerts <= inserts
=============================================================================
