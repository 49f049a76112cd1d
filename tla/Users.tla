--------------------------------- MODULE Users ---------------------------------
(***************************************************************************)
(* The administration of accounts: requests that create, change, archive,  *)
(* restore and remove users and upload their avatars, each step an awaited *)
(* call, beside a client that walks through the list of users.             *)
(***************************************************************************)
EXTENDS Listing

CONSTANTS
    Requests,      \* requests of administrators
    MaxUsers,      \* bound: users ever inserted
    Seeds,         \* rows of the users there are at the beginning
    Caller,        \* who sends the requests
    Targets,       \* users they are about
    Emails,        \* addresses a request may name
    Patches,       \* what an update may carry
    NoOne          \* the password of a seed, the email of no row

Ids   == 1..MaxUsers
First == 1..Len(Seeds)

ASSUME UsersAssumption ==
    /\ IsFiniteSet(Requests) /\ MaxUsers \in Nat /\ Len(Seeds) \in Ids
    /\ Caller \in First /\ Targets \subseteq Ids

VARIABLES
    users,         \* users, with what a removed row was
    lastId,        \* the sequence of the ids
    stored,        \* avatars in the bucket
    lastAvatar,    \* avatars uploaded so far: keys carry the time
    mailed,        \* requests that have mailed the password they made
    job,           \* what each request is doing
    disturbed      \* users with an upload that failed or was overwritten by a stale save

tables == <<users, lastId>>
bucket == <<stored, lastAvatar>>
vars   == <<tables, bucket, mailed, job, disturbed, listVars>>

Avatars == 0..(Len(Seeds) + Cardinality(Requests))
Rows == [there : BOOLEAN, id : Ids, email : Emails \cup {NoOne}, password : Requests \cup {NoOne},
         active : BOOLEAN, archived : BOOLEAN, avatar : Avatars]
Blank(i) == [there |-> FALSE, id |-> i, email |-> NoOne, password |-> NoOne,
             active |-> TRUE, archived |-> FALSE, avatar |-> 0]

\* Seeds have rows and avatars of their own; an update carries columns of its DTO.
ASSUME DataAssumption ==
    /\ NoOne \notin Requests
    /\ \A i \in First : /\ Seeds[i] \in Rows /\ Seeds[i].id = i
                        /\ Seeds[i].avatar \in {0, i}
    /\ \A p \in Patches : /\ DOMAIN p \subseteq {"email", "active"}
                          /\ "email" \in DOMAIN p => p.email \in Emails
                          /\ "active" \in DOMAIN p => p.active \in BOOLEAN

Ops == {"none", "create", "update", "toggle", "archive", "restore", "remove", "upload"}
Pcs == {"new", "exists", "insert", "mail", "status", "fetch", "unstore", "store",
        "find", "taken", "load", "save", "unlink", "done"}
Idle == [pc |-> "new", op |-> "none", id |-> Caller, patch |-> <<>>, row |-> Blank(Caller)]

\* The list leaves the caller out.
NotCaller == {[col |-> "id", op |-> "ne", value |-> Caller]}
List(us)  == Listed(us, NotCaller)

TypeOK ==
    /\ users \in [Ids -> Rows] /\ lastId \in Ids
    /\ stored \subseteq Avatars /\ lastAvatar \in Avatars
    /\ mailed \subseteq Requests /\ disturbed \subseteq Ids
    /\ \A r \in Requests : job[r].pc \in Pcs /\ job[r].op \in Ops /\ job[r].id \in Ids
                           /\ job[r].row \in Rows
    /\ ListTypeOK(Ids)

Init ==
    /\ users = [i \in Ids |-> IF i \in First THEN Seeds[i] ELSE Blank(i)]
    /\ lastId = Len(Seeds)
    /\ stored = {users[i].avatar : i \in First} \ {0} /\ lastAvatar = Len(Seeds)
    /\ mailed = {} /\ disturbed = {}
    /\ job = [r \in Requests |-> Idle]
    /\ ListInit(List(users))

-----------------------------------------------------------------------------
At(r, l)   == job[r].pc = l
Goto(r, l) == job' = [job EXCEPT ![r].pc = l]
User(r)    == users[job[r].id]
Halt(r)    == job' = [job EXCEPT ![r] = [Idle EXCEPT !.pc = "done"]]

Returns(r) == Halt(r) /\ UNCHANGED disturbed
Throws(r)  == /\ Halt(r)
              /\ disturbed' = IF job[r].op = "upload" THEN disturbed \cup {job[r].id} ELSE disturbed

Quiet     == UNCHANGED <<tables, bucket, mailed>>
Owned(e)  == \E i \in Ids : users[i].there /\ users[i].email = e

Begin(r, op, l, id, patch) ==
    /\ At(r, "new") /\ Quiet /\ UNCHANGED disturbed
    /\ job' = [job EXCEPT ![r] = [pc |-> l, op |-> op, id |-> id, patch |-> patch,
                                  row |-> Blank(id)]]

-----------------------------------------------------------------------------
(* create.                                                                 *)

Create(r) == \E e \in Emails : Begin(r, "create", "exists", Caller, [email |-> e])

\* The address, then the role.
Exists(r) ==
    /\ At(r, "exists") /\ Quiet
    /\ \/ ~Owned(job[r].patch.email) /\ Goto(r, "insert") /\ UNCHANGED disturbed
       \/ Throws(r)

\* Mutant of Insert: the row is not awaited.
Insert_Unawaited(r) ==
    LET e == job[r].patch.email IN
    /\ At(r, "insert") /\ lastId < MaxUsers
    /\ IF Owned(e) THEN UNCHANGED tables
       ELSE /\ lastId' = lastId + 1
            /\ users' = [users EXCEPT ![lastId + 1] = [Blank(lastId + 1) EXCEPT
                            !.there = TRUE, !.email = e, !.password = r]]
    /\ UNCHANGED disturbed /\ (Goto(r, "mail") \/ Halt(r))
    /\ UNCHANGED <<bucket, mailed>>

\* email is unique.
Insert(r) ==
    LET e == job[r].patch.email IN
    /\ At(r, "insert") /\ lastId < MaxUsers
    /\ IF Owned(e) THEN Throws(r) /\ UNCHANGED tables
       ELSE /\ lastId' = lastId + 1
            /\ users' = [users EXCEPT ![lastId + 1] = [Blank(lastId + 1) EXCEPT
                            !.there = TRUE, !.email = e, !.password = r]]
            /\ UNCHANGED disturbed /\ (Goto(r, "mail") \/ Halt(r))
    /\ UNCHANGED <<bucket, mailed>>

\* A mail that cannot be sent is skipped.
Send(r) == mailed' \in {mailed, mailed \cup {r}}

Mail(r) == At(r, "mail") /\ Send(r) /\ Returns(r) /\ UNCHANGED <<tables, bucket>>

-----------------------------------------------------------------------------
(* Changes.                                                                *)

Update(r)  == \E i \in Targets \cup {Caller}, p \in Patches : Begin(r, "update", "find", i, p)
Archive(r) == \E i \in Targets : Begin(r, "archive", "find", i, [archived |-> TRUE])
Restore(r) == \E i \in Targets : Begin(r, "restore", "find", i, [archived |-> FALSE])
RemoveUser(r)  == \E i \in Targets : Begin(r, "remove", "find", i, <<>>)
Toggle(r)  == \E i \in Targets, b \in BOOLEAN : Begin(r, "toggle", "status", i, [active |-> b])

\* Nobody deactivates or deletes themselves.
Self(r) == job[r].op \in {"toggle", "archive", "remove"} /\ job[r].id = Caller

Status(r) ==
    /\ At(r, "status") /\ Quiet
    /\ IF Self(r) \/ ~User(r).there \/ User(r).active = job[r].patch.active
       THEN Throws(r) ELSE Goto(r, "find") /\ UNCHANGED disturbed

\* Archived users are not found, but to be archived again, restored or removed.
Finds(r) ==
    /\ User(r).there
    /\ CASE job[r].op \in {"update", "toggle", "upload"} -> ~User(r).archived
         [] job[r].op = "restore"                        -> User(r).archived
         [] job[r].op \in {"archive", "remove"}          -> ~Self(r)

Renames(r) == "email" \in DOMAIN job[r].patch /\ job[r].patch.email # User(r).email

Find(r) ==
    /\ At(r, "find") /\ Quiet
    /\ IF Finds(r)
       THEN /\ Goto(r, CASE job[r].op = "remove" -> "unlink"
                         [] Renames(r)           -> "taken"
                         [] OTHER                -> "load")
            /\ UNCHANGED disturbed
       ELSE Throws(r)

Taken(r) ==
    /\ At(r, "taken") /\ Quiet
    /\ IF Owned(job[r].patch.email) THEN Throws(r) ELSE Goto(r, "load") /\ UNCHANGED disturbed

\* A row that has gone since: archive returns, what comes after the others trips over null.
Load(r) ==
    /\ At(r, "load") /\ Quiet
    /\ IF User(r).there
       THEN /\ job' = [job EXCEPT ![r].pc = "save", ![r].row = Merge(job[r].patch, User(r))]
            /\ UNCHANGED disturbed
       ELSE IF job[r].op = "archive" THEN Returns(r) ELSE Throws(r)

Conflict(row) == \E i \in Ids \ {row.id} : users[i].there /\ users[i].email = row.email

\* The row as it was loaded comes back over whatever has been saved since.
Overwrites(r) ==
    "avatar" \notin DOMAIN job[r].patch /\ (~User(r).there \/ job[r].row.avatar # User(r).avatar)

Save(r) ==
    LET row == job[r].row IN
    /\ At(r, "save") /\ UNCHANGED <<lastId, bucket, mailed>>
    /\ IF Conflict(row) THEN Throws(r) /\ UNCHANGED users
       ELSE /\ users' = [users EXCEPT ![row.id] = row]
            /\ Halt(r)
            /\ disturbed' = IF Overwrites(r) THEN disturbed \cup {row.id} ELSE disturbed

Unlink(r) ==
    /\ At(r, "unlink") /\ Returns(r)
    /\ users' = [users EXCEPT ![job[r].id].there = FALSE]
    /\ UNCHANGED <<lastId, bucket, mailed>>

-----------------------------------------------------------------------------
(* The avatar: the old one goes before the new one is there.               *)

Upload(r) == \E i \in Targets : Begin(r, "upload", "fetch", i, <<>>)

Fetch(r) ==
    /\ At(r, "fetch") /\ Quiet
    /\ IF ~User(r).there THEN Returns(r)
       ELSE /\ job' = [job EXCEPT ![r].pc = IF User(r).avatar # 0 THEN "unstore" ELSE "store",
                                  ![r].row = User(r)]
            /\ UNCHANGED disturbed

\* Mutant of Unstored: everything under the user's prefix goes.
Unstored_Prefix(r) == stored \ {n \in stored : \E q \in Requests : job[q].id = job[r].id
                                  /\ "avatar" \in DOMAIN job[q].patch /\ job[q].patch.avatar = n}

Unstored(r) == stored \ {job[r].row.avatar}

Unstore(r) ==
    /\ At(r, "unstore") /\ stored' = Unstored(r) /\ Goto(r, "store")
    /\ UNCHANGED <<tables, lastAvatar, mailed, disturbed>>

\* uploadFile: every upload has a key of its own.
Uploaded == lastAvatar' = lastAvatar + 1 /\ stored' = stored \cup {lastAvatar + 1}

Store(r) ==
    /\ At(r, "store") /\ Uploaded
    /\ job' = [job EXCEPT ![r].pc = "find", ![r].patch = [avatar |-> lastAvatar + 1]]
    /\ UNCHANGED <<tables, mailed, disturbed>>

-----------------------------------------------------------------------------
\* An awaited call fails, or the process dies.
Fails(r) == job[r].pc \notin {"new", "done"} /\ Throws(r) /\ Quiet

Step(r) ==
    \/ Create(r) \/ Exists(r) \/ Insert(r) \/ Mail(r)
    \/ Update(r) \/ Archive(r) \/ Restore(r) \/ RemoveUser(r) \/ Toggle(r)
    \/ Status(r) \/ Find(r) \/ Taken(r) \/ Load(r) \/ Save(r) \/ Unlink(r)
    \/ Upload(r) \/ Fetch(r) \/ Unstore(r) \/ Store(r)
    \/ Fails(r)

Next ==
    \/ \E r \in Requests : Step(r) /\ Observe(List(users), List(users')) /\ UNCHANGED <<walk, seen>>
    \/ /\ WalkOn(List(users)) /\ UNCHANGED <<awaited, shrunk>>
       /\ UNCHANGED <<tables, bucket, mailed, job, disturbed>>

Spec == Init /\ [][Next]_vars

-----------------------------------------------------------------------------
\* The avatar of a user is in the bucket, also when uploads for one user overlap,
\* unless an upload of it stopped on its way or a save brought an older row back
\* (upload-avatar.provider.ts).
Uploading(i) == \E r \in Requests : job[r].op = "upload" /\ job[r].id = i /\ ~At(r, "fetch")

AvatarStored ==
    \A i \in Ids : users[i].there /\ users[i].avatar # 0
                   => users[i].avatar \in stored \/ Uploading(i) \/ i \in disturbed

\* Nobody is mailed a password that opens no account: of two requests that create
\* the same address only the one whose row was inserted mails (create-user.provider.ts).
MailsOpenAccounts == \A r \in mailed : \E i \in Ids : users[i].password = r
=============================================================================
