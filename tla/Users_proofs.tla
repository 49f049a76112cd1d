------------------------------ MODULE Users_proofs ------------------------------
(***************************************************************************)
(* What administrators cannot lose: a password that was mailed opens an    *)
(* account, and the avatar a row names is in the bucket.                   *)
(*                                                                         *)
(* Rows are copied into requests and written back long after.  Three facts *)
(* make that harmless to the two properties: a copy keeps the password of  *)
(* its row, which never changes; every avatar belongs to one user, in rows *)
(* and in copies; and the avatar an upload has stored is in no row and no  *)
(* copy but its own until it saves.                                        *)
(*                                                                         *)
(* The walk is about places: a row stands behind as many rows as are newer,*)
(* which only grows while no row leaves the list, so what a client has not *)
(* been shown stays behind the pages it has read (WalkInv).                *)
(***************************************************************************)
EXTENDS Users, FiniteSetTheorems, TLAPS

AnyRow == [there : BOOLEAN, id : Ids, email : Emails \cup {NoOne}, password : Requests \cup {NoOne},
           active : BOOLEAN, archived : BOOLEAN, avatar : Nat]

\* What a request writes: nothing, columns of a DTO, or an avatar.
AnyPatch(p) ==
    /\ DOMAIN p \subseteq {"email", "active", "archived", "avatar"}
    /\ "email" \in DOMAIN p => p.email \in Emails
    /\ "active" \in DOMAIN p => p.active \in BOOLEAN
    /\ "archived" \in DOMAIN p => p.archived \in BOOLEAN
    /\ "avatar" \in DOMAIN p => DOMAIN p = {"avatar"} /\ p.avatar \in Nat

Minted(j) == "avatar" \in DOMAIN j.patch

\* A job on its own.
JobFits(j) ==
    /\ j.pc \in Pcs /\ j.op \in Ops /\ j.id \in Ids
    /\ j.row \in AnyRow /\ j.row.id = j.id /\ AnyPatch(j.patch)
    /\ Minted(j) => j.op = "upload" /\ j.pc \in {"find", "load", "save"}
    /\ j.op = "upload" => \/ j.pc \in {"fetch", "unstore", "store"} /\ ~Minted(j)
                          \/ j.pc \in {"find", "load", "save"} /\ Minted(j)
    /\ j.pc \in {"fetch", "unstore", "store"} => j.op = "upload"
    /\ IF j.op = "create" THEN "email" \in DOMAIN j.patch
                          ELSE j.pc \notin {"exists", "insert", "mail"}

Typing ==
    /\ users \in [Ids -> AnyRow] /\ lastId \in Ids
    /\ \A i \in Ids : users[i].id = i
    /\ lastAvatar \in Nat /\ mailed \subseteq Requests
    /\ DOMAIN job = Requests /\ \A r \in Requests : JobFits(job[r])

\* Passwords stay with their rows; rows come in the order of their ids.
PasswordInv ==
    /\ \A i \in Ids : i > lastId => ~users[i].there /\ users[i].password = NoOne
    /\ \A r \in Requests : At(r, "save") =>
          job[r].id <= lastId /\ job[r].row.password = users[job[r].id].password
    /\ \A r \in Requests : At(r, "mail") => \E i \in Ids : users[i].password = r

\* Who has an avatar: the row of a user, a copy of it, an upload for the user.
Has(i, n) ==
    \/ users[i].avatar = n
    \/ \E r \in Requests : job[r].id = i /\ job[r].row.avatar = n
    \/ \E r \in Requests : job[r].id = i /\ Minted(job[r]) /\ job[r].patch.avatar = n

OwnerInv ==
    \A n \in Nat \ {0} : /\ \A i \in Ids : Has(i, n) => n <= lastAvatar
                         /\ \A i, k \in Ids : Has(i, n) /\ Has(k, n) => i = k

\* The avatar of an upload that has not saved yet.
FreshInv ==
    \A r \in Requests : Minted(job[r]) =>
        LET n == job[r].patch.avatar IN
        /\ n # 0 /\ n \in stored
        /\ \A i \in Ids : users[i].avatar # n
        /\ \A q \in Requests : job[q].row.avatar = n => q = r
        /\ \A q \in Requests \ {r} : Minted(job[q]) => job[q].patch.avatar # n
        /\ At(r, "save") => job[r].row.avatar = n

IInv == Typing /\ PasswordInv /\ OwnerInv /\ FreshInv /\ MailsOpenAccounts /\ AvatarStored

-----------------------------------------------------------------------------
(* Rows, patches and jobs.                                                 *)

LEMMA BlankParts ==
    ASSUME NEW i \in Ids
    PROVE  Blank(i) \in AnyRow /\ Blank(i).id = i /\ Blank(i).avatar = 0 /\ Blank(i).password = NoOne
BY DEF Blank, AnyRow

LEMMA MergeParts ==
    ASSUME NEW p, AnyPatch(p), NEW row \in AnyRow
    PROVE  /\ Merge(p, row) \in AnyRow
           /\ Merge(p, row).id = row.id /\ Merge(p, row).password = row.password
           /\ Merge(p, row).avatar = IF "avatar" \in DOMAIN p THEN p.avatar ELSE row.avatar
<1> DEFINE m == Merge(p, row)
<1>1. DOMAIN row = {"there", "id", "email", "password", "active", "archived", "avatar"}
  BY DEF AnyRow
<1>2. m = [there |-> row.there, id |-> row.id,
           email |-> IF "email" \in DOMAIN p THEN p.email ELSE row.email,
           password |-> row.password,
           active |-> IF "active" \in DOMAIN p THEN p.active ELSE row.active,
           archived |-> IF "archived" \in DOMAIN p THEN p.archived ELSE row.archived,
           avatar |-> IF "avatar" \in DOMAIN p THEN p.avatar ELSE row.avatar]
  <2>1. {"there", "id", "password"} \cap DOMAIN p = {}
    BY DEF AnyPatch
  <2> QED
    BY <1>1, <2>1 DEF Merge
<1> HIDE DEF m
<1>3. /\ row.there \in BOOLEAN /\ row.id \in Ids /\ row.email \in Emails \cup {NoOne}
      /\ row.password \in Requests \cup {NoOne}
      /\ row.active \in BOOLEAN /\ row.archived \in BOOLEAN /\ row.avatar \in Nat
  BY DEF AnyRow
<1>4. m \in AnyRow
  BY <1>2, <1>3 DEF AnyRow, AnyPatch
<1> QED
  BY <1>2, <1>4 DEF m

\* A request that has ended holds nothing.
Ended == [Idle EXCEPT !.pc = "done"]

LEMMA IdleParts ==
    /\ JobFits(Idle) /\ JobFits(Ended) /\ Idle.pc = "new" /\ Ended.pc = "done"
    /\ ~Minted(Idle) /\ ~Minted(Ended) /\ Idle.row.avatar = 0 /\ Ended.row.avatar = 0
    /\ Idle.op = "none" /\ Ended.op = "none"
<1>1. Caller \in Ids
  BY UsersAssumption DEF First, Ids
<1>2. DOMAIN <<>> = {}
  OBVIOUS
<1> QED
  BY <1>1, <1>2, BlankParts DEF Idle, Ended, JobFits, Minted, AnyPatch, Pcs, Ops

LEMMA JobParts ==
    ASSUME Typing, NEW r \in Requests
    PROVE  /\ JobFits(job[r]) /\ job[r].id \in Ids /\ job[r].row \in AnyRow /\ AnyPatch(job[r].patch)
           /\ job[r].row.id = job[r].id
           /\ User(r) \in AnyRow /\ User(r).id = job[r].id
BY DEF Typing, JobFits, User

-----------------------------------------------------------------------------
(* Steps that write neither a row nor an object.                           *)

\* What becomes of a job: it copies its row, keeps what it has, or gives it up.
Follows(r, j) ==
    /\ JobFits(j) /\ j.pc # "mail"
    /\ \/ j.row.avatar \in {0, users[j.id].avatar}
       \/ j.id = job[r].id /\ j.row.avatar = job[r].row.avatar
       \/ Minted(j) /\ j.row.avatar = j.patch.avatar
    /\ Minted(j) => Minted(job[r]) /\ j.patch = job[r].patch /\ j.id = job[r].id
    /\ j.pc = "save" => /\ j.id <= lastId /\ j.row.password = users[j.id].password
                        /\ Minted(j) => j.row.avatar = j.patch.avatar

\* An upload that has begun goes on, or the avatar of its user is disturbed.
GoesOn(r, j) ==
    job[r].op = "upload" /\ ~At(r, "fetch") =>
        \/ j.op = "upload" /\ j.id = job[r].id /\ j.pc # "fetch"
        \/ job[r].id \in disturbed'

LEMMA OwnerKept ==
    ASSUME OwnerInv, lastAvatar' = lastAvatar,
           \A n \in Nat \ {0}, i \in Ids : Has(i, n)' => Has(i, n)
    PROVE  OwnerInv'
BY DEF OwnerInv

LEMMA LocalStep ==
    ASSUME IInv, NEW r \in Requests, NEW j, Follows(r, j), GoesOn(r, j),
           job' = [job EXCEPT ![r] = j], UNCHANGED tables, UNCHANGED bucket,
           disturbed \subseteq disturbed', mailed' \subseteq Requests, MailsOpenAccounts'
    PROVE  IInv'
<1> USE DEF IInv
<1>1. /\ DOMAIN job = Requests /\ DOMAIN job' = Requests /\ job'[r] = j
      /\ \A q \in Requests \ {r} : job'[q] = job[q]
  BY DEF Typing
<1>2. /\ users' = users /\ lastId' = lastId /\ stored' = stored /\ lastAvatar' = lastAvatar
  BY DEF tables, bucket
<1>3. Typing'
  BY <1>1, <1>2 DEF Typing, Follows
<1>4. PasswordInv'
  BY <1>1, <1>2 DEF PasswordInv, Follows, At
<1>5. ASSUME NEW n \in Nat \ {0}, NEW i \in Ids, Has(i, n)'
      PROVE  Has(i, n)
  BY <1>1, <1>2, <1>5 DEF Has, Follows
<1>6. OwnerInv'
  BY <1>2, <1>5, OwnerKept
<1>7. FreshInv'
  <2> SUFFICES ASSUME NEW q \in Requests, Minted(job'[q])
               PROVE  LET n == job'[q].patch.avatar IN
                      /\ n # 0 /\ n \in stored
                      /\ \A i \in Ids : users[i].avatar # n
                      /\ \A p \in Requests : job'[p].row.avatar = n => p = q
                      /\ \A p \in Requests \ {q} : Minted(job'[p]) => job'[p].patch.avatar # n
                      /\ At(q, "save")' => job'[q].row.avatar = n
    BY <1>2 DEF FreshInv, Minted
  <2> DEFINE n == job[q].patch.avatar
  <2>1. Minted(job[q]) /\ job'[q].patch = job[q].patch
    BY <1>1 DEF Follows
  <2>2. /\ n # 0 /\ n \in stored
        /\ \A i \in Ids : users[i].avatar # n
        /\ \A p \in Requests : job[p].row.avatar = n => p = q
        /\ \A p \in Requests \ {q} : Minted(job[p]) => job[p].patch.avatar # n
        /\ At(q, "save") => job[q].row.avatar = n
    BY <2>1 DEF FreshInv
  <2>3. \A p \in Requests \ {q} : Minted(job'[p]) => job'[p].patch.avatar # n
    BY <1>1, <2>2 DEF Follows
  <2>4. \A p \in Requests : job'[p].row.avatar = n => p = q
    <3>1. j.id \in Ids
      BY DEF Follows, JobFits
    <3>2. j.row.avatar = n => r = q
      BY <1>1, <2>2, <2>3, <3>1 DEF Follows
    <3> QED
      BY <1>1, <2>2, <3>2
  <2>5. At(q, "save")' => job'[q].row.avatar = n
    BY <1>1, <2>1, <2>2 DEF Follows, At
  <2> QED
    BY <2>1, <2>2, <2>3, <2>4, <2>5
<1>8. AvatarStored'
  <2>1. \A i \in Ids : Uploading(i) => Uploading(i)' \/ i \in disturbed'
    BY <1>1 DEF Uploading, GoesOn, At
  <2> QED
    BY <1>2, <2>1 DEF AvatarStored
<1> QED
  BY <1>3, <1>4, <1>6, <1>7, <1>8

\* A request that ends, whether it returns or throws.
LEMMA EndFollows ==
    ASSUME IInv, NEW r \in Requests
    PROVE  Follows(r, Ended)
BY IdleParts DEF Follows

\* A job that only moves on.
LEMMA MoveFollows ==
    ASSUME IInv, NEW r \in Requests, NEW l, JobFits([job[r] EXCEPT !.pc = l]), l \notin {"mail", "save"}
    PROVE  Follows(r, [job[r] EXCEPT !.pc = l])
<1> DEFINE j == [job[r] EXCEPT !.pc = l]
<1>1. j.id = job[r].id /\ j.row = job[r].row /\ j.patch = job[r].patch /\ j.op = job[r].op
  OBVIOUS
<1> QED
  BY <1>1 DEF Follows, Minted, JobFits

LEMMA MailsKept ==
    ASSUME IInv, UNCHANGED tables, UNCHANGED mailed
    PROVE  mailed' \subseteq Requests /\ MailsOpenAccounts'
BY DEF IInv, Typing, tables, MailsOpenAccounts

LEMMA BeginStep ==
    ASSUME IInv, NEW r \in Requests, NEW op \in Ops, NEW l \in {"exists", "status", "fetch", "find"},
           NEW id \in Ids, NEW patch, AnyPatch(patch), "avatar" \notin DOMAIN patch,
           op = "upload" <=> l = "fetch",
           IF op = "create" THEN "email" \in DOMAIN patch ELSE l # "exists",
           Begin(r, op, l, id, patch)
    PROVE  IInv'
<1> DEFINE j == [pc |-> l, op |-> op, id |-> id, patch |-> patch, row |-> Blank(id)]
<1>1. JobFits(j) /\ ~Minted(j)
  BY BlankParts DEF JobFits, Minted, Pcs
<1>2. j.row.avatar = 0 /\ j.pc = l
  BY BlankParts
<1>3. job' = [job EXCEPT ![r] = j] /\ UNCHANGED tables /\ UNCHANGED bucket /\ UNCHANGED mailed
      /\ disturbed' = disturbed /\ job[r].pc = "new"
  BY DEF Begin, Quiet, At
<1> HIDE DEF j
<1>4. Follows(r, j)
  BY <1>1, <1>2 DEF Follows
<1>5. GoesOn(r, j)
  BY <1>3, JobParts DEF GoesOn, JobFits, IInv
<1> QED
  BY <1>3, <1>4, <1>5, MailsKept, LocalStep

LEMMA EndStep ==
    ASSUME IInv, NEW r \in Requests, Halt(r), UNCHANGED tables, UNCHANGED bucket,
           disturbed \subseteq disturbed', GoesOn(r, Ended), mailed' \subseteq Requests,
           MailsOpenAccounts'
    PROVE  IInv'
BY EndFollows, LocalStep DEF Halt, Ended

LEMMA ThrowsParts ==
    ASSUME NEW r \in Requests, Throws(r)
    PROVE  Halt(r) /\ disturbed \subseteq disturbed' /\ GoesOn(r, Ended)
BY DEF Throws, GoesOn

LEMMA ThrowsStep ==
    ASSUME IInv, NEW r \in Requests, Throws(r), Quiet
    PROVE  IInv'
BY ThrowsParts, EndStep, MailsKept DEF Quiet

LEMMA ReturnsStep ==
    ASSUME IInv, NEW r \in Requests, Returns(r), Quiet, job[r].op # "upload" \/ At(r, "fetch")
    PROVE  IInv'
<1>1. GoesOn(r, Ended)
  BY DEF GoesOn
<1> QED
  BY <1>1, EndStep, MailsKept DEF Returns, Quiet

LEMMA MoveStep ==
    ASSUME IInv, NEW r \in Requests, NEW l \in {"insert", "find", "taken", "load", "unlink"},
           job[r].op = "upload" => At(r, "find") /\ l = "load",
           l = "insert" => job[r].op = "create",
           Goto(r, l), Quiet, UNCHANGED disturbed
    PROVE  IInv'
<1> DEFINE j == [job[r] EXCEPT !.pc = l]
<1>0. JobFits(job[r])
  BY JobParts DEF IInv
<1>1. /\ j.pc = l /\ j.op = job[r].op /\ j.id = job[r].id /\ j.row = job[r].row
      /\ j.patch = job[r].patch
  BY JobParts DEF IInv
<1>9. JobFits(j)
  <2> HIDE DEF j
  <2> QED
    BY <1>0, <1>1 DEF JobFits, Minted, At, Pcs
<1>2. Follows(r, j)
  BY <1>9, MoveFollows
<1>3. GoesOn(r, j)
  BY <1>1 DEF GoesOn
<1>4. job' = [job EXCEPT ![r] = j]
  BY DEF Goto
<1> HIDE DEF j
<1> QED
  BY <1>2, <1>3, <1>4, MailsKept, LocalStep DEF Quiet

-----------------------------------------------------------------------------
(* The requests that begin.                                                *)

LEMMA PatchParts ==
    /\ \A e \in Emails : AnyPatch([email |-> e])
    /\ \A b \in BOOLEAN : AnyPatch([archived |-> b]) /\ AnyPatch([active |-> b])
    /\ \A n \in Nat : AnyPatch([avatar |-> n])
    /\ \A p \in Patches : AnyPatch(p) /\ "avatar" \notin DOMAIN p
    /\ AnyPatch(<<>>) /\ DOMAIN <<>> = {}
<1>1. DOMAIN <<>> = {}
  OBVIOUS
<1>2. \A p \in Patches : AnyPatch(p) /\ "avatar" \notin DOMAIN p
  BY DataAssumption DEF AnyPatch
<1>3. AnyPatch(<<>>)
  BY <1>1 DEF AnyPatch
<1>4. \A e \in Emails : AnyPatch([email |-> e])
  BY DEF AnyPatch
<1>5. \A b \in BOOLEAN : AnyPatch([archived |-> b]) /\ AnyPatch([active |-> b])
  BY DEF AnyPatch
<1>6. \A n \in Nat : AnyPatch([avatar |-> n])
  BY DEF AnyPatch
<1> QED
  BY <1>1, <1>2, <1>3, <1>4, <1>5, <1>6

LEMMA BeginningSteps ==
    ASSUME IInv, NEW r \in Requests,
           \/ Create(r) \/ Update(r) \/ Archive(r) \/ Restore(r) \/ RemoveUser(r)
           \/ Toggle(r) \/ Upload(r)
    PROVE  IInv'
<1>1. Caller \in Ids /\ Targets \subseteq Ids
  BY UsersAssumption DEF First, Ids
<1>2. CASE Create(r)
  BY <1>1, <1>2, PatchParts, BeginStep DEF Create, Ops
<1>3. CASE Update(r)
  BY <1>1, <1>3, PatchParts, BeginStep DEF Update, Ops
<1>4. CASE Archive(r)
  BY <1>1, <1>4, PatchParts, BeginStep DEF Archive, Ops
<1>5. CASE Restore(r)
  BY <1>1, <1>5, PatchParts, BeginStep DEF Restore, Ops
<1>6. CASE RemoveUser(r)
  BY <1>1, <1>6, PatchParts, BeginStep DEF RemoveUser, Ops
<1>7. CASE Toggle(r)
  BY <1>1, <1>7, PatchParts, BeginStep DEF Toggle, Ops
<1>8. CASE Upload(r)
  BY <1>1, <1>8, PatchParts, BeginStep DEF Upload, Ops
<1> QED
  BY <1>2, <1>3, <1>4, <1>5, <1>6, <1>7, <1>8

-----------------------------------------------------------------------------
(* The awaits that read.                                                   *)

LEMMA ExistsStep ==
    ASSUME IInv, NEW r \in Requests, Exists(r)
    PROVE  IInv'
<1>1. CASE Throws(r)
  BY <1>1, ThrowsStep DEF Exists
<1>2. CASE Goto(r, "insert") /\ UNCHANGED disturbed
  <2>1. job[r].op = "create"
    BY JobParts DEF IInv, Exists, At, JobFits
  <2> QED
    BY <1>2, <2>1, MoveStep DEF Exists
<1> QED
  BY <1>1, <1>2 DEF Exists

LEMMA StatusStep ==
    ASSUME IInv, NEW r \in Requests, Status(r)
    PROVE  IInv'
<1>1. CASE Throws(r)
  BY <1>1, ThrowsStep DEF Status
<1>2. CASE Goto(r, "find") /\ UNCHANGED disturbed
  <2>1. job[r].op # "upload"
    BY JobParts DEF IInv, Status, At, JobFits
  <2> QED
    BY <1>2, <2>1, MoveStep DEF Status
<1> QED
  BY <1>1, <1>2 DEF Status

LEMMA FindStep ==
    ASSUME IInv, NEW r \in Requests, Find(r)
    PROVE  IInv'
<1>1. CASE Throws(r)
  BY <1>1, ThrowsStep DEF Find
<1>2. CASE ~Throws(r)
  <2> DEFINE l == CASE job[r].op = "remove" -> "unlink" [] Renames(r) -> "taken" [] OTHER -> "load"
  <2>1. /\ Goto(r, l) /\ At(r, "find") /\ Quiet /\ UNCHANGED disturbed
        /\ l \in {"unlink", "taken", "load"}
        /\ l = "unlink" => job[r].op = "remove"
        /\ l = "taken" => Renames(r)
    <3>1. Goto(r, l) /\ At(r, "find") /\ Quiet /\ UNCHANGED disturbed
      BY <1>2 DEF Find
    <3> QED
      BY <3>1
  <2> HIDE DEF l
  <2>2. job[r].op = "upload" => l = "load"
    <3>1. job[r].op = "upload" => Minted(job[r])
      BY <2>1, JobParts DEF IInv, JobFits, At
    <3>2. Minted(job[r]) => "email" \notin DOMAIN job[r].patch
      BY JobParts DEF IInv, AnyPatch, Minted
    <3> QED
      BY <2>1, <3>1, <3>2 DEF Renames
  <2> QED
    BY <2>1, <2>2, MoveStep
<1> QED
  BY <1>1, <1>2

LEMMA TakenStep ==
    ASSUME IInv, NEW r \in Requests, Taken(r)
    PROVE  IInv'
<1>1. CASE Throws(r)
  BY <1>1, ThrowsStep DEF Taken
<1>2. CASE Goto(r, "load") /\ UNCHANGED disturbed
  <2>1. job[r].op # "upload"
    BY JobParts DEF IInv, Taken, At, JobFits
  <2> QED
    BY <1>2, <2>1, MoveStep DEF Taken
<1> QED
  BY <1>1, <1>2 DEF Taken

LEMMA LoadStep ==
    ASSUME IInv, NEW r \in Requests, Load(r)
    PROVE  IInv'
<1> DEFINE m == Merge(job[r].patch, User(r))
           j == [job[r] EXCEPT !.pc = "save", !.row = m]
<1>1. CASE Throws(r)
  BY <1>1, ThrowsStep DEF Load
<1>2. CASE Returns(r) /\ job[r].op = "archive"
  BY <1>2, ReturnsStep DEF Load
<1>3. CASE User(r).there /\ job' = [job EXCEPT ![r] = j] /\ UNCHANGED disturbed
  <2>1. JobFits(job[r]) /\ AnyPatch(job[r].patch) /\ User(r) \in AnyRow /\ User(r).id = job[r].id
        /\ User(r) = users[job[r].id] /\ job[r].id \in Ids
    BY JobParts DEF IInv, User
  <2>2. /\ m \in AnyRow /\ m.id = job[r].id /\ m.password = users[job[r].id].password
        /\ m.avatar = IF Minted(job[r]) THEN job[r].patch.avatar ELSE users[job[r].id].avatar
    BY <2>1, MergeParts DEF Minted
  <2> HIDE DEF m
  <2>3. /\ j.pc = "save" /\ j.op = job[r].op /\ j.id = job[r].id /\ j.row = m
        /\ j.patch = job[r].patch
    BY JobParts DEF IInv, JobFits
  <2>4. At(r, "load") /\ Quiet
    BY DEF Load
  <2> HIDE DEF j
  <2>5. JobFits(j)
    BY <2>1, <2>2, <2>3, <2>4 DEF JobFits, Minted, At, Pcs
  <2>6. job[r].id <= lastId
    <3>1. job[r].id \in Nat /\ lastId \in Nat
      BY <2>1, UsersAssumption DEF IInv, Typing, Ids
    <3> QED
      BY <1>3, <2>1, <3>1 DEF IInv, PasswordInv
  <2>7. Follows(r, j)
    BY <2>2, <2>3, <2>5, <2>6 DEF Follows, Minted
  <2>8. GoesOn(r, j)
    BY <2>3 DEF GoesOn
  <2> QED
    BY <1>3, <2>4, <2>7, <2>8, MailsKept, LocalStep DEF Quiet
<1> QED
  BY <1>1, <1>2, <1>3 DEF Load

LEMMA FetchStep ==
    ASSUME IInv, NEW r \in Requests, Fetch(r)
    PROVE  IInv'
<1>1. CASE ~User(r).there
  BY <1>1, ReturnsStep DEF Fetch
<1>2. CASE User(r).there
  <2>1. PICK l \in {"unstore", "store"} :
            job' = [job EXCEPT ![r].pc = l, ![r].row = User(r)]
    BY <1>2 DEF Fetch
  <2> DEFINE j == [job[r] EXCEPT !.pc = l, !.row = User(r)]
  <2>2. JobFits(job[r]) /\ User(r) \in AnyRow /\ User(r).id = job[r].id
        /\ User(r) = users[job[r].id] /\ job[r].id \in Ids
    BY JobParts DEF IInv, User
  <2>3. /\ j.pc = l /\ j.op = job[r].op /\ j.id = job[r].id /\ j.row = User(r)
        /\ j.patch = job[r].patch
    BY JobParts DEF IInv, JobFits
  <2>4. job' = [job EXCEPT ![r] = j] /\ At(r, "fetch") /\ Quiet /\ UNCHANGED disturbed
    BY <1>2, <2>1 DEF Fetch
  <2> HIDE DEF j
  <2>5. JobFits(j) /\ ~Minted(j)
    BY <2>2, <2>3, <2>4 DEF JobFits, Minted, At, Pcs
  <2>6. Follows(r, j) /\ GoesOn(r, j)
    BY <2>2, <2>3, <2>4, <2>5 DEF Follows, GoesOn
  <2> QED
    BY <2>4, <2>6, MailsKept, LocalStep DEF Quiet
<1> QED
  BY <1>1, <1>2

LEMMA MailStep ==
    ASSUME IInv, NEW r \in Requests, Mail(r)
    PROVE  IInv'
<1>1. /\ At(r, "mail") /\ mailed' \subseteq mailed \cup {r} /\ Halt(r) /\ UNCHANGED disturbed
      /\ UNCHANGED tables /\ UNCHANGED bucket
  BY DEF Mail, Send, Returns
<1>2. mailed' \subseteq Requests /\ MailsOpenAccounts'
  BY <1>1 DEF IInv, Typing, MailsOpenAccounts, PasswordInv, tables
<1>3. GoesOn(r, Ended)
  BY <1>1, JobParts DEF GoesOn, IInv, JobFits, At
<1> QED
  BY <1>1, <1>2, <1>3, EndStep

LEMMA FailsStep ==
    ASSUME IInv, NEW r \in Requests, Fails(r)
    PROVE  IInv'
BY ThrowsStep DEF Fails

-----------------------------------------------------------------------------
(* Steps that write a row.                                                 *)

\* The job is over, or only a mail is left.
Lets(r, j) ==
    /\ JobFits(j) /\ ~Minted(j) /\ j.op # "upload" /\ j.pc # "save"
    /\ j.row.avatar = 0 \/ (j.id = job[r].id /\ j.row.avatar = job[r].row.avatar)

\* The new row of user k has the password of the old one, unless that had none,
\* and an avatar of k that no other upload has yet to save.
Replaces(r, k, u) ==
    /\ u \in AnyRow /\ u.id = k
    /\ \/ u.password = users[k].password
       \/ k > lastId /\ users[k].password = NoOne
    /\ k > lastId' => ~u.there /\ u.password = NoOne
    /\ u.avatar = 0 \/ Has(k, u.avatar)
    /\ \A q \in Requests \ {r} : Minted(job[q]) => job[q].patch.avatar # u.avatar
    /\ u.there /\ u.avatar # 0 =>
          \/ u.avatar \in stored
          \/ \E q \in Requests \ {r} : job[q].op = "upload" /\ job[q].id = k /\ ~At(q, "fetch")
          \/ k \in disturbed'

LEMMA TableStep ==
    ASSUME IInv, NEW r \in Requests, NEW j, Lets(r, j), NEW k \in Ids, NEW u, Replaces(r, k, u),
           job' = [job EXCEPT ![r] = j], users' = [users EXCEPT ![k] = u],
           lastId' \in Ids, lastId' >= lastId, UNCHANGED bucket, UNCHANGED mailed,
           disturbed \subseteq disturbed', job[r].op = "upload" => job[r].id = k,
           j.pc = "mail" => u.password = r
    PROVE  IInv'
<1> USE DEF IInv
<1>1. /\ DOMAIN job = Requests /\ DOMAIN job' = Requests /\ job'[r] = j
      /\ \A q \in Requests \ {r} : job'[q] = job[q]
  BY DEF Typing
<1>2. /\ stored' = stored /\ lastAvatar' = lastAvatar
      /\ users' \in [Ids -> AnyRow] /\ users'[k] = u
      /\ \A i \in Ids \ {k} : users'[i] = users[i]
  BY DEF Typing, Replaces, bucket
<1>3. Ids \subseteq Nat
  BY DEF Ids
<1>4. Typing'
  BY <1>1, <1>2 DEF Typing, Lets, Replaces
<1>5. \A q \in Requests : (\E i \in Ids : users[i].password = q) => \E i \in Ids : users'[i].password = q
  <2> SUFFICES ASSUME NEW q \in Requests, NEW i \in Ids, users[i].password = q
               PROVE  users'[i].password = q
    OBVIOUS
  <2>1. NoOne # q
    BY DataAssumption
  <2> QED
    BY <1>2, <2>1 DEF Replaces
<1>6. PasswordInv'
  <2>1. \A i \in Ids : i > lastId' => ~users'[i].there /\ users'[i].password = NoOne
    BY <1>2, <1>3 DEF PasswordInv, Replaces, Typing
  <2>2. ASSUME NEW q \in Requests, At(q, "save")'
        PROVE  job'[q].id <= lastId' /\ job'[q].row.password = users'[job'[q].id].password
    <3>1. q # r /\ job'[q] = job[q] /\ At(q, "save")
      BY <1>1, <2>2 DEF At, Lets
    <3>2. job[q].id \in Ids /\ job[q].id <= lastId /\ job[q].row.password = users[job[q].id].password
      BY <3>1, JobParts DEF PasswordInv
    <3>3. ~(job[q].id > lastId) /\ job[q].id <= lastId'
      BY <1>3, <3>2 DEF Typing
    <3> QED
      BY <1>2, <3>1, <3>2, <3>3 DEF Replaces
  <2>3. ASSUME NEW q \in Requests, At(q, "mail")'
        PROVE  \E i \in Ids : users'[i].password = q
    <3>1. CASE q = r
      BY <1>1, <1>2, <2>3, <3>1 DEF At
    <3>2. CASE q # r
      BY <1>1, <1>5, <2>3, <3>2 DEF At, PasswordInv
    <3> QED
      BY <3>1, <3>2
  <2> QED
    BY <2>1, <2>2, <2>3 DEF PasswordInv
<1>7. ASSUME NEW n \in Nat \ {0}, NEW i \in Ids, Has(i, n)'
      PROVE  Has(i, n)
  <2>1. CASE users'[i].avatar = n
    BY <1>2, <2>1 DEF Has, Replaces
  <2>2. CASE \E q \in Requests : job'[q].id = i /\ job'[q].row.avatar = n
    BY <1>1, <2>2 DEF Has, Lets
  <2>3. CASE \E q \in Requests : job'[q].id = i /\ Minted(job'[q]) /\ job'[q].patch.avatar = n
    BY <1>1, <2>3 DEF Has, Lets
  <2> QED
    BY <1>7, <2>1, <2>2, <2>3 DEF Has, Minted
<1>8. OwnerInv'
  BY <1>2, <1>7, OwnerKept
<1>9. FreshInv'
  <2> SUFFICES ASSUME NEW q \in Requests, Minted(job'[q])
               PROVE  LET n == job'[q].patch.avatar IN
                      /\ n # 0 /\ n \in stored
                      /\ \A i \in Ids : users'[i].avatar # n
                      /\ \A p \in Requests : job'[p].row.avatar = n => p = q
                      /\ \A p \in Requests \ {q} : Minted(job'[p]) => job'[p].patch.avatar # n
                      /\ At(q, "save")' => job'[q].row.avatar = n
    BY <1>2 DEF FreshInv, Minted
  <2>1. q # r /\ job'[q] = job[q]
    BY <1>1 DEF Lets
  <2> DEFINE n == job[q].patch.avatar
  <2>2. /\ n # 0 /\ n \in stored
        /\ \A i \in Ids : users[i].avatar # n
        /\ \A p \in Requests : job[p].row.avatar = n => p = q
        /\ \A p \in Requests \ {q} : Minted(job[p]) => job[p].patch.avatar # n
        /\ At(q, "save") => job[q].row.avatar = n
    BY <2>1 DEF FreshInv
  <2>3. \A i \in Ids : users'[i].avatar # n
    BY <1>2, <2>1, <2>2 DEF Replaces
  <2>4. \A p \in Requests : job'[p].row.avatar = n => p = q
    BY <1>1, <2>1, <2>2 DEF Lets
  <2>5. \A p \in Requests \ {q} : Minted(job'[p]) => job'[p].patch.avatar # n
    BY <1>1, <2>2 DEF Lets
  <2> QED
    BY <2>1, <2>2, <2>3, <2>4, <2>5 DEF At
<1>10. MailsOpenAccounts'
  <2>1. mailed \subseteq Requests
    BY DEF Typing
  <2> QED
    BY <1>5, <2>1 DEF MailsOpenAccounts
<1>11. AvatarStored'
  <2> SUFFICES ASSUME NEW i \in Ids, users'[i].there, users'[i].avatar # 0
               PROVE  users'[i].avatar \in stored \/ Uploading(i)' \/ i \in disturbed'
    BY <1>2 DEF AvatarStored
  <2>1. CASE i = k
    BY <1>1, <1>2, <2>1 DEF Replaces, Uploading, At
  <2>2. CASE i # k
    BY <1>1, <1>2, <2>2 DEF AvatarStored, Uploading, At
  <2> QED
    BY <2>1, <2>2
<1> QED
  BY <1>4, <1>6, <1>8, <1>9, <1>10, <1>11

LEMMA EndLets ==
    ASSUME NEW r \in Requests
    PROVE  Lets(r, Ended)
BY IdleParts DEF Lets

LEMMA InsertStep ==
    ASSUME IInv, NEW r \in Requests, Insert(r)
    PROVE  IInv'
<1> DEFINE e == job[r].patch.email
           n == lastId + 1
           u == [Blank(n) EXCEPT !.there = TRUE, !.email = e, !.password = r]
<1>1. CASE Owned(e)
  BY <1>1, ThrowsStep DEF Insert, Quiet
<1>2. CASE ~Owned(e)
  <2>1. PICK j \in {[job[r] EXCEPT !.pc = "mail"], Ended} : job' = [job EXCEPT ![r] = j]
    BY <1>2 DEF Insert, Goto, Halt, Ended
  <2>2. /\ users' = [users EXCEPT ![n] = u] /\ lastId' = n /\ lastId < MaxUsers
        /\ UNCHANGED bucket /\ UNCHANGED mailed /\ UNCHANGED disturbed /\ At(r, "insert")
    BY <1>2 DEF Insert
  <2>3. lastId \in Nat /\ lastId \in Ids /\ n \in Ids /\ n > lastId /\ MaxUsers \in Nat
    BY <2>2, UsersAssumption DEF IInv, Typing, Ids
  <2>4. JobFits(job[r])
    BY JobParts DEF IInv
  <2>5. e \in Emails /\ job[r].op = "create" /\ ~Minted(job[r])
    BY <2>2, <2>4 DEF JobFits, At, AnyPatch
  <2>6. u \in AnyRow /\ u.id = n /\ u.password = r /\ u.avatar = 0
    BY <2>3, <2>5 DEF Blank, AnyRow
  <2> HIDE DEF u
  <2>7. Replaces(r, n, u)
    <3>1. users[n].password = NoOne
      BY <2>3 DEF IInv, PasswordInv
    <3>2. \A q \in Requests \ {r} : Minted(job[q]) => job[q].patch.avatar # 0
      BY DEF IInv, FreshInv
    <3> QED
      BY <2>2, <2>3, <2>6, <3>1, <3>2 DEF Replaces
  <2>8. Lets(r, j)
    <3>1. CASE j = Ended
      BY <3>1, EndLets
    <3>2. CASE j = [job[r] EXCEPT !.pc = "mail"]
      <4>1. /\ j.pc = "mail" /\ j.op = job[r].op /\ j.id = job[r].id /\ j.row = job[r].row
            /\ j.patch = job[r].patch
        BY <3>2, <2>4 DEF JobFits
      <4> QED
        BY <4>1, <2>4, <2>5 DEF Lets, JobFits, Minted, Pcs
    <3> QED
      BY <2>1, <3>1, <3>2
  <2>9. /\ job[r].op # "upload" /\ lastId' \in Ids /\ lastId' >= lastId
        /\ disturbed \subseteq disturbed'
    BY <2>2, <2>3, <2>5
  <2> HIDE DEF n
  <2> QED
    BY <2>1, <2>2, <2>3, <2>6, <2>7, <2>8, <2>9, TableStep
<1> QED
  BY <1>1, <1>2

LEMMA SaveStep ==
    ASSUME IInv, NEW r \in Requests, Save(r)
    PROVE  IInv'
<1> DEFINE u == job[r].row
           k == job[r].id
<1>1. CASE Conflict(u)
  BY <1>1, ThrowsStep DEF Save, Quiet, tables
<1>2. CASE ~Conflict(u)
  <2>1. JobFits(job[r]) /\ k \in Ids /\ u \in AnyRow /\ u.id = k
    BY JobParts DEF IInv
  <2>2. /\ users' = [users EXCEPT ![k] = u] /\ UNCHANGED lastId /\ UNCHANGED bucket
        /\ UNCHANGED mailed /\ At(r, "save") /\ job' = [job EXCEPT ![r] = Ended]
        /\ disturbed' = IF Overwrites(r) THEN disturbed \cup {k} ELSE disturbed
    BY <1>2, <2>1 DEF Save, Halt, Ended
  <2>3. k <= lastId /\ u.password = users[k].password
    BY <2>2 DEF IInv, PasswordInv
  <2>4. Ids \subseteq Nat /\ lastId \in Ids
    BY DEF Ids, IInv, Typing
  <2>5. \A q \in Requests \ {r} : Minted(job[q]) => job[q].patch.avatar # u.avatar
    BY DEF IInv, FreshInv
  <2>6. ASSUME u.there, u.avatar # 0
        PROVE  \/ u.avatar \in stored
               \/ \E q \in Requests \ {r} : job[q].op = "upload" /\ job[q].id = k /\ ~At(q, "fetch")
               \/ k \in disturbed'
    <3>1. CASE Minted(job[r])
      BY <2>2, <3>1 DEF IInv, FreshInv
    <3>2. CASE ~Minted(job[r]) /\ Overwrites(r)
      BY <2>2, <3>2
    <3>3. CASE ~Minted(job[r]) /\ ~Overwrites(r)
      <4>1. users[k].there /\ users[k].avatar = u.avatar
        BY <3>3 DEF Overwrites, Minted, User
      <4>2. job[r].op # "upload"
        BY <2>1, <2>2, <3>3 DEF JobFits, At
      <4> QED
        BY <2>1, <2>2, <2>6, <4>1, <4>2 DEF IInv, AvatarStored, Uploading
    <3> QED
      BY <3>1, <3>2, <3>3
  <2>7. Has(k, u.avatar)
    BY DEF Has
  <2>8. Replaces(r, k, u)
    <3> HIDE DEF u, k
    <3>1. ~(k > lastId')
      <4>1. lastId' = lastId
        BY <2>2
      <4>2. k \in Nat /\ lastId \in Nat
        BY <2>1, <2>4
      <4> QED
        BY <2>3, <4>1, <4>2
    <3> QED
      BY <2>1, <2>3, <2>5, <2>6, <2>7, <3>1 DEF Replaces
  <2>9. lastId' \in Ids /\ lastId' >= lastId /\ disturbed \subseteq disturbed'
    BY <2>2, <2>4
  <2>10. Ended.pc # "mail"
    BY IdleParts
  <2> QED
    BY <2>1, <2>2, <2>8, <2>9, <2>10, EndLets, TableStep
<1> QED
  BY <1>1, <1>2

LEMMA UnlinkStep ==
    ASSUME IInv, NEW r \in Requests, Unlink(r)
    PROVE  IInv'
<1> DEFINE k == job[r].id
           u == [users[k] EXCEPT !.there = FALSE]
<1>1. JobFits(job[r]) /\ k \in Ids /\ users[k] \in AnyRow /\ users[k].id = k
  BY JobParts DEF IInv, Typing
<1>2. /\ u \in AnyRow /\ u.id = k /\ u.password = users[k].password
      /\ u.avatar = users[k].avatar /\ u.there = FALSE
  BY <1>1 DEF AnyRow
<1>3. users' = [users EXCEPT ![k] = u]
  BY DEF Unlink
<1>4. /\ UNCHANGED lastId /\ UNCHANGED bucket /\ UNCHANGED mailed /\ At(r, "unlink")
      /\ job' = [job EXCEPT ![r] = Ended] /\ disturbed' = disturbed
  BY DEF Unlink, Returns, Halt, Ended
<1> HIDE DEF u
<1>5. Replaces(r, k, u)
  <2>1. k > lastId' => users[k].password = NoOne
    BY <1>1, <1>4 DEF IInv, PasswordInv
  <2>2. \A q \in Requests \ {r} : Minted(job[q]) => job[q].patch.avatar # u.avatar
    BY <1>1, <1>2 DEF IInv, FreshInv
  <2>3. Has(k, u.avatar)
    BY <1>2 DEF Has
  <2> QED
    BY <1>2, <2>1, <2>2, <2>3 DEF Replaces
<1>6. lastId' \in Ids /\ lastId' >= lastId
  BY <1>4 DEF IInv, Typing, Ids
<1>7. Ended.pc # "mail"
  BY IdleParts
<1>8. job[r].op = "upload" => job[r].id = k
  OBVIOUS
<1> QED
  BY <1>1, <1>3, <1>4, <1>5, <1>6, <1>7, <1>8, EndLets, TableStep

-----------------------------------------------------------------------------
(* Steps that write an object.                                             *)

\* The job goes on as an upload for the same user, with the copy it has.
LEMMA UnstoreStep ==
    ASSUME IInv, NEW r \in Requests, Unstore(r)
    PROVE  IInv'
<1> USE DEF IInv
<1> DEFINE j == [job[r] EXCEPT !.pc = "store"]
           m == job[r].row.avatar
<1>1. /\ At(r, "unstore") /\ stored' = stored \ {m} /\ job' = [job EXCEPT ![r] = j]
      /\ users' = users /\ lastId' = lastId /\ lastAvatar' = lastAvatar
      /\ mailed' = mailed /\ disturbed' = disturbed
  BY DEF Unstore, Unstored, Goto, tables
<1>2. JobFits(job[r])
  BY JobParts
<1>3. /\ j.pc = "store" /\ j.op = job[r].op /\ j.id = job[r].id /\ j.row = job[r].row
      /\ j.patch = job[r].patch
  BY <1>2 DEF JobFits
<1>4. ~Minted(job[r])
  BY <1>1, <1>2 DEF JobFits, At
<1> HIDE DEF j
<1>5. JobFits(j) /\ ~Minted(j)
  BY <1>1, <1>2, <1>3, <1>4 DEF JobFits, Minted, At, Pcs
<1>6. /\ DOMAIN job = Requests /\ DOMAIN job' = Requests /\ job'[r] = j
      /\ \A q \in Requests \ {r} : job'[q] = job[q]
  BY <1>1 DEF Typing
<1>7. Typing'
  BY <1>1, <1>5, <1>6 DEF Typing
<1>8. PasswordInv'
  BY <1>1, <1>3, <1>6 DEF PasswordInv, At
<1>9. \A n \in Nat \ {0}, i \in Ids : Has(i, n)' => Has(i, n)
  BY <1>1, <1>3, <1>5, <1>6 DEF Has
<1>10. OwnerInv'
  BY <1>1, <1>9, OwnerKept
<1>11. FreshInv'
  BY <1>1, <1>3, <1>4, <1>5, <1>6 DEF FreshInv, At
<1>12. MailsOpenAccounts'
  BY <1>1 DEF MailsOpenAccounts
<1>13. AvatarStored'
  <2> SUFFICES ASSUME NEW i \in Ids, users[i].there, users[i].avatar # 0
               PROVE  users[i].avatar \in stored' \/ Uploading(i)' \/ i \in disturbed'
    BY <1>1 DEF AvatarStored
  <2>1. Uploading(i) => Uploading(i)'
    BY <1>3, <1>6 DEF Uploading, At
  <2>2. CASE users[i].avatar # m
    BY <1>1, <2>1, <2>2 DEF AvatarStored
  <2>3. CASE users[i].avatar = m
    <3>1. users[i].avatar \in Nat \ {0}
      BY DEF Typing, AnyRow
    <3>2. Has(i, m) /\ Has(job[r].id, m) /\ job[r].id \in Ids
      BY <1>2, <2>3 DEF Has, JobFits
    <3>3. i = job[r].id
      BY <2>3, <3>1, <3>2 DEF OwnerInv
    <3>4. job[r].op = "upload"
      BY <1>1, <1>2 DEF JobFits, At
    <3> QED
      BY <1>3, <1>6, <3>3, <3>4 DEF Uploading, At
  <2> QED
    BY <2>2, <2>3
<1> QED
  BY <1>7, <1>8, <1>10, <1>11, <1>12, <1>13

\* The new avatar is nobody's before.
LEMMA StoreStep ==
    ASSUME IInv, NEW r \in Requests, Store(r)
    PROVE  IInv'
<1> USE DEF IInv
<1> DEFINE m == lastAvatar + 1
           j == [job[r] EXCEPT !.pc = "find", !.patch = [avatar |-> m]]
<1>1. /\ At(r, "store") /\ stored' = stored \cup {m} /\ lastAvatar' = m
      /\ job' = [job EXCEPT ![r] = j]
      /\ users' = users /\ lastId' = lastId /\ mailed' = mailed /\ disturbed' = disturbed
  BY DEF Store, Uploaded, tables
<1>2. JobFits(job[r]) /\ m \in Nat \ {0} /\ lastAvatar \in Nat
  BY JobParts DEF Typing
<1>3. /\ j.pc = "find" /\ j.op = job[r].op /\ j.id = job[r].id /\ j.row = job[r].row
      /\ j.patch = [avatar |-> m]
  BY <1>2 DEF JobFits
<1>4. j.patch.avatar = m /\ Minted(j) /\ AnyPatch(j.patch)
  BY <1>2, <1>3 DEF Minted, AnyPatch
<1>5. ~Minted(job[r]) /\ job[r].op = "upload"
  BY <1>1, <1>2 DEF JobFits, At
<1> HIDE DEF j
<1>6. JobFits(j)
  BY <1>2, <1>3, <1>4, <1>5 DEF JobFits, Pcs
<1>7. /\ DOMAIN job = Requests /\ DOMAIN job' = Requests /\ job'[r] = j
      /\ \A q \in Requests \ {r} : job'[q] = job[q]
  BY <1>1 DEF Typing
<1>8. Typing'
  BY <1>1, <1>2, <1>6, <1>7 DEF Typing
<1>9. PasswordInv'
  BY <1>1, <1>3, <1>7 DEF PasswordInv, At
<1>10. \A n \in Nat \ {0}, i \in Ids : Has(i, n)' => Has(i, n) \/ (n = m /\ i = job[r].id)
  BY <1>1, <1>3, <1>4, <1>7 DEF Has
<1>11. \A i \in Ids : ~Has(i, m)
  BY <1>2 DEF OwnerInv
<1> HIDE DEF m
<1>12. OwnerInv'
  <2> SUFFICES ASSUME NEW n \in Nat \ {0}
               PROVE  /\ \A i \in Ids : Has(i, n)' => n <= lastAvatar'
                      /\ \A i, k \in Ids : Has(i, n)' /\ Has(k, n)' => i = k
    BY DEF OwnerInv
  <2>1. CASE n = m
    BY <1>1, <1>2, <1>10, <1>11, <2>1
  <2>2. CASE n # m
    <3>1. \A i \in Ids : Has(i, n)' => Has(i, n)
      BY <1>10, <2>2
    <3>2. n <= lastAvatar => n <= m
      BY <1>2 DEF m
    <3> QED
      BY <1>1, <3>1, <3>2 DEF OwnerInv
  <2> QED
    BY <2>1, <2>2
<1>13. FreshInv'
  <2>1. \A i \in Ids : users[i].avatar # m
    BY <1>11 DEF Has
  <2>2. \A q \in Requests : job[q].row.avatar # m
    BY <1>11, JobParts DEF Has
  <2>3. \A q \in Requests : Minted(job[q]) => job[q].patch.avatar # m
    BY <1>11, JobParts DEF Has
  <2> SUFFICES ASSUME NEW q \in Requests, Minted(job'[q])
               PROVE  LET n == job'[q].patch.avatar IN
                      /\ n # 0 /\ n \in stored'
                      /\ \A i \in Ids : users[i].avatar # n
                      /\ \A p \in Requests : job'[p].row.avatar = n => p = q
                      /\ \A p \in Requests \ {q} : Minted(job'[p]) => job'[p].patch.avatar # n
                      /\ At(q, "save")' => job'[q].row.avatar = n
    BY <1>1 DEF FreshInv, Minted
  <2>4. CASE q = r
    <3>1. job'[q].patch.avatar = m /\ job'[q].pc = "find"
      BY <1>3, <1>4, <1>7, <2>4
    <3>2. \A p \in Requests : job'[p].row.avatar # m
      BY <1>3, <1>7, <2>2
    <3>3. \A p \in Requests \ {q} : Minted(job'[p]) => job'[p].patch.avatar # m
      BY <1>7, <2>3, <2>4
    <3> QED
      BY <1>1, <1>2, <2>1, <3>1, <3>2, <3>3 DEF At
  <2>5. CASE q # r
    <3> DEFINE n == job[q].patch.avatar
    <3>1. job'[q] = job[q] /\ Minted(job[q])
      BY <1>7, <2>5
    <3>2. /\ n # 0 /\ n \in stored
          /\ \A i \in Ids : users[i].avatar # n
          /\ \A p \in Requests : job[p].row.avatar = n => p = q
          /\ \A p \in Requests \ {q} : Minted(job[p]) => job[p].patch.avatar # n
          /\ At(q, "save") => job[q].row.avatar = n
      BY <3>1 DEF FreshInv
    <3>3. n # m
      BY <2>3, <3>1
    <3>4. \A p \in Requests : job'[p].row.avatar = n => p = q
      BY <1>3, <1>7, <3>2
    <3>5. \A p \in Requests \ {q} : Minted(job'[p]) => job'[p].patch.avatar # n
      BY <1>4, <1>7, <3>2, <3>3
    <3> QED
      BY <1>1, <3>1, <3>2, <3>4, <3>5 DEF At
  <2> QED
    BY <2>4, <2>5
<1>14. MailsOpenAccounts'
  BY <1>1 DEF MailsOpenAccounts
<1>15. AvatarStored'
  <2>1. \A i \in Ids : Uploading(i) => Uploading(i)'
    BY <1>3, <1>5, <1>7 DEF Uploading, At
  <2> QED
    BY <1>1, <2>1 DEF AvatarStored
<1> QED
  BY <1>8, <1>9, <1>12, <1>13, <1>14, <1>15

-----------------------------------------------------------------------------
(* The theorems.                                                           *)

LEMMA Initial ==
    ASSUME Init
    PROVE  IInv
<1>1. /\ users = [i \in Ids |-> IF i \in First THEN Seeds[i] ELSE Blank(i)]
      /\ lastId = Len(Seeds) /\ lastAvatar = Len(Seeds)
      /\ stored = {users[i].avatar : i \in First} \ {0}
      /\ mailed = {} /\ disturbed = {} /\ job = [r \in Requests |-> Idle]
  BY DEF Init
<1>2. Len(Seeds) \in Ids /\ First \subseteq Ids /\ Ids \subseteq Nat
      /\ \A i \in Ids : i \in First <=> i <= Len(Seeds)
  BY UsersAssumption DEF First, Ids
<1>3. \A i \in First : users[i] = Seeds[i] /\ users[i] \in AnyRow /\ users[i].id = i
                       /\ users[i].avatar \in {0, i}
  <2>1. Rows \subseteq AnyRow
    <3>1. Avatars \subseteq Nat
      BY DEF Avatars
    <3> QED
      BY <3>1 DEF Rows, AnyRow
  <2> QED
    BY <1>1, <1>2, <2>1, DataAssumption
<1>4. \A i \in Ids \ First : users[i] = Blank(i) /\ users[i] \in AnyRow /\ users[i].id = i
                             /\ users[i].avatar = 0 /\ ~users[i].there
                             /\ users[i].password = NoOne
  BY <1>1, BlankParts DEF Blank
<1>5. \A r \in Requests : job[r] = Idle
  BY <1>1
<1>6. Typing
  BY <1>1, <1>2, <1>3, <1>4, <1>5, IdleParts DEF Typing
<1>7. PasswordInv
  <2>1. \A r \in Requests : ~At(r, "save") /\ ~At(r, "mail")
    BY <1>5, IdleParts DEF At
  <2> QED
    BY <1>1, <1>2, <1>4, <2>1 DEF PasswordInv
<1>8. \A i \in Ids, n \in Nat \ {0} : Has(i, n) => i \in First /\ n = i
  BY <1>3, <1>4, <1>5, IdleParts DEF Has
<1>9. OwnerInv
  BY <1>1, <1>2, <1>8 DEF OwnerInv
<1>10. FreshInv
  BY <1>5, IdleParts DEF FreshInv
<1>11. MailsOpenAccounts
  BY <1>1 DEF MailsOpenAccounts
<1>12. AvatarStored
  BY <1>1, <1>4 DEF AvatarStored
<1> QED
  BY <1>6, <1>7, <1>9, <1>10, <1>11, <1>12 DEF IInv

LEMMA StepKeeps ==
    ASSUME IInv, NEW r \in Requests, Step(r)
    PROVE  IInv'
BY BeginningSteps, ExistsStep, InsertStep, MailStep, StatusStep, FindStep, TakenStep, LoadStep,
   SaveStep, UnlinkStep, FetchStep, UnstoreStep, StoreStep, FailsStep DEF Step

LEMMA StutterKeeps ==
    ASSUME IInv, UNCHANGED <<tables, bucket, mailed, job, disturbed>>
    PROVE  IInv'
BY DEF IInv, tables, bucket, Typing, PasswordInv, OwnerInv, FreshInv, MailsOpenAccounts,
       AvatarStored, Has, Uploading, At

\* Copies of rows have the password of their row and one avatar has one user, at
\* every await of the administrators' handlers (src/modules/users/providers).
THEOREM UsersInvariant == Spec => []IInv
<1>1. IInv /\ [Next]_vars => IInv'
  <2> SUFFICES ASSUME IInv, [Next]_vars
               PROVE  IInv'
    OBVIOUS
  <2>1. CASE \E r \in Requests : Step(r)
    BY <2>1, StepKeeps
  <2>2. CASE UNCHANGED <<tables, bucket, mailed, job, disturbed>>
    BY <2>2, StutterKeeps
  <2> QED
    BY <2>1, <2>2 DEF Next, vars
<1> QED
  BY <1>1, Initial, PTL DEF Spec

\* For any number of administrators and users: no mailed password is without its
\* account, however requests for one address overlap (create-user.provider.ts).
THEOREM MailsOpenAccountsHolds == Spec => []MailsOpenAccounts
BY UsersInvariant, PTL DEF IInv

\* For any number of overlapping uploads and of saves of older rows: the avatar of a
\* user whose uploads all ended well is in the bucket (upload-avatar.provider.ts).
THEOREM AvatarStoredHolds == Spec => []AvatarStored
BY UsersInvariant, PTL DEF IInv

-----------------------------------------------------------------------------
(* The list: who has which place, and what a page shows.                   *)

\* The more rows are newer, the older the row: no two have as many.
LEMMA NewerCount ==
    ASSUME NEW S \in SUBSET Nat, IsFiniteSet(S), NEW i \in S
    PROVE  /\ IsFiniteSet(Newer(S, i)) /\ Cardinality(Newer(S, i)) \in Nat
           /\ Cardinality(Newer(S, i)) + 1 \in 1..Cardinality(S)
           /\ \A j \in S : j > i => Cardinality(Newer(S, j)) < Cardinality(Newer(S, i))
<1>1. Newer(S, i) \in SUBSET S /\ i \notin Newer(S, i)
  BY DEF Newer
<1>2. IsFiniteSet(Newer(S, i)) /\ Cardinality(Newer(S, i)) \in Nat /\ Cardinality(S) \in Nat
  BY <1>1, FS_Subset, FS_CardinalityType
<1>3. Cardinality(Newer(S, i)) < Cardinality(S)
  <2>1. Cardinality(Newer(S, i)) <= Cardinality(S) /\ Cardinality(Newer(S, i)) # Cardinality(S)
    BY <1>1, FS_Subset
  <2> QED
    BY <1>2, <2>1
<1>4. ASSUME NEW j \in S, j > i
      PROVE  Cardinality(Newer(S, j)) < Cardinality(Newer(S, i))
  <2>1. Newer(S, j) \in SUBSET Newer(S, i)
    <3>1. \A x \in S : x > j => x > i
      BY <1>4
    <3> QED
      BY <3>1 DEF Newer
  <2>2. j \in Newer(S, i) /\ j \notin Newer(S, j)
    BY <1>4 DEF Newer
  <2>3. /\ Cardinality(Newer(S, j)) <= Cardinality(Newer(S, i))
        /\ Cardinality(Newer(S, j)) # Cardinality(Newer(S, i))
    BY <1>2, <2>1, <2>2, FS_Subset
  <2>4. Cardinality(Newer(S, j)) \in Nat
    BY <1>2, <2>1, FS_Subset, FS_CardinalityType
  <2> QED
    BY <1>2, <2>3, <2>4
<1> QED
  BY <1>2, <1>3, <1>4

\* Every row has one place, behind the rows that are newer.
LEMMA Places ==
    ASSUME NEW S \in SUBSET Nat, IsFiniteSet(S)
    PROVE  /\ NewestFirst(S) \in [1..Cardinality(S) -> S] /\ Cardinality(S) \in Nat
           /\ \A i \in S : NewestFirst(S)[Cardinality(Newer(S, i)) + 1] = i
<1> DEFINE n     == Cardinality(S)
           place == [i \in S |-> Cardinality(Newer(S, i)) + 1]
<1>1. n \in Nat /\ IsFiniteSet(1..n) /\ Cardinality(1..n) = n
  BY FS_CardinalityType, FS_Interval
<1>2. \A i, j \in S : Cardinality(Newer(S, i)) = Cardinality(Newer(S, j)) => i = j
  <2> SUFFICES ASSUME NEW i \in S, NEW j \in S, i # j
               PROVE  Cardinality(Newer(S, i)) # Cardinality(Newer(S, j))
    OBVIOUS
  <2>1. i > j \/ j > i
    OBVIOUS
  <2>2. Cardinality(Newer(S, i)) \in Nat /\ Cardinality(Newer(S, j)) \in Nat
    BY NewerCount
  <2>3. /\ j > i => Cardinality(Newer(S, j)) < Cardinality(Newer(S, i))
        /\ i > j => Cardinality(Newer(S, i)) < Cardinality(Newer(S, j))
    BY NewerCount
  <2> QED
    BY <2>1, <2>2, <2>3
<1>3. \A i \in S : Cardinality(Newer(S, i)) \in Nat /\ Cardinality(Newer(S, i)) + 1 \in 1..n
  BY NewerCount
<1>4. place \in Injection(S, 1..n)
  BY <1>2, <1>3 DEF Injection, IsInjective
<1>5. place \in Surjection(S, 1..n)
  BY <1>1, <1>4, FS_Injection
<1>6. \A k \in 1..n : \E i \in S : place[i] = k
  BY <1>5 DEF Surjection
<1>7. \A k \in 1..n : \E i \in S : Cardinality(Newer(S, i)) = k - 1
  BY <1>3, <1>6
<1>8. \A k \in 1..n : /\ NewestFirst(S)[k] \in S
                      /\ Cardinality(Newer(S, NewestFirst(S)[k])) = k - 1
  BY <1>7 DEF NewestFirst
<1>9. NewestFirst(S) \in [1..n -> S]
  BY <1>8 DEF NewestFirst
<1>10. ASSUME NEW i \in S
       PROVE  NewestFirst(S)[Cardinality(Newer(S, i)) + 1] = i
  <2> DEFINE k == Cardinality(Newer(S, i)) + 1
  <2>1. k \in 1..n /\ k - 1 = Cardinality(Newer(S, i))
    BY <1>3
  <2>2. NewestFirst(S)[k] \in S /\ Cardinality(Newer(S, NewestFirst(S)[k])) = k - 1
    BY <1>8, <2>1
  <2> QED
    BY <1>2, <2>1, <2>2
<1> QED
  BY <1>1, <1>9, <1>10

LEMMA Multiples ==
    ASSUME NEW p \in Nat, p # 0, NEW l \in Nat
    PROVE  /\ (p - 1) * l \in Nat /\ p * l \in Nat /\ (p + 1) * l \in Nat
           /\ p * l = (p - 1) * l + l /\ (p + 1) * l = p * l + l
OBVIOUS

\* A page ends with the list at the latest.
LEMMA PageEnd ==
    ASSUME NEW a \in Nat, NEW b \in Nat
    PROVE  Min({a, b}) \in Nat /\ Min({a, b}) <= b /\ (Min({a, b}) = a \/ Min({a, b}) = b)
<1>1. PICK x \in {a, b} : \A y \in {a, b} : x =< y
  OBVIOUS
<1>2. Min({a, b}) \in {a, b} /\ \A y \in {a, b} : Min({a, b}) =< y
  BY <1>1 DEF Min
<1> QED
  BY <1>2

\* A page shows what is behind the pages before it, up to its limit.
LEMMA PageShows ==
    ASSUME NEW S \in SUBSET Nat, IsFiniteSet(S), NEW i \in S, NEW p \in Nat, p # 0,
           (p - 1) * Limit <= Cardinality(Newer(S, i)), Cardinality(Newer(S, i)) < p * Limit
    PROVE  i \in ToSet(PageOf(NewestFirst(S), p, Limit))
<1> DEFINE list == NewestFirst(S)
           k    == Cardinality(Newer(S, i)) + 1
           from == (p - 1) * Limit + 1
           to   == Min({p * Limit, Len(list)})
<1>1. list \in [1..Cardinality(S) -> S] /\ Cardinality(S) \in Nat /\ list[k] = i
  BY Places
<1>2. Len(list) = Cardinality(S) /\ list \in Seq(S)
  BY <1>1
<1>3. k \in 1..Cardinality(S) /\ Cardinality(Newer(S, i)) \in Nat
  BY NewerCount
<1>4. (p - 1) * Limit \in Nat /\ p * Limit \in Nat
  BY LimitAssumption, Multiples
<1>5. to \in Nat /\ k <= to
  BY <1>1, <1>2, <1>3, <1>4, PageEnd
<1>6. from \in Nat /\ from <= k
  BY <1>3, <1>4
<1> HIDE DEF list, k, from, to
<1>7. PageOf(list, p, Limit) = SubSeq(list, from, to)
  BY DEF PageOf, from, to, list
<1>8. k - from + 1 \in 1..(to - from + 1) /\ k \in Nat
  BY <1>3, <1>5, <1>6 DEF k
<1>9. /\ k - from + 1 \in DOMAIN SubSeq(list, from, to)
      /\ SubSeq(list, from, to)[k - from + 1] = list[k]
  BY <1>2, <1>5, <1>6, <1>8
<1> QED
  BY <1>1, <1>7, <1>9 DEF ToSet, list

\* Rows that come leave the others behind at least as many.
LEMMA NewerGrows ==
    ASSUME NEW S \in SUBSET Nat, NEW T \in SUBSET Nat, IsFiniteSet(T), S \subseteq T, NEW i \in S
    PROVE  Cardinality(Newer(S, i)) <= Cardinality(Newer(T, i))
<1>1. Newer(S, i) \in SUBSET Newer(T, i)
  BY DEF Newer
<1>2. IsFiniteSet(Newer(T, i))
  BY NewerCount
<1> QED
  BY <1>1, <1>2, FS_Subset

-----------------------------------------------------------------------------
(* The walk: what has not been seen is behind the pages that were.         *)

OnList == Matching(users, NotCaller)

Behind(n, i) == n * Limit <= Cardinality(Newer(OnList, i))

WalkInv ==
    /\ ListTypeOK(Ids) /\ awaited \subseteq OnList
    /\ ~shrunk => \A i \in awaited \ seen :
          /\ Walking
          /\ walk.read = 0 => Behind(walk.page - 1, i)
          /\ walk.read # 0 => Behind(walk.page, i)
          /\ walk.read = 2 => walk.page * Limit < walk.total

LEMMA ListParts ==
    ASSUME NEW us, DOMAIN us = Ids
    PROVE  LET S == Matching(us, NotCaller) IN
           /\ S \subseteq Ids /\ S \in SUBSET Nat /\ IsFiniteSet(S) /\ Cardinality(S) \in Nat
           /\ List(us) = NewestFirst(S) /\ Len(List(us)) = Cardinality(S)
           /\ ToSet(List(us)) = S
           /\ \A p \in Nat \ {0} : ToSet(PageOf(List(us), p, Limit)) \subseteq S
<1> DEFINE S    == Matching(us, NotCaller)
           list == NewestFirst(S)
<1>1. S \subseteq Ids
  BY DEF Matching
<1>2. IsFiniteSet(Ids) /\ Ids \subseteq Nat
  BY UsersAssumption, FS_Interval DEF Ids
<1>3. S \in SUBSET Nat /\ IsFiniteSet(S) /\ Cardinality(S) \in Nat
  BY <1>1, <1>2, FS_Subset, FS_CardinalityType
<1>4. List(us) = list
  BY DEF List, Listed
<1> HIDE DEF S
<1>5. list \in [1..Cardinality(S) -> S] /\ \A i \in S : list[Cardinality(Newer(S, i)) + 1] = i
  BY <1>3, Places
<1>6. \A i \in S : Cardinality(Newer(S, i)) + 1 \in 1..Cardinality(S)
  BY <1>3, NewerCount
<1> HIDE DEF list
<1>7. Len(list) = Cardinality(S) /\ DOMAIN list = 1..Cardinality(S)
  BY <1>3, <1>5
<1>8. ToSet(list) = S
  BY <1>5, <1>6, <1>7 DEF ToSet
<1>9. ASSUME NEW p \in Nat, p # 0
      PROVE  ToSet(PageOf(list, p, Limit)) \subseteq S
  <2> DEFINE from == (p - 1) * Limit + 1
             to   == Min({p * Limit, Len(list)})
  <2>1. from \in Nat /\ 1 <= from /\ p * Limit \in Nat
    BY <1>9, LimitAssumption, Multiples
  <2>2. to \in Nat /\ to <= Cardinality(S)
    BY <1>3, <1>7, <2>1, PageEnd
  <2>3. PageOf(list, p, Limit) = SubSeq(list, from, to)
    BY DEF PageOf
  <2> HIDE DEF from, to
  <2>4. list \in Seq(S)
    BY <1>3, <1>5
  <2>5. ASSUME NEW k \in DOMAIN SubSeq(list, from, to)
        PROVE  SubSeq(list, from, to)[k] \in S
    <3>1. k \in 1..(to - from + 1) /\ SubSeq(list, from, to)[k] = list[from + k - 1]
      BY <2>1, <2>2, <2>4, <2>5
    <3>2. from + k - 1 \in 1..Cardinality(S)
      BY <1>3, <2>1, <2>2, <3>1
    <3> QED
      BY <1>5, <3>1, <3>2
  <2> QED
    BY <2>3, <2>5 DEF ToSet
<1> QED
  BY <1>1, <1>3, <1>4, <1>7, <1>8, <1>9 DEF S, list

\* What a request does to the table only moves the rows that stay back.
LEMMA ObserveKeeps ==
    ASSUME WalkInv, DOMAIN users = Ids, DOMAIN users' = Ids,
           Observe(List(users), List(users')), UNCHANGED <<walk, seen>>
    PROVE  WalkInv'
<1> DEFINE S == OnList
           T == Matching(users', NotCaller)
<1>1. /\ ToSet(List(users)) = S /\ ToSet(List(users')) = T
      /\ S \subseteq Ids /\ S \in SUBSET Nat /\ T \in SUBSET Nat /\ IsFiniteSet(T) /\ IsFiniteSet(S)
  BY ListParts DEF OnList
<1>2. OnList' = T
  BY DEF OnList, Matching
<1>3. /\ awaited' = awaited \cap T /\ walk' = walk /\ seen' = seen
      /\ shrunk' = (shrunk \/ (Walking /\ ~(S \subseteq T)))
  BY <1>1 DEF Observe
<1> HIDE DEF S, T
<1>4. ListTypeOK(Ids)'
  BY <1>3 DEF WalkInv, ListTypeOK
<1>5. ASSUME ~shrunk', NEW i \in awaited' \ seen'
      PROVE  /\ Walking'
             /\ walk.read = 0 => Behind(walk.page - 1, i)'
             /\ walk.read # 0 => Behind(walk.page, i)'
             /\ walk.read = 2 => walk.page * Limit < walk.total
  <2>1. ~shrunk /\ i \in awaited \ seen
    BY <1>3, <1>5
  <2>2. /\ Walking /\ S \subseteq T /\ i \in S
        /\ walk.read = 0 => Behind(walk.page - 1, i)
        /\ walk.read # 0 => Behind(walk.page, i)
        /\ walk.read = 2 => walk.page * Limit < walk.total
    BY <1>3, <1>5, <2>1 DEF WalkInv, S
  <2>3. Cardinality(Newer(S, i)) <= Cardinality(Newer(T, i))
    BY <1>1, <2>2, NewerGrows
  <2>4. Cardinality(Newer(S, i)) \in Nat /\ Cardinality(Newer(T, i)) \in Nat
    BY <1>1, <2>2, NewerCount
  <2>5. walk.page \in Nat /\ walk.page # 0
    BY <2>2 DEF WalkInv, ListTypeOK, Walks, Walking
  <2>6. \A n \in Nat : Behind(n, i) => Behind(n, i)'
    <3> SUFFICES ASSUME NEW n \in Nat, Behind(n, i)
                 PROVE  n * Limit <= Cardinality(Newer(T, i))
      BY <1>2 DEF Behind
    <3>1. n * Limit \in Nat /\ n * Limit <= Cardinality(Newer(S, i))
      BY LimitAssumption DEF Behind, S
    <3> QED
      BY <2>3, <2>4, <3>1
  <2> QED
    BY <1>3, <2>2, <2>5, <2>6 DEF Walking
<1> QED
  BY <1>2, <1>3, <1>4, <1>5 DEF WalkInv

\* A page that was read has shown what was behind the pages before it.
LEMMA ReadItemsKeeps ==
    ASSUME WalkInv, DOMAIN users = Ids, ReadItems(List(users)),
           UNCHANGED <<users, awaited, shrunk>>
    PROVE  WalkInv'
<1>1. Walking /\ walk.read = 0
  BY DEF ReadItems, Asks, Statements, Reading, WalkInv, ListTypeOK, Walks
<1>2. /\ walk \in Walks /\ walk.page \in Nat \ {0} /\ walk' = [walk EXCEPT !.read = 1]
      /\ seen' = seen \cup ToSet(PageOf(List(users), walk.page, Limit))
  BY <1>1 DEF ReadItems, Reading, WalkInv, ListTypeOK, Walks, Walking
<1>3. /\ walk' \in Walks /\ walk'.read = 1 /\ walk'.page = walk.page
  BY <1>2 DEF Walks
<1>4. /\ List(users) = NewestFirst(OnList) /\ OnList \in SUBSET Nat /\ IsFiniteSet(OnList)
      /\ OnList \subseteq Ids /\ ToSet(PageOf(List(users), walk.page, Limit)) \subseteq OnList
  BY <1>2, ListParts DEF OnList
<1>5. OnList' = OnList
  BY DEF OnList
<1>6. ASSUME ~shrunk, NEW i \in awaited \ seen'
      PROVE  Behind(walk.page, i)
  <2>1. i \in OnList /\ Behind(walk.page - 1, i)
    BY <1>1, <1>2, <1>6 DEF WalkInv
  <2>2. i \notin ToSet(PageOf(NewestFirst(OnList), walk.page, Limit))
    BY <1>2, <1>4, <1>6
  <2>3. ~(Cardinality(Newer(OnList, i)) < walk.page * Limit)
    BY <1>2, <1>4, <2>1, <2>2, PageShows DEF Behind
  <2>4. Cardinality(Newer(OnList, i)) \in Nat /\ walk.page * Limit \in Nat
    BY <1>2, <1>4, <2>1, NewerCount, LimitAssumption
  <2> QED
    BY <2>3, <2>4 DEF Behind
<1>7. ListTypeOK(Ids)'
  BY <1>2, <1>3, <1>4 DEF WalkInv, ListTypeOK
<1> QED
  BY <1>1, <1>2, <1>3, <1>5, <1>6, <1>7 DEF WalkInv, Walking, Behind

\* The total counts what is behind the page.
LEMMA ReadCountKeeps ==
    ASSUME WalkInv, DOMAIN users = Ids, ReadCount(List(users)),
           UNCHANGED <<users, awaited, shrunk>>
    PROVE  WalkInv'
<1>1. Walking /\ walk.read = 1
  BY DEF ReadCount, Asks, Statements, Reading, WalkInv, ListTypeOK, Walks
<1>2. walk \in Walks /\ walk.page \in Nat \ {0} /\ Reading = 2 /\ seen' = seen
  BY <1>1 DEF ReadCount, WalkInv, ListTypeOK, Walks, Walking, Reading
<1>3. /\ Len(List(users)) = Cardinality(OnList) /\ Cardinality(OnList) \in Nat
      /\ OnList \in SUBSET Nat /\ IsFiniteSet(OnList)
  BY ListParts DEF OnList
<1>4. /\ walk' \in Walks /\ walk'.read = 2 /\ walk'.page = walk.page
      /\ walk'.total = Cardinality(OnList)
  <2> DEFINE w == [walk EXCEPT !.read = 2]
  <2>1. w \in Walks /\ w.read = 2 /\ w.page = walk.page
    BY <1>2 DEF Walks
  <2>2. walk' = [w EXCEPT !.total = Cardinality(OnList)]
    BY <1>2, <1>3 DEF ReadCount
  <2> HIDE DEF w
  <2> QED
    BY <1>3, <2>1, <2>2 DEF Walks
<1>5. OnList' = OnList
  BY DEF OnList
<1>6. ASSUME ~shrunk, NEW i \in awaited \ seen
      PROVE  Behind(walk.page, i) /\ walk.page * Limit < Cardinality(OnList)
  <2>1. i \in OnList /\ Behind(walk.page, i)
    BY <1>1, <1>6 DEF WalkInv
  <2>2. Cardinality(Newer(OnList, i)) + 1 \in 1..Cardinality(OnList)
        /\ Cardinality(Newer(OnList, i)) \in Nat /\ walk.page * Limit \in Nat
    BY <1>2, <1>3, <2>1, NewerCount, LimitAssumption
  <2> QED
    BY <1>3, <2>1, <2>2 DEF Behind
<1>7. ListTypeOK(Ids)'
  BY <1>2, <1>4 DEF WalkInv, ListTypeOK
<1> QED
  BY <1>1, <1>2, <1>4, <1>5, <1>6, <1>7 DEF WalkInv, Walking, Behind

\* With rows behind the page there is another page.
LEMMA TurnPageKeeps ==
    ASSUME WalkInv, TurnPage, UNCHANGED <<users, awaited, shrunk>>
    PROVE  WalkInv'
<1> DEFINE next == IF walk.page < PagesFor(walk.total, Limit) THEN walk.page + 1 ELSE 0
<1>1. /\ Walking /\ walk.read = 2 /\ walk \in Walks /\ walk.page \in Nat \ {0}
      /\ walk.total \in Nat /\ seen' = seen /\ walk' = [page |-> next, read |-> 0, total |-> 0]
  BY DEF TurnPage, WalkInv, ListTypeOK, Walks, Walking
<1>2. next \in Nat /\ walk'.page = next /\ walk'.read = 0 /\ walk' \in Walks
  BY <1>1 DEF Walks
<1>3. OnList' = OnList
  BY DEF OnList
<1>4. ASSUME ~shrunk, NEW i \in awaited \ seen
      PROVE  next = walk.page + 1 /\ Behind(walk.page, i)
  <2>1. Behind(walk.page, i) /\ walk.page * Limit < walk.total
    BY <1>1, <1>4 DEF WalkInv
  <2>2. (walk.page + 1) * Limit = walk.page * Limit + Limit /\ walk.page * Limit \in Nat
    BY <1>1, LimitAssumption, Multiples
  <2>3. (walk.page + 1) * Limit <= walk.total + Limit - 1
    BY <1>1, <2>1, <2>2, LimitAssumption
  <2>4. walk.page + 1 <= PagesFor(walk.total, Limit)
    <3>1. \A a, b \in Nat : \A l \in Nat \ {0} : a * l <= b => a <= b \div l
      OBVIOUS
    <3>2. walk.total + Limit - 1 \in Nat /\ walk.page + 1 \in Nat
      BY <1>1, LimitAssumption
    <3> QED
      BY <2>3, <3>1, <3>2, LimitAssumption DEF PagesFor
  <2>5. walk.page < PagesFor(walk.total, Limit)
    BY <1>1, <2>4, LimitAssumption DEF PagesFor
  <2> QED
    BY <2>1, <2>5
<1>5. ListTypeOK(Ids)'
  BY <1>1, <1>2 DEF WalkInv, ListTypeOK
<1> HIDE DEF next
<1>6. ASSUME ~shrunk', NEW i \in awaited' \ seen'
      PROVE  Walking' /\ Behind(walk.page - 1, i)'
  <2>1. next = walk.page + 1 /\ Behind(walk.page, i)
    BY <1>1, <1>4, <1>6
  <2>2. walk'.page # 0 /\ walk'.page - 1 = walk.page
    BY <1>1, <1>2, <2>1
  <2>3. walk.page * Limit <= Cardinality(Newer(OnList', i))
    BY <1>3, <2>1 DEF Behind
  <2>4. (walk'.page - 1) * Limit <= Cardinality(Newer(OnList', i))
    BY <2>2, <2>3
  <2> QED
    BY <2>2, <2>4 DEF Walking, Behind
<1> QED
  BY <1>1, <1>2, <1>3, <1>5, <1>6 DEF WalkInv

LEMMA WalkInitially ==
    ASSUME Init
    PROVE  WalkInv
<1>1. /\ walk = [page |-> 1, read |-> 0, total |-> 0] /\ seen = {} /\ shrunk = FALSE
      /\ awaited = ToSet(List(users)) /\ DOMAIN users = Ids
  BY DEF Init, ListInit
<1>2. awaited = OnList /\ OnList \subseteq Ids /\ OnList \in SUBSET Nat /\ IsFiniteSet(OnList)
  BY <1>1, ListParts DEF OnList
<1>3. \A i \in awaited : Behind(0, i)
  <2>1. \A i \in OnList : Cardinality(Newer(OnList, i)) \in Nat
    BY <1>2, NewerCount
  <2> QED
    BY <1>2, <2>1, LimitAssumption DEF Behind
<1>4. walk \in Walks /\ Walking /\ walk.page - 1 = 0 /\ walk.read = 0
  BY <1>1 DEF Walks, Walking
<1>5. \A i \in awaited : Behind(walk.page - 1, i)
  BY <1>3, <1>4
<1>6. ListTypeOK(Ids)
  BY <1>1, <1>2, <1>4 DEF ListTypeOK
<1> QED
  BY <1>2, <1>4, <1>5, <1>6 DEF WalkInv

LEMMA WalkStep == IInv /\ WalkInv /\ [Next]_vars => WalkInv'
<1> SUFFICES ASSUME IInv, WalkInv, [Next]_vars
             PROVE  WalkInv'
  OBVIOUS
<1>1. DOMAIN users = Ids
  BY DEF IInv, Typing
<1>2. ASSUME NEW r \in Requests, Step(r), Observe(List(users), List(users')),
             UNCHANGED <<walk, seen>>
      PROVE  WalkInv'
  <2>1. DOMAIN users' = Ids
    BY <1>2, StepKeeps DEF IInv, Typing
  <2> QED
    BY <1>1, <1>2, <2>1, ObserveKeeps
<1>3. ASSUME WalkOn(List(users)), UNCHANGED <<tables, awaited, shrunk>>
      PROVE  WalkInv'
  BY <1>1, <1>3, ReadItemsKeeps, ReadCountKeeps, TurnPageKeeps DEF WalkOn, tables
<1>4. CASE UNCHANGED vars
  BY <1>4 DEF vars, tables, listVars, WalkInv, ListTypeOK, OnList, Walking, Behind, Matching
<1> QED
  BY <1>2, <1>3, <1>4 DEF Next

\* However long the table and the pages are, and whatever the requests of others
\* do meanwhile: a client that has reached the last page has been shown every row
\* that was on the list from the beginning on, unless one left it
\* (base.repository.ts).
THEOREM WalkSeesEveryRowHolds == Spec => []WalkSeesEveryRow
<1>1. WalkInv => WalkSeesEveryRow
  BY DEF WalkInv, WalkSeesEveryRow
<1>2. Spec => []WalkInv
  BY UsersInvariant, WalkInitially, WalkStep, PTL DEF Spec
<1> QED
  BY <1>1, <1>2, PTL

-----------------------------------------------------------------------------
(* Types: an avatar has the number of an upload, and a request uploads once. *)

\* Requests that may still upload.
UploadPcs == {"new", "fetch", "unstore", "store"}
MayUpload == {r \in Requests : job[r].pc \in UploadPcs}

BoundInv ==
    /\ lastAvatar + Cardinality(MayUpload) <= Len(Seeds) + Cardinality(Requests)
    /\ stored \subseteq 0..lastAvatar /\ disturbed \subseteq Ids

\* What a step of a request does to its job and to the bucket.
Uploads(r) ==
    /\ \A q \in Requests \ {r} : job'[q].pc = job[q].pc
    /\ job'[r].pc \in UploadPcs => job[r].pc \in UploadPcs
    /\ disturbed' \subseteq disturbed \cup {job[r].id}
    /\ \/ lastAvatar' = lastAvatar /\ stored' \subseteq stored
       \/ /\ lastAvatar' = lastAvatar + 1 /\ stored' = stored \cup {lastAvatar + 1}
          /\ job[r].pc \in UploadPcs /\ job'[r].pc \notin UploadPcs

\* A request that has stored its avatar, or has none to store.
Past(r) ==
    /\ \A q \in Requests \ {r} : job'[q] = job[q]
    /\ job'[r].pc \notin UploadPcs
    /\ disturbed' \subseteq disturbed \cup {job[r].id}

LEMMA PastUpload ==
    ASSUME IInv, NEW r \in Requests
    PROVE  /\ Halt(r) => /\ \A q \in Requests \ {r} : job'[q] = job[q]
                         /\ job'[r].pc \notin UploadPcs
           /\ Throws(r) \/ Returns(r) => Past(r)
           /\ \A l : l \notin UploadPcs /\ Goto(r, l) /\ UNCHANGED disturbed => Past(r)
<1>1. Halt(r) => /\ \A q \in Requests \ {r} : job'[q] = job[q]
                 /\ job'[r].pc = "done"
  BY IdleParts DEF Halt, Ended, IInv, Typing
<1>2. Halt(r) => /\ \A q \in Requests \ {r} : job'[q] = job[q]
                 /\ job'[r].pc \notin UploadPcs
  BY <1>1 DEF UploadPcs
<1>3. Throws(r) \/ Returns(r) => Past(r)
  BY <1>2 DEF Throws, Returns, Past
<1>4. ASSUME NEW l, l \notin UploadPcs, Goto(r, l), UNCHANGED disturbed
      PROVE  Past(r)
  BY <1>4 DEF Goto, Past, IInv, Typing
<1> QED
  BY <1>2, <1>3, <1>4

LEMMA StepUploads ==
    ASSUME IInv, NEW r \in Requests, Step(r)
    PROVE  Uploads(r)
<1>1. r \in DOMAIN job /\ Ended.pc = "done" /\ [Idle EXCEPT !.pc = "done"] = Ended
  BY IdleParts DEF IInv, Typing, Ended
<1>2. CASE Create(r) \/ Update(r) \/ Archive(r) \/ Restore(r) \/ RemoveUser(r) \/ Toggle(r) \/ Upload(r)
  <2>1. /\ job[r].pc = "new" /\ UNCHANGED <<stored, lastAvatar, disturbed>>
        /\ \E l, op, id, patch :
              job' = [job EXCEPT ![r] = [pc |-> l, op |-> op, id |-> id, patch |-> patch, row |-> Blank(id)]]
    BY <1>2 DEF Create, Update, Archive, Restore, RemoveUser, Toggle, Upload, Begin, At, Quiet, bucket
  <2> QED
    BY <1>1, <2>1 DEF Uploads, UploadPcs
<1>3. CASE Store(r)
  <2>1. /\ lastAvatar' = lastAvatar + 1 /\ stored' = stored \cup {lastAvatar + 1}
        /\ disturbed' = disturbed /\ job[r].pc = "store" /\ job'[r].pc = "find"
        /\ \A q \in Requests \ {r} : job'[q] = job[q]
    BY <1>1, <1>3 DEF Store, Uploaded, At, IInv, Typing
  <2> QED
    BY <2>1 DEF Uploads, UploadPcs
<1>4. CASE Fetch(r) \/ Unstore(r)
  <2>1. /\ lastAvatar' = lastAvatar /\ stored' \subseteq stored /\ disturbed' = disturbed
        /\ job[r].pc \in UploadPcs /\ \A q \in Requests \ {r} : job'[q] = job[q]
    BY <1>4 DEF Fetch, Unstore, Unstored, Quiet, bucket, At, Goto, Returns, Halt, UploadPcs, IInv, Typing
  <2> QED
    BY <2>1 DEF Uploads
<1>5. CASE \/ Exists(r) \/ Insert(r) \/ Mail(r) \/ Status(r) \/ Find(r) \/ Taken(r)
           \/ Load(r) \/ Save(r) \/ Unlink(r) \/ Fails(r)
  <2>1. UNCHANGED <<stored, lastAvatar>>
    BY <1>5 DEF Exists, Insert, Mail, Status, Find, Taken, Load, Save, Unlink, Fails, Quiet, bucket
  <2>2. ASSUME Exists(r) \/ Status(r) \/ Find(r) \/ Taken(r) \/ Fails(r)
        PROVE  Past(r)
    BY <2>2, PastUpload DEF Exists, Status, Find, Taken, Fails, UploadPcs
  <2>3. ASSUME Insert(r) \/ Mail(r)
        PROVE  Past(r)
    BY <2>3, PastUpload DEF Insert, Mail, Returns, UploadPcs
  <2>4. ASSUME Load(r)
        PROVE  Past(r)
    <3>1. CASE User(r).there
      <4> DEFINE m == Merge(job[r].patch, User(r))
                 j == [job[r] EXCEPT !.pc = "save", !.row = m]
      <4>1. job' = [job EXCEPT ![r] = j] /\ disturbed' = disturbed
        BY <2>4, <3>1 DEF Load
      <4> HIDE DEF m
      <4>2. j.pc = "save"
        OBVIOUS
      <4> HIDE DEF j
      <4> QED
        BY <1>1, <4>1, <4>2 DEF UploadPcs, Past
    <3>2. CASE ~User(r).there
      BY <2>4, <3>2, PastUpload DEF Load
    <3> QED
      BY <3>1, <3>2
  <2>5. ASSUME Save(r)
        PROVE  Past(r)
    <3>1. CASE Throws(r)
      BY <3>1, PastUpload
    <3>2. CASE ~Throws(r)
      <4>1. Halt(r) /\ disturbed' \subseteq disturbed \cup {job[r].row.id}
        BY <2>5, <3>2 DEF Save
      <4> QED
        BY <4>1, JobParts, PastUpload DEF IInv, Past
    <3> QED
      BY <3>1, <3>2
  <2>6. ASSUME Unlink(r)
        PROVE  Past(r)
    BY <2>6, PastUpload DEF Unlink
  <2> QED
    BY <1>5, <2>1, <2>2, <2>3, <2>4, <2>5, <2>6 DEF Past, Uploads
<1> QED
  BY <1>2, <1>3, <1>4, <1>5 DEF Step

\* The upload of a request that may still upload has its place counted.
LEMMA UploadsBounded ==
    ASSUME IInv, BoundInv, NEW r \in Requests, Uploads(r)
    PROVE  BoundInv'
<1>1. /\ IsFiniteSet(Requests) /\ MayUpload \in SUBSET Requests /\ MayUpload' \in SUBSET MayUpload
      /\ job[r].pc \in UploadPcs => r \in MayUpload
      /\ job'[r].pc \notin UploadPcs => r \notin MayUpload'
  BY UsersAssumption DEF Uploads, MayUpload
<1>2. /\ IsFiniteSet(MayUpload) /\ IsFiniteSet(MayUpload') /\ Cardinality(MayUpload) \in Nat
      /\ Cardinality(MayUpload') \in Nat /\ Cardinality(Requests) \in Nat
      /\ Cardinality(MayUpload') <= Cardinality(MayUpload)
      /\ MayUpload' # MayUpload => Cardinality(MayUpload') # Cardinality(MayUpload)
  BY <1>1, FS_Subset, FS_CardinalityType
<1>3. lastAvatar \in Nat /\ Len(Seeds) \in Nat /\ job[r].id \in Ids
  BY UsersAssumption, JobParts DEF IInv, Typing, Ids
<1>4. CASE lastAvatar' = lastAvatar /\ stored' \subseteq stored
  BY <1>2, <1>3, <1>4 DEF BoundInv, Uploads
<1>5. CASE /\ lastAvatar' = lastAvatar + 1 /\ stored' = stored \cup {lastAvatar + 1}
           /\ job[r].pc \in UploadPcs /\ job'[r].pc \notin UploadPcs
  <2>1. Cardinality(MayUpload') + 1 <= Cardinality(MayUpload)
    BY <1>1, <1>2, <1>5
  <2>2. stored' \subseteq 0..lastAvatar'
    BY <1>3, <1>5 DEF BoundInv
  <2> QED
    BY <1>2, <1>3, <1>5, <2>1, <2>2 DEF BoundInv, Uploads
<1> QED
  BY <1>4, <1>5 DEF Uploads

LEMMA BoundStep == IInv /\ BoundInv /\ [Next]_vars => BoundInv'
<1> SUFFICES ASSUME IInv, BoundInv, [Next]_vars
             PROVE  BoundInv'
  OBVIOUS
<1>1. ASSUME NEW r \in Requests, Step(r)
      PROVE  BoundInv'
  BY <1>1, StepUploads, UploadsBounded
<1>2. CASE UNCHANGED <<bucket, job, disturbed>>
  BY <1>2 DEF bucket, BoundInv, MayUpload
<1> QED
  BY <1>1, <1>2 DEF Next, vars

LEMMA BoundInitially ==
    ASSUME Init
    PROVE  BoundInv
<1>1. /\ lastAvatar = Len(Seeds) /\ stored = {users[i].avatar : i \in First} \ {0} /\ disturbed = {}
      /\ users = [i \in Ids |-> IF i \in First THEN Seeds[i] ELSE Blank(i)]
  BY DEF Init
<1>2. First \subseteq Ids /\ Len(Seeds) \in Nat /\ IsFiniteSet(Requests)
  BY UsersAssumption DEF First, Ids
<1>3. \A i \in First : users[i].avatar \in {0, i} /\ i \in 0..lastAvatar
  BY <1>1, <1>2, DataAssumption DEF First
<1>4. MayUpload \in SUBSET Requests
  BY DEF MayUpload
<1>5. /\ Cardinality(MayUpload) <= Cardinality(Requests)
      /\ Cardinality(MayUpload) \in Nat /\ Cardinality(Requests) \in Nat
  BY <1>2, <1>4, FS_Subset, FS_CardinalityType
<1> QED
  BY <1>1, <1>2, <1>3, <1>5 DEF BoundInv

\* For any number of requests, users and pages, rows, copies, objects and the walk
\* keep their types, and no avatar has a number beyond the uploads there can be: each
\* request uploads once (upload-avatar.provider.ts).
THEOREM TypeOKHolds == Spec => []TypeOK
<1>1. IInv /\ BoundInv /\ WalkInv => TypeOK
  <2> SUFFICES ASSUME IInv, BoundInv, WalkInv
               PROVE  TypeOK
    OBVIOUS
  <2>1. lastAvatar \in Avatars /\ 0..lastAvatar \subseteq Avatars /\ Avatars \subseteq Nat
    <3>1. IsFiniteSet(Requests) /\ MayUpload \in SUBSET Requests
      BY UsersAssumption DEF MayUpload
    <3>2. Cardinality(MayUpload) \in Nat /\ Cardinality(Requests) \in Nat
      BY <3>1, FS_Subset, FS_CardinalityType
    <3>3. lastAvatar \in Nat /\ Len(Seeds) \in Nat
      BY UsersAssumption DEF IInv, Typing, Ids
    <3> QED
      BY <3>2, <3>3 DEF BoundInv, Avatars
  <2>2. ASSUME NEW i \in Ids, NEW row \in AnyRow, \A n \in Nat \ {0} : row.avatar = n => Has(i, n)
        PROVE  row \in Rows
    <3>1. row.avatar \in Nat /\ lastAvatar \in Nat
      BY DEF AnyRow, IInv, Typing
    <3>2. row.avatar \in 0..lastAvatar
      BY <2>2, <3>1 DEF IInv, OwnerInv
    <3> QED
      BY <2>1, <3>2 DEF AnyRow, Rows
  <2>3. users \in [Ids -> Rows]
    <3>1. \A i \in Ids : users[i] \in AnyRow /\ \A n \in Nat \ {0} : users[i].avatar = n => Has(i, n)
      BY DEF IInv, Typing, Has
    <3> QED
      BY <2>2, <3>1 DEF IInv, Typing
  <2>4. ASSUME NEW r \in Requests
        PROVE  /\ job[r].pc \in Pcs /\ job[r].op \in Ops /\ job[r].id \in Ids
               /\ job[r].row \in Rows
    <3>1. /\ JobFits(job[r]) /\ job[r].id \in Ids /\ job[r].row \in AnyRow
          /\ \A n \in Nat \ {0} : job[r].row.avatar = n => Has(job[r].id, n)
      BY JobParts DEF IInv, Has
    <3> QED
      BY <2>2, <3>1 DEF JobFits
  <2> QED
    BY <2>1, <2>3, <2>4 DEF TypeOK, IInv, Typing, BoundInv, WalkInv
<1>2. Spec => []BoundInv
  BY UsersInvariant, BoundInitially, BoundStep, PTL DEF Spec
<1>3. Spec => []WalkInv
  BY UsersInvariant, WalkInitially, WalkStep, PTL DEF Spec
<1> QED
  BY <1>1, <1>2, <1>3, UsersInvariant, PTL
================================================================================
