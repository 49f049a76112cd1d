------------------------------ MODULE Accounts ------------------------------
(***************************************************************************)
(* The credentials of ONE e-mail address: its row in users, its one-time   *)
(* tokens in Redis and its password history, under sign-up, sign-in,       *)
(* e-mail verification, password reset and change, Google sign-in and the  *)
(* administrator's switch.                                                 *)
(*                                                                         *)
(* One action is one awaited call; req[w].pc is the await the request of   *)
(* worker w is suspended at.  A handler never updates a column: the        *)
(* repository loads the whole row, merges the columns it is given and      *)
(* saves the whole row, and another request may run between the two.       *)
(***************************************************************************)
EXTENDS Naturals, Sequences, FiniteSets

CONSTANTS
    Workers,        \* requests that can be in flight at the same time
    Passwords,      \* passwords a user can choose
    NoPassword,     \* the password of an account made by Google sign-in
    MaxAttempts,    \* MAX_LOGIN_FAILED_ATTEMPTS
    LockFor,        \* ACCOUNT_LOCKED_IN_MINUTES, in ticks of the clock
    HistoryLimit,   \* PASSWORD_HISTORY_LIMIT
    MaxTokens,      \* bound: one-time tokens generated
    MaxStores,      \* bound: passwords stored
    MaxFailures,    \* bound: failed sign-ins
    MaxNow,         \* bound: ticks of the clock
    Endpoints       \* which endpoints are exercised

ASSUME AccountsAssumption ==
    /\ NoPassword \notin Passwords
    /\ MaxAttempts \in Nat \ {0} /\ LockFor \in Nat \ {0}
    /\ HistoryLimit \in Nat \ {0}
    /\ MaxTokens \in Nat /\ MaxStores \in Nat /\ MaxFailures \in Nat /\ MaxNow \in Nat

VARIABLES
    exists,     \* is there a users row?
    row,        \* that row
    signedin,   \* has a client been given an access token of the account?
    hist,       \* password_histories, oldest first
    record,     \* Redis verification-token:<type>:<uid>, 0 if there is no key
    minted,     \* one-time tokens generated so far, as the types of the tokens
    mailed,     \* tokens that have reached the mailbox
    now,        \* the wall clock
    req,        \* the request each worker is serving
    \* History variables: read by no handler.
    stored,     \* passwords stored in the row, oldest first
    accepted,   \* tokens taken from Redis and accepted, and for what
    failures,   \* sign-ins with a wrong password since the last success
    lastFailure,\* when the last of them was
    disturbed   \* has a request overlapped another, or died?

account == <<exists, row, signedin>>
onetime == <<record, minted, mailed>>
ghosts  == <<stored, accepted, failures, lastFailure, disturbed>>
vars    == <<account, hist, onetime, now, req, ghosts>>

TokenTypes == {"VerifyEmail", "ForgotPassword"}
Tokens     == 1..MaxTokens

Rows == [password : Passwords \cup {NoPassword}, attempts : 0..MaxFailures,
         until : 0..(MaxNow + LockFor), verified : BOOLEAN, active : BOOLEAN,
         google : BOOLEAN]
NoRow == [password |-> NoPassword, attempts |-> 0, until |-> 0,
          verified |-> FALSE, active |-> FALSE, google |-> FALSE]

\* The columns an update is given.
Patches == [password : Passwords] \cup [attempts : 0..MaxFailures, until : 0..(MaxNow + LockFor)]
           \cup [verified : {TRUE}] \cup [active : BOOLEAN] \cup [google : {TRUE}]
           \cup {<<>>}
Merge(patch, r) == [c \in DOMAIN r |-> IF c \in DOMAIN patch THEN patch[c] ELSE r[c]]

Pcs == {"idle", "su_create", "go_create", "si_hash", "tk_set", "tk_mail",
        "tk_take", "pw_check", "us_find", "us_save", "ph_insert", "ph_prune"}

Requests == [pc    : Pcs,
             pw    : Passwords \cup {NoPassword},     \* password in the request
             seen  : Rows,                            \* the row as it was loaded
             patch : Patches,                         \* columns to write
             mint  : TokenTypes \cup {"none"},        \* token to generate
             take  : TokenTypes \cup {"none"},        \* token to consume
             token : 0..MaxTokens]                    \* token at hand

NoRequest == [pc |-> "idle", pw |-> NoPassword, seen |-> NoRow, patch |-> <<>>,
              mint |-> "none", take |-> "none", token |-> 0]

TypeOK ==
    /\ exists \in BOOLEAN /\ row \in Rows /\ signedin \in BOOLEAN
    /\ hist \in Seq(Passwords) /\ Len(hist) <= MaxStores
    /\ record \in [TokenTypes -> 0..Len(minted)]
    /\ minted \in Seq(TokenTypes) /\ Len(minted) <= MaxTokens
    /\ mailed \subseteq 1..Len(minted) /\ now \in 0..MaxNow
    /\ req \in [Workers -> Requests]
    /\ stored \in Seq(Passwords) /\ Len(stored) <= MaxStores
    /\ accepted \subseteq (0..Len(minted)) \X TokenTypes
    /\ failures \in 0..MaxFailures /\ lastFailure \in 0..now
    /\ disturbed \in BOOLEAN

Init ==
    /\ exists = FALSE /\ row = NoRow /\ signedin = FALSE /\ hist = <<>>
    /\ record = [y \in TokenTypes |-> 0] /\ minted = <<>> /\ mailed = {}
    /\ now = 0 /\ req = [w \in Workers |-> NoRequest]
    /\ stored = <<>> /\ accepted = {} /\ failures = 0 /\ lastFailure = 0
    /\ disturbed = FALSE

-----------------------------------------------------------------------------
Contents(s)  == {s[i] : i \in DOMAIN s}
LastN(s, n)  == SubSeq(s, IF Len(s) > n THEN Len(s) - n + 1 ELSE 1, Len(s))

At(w, l)     == req[w].pc = l
Goto(w, l)   == req' = [req EXCEPT ![w].pc = l]
Finish(w)    == req' = [req EXCEPT ![w] = NoRequest]
Alone(w)     == \A v \in Workers \ {w} : At(v, "idle")

\* A request begins; r is what it keeps across its first await.
Begin(w, r)  == /\ At(w, "idle")
                /\ req' = [req EXCEPT ![w] = r]
                /\ disturbed' = (disturbed \/ ~Alone(w))
                /\ UNCHANGED <<account, hist, onetime, now, stored, accepted,
                               failures, lastFailure>>

\* Bounds: a request that generates a token, or stores a password, starts only
\* while there is room for it.
MayMint  == Len(minted) + Cardinality({w \in Workers : req[w].mint # "none"})
            < MaxTokens
MayStore == Len(stored) + Cardinality({w \in Workers :
                /\ req[w].pw # NoPassword
                /\ req[w].pc \in {"su_create", "pw_check", "tk_take", "us_find", "us_save"}})
            < MaxStores

-----------------------------------------------------------------------------
(* BaseUpdateProvider on the users table: load the row, merge, save.        *)

UserFind(w) ==
    /\ At(w, "us_find")
    /\ req' = [req EXCEPT ![w] = [@ EXCEPT !.pc = "us_save", !.seen = row]]
    /\ UNCHANGED <<account, hist, onetime, now, ghosts>>

\* What a sign-in writes before it issues its tokens.
ClearedPatch == [attempts |-> 0, until |-> 0]
GooglePatch  == [google |-> TRUE]

UserSave(w) ==
    LET patch == req[w].patch IN
    /\ At(w, "us_save")
    /\ row' = Merge(patch, req[w].seen)
    /\ signedin' = (signedin \/ patch \in {ClearedPatch, GooglePatch})
    /\ IF "password" \in DOMAIN patch
       THEN stored' = Append(stored, patch.password) /\ Goto(w, "ph_insert")
       ELSE UNCHANGED stored /\ Finish(w)
    /\ UNCHANGED <<exists, hist, onetime, now, accepted, failures, lastFailure, disturbed>>

(* SavePasswordHistoryProvider: insert, then delete all but the last ones.  *)

HistoryInsert(w) ==
    /\ At(w, "ph_insert")
    /\ hist' = Append(hist, req[w].pw)
    /\ Goto(w, "ph_prune")
    /\ UNCHANGED <<account, onetime, now, ghosts>>

\* Mutant of HistoryPrune: one password fewer is kept.
HistoryPrune_OneFewer(w) ==
    /\ At(w, "ph_prune")
    /\ hist' = LastN(hist, HistoryLimit - 1)
    /\ IF req[w].mint # "none" THEN Goto(w, "tk_set") ELSE Finish(w)
    /\ UNCHANGED <<account, onetime, now, ghosts>>

HistoryPrune(w) ==
    /\ At(w, "ph_prune")
    /\ hist' = LastN(hist, HistoryLimit)
    /\ IF req[w].mint # "none" THEN Goto(w, "tk_set") ELSE Finish(w)
    /\ UNCHANGED <<account, onetime, now, ghosts>>

(* CreateTokenProvider: the key of a type is overwritten; then the mail.    *)

TokenSet(w) ==
    LET t == Len(minted) + 1 IN
    /\ At(w, "tk_set")
    /\ minted' = Append(minted, req[w].mint)
    /\ record' = [record EXCEPT ![req[w].mint] = t]
    /\ req' = [req EXCEPT ![w] = [@ EXCEPT !.pc = "tk_mail", !.mint = "none", !.token = t]]
    /\ UNCHANGED <<account, hist, mailed, now, ghosts>>

TokenMail(w) ==
    /\ At(w, "tk_mail")
    /\ mailed' = mailed \cup {req[w].token}
    /\ Finish(w)
    /\ UNCHANGED <<account, hist, record, minted, now, ghosts>>

\* Mutants of TokenTake: GET without DEL; the tokens are not compared.
TokenTake_Kept(w) ==
    LET r == req[w] IN
    /\ At(w, "tk_take")
    /\ IF record[r.take] # 0 /\ record[r.take] = r.token
       THEN Goto(w, "us_find") /\ accepted' = accepted \cup {<<r.token, r.take>>}
       ELSE Finish(w) /\ UNCHANGED accepted
    /\ UNCHANGED <<account, hist, onetime, now, stored, failures, lastFailure, disturbed>>

TokenTake_AnyToken(w) ==
    LET r == req[w] IN
    /\ At(w, "tk_take")
    /\ record' = [record EXCEPT ![r.take] = 0]
    /\ IF record[r.take] # 0
       THEN Goto(w, "us_find") /\ accepted' = accepted \cup {<<r.token, r.take>>}
       ELSE Finish(w) /\ UNCHANGED accepted
    /\ UNCHANGED <<account, hist, minted, mailed, now, stored, failures,
                   lastFailure, disturbed>>

(* VerifyTokenProvider: GETDEL, then compare; a wrong guess burns the token. *)

TokenTake(w) ==
    LET r == req[w] IN
    /\ At(w, "tk_take")
    /\ record' = [record EXCEPT ![r.take] = 0]
    /\ IF record[r.take] # 0 /\ record[r.take] = r.token
       THEN Goto(w, "us_find") /\ accepted' = accepted \cup {<<r.token, r.take>>}
       ELSE Finish(w) /\ UNCHANGED accepted
    /\ UNCHANGED <<account, hist, minted, mailed, now, stored, failures,
                   lastFailure, disturbed>>

-----------------------------------------------------------------------------
(* Sign-up and Google sign-in.                                             *)

\* An e-mail address that is registered is a 409.
SignupStart(w, p) ==
    /\ "signup" \in Endpoints /\ ~exists /\ MayMint /\ MayStore
    /\ Begin(w, [NoRequest EXCEPT !.pc = "su_create", !.pw = p, !.mint = "VerifyEmail"])

\* The unique index turns the loser of two sign-ups into a 409.
SignupCreate(w) ==
    /\ At(w, "su_create")
    /\ \/ exists /\ Finish(w) /\ UNCHANGED <<account, stored>>
       \/ /\ ~exists /\ exists' = TRUE
          /\ row' = [NoRow EXCEPT !.password = req[w].pw, !.active = TRUE]
          /\ stored' = Append(stored, req[w].pw)
          /\ Goto(w, "ph_insert") /\ UNCHANGED signedin
    /\ UNCHANGED <<hist, onetime, now, accepted, failures, lastFailure, disturbed>>

\* No row: it is created.  A row without a Google id: the id is stored.
GoogleStart(w) ==
    /\ "google" \in Endpoints
    /\ \/ ~exists /\ Begin(w, [NoRequest EXCEPT !.pc = "go_create"])
       \/ /\ exists /\ row.active /\ ~row.google
          /\ Begin(w, [NoRequest EXCEPT !.pc = "us_find", !.patch = GooglePatch])

\* The id is there: nothing is written before the tokens are issued.
GoogleReturns(w) ==
    /\ "google" \in Endpoints /\ exists /\ row.active /\ row.google
    /\ At(w, "idle") /\ signedin' = TRUE
    /\ UNCHANGED <<exists, row, hist, onetime, now, req, ghosts>>

\* Google has verified the address.
GoogleCreate(w) ==
    /\ At(w, "go_create")
    /\ \/ exists /\ UNCHANGED account
       \/ /\ ~exists /\ exists' = TRUE /\ signedin' = TRUE
          /\ row' = [NoRow EXCEPT !.verified = TRUE, !.active = TRUE, !.google = TRUE]
    /\ Finish(w)
    /\ UNCHANGED <<hist, onetime, now, ghosts>>

-----------------------------------------------------------------------------
(* Sign-in: the row is read, the password is hashed, then the guards run on *)
(* the row as it was read.                                                 *)

SigninStart(w, p) ==
    /\ "signin" \in Endpoints /\ exists
    /\ p = row.password \/ row.attempts < MaxFailures
    /\ Begin(w, [NoRequest EXCEPT !.pc = "si_hash", !.pw = p, !.seen = row])

\* Deleted, inactive and locked accounts are refused, whatever the password.
SigninRefused(r) == ~r.active \/ r.until > now

SigninRefuse(w) ==
    /\ At(w, "si_hash") /\ SigninRefused(req[w].seen)
    /\ Finish(w)
    /\ UNCHANGED <<account, hist, onetime, now, ghosts>>

\* Mutants of FailedPatch: one attempt too many; the failure is counted twice.
FailedPatch_OffByOne(r) == [attempts |-> r.attempts + 1,
                            until    |-> IF r.attempts + 1 > MaxAttempts
                                         THEN now + LockFor ELSE r.until]
FailedPatch_Twice(r) == [attempts |-> r.attempts + 2,
                         until    |-> IF r.attempts + 2 >= MaxAttempts
                                      THEN now + LockFor ELSE r.until]

FailedPatch(r) == [attempts |-> r.attempts + 1,
                   until    |-> IF r.attempts + 1 >= MaxAttempts THEN now + LockFor
                                ELSE r.until]

SigninFail(w) ==
    LET r == req[w].seen IN
    /\ At(w, "si_hash") /\ ~SigninRefused(r) /\ req[w].pw # r.password
    /\ req' = [req EXCEPT ![w] = [NoRequest EXCEPT !.pc = "us_find", !.patch = FailedPatch(r)]]
    /\ failures' = IF failures < MaxFailures THEN failures + 1 ELSE failures
    /\ lastFailure' = now
    /\ UNCHANGED <<account, hist, onetime, now, stored, accepted, disturbed>>

\* The right password of an address that is not verified is a 403.
SigninUnverified(w) ==
    LET r == req[w].seen IN
    /\ At(w, "si_hash") /\ ~SigninRefused(r) /\ req[w].pw = r.password /\ ~r.verified
    /\ Finish(w)
    /\ UNCHANGED <<account, hist, onetime, now, ghosts>>

SigninPass(w) ==
    LET r == req[w].seen IN
    /\ At(w, "si_hash") /\ ~SigninRefused(r) /\ req[w].pw = r.password /\ r.verified
    /\ req' = [req EXCEPT ![w] = [NoRequest EXCEPT !.pc = "us_find",
                                                   !.patch = ClearedPatch]]
    /\ failures' = 0
    /\ UNCHANGED <<account, hist, onetime, now, stored, accepted, lastFailure, disturbed>>

-----------------------------------------------------------------------------
(* E-mail verification, password reset and password change.                *)

\* Unknown and verified addresses are answered alike, without a token.
ResendVerification(w) ==
    /\ "resend" \in Endpoints /\ exists /\ ~row.verified /\ MayMint
    /\ Begin(w, [NoRequest EXCEPT !.pc = "tk_set", !.mint = "VerifyEmail"])

ForgotPassword(w) ==
    /\ "forgot" \in Endpoints /\ exists /\ row.active /\ row.verified /\ MayMint
    /\ Begin(w, [NoRequest EXCEPT !.pc = "tk_set", !.mint = "ForgotPassword"])

\* A verified address is a 409 before the token is looked at.
VerifyEmail(w, t) ==
    /\ "verify" \in Endpoints /\ exists /\ ~row.verified
    /\ Begin(w, [NoRequest EXCEPT !.pc = "tk_take", !.take = "VerifyEmail", !.token = t,
                                  !.patch = [verified |-> TRUE]])

\* The current password is a 403.
ResetPassword(w, t, p) ==
    /\ "reset" \in Endpoints /\ exists /\ p # row.password /\ MayStore
    /\ Begin(w, [NoRequest EXCEPT !.pc = "pw_check", !.pw = p, !.take = "ForgotPassword",
                                  !.token = t, !.patch = [password |-> p]])

\* The old password must match; an account made by Google has none.
ChangePassword(w, old, p) ==
    /\ "change" \in Endpoints /\ exists /\ signedin /\ old = row.password /\ MayStore
    /\ Begin(w, [NoRequest EXCEPT !.pc = "pw_check", !.pw = p, !.patch = [password |-> p]])

\* CheckPasswordHistoryProvider: a recent password is a 422.
PasswordCheck(w) ==
    /\ At(w, "pw_check")
    /\ IF req[w].pw \in Contents(LastN(hist, HistoryLimit)) THEN Finish(w)
       ELSE IF req[w].take = "none" THEN Goto(w, "us_find") ELSE Goto(w, "tk_take")
    /\ UNCHANGED <<account, hist, onetime, now, ghosts>>

\* Activating an active account, or deactivating an inactive one, is a 409.
ToggleUserStatus(w, a) ==
    /\ "admin" \in Endpoints /\ exists /\ row.active # a
    /\ Begin(w, [NoRequest EXCEPT !.pc = "us_find", !.patch = [active |-> a]])

-----------------------------------------------------------------------------
TokenExpires(y) ==
    /\ "expiry" \in Endpoints /\ record[y] # 0
    /\ record' = [record EXCEPT ![y] = 0]
    /\ UNCHANGED <<account, hist, minted, mailed, now, req, ghosts>>

Tick ==
    /\ now < MaxNow /\ now' = now + 1
    /\ UNCHANGED <<account, hist, onetime, req, ghosts>>

\* An awaited call throws or the process dies.
Abort(w) ==
    /\ "faults" \in Endpoints /\ ~At(w, "idle")
    /\ Finish(w) /\ disturbed' = TRUE
    /\ UNCHANGED <<account, hist, onetime, now, stored, accepted, failures, lastFailure>>

Start(w) ==
    \/ GoogleStart(w) \/ GoogleReturns(w) \/ ResendVerification(w) \/ ForgotPassword(w)
    \/ \E p \in Passwords : \/ SignupStart(w, p) \/ SigninStart(w, p)
                            \/ \E old \in Passwords : ChangePassword(w, old, p)
    \/ \E t \in mailed \cup {0} : \/ VerifyEmail(w, t)
                                  \/ \E p \in Passwords : ResetPassword(w, t, p)
    \/ \E a \in BOOLEAN : ToggleUserStatus(w, a)

Continue(w) ==
    \/ SignupCreate(w) \/ GoogleCreate(w) \/ UserFind(w) \/ UserSave(w)
    \/ HistoryInsert(w) \/ HistoryPrune(w) \/ TokenSet(w) \/ TokenMail(w)
    \/ TokenTake(w) \/ PasswordCheck(w)
    \/ SigninRefuse(w) \/ SigninFail(w) \/ SigninUnverified(w) \/ SigninPass(w)

Next == \/ \E w \in Workers : Start(w) \/ Continue(w) \/ Abort(w)
        \/ \E y \in TokenTypes : TokenExpires(y)
        \/ Tick

Spec == Init /\ [][Next]_vars

-----------------------------------------------------------------------------
(* Properties.                                                             *)

Quiet == \A w \in Workers : At(w, "idle")

\* A one-time token is accepted for the purpose it was mailed for, and never
\* twice: once accepted it is in Redis no more (verify-token.provider.ts).
TokenIsSpent ==
    \A a \in accepted : /\ a[1] \in 1..Len(minted) /\ minted[a[1]] = a[2]
                        /\ \A y \in TokenTypes : record[y] # a[1]

\* An address is verified only by a token mailed to it or by Google, whatever
\* stale rows are saved meanwhile.
VerifiedByMail ==
    row.verified => row.google \/ \E t \in mailed : <<t, "VerifyEmail">> \in accepted

\* MAX_LOGIN_FAILED_ATTEMPTS wrong passwords in a row lock the account for
\* ACCOUNT_LOCKED_IN_MINUTES, when requests do not overlap.
GuessingLocks ==
    Quiet /\ ~disturbed /\ failures >= MaxAttempts => row.until = lastFailure + LockFor

\* A password is never one of the last PASSWORD_HISTORY_LIMIT, when requests do
\* not overlap.
NoRecentReuse ==
    ~disturbed => \A i, j \in DOMAIN stored :
                    i < j /\ j - i <= HistoryLimit => stored[i] # stored[j]

\* "only the supplied fields are overwritten; existing fields are left intact":
\* the password of the row is the last one a handler was asked to store.
LastPasswordHolds ==
    stored # <<>> => row.password = stored[Len(stored)]
=============================================================================
