---------------------------- MODULE AuthSessions ----------------------------
(***************************************************************************)
(* The sessions of ONE user of the template: what sign-in, refresh,        *)
(* logout, session revocation and the password endpoints do to             *)
(*                                                                         *)
(*   - the refresh_tokens table          row, rowFam                       *)
(*   - the login_histories table         history                           *)
(*   - the Redis session hashes          redis     (auth:<uid>:<fam>:<sid>) *)
(*   - the Redis blacklist               blAccess, blRefresh               *)
(*                                                                         *)
(* Every handler is an async function on one event loop: it runs without   *)
(* interruption between two awaits and anything may run at an await.  One  *)
(* action is one awaited call with the synchronous code around it, and     *)
(* req[w].pc is the await the request of worker w is suspended at.         *)
(*                                                                         *)
(* A token pair (access JWT, refresh JWT) is a number: pairs are numbered  *)
(* in the order they are signed, and a session is named by its first pair. *)
(* Time is abstract: a token may expire at any moment after it is signed,  *)
(* an access token before its refresh token.                               *)
(***************************************************************************)
EXTENDS Naturals, FiniteSets

CONSTANTS
    Workers,        \* requests that can be in flight at the same time
    Families,       \* device fingerprints (IP | User-Agent)
    NoFamily,       \* the fingerprint of a pair that was never signed
    MaxPairs,       \* bound: token pairs signed in a behaviour
    MaxPasswords,   \* bound: password changes in a behaviour
    Endpoints,      \* which endpoints and background jobs are exercised
    Drift,          \* may a client refresh from another fingerprint?
    Faults          \* may an awaited call throw or the process die?

ASSUME ConstantsAssumption ==
    /\ MaxPairs \in Nat /\ MaxPasswords \in Nat
    /\ NoFamily \notin Families
    /\ Drift \in BOOLEAN /\ Faults \in BOOLEAN

None  == 0
Pairs == 1..MaxPairs
Keys  == Families \X Pairs      \* <<familyId, sessionId>> of a Redis session

VARIABLES
    account,    \* users.is_active and not deleted
    password,   \* generation of the stored password hash
    issued,     \* number of pairs signed so far
    claims,     \* what the JWTs of a pair carry, its parent and password
    row,        \* refresh_tokens: state of the row of a pair
    rowFam,     \* refresh_tokens.family_id of that row
    redis,      \* the pair stored under a session key, None if no key
    blAccess,   \* pairs whose access token is blacklisted
    blRefresh,  \* pairs whose refresh token is blacklisted
    history,    \* login_histories: the row of a session
    delivered,  \* pairs a response has carried to the client
    atExpired,  \* pairs whose access token has expired
    rtExpired,  \* pairs whose refresh token (JWT and row) has expired
    req         \* the request each worker is serving

user   == <<account, password>>
tokens == <<issued, claims>>
table  == <<row, rowFam>>
cache  == <<redis, blAccess, blRefresh>>
clock  == <<atExpired, rtExpired>>
vars   == <<user, tokens, table, cache, history, delivered, clock, req>>

RowStates     == {"none", "live", "revoked"}
HistoryStates == {"none", "open", "closed"}

Claims == [fam : Families \cup {NoFamily}, sess : 0..MaxPairs,
           parent : 0..MaxPairs, password : 0..MaxPasswords]

SigninPcs   == {"si_scan", "si_drop", "si_revoke", "si_close", "si_issue",
                "si_clean", "si_store", "si_record"}
RefreshPcs  == {"rf_verify", "rf_revoke", "rf_issue", "rf_clean", "rf_old",
                "rf_black", "rf_store", "rf_find", "rf_save",
                "th_revoke", "th_scan", "th_drop"}
LogoutPcs   == {"lo_read", "lo_drop", "lo_verify", "lo_revoke", "lo_close",
                "lo_clean", "la_keys", "la_close", "la_clean"}
RevokePcs   == {"rs_read", "rs_black", "rs_verify", "rs_revoke", "rs_del"}
PasswordPcs == {"pw_revoke", "pw_scan", "pw_keys"}
\* Where the new pair is already signed.
SignedPcs   == {"si_clean", "si_store", "si_record", "rf_clean", "rf_old",
                "rf_black", "rf_store", "rf_find", "rf_save"}
Pcs == {"idle"} \cup SigninPcs \cup RefreshPcs \cup LogoutPcs
                \cup RevokePcs \cup PasswordPcs

\* The locals of a handler that are live across an await.
Requests == [pc   : Pcs,
             arg  : 0..MaxPairs,                  \* the pair presented
             fp   : Families \cup {NoFamily},     \* fingerprint of the request
             pw   : 0..MaxPasswords,              \* password checked at sign-in
             new  : 0..MaxPairs,                  \* the pair signed
             old  : 0..MaxPairs,                  \* the pair read from Redis
             todo : SUBSET Keys,                  \* keys a scan returned
             held : SUBSET (Keys \X (0..MaxPairs)), \* hashes read, not yet dropped
             seen : HistoryStates]                \* history row read by a find

NoRequest == [pc |-> "idle", arg |-> None, fp |-> NoFamily, pw |-> 0,
              new |-> None, old |-> None, todo |-> {}, held |-> {},
              seen |-> "none"]
NoClaims  == [fam |-> NoFamily, sess |-> None, parent |-> None, password |-> 0]

StoresOK ==
    /\ account \in BOOLEAN /\ password \in 0..MaxPasswords
    /\ issued \in 0..MaxPairs /\ claims \in [Pairs -> Claims]
    /\ row \in [Pairs -> RowStates]
    /\ rowFam \in [Pairs -> Families \cup {NoFamily}]
    /\ redis \in [Keys -> 0..MaxPairs]
    /\ blAccess \in SUBSET Pairs /\ blRefresh \in SUBSET Pairs
    /\ history \in [Pairs -> HistoryStates]
    /\ delivered \in SUBSET Pairs
    /\ atExpired \in SUBSET Pairs /\ rtExpired \in SUBSET Pairs

TypeOK == StoresOK /\ req \in [Workers -> Requests]

Init ==
    /\ account = TRUE /\ password = 0
    /\ issued = 0 /\ claims = [p \in Pairs |-> NoClaims]
    /\ row = [p \in Pairs |-> "none"] /\ rowFam = [p \in Pairs |-> NoFamily]
    /\ redis = [k \in Keys |-> None] /\ blAccess = {} /\ blRefresh = {}
    /\ history = [s \in Pairs |-> "none"]
    /\ delivered = {} /\ atExpired = {} /\ rtExpired = {}
    /\ req = [w \in Workers |-> NoRequest]

-----------------------------------------------------------------------------
(* What the awaited calls do to the two stores.                            *)

\* UPDATE refresh_tokens SET revoked_at ... WHERE revoked_at IS NULL AND ...
RevokeRows(S) == row' = [p \in Pairs |-> IF p \in S /\ row[p] = "live"
                                         THEN "revoked" ELSE row[p]]

\* Bug: rows go when their access token has expired.
CleanupRows_AccessExpiry ==
    row' = [p \in Pairs |-> IF row[p] = "revoked" \/ p \in atExpired
                            THEN "none" ELSE row[p]]

\* DELETE FROM refresh_tokens WHERE revoked_at IS NOT NULL OR expires_at <= now
CleanupRows == row' = [p \in Pairs |-> IF row[p] = "revoked" \/ p \in rtExpired
                                       THEN "none" ELSE row[p]]

\* Bug: the save writes the row as it was loaded, before it was revoked.
UpdateRow_Stale(p)    == row[p] # "none" /\ row' = [row EXCEPT ![p] = "live"]
\* Bug: the row is found and not saved.
UpdateRow_NotSaved(p) == row[p] # "none" /\ UNCHANGED row

\* findOne({id}) -> 404, then save: a row that vanished in between is a 404.
UpdateRow(p) == /\ row[p] # "none"
                /\ row' = [row EXCEPT ![p] = "revoked"]

\* updateMany(open rows of the sessions S, { loggedOutAt }).
CloseHistory(S) == history' = [s \in Pairs |-> IF s \in S /\ history[s] = "open"
                                               THEN "closed" ELSE history[s]]

LiveKeys      == {k \in Keys : redis[k] # None}
FamilyKeys(f) == {k \in LiveKeys : k[1] = f}

\* What a scan for the keys K may return: a KEYS that fails returns none.
Scans(K) == {K} \cup {S \in {{}} : Faults}
DeleteKeys(K) == redis' = [k \in Keys |-> IF k \in K THEN None ELSE redis[k]]

\* Bug: a missing hash is not checked for, "undefined" is blacklisted.
BlacklistAccess_Unchecked(p) == blAccess' = blAccess \cup {p}
BlacklistAccess(p)  == blAccess' = blAccess \cup ({p} \ {None})
BlacklistRefresh(p) == blRefresh' = blRefresh \cup ({p} \ {None})

KeyOf(p) == <<claims[p].fam, claims[p].sess>>

At(w, l)     == req[w].pc = l
Goto(w, l)   == req' = [req EXCEPT ![w].pc = l]
Finish(w)    == req' = [req EXCEPT ![w] = NoRequest]

\* Bound: a request that will sign a pair starts only while a number is left.
Signing == {w \in Workers : req[w].pc \in {"si_scan", "si_drop", "si_revoke",
                "si_close", "si_issue", "rf_verify", "rf_revoke", "rf_issue"}}
Room    == issued + Cardinality(Signing) < MaxPairs

\* JwtAuthGuard: the access token is neither blacklisted nor expired.
MayCall(p) == p \in delivered /\ p \notin blAccess /\ p \notin atExpired

\* Sign the next pair and insert its refresh_tokens row.
Issue(w, c, f, l) ==
    LET q == issued + 1 IN
    /\ issued < MaxPairs
    /\ issued' = q
    /\ claims' = [claims EXCEPT ![q] = c]
    /\ row' = [row EXCEPT ![q] = "live"]
    /\ rowFam' = [rowFam EXCEPT ![q] = f]
    /\ req' = [req EXCEPT ![w].pc = l, ![w].new = q]

\* The cleanup that ends a rotation, a sign-in or a logout.
Cleanup(w, here, l) ==
    /\ At(w, here)
    /\ CleanupRows
    /\ IF l = "idle" THEN Finish(w) ELSE Goto(w, l)
    /\ UNCHANGED <<user, tokens, rowFam, cache, history, delivered, clock>>

-----------------------------------------------------------------------------
(* Sign-in: SigninProvider, GoogleSigninProvider.                          *)

\* The guards have passed with the password as it is now.
SigninStart(w, f) ==
    /\ "signin" \in Endpoints /\ account /\ Room /\ At(w, "idle")
    /\ req' = [req EXCEPT ![w] = [NoRequest EXCEPT !.pc = "si_scan", !.fp = f,
                                                   !.pw = password]]
    /\ UNCHANGED <<user, tokens, table, cache, history, delivered, clock>>

\* A verified Google ID token takes the place of the password.
GoogleSigninStart(w, f) ==
    /\ "google" \in Endpoints /\ account /\ Room /\ At(w, "idle")
    /\ req' = [req EXCEPT ![w] = [NoRequest EXCEPT !.pc = "si_scan", !.fp = f,
                                                   !.pw = password]]
    /\ UNCHANGED <<user, tokens, table, cache, history, delivered, clock>>

SigninScan(w) ==
    /\ At(w, "si_scan")
    /\ \E K \in Scans(FamilyKeys(req[w].fp)) :
         req' = [req EXCEPT ![w].pc = "si_drop", ![w].todo = K]
    /\ UNCHANGED <<user, tokens, table, cache, history, delivered, clock>>

\* The replaced session's key goes, its access token is not blacklisted.
SigninDrop(w) ==
    /\ At(w, "si_drop")
    /\ DeleteKeys(req[w].todo)
    /\ req' = [req EXCEPT ![w].pc = "si_revoke", ![w].todo = {}]
    /\ UNCHANGED <<user, tokens, table, blAccess, blRefresh, history, delivered,
                   clock>>

SigninRevoke(w) ==
    /\ At(w, "si_revoke")
    /\ RevokeRows({p \in Pairs : rowFam[p] = req[w].fp})
    /\ Goto(w, "si_close")
    /\ UNCHANGED <<user, tokens, rowFam, cache, history, delivered, clock>>

\* Bug: the family is left out of the WHERE clause.
SigninClose_EveryFamily(w) ==
    /\ At(w, "si_close")
    /\ CloseHistory(Pairs)
    /\ Goto(w, "si_issue")
    /\ UNCHANGED <<user, tokens, table, cache, delivered, clock>>

\* logoutByFamily: the family of a history row is that of the sign-in.
SigninClose(w) ==
    /\ At(w, "si_close")
    /\ CloseHistory({s \in Pairs : claims[s].fam = req[w].fp})
    /\ Goto(w, "si_issue")
    /\ UNCHANGED <<user, tokens, table, cache, delivered, clock>>

SigninIssue(w) ==
    /\ At(w, "si_issue")
    /\ Issue(w, [fam |-> req[w].fp, sess |-> issued + 1, parent |-> None,
                 password |-> req[w].pw], req[w].fp, "si_clean")
    /\ UNCHANGED <<user, cache, history, delivered, clock>>

SigninClean(w) == Cleanup(w, "si_clean", "si_store")

SigninStore(w) ==
    /\ At(w, "si_store")
    /\ redis' = [redis EXCEPT ![KeyOf(req[w].new)] = req[w].new]
    /\ Goto(w, "si_record")
    /\ UNCHANGED <<user, tokens, table, blAccess, blRefresh, history, delivered,
                   clock>>

\* The history row is written last; then the response leaves.
SigninRecord(w) ==
    /\ At(w, "si_record")
    /\ history' = [history EXCEPT ![req[w].new] = "open"]
    /\ delivered' = delivered \cup {req[w].new}
    /\ Finish(w)
    /\ UNCHANGED <<user, tokens, table, cache, clock>>

-----------------------------------------------------------------------------
(* Refresh: RefreshTokenProvider.                                          *)

\* An expired JWT still names a session: its history row is closed, then 401.
RefreshExpired(p) ==
    /\ "refresh" \in Endpoints /\ p \in delivered /\ p \in rtExpired
    /\ CloseHistory({claims[p].sess})
    /\ UNCHANGED <<user, tokens, table, cache, delivered, clock, req>>

\* The JWT verifies and is not blacklisted.
RefreshStart(w, p, f) ==
    /\ "refresh" \in Endpoints /\ Room /\ At(w, "idle")
    /\ p \in delivered /\ p \notin rtExpired /\ p \notin blRefresh
    /\ Drift \/ f = rowFam[p]
    /\ req' = [req EXCEPT ![w] = [NoRequest EXCEPT !.pc = "rf_verify",
                                                   !.arg = p, !.fp = f]]
    /\ UNCHANGED <<user, tokens, table, cache, history, delivered, clock>>

\* Bug: the new pair is signed before the consumed row is revoked.
RefreshVerify_SignFirst(w) ==
    /\ At(w, "rf_verify") /\ account
    /\ row[req[w].arg] = "live" /\ req[w].arg \notin rtExpired
    /\ Goto(w, "rf_issue")
    /\ UNCHANGED <<user, tokens, table, cache, history, delivered, clock>>

\* The unrevoked row with this hash is found.
RefreshVerify(w) ==
    /\ At(w, "rf_verify") /\ account
    /\ row[req[w].arg] = "live" /\ req[w].arg \notin rtExpired
    /\ Goto(w, "rf_revoke")
    /\ UNCHANGED <<user, tokens, table, cache, history, delivered, clock>>

\* 401: inactive user, expired row, or a session past its cap (the cap is a
\* wall-clock test; here it may fail for any row that is found).
RefreshRefuse(w) ==
    /\ At(w, "rf_verify")
    /\ ~account \/ row[req[w].arg] = "live"
    /\ Finish(w)
    /\ UNCHANGED <<user, tokens, table, cache, history, delivered, clock>>

\* A valid JWT without a row signals theft.
RefreshTheft(w) ==
    /\ At(w, "rf_verify") /\ account
    /\ row[req[w].arg] # "live"
    /\ Goto(w, "th_revoke")
    /\ UNCHANGED <<user, tokens, table, cache, history, delivered, clock>>

TheftRevoke(w) ==
    /\ At(w, "th_revoke")
    /\ RevokeRows({p \in Pairs : rowFam[p] = claims[req[w].arg].fam})
    /\ Goto(w, "th_scan")
    /\ UNCHANGED <<user, tokens, rowFam, cache, history, delivered, clock>>

TheftScan(w) ==
    /\ At(w, "th_scan")
    /\ \E K \in Scans(FamilyKeys(claims[req[w].arg].fam)) :
         req' = [req EXCEPT ![w].pc = "th_drop", ![w].todo = K]
    /\ UNCHANGED <<user, tokens, table, cache, history, delivered, clock>>

TheftDrop(w) ==
    /\ At(w, "th_drop")
    /\ DeleteKeys(req[w].todo)
    /\ Finish(w)
    /\ UNCHANGED <<user, tokens, table, blAccess, blRefresh, history, delivered,
                   clock>>

\* The consumed row is revoked; if a cleanup deleted it first, 404.
RefreshRevoke(w) ==
    /\ At(w, "rf_revoke")
    /\ \/ UpdateRow(req[w].arg) /\ Goto(w, "rf_issue")
       \/ row[req[w].arg] = "none" /\ Finish(w) /\ UNCHANGED row
    /\ UNCHANGED <<user, tokens, rowFam, cache, history, delivered, clock>>

\* Bug: the new pair opens a session of its own.
RefreshIssue_NewSession(w) ==
    LET p == req[w].arg IN
    /\ At(w, "rf_issue")
    /\ Issue(w, [claims[p] EXCEPT !.fam = rowFam[p], !.parent = p,
                                  !.sess = issued + 1], req[w].fp, "rf_clean")
    /\ UNCHANGED <<user, cache, history, delivered, clock>>

\* The JWT takes its family from the consumed row, the new row takes the
\* fingerprint of the request.
RefreshIssue(w) ==
    LET p == req[w].arg IN
    /\ At(w, "rf_issue")
    /\ Issue(w, [claims[p] EXCEPT !.fam = rowFam[p], !.parent = p],
             req[w].fp, "rf_clean")
    /\ UNCHANGED <<user, cache, history, delivered, clock>>

RefreshClean(w) == Cleanup(w, "rf_clean", "rf_old")

\* Bug: the hash is read after it was overwritten with the new pair.
RefreshReadOld_AfterStore(w) ==
    /\ At(w, "rf_old")
    /\ req' = [req EXCEPT ![w].pc = "rf_black", ![w].old = req[w].new]
    /\ UNCHANGED <<user, tokens, table, cache, history, delivered, clock>>

RefreshReadOld(w) ==
    /\ At(w, "rf_old")
    /\ req' = [req EXCEPT ![w].pc = "rf_black",
                          ![w].old = redis[KeyOf(req[w].new)]]
    /\ UNCHANGED <<user, tokens, table, cache, history, delivered, clock>>

\* What Redis held is blacklisted, not the token that was presented.
RefreshBlacklist(w) ==
    /\ At(w, "rf_black")
    /\ BlacklistAccess(req[w].old) /\ BlacklistRefresh(req[w].old)
    /\ req' = [req EXCEPT ![w].pc = "rf_store", ![w].old = None]
    /\ UNCHANGED <<user, tokens, table, redis, history, delivered, clock>>

\* Bug: the key is built from the fingerprint of the request.
RefreshStore_RequestFamily(w) ==
    /\ At(w, "rf_store")
    /\ redis' = [redis EXCEPT ![<<req[w].fp, claims[req[w].new].sess>>] = req[w].new]
    /\ Goto(w, "rf_find")
    /\ UNCHANGED <<user, tokens, table, blAccess, blRefresh, history, delivered,
                   clock>>

\* hmset writes the hash whether or not the key is still there.
RefreshStore(w) ==
    /\ At(w, "rf_store")
    /\ redis' = [redis EXCEPT ![KeyOf(req[w].new)] = req[w].new]
    /\ Goto(w, "rf_find")
    /\ UNCHANGED <<user, tokens, table, blAccess, blRefresh, history, delivered,
                   clock>>

\* updateLoginHistoryExpiry loads the whole row; without one, 404.
RefreshFindHistory(w) ==
    LET s == claims[req[w].new].sess IN
    /\ At(w, "rf_find")
    /\ \/ /\ history[s] # "none"
          /\ req' = [req EXCEPT ![w].pc = "rf_save", ![w].seen = history[s]]
       \/ history[s] = "none" /\ Finish(w)
    /\ UNCHANGED <<user, tokens, table, cache, history, delivered, clock>>

\* ... and saves it as it was loaded, with the new expiry.
RefreshSaveHistory(w) ==
    /\ At(w, "rf_save")
    /\ history' = [history EXCEPT ![claims[req[w].new].sess] = req[w].seen]
    /\ delivered' = delivered \cup {req[w].new}
    /\ Finish(w)
    /\ UNCHANGED <<user, tokens, table, cache, clock>>

-----------------------------------------------------------------------------
(* Logout: LogoutProvider, one session.                                    *)

LogoutStart(w, p) ==
    /\ "logout" \in Endpoints /\ MayCall(p) /\ At(w, "idle")
    /\ req' = [req EXCEPT ![w] = [NoRequest EXCEPT !.pc = "lo_read", !.arg = p]]
    /\ UNCHANGED <<user, tokens, table, cache, history, delivered, clock>>

LogoutRead(w) ==
    /\ At(w, "lo_read")
    /\ req' = [req EXCEPT ![w].pc = "lo_drop",
                          ![w].old = redis[KeyOf(req[w].arg)]]
    /\ UNCHANGED <<user, tokens, table, cache, history, delivered, clock>>

\* blacklistAndDelete: without a hash nothing is deleted.
LogoutDrop(w) ==
    LET p == req[w].old IN
    /\ At(w, "lo_drop")
    /\ BlacklistAccess(p) /\ BlacklistRefresh(p)
    /\ IF p # None THEN DeleteKeys({KeyOf(req[w].arg)}) ELSE UNCHANGED redis
    /\ Goto(w, "lo_verify")
    /\ UNCHANGED <<user, tokens, table, history, delivered, clock>>

\* Bug: only the cookie names the token to revoke.
LogoutVerify_CookieOnly(w) ==
    /\ At(w, "lo_verify")
    /\ \E t \in {None, req[w].arg} :
         req' = IF t # None /\ row[t] = "live"
                THEN [req EXCEPT ![w].pc = "lo_revoke", ![w].old = t]
                ELSE [req EXCEPT ![w].pc = "lo_close", ![w].old = None]
    /\ UNCHANGED <<user, tokens, table, cache, history, delivered, clock>>

\* The token to revoke is the one Redis held, else the cookie, if there is one.
LogoutVerify(w) ==
    /\ At(w, "lo_verify")
    /\ \E t \in IF req[w].old # None THEN {req[w].old} ELSE {None, req[w].arg} :
         req' = IF t # None /\ row[t] = "live"
                THEN [req EXCEPT ![w].pc = "lo_revoke", ![w].old = t]
                ELSE [req EXCEPT ![w].pc = "lo_close", ![w].old = None]
    /\ UNCHANGED <<user, tokens, table, cache, history, delivered, clock>>

\* A row deleted since it was found fails the request with 404.
LogoutRevoke(w) ==
    /\ At(w, "lo_revoke")
    /\ \/ /\ UpdateRow(req[w].old)
          /\ req' = [req EXCEPT ![w].pc = "lo_close", ![w].old = None]
       \/ row[req[w].old] = "none" /\ Finish(w) /\ UNCHANGED row
    /\ UNCHANGED <<user, tokens, rowFam, cache, history, delivered, clock>>

LogoutClose(w) ==
    /\ At(w, "lo_close")
    /\ CloseHistory({claims[req[w].arg].sess})
    /\ Goto(w, "lo_clean")
    /\ UNCHANGED <<user, tokens, table, cache, delivered, clock>>

LogoutClean(w) == Cleanup(w, "lo_clean", "idle")

(* Logout from all sessions: the keys are scanned once, then dropped one   *)
(* after the other, and only then are the rows revoked.                    *)

LogoutAllStart(w, p) ==
    /\ "logoutAll" \in Endpoints /\ MayCall(p) /\ At(w, "idle")
    /\ \E K \in Scans(LiveKeys) :
         req' = [req EXCEPT ![w] = [NoRequest EXCEPT !.pc = "la_keys", !.arg = p,
                                                     !.todo = K]]
    /\ UNCHANGED <<user, tokens, table, cache, history, delivered, clock>>

\* hgetall of the next key; a key that is gone is skipped.
LogoutAllRead(w) ==
    /\ At(w, "la_keys") /\ req[w].held = {}
    /\ \E k \in req[w].todo :
         req' = [req EXCEPT ![w].todo = @ \ {k},
                            ![w].held = IF redis[k] = None THEN {}
                                        ELSE {<<k, redis[k]>>}]
    /\ UNCHANGED <<user, tokens, table, cache, history, delivered, clock>>

\* Bug: the loop does not advance past a key it has dropped.
LogoutAllDrop_NoAdvance(w) ==
    /\ At(w, "la_keys")
    /\ \E h \in req[w].held :
         /\ BlacklistAccess(h[2]) /\ BlacklistRefresh(h[2])
         /\ DeleteKeys({h[1]})
    /\ UNCHANGED <<user, tokens, table, history, delivered, clock, req>>

LogoutAllDrop(w) ==
    /\ At(w, "la_keys")
    /\ \E h \in req[w].held :
         /\ BlacklistAccess(h[2]) /\ BlacklistRefresh(h[2])
         /\ DeleteKeys({h[1]})
         /\ req' = [req EXCEPT ![w].held = @ \ {h}]
    /\ UNCHANGED <<user, tokens, table, history, delivered, clock>>

LogoutAllRevoke(w) ==
    /\ At(w, "la_keys") /\ req[w].todo = {} /\ req[w].held = {}
    /\ RevokeRows(Pairs)
    /\ Goto(w, "la_close")
    /\ UNCHANGED <<user, tokens, rowFam, cache, history, delivered, clock>>

LogoutAllClose(w) ==
    /\ At(w, "la_close")
    /\ CloseHistory(Pairs)
    /\ Goto(w, "la_clean")
    /\ UNCHANGED <<user, tokens, table, cache, delivered, clock>>

LogoutAllClean(w) == Cleanup(w, "la_clean", "idle")

-----------------------------------------------------------------------------
(* DELETE /auth/sessions/:id: RevokeSessionProvider.                       *)

\* The first key the scan returns for this session; none is a 404.
RevokeSessionStart(w, p, k) ==
    /\ "revokeSession" \in Endpoints /\ MayCall(p) /\ k \in LiveKeys
    /\ At(w, "idle")
    /\ req' = [req EXCEPT ![w] = [NoRequest EXCEPT !.pc = "rs_read", !.arg = p,
                                                   !.todo = {k}]]
    /\ UNCHANGED <<user, tokens, table, cache, history, delivered, clock>>

RevokeSessionRead(w) ==
    /\ At(w, "rs_read")
    /\ \E k \in req[w].todo :
         req' = [req EXCEPT ![w].pc = "rs_black", ![w].old = redis[k]]
    /\ UNCHANGED <<user, tokens, table, cache, history, delivered, clock>>

RevokeSessionBlacklist(w) ==
    /\ At(w, "rs_black")
    /\ BlacklistAccess(req[w].old) /\ BlacklistRefresh(req[w].old)
    /\ Goto(w, "rs_verify")
    /\ UNCHANGED <<user, tokens, table, redis, history, delivered, clock>>

RevokeSessionVerify(w) ==
    /\ At(w, "rs_verify")
    /\ IF req[w].old # None /\ row[req[w].old] = "live"
       THEN Goto(w, "rs_revoke") ELSE Goto(w, "rs_del")
    /\ UNCHANGED <<user, tokens, table, cache, history, delivered, clock>>

\* A row deleted since it was found: 404, and the key stays.
RevokeSessionRevoke(w) ==
    /\ At(w, "rs_revoke")
    /\ \/ UpdateRow(req[w].old) /\ Goto(w, "rs_del")
       \/ row[req[w].old] = "none" /\ Finish(w) /\ UNCHANGED row
    /\ UNCHANGED <<user, tokens, rowFam, cache, history, delivered, clock>>

\* The history row of the session is left open.
RevokeSessionDelete(w) ==
    /\ At(w, "rs_del")
    /\ DeleteKeys(req[w].todo)
    /\ Finish(w)
    /\ UNCHANGED <<user, tokens, table, blAccess, blRefresh, history, delivered,
                   clock>>

-----------------------------------------------------------------------------
(* Password change and password reset: the hash is stored, every row is    *)
(* revoked, then every session key is dropped, all keys in parallel.       *)

PasswordStored(w) ==
    /\ At(w, "idle") /\ password < MaxPasswords
    /\ password' = password + 1
    /\ req' = [req EXCEPT ![w] = [NoRequest EXCEPT !.pc = "pw_revoke"]]
    /\ UNCHANGED <<account, tokens, table, cache, history, delivered, clock>>

\* The caller has shown the old password.
ChangePassword(w, p) ==
    /\ "changePassword" \in Endpoints /\ MayCall(p) /\ PasswordStored(w)

\* The caller has shown a one-time token.
ResetPassword(w) ==
    /\ "resetPassword" \in Endpoints /\ PasswordStored(w)

\* Bug: only the rows of the caller's device are revoked.
PasswordRevoke_OneDevice(w) ==
    /\ At(w, "pw_revoke")
    /\ RevokeRows({p \in Pairs : rowFam[p] = req[w].fp})
    /\ Goto(w, "pw_scan")
    /\ UNCHANGED <<user, tokens, rowFam, cache, history, delivered, clock>>

PasswordRevoke(w) ==
    /\ At(w, "pw_revoke")
    /\ RevokeRows(Pairs)
    /\ Goto(w, "pw_scan")
    /\ UNCHANGED <<user, tokens, rowFam, cache, history, delivered, clock>>

PasswordScan(w) ==
    /\ At(w, "pw_scan")
    /\ \E K \in Scans(LiveKeys) :
         req' = [req EXCEPT ![w].pc = "pw_keys", ![w].todo = K]
    /\ UNCHANGED <<user, tokens, table, cache, history, delivered, clock>>

PasswordRead(w) ==
    /\ At(w, "pw_keys")
    /\ \E k \in req[w].todo :
         req' = [req EXCEPT ![w].todo = @ \ {k},
                            ![w].held = @ \cup {<<k, redis[k]>>}]
    /\ UNCHANGED <<user, tokens, table, cache, history, delivered, clock>>

\* Only the access token is blacklisted; the key goes even if it was empty.
PasswordDrop(w) ==
    /\ At(w, "pw_keys")
    /\ \E h \in req[w].held :
         /\ BlacklistAccess(h[2])
         /\ DeleteKeys({h[1]})
         /\ req' = [req EXCEPT ![w].held = @ \ {h}]
    /\ UNCHANGED <<user, tokens, table, blRefresh, history, delivered, clock>>

PasswordDone(w) ==
    /\ At(w, "pw_keys") /\ req[w].todo = {} /\ req[w].held = {}
    /\ Finish(w)
    /\ UNCHANGED <<user, tokens, table, cache, history, delivered, clock>>

-----------------------------------------------------------------------------
(* The rest of the system and the environment.                             *)

\* Administrators switch an account off and on; no session is touched.
ToggleUserStatus ==
    /\ "admin" \in Endpoints
    /\ account' = ~account
    /\ UNCHANGED <<password, tokens, table, cache, history, delivered, clock, req>>

\* The daily job deletes revoked and expired rows.
PurgeExpiredTokens ==
    /\ "cron" \in Endpoints
    /\ CleanupRows
    /\ UNCHANGED <<user, tokens, rowFam, cache, history, delivered, clock, req>>

AccessExpires(p) ==
    /\ "expiry" \in Endpoints /\ p \in 1..issued
    /\ atExpired' = atExpired \cup {p}
    /\ UNCHANGED <<user, tokens, table, cache, history, delivered, rtExpired, req>>

RefreshExpires(p) ==
    /\ "expiry" \in Endpoints /\ p \in atExpired
    /\ rtExpired' = rtExpired \cup {p}
    /\ UNCHANGED <<user, tokens, table, cache, history, delivered, atExpired, req>>

\* The TTL of a session key is that of the refresh token it holds.
KeyExpires(k) ==
    /\ redis[k] \in rtExpired
    /\ DeleteKeys({k})
    /\ UNCHANGED <<user, tokens, table, blAccess, blRefresh, history, delivered,
                   clock, req>>

\* A database or Redis call throws, an e-mail cannot be sent, the process dies.
Abort(w) ==
    /\ Faults /\ ~At(w, "idle")
    /\ Finish(w)
    /\ UNCHANGED <<user, tokens, table, cache, history, delivered, clock>>

-----------------------------------------------------------------------------
Start(w) ==
    \/ \E f \in Families : SigninStart(w, f) \/ GoogleSigninStart(w, f)
    \/ \E p \in Pairs :
         \/ \E f \in Families : RefreshStart(w, p, f)
         \/ LogoutStart(w, p) \/ LogoutAllStart(w, p) \/ ChangePassword(w, p)
         \/ \E k \in Keys : RevokeSessionStart(w, p, k)
    \/ ResetPassword(w)

Signin(w) ==
    \/ SigninScan(w) \/ SigninDrop(w) \/ SigninRevoke(w) \/ SigninClose(w)
    \/ SigninIssue(w) \/ SigninClean(w) \/ SigninStore(w) \/ SigninRecord(w)

Refresh(w) ==
    \/ RefreshVerify(w) \/ RefreshRefuse(w) \/ RefreshTheft(w) \/ RefreshRevoke(w)
    \/ RefreshIssue(w) \/ RefreshClean(w) \/ RefreshReadOld(w)
    \/ RefreshBlacklist(w) \/ RefreshStore(w) \/ RefreshFindHistory(w)
    \/ RefreshSaveHistory(w) \/ TheftRevoke(w) \/ TheftScan(w) \/ TheftDrop(w)

Logout(w) ==
    \/ LogoutRead(w) \/ LogoutDrop(w) \/ LogoutVerify(w) \/ LogoutRevoke(w)
    \/ LogoutClose(w) \/ LogoutClean(w)
    \/ LogoutAllRead(w) \/ LogoutAllDrop(w) \/ LogoutAllRevoke(w)
    \/ LogoutAllClose(w) \/ LogoutAllClean(w)

RevokeSession(w) ==
    \/ RevokeSessionRead(w) \/ RevokeSessionBlacklist(w) \/ RevokeSessionVerify(w)
    \/ RevokeSessionRevoke(w) \/ RevokeSessionDelete(w)

Password(w) ==
    \/ PasswordRevoke(w) \/ PasswordScan(w) \/ PasswordRead(w) \/ PasswordDrop(w)
    \/ PasswordDone(w)

\* The next await of the request of w completes.
Continue(w) ==
    Signin(w) \/ Refresh(w) \/ Logout(w) \/ RevokeSession(w) \/ Password(w)

Environment ==
    \/ ToggleUserStatus \/ PurgeExpiredTokens
    \/ \E p \in Pairs : RefreshExpired(p) \/ AccessExpires(p) \/ RefreshExpires(p)
    \/ \E k \in Keys : KeyExpires(k)

Next == \/ \E w \in Workers : Start(w) \/ Continue(w) \/ Abort(w)
        \/ Environment

Spec     == Init /\ [][Next]_vars
\* The event loop resumes every await that is settled.
FairSpec == Spec /\ \A w \in Workers : WF_vars(Continue(w))

-----------------------------------------------------------------------------
(* Properties.                                                             *)

Issued == 1..issued
Quiet  == \A w \in Workers : At(w, "idle")

\* The client holds p, its row is live and it has not expired.
Current(p) == p \in delivered /\ row[p] = "live" /\ p \notin rtExpired

(* -- whatever interleaves, wherever a request stops ---------------------- *)

\* A rotation leaves the consumed token dead: no pair exists while the row of
\* the pair it was rotated from is live (refresh-token.provider.ts, step 8).
RotationConsumes ==
    \A q \in Issued : claims[q].parent # None => row[claims[q].parent] # "live"

\* No handler brings a row back: each updateRefreshToken saves the row it loaded
\* before other requests revoked it, and no such save makes it live again.
NeverRevived ==
    [][\A p \in Pairs : row'[p] = "live" => row[p] = "live" \/ p > issued]_vars

\* A session hash holds a pair of that session and of that family, also when
\* the family of a session changes between two rotations.
SessionKeyMatchesToken ==
    \A k \in LiveKeys : k = KeyOf(redis[k])

\* The refresh tokens implement the abstract life cycle.
Lifecycle == INSTANCE TokenLifecycle WITH
    Tokens <- Pairs,
    status <- [p \in Pairs |-> IF p > issued THEN "fresh"
                               ELSE IF row[p] = "live" THEN "live" ELSE "dead"],
    parent <- [p \in Pairs |-> claims[p].parent]
ImplementsTokenLifecycle == Lifecycle!Spec

\* Every request is answered: no handler waits for another, and the loops over
\* session keys end although other requests add and remove keys meanwhile.
EveryRequestEnds == \A w \in Workers : ~At(w, "idle") ~> At(w, "idle")

\* Why rotation consumes: pairs are signed in order, from issued parents, for
\* real families, and their rows appear only then ...
PairsInv ==
    /\ delivered \subseteq Issued
    /\ \A q \in Pairs \ Issued : row[q] = "none" /\ claims[q] = NoClaims
    /\ \A q \in Issued : /\ claims[q].fam \in Families /\ rowFam[q] \in Families
                         /\ claims[q].sess \in Issued
                         /\ claims[q].parent \in {None} \cup Issued

\* ... and between its two writes a rotation relies on a row that is already
\* dead: revoked by this request or by a concurrent one, or cleaned up.
LocalInv(r, n, rows) ==     \* of a request r, with n pairs issued
    /\ r.pc \in SigninPcs \cup RefreshPcs => r.fp \in Families
    /\ r.pc \in RefreshPcs \cup LogoutPcs => r.arg \in 1..n
    /\ r.pc \in SignedPcs => r.new \in 1..n
    /\ r.pc = "rf_issue" => rows[r.arg] # "live"

RequestsInv == \A w \in Workers : LocalInv(req[w], issued, row)

\* The inductive invariant of the module.
IndInv == TypeOK /\ PairsInv /\ RequestsInv /\ RotationConsumes

(* -- requests served one at a time --------------------------------------- *)

\* One live refresh token per session (refresh-token.provider.ts:28).
OneLiveTokenPerSession ==
    \A p, q \in Issued : /\ row[p] = "live" /\ row[q] = "live"
                         /\ claims[p].sess = claims[q].sess
                         => p = q

\* A refresh token is rotated at most once (AUTH.md: "single-use").
SingleUse ==
    \A p, q \in Issued : /\ claims[p].parent = claims[q].parent
                         /\ claims[p].parent # None
                         => p = q

\* Between requests no client holds a live token from before the last password
\* change: every device must sign in again.
PasswordChangeRevokes ==
    Quiet => \A p \in Issued : Current(p) => claims[p].password = password

\* Between requests Redis lists exactly the sessions a client can refresh, with
\* the pair the client holds: the sessions page, logout and the password
\* endpoints reach sessions only through these keys.
SessionsMatchRows ==
    Quiet => /\ \A p \in Issued : Current(p) => redis[KeyOf(p)] = p
             /\ \A k \in LiveKeys : redis[k] \notin rtExpired
                                      => row[redis[k]] = "live"

\* Between requests a client never holds a pair that is live and blacklisted.
CurrentNotBlacklisted ==
    Quiet => \A p \in blRefresh : ~Current(p)

\* When a logout answers, the session has no live row, no hash and no open
\* history row.
LogoutEndsSession ==
    [][\A w \in Workers : At(w, "lo_clean") /\ At(w, "idle")' =>
         LET s == claims[req[w].arg].sess IN
         /\ history'[s] # "open"
         /\ \A p \in Issued : claims[p].sess = s => row'[p] # "live"
         /\ \A k \in Keys : k[2] = s => redis'[k] = None]_vars

\* The history of a session that can be refreshed is open, unless a client has
\* replayed an expired token of that session.
ClosedHistoryHasNoToken ==
    Quiet => \A p \in Issued :
      Current(p) => \/ history[claims[p].sess] = "open"
                    \/ \E o \in rtExpired : claims[o].sess = claims[p].sess

\* The token of a session; a rotation that is between its two writes still
\* counts as holding the token it has consumed.
CurrentToken(s) ==
    LET live  == {p \in Issued : row[p] = "live" /\ claims[p].sess = s}
        taken == {req[w].arg : w \in {v \in Workers : At(v, "rf_issue")}}
        held  == live \cup {p \in taken : claims[p].sess = s}
    IN  IF held = {} THEN None ELSE CHOOSE p \in held : TRUE

\* Served one at a time, the sessions implement the registry.
Registry == INSTANCE SessionRegistry WITH
    Sessions <- Pairs,
    current  <- [s \in Pairs |-> CurrentToken(s)],
    used     <- Issued
ImplementsSessionRegistry == Registry!Spec

=============================================================================
