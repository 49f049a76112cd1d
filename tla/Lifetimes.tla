------------------------------ MODULE Lifetimes ------------------------------
(***************************************************************************)
(* The lifetimes behind the sessions of ONE user: JWTs that expire by the  *)
(* second, rows of refresh_tokens, session keys and blacklist entries that *)
(* expire by the millisecond, and the clock that runs at every await.      *)
(*                                                                         *)
(* A JWT is what is signed: two with equal claims signed in one second are *)
(* the same string.  The permissions of the user do not change here.  One  *)
(* request is in flight at a time; AuthSessions interleaves them, without  *)
(* a clock.  An access and a refresh token signed together are one pair.   *)
(***************************************************************************)
EXTENDS Naturals, Sequences, RedisKeys

CONSTANTS
    Devices,            \* device fingerprints
    Second,             \* ticks of the clock in a second
    AccessTtl,          \* JWT_ACCESS_EXPIRES_IN_SECONDS
    RefreshTtl,         \* JWT_REFRESH_EXPIRES_IN_SECONDS
    RememberTtl,        \* JWT_REMEMBER_ME_EXPIRES_IN_SECONDS
    SessionCap,         \* JWT_MAX_SESSION_DAYS, in seconds
    RememberCap,        \* JWT_REMEMBER_ME_MAX_SESSION_DAYS, in seconds
    MaxSessions,        \* bound: sign-ins
    MaxNow              \* bound: ticks of the clock

ASSUME LifetimesAssumption ==
    /\ Second \in Nat \ {0} /\ AccessTtl \in Nat \ {0}
    /\ RefreshTtl \in Nat \ {0} /\ RememberTtl \in Nat \ {0}
    /\ SessionCap \in Nat /\ RememberCap \in Nat
    /\ MaxSessions \in Nat /\ MaxNow \in Nat

VARIABLES
    now,        \* the wall clock, in ticks
    rows,       \* refresh_tokens that are not revoked: the pair and expires_at
    auth,       \* Redis auth:<uid>:<family>:<session>, the pair of the session
    blAccess,   \* Redis blacklist:<access token>
    blRefresh,  \* Redis blacklist:<refresh token>
    req,        \* the request that is being served
    given,      \* pairs a response has carried to the client
    \* History variables: read by no handler.
    began,      \* when each session so far was signed in
    signed,     \* pairs signed so far
    clashed,    \* sessions of which one pair was signed twice
    ended,      \* pairs that were blacklisted, and by what
    broken      \* has a request died, or a key run out between its HSET and EXPIRE?

redis  == <<auth, blAccess, blRefresh>>
ghosts == <<began, signed, clashed, ended, broken>>
vars   == <<now, rows, redis, req, given, ghosts>>

Idle == [pc |-> "idle"]

Init == /\ now = 0 /\ rows = {} /\ req = Idle /\ given = {}
        /\ auth = NoKeys /\ blAccess = NoKeys /\ blRefresh = NoKeys
        /\ began = <<>> /\ signed = {} /\ clashed = {} /\ ended = {}
        /\ broken = FALSE

-----------------------------------------------------------------------------
(* JwtService: iat and exp are whole seconds.                              *)

Clock == now \div Second

GetRefreshTtl(remember) == IF remember THEN RememberTtl ELSE RefreshTtl
MaxAge(remember)        == IF remember THEN RememberCap ELSE SessionCap

Verifies(p, ttl)   == Clock < p.iat + ttl
VerifiesAccess(p)  == Verifies(p, AccessTtl)
VerifiesRefresh(p) == Verifies(p, GetRefreshTtl(p.remember))

\* JwtAuthGuard.
Accepted(p) == p \in given /\ ~Exists(blAccess, p) /\ VerifiesAccess(p)

-----------------------------------------------------------------------------
(* Redis and the table, as every endpoint uses them.                       *)

HasPair(p)     == {r \in rows : r.pair = p}
RowsOf(device) == {r \in rows : r.pair.device = device}
KeysOf(device) == {s \in DOMAIN auth : auth[s].value.device = device}
PairsOf(S)     == {auth[s].value : s \in S \cap DOMAIN auth}

\* CleanupRefreshTokenProvider, and the daily purge.
Cleanup(R) == {r \in R : r.deadline > now}

\* Bug: the entry ends before a token that was signed just now does.
BlacklistAccess_Shorter(P) ==
    blAccess' = SetKeys(blAccess, P, "1", Second * AccessTtl - 1, now)

BlacklistAccess(P) == blAccess' = SetKeys(blAccess, P, "1", Second * AccessTtl, now)

Blacklist(P, ttl, by) ==
    /\ BlacklistAccess(P)
    /\ blRefresh' = SetKeys(blRefresh, P, "1", Second * ttl, now)
    /\ ended' = ended \cup (P \X {by})

-----------------------------------------------------------------------------
(* Sign-in and refresh.                                                    *)

\* The stale session of the device is dropped and its rows are revoked.
Signin(device, remember) ==
    /\ req = Idle /\ Len(began) < MaxSessions
    /\ auth' = Del(auth, KeysOf(device)) /\ rows' = rows \ RowsOf(device)
    /\ req' = [pc |-> "signin", device |-> device, remember |-> remember]
    /\ UNCHANGED <<now, blAccess, blRefresh, given, ghosts>>

Sign(p, next) ==
    /\ signed' = signed \cup {p}
    /\ clashed' = IF p \in signed THEN clashed \cup {p.session} ELSE clashed
    /\ req' = [pc |-> "row", pair |-> p, next |-> next]
    /\ UNCHANGED <<now, rows, redis, given, ended, broken>>

SigninSign ==
    /\ req.pc = "signin"
    /\ began' = Append(began, now)
    /\ Sign([session |-> Len(began) + 1, device |-> req.device, remember |-> req.remember,
             first |-> now, iat |-> Clock], "store")

\* What ends a session of the device when a token of it has no row.
Theft(p) ==
    /\ HasPair(p) = {}
    /\ rows' = rows \ RowsOf(p.device) /\ auth' = Del(auth, KeysOf(p.device))
    /\ UNCHANGED req

\* Every check, then the row of the token is revoked.
Rotate(p) ==
    /\ \E r \in HasPair(p) : r.deadline > now /\ rows' = rows \ {r}
    /\ now - p.first <= Second * MaxAge(p.remember)
    /\ req' = [pc |-> "refresh", pair |-> p]
    /\ UNCHANGED auth

Refresh(p) ==
    /\ req = Idle /\ VerifiesRefresh(p) /\ ~Exists(blRefresh, p)
    /\ Theft(p) \/ Rotate(p)
    /\ UNCHANGED <<now, blAccess, blRefresh, given, ghosts>>

\* Bug: the session starts anew with every rotation.
RefreshSign_NewStart ==
    /\ req.pc = "refresh"
    /\ Sign([req.pair EXCEPT !.iat = Clock, !.first = now], "blacklist") /\ UNCHANGED began

RefreshSign ==
    /\ req.pc = "refresh"
    /\ Sign([req.pair EXCEPT !.iat = Clock], "blacklist") /\ UNCHANGED began

\* The token is hashed before the clock is read for the row.
CreateRow ==
    LET p == req.pair IN
    /\ req.pc = "row"
    /\ rows' = Cleanup(rows \cup
                 {[pair |-> p, deadline |-> now + Second * GetRefreshTtl(p.remember)]})
    /\ req' = [pc |-> req.next, pair |-> p]
    /\ UNCHANGED <<now, redis, given, ghosts>>

\* The pair that Redis holds, not the one presented.
BlacklistOld ==
    /\ req.pc = "blacklist"
    /\ Blacklist(PairsOf({req.pair.session}), GetRefreshTtl(req.pair.remember), "rotation")
    /\ req' = [req EXCEPT !.pc = "store"]
    /\ UNCHANGED <<now, rows, auth, given, began, signed, clashed, broken>>

StoreSession ==
    /\ req.pc = "store"
    /\ auth' = HmSet(auth, req.pair.session, req.pair)
    /\ req' = [req EXCEPT !.pc = "expire"]
    /\ UNCHANGED <<now, rows, blAccess, blRefresh, given, ghosts>>

\* Bug: the key keeps the deadline it had.
ExpireSession_FirstOnly ==
    LET p == req.pair IN
    /\ req.pc = "expire"
    /\ auth' = IF Exists(auth, p.session) /\ auth[p.session].deadline = NoDeadline
               THEN Expire(auth, p.session, Second * GetRefreshTtl(p.remember), now) ELSE auth
    /\ req' = Idle /\ given' = given \cup {p}
    /\ broken' = (broken \/ ~Exists(auth, p.session))
    /\ UNCHANGED <<now, rows, blAccess, blRefresh, began, signed, clashed, ended>>

ExpireSession ==
    LET p == req.pair IN
    /\ req.pc = "expire"
    /\ auth' = Expire(auth, p.session, Second * GetRefreshTtl(p.remember), now)
    /\ req' = Idle /\ given' = given \cup {p}
    /\ broken' = (broken \/ ~Exists(auth, p.session))
    /\ UNCHANGED <<now, rows, blAccess, blRefresh, began, signed, clashed, ended>>

-----------------------------------------------------------------------------
(* The endpoints that end sessions; the bearer presents the access token of *)
(* p.                                                                       *)

EndSessions(S, R) ==
    /\ auth' = Del(auth, S) /\ rows' = R
    /\ UNCHANGED <<now, req, given, began, signed, clashed, broken>>

\* Without a session key, the row of the refresh cookie ends, if there is one.
Logout(p) ==
    LET s == {p.session} IN
    /\ req = Idle /\ Accepted(p)
    /\ Blacklist(PairsOf(s), RefreshTtl, "logout")
    /\ \/ s \subseteq DOMAIN auth /\ EndSessions(s, Cleanup({r \in rows : r.pair \notin PairsOf(s)}))
       \/ /\ ~(s \subseteq DOMAIN auth)
          /\ \/ EndSessions(s, Cleanup(rows))
             \/ \E q \in given : EndSessions(s, Cleanup(rows \ HasPair(q)))

LogoutAll(p) ==
    /\ req = Idle /\ Accepted(p)
    /\ Blacklist(PairsOf(DOMAIN auth), RefreshTtl, "logout")
    /\ EndSessions(DOMAIN auth, {})

RevokeSession(p, s) ==
    /\ req = Idle /\ Accepted(p)
    /\ Blacklist(PairsOf({s}), RefreshTtl, "logout")
    /\ EndSessions({s}, {r \in rows : r.pair \notin PairsOf({s})})

\* Only the access tokens are blacklisted.
NewPassword ==
    /\ req = Idle
    /\ BlacklistAccess(PairsOf(DOMAIN auth)) /\ UNCHANGED blRefresh
    /\ ended' = ended \cup (PairsOf(DOMAIN auth) \X {"password"})
    /\ EndSessions(DOMAIN auth, {})

PurgeExpired ==
    /\ rows # Cleanup(rows) /\ rows' = Cleanup(rows)
    /\ UNCHANGED <<now, redis, req, given, ghosts>>

-----------------------------------------------------------------------------
\* A request whose awaited call throws, or whose process dies.
Die == /\ req # Idle /\ req' = Idle /\ broken' = TRUE
       /\ UNCHANGED <<now, rows, redis, given, began, signed, clashed, ended>>

Tick == /\ now < MaxNow /\ now' = now + 1
        /\ auth' = Unexpired(auth, now')
        /\ blAccess' = Unexpired(blAccess, now') /\ blRefresh' = Unexpired(blRefresh, now')
        /\ UNCHANGED <<rows, req, given, ghosts>>

Next ==
    \/ \E d \in Devices, remember \in BOOLEAN : Signin(d, remember)
    \/ SigninSign \/ RefreshSign \/ CreateRow \/ BlacklistOld
    \/ StoreSession \/ ExpireSession
    \/ \E p \in given : Refresh(p) \/ Logout(p) \/ LogoutAll(p)
    \/ \E p \in given : \E s \in DOMAIN auth : RevokeSession(p, s)
    \/ NewPassword \/ PurgeExpired \/ Die \/ Tick

Spec == Init /\ [][Next]_vars

-----------------------------------------------------------------------------
\* The refresh token of a pair was blacklisted for as long as it is valid.
RefreshEnded(e) ==
    e[2] # "password" /\ (e[1].remember => <<e[1], "logout">> \notin ended)

\* A token that an endpoint has blacklisted stays in the blacklist for as long
\* as its signature is accepted: an access token always, a refresh token after a
\* rotation or a logout, but not that of a remembered session after a logout.
BlacklistOutlivesToken ==
    \A e \in ended : LET p == e[1] IN
        /\ VerifiesAccess(p) => Exists(blAccess, p)
        /\ RefreshEnded(e) /\ VerifiesRefresh(p) => Exists(blRefresh, p)

\* Between requests, a session that can be refreshed is usable and can be ended:
\* Redis has the pair of its row at least as long as the table, and the pair is in
\* no blacklist, unless two pairs of the session were signed in one second.
SessionUsable ==
    req = Idle /\ ~broken => \A r \in Cleanup(rows) : LET p == r.pair IN
        /\ Exists(auth, p.session) /\ auth[p.session].value = p
        /\ auth[p.session].deadline >= r.deadline
        /\ p.session \notin clashed => ~Exists(blAccess, p) /\ ~Exists(blRefresh, p)

\* A session is not rotated later than its cap after the sign-in, however often
\* it has been rotated before.
CapHolds ==
    [][req'.pc = "refresh" /\ req = Idle =>
         LET p == req'.pair IN now - began[p.session] <= Second * MaxAge(p.remember)]_vars
=============================================================================
