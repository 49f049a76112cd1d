--------------------------- MODULE Lifetimes_proofs ---------------------------
(***************************************************************************)
(* For any lifetimes, caps, devices and length of a second: blacklist      *)
(* entries outlive their tokens, no rotation passes the cap, and a session *)
(* has its key for as long as its row.                                     *)
(*                                                                         *)
(* Pairs are only ever signed with the start and the remember flag of      *)
(* their session, at a second that has begun.  An entry made later than    *)
(* its token and for the lifetime of such a token ends later, and only the *)
(* logout of a remembered session makes one for a shorter lifetime.        *)
(*                                                                         *)
(* A session has at most one row.  Its key lacks the pair of the row, or   *)
(* the time, only while the request that wrote the row is still to write   *)
(* the key, and a pair has lost its row before it is blacklisted.          *)
(***************************************************************************)
EXTENDS Lifetimes, TLAPS

Pairs == [session : Nat, device : Devices, remember : BOOLEAN, first : Nat, iat : Nat]

SignedOK ==
    \A p \in signed : /\ p \in Pairs /\ Second * p.iat <= now
                      /\ p.session \in 1..Len(began) /\ p.first = began[p.session]

SameSession == \A p, q \in signed : p.session = q.session => p.remember = q.remember

\* A pair of a request, if it has one, is signed.
ReqOK == /\ req.pc \in {"idle", "signin", "row", "refresh", "blacklist", "store", "expire"}
         /\ req.pc = "signin" => req.device \in Devices /\ req.remember \in BOOLEAN
         /\ req.pc \in {"row", "refresh", "blacklist", "store", "expire"} => req.pair \in signed
         /\ req.pc = "row" => req.next \in {"blacklist", "store"}

KeysOK(keys) == \A s \in DOMAIN keys : keys[s].value \in signed /\ keys[s].value.session = s

DeadlinesOK(keys) == \A k \in DOMAIN keys : keys[k].deadline \in Nat

\* At time t, the entry of p ends no sooner than a token of p with this lifetime.
End(p, ttl) == Second * (p.iat + ttl)
Lasts(keys, p, ttl, t) ==
    t < End(p, ttl) => /\ p \in DOMAIN keys
                       /\ keys[p].deadline = NoDeadline \/ End(p, ttl) <= keys[p].deadline

EndedOK ==
    \A e \in ended :
        /\ Lasts(blAccess, e[1], AccessTtl, now)
        /\ RefreshEnded(e) => Lasts(blRefresh, e[1], GetRefreshTtl(e[1].remember), now)

IInv == /\ now \in Nat /\ began \in Seq(Nat)
        /\ SignedOK /\ SameSession /\ ReqOK /\ KeysOK(auth) /\ given \subseteq signed
        /\ DeadlinesOK(blAccess) /\ DeadlinesOK(blRefresh)
        /\ ended \subseteq signed \X {"rotation", "logout", "password"} /\ EndedOK

-----------------------------------------------------------------------------
(* The clock.                                                              *)

LEMMA Times ==
    ASSUME NEW a \in Nat, NEW b \in Nat, NEW c \in Nat, b <= c
    PROVE  a * b <= a * c
<1>1. PICK d \in Nat : c = b + d
  <2>1. c - b \in Nat /\ c = b + (c - b)
    OBVIOUS
  <2> QED
    BY <2>1
<1>2. a * (b + d) = a * b + a * d /\ a * d \in Nat /\ a * b \in Nat
  OBVIOUS
<1> QED
  BY <1>1, <1>2

\* The second that has begun.
LEMMA ClockSecond ==
    ASSUME now \in Nat
    PROVE  Clock \in Nat /\ Second * Clock <= now /\ now < Second * (Clock + 1)
BY LifetimesAssumption DEF Clock

\* A token is accepted until its end.
LEMMA VerifiedBeforeEnd ==
    ASSUME NEW p, NEW ttl \in Nat, p.iat \in Nat, now \in Nat, Verifies(p, ttl)
    PROVE  now < End(p, ttl)
<1>1. Clock \in Nat /\ Second * (Clock + 1) \in Nat /\ now < Second * (Clock + 1)
  BY ClockSecond, LifetimesAssumption
<1>2. Clock + 1 <= p.iat + ttl /\ Clock + 1 \in Nat /\ p.iat + ttl \in Nat
  BY <1>1 DEF Verifies
<1>3. Second * (Clock + 1) <= Second * (p.iat + ttl) /\ Second * (p.iat + ttl) \in Nat
  BY <1>2, Times, LifetimesAssumption
<1> QED
  BY <1>1, <1>3 DEF End

-----------------------------------------------------------------------------
(* What the commands of Redis do to entries and sessions.                  *)

\* An entry made now, for the lifetime of a token signed before.
LEMMA Entered ==
    ASSUME NEW keys, NEW K, NEW p \in K, NEW ttl \in Nat \ {0}, NEW t \in Nat,
           p.iat \in Nat, Second * p.iat <= t
    PROVE  Lasts(SetKeys(keys, K, "1", Second * ttl, t), p, ttl, t)
<1> DEFINE new == SetKeys(keys, K, "1", Second * ttl, t)
<1>1. Second * ttl \in Nat /\ Second * p.iat \in Nat
  BY LifetimesAssumption
<1>2. Second * (p.iat + ttl) = Second * p.iat + Second * ttl
  BY LifetimesAssumption
<1>3. CASE Second * ttl = 0
  <2>1. p \in DOMAIN new /\ new[p].deadline = NoDeadline
    BY <1>3 DEF SetKeys, Put
  <2> QED
    BY <2>1 DEF Lasts
<1>4. CASE Second * ttl # 0
  <2>1. p \in DOMAIN new /\ new[p].deadline = t + Second * ttl
    BY <1>4 DEF SetKeys, Put
  <2>2. End(p, ttl) <= t + Second * ttl
    BY <1>1, <1>2 DEF End
  <2> QED
    BY <2>1, <2>2 DEF Lasts
<1> QED
  BY <1>3, <1>4

LEMMA NotEntered ==
    ASSUME NEW keys, NEW K, NEW p, p \notin K, NEW ttl, NEW life, NEW t,
           Lasts(keys, p, ttl, t)
    PROVE  Lasts(SetKeys(keys, K, "1", life, t), p, ttl, t)
BY DEF Lasts, SetKeys, Put

\* What expires, expires after its token.
LEMMA Expired ==
    ASSUME NEW keys, NEW p, NEW ttl \in Nat, NEW t \in Nat, p.iat \in Nat,
           DeadlinesOK(keys), Lasts(keys, p, ttl, t)
    PROVE  Lasts(Unexpired(keys, t + 1), p, ttl, t + 1)
<1>1. End(p, ttl) \in Nat
  BY LifetimesAssumption DEF End
<1>2. SUFFICES ASSUME t + 1 < End(p, ttl)
               PROVE  /\ p \in DOMAIN Unexpired(keys, t + 1)
                      /\ \/ Unexpired(keys, t + 1)[p].deadline = NoDeadline
                         \/ End(p, ttl) <= Unexpired(keys, t + 1)[p].deadline
  BY DEF Lasts
<1>3. p \in DOMAIN keys /\ (keys[p].deadline = NoDeadline \/ End(p, ttl) <= keys[p].deadline)
  BY <1>1, <1>2 DEF Lasts
<1>4. p \notin {k \in DOMAIN keys : keys[k].deadline # NoDeadline /\ keys[k].deadline <= t + 1}
  BY <1>1, <1>2, <1>3 DEF DeadlinesOK
<1> QED
  BY <1>3, <1>4 DEF Unexpired, Del

LEMMA SessionsKept ==
    ASSUME KeysOK(auth)
    PROVE  /\ \A S : KeysOK(Del(auth, S))
           /\ \A t : KeysOK(Unexpired(auth, t))
           /\ \A s, ttl, t : KeysOK(Expire(auth, s, ttl, t))
           /\ \A p \in signed : KeysOK(HmSet(auth, p.session, p))
<1>1. \A S : KeysOK(Del(auth, S))
  BY DEF KeysOK, Del
<1>2. \A t : KeysOK(Unexpired(auth, t))
  BY <1>1 DEF Unexpired
<1>3. \A s, ttl, t : KeysOK(Expire(auth, s, ttl, t))
  BY DEF KeysOK, Expire, Exists, Put
<1>4. \A p \in signed : KeysOK(HmSet(auth, p.session, p))
  BY DEF KeysOK, HmSet, Put
<1> QED
  BY <1>1, <1>2, <1>3, <1>4

LEMMA DeadlinesKept ==
    ASSUME NEW keys, DeadlinesOK(keys)
    PROVE  /\ \A K : \A life, t \in Nat : DeadlinesOK(SetKeys(keys, K, "1", life, t))
           /\ \A t : DeadlinesOK(Unexpired(keys, t))
<1>1. \A K : \A life, t \in Nat : DeadlinesOK(SetKeys(keys, K, "1", life, t))
  BY DEF DeadlinesOK, SetKeys, Put, NoDeadline
<1>2. \A t : DeadlinesOK(Unexpired(keys, t))
  BY DEF DeadlinesOK, Unexpired, Del
<1> QED
  BY <1>1, <1>2

-----------------------------------------------------------------------------
(* Steps.                                                                  *)

\* The claims of signed pairs, the blacklist and the clock stay.
LEMMA QuietStep ==
    ASSUME IInv, UNCHANGED <<now, blAccess, blRefresh, began, signed, ended>>,
           ReqOK', KeysOK(auth'), given' \subseteq signed
    PROVE  IInv'
BY DEF IInv, SignedOK, SameSession, KeysOK, EndedOK, Lasts, RefreshEnded

\* Signing a pair with the claims of its session.
LEMMA SignStep ==
    ASSUME IInv, NEW p \in Pairs, NEW next \in {"blacklist", "store"}, Sign(p, next),
           began' \in Seq(Nat), \A s \in 1..Len(began) : s \in 1..Len(began') /\ began'[s] = began[s],
           p.session \in 1..Len(began'), p.first = began'[p.session], p.iat = Clock,
           \A q \in signed : q.session = p.session => q.remember = p.remember
    PROVE  IInv'
<1>1. /\ UNCHANGED <<now, auth, blAccess, blRefresh, given, ended>>
      /\ signed' = signed \cup {p}
      /\ req' = [pc |-> "row", pair |-> p, next |-> next]
  BY DEF Sign, redis
<1>2. SignedOK'
  <2>1. Second * p.iat <= now
    BY ClockSecond DEF IInv
  <2> QED
    BY <1>1, <2>1 DEF IInv, SignedOK
<1>3. SameSession'
  BY <1>1 DEF IInv, SameSession
<1>4. ReqOK'
  BY <1>1 DEF ReqOK
<1>5. KeysOK(auth') /\ KeysOK(auth)'
  BY <1>1 DEF IInv, KeysOK
<1>6. EndedOK'
  BY <1>1 DEF IInv, EndedOK, RefreshEnded
<1> QED
  BY <1>1, <1>2, <1>3, <1>4, <1>5, <1>6 DEF IInv

\* Blacklisting the access tokens of signed pairs.
LEMMA AccessEntries ==
    ASSUME IInv, NEW P \in SUBSET signed, BlacklistAccess(P), now' = now
    PROVE  /\ DeadlinesOK(blAccess')
           /\ \A p \in signed : p \in P \/ Lasts(blAccess, p, AccessTtl, now) =>
                                   Lasts(blAccess', p, AccessTtl, now)
<1>1. blAccess' = SetKeys(blAccess, P, "1", Second * AccessTtl, now)
  BY DEF BlacklistAccess
<1>2. now \in Nat /\ AccessTtl \in Nat \ {0} /\ Second * AccessTtl \in Nat
  BY LifetimesAssumption DEF IInv
<1>3. \A p \in signed : p.iat \in Nat /\ Second * p.iat <= now
  BY DEF IInv, SignedOK, Pairs
<1>4. DeadlinesOK(blAccess')
  BY <1>1, <1>2, DeadlinesKept DEF IInv
<1>5. \A p \in P : Lasts(blAccess', p, AccessTtl, now)
  BY <1>1, <1>2, <1>3, Entered
<1>6. \A p \in signed \ P : Lasts(blAccess, p, AccessTtl, now) => Lasts(blAccess', p, AccessTtl, now)
  BY <1>1, <1>2, NotEntered
<1> QED
  BY <1>4, <1>5, <1>6

LEMMA PairsSigned ==
    ASSUME IInv
    PROVE  \A S : \A p \in PairsOf(S) : p \in signed /\ p.session \in S
BY DEF IInv, KeysOK, PairsOf

\* An endpoint that blacklists pairs and leaves everything else but the keys.
LEMMA EndStep ==
    ASSUME IInv, UNCHANGED <<now, began, signed, given>>, ReqOK', KeysOK(auth'),
           DeadlinesOK(blAccess'), DeadlinesOK(blRefresh'), EndedOK',
           ended' \subseteq signed \X {"rotation", "logout", "password"}
    PROVE  IInv'
BY DEF IInv, SignedOK, SameSession, KeysOK, DeadlinesOK

\* Both tokens of pairs are blacklisted, for their lifetime but by a logout.
LEMMA BlacklistStep ==
    ASSUME IInv, NEW P \in SUBSET signed, NEW ttl \in Nat \ {0}, NEW by \in {"rotation", "logout"},
           Blacklist(P, ttl, by), UNCHANGED <<now, began, signed, given>>, ReqOK', KeysOK(auth'),
           \A p \in P : ttl = GetRefreshTtl(p.remember) \/ (by = "logout" /\ p.remember)
    PROVE  IInv'
<1>1. /\ BlacklistAccess(P)
      /\ blRefresh' = SetKeys(blRefresh, P, "1", Second * ttl, now)
      /\ ended' = ended \cup (P \X {by})
  BY DEF Blacklist
<1>2. now \in Nat /\ Second * ttl \in Nat
  BY LifetimesAssumption DEF IInv
<1>3. ended' \subseteq signed \X {"rotation", "logout", "password"}
  BY <1>1 DEF IInv
<1>4. DeadlinesOK(blAccess') /\ DeadlinesOK(blRefresh')
  BY <1>1, <1>2, AccessEntries, DeadlinesKept DEF IInv
<1>5. ASSUME NEW e \in ended'
      PROVE  Lasts(blAccess', e[1], AccessTtl, now)
  <2>1. e[1] \in signed /\ (e \in ended \/ e[1] \in P)
    BY <1>1, <1>3, <1>5
  <2>2. e \in ended => Lasts(blAccess, e[1], AccessTtl, now)
    BY DEF IInv, EndedOK
  <2> QED
    BY <1>1, <2>1, <2>2, AccessEntries
<1>6. ASSUME NEW e \in ended', RefreshEnded(e)'
      PROVE  Lasts(blRefresh', e[1], GetRefreshTtl(e[1].remember), now)
  <2> DEFINE p == e[1]
  <2>1. p \in signed /\ (e \in ended \/ p \in P) /\ p.iat \in Nat /\ Second * p.iat <= now
    BY <1>1, <1>3, <1>6 DEF IInv, SignedOK, Pairs
  <2>2. CASE p \in P
    <3>1. by = "logout" => ~p.remember
      BY <1>1, <1>6, <2>2 DEF RefreshEnded
    <3>2. ttl = GetRefreshTtl(p.remember)
      BY <2>2, <3>1
    <3> QED
      BY <1>1, <1>2, <2>1, <2>2, <3>2, Entered
  <2>3. CASE p \notin P
    <3>1. e \in ended /\ RefreshEnded(e)
      BY <1>1, <1>6, <2>1, <2>3 DEF RefreshEnded
    <3>2. Lasts(blRefresh, p, GetRefreshTtl(p.remember), now)
      BY <3>1 DEF IInv, EndedOK
    <3> QED
      BY <1>1, <2>3, <3>2, NotEntered
  <2> QED
    BY <2>2, <2>3
<1>7. EndedOK'
  BY <1>5, <1>6 DEF EndedOK
<1> QED
  BY <1>3, <1>4, <1>7, EndStep

\* The endpoints that end sessions.
LEMMA LogoutStep ==
    ASSUME IInv, NEW S, NEW R, Blacklist(PairsOf(S), RefreshTtl, "logout"), EndSessions(S, R)
    PROVE  IInv'
<1>1. UNCHANGED <<now, req, given, began, signed>> /\ auth' = Del(auth, S)
  BY DEF EndSessions
<1>2. ReqOK'
  BY <1>1 DEF IInv, ReqOK
<1>3. KeysOK(auth')
  <2>1. KeysOK(Del(auth, S)) /\ signed' = signed
    BY <1>1, SessionsKept DEF IInv
  <2> QED
    BY <1>1, <2>1 DEF KeysOK
<1>4. PairsOf(S) \in SUBSET signed
  BY PairsSigned
<1>5. \A p \in PairsOf(S) : RefreshTtl = GetRefreshTtl(p.remember) \/ p.remember
  BY DEF GetRefreshTtl
<1>6. RefreshTtl \in Nat \ {0}
  BY LifetimesAssumption
<1> QED
  BY <1>1, <1>2, <1>3, <1>4, <1>5, <1>6, BlacklistStep

LEMMA PasswordStep ==
    ASSUME IInv, NewPassword
    PROVE  IInv'
<1> DEFINE P == PairsOf(DOMAIN auth)
<1>1. /\ UNCHANGED <<now, req, given, began, signed, blRefresh>>
      /\ auth' = Del(auth, DOMAIN auth) /\ BlacklistAccess(P)
      /\ ended' = ended \cup (P \X {"password"})
  BY DEF NewPassword, EndSessions
<1>2. ReqOK'
  BY <1>1 DEF IInv, ReqOK
<1>3. KeysOK(auth')
  BY <1>1, SessionsKept DEF IInv
<1>4. P \in SUBSET signed
  BY PairsSigned
<1> HIDE DEF P
<1>5. ended' \subseteq signed \X {"rotation", "logout", "password"}
  BY <1>1, <1>4 DEF IInv
<1>6. DeadlinesOK(blAccess') /\ DeadlinesOK(blRefresh')
  BY <1>1, <1>4, AccessEntries DEF IInv, DeadlinesOK
<1>7. ASSUME NEW e \in ended'
      PROVE  Lasts(blAccess', e[1], AccessTtl, now)
  <2>1. e[1] \in signed /\ (e \in ended \/ e[1] \in P)
    BY <1>1, <1>5, <1>7
  <2>2. e \in ended => Lasts(blAccess, e[1], AccessTtl, now)
    BY DEF IInv, EndedOK
  <2> QED
    BY <1>1, <1>4, <2>1, <2>2, AccessEntries
<1>8. \A e \in ended' : RefreshEnded(e)' => e \in ended /\ RefreshEnded(e)
  BY <1>1 DEF RefreshEnded
<1>9. EndedOK'
  BY <1>1, <1>7, <1>8 DEF EndedOK, IInv
<1> QED
  BY <1>1, <1>2, <1>3, <1>5, <1>6, <1>9, EndStep

LEMMA TickStep ==
    ASSUME IInv, Tick
    PROVE  IInv'
<1>1. /\ now \in Nat /\ now' = now + 1 /\ now' \in Nat
      /\ UNCHANGED <<req, given, began, signed, ended>>
      /\ auth' = Unexpired(auth, now + 1)
      /\ blAccess' = Unexpired(blAccess, now + 1) /\ blRefresh' = Unexpired(blRefresh, now + 1)
  BY DEF Tick, IInv, ghosts
<1>2. SignedOK'
  <2>1. \A p \in signed : Second * p.iat \in Nat
    BY LifetimesAssumption DEF IInv, SignedOK, Pairs
  <2> QED
    BY <1>1, <2>1 DEF IInv, SignedOK
<1>3. SameSession' /\ ReqOK'
  BY <1>1 DEF IInv, SameSession, ReqOK
<1>4. KeysOK(auth)'
  <2>1. KeysOK(Unexpired(auth, now + 1))
    BY SessionsKept DEF IInv
  <2> QED
    BY <1>1, <2>1 DEF KeysOK
<1>5. DeadlinesOK(blAccess') /\ DeadlinesOK(blRefresh')
  BY <1>1, DeadlinesKept DEF IInv
<1>6. ASSUME NEW e \in ended
      PROVE  /\ Lasts(blAccess', e[1], AccessTtl, now')
             /\ RefreshEnded(e) => Lasts(blRefresh', e[1], GetRefreshTtl(e[1].remember), now')
  <2>1. /\ e[1].iat \in Nat /\ AccessTtl \in Nat /\ GetRefreshTtl(e[1].remember) \in Nat
    BY LifetimesAssumption DEF IInv, SignedOK, Pairs, GetRefreshTtl
  <2>2. /\ Lasts(blAccess, e[1], AccessTtl, now)
        /\ RefreshEnded(e) => Lasts(blRefresh, e[1], GetRefreshTtl(e[1].remember), now)
    BY DEF IInv, EndedOK
  <2>3. DeadlinesOK(blAccess) /\ DeadlinesOK(blRefresh)
    BY DEF IInv
  <2> QED
    BY <1>1, <2>1, <2>2, <2>3, Expired
<1>7. EndedOK'
  BY <1>1, <1>6 DEF EndedOK, RefreshEnded
<1> QED
  BY <1>1, <1>2, <1>3, <1>4, <1>5, <1>7 DEF IInv, DeadlinesOK

\* A sign-in, a refresh and what they await.
LEMMA SigninStep ==
    ASSUME IInv, SigninSign
    PROVE  IInv'
<1> DEFINE p == [session |-> Len(began) + 1, device |-> req.device, remember |-> req.remember,
                 first |-> now, iat |-> Clock]
<1>1. began' = Append(began, now) /\ Sign(p, "store") /\ now \in Nat /\ began \in Seq(Nat)
  BY DEF SigninSign, IInv
<1>2. p \in Pairs
  BY <1>1, ClockSecond DEF SigninSign, IInv, ReqOK, Pairs
<1>3. /\ began' \in Seq(Nat) /\ p.session \in 1..Len(began') /\ p.first = began'[p.session]
      /\ \A s \in 1..Len(began) : s \in 1..Len(began') /\ began'[s] = began[s]
  BY <1>1
<1>4. \A q \in signed : q.session # p.session
  BY <1>1 DEF IInv, SignedOK
<1>5. p.iat = Clock
  OBVIOUS
<1> HIDE DEF p
<1> QED
  BY <1>1, <1>2, <1>3, <1>4, <1>5, SignStep

LEMMA RefreshSignStep ==
    ASSUME IInv, RefreshSign
    PROVE  IInv'
<1> DEFINE p == [req.pair EXCEPT !.iat = Clock]
<1>1. began' = began /\ Sign(p, "blacklist") /\ req.pair \in signed /\ now \in Nat
  BY DEF RefreshSign, IInv, ReqOK
<1>2. req.pair \in Pairs /\ began \in Seq(Nat)
  BY <1>1 DEF IInv, SignedOK
<1>3. /\ p \in Pairs /\ p.iat = Clock /\ p.session = req.pair.session
      /\ p.first = req.pair.first /\ p.remember = req.pair.remember
  BY <1>1, <1>2, ClockSecond DEF Pairs
<1> HIDE DEF p
<1>4. p.session \in 1..Len(began) /\ p.first = began[p.session]
  BY <1>1, <1>3 DEF IInv, SignedOK
<1>5. \A q \in signed : q.session = p.session => q.remember = p.remember
  BY <1>1, <1>3 DEF IInv, SameSession
<1> QED
  BY <1>1, <1>2, <1>3, <1>4, <1>5, SignStep

LEMMA BlacklistOldStep ==
    ASSUME IInv, BlacklistOld
    PROVE  IInv'
<1> DEFINE P   == PairsOf({req.pair.session})
           ttl == GetRefreshTtl(req.pair.remember)
<1>1. /\ Blacklist(P, ttl, "rotation") /\ req' = [req EXCEPT !.pc = "store"]
      /\ UNCHANGED <<now, auth, given, began, signed>>
      /\ req.pc = "blacklist" /\ req.pair \in signed
  BY DEF BlacklistOld, IInv, ReqOK
<1>2. P \in SUBSET signed /\ \A p \in P : p.session = req.pair.session
  BY PairsSigned
<1>3. ttl \in Nat \ {0} /\ \A p \in P : ttl = GetRefreshTtl(p.remember)
  <2>1. ttl \in Nat \ {0}
    BY LifetimesAssumption DEF GetRefreshTtl
  <2>2. \A p \in P : p.remember = req.pair.remember
    BY <1>1, <1>2 DEF IInv, SameSession
  <2> QED
    BY <2>1, <2>2
<1> HIDE DEF P, ttl
<1>4. ReqOK'
  BY <1>1 DEF ReqOK
<1>5. KeysOK(auth')
  BY <1>1 DEF IInv, KeysOK
<1> QED
  BY <1>1, <1>2, <1>3, <1>4, <1>5, BlacklistStep

-----------------------------------------------------------------------------
LEMMA Initially == Init => IInv
<1> SUFFICES ASSUME Init PROVE IInv
  OBVIOUS
<1>1. /\ now = 0 /\ began = <<>> /\ signed = {} /\ given = {} /\ ended = {}
      /\ req = [pc |-> "idle"]
      /\ \A s : s \notin DOMAIN auth /\ s \notin DOMAIN blAccess /\ s \notin DOMAIN blRefresh
  BY DEF Init, NoKeys, Idle
<1> QED
  BY <1>1 DEF IInv, SignedOK, SameSession, ReqOK, KeysOK, DeadlinesOK, EndedOK

LEMMA Step == IInv /\ [Next]_vars => IInv'
<1> SUFFICES ASSUME IInv, [Next]_vars PROVE IInv'
  OBVIOUS
<1>1. /\ ReqOK /\ KeysOK(auth) /\ given \subseteq signed
  BY DEF IInv
<1>2. ASSUME NEW d \in Devices, NEW remember \in BOOLEAN, Signin(d, remember)
      PROVE  IInv'
  <2>1. /\ UNCHANGED <<now, blAccess, blRefresh, began, signed, ended, given>>
        /\ auth' = Del(auth, KeysOf(d))
        /\ req' = [pc |-> "signin", device |-> d, remember |-> remember]
    BY <1>2 DEF Signin, ghosts
  <2>2. KeysOK(auth') /\ ReqOK' /\ given' \subseteq signed
    BY <1>1, <2>1, SessionsKept DEF ReqOK
  <2> QED
    BY <2>1, <2>2, QuietStep
<1>3. ASSUME NEW p \in given, Refresh(p)
      PROVE  IInv'
  <2>1. /\ UNCHANGED <<now, blAccess, blRefresh, began, signed, ended, given>>
        /\ \/ req' = req /\ auth' = Del(auth, KeysOf(p.device))
           \/ req' = [pc |-> "refresh", pair |-> p] /\ auth' = auth
    BY <1>3 DEF Refresh, Theft, Rotate, ghosts
  <2>2. KeysOK(auth') /\ ReqOK' /\ given' \subseteq signed
    BY <1>1, <2>1, SessionsKept DEF ReqOK
  <2> QED
    BY <2>1, <2>2, QuietStep
<1>4. CASE CreateRow
  <2>1. /\ UNCHANGED <<now, auth, blAccess, blRefresh, began, signed, ended, given>>
        /\ req' = [pc |-> req.next, pair |-> req.pair] /\ req.pc = "row"
    BY <1>4 DEF CreateRow, redis, ghosts
  <2>2. KeysOK(auth') /\ ReqOK' /\ given' \subseteq signed
    BY <1>1, <2>1 DEF ReqOK
  <2> QED
    BY <2>1, <2>2, QuietStep
<1>5. CASE StoreSession
  <2>1. /\ UNCHANGED <<now, blAccess, blRefresh, began, signed, ended, given>>
        /\ req.pc = "store" /\ req.pair \in signed
        /\ req' = [req EXCEPT !.pc = "expire"] /\ auth' = HmSet(auth, req.pair.session, req.pair)
    BY <1>1, <1>5 DEF StoreSession, ghosts, ReqOK
  <2>2. KeysOK(auth')
    BY <1>1, <2>1, SessionsKept
  <2>3. ReqOK' /\ given' \subseteq signed
    BY <1>1, <2>1 DEF ReqOK
  <2> QED
    BY <2>1, <2>2, <2>3, QuietStep
<1>6. CASE ExpireSession
  <2>1. /\ UNCHANGED <<now, blAccess, blRefresh, began, signed, ended>>
        /\ req' = [pc |-> "idle"] /\ given' = given \cup {req.pair} /\ req.pair \in signed
        /\ auth' = Expire(auth, req.pair.session,
                          Second * GetRefreshTtl(req.pair.remember), now)
    BY <1>1, <1>6 DEF ExpireSession, Idle, ReqOK
  <2>2. KeysOK(auth') /\ ReqOK' /\ given' \subseteq signed
    BY <1>1, <2>1, SessionsKept DEF ReqOK
  <2> QED
    BY <2>1, <2>2, QuietStep
<1>7. ASSUME NEW p \in given, Logout(p)
      PROVE  IInv'
  <2>1. /\ Blacklist(PairsOf({p.session}), RefreshTtl, "logout")
        /\ \E R : EndSessions({p.session}, R)
    BY <1>7 DEF Logout
  <2> QED
    BY <2>1, LogoutStep
<1>8. ASSUME NEW p \in given, LogoutAll(p)
      PROVE  IInv'
  BY <1>8, LogoutStep DEF LogoutAll
<1>9. ASSUME NEW p \in given, NEW s \in DOMAIN auth, RevokeSession(p, s)
      PROVE  IInv'
  BY <1>9, LogoutStep DEF RevokeSession
<1>10. CASE PurgeExpired
  <2>1. UNCHANGED <<now, auth, blAccess, blRefresh, began, signed, ended, req, given>>
    BY <1>10 DEF PurgeExpired, redis, ghosts
  <2>2. KeysOK(auth') /\ ReqOK' /\ given' \subseteq signed
    BY <1>1, <2>1 DEF ReqOK
  <2> QED
    BY <2>1, <2>2, QuietStep
<1>11. CASE Die
  <2>1. /\ UNCHANGED <<now, auth, blAccess, blRefresh, began, signed, ended, given>>
        /\ req' = [pc |-> "idle"]
    BY <1>11 DEF Die, redis, Idle
  <2>2. KeysOK(auth') /\ ReqOK' /\ given' \subseteq signed
    BY <1>1, <2>1 DEF ReqOK
  <2> QED
    BY <2>1, <2>2, QuietStep
<1>12. CASE UNCHANGED vars
  <2>1. UNCHANGED <<now, auth, blAccess, blRefresh, began, signed, ended, req, given>>
    BY <1>12 DEF vars, redis, ghosts
  <2>2. KeysOK(auth') /\ ReqOK' /\ given' \subseteq signed
    BY <1>1, <2>1 DEF ReqOK
  <2> QED
    BY <2>1, <2>2, QuietStep
<1> QED
  BY <1>2, <1>3, <1>4, <1>5, <1>6, <1>7, <1>8, <1>9, <1>10, <1>11, <1>12,
     SigninStep, RefreshSignStep, BlacklistOldStep, PasswordStep, TickStep DEF Next

LEMMA IInvHolds == Spec => []IInv
BY Initially, Step, PTL DEF Spec

-----------------------------------------------------------------------------
\* Whatever the lifetimes of the two kinds of sessions are, an entry of the
\* blacklist ends after the token it is about, but for the refresh token of a
\* remembered session that was logged out.
THEOREM BlacklistOutlivesTokenHolds == Spec => []BlacklistOutlivesToken
<1>1. IInv => BlacklistOutlivesToken
  <2> SUFFICES ASSUME IInv, NEW e \in ended
               PROVE  /\ VerifiesAccess(e[1]) => Exists(blAccess, e[1])
                      /\ RefreshEnded(e) /\ VerifiesRefresh(e[1]) => Exists(blRefresh, e[1])
    BY DEF BlacklistOutlivesToken
  <2>1. /\ now \in Nat /\ e[1].iat \in Nat /\ AccessTtl \in Nat
        /\ GetRefreshTtl(e[1].remember) \in Nat
    BY LifetimesAssumption DEF IInv, SignedOK, Pairs, GetRefreshTtl
  <2>2. /\ VerifiesAccess(e[1]) => now < End(e[1], AccessTtl)
        /\ VerifiesRefresh(e[1]) => now < End(e[1], GetRefreshTtl(e[1].remember))
    BY <2>1, VerifiedBeforeEnd DEF VerifiesAccess, VerifiesRefresh
  <2>3. /\ Lasts(blAccess, e[1], AccessTtl, now)
        /\ RefreshEnded(e) => Lasts(blRefresh, e[1], GetRefreshTtl(e[1].remember), now)
    BY DEF IInv, EndedOK
  <2> QED
    BY <2>2, <2>3 DEF Lasts, Exists
<1> QED
  BY <1>1, IInvHolds, PTL

\* However often a session is rotated and whatever is signed beside it, no
\* rotation comes later than the cap after the sign-in.
THEOREM CapHoldsAlways == Spec => CapHolds
<1> DEFINE Capped == req'.pc = "refresh" /\ req = Idle =>
                       LET p == req'.pair
                       IN  now - began[p.session] <= Second * MaxAge(p.remember)
<1>1. IInv /\ [Next]_vars => [Capped]_vars
  <2> SUFFICES ASSUME IInv, Next, req'.pc = "refresh", req = Idle
               PROVE  now - began[req'.pair.session] <= Second * MaxAge(req'.pair.remember)
    OBVIOUS
  <2>1. req.pc = "idle" /\ req' # req
    BY DEF Idle
  <2>2. PICK p \in given : Refresh(p)
    <3>1. \A d \in Devices, remember \in BOOLEAN : ~Signin(d, remember)
      BY DEF Signin
    <3>2. /\ ~SigninSign /\ ~RefreshSign /\ ~CreateRow /\ ~BlacklistOld
          /\ ~StoreSession /\ ~ExpireSession /\ ~Die
      BY <2>1 DEF SigninSign, RefreshSign, CreateRow, BlacklistOld, StoreSession,
                  ExpireSession, Die
    <3>3. \A S, R : ~EndSessions(S, R)
      BY <2>1 DEF EndSessions
    <3>4. /\ ~NewPassword /\ \A p \in given : ~Logout(p) /\ ~LogoutAll(p)
          /\ \A p \in given, s \in DOMAIN auth : ~RevokeSession(p, s)
      BY <3>3 DEF NewPassword, Logout, LogoutAll, RevokeSession
    <3>5. ~PurgeExpired /\ ~Tick
      BY <2>1 DEF PurgeExpired, Tick
    <3> QED
      BY <3>1, <3>2, <3>4, <3>5 DEF Next
  <2>3. req' = [pc |-> "refresh", pair |-> p] /\ now - p.first <= Second * MaxAge(p.remember)
    BY <2>1, <2>2 DEF Refresh, Theft, Rotate
  <2>4. p.first = began[p.session]
    BY DEF IInv, SignedOK
  <2> QED
    BY <2>3, <2>4
<1> QED
  BY <1>1, IInvHolds, PTL DEF Spec, CapHolds

-----------------------------------------------------------------------------
\* The row of the request is written and its key is not, or not for long enough.
Writing == req.pc \in {"blacklist", "store", "expire"}

\* A session has one row, or none while its request is between two of them.
RowsInv ==
    /\ \A r \in rows : r.pair \in signed /\ r.deadline \in Nat
    /\ \A r, q \in rows : r.pair.session = q.pair.session => r = q
    /\ req.pc \in {"refresh", "row"} => \A r \in rows : r.pair.session # req.pair.session
    /\ Writing => \A r \in rows : r.pair.session = req.pair.session =>
            /\ r.pair = req.pair
            /\ r.deadline <= now + Second * GetRefreshTtl(req.pair.remember)

\* Only what was signed before is blacklisted, and it has no row any more.
Unlisted(p) == p \notin DOMAIN blAccess /\ p \notin DOMAIN blRefresh

ListsInv ==
    /\ DOMAIN blAccess \subseteq signed /\ DOMAIN blRefresh \subseteq signed
    /\ \A r \in rows : r.pair.session \notin clashed => Unlisted(r.pair)
    /\ req.pc = "row" => req.pair.session \in clashed \/ Unlisted(req.pair)
    /\ req.pc \in {"row", "blacklist"} =>
            req.pair.session \in clashed \/ req.pair \notin PairsOf({req.pair.session})

\* The key of a session has the pair of its row and outlives it.
Kept(r) == /\ r.pair.session \in DOMAIN auth /\ auth[r.pair.session].value = r.pair
           /\ r.deadline <= auth[r.pair.session].deadline

KeysInv ==
    /\ DeadlinesOK(auth)
    /\ req.pc = "expire" /\ req.pair.session \in DOMAIN auth =>
            auth[req.pair.session].value = req.pair
    /\ \A r \in rows : ~broken /\ now < r.deadline =>
            Kept(r) \/ (Writing /\ r.pair.session = req.pair.session)

UInv == RowsInv /\ ListsInv /\ KeysInv

\* Nothing is signed or entered, and between requests or before a token is signed
\* the rows that stay keep their keys.
LEMMA FewerRows ==
    ASSUME UInv, UNCHANGED <<now, signed, clashed, broken, blAccess, blRefresh>>,
           rows' \subseteq rows, ~Writing', req'.pc # "row", DeadlinesOK(auth'),
           req'.pc = "refresh" => \A r \in rows' : r.pair.session # req'.pair.session,
           \A r \in rows' : ~broken /\ now < r.deadline => Kept(r)'
    PROVE  UInv'
<1>1. RowsInv'
  BY DEF UInv, RowsInv, Writing
<1>2. ListsInv'
  BY DEF UInv, ListsInv, Writing, Unlisted
<1>3. KeysInv'
  BY DEF UInv, KeysInv, Writing, DeadlinesOK
<1> QED
  BY <1>1, <1>2, <1>3 DEF UInv

\* A row whose key an endpoint does not delete keeps it.
LEMMA KeptKey ==
    ASSUME NEW S, NEW r, Kept(r), auth' = Del(auth, S), r.pair.session \notin S
    PROVE  Kept(r)'
BY DEF Kept, Del

LEMMA DeadlinesDeleted ==
    ASSUME NEW S, DeadlinesOK(auth)
    PROVE  DeadlinesOK(Del(auth, S))
BY DEF DeadlinesOK, Del

\* The rows and the keys of a device go together.
LEMMA SigninKeeps ==
    ASSUME UInv, NEW d \in Devices, NEW remember \in BOOLEAN, Signin(d, remember)
    PROVE  UInv'
<1>1. /\ UNCHANGED <<now, signed, clashed, broken, blAccess, blRefresh>> /\ req.pc = "idle"
      /\ rows' = rows \ RowsOf(d) /\ auth' = Del(auth, KeysOf(d)) /\ req'.pc = "signin"
  BY DEF Signin, Idle, ghosts
<1>2. DeadlinesOK(auth')
  BY <1>1, DeadlinesDeleted DEF UInv, KeysInv
<1>3. ASSUME NEW r \in rows', ~broken, now < r.deadline
      PROVE  Kept(r)'
  <2>1. Kept(r) /\ r.pair.device # d
    BY <1>1, <1>3 DEF UInv, KeysInv, Writing, RowsOf
  <2>2. r.pair.session \notin KeysOf(d)
    BY <2>1 DEF Kept, KeysOf
  <2> QED
    BY <1>1, <2>1, <2>2, KeptKey
<1> QED
  BY <1>1, <1>2, <1>3, FewerRows DEF Writing

\* A refresh ends the sessions of the device, or takes the one row of its session.
LEMMA RefreshKeeps ==
    ASSUME UInv, NEW p \in given, Refresh(p)
    PROVE  UInv'
<1>1. UNCHANGED <<now, signed, clashed, broken, blAccess, blRefresh>> /\ req.pc = "idle"
  BY DEF Refresh, Idle, ghosts
<1>2. CASE Theft(p)
  <2>1. /\ rows' = rows \ RowsOf(p.device) /\ auth' = Del(auth, KeysOf(p.device))
        /\ req'.pc = "idle"
    BY <1>1, <1>2 DEF Theft
  <2>2. DeadlinesOK(auth')
    BY <2>1, DeadlinesDeleted DEF UInv, KeysInv
  <2>3. ASSUME NEW r \in rows', ~broken, now < r.deadline
        PROVE  Kept(r)'
    <3>1. Kept(r) /\ r.pair.device # p.device
      BY <1>1, <2>1, <2>3 DEF UInv, KeysInv, Writing, RowsOf
    <3>2. r.pair.session \notin KeysOf(p.device)
      BY <3>1 DEF Kept, KeysOf
    <3> QED
      BY <2>1, <3>1, <3>2, KeptKey
  <2> QED
    BY <1>1, <2>1, <2>2, <2>3, FewerRows DEF Writing
<1>3. CASE Rotate(p)
  <2>1. PICK q \in HasPair(p) : rows' = rows \ {q}
    BY <1>3 DEF Rotate
  <2>2. auth' = auth /\ req'.pc = "refresh" /\ req'.pair = p /\ q \in rows /\ q.pair = p
    BY <1>3, <2>1 DEF Rotate, HasPair
  <2>3. \A r \in rows' : r.pair.session # p.session
    BY <2>1, <2>2 DEF UInv, RowsInv
  <2>4. DeadlinesOK(auth')
    BY <2>2 DEF UInv, KeysInv
  <2>5. \A r \in rows' : ~broken /\ now < r.deadline => Kept(r)'
    BY <1>1, <2>1, <2>2 DEF UInv, KeysInv, Writing, Kept
  <2> QED
    BY <1>1, <2>1, <2>2, <2>3, <2>4, <2>5, FewerRows DEF Writing
<1> QED
  BY <1>2, <1>3 DEF Refresh

\* What is signed is new, or its session is of those signed twice.
LEMMA SignKeeps ==
    ASSUME IInv, UInv, NEW p, NEW next \in {"blacklist", "store"}, Sign(p, next), ~Writing,
           \A r \in rows : r.pair.session # p.session
    PROVE  UInv'
<1>1. /\ UNCHANGED <<now, rows, auth, blAccess, blRefresh, broken>> /\ signed' = signed \cup {p}
      /\ req'.pc = "row" /\ req'.pair = p /\ clashed \subseteq clashed'
      /\ p \in signed => p.session \in clashed'
  BY DEF Sign, redis
<1>2. p.session \in clashed' \/ (Unlisted(p) /\ p \notin PairsOf({p.session}))
  BY <1>1, PairsSigned DEF UInv, ListsInv, Unlisted
<1>3. RowsInv'
  BY <1>1 DEF UInv, RowsInv, Writing
<1>4. ListsInv'
  BY <1>1, <1>2 DEF UInv, ListsInv, Unlisted, PairsOf
<1>5. KeysInv'
  BY <1>1 DEF UInv, KeysInv, Writing, DeadlinesOK, Kept
<1> QED
  BY <1>3, <1>4, <1>5 DEF UInv

LEMMA SigninSignKeeps ==
    ASSUME IInv, UInv, SigninSign
    PROVE  UInv'
<1> DEFINE p == [session |-> Len(began) + 1, device |-> req.device, remember |-> req.remember,
                 first |-> now, iat |-> Clock]
<1>1. Sign(p, "store") /\ ~Writing
  BY DEF SigninSign, Writing
<1>2. \A r \in rows : r.pair.session # p.session
  BY DEF IInv, SignedOK, UInv, RowsInv
<1> HIDE DEF p
<1> QED
  BY <1>1, <1>2, SignKeeps

LEMMA RefreshSignKeeps ==
    ASSUME IInv, UInv, RefreshSign
    PROVE  UInv'
<1> DEFINE p == [req.pair EXCEPT !.iat = Clock]
<1>1. Sign(p, "blacklist") /\ req.pc = "refresh" /\ ~Writing
  BY DEF RefreshSign, Writing
<1>2. p.session = req.pair.session
  BY <1>1 DEF IInv, ReqOK, SignedOK, Pairs
<1>3. \A r \in rows : r.pair.session # p.session
  BY <1>1, <1>2 DEF UInv, RowsInv
<1> HIDE DEF p
<1> QED
  BY <1>1, <1>3, SignKeeps

\* The row of the request is the only one of its session.
LEMMA RowKeeps ==
    ASSUME IInv, UInv, CreateRow
    PROVE  UInv'
<1> DEFINE p   == req.pair
           ttl == Second * GetRefreshTtl(p.remember)
           new == [pair |-> p, deadline |-> now + ttl]
<1>1. /\ UNCHANGED <<now, auth, blAccess, blRefresh, signed, clashed, broken>>
      /\ rows' \subseteq rows \cup {new} /\ req.pc = "row" /\ p \in signed /\ now \in Nat
      /\ req' = [pc |-> req.next, pair |-> p] /\ req.next \in {"blacklist", "store"}
  BY DEF CreateRow, Cleanup, redis, ghosts, IInv, ReqOK
<1>2. ttl \in Nat
  BY LifetimesAssumption DEF GetRefreshTtl
<1>3. new.pair = p /\ new.deadline = now + ttl /\ new.deadline \in Nat
  BY <1>1, <1>2
<1>4. \A r \in rows : r.pair.session # p.session
  BY <1>1 DEF UInv, RowsInv
<1>5. p.session \in clashed \/ (Unlisted(p) /\ p \notin PairsOf({p.session}))
  BY <1>1 DEF UInv, ListsInv
<1>6. req'.pair = p /\ req'.pc \in {"blacklist", "store"} /\ ~Writing
  BY <1>1 DEF Writing
<1> HIDE DEF new
<1>7. RowsInv'
  <2>1. \A r \in rows' : r.pair \in signed /\ r.deadline \in Nat
    BY <1>1, <1>3 DEF UInv, RowsInv
  <2>2. \A r, q \in rows' : r.pair.session = q.pair.session => r = q
    BY <1>1, <1>3, <1>4 DEF UInv, RowsInv
  <2>3. \A r \in rows' : r.pair.session = p.session => r.pair = p /\ r.deadline <= now + ttl
    BY <1>1, <1>2, <1>3, <1>4
  <2> QED
    BY <1>1, <1>6, <2>1, <2>2, <2>3 DEF RowsInv
<1>8. ListsInv'
  BY <1>1, <1>3, <1>5, <1>6 DEF UInv, ListsInv, Unlisted, PairsOf
<1>9. KeysInv'
  <2>1. ASSUME NEW r \in rows', ~broken, now < r.deadline, r.pair.session # p.session
        PROVE  Kept(r)'
    <3>1. Kept(r)
      BY <1>1, <1>3, <1>6, <2>1 DEF UInv, KeysInv
    <3> QED
      BY <1>1, <3>1 DEF Kept
  <2>2. Writing'
    BY <1>6 DEF Writing
  <2> QED
    BY <1>1, <1>6, <2>1, <2>2 DEF UInv, KeysInv, DeadlinesOK
<1> QED
  BY <1>7, <1>8, <1>9 DEF UInv

\* A rotation blacklists the pair of the key, which has lost its row.
LEMMA BlacklistOldKeeps ==
    ASSUME IInv, UInv, BlacklistOld
    PROVE  UInv'
<1> DEFINE p == req.pair
           P == PairsOf({p.session})
<1>1. /\ UNCHANGED <<now, rows, auth, signed, clashed, broken>>
      /\ req.pc = "blacklist" /\ Writing /\ Writing' /\ req'.pc = "store" /\ req'.pair = p
  <2>1. req' = [req EXCEPT !.pc = "store"] /\ req.pc = "blacklist"
    BY DEF BlacklistOld
  <2>2. req'.pc = "store" /\ req'.pair = p
    BY <2>1
  <2> QED
    BY <2>1, <2>2 DEF BlacklistOld, Writing
<1>2. /\ DOMAIN blAccess' = DOMAIN blAccess \cup P
      /\ DOMAIN blRefresh' = DOMAIN blRefresh \cup P
  BY DEF BlacklistOld, Blacklist, BlacklistAccess, SetKeys, Put
<1>3. \A q \in P : q \in signed /\ q.session = p.session
  BY PairsSigned
<1>4. p.session \in clashed \/ p \notin P
  BY <1>1 DEF UInv, ListsInv
<1> HIDE DEF P
<1>5. RowsInv'
  BY <1>1 DEF UInv, RowsInv
<1>6. ListsInv'
  <2>1. \A r \in rows : r.pair.session \notin clashed => r.pair \notin P
    BY <1>1, <1>3, <1>4 DEF UInv, RowsInv
  <2> QED
    BY <1>1, <1>2, <1>3, <2>1 DEF UInv, ListsInv, Unlisted
<1>7. KeysInv'
  BY <1>1 DEF UInv, KeysInv, DeadlinesOK, Kept
<1> QED
  BY <1>5, <1>6, <1>7 DEF UInv

\* The key gets the pair; the keys of other sessions stay.
LEMMA StoreKeeps ==
    ASSUME IInv, UInv, StoreSession
    PROVE  UInv'
<1> DEFINE p == req.pair
<1>1. /\ UNCHANGED <<now, rows, blAccess, blRefresh, signed, clashed, broken>>
      /\ auth' = HmSet(auth, p.session, p)
      /\ Writing /\ Writing' /\ req'.pc = "expire" /\ req'.pair = p
  <2>1. req' = [req EXCEPT !.pc = "expire"] /\ req.pc = "store"
    BY DEF StoreSession
  <2>2. req'.pc = "expire" /\ req'.pair = p
    BY <2>1
  <2> QED
    BY <2>1, <2>2 DEF StoreSession, Writing, ghosts
<1>2. RowsInv'
  BY <1>1 DEF UInv, RowsInv
<1>3. ListsInv'
  BY <1>1 DEF UInv, ListsInv, Unlisted
<1>4. DeadlinesOK(auth')
  BY <1>1 DEF UInv, KeysInv, DeadlinesOK, HmSet, Put, Exists, NoDeadline
<1>5. p.session \in DOMAIN auth' /\ auth'[p.session].value = p
  BY <1>1 DEF HmSet, Put
<1>6. ASSUME NEW r, Kept(r), r.pair.session # p.session
      PROVE  Kept(r)'
  BY <1>1, <1>6 DEF Kept, HmSet, Put
<1>7. KeysInv'
  BY <1>1, <1>4, <1>5, <1>6 DEF UInv, KeysInv, DeadlinesOK
<1> QED
  BY <1>2, <1>3, <1>7 DEF UInv

\* The key of the request gets its deadline, after the row did.
LEMMA ExpireKeeps ==
    ASSUME IInv, UInv, ExpireSession
    PROVE  UInv'
<1> DEFINE p   == req.pair
           ttl == Second * GetRefreshTtl(p.remember)
<1>1. /\ UNCHANGED <<now, rows, blAccess, blRefresh, signed, clashed>>
      /\ auth' = Expire(auth, p.session, ttl, now) /\ now \in Nat
      /\ broken' = (broken \/ ~Exists(auth, p.session))
      /\ req.pc = "expire" /\ Writing /\ req'.pc = "idle" /\ ~Writing'
  BY DEF ExpireSession, Idle, Writing, IInv
<1>2. ttl \in Nat
  BY LifetimesAssumption DEF GetRefreshTtl
<1>3. RowsInv'
  BY <1>1 DEF UInv, RowsInv
<1>4. ListsInv'
  BY <1>1 DEF UInv, ListsInv, Unlisted
<1>5. DeadlinesOK(auth')
  BY <1>1, <1>2 DEF UInv, KeysInv, DeadlinesOK, Expire, Put, Exists
<1>6. ASSUME NEW r \in rows, ~broken', now < r.deadline
      PROVE  Kept(r)'
  <2>1. ~broken /\ p.session \in DOMAIN auth
    BY <1>1, <1>6 DEF Exists
  <2>2. CASE r.pair.session = p.session
    <3>1. r.pair = p /\ r.deadline <= now + ttl
      BY <1>1, <2>2 DEF UInv, RowsInv
    <3>2. auth[p.session].value = p
      BY <1>1, <2>1 DEF UInv, KeysInv
    <3> QED
      BY <1>1, <2>1, <3>1, <3>2 DEF Kept, Expire, Exists, Put
  <2>3. CASE r.pair.session # p.session
    <3>1. Kept(r)
      BY <1>6, <2>1, <2>3 DEF UInv, KeysInv
    <3> QED
      BY <1>1, <2>3, <3>1 DEF Kept, Expire, Exists, Put
  <2> QED
    BY <2>2, <2>3
<1>7. KeysInv'
  BY <1>1, <1>5, <1>6 DEF KeysInv, DeadlinesOK
<1> QED
  BY <1>3, <1>4, <1>7 DEF UInv

\* The endpoints that end sessions: what they blacklist has no row any more.
LEMMA EndKeeps ==
    ASSUME IInv, UInv, req = Idle, NEW S, NEW R \in SUBSET rows, EndSessions(S, R),
           NEW P \in SUBSET signed, signed' = signed,
           DOMAIN blAccess' \subseteq DOMAIN blAccess \cup P,
           DOMAIN blRefresh' \subseteq DOMAIN blRefresh \cup P,
           \A r \in R : r.pair \notin P,
           \A r \in R : ~broken /\ now < r.deadline => r.pair.session \notin S \/ ~Kept(r)
    PROVE  UInv'
<1>1. /\ UNCHANGED <<now, req, signed, clashed, broken>> /\ rows' = R /\ auth' = Del(auth, S)
      /\ req.pc = "idle" /\ ~Writing /\ ~Writing'
  BY DEF EndSessions, Idle, Writing
<1>2. RowsInv'
  BY <1>1 DEF UInv, RowsInv
<1>3. ListsInv'
  BY <1>1 DEF UInv, ListsInv, Unlisted
<1>4. ASSUME NEW r \in R, ~broken, now < r.deadline
      PROVE  Kept(r)'
  <2>1. Kept(r)
    BY <1>1, <1>4 DEF UInv, KeysInv
  <2> QED
    BY <1>1, <1>4, <2>1, KeptKey
<1>5. KeysInv'
  BY <1>1, <1>4, DeadlinesDeleted DEF UInv, KeysInv, DeadlinesOK
<1> QED
  BY <1>2, <1>3, <1>5 DEF UInv

LEMMA ListsGrow ==
    ASSUME NEW P, NEW ttl, NEW by, Blacklist(P, ttl, by)
    PROVE  /\ DOMAIN blAccess' \subseteq DOMAIN blAccess \cup P
           /\ DOMAIN blRefresh' \subseteq DOMAIN blRefresh \cup P
BY DEF Blacklist, BlacklistAccess, SetKeys, Put

\* The rows of the blacklisted pairs of some sessions are revoked.
LEMMA LogoutKeeps ==
    ASSUME IInv, UInv, req = Idle, NEW S, NEW R \in SUBSET rows,
           Blacklist(PairsOf(S), RefreshTtl, "logout"), EndSessions(S, R),
           \A r \in R : r.pair \notin PairsOf(S)
    PROVE  UInv'
<1>1. PairsOf(S) \in SUBSET signed /\ signed' = signed
  BY PairsSigned DEF EndSessions
<1>2. \A r \in R : Kept(r) => r.pair.session \notin S
  BY DEF Kept, PairsOf
<1> QED
  BY <1>1, <1>2, ListsGrow, EndKeeps

LEMMA EndpointsKeep ==
    ASSUME IInv, UInv, NEW p \in given,
           Logout(p) \/ LogoutAll(p) \/ \E s \in DOMAIN auth : RevokeSession(p, s)
    PROVE  UInv'
<1>1. CASE Logout(p)
  <2> DEFINE S == {p.session}
  <2>1. req = Idle /\ Blacklist(PairsOf(S), RefreshTtl, "logout")
    BY <1>1 DEF Logout
  <2>2. PICK R : /\ EndSessions(S, R) /\ R \subseteq rows
                 /\ p.session \in DOMAIN auth => R \subseteq {r \in rows : r.pair \notin PairsOf(S)}
    BY <1>1 DEF Logout, Cleanup
  <2>3. p.session \notin DOMAIN auth => PairsOf(S) = {}
    BY DEF PairsOf
  <2>4. \A r \in R : r.pair \notin PairsOf(S)
    BY <2>2, <2>3
  <2> QED
    BY <2>1, <2>2, <2>4, LogoutKeeps
<1>2. CASE LogoutAll(p)
  <2>1. \A r \in {} : r.pair \notin PairsOf(DOMAIN auth)
    OBVIOUS
  <2> QED
    BY <1>2, <2>1, LogoutKeeps DEF LogoutAll
<1>3. ASSUME NEW s \in DOMAIN auth, RevokeSession(p, s)
      PROVE  UInv'
  BY <1>3, LogoutKeeps DEF RevokeSession
<1> QED
  BY <1>1, <1>2, <1>3

LEMMA PasswordKeeps ==
    ASSUME IInv, UInv, NewPassword
    PROVE  UInv'
<1> DEFINE P == PairsOf(DOMAIN auth)
<1>1. /\ req = Idle /\ EndSessions(DOMAIN auth, {}) /\ blRefresh' = blRefresh
      /\ DOMAIN blAccess' \subseteq DOMAIN blAccess \cup P /\ signed' = signed
  BY DEF NewPassword, EndSessions, BlacklistAccess, SetKeys, Put
<1>2. P \in SUBSET signed
  BY PairsSigned
<1> HIDE DEF P
<1> QED
  BY <1>1, <1>2, EndKeeps

\* A row that has not expired has a key that has not.
LEMMA TickKeeps ==
    ASSUME IInv, UInv, Tick
    PROVE  UInv'
<1>1. /\ now \in Nat /\ now' = now + 1 /\ UNCHANGED <<rows, req, signed, clashed, broken>>
      /\ auth' = Unexpired(auth, now + 1)
      /\ blAccess' = Unexpired(blAccess, now + 1) /\ blRefresh' = Unexpired(blRefresh, now + 1)
  BY DEF Tick, IInv, ghosts
<1>2. /\ DOMAIN blAccess' \subseteq DOMAIN blAccess /\ DOMAIN blRefresh' \subseteq DOMAIN blRefresh
      /\ DOMAIN auth' \subseteq DOMAIN auth /\ \A s \in DOMAIN auth' : auth'[s] = auth[s]
  BY <1>1 DEF Unexpired, Del
<1>3. RowsInv'
  <2>1. \A d \in Nat : \A t \in Nat : d <= now + t => d <= now' + t
    BY <1>1
  <2>2. Second * GetRefreshTtl(req.pair.remember) \in Nat
    BY LifetimesAssumption DEF GetRefreshTtl
  <2> QED
    BY <1>1, <2>1, <2>2 DEF UInv, RowsInv, Writing
<1>4. ListsInv'
  <2>1. \A S : PairsOf(S)' \subseteq PairsOf(S)
    BY <1>2 DEF PairsOf
  <2>2. PairsOf({req.pair.session})' \subseteq PairsOf({req.pair.session})
    BY <1>1, <1>2 DEF PairsOf
  <2> QED
    BY <1>1, <1>2, <2>2 DEF UInv, ListsInv, Unlisted
<1>5. ASSUME NEW r \in rows, now' < r.deadline, Kept(r)
      PROVE  Kept(r)'
  <2>1. r.deadline \in Nat /\ auth[r.pair.session].deadline \in Nat
    BY <1>5 DEF UInv, RowsInv, KeysInv, DeadlinesOK, Kept
  <2>2. ~(auth[r.pair.session].deadline <= now + 1)
    BY <1>1, <1>5, <2>1 DEF Kept
  <2> QED
    BY <1>1, <1>5, <2>2 DEF Kept, Unexpired, Del
<1>6. KeysInv'
  <2>1. DeadlinesOK(auth)'
    BY <1>2 DEF UInv, KeysInv, DeadlinesOK
  <2>2. \A r \in rows : now' < r.deadline => now < r.deadline
    BY <1>1 DEF UInv, RowsInv
  <2> QED
    BY <1>1, <1>2, <1>5, <2>1, <2>2 DEF UInv, KeysInv, Writing
<1> QED
  BY <1>3, <1>4, <1>6 DEF UInv

\* Rows that have expired need no key, and what died leaves none to be kept.
LEMMA PurgeAndDeathKeep ==
    ASSUME IInv, UInv, PurgeExpired \/ Die \/ UNCHANGED vars
    PROVE  UInv'
<1>1. /\ UNCHANGED <<now, signed, clashed, auth, blAccess, blRefresh>> /\ rows' \subseteq rows
      /\ \/ req' = req /\ broken' = broken
         \/ req'.pc = "idle" /\ broken' = TRUE
  BY DEF PurgeExpired, Die, Idle, Cleanup, vars, redis, ghosts
<1>2. RowsInv'
  BY <1>1 DEF UInv, RowsInv, Writing
<1>3. ListsInv'
  BY <1>1 DEF UInv, ListsInv, Unlisted, PairsOf
<1>4. KeysInv'
  BY <1>1 DEF UInv, KeysInv, DeadlinesOK, Writing, Kept
<1> QED
  BY <1>2, <1>3, <1>4 DEF UInv

LEMMA UsableInitially == Init => UInv
<1> SUFFICES ASSUME Init PROVE UInv
  OBVIOUS
<1>1. /\ rows = {} /\ DOMAIN auth = {} /\ DOMAIN blAccess = {} /\ DOMAIN blRefresh = {}
      /\ req.pc = "idle"
  BY DEF Init, NoKeys, Idle
<1> QED
  BY <1>1 DEF UInv, RowsInv, ListsInv, KeysInv, DeadlinesOK, Writing

LEMMA UsableStep == IInv /\ UInv /\ [Next]_vars => UInv'
BY SigninKeeps, RefreshKeeps, SigninSignKeeps, RefreshSignKeeps, RowKeeps, BlacklistOldKeeps,
   StoreKeeps, ExpireKeeps, EndpointsKeep, PasswordKeeps, TickKeeps, PurgeAndDeathKeep DEF Next

\* Between requests, what can be refreshed can be used and ended: a row that has
\* not expired has the key of its session with its pair, for at least as long, and
\* its pair is in no blacklist, however the clock ran at the awaits of sign-in and
\* refresh (signin.provider.ts, refresh-token.provider.ts).
THEOREM SessionUsableHolds == Spec => []SessionUsable
<1>1. IInv /\ UInv => SessionUsable
  <2> SUFFICES ASSUME IInv, UInv, req = Idle, ~broken, NEW r \in Cleanup(rows)
               PROVE  /\ Kept(r)
                      /\ r.pair.session \notin clashed => Unlisted(r.pair)
    BY DEF IInv, UInv, RowsInv, KeysInv, DeadlinesOK, SessionUsable, Kept, Unlisted, Exists
  <2>1. r \in rows /\ now < r.deadline /\ r.deadline \in Nat
    BY DEF IInv, UInv, RowsInv, Cleanup
  <2>2. ~Writing
    BY DEF Writing, Idle
  <2> QED
    BY <2>1, <2>2 DEF UInv, KeysInv, ListsInv
<1>2. Spec => []UInv
  BY UsableInitially, UsableStep, IInvHolds, PTL DEF Spec
<1> QED
  BY <1>1, <1>2, IInvHolds, PTL
=============================================================================
