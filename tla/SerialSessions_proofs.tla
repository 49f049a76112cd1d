----------------------- MODULE SerialSessions_proofs ------------------------
(***************************************************************************)
(* For every number of devices, of token pairs and of password changes:    *)
(* when requests are served one at a time, a session has one live token, a *)
(* password change ends every session, Redis, the refresh_tokens table and *)
(* the login history tell the same story between requests, a logout leaves *)
(* nothing of its session, and the sessions implement SessionRegistry.     *)
(*                                                                         *)
(* None of this holds when requests interleave, when a call fails half-way *)
(* or when the address of a client changes (the runs revocation_race and   *)
(* rotation_race look at what is left then), so the theorems assume one    *)
(* worker, no fault and stable fingerprints.  They are about what each     *)
(* handler does from its first await to its last: SerialInv says, for the  *)
(* await the request has reached, by how much the three stores differ.     *)
(***************************************************************************)
EXTENDS AuthSessions_proofs

-----------------------------------------------------------------------------
(* What is true at each await of a request that is alone.                   *)

NoneLive(S)     == \A p \in S : row[p] # "live"
SessionPairs(s) == {p \in Issued : claims[p].sess = s}
FamilyPairs(f)  == {p \in Issued : rowFam[p] = f}

\* A session stays in one family, that of its rows, keys and history row.
FamiliesInv ==
    /\ \A p \in Issued : /\ rowFam[p] = claims[p].fam
                         /\ claims[p].fam = claims[claims[p].sess].fam
    /\ \A w \in Workers :
         req[w].pc \in RefreshPcs => req[w].fp = rowFam[req[w].arg]

\* What a request has made of the rows when it reaches an await.
RowsLocal(r) ==
    /\ r.pc \in {"si_scan", "si_drop", "si_revoke", "si_close", "si_issue"}
         => r.pw = password
    /\ r.pc \in {"si_close", "si_issue"} => NoneLive(FamilyPairs(r.fp))
    /\ r.pc \in RefreshPcs => r.arg \in delivered
    /\ r.pc = "rf_revoke" => row[r.arg] # "revoked"
    /\ r.pc = "rf_issue" => /\ claims[r.arg].password = password
                            /\ NoneLive(SessionPairs(claims[r.arg].sess))
    /\ r.pc \in SignedPcs
         => /\ NoneLive(SessionPairs(claims[r.new].sess) \ {r.new})
            /\ r.new \notin rtExpired => row[r.new] = "live"
            /\ claims[r.new].sess = IF r.pc \in SigninPcs THEN r.new
                                    ELSE claims[r.arg].sess
    /\ r.pc \in {"th_scan", "th_drop"} => NoneLive(FamilyPairs(claims[r.arg].fam))
    /\ r.pc \in {"la_close", "pw_scan", "pw_keys"} => NoneLive(Issued)

\* Every live row is the only one of its session, has been handed out and was
\* signed under the password of now, but for what the request is about to do.
RowsInv ==
    \A w \in Workers :
      /\ \A p \in Issued : row[p] = "live" =>
           /\ \/ p \in delivered
              \/ req[w].pc \in SignedPcs /\ p = req[w].new
           /\ claims[p].password = password \/ req[w].pc = "pw_revoke"
      /\ RowsLocal(req[w])

\* A live row whose key the request has dropped, or not written yet.
Keyless(r, p) ==
    \/ r.pc = "si_revoke" /\ rowFam[p] = r.fp
    \/ r.pc \in {"si_clean", "si_store", "rf_clean", "rf_old", "rf_black",
                 "rf_store"} /\ p = r.new
    \/ r.pc \in {"lo_verify", "lo_revoke"} /\ p = r.old
    \/ r.pc = "la_keys"

\* A key whose row the request has revoked, or consumed.
Rowless(r, k) ==
    \/ r.pc \in {"rf_issue", "rf_clean", "rf_old", "rf_black", "rf_store"}
         /\ k = KeyOf(r.arg)
    \/ r.pc \in {"th_scan", "th_drop"} /\ k[1] = claims[r.arg].fam
    \/ r.pc = "rs_del" /\ k \in r.todo
    \/ r.pc \in {"pw_scan", "pw_keys"}

\* A live pair the request has blacklisted before it revokes the row.
Doomed(r, p) ==
    \/ r.pc \in {"lo_verify", "lo_revoke", "rs_verify", "rs_revoke"} /\ p = r.old
    \/ r.pc = "la_keys"

\* What a request knows of the keys at an await.
KeysLocal(r) ==
    /\ r.pc = "si_drop" => /\ FamilyKeys(r.fp) \subseteq r.todo
                           /\ \A k \in r.todo : k[1] = r.fp
    /\ r.pc = "si_revoke" => FamilyKeys(r.fp) = {}
    /\ r.pc = "th_drop" => /\ FamilyKeys(claims[r.arg].fam) \subseteq r.todo
                           /\ \A k \in r.todo : k[1] = claims[r.arg].fam
    /\ r.pc \in {"si_clean", "si_store", "rf_clean", "rf_old", "rf_black",
                 "rf_store"}
         => redis[KeyOf(r.new)] # r.new
    /\ r.pc = "rf_black" => /\ r.old # r.new
                            /\ r.old # None => KeyOf(r.old) = KeyOf(r.new)
    /\ r.pc = "lo_drop" => redis[KeyOf(r.arg)] \in {r.old, None}
    /\ r.pc \in {"lo_drop", "lo_verify", "lo_revoke"}
         => r.old = None \/ KeyOf(r.old) = KeyOf(r.arg)
    /\ r.pc \in {"lo_verify", "lo_revoke", "lo_close", "lo_clean"}
         => redis[KeyOf(r.arg)] = None
    /\ r.pc \in RevokePcs => \A j, k \in r.todo : j = k
    /\ r.pc \in {"rs_black", "rs_verify", "rs_revoke", "rs_del"}
         => /\ \A k \in r.todo : redis[k] \in {r.old, None}
            /\ r.old # None => KeyOf(r.old) \in r.todo
    /\ r.pc \in {"lo_revoke", "rs_revoke"} => r.old # None
    /\ r.pc = "rs_del" => r.old = None \/ row[r.old] # "live"
    /\ r.pc \in {"la_keys", "pw_keys"}
         => LiveKeys \subseteq r.todo \cup {h[1] : h \in r.held}

Usable(p) == row[p] = "live" /\ p \notin rtExpired

\* A usable row has its key, a key whose token has not expired has its row, and
\* nothing usable is blacklisted, but for what the request is about to do.
RowsKeyed(r) == \A p \in Issued :
    Usable(p) => redis[KeyOf(p)] = p \/ Keyless(r, p)
KeysBacked(r) == \A k \in LiveKeys :
    redis[k] \notin rtExpired => row[redis[k]] = "live" \/ Rowless(r, k)
NoneBlacklisted(r) == \A p \in blRefresh : Usable(p) => Doomed(r, p)

SyncInv == \A w \in Workers :
    /\ RowsKeyed(req[w]) /\ KeysBacked(req[w])
    /\ NoneBlacklisted(req[w]) /\ KeysLocal(req[w])

\* The history row of a session is open, or an expired token has closed it.
HistoryOpen(s) == history[s] = "open" \/ \E o \in rtExpired : claims[o].sess = s

HistoryLocal(r) ==
    /\ r.pc \in (RefreshPcs \cap SignedPcs) \cup {"rf_revoke", "rf_issue"}
         => HistoryOpen(claims[r.arg].sess)
    /\ r.pc = "rf_save" => /\ r.seen # "none"
                           /\ \/ r.seen = "open"
                              \/ \E o \in rtExpired :
                                   claims[o].sess = claims[r.arg].sess
    /\ r.pc = "lo_clean" => history[claims[r.arg].sess] # "open"

\* Between requests: what the invariants above come to when none is under way.
LiveAreCurrent == \A p \in Issued :
    row[p] = "live" => p \in delivered /\ claims[p].password = password
AllKeyed  == \A p \in Issued : Usable(p) => redis[KeyOf(p)] = p
AllBacked == \A k \in LiveKeys :
    redis[k] \notin rtExpired => row[redis[k]] = "live"
AllClean  == \A p \in blRefresh : ~Usable(p)
Recorded  == \A p \in delivered :
    /\ history[claims[p].sess] # "none"
    /\ Usable(p) => HistoryOpen(claims[p].sess)
Settled   == LiveAreCurrent /\ AllKeyed /\ AllBacked /\ AllClean /\ Recorded

HistoryInv == Recorded /\ \A w \in Workers : HistoryLocal(req[w])

SerialInv == /\ OneLiveTokenPerSession /\ FamiliesInv /\ RowsInv
             /\ SyncInv /\ HistoryInv


-----------------------------------------------------------------------------
(* A step of the one request.                                              *)

Alone(w)  == Workers = {w} /\ ~Faults /\ ~Drift
Before(w) == Alone(w) /\ IndInv /\ KeysInv /\ SerialInv

\* The request goes on; no pair is signed.
Moves(w, l, m) ==
    /\ req[w].pc = l /\ req'[w].pc = m
    /\ req'[w].arg = req[w].arg /\ req'[w].fp = req[w].fp
    /\ req'[w].new = req[w].new /\ req'[w].pw = req[w].pw
    /\ issued' = issued /\ claims' = claims /\ rowFam' = rowFam

Holds(w) == /\ req'[w].old = req[w].old /\ req'[w].todo = req[w].todo
            /\ req'[w].held = req[w].held /\ req'[w].seen = req[w].seen

\* What Before says of the request and of the stores.
Typed(w) ==
    /\ w \in Workers /\ Workers = {w} /\ Faults = FALSE /\ Drift = FALSE
    /\ req \in [Workers -> Requests] /\ req[w] \in Requests
    /\ LocalInv(req[w], issued, row) /\ req[w].old \in 0..issued
    /\ issued \in Nat /\ Issued \subseteq Pairs
    /\ delivered \subseteq Issued /\ blRefresh \subseteq Issued
    /\ redis \in [Keys -> 0..MaxPairs] /\ row \in [Pairs -> RowStates]
    /\ history \in [Pairs -> HistoryStates]
    /\ \A p \in Issued : KeyOf(p) \in Keys /\ claims[p].sess \in Issued
    /\ \A k \in Keys :
         redis[k] # None => redis[k] \in Issued /\ k = KeyOf(redis[k])

Invariants(w) ==
    /\ OneLiveTokenPerSession /\ FamiliesInv /\ RowsInv /\ HistoryInv
    /\ RowsLocal(req[w]) /\ KeysLocal(req[w]) /\ HistoryLocal(req[w])
    /\ RowsKeyed(req[w]) /\ KeysBacked(req[w]) /\ NoneBlacklisted(req[w])

LEMMA Known == ASSUME NEW w, Before(w) PROVE Typed(w) /\ Invariants(w)
  BY Local, IssuedPairs
     DEF Before, Alone, SerialInv, IndInv, TypeOK, StoresOK, PairsInv, KeysInv,
         HeldOK, KeyHolds, RowsInv, SyncInv, HistoryInv, Typed, Invariants

\* The session key names the session and its family.
LEMMA SessionKeyOf ==
    ASSUME NEW w, Before(w)
    PROVE  /\ \A p \in Issued : /\ KeyOf(p)[1] = rowFam[p]
                                /\ claims[p].fam = rowFam[p]
                                /\ claims[claims[p].sess].fam = rowFam[p]
           /\ \A p, q \in Issued :
                claims[p].sess = claims[q].sess <=> KeyOf(p) = KeyOf(q)
<1>1. \A p \in Issued : /\ claims[p].fam = rowFam[p] /\ claims[p].sess \in Issued
                         /\ claims[claims[p].sess].fam = rowFam[p]
  BY Known DEF Typed, Invariants, FamiliesInv
<1>2. \A p \in Issued : KeyOf(p)[1] = rowFam[p]
  BY <1>1 DEF KeyOf
<1>3. ASSUME NEW p \in Issued, NEW q \in Issued
      PROVE  claims[p].sess = claims[q].sess <=> KeyOf(p) = KeyOf(q)
  <2>1. claims[p].sess = claims[q].sess => claims[p].fam = claims[q].fam
    BY <1>1
  <2> QED
    BY <2>1 DEF KeyOf
<1> QED
  BY <1>1, <1>2, <1>3

LEMMA Going ==
    ASSUME NEW w, Before(w), NEW m, Goto(w, m), UNCHANGED <<tokens, rowFam>>
    PROVE  Moves(w, req[w].pc, m) /\ Holds(w)
  BY Known
     DEF Goto, Moves, Holds, Requests, tokens, Typed, IndInv, TypeOK, Before

LEMMA FamiliesMove ==
    ASSUME NEW w, Before(w), NEW l, NEW m, Moves(w, l, m),
           m \in RefreshPcs => l \in RefreshPcs
    PROVE  FamiliesInv'
  BY Known DEF Moves, FamiliesInv, Issued, Invariants, Before, Alone

LEMMA OneLiveKilled ==
    ASSUME NEW w, Before(w), Kills, UNCHANGED <<issued, claims>>
    PROVE  OneLiveTokenPerSession'
  BY Known DEF OneLiveTokenPerSession, Kills, Issued, Typed, Invariants

LEMMA Ends ==
    ASSUME NEW w, Before(w), Finish(w), UNCHANGED <<issued, claims, rowFam>>,
           Kills, Settled'
    PROVE  SerialInv'
<1>1. req'[w].pc = "idle" /\ Workers = {w}
  BY Known DEF Finish, NoRequest, Typed
<1>2. OneLiveTokenPerSession'
  BY OneLiveKilled
<1>3. FamiliesInv'
  BY <1>1, Known DEF FamiliesInv, Invariants, Issued, RefreshPcs
<1>4. RowsInv'
  BY <1>1 DEF Settled, LiveAreCurrent, RowsInv, RowsLocal, RefreshPcs, SignedPcs
<1>5. SyncInv'
  <2>1. RowsKeyed(req[w])' /\ KeysBacked(req[w])' /\ NoneBlacklisted(req[w])'
    BY DEF Settled, AllKeyed, AllBacked, AllClean, RowsKeyed, KeysBacked,
           NoneBlacklisted
  <2>2. KeysLocal(req[w])'
    BY <1>1 DEF KeysLocal, RevokePcs
  <2> QED
    BY <1>1, <2>1, <2>2 DEF SyncInv
<1>6. HistoryInv'
  BY <1>1 DEF Settled, HistoryInv, HistoryLocal, SignedPcs
<1> QED
  BY <1>2, <1>3, <1>4, <1>5, <1>6 DEF SerialInv

LEMMA Idle ==
    ASSUME NEW w, Before(w), req[w].pc = "idle"
    PROVE  Settled
<1>1. LiveAreCurrent
  BY Known DEF LiveAreCurrent, Invariants, RowsInv, Typed, SignedPcs
<1>2. AllKeyed
  BY Known DEF AllKeyed, Invariants, RowsKeyed, Keyless
<1>3. AllBacked
  BY Known DEF AllBacked, Invariants, KeysBacked, Rowless
<1>4. AllClean
  BY Known DEF AllClean, Invariants, NoneBlacklisted, Doomed
<1> QED
  BY <1>1, <1>2, <1>3, <1>4, Known DEF Settled, Invariants, HistoryInv

-----------------------------------------------------------------------------
(* A pair is signed.                                                       *)

\* What a sign-in or a rotation signs when it runs alone: a pair of its family
\* and of the password of now, in a session that has no live row.
SignsAlone(w, c, f, l) ==
    /\ MaySign(c) /\ f = req[w].fp /\ c.fam = f /\ c.password = password
    /\ \/ /\ l = "si_clean" /\ req[w].pc = "si_issue" /\ c.sess = issued + 1
       \/ /\ l = "rf_clean" /\ req[w].pc = "rf_issue" /\ f = rowFam[req[w].arg]
          /\ c.sess = claims[req[w].arg].sess /\ c.sess \in Issued
          /\ claims[c.sess].fam = f
    /\ NoneLive(SessionPairs(c.sess))

LEMMA IssueSerial ==
    ASSUME NEW w, Before(w), NEW c, NEW f, NEW l, Issue(w, c, f, l),
           SignsAlone(w, c, f, l),
           UNCHANGED <<user, cache, history, delivered, clock>>
    PROVE  SerialInv'
<1>. PICK q : q = issued + 1
  OBVIOUS
<1>0. Typed(w) /\ Invariants(w)
  BY Known
<1>1. /\ q \in Pairs /\ q \notin Issued /\ q \notin delivered
      /\ Issued \subseteq Pairs /\ q # None
      /\ q \notin blRefresh /\ \A k \in Keys : redis[k] # q
  BY <1>0, ConstantsAssumption
     DEF Typed, Issue, IndInv, TypeOK, StoresOK, Pairs, Issued, None
<1>2. /\ Issued' = Issued \cup {q}
      /\ UNCHANGED <<password, delivered, history, redis, blRefresh, rtExpired>>
  BY <1>0 DEF Issue, Issued, Typed, user, cache, clock
<1>3. /\ claims \in [Pairs -> Claims]
      /\ rowFam \in [Pairs -> Families \cup {NoFamily}]
      /\ row \in [Pairs -> RowStates] /\ c \in Claims
  BY DEF SignsAlone, MaySign, Before, IndInv, TypeOK, StoresOK
<1>4. /\ claims'[q] = c /\ row'[q] = "live" /\ rowFam'[q] = f
      /\ \A p \in Issued : /\ claims'[p] = claims[p] /\ row'[p] = row[p]
                           /\ rowFam'[p] = rowFam[p] /\ p # q
  BY <1>1, <1>3 DEF Issue
<1>5. /\ req'[w] = [req[w] EXCEPT !.pc = l, !.new = q]
      /\ req'[w].pc = l /\ req'[w].new = q /\ req'[w].arg = req[w].arg
      /\ req'[w].fp = f
  BY <1>0 DEF Issue, Typed, SignsAlone
<1>6. /\ \A p \in Issued : KeyOf(p)' = KeyOf(p)
      /\ KeyOf(q)' = <<f, c.sess>> /\ KeyOf(q)' \in Keys
  <2>1. c.fam = f /\ f \in Families /\ c.sess \in Pairs
    BY <1>1 DEF SignsAlone, MaySign
  <2> QED
    BY <1>4, <2>1 DEF KeyOf, Keys
<1>7. /\ \A p \in Issued : claims[p].sess \in Issued /\ claims[p].sess # q
      /\ \A p \in Issued : claims[p].sess = c.sess => row[p] # "live"
  BY <1>0, <1>1 DEF Typed, SignsAlone, NoneLive, SessionPairs
<1>8. l = "rf_clean" => /\ req[w].arg \in Issued /\ KeyOf(q)' = KeyOf(req[w].arg)
                        /\ req[w].pc = "rf_issue"
                        /\ c.sess = claims[req[w].arg].sess
  BY <1>0, <1>6
     DEF Typed, LocalInv, SignsAlone, RefreshPcs, Issued, KeyOf, Invariants,
         FamiliesInv
<1>9. /\ l \in {"si_clean", "rf_clean"}
      /\ req[w].pc = IF l = "si_clean" THEN "si_issue" ELSE "rf_issue"
      /\ l = "si_clean" => c.sess = q
  BY DEF SignsAlone
<1>10. OneLiveTokenPerSession'
  BY <1>0, <1>2, <1>4, <1>7 DEF OneLiveTokenPerSession, Invariants
<1>11. FamiliesInv'
  <2>1. /\ rowFam'[q] = claims'[q].fam
        /\ claims'[q].fam = claims'[claims'[q].sess].fam
    BY <1>4 DEF SignsAlone
  <2>2. \A p \in Issued : /\ rowFam'[p] = claims'[p].fam
                          /\ claims'[p].fam = claims'[claims'[p].sess].fam
    BY <1>0, <1>4, <1>7 DEF Invariants, FamiliesInv
  <2>3. l \in RefreshPcs => f = rowFam'[req[w].arg]
    BY <1>4, <1>8 DEF RefreshPcs, SignsAlone
  <2> QED
    BY <1>0, <1>2, <1>5, <2>1, <2>2, <2>3 DEF FamiliesInv, Typed
<1>12. RowsInv'
  <2>1. \A p \in Issued' : row'[p] = "live" =>
          /\ p \in delivered' \/ p = req'[w].new
          /\ claims'[p].password = password'
    BY <1>0, <1>2, <1>4, <1>5
       DEF Invariants, RowsInv, Typed, SignedPcs, SignsAlone
  <2>2. \A p \in Issued' : claims'[p].sess = c.sess /\ p # q => row'[p] # "live"
    BY <1>2, <1>4, <1>7
  <2>3. RowsLocal(req[w])'
    BY <1>0, <1>4, <1>5, <1>8, <1>9, <2>2
       DEF RowsLocal, NoneLive, SessionPairs, SigninPcs, RefreshPcs, SignedPcs,
           Invariants
  <2> QED
    BY <1>0, <1>5, <1>9, <2>1, <2>3 DEF RowsInv, Typed, SignedPcs
<1>13. RowsKeyed(req[w])'
  BY <1>0, <1>2, <1>4, <1>5, <1>6, <1>9
     DEF Invariants, RowsKeyed, Keyless, Usable
<1>14. KeysBacked(req[w])'
  <2>1. \A k \in LiveKeys : redis[k] \in Issued
    BY <1>0 DEF LiveKeys, Typed
  <2> QED
    BY <1>0, <1>2, <1>4, <1>5, <1>6, <1>8, <1>9, <2>1
       DEF Invariants, KeysBacked, Rowless, LiveKeys
<1>15. NoneBlacklisted(req[w])'
  BY <1>0, <1>2, <1>4, <1>9
     DEF Typed, Invariants, NoneBlacklisted, Usable, Doomed
<1>16. KeysLocal(req[w])'
  BY <1>1, <1>2, <1>5, <1>6, <1>9 DEF KeysLocal, RevokePcs
<1>17. HistoryInv'
  <2>1. \A s \in Issued : HistoryOpen(s) => HistoryOpen(s)'
    <3>1. \A o \in rtExpired :
            claims[o].sess \in Issued => claims'[o].sess = claims[o].sess
      <4>1. \A o \in Pairs \ Issued : claims[o].sess \notin Issued
        BY DEF Before, IndInv, PairsInv, NoClaims, None, Issued, Typed
      <4> QED
        BY <1>4, <4>1 DEF Before, IndInv, TypeOK, StoresOK
    <3> QED
      BY <1>2, <3>1 DEF HistoryOpen
  <2>2. Recorded'
    BY <1>0, <1>2, <1>4, <2>1
       DEF Typed, Invariants, HistoryInv, Recorded, Usable
  <2>3. HistoryLocal(req[w])'
    <3>1. PICK s : s = c.sess
      OBVIOUS
    <3>2. l = "rf_clean" => s \in Issued /\ HistoryOpen(s)
      BY <1>0, <1>8, <3>1 DEF Typed, Invariants, HistoryLocal
    <3>3. l = "rf_clean" => HistoryOpen(s)'
      BY <2>1, <3>2
    <3>4. l = "rf_clean" => s = claims'[req'[w].arg].sess
      BY <1>4, <1>5, <1>8, <3>1
    <3> QED
      BY <1>5, <1>9, <3>3, <3>4 DEF HistoryLocal, RefreshPcs, SignedPcs
  <2> QED
    BY <1>0, <2>2, <2>3 DEF HistoryInv, Typed
<1> QED
  BY <1>0, <1>10, <1>11, <1>12, <1>13, <1>14, <1>15, <1>16, <1>17
     DEF SerialInv, SyncInv, Typed

LEMMA SigninSignsAlone ==
    ASSUME NEW w, Before(w), SigninIssue(w)
    PROVE  SignsAlone(w, [fam |-> req[w].fp, sess |-> issued + 1, parent |-> None,
                          password |-> req[w].pw], req[w].fp, "si_clean")
<1> DEFINE c == [fam |-> req[w].fp, sess |-> issued + 1, parent |-> None,
                 password |-> req[w].pw]
<1>0. Typed(w) /\ Invariants(w)
  BY Known
<1>1. /\ req[w].fp \in Families /\ req[w].pw = password /\ req[w].pc = "si_issue"
      /\ req[w].pw \in 0..MaxPasswords
  BY <1>0
     DEF Typed, Invariants, RowsLocal, LocalInv, SigninIssue, At, SigninPcs,
         Requests
<1>2. /\ issued + 1 \in 1..(issued + 1) /\ issued + 1 \in 0..MaxPairs
      /\ None \in 0..MaxPairs
  BY IssuedPairs DEF SigninIssue, Issue, None, Before
<1>3. MaySign(c)
  BY <1>1, <1>2 DEF MaySign, Claims
<1>4. \A p \in Issued : claims[p].sess # issued + 1
  BY <1>0 DEF Typed, Issued
<1> QED
  BY <1>1, <1>3, <1>4 DEF SignsAlone, NoneLive, SessionPairs

LEMMA SigninIssueSerial ==
    ASSUME NEW w, Before(w), SigninIssue(w)
    PROVE  SerialInv'
  BY SigninSignsAlone, IssueSerial DEF SigninIssue

LEMMA RefreshSignsAlone ==
    ASSUME NEW w, Before(w), RefreshIssue(w)
    PROVE  SignsAlone(w, [claims[req[w].arg] EXCEPT !.fam = rowFam[req[w].arg],
                                                    !.parent = req[w].arg],
                      req[w].fp, "rf_clean")
<1> DEFINE p == req[w].arg
           c == [claims[p] EXCEPT !.fam = rowFam[p], !.parent = p]
<1>0. Typed(w) /\ Invariants(w)
  BY Known
<1>1. /\ req[w].fp \in Families /\ req[w].pc = "rf_issue"
      /\ p \in Issued /\ row[p] # "live"
  BY <1>0 DEF Typed, RefreshIssue, At, LocalInv, RefreshPcs, Issued
<1>2. /\ p \in 0..MaxPairs /\ p # None /\ rowFam[p] \in Families
      /\ claims[p] \in Claims /\ claims[p].sess \in 1..(issued + 1)
  BY <1>1, IssuedPairs DEF Pairs, None, IndInv, PairsInv, Issued, Before
<1>3. /\ c \in Claims /\ c.fam = rowFam[p] /\ c.sess = claims[p].sess
      /\ c.parent = p /\ c.password = claims[p].password
  BY <1>2 DEF Claims
<1>4. MaySign(c)
  BY <1>1, <1>2, <1>3 DEF MaySign
<1> QED
  BY <1>0, <1>1, <1>4
     DEF SignsAlone, Typed, Invariants, RowsLocal, FamiliesInv, RefreshPcs

LEMMA RefreshIssueSerial ==
    ASSUME NEW w, Before(w), RefreshIssue(w)
    PROVE  SerialInv'
  BY RefreshSignsAlone, IssueSerial DEF RefreshIssue

-----------------------------------------------------------------------------
(* Sign-in.                                                                *)

LEMMA SigninScanSerial ==
    ASSUME NEW w, Before(w), SigninScan(w)
    PROVE  SerialInv'
<1>1. Typed(w) /\ Invariants(w)
  BY Known
<1>2. /\ Moves(w, "si_scan", "si_drop")
      /\ req'[w].todo = FamilyKeys(req[w].fp)
  BY <1>1 DEF SigninScan, Moves, Typed, At, tokens, table, Scans
<1>3. /\ UNCHANGED <<row, password, delivered, history, redis,
                     blRefresh, rtExpired>>
      /\ Kills
      /\ \A p : KeyOf(p)' = KeyOf(p)
  BY Killers
     DEF SigninScan, user, tokens, table, cache, clock, Moves, KeyOf, Before
<1>4. OneLiveTokenPerSession'
  BY <1>2, <1>3, OneLiveKilled DEF Moves
<1>5. FamiliesInv'
  BY <1>2, FamiliesMove DEF RefreshPcs
<1>6. RowsInv'
  BY <1>1, <1>2, <1>3
     DEF Typed, Invariants, Moves, RowsInv, RowsLocal, NoneLive, SessionPairs,
         FamilyPairs, Issued, SigninPcs, RefreshPcs, SignedPcs
<1>7. RowsKeyed(req[w])'
  BY <1>1, <1>2, <1>3 DEF Invariants, Moves, RowsKeyed, Keyless, Usable, Issued
<1>8. KeysBacked(req[w])'
  BY <1>1, <1>2, <1>3 DEF Invariants, Moves, KeysBacked, Rowless, LiveKeys, None
<1>9. NoneBlacklisted(req[w])'
  BY <1>1, <1>2, <1>3 DEF Invariants, Moves, NoneBlacklisted, Doomed, Usable
<1>10. KeysLocal(req[w])'
  BY <1>2, <1>3 DEF Moves, KeysLocal, KeyOf, RevokePcs, FamilyKeys, LiveKeys
<1>11. HistoryInv'
  BY <1>1, <1>2, <1>3
     DEF Typed, Invariants, Moves, Holds, HistoryInv, Recorded, HistoryLocal,
         HistoryOpen, Usable, RefreshPcs, SignedPcs
<1> QED
  BY <1>1, <1>4, <1>5, <1>6, <1>7, <1>8, <1>9, <1>10, <1>11
     DEF SerialInv, SyncInv, Typed

LEMMA SigninDropSerial ==
    ASSUME NEW w, Before(w), SigninDrop(w)
    PROVE  SerialInv'
<1>1. Typed(w) /\ Invariants(w)
  BY Known
<1>2. /\ Moves(w, "si_drop", "si_revoke")
  BY <1>1 DEF SigninDrop, Moves, Typed, At, tokens, table
<1>3. /\ UNCHANGED <<row, password, delivered, history, blRefresh, rtExpired>>
      /\ Kills
      /\ \A p : KeyOf(p)' = KeyOf(p)
      /\ redis' = [k \in Keys |-> IF k \in req[w].todo THEN None ELSE redis[k]]
  BY Killers
     DEF SigninDrop, user, tokens, table, cache, clock, Moves, KeyOf, Before,
         DeleteKeys
<1>4. /\ FamilyKeys(req[w].fp) \subseteq req[w].todo
      /\ \A k \in req[w].todo : k[1] = req[w].fp
  BY <1>1, <1>2 DEF Invariants, Moves, KeysLocal
<1>5. OneLiveTokenPerSession'
  BY <1>2, <1>3, OneLiveKilled DEF Moves
<1>6. FamiliesInv'
  BY <1>2, FamiliesMove DEF RefreshPcs
<1>7. RowsInv'
  BY <1>1, <1>2, <1>3
     DEF Typed, Invariants, Moves, RowsInv, RowsLocal, NoneLive, SessionPairs,
         FamilyPairs, Issued, SigninPcs, RefreshPcs, SignedPcs
<1>8. RowsKeyed(req[w])'
  BY <1>1, <1>2, <1>3, <1>4, SessionKeyOf
     DEF Typed, Invariants, Moves, Holds, RowsKeyed, Keyless, Usable, Issued
<1>9. KeysBacked(req[w])'
  BY <1>1, <1>2, <1>3
     DEF Invariants, Moves, Holds, KeysBacked, Rowless, LiveKeys, None
<1>10. NoneBlacklisted(req[w])'
  BY <1>1, <1>2, <1>3
     DEF Invariants, Moves, Holds, NoneBlacklisted, Doomed, Usable
<1>11. KeysLocal(req[w])'
  BY <1>2, <1>3, <1>4
     DEF Moves, KeysLocal, KeyOf, RevokePcs, FamilyKeys, LiveKeys
<1>12. HistoryInv'
  BY <1>1, <1>2, <1>3
     DEF Typed, Invariants, Moves, Holds, HistoryInv, Recorded, HistoryLocal,
         HistoryOpen, Usable, RefreshPcs, SignedPcs
<1> QED
  BY <1>1, <1>5, <1>6, <1>7, <1>8, <1>9, <1>10, <1>11, <1>12
     DEF SerialInv, SyncInv, Typed

LEMMA SigninRevokeSerial ==
    ASSUME NEW w, Before(w), SigninRevoke(w)
    PROVE  SerialInv'
<1>1. Typed(w) /\ Invariants(w)
  BY Known
<1>2. Moves(w, "si_revoke", "si_close") /\ Holds(w)
  BY Going DEF SigninRevoke, At, clock
<1>3. /\ UNCHANGED <<password, delivered, history, redis, blRefresh, rtExpired>>
      /\ Kills
      /\ \A p : KeyOf(p)' = KeyOf(p)
      /\ \A p \in Pairs :
           row'[p] = "live" <=> row[p] = "live" /\ rowFam[p] # req[w].fp
  BY Killers
     DEF SigninRevoke, user, tokens, table, cache, clock, Moves, KeyOf, Before,
         RevokeRows
<1>4. \A k \in Keys : redis[k] # None => rowFam[redis[k]] # req[w].fp
  BY <1>1, <1>2, SessionKeyOf
     DEF Typed, Invariants, Moves, KeysLocal, FamilyKeys, LiveKeys
<1>5. OneLiveTokenPerSession'
  BY <1>2, <1>3, OneLiveKilled DEF Moves
<1>6. FamiliesInv'
  BY <1>2, FamiliesMove DEF RefreshPcs
<1>7. RowsInv'
  BY <1>1, <1>2, <1>3
     DEF Typed, Invariants, Moves, RowsInv, RowsLocal, NoneLive, SessionPairs,
         FamilyPairs, Issued, SigninPcs, RefreshPcs, SignedPcs
<1>8. RowsKeyed(req[w])'
  BY <1>1, <1>2, <1>3
     DEF Typed, Invariants, Moves, Holds, RowsKeyed, Keyless, Usable, Issued
<1>9. KeysBacked(req[w])'
  BY <1>1, <1>2, <1>3, <1>4
     DEF Typed, Invariants, Moves, Holds, KeysBacked, Rowless, LiveKeys, None
<1>10. NoneBlacklisted(req[w])'
  BY <1>1, <1>2, <1>3
     DEF Typed, Invariants, Moves, Holds, NoneBlacklisted, Doomed, Usable
<1>11. KeysLocal(req[w])'
  BY <1>2 DEF Moves, KeysLocal, KeyOf, RevokePcs
<1>12. HistoryInv'
  BY <1>1, <1>2, <1>3
     DEF Typed, Invariants, Moves, Holds, HistoryInv, Recorded, HistoryLocal,
         HistoryOpen, Usable, RefreshPcs, SignedPcs
<1> QED
  BY <1>1, <1>5, <1>6, <1>7, <1>8, <1>9, <1>10, <1>11, <1>12
     DEF SerialInv, SyncInv, Typed

LEMMA SigninCloseSerial ==
    ASSUME NEW w, Before(w), SigninClose(w)
    PROVE  SerialInv'
<1>1. Typed(w) /\ Invariants(w)
  BY Known
<1>2. Moves(w, "si_close", "si_issue") /\ Holds(w)
  BY Going DEF SigninClose, At, table, clock
<1>3. /\ UNCHANGED <<row, password, delivered, redis, blRefresh, rtExpired>>
      /\ Kills
      /\ \A p : KeyOf(p)' = KeyOf(p)
      /\ history' = [s \in Pairs |->
           IF claims[s].fam = req[w].fp /\ history[s] = "open"
           THEN "closed" ELSE history[s]]
  BY Killers
     DEF SigninClose, user, tokens, table, cache, clock, Moves, KeyOf, Before,
         CloseHistory
<1>4. \A p \in Issued : row[p] = "live" => claims[claims[p].sess].fam # req[w].fp
  BY <1>1, <1>2, SessionKeyOf
     DEF Invariants, Moves, RowsLocal, NoneLive, FamilyPairs
<1>5. OneLiveTokenPerSession'
  BY <1>2, <1>3, OneLiveKilled DEF Moves
<1>6. FamiliesInv'
  BY <1>2, FamiliesMove DEF RefreshPcs
<1>7. RowsInv'
  BY <1>1, <1>2, <1>3
     DEF Typed, Invariants, Moves, RowsInv, RowsLocal, NoneLive, SessionPairs,
         FamilyPairs, Issued, SigninPcs, RefreshPcs, SignedPcs
<1>8. RowsKeyed(req[w])'
  BY <1>1, <1>2, <1>3
     DEF Invariants, Moves, Holds, RowsKeyed, Keyless, Usable, Issued
<1>9. KeysBacked(req[w])'
  BY <1>1, <1>2, <1>3
     DEF Invariants, Moves, Holds, KeysBacked, Rowless, LiveKeys, None
<1>10. NoneBlacklisted(req[w])'
  BY <1>1, <1>2, <1>3
     DEF Invariants, Moves, Holds, NoneBlacklisted, Doomed, Usable
<1>11. KeysLocal(req[w])'
  BY <1>2 DEF Moves, KeysLocal, KeyOf, RevokePcs
<1>12. HistoryInv'
  BY <1>1, <1>2, <1>3, <1>4
     DEF Typed, Invariants, Moves, Holds, HistoryInv, Recorded, HistoryLocal,
         HistoryOpen, Usable, RefreshPcs, SignedPcs
<1> QED
  BY <1>1, <1>5, <1>6, <1>7, <1>8, <1>9, <1>10, <1>11, <1>12
     DEF SerialInv, SyncInv, Typed

LEMMA SigninCleanSerial ==
    ASSUME NEW w, Before(w), SigninClean(w)
    PROVE  SerialInv'
<1>1. Typed(w) /\ Invariants(w)
  BY Known
<1>2. Moves(w, "si_clean", "si_store") /\ Holds(w)
  BY Going DEF SigninClean, At, clock, Cleanup
<1>3. /\ UNCHANGED <<password, delivered, history, redis, blRefresh, rtExpired>>
      /\ Kills
      /\ \A p : KeyOf(p)' = KeyOf(p)
      /\ \A p \in Pairs :
           row'[p] = "live" <=> row[p] = "live" /\ p \notin rtExpired
      /\ \A p \in Pairs : row'[p] = "revoked" => row[p] = "revoked"
  BY Killers
     DEF SigninClean, user, tokens, table, cache, clock, Moves, KeyOf, Before,
         Cleanup, CleanupRows
<1>4. req[w].new \in Issued /\ KeyOf(req[w].new) \in Keys
  BY <1>1, <1>2
     DEF Typed, Moves, LocalInv, Issued, SignedPcs, RefreshPcs, LogoutPcs
<1>5. OneLiveTokenPerSession'
  BY <1>2, <1>3, OneLiveKilled DEF Moves
<1>6. FamiliesInv'
  BY <1>2, FamiliesMove DEF RefreshPcs
<1>7. RowsInv'
  BY <1>1, <1>2, <1>3, <1>4
     DEF Typed, Invariants, Moves, RowsInv, RowsLocal, NoneLive, SessionPairs,
         FamilyPairs, Issued, SigninPcs, RefreshPcs, SignedPcs
<1>8. RowsKeyed(req[w])'
  BY <1>1, <1>2, <1>3
     DEF Typed, Invariants, Moves, Holds, RowsKeyed, Keyless, Usable, Issued
<1>9. KeysBacked(req[w])'
  BY <1>1, <1>2, <1>3
     DEF Typed, Invariants, Moves, Holds, KeysBacked, Rowless, LiveKeys, None
<1>10. NoneBlacklisted(req[w])'
  BY <1>1, <1>2, <1>3
     DEF Typed, Invariants, Moves, Holds, NoneBlacklisted, Doomed, Usable
<1>11. KeysLocal(req[w])'
  BY <1>1, <1>2, <1>3 DEF Invariants, Moves, KeysLocal, KeyOf, RevokePcs
<1>12. HistoryInv'
  BY <1>1, <1>2, <1>3
     DEF Typed, Invariants, Moves, Holds, HistoryInv, Recorded, HistoryLocal,
         HistoryOpen, Usable, RefreshPcs, SignedPcs
<1> QED
  BY <1>1, <1>5, <1>6, <1>7, <1>8, <1>9, <1>10, <1>11, <1>12
     DEF SerialInv, SyncInv, Typed

LEMMA SigninStoreSerial ==
    ASSUME NEW w, Before(w), SigninStore(w)
    PROVE  SerialInv'
<1>1. Typed(w) /\ Invariants(w)
  BY Known
<1>2. Moves(w, "si_store", "si_record") /\ Holds(w)
  BY Going DEF SigninStore, At, table, clock
<1>3. /\ UNCHANGED <<row, password, delivered, history, blRefresh, rtExpired>>
      /\ Kills
      /\ \A p : KeyOf(p)' = KeyOf(p)
      /\ redis' = [redis EXCEPT ![KeyOf(req[w].new)] = req[w].new]
  BY Killers
     DEF SigninStore, user, tokens, table, cache, clock, Moves, KeyOf, Before
<1>4. req[w].new \in Issued /\ KeyOf(req[w].new) \in Keys
  BY <1>1, <1>2
     DEF Typed, Moves, LocalInv, Issued, SignedPcs, RefreshPcs, LogoutPcs
<1>5. \A p \in Issued : row[p] = "live" =>
        p = req[w].new \/ KeyOf(p) # KeyOf(req[w].new)
  BY <1>1, <1>2, <1>4, SessionKeyOf
     DEF Invariants, Moves, RowsLocal, NoneLive, SessionPairs, SignedPcs
<1>6. req[w].new \notin rtExpired => row[req[w].new] = "live"
  BY <1>1, <1>2 DEF Invariants, Moves, RowsLocal, SignedPcs
<1>7. OneLiveTokenPerSession'
  BY <1>2, <1>3, OneLiveKilled DEF Moves
<1>8. FamiliesInv'
  BY <1>2, FamiliesMove DEF RefreshPcs
<1>9. RowsInv'
  BY <1>1, <1>2, <1>3
     DEF Typed, Invariants, Moves, RowsInv, RowsLocal, NoneLive, SessionPairs,
         FamilyPairs, Issued, SigninPcs, RefreshPcs, SignedPcs
<1>10. RowsKeyed(req[w])'
  BY <1>1, <1>2, <1>3, <1>5
     DEF Typed, Invariants, Moves, Holds, RowsKeyed, Keyless, Usable, Issued
<1>11. KeysBacked(req[w])'
  BY <1>1, <1>2, <1>3, <1>6
     DEF Invariants, Moves, Holds, KeysBacked, Rowless, LiveKeys, None
<1>12. NoneBlacklisted(req[w])'
  BY <1>1, <1>2, <1>3
     DEF Invariants, Moves, Holds, NoneBlacklisted, Doomed, Usable
<1>13. KeysLocal(req[w])'
  BY <1>2 DEF Moves, Holds, KeysLocal, KeyOf, RevokePcs
<1>14. HistoryInv'
  BY <1>1, <1>2, <1>3
     DEF Typed, Invariants, Moves, Holds, HistoryInv, Recorded, HistoryLocal,
         HistoryOpen, Usable, RefreshPcs, SignedPcs
<1> QED
  BY <1>1, <1>7, <1>8, <1>9, <1>10, <1>11, <1>12, <1>13, <1>14
     DEF SerialInv, SyncInv, Typed

LEMMA SigninRecordSerial ==
    ASSUME NEW w, Before(w), SigninRecord(w)
    PROVE  SerialInv'
<1>1. Typed(w) /\ Invariants(w)
  BY Known
<1>2. /\ req[w].pc = "si_record" /\ Finish(w)
      /\ UNCHANGED <<issued, claims, rowFam>> /\ \A p : KeyOf(p)' = KeyOf(p)
  BY DEF SigninRecord, At, tokens, table, clock, KeyOf
<1>3. /\ UNCHANGED <<row, password, redis, blRefresh, rtExpired>> /\ Kills
      /\ history' = [history EXCEPT ![req[w].new] = "open"]
      /\ delivered' = delivered \cup {req[w].new}
  BY Killers DEF SigninRecord, user, table, cache, clock, Before
<1>4. req[w].new \in Issued /\ claims[req[w].new].sess = req[w].new
  BY <1>1, <1>2
     DEF Typed, LocalInv, Issued, SignedPcs, RefreshPcs, LogoutPcs, Invariants,
         RowsLocal, SigninPcs
<1>5. LiveAreCurrent'
  BY <1>1, <1>2, <1>3
     DEF Typed, Invariants, RowsInv, LiveAreCurrent, SignedPcs, Issued
<1>6. AllKeyed'
  BY <1>1, <1>2, <1>3
     DEF Invariants, AllKeyed, RowsKeyed, Keyless, Usable, Issued
<1>7. AllBacked'
  BY <1>1, <1>2, <1>3
     DEF Invariants, AllBacked, KeysBacked, Rowless, LiveKeys, None
<1>8. AllClean'
  BY <1>1, <1>2, <1>3 DEF Invariants, AllClean, NoneBlacklisted, Doomed, Usable
<1>9. Recorded'
  BY <1>1, <1>2, <1>3, <1>4
     DEF Typed, Invariants, HistoryInv, Recorded, HistoryOpen, Usable,
         HistoryStates
<1> QED
  BY <1>2, <1>3, <1>5, <1>6, <1>7, <1>8, <1>9, Ends DEF Settled

-----------------------------------------------------------------------------
(* Refresh.                                                                *)

LEMMA RefreshVerifySerial ==
    ASSUME NEW w, Before(w), RefreshVerify(w)
    PROVE  SerialInv'
<1>1. Typed(w) /\ Invariants(w)
  BY Known
<1>2. Moves(w, "rf_verify", "rf_revoke") /\ Holds(w)
  BY Going DEF RefreshVerify, At, table, clock
<1>3. /\ UNCHANGED <<row, password, delivered, history, redis,
                     blRefresh, rtExpired>>
      /\ Kills
      /\ \A p : KeyOf(p)' = KeyOf(p)
      /\ row[req[w].arg] = "live" /\ req[w].arg \notin rtExpired
  BY Killers
     DEF RefreshVerify, user, tokens, table, cache, clock, Moves, KeyOf, Before
<1>4. HistoryOpen(claims[req[w].arg].sess)
  BY <1>1, <1>2, <1>3
     DEF Moves, Invariants, RowsLocal, HistoryInv, Recorded, Usable, RefreshPcs
<1>5. OneLiveTokenPerSession'
  BY <1>2, <1>3, OneLiveKilled DEF Moves
<1>6. FamiliesInv'
  BY <1>2, FamiliesMove DEF RefreshPcs
<1>7. RowsInv'
  BY <1>1, <1>2, <1>3
     DEF Typed, Invariants, Moves, RowsInv, RowsLocal, NoneLive, SessionPairs,
         FamilyPairs, Issued, SigninPcs, RefreshPcs, SignedPcs
<1>8. RowsKeyed(req[w])'
  BY <1>1, <1>2, <1>3
     DEF Invariants, Moves, Holds, RowsKeyed, Keyless, Usable, Issued
<1>9. KeysBacked(req[w])'
  BY <1>1, <1>2, <1>3
     DEF Invariants, Moves, Holds, KeysBacked, Rowless, LiveKeys, None
<1>10. NoneBlacklisted(req[w])'
  BY <1>1, <1>2, <1>3
     DEF Invariants, Moves, Holds, NoneBlacklisted, Doomed, Usable
<1>11. KeysLocal(req[w])'
  BY <1>2 DEF Moves, KeysLocal, KeyOf, RevokePcs
<1>12. HistoryInv'
  BY <1>1, <1>2, <1>3, <1>4
     DEF Typed, Invariants, Moves, Holds, HistoryInv, Recorded, HistoryLocal,
         HistoryOpen, Usable, RefreshPcs, SignedPcs
<1> QED
  BY <1>1, <1>5, <1>6, <1>7, <1>8, <1>9, <1>10, <1>11, <1>12
     DEF SerialInv, SyncInv, Typed

LEMMA RefreshRefuseSerial ==
    ASSUME NEW w, Before(w), RefreshRefuse(w)
    PROVE  SerialInv'
<1>1. Typed(w) /\ Invariants(w)
  BY Known
<1>2. /\ req[w].pc = "rf_verify" /\ Finish(w)
      /\ UNCHANGED <<issued, claims, rowFam>> /\ \A p : KeyOf(p)' = KeyOf(p)
  BY DEF RefreshRefuse, At, tokens, table, clock, KeyOf
<1>3. /\ UNCHANGED <<row, password, delivered, history, redis,
                     blRefresh, rtExpired>>
      /\ Kills
  BY Killers DEF RefreshRefuse, user, table, cache, clock, Before
<1>4. LiveAreCurrent'
  BY <1>1, <1>2, <1>3
     DEF Typed, Invariants, RowsInv, LiveAreCurrent, SignedPcs, Issued
<1>5. AllKeyed'
  BY <1>1, <1>2, <1>3
     DEF Invariants, AllKeyed, RowsKeyed, Keyless, Usable, Issued
<1>6. AllBacked'
  BY <1>1, <1>2, <1>3
     DEF Invariants, AllBacked, KeysBacked, Rowless, LiveKeys, None
<1>7. AllClean'
  BY <1>1, <1>2, <1>3 DEF Invariants, AllClean, NoneBlacklisted, Doomed, Usable
<1>8. Recorded'
  BY <1>1, <1>2, <1>3 DEF Invariants, HistoryInv, Recorded, HistoryOpen, Usable
<1> QED
  BY <1>2, <1>3, <1>4, <1>5, <1>6, <1>7, <1>8, Ends DEF Settled

LEMMA RefreshTheftSerial ==
    ASSUME NEW w, Before(w), RefreshTheft(w)
    PROVE  SerialInv'
<1>1. Typed(w) /\ Invariants(w)
  BY Known
<1>2. Moves(w, "rf_verify", "th_revoke") /\ Holds(w)
  BY Going DEF RefreshTheft, At, table, clock
<1>3. /\ UNCHANGED <<row, password, delivered, history, redis,
                     blRefresh, rtExpired>>
      /\ Kills
      /\ \A p : KeyOf(p)' = KeyOf(p)
  BY Killers
     DEF RefreshTheft, user, tokens, table, cache, clock, Moves, KeyOf, Before
<1>4. OneLiveTokenPerSession'
  BY <1>2, <1>3, OneLiveKilled DEF Moves
<1>5. FamiliesInv'
  BY <1>2, FamiliesMove DEF RefreshPcs
<1>6. RowsInv'
  BY <1>1, <1>2, <1>3
     DEF Typed, Invariants, Moves, RowsInv, RowsLocal, NoneLive, SessionPairs,
         FamilyPairs, Issued, SigninPcs, RefreshPcs, SignedPcs
<1>7. RowsKeyed(req[w])'
  BY <1>1, <1>2, <1>3 DEF Invariants, Moves, RowsKeyed, Keyless, Usable, Issued
<1>8. KeysBacked(req[w])'
  BY <1>1, <1>2, <1>3 DEF Invariants, Moves, KeysBacked, Rowless, LiveKeys, None
<1>9. NoneBlacklisted(req[w])'
  BY <1>1, <1>2, <1>3 DEF Invariants, Moves, NoneBlacklisted, Doomed, Usable
<1>10. KeysLocal(req[w])'
  BY <1>2 DEF Moves, KeysLocal, KeyOf, RevokePcs
<1>11. HistoryInv'
  BY <1>1, <1>2, <1>3
     DEF Typed, Invariants, Moves, HistoryInv, Recorded, HistoryLocal,
         HistoryOpen, Usable, RefreshPcs, SignedPcs
<1> QED
  BY <1>1, <1>4, <1>5, <1>6, <1>7, <1>8, <1>9, <1>10, <1>11
     DEF SerialInv, SyncInv, Typed

LEMMA RefreshRevokeGoesSerial ==
    ASSUME NEW w, Before(w), RefreshRevoke(w), Goto(w, "rf_issue"),
           UpdateRow(req[w].arg)
    PROVE  SerialInv'
<1>1. Typed(w) /\ Invariants(w)
  BY Known
<1>2. Moves(w, "rf_revoke", "rf_issue") /\ Holds(w)
  BY Going DEF RefreshRevoke, At, clock
<1>3. req[w].arg \in Issued /\ req[w].arg \in Pairs
  BY <1>1, <1>2 DEF Typed, Moves, LocalInv, Issued, RefreshPcs, LogoutPcs
<1>4. /\ UNCHANGED <<password, delivered, history, redis, blRefresh, rtExpired>>
      /\ Kills
      /\ \A p : KeyOf(p)' = KeyOf(p)
      /\ row[req[w].arg] # "none" /\ row' = [row EXCEPT ![req[w].arg] = "revoked"]
  BY <1>3, Killers
     DEF RefreshRevoke, user, tokens, table, cache, clock, Moves, KeyOf, Before,
         UpdateRow
<1>5. row[req[w].arg] = "live"
  BY <1>1, <1>2, <1>3, <1>4 DEF Typed, Invariants, Moves, RowsLocal, RowStates
<1>6. \A p \in Issued : row'[p] = "live" =>
        /\ row[p] = "live" /\ p # req[w].arg
        /\ claims[p].sess # claims[req[w].arg].sess
  BY <1>1, <1>3, <1>4, <1>5 DEF Typed, Invariants, OneLiveTokenPerSession
<1>7. OneLiveTokenPerSession'
  BY <1>2, <1>4, OneLiveKilled DEF Moves
<1>8. FamiliesInv'
  BY <1>2, FamiliesMove DEF RefreshPcs
<1>9. RowsInv'
  BY <1>1, <1>2, <1>3, <1>4, <1>5, <1>6
     DEF Typed, Invariants, Moves, RowsInv, RowsLocal, NoneLive, SessionPairs,
         FamilyPairs, Issued, SigninPcs, RefreshPcs, SignedPcs
<1>10. RowsKeyed(req[w])'
  BY <1>1, <1>2, <1>4
     DEF Invariants, Moves, Holds, RowsKeyed, Keyless, Usable, Issued
<1>11. KeysBacked(req[w])'
  BY <1>1, <1>2, <1>4
     DEF Typed, Invariants, Moves, Holds, KeysBacked, Rowless, LiveKeys, None
<1>12. NoneBlacklisted(req[w])'
  BY <1>1, <1>2, <1>4
     DEF Invariants, Moves, Holds, NoneBlacklisted, Doomed, Usable
<1>13. KeysLocal(req[w])'
  BY <1>2 DEF Moves, Holds, KeysLocal, KeyOf, RevokePcs
<1>14. HistoryInv'
  BY <1>1, <1>2, <1>4
     DEF Typed, Invariants, Moves, Holds, HistoryInv, Recorded, HistoryLocal,
         HistoryOpen, Usable, RefreshPcs, SignedPcs
<1> QED
  BY <1>1, <1>7, <1>8, <1>9, <1>10, <1>11, <1>12, <1>13, <1>14
     DEF SerialInv, SyncInv, Typed

LEMMA RefreshRevokeFailsSerial ==
    ASSUME NEW w, Before(w), RefreshRevoke(w), Finish(w), UNCHANGED row
    PROVE  SerialInv'
<1>1. Typed(w) /\ Invariants(w)
  BY Known
<1>2. /\ req[w].pc = "rf_revoke" /\ Finish(w)
      /\ UNCHANGED <<issued, claims, rowFam>> /\ \A p : KeyOf(p)' = KeyOf(p)
  BY DEF RefreshRevoke, At, tokens, clock, KeyOf
<1>3. /\ UNCHANGED <<row, password, delivered, history, redis,
                     blRefresh, rtExpired>>
      /\ Kills
  BY Killers DEF RefreshRevoke, user, table, cache, clock, Before
<1>4. LiveAreCurrent'
  BY <1>1, <1>2, <1>3
     DEF Typed, Invariants, RowsInv, LiveAreCurrent, SignedPcs, Issued
<1>5. AllKeyed'
  BY <1>1, <1>2, <1>3
     DEF Invariants, AllKeyed, RowsKeyed, Keyless, Usable, Issued
<1>6. AllBacked'
  BY <1>1, <1>2, <1>3
     DEF Invariants, AllBacked, KeysBacked, Rowless, LiveKeys, None
<1>7. AllClean'
  BY <1>1, <1>2, <1>3 DEF Invariants, AllClean, NoneBlacklisted, Doomed, Usable
<1>8. Recorded'
  BY <1>1, <1>2, <1>3 DEF Invariants, HistoryInv, Recorded, HistoryOpen, Usable
<1> QED
  BY <1>2, <1>3, <1>4, <1>5, <1>6, <1>7, <1>8, Ends DEF Settled

LEMMA RefreshCleanSerial ==
    ASSUME NEW w, Before(w), RefreshClean(w)
    PROVE  SerialInv'
<1>1. Typed(w) /\ Invariants(w)
  BY Known
<1>2. Moves(w, "rf_clean", "rf_old") /\ Holds(w)
  BY Going DEF RefreshClean, At, clock, Cleanup
<1>3. /\ UNCHANGED <<password, delivered, history, redis, blRefresh, rtExpired>>
      /\ Kills
      /\ \A p : KeyOf(p)' = KeyOf(p)
      /\ \A p \in Pairs :
           row'[p] = "live" <=> row[p] = "live" /\ p \notin rtExpired
      /\ \A p \in Pairs : row'[p] = "revoked" => row[p] = "revoked"
  BY Killers
     DEF RefreshClean, user, tokens, table, cache, clock, Moves, KeyOf, Before,
         Cleanup, CleanupRows
<1>4. req[w].new \in Issued /\ KeyOf(req[w].new) \in Keys
  BY <1>1, <1>2
     DEF Typed, Moves, LocalInv, Issued, SignedPcs, RefreshPcs, LogoutPcs
<1>5. OneLiveTokenPerSession'
  BY <1>2, <1>3, OneLiveKilled DEF Moves
<1>6. FamiliesInv'
  BY <1>2, FamiliesMove DEF RefreshPcs
<1>7. RowsInv'
  BY <1>1, <1>2, <1>3, <1>4
     DEF Typed, Invariants, Moves, RowsInv, RowsLocal, NoneLive, SessionPairs,
         FamilyPairs, Issued, SigninPcs, RefreshPcs, SignedPcs
<1>8. RowsKeyed(req[w])'
  BY <1>1, <1>2, <1>3
     DEF Typed, Invariants, Moves, Holds, RowsKeyed, Keyless, Usable, Issued
<1>9. KeysBacked(req[w])'
  BY <1>1, <1>2, <1>3
     DEF Typed, Invariants, Moves, Holds, KeysBacked, Rowless, LiveKeys, None
<1>10. NoneBlacklisted(req[w])'
  BY <1>1, <1>2, <1>3
     DEF Typed, Invariants, Moves, Holds, NoneBlacklisted, Doomed, Usable
<1>11. KeysLocal(req[w])'
  BY <1>1, <1>2, <1>3 DEF Invariants, Moves, KeysLocal, KeyOf, RevokePcs
<1>12. HistoryInv'
  BY <1>1, <1>2, <1>3
     DEF Typed, Invariants, Moves, Holds, HistoryInv, Recorded, HistoryLocal,
         HistoryOpen, Usable, RefreshPcs, SignedPcs
<1> QED
  BY <1>1, <1>5, <1>6, <1>7, <1>8, <1>9, <1>10, <1>11, <1>12
     DEF SerialInv, SyncInv, Typed

LEMMA RefreshReadOldSerial ==
    ASSUME NEW w, Before(w), RefreshReadOld(w)
    PROVE  SerialInv'
<1>1. Typed(w) /\ Invariants(w)
  BY Known
<1>2. /\ Moves(w, "rf_old", "rf_black")
      /\ req'[w].old = redis[KeyOf(req[w].new)]
  BY <1>1 DEF RefreshReadOld, Moves, Typed, At, tokens, table
<1>3. /\ UNCHANGED <<row, password, delivered, history, redis,
                     blRefresh, rtExpired>>
      /\ Kills
      /\ \A p : KeyOf(p)' = KeyOf(p)
  BY Killers
     DEF RefreshReadOld, user, tokens, table, cache, clock, Moves, KeyOf, Before
<1>4. req[w].new \in Issued /\ KeyOf(req[w].new) \in Keys
  BY <1>1, <1>2
     DEF Typed, Moves, LocalInv, Issued, SignedPcs, RefreshPcs, LogoutPcs
<1>5. OneLiveTokenPerSession'
  BY <1>2, <1>3, OneLiveKilled DEF Moves
<1>6. FamiliesInv'
  BY <1>2, FamiliesMove DEF RefreshPcs
<1>7. RowsInv'
  BY <1>1, <1>2, <1>3
     DEF Typed, Invariants, Moves, RowsInv, RowsLocal, NoneLive, SessionPairs,
         FamilyPairs, Issued, SigninPcs, RefreshPcs, SignedPcs
<1>8. RowsKeyed(req[w])'
  BY <1>1, <1>2, <1>3
     DEF Invariants, Moves, Holds, RowsKeyed, Keyless, Usable, Issued
<1>9. KeysBacked(req[w])'
  BY <1>1, <1>2, <1>3
     DEF Invariants, Moves, Holds, KeysBacked, Rowless, LiveKeys, None
<1>10. NoneBlacklisted(req[w])'
  BY <1>1, <1>2, <1>3
     DEF Invariants, Moves, Holds, NoneBlacklisted, Doomed, Usable
<1>11. KeysLocal(req[w])'
  BY <1>1, <1>2, <1>3, <1>4
     DEF Invariants, Moves, Holds, KeysLocal, KeyOf, RevokePcs, Typed, None
<1>12. HistoryInv'
  BY <1>1, <1>2, <1>3
     DEF Typed, Invariants, Moves, Holds, HistoryInv, Recorded, HistoryLocal,
         HistoryOpen, Usable, RefreshPcs, SignedPcs
<1> QED
  BY <1>1, <1>5, <1>6, <1>7, <1>8, <1>9, <1>10, <1>11, <1>12
     DEF SerialInv, SyncInv, Typed

LEMMA RefreshBlacklistSerial ==
    ASSUME NEW w, Before(w), RefreshBlacklist(w)
    PROVE  SerialInv'
<1>1. Typed(w) /\ Invariants(w)
  BY Known
<1>2. /\ Moves(w, "rf_black", "rf_store")
      /\ req'[w].old = None
  BY <1>1 DEF RefreshBlacklist, Moves, Typed, At, tokens, table
<1>3. /\ UNCHANGED <<row, password, delivered, history, redis, rtExpired>>
      /\ Kills
      /\ \A p : KeyOf(p)' = KeyOf(p)
      /\ blRefresh' = blRefresh \cup ({req[w].old} \ {None})
  BY Killers
     DEF RefreshBlacklist, user, tokens, table, cache, clock, Moves, KeyOf,
         Before, BlacklistRefresh
<1>4. req[w].new \in Issued /\ KeyOf(req[w].new) \in Keys
  BY <1>1, <1>2
     DEF Typed, Moves, LocalInv, Issued, SignedPcs, RefreshPcs, LogoutPcs
<1>5. req[w].old # None => row[req[w].old] # "live"
  BY <1>1, <1>2, <1>4, SessionKeyOf
     DEF Typed, Invariants, Moves, KeysLocal, RowsLocal, NoneLive, SessionPairs,
         SignedPcs, Issued, None
<1>6. OneLiveTokenPerSession'
  BY <1>2, <1>3, OneLiveKilled DEF Moves
<1>7. FamiliesInv'
  BY <1>2, FamiliesMove DEF RefreshPcs
<1>8. RowsInv'
  BY <1>1, <1>2, <1>3
     DEF Typed, Invariants, Moves, RowsInv, RowsLocal, NoneLive, SessionPairs,
         FamilyPairs, Issued, SigninPcs, RefreshPcs, SignedPcs
<1>9. RowsKeyed(req[w])'
  BY <1>1, <1>2, <1>3
     DEF Invariants, Moves, Holds, RowsKeyed, Keyless, Usable, Issued
<1>10. KeysBacked(req[w])'
  BY <1>1, <1>2, <1>3
     DEF Invariants, Moves, Holds, KeysBacked, Rowless, LiveKeys, None
<1>11. NoneBlacklisted(req[w])'
  BY <1>1, <1>2, <1>3, <1>5
     DEF Invariants, Moves, Holds, NoneBlacklisted, Doomed, Usable
<1>12. KeysLocal(req[w])'
  BY <1>1, <1>2, <1>3 DEF Invariants, Moves, Holds, KeysLocal, KeyOf, RevokePcs
<1>13. HistoryInv'
  BY <1>1, <1>2, <1>3
     DEF Typed, Invariants, Moves, Holds, HistoryInv, Recorded, HistoryLocal,
         HistoryOpen, Usable, RefreshPcs, SignedPcs
<1> QED
  BY <1>1, <1>6, <1>7, <1>8, <1>9, <1>10, <1>11, <1>12, <1>13
     DEF SerialInv, SyncInv, Typed

LEMMA RefreshStoreSerial ==
    ASSUME NEW w, Before(w), RefreshStore(w)
    PROVE  SerialInv'
<1>1. Typed(w) /\ Invariants(w)
  BY Known
<1>2. Moves(w, "rf_store", "rf_find") /\ Holds(w)
  BY Going DEF RefreshStore, At, table, clock
<1>3. /\ UNCHANGED <<row, password, delivered, history, blRefresh, rtExpired>>
      /\ Kills
      /\ \A p : KeyOf(p)' = KeyOf(p)
      /\ redis' = [redis EXCEPT ![KeyOf(req[w].new)] = req[w].new]
  BY Killers
     DEF RefreshStore, user, tokens, table, cache, clock, Moves, KeyOf, Before
<1>4. /\ req[w].new \in Issued /\ KeyOf(req[w].new) \in Keys
      /\ req[w].arg \in Issued
  BY <1>1, <1>2
     DEF Typed, Moves, LocalInv, Issued, SignedPcs, RefreshPcs, LogoutPcs
<1>5. \A p \in Issued : row[p] = "live" =>
        p = req[w].new \/ KeyOf(p) # KeyOf(req[w].new)
  BY <1>1, <1>2, <1>4, SessionKeyOf
     DEF Invariants, Moves, RowsLocal, NoneLive, SessionPairs, SignedPcs
<1>6. req[w].new \notin rtExpired => row[req[w].new] = "live"
  BY <1>1, <1>2 DEF Invariants, Moves, RowsLocal, SignedPcs
<1>7. KeyOf(req[w].arg) = KeyOf(req[w].new)
  BY <1>1, <1>2, <1>4, SessionKeyOf
     DEF Invariants, Moves, RowsLocal, SignedPcs, SigninPcs
<1>8. OneLiveTokenPerSession'
  BY <1>2, <1>3, OneLiveKilled DEF Moves
<1>9. FamiliesInv'
  BY <1>2, FamiliesMove DEF RefreshPcs
<1>10. RowsInv'
  BY <1>1, <1>2, <1>3
     DEF Typed, Invariants, Moves, RowsInv, RowsLocal, NoneLive, SessionPairs,
         FamilyPairs, Issued, SigninPcs, RefreshPcs, SignedPcs
<1>11. RowsKeyed(req[w])'
  BY <1>1, <1>2, <1>3, <1>5
     DEF Typed, Invariants, Moves, Holds, RowsKeyed, Keyless, Usable, Issued
<1>12. KeysBacked(req[w])'
  BY <1>1, <1>2, <1>3, <1>6, <1>7
     DEF Typed, Invariants, Moves, Holds, KeysBacked, Rowless, LiveKeys, None
<1>13. NoneBlacklisted(req[w])'
  BY <1>1, <1>2, <1>3
     DEF Typed, Invariants, Moves, Holds, NoneBlacklisted, Doomed, Usable
<1>14. KeysLocal(req[w])'
  BY <1>2 DEF Invariants, Moves, Holds, KeysLocal, KeyOf, RevokePcs
<1>15. HistoryInv'
  BY <1>1, <1>2, <1>3
     DEF Typed, Invariants, Moves, Holds, HistoryInv, Recorded, HistoryLocal,
         HistoryOpen, Usable, RefreshPcs, SignedPcs
<1> QED
  BY <1>1, <1>8, <1>9, <1>10, <1>11, <1>12, <1>13, <1>14, <1>15
     DEF SerialInv, SyncInv, Typed

LEMMA RefreshFindHistoryGoesSerial ==
    ASSUME NEW w, Before(w), RefreshFindHistory(w),
           history[claims[req[w].new].sess] # "none"
    PROVE  SerialInv'
<1>1. Typed(w) /\ Invariants(w)
  BY Known
<1>2. /\ Moves(w, "rf_find", "rf_save")
      /\ req'[w].seen = history[claims[req[w].new].sess]
      /\ history[claims[req[w].new].sess] # "none"
  BY <1>1 DEF RefreshFindHistory, Moves, Typed, Requests, At, tokens, table
<1>3. /\ UNCHANGED <<row, password, delivered, history, redis,
                     blRefresh, rtExpired>>
      /\ Kills
      /\ \A p : KeyOf(p)' = KeyOf(p)
  BY Killers
     DEF RefreshFindHistory, user, tokens, table, cache, clock, Moves, KeyOf,
         Before
<1>4. OneLiveTokenPerSession'
  BY <1>2, <1>3, OneLiveKilled DEF Moves
<1>5. FamiliesInv'
  BY <1>2, FamiliesMove DEF RefreshPcs
<1>6. RowsInv'
  BY <1>1, <1>2, <1>3
     DEF Typed, Invariants, Moves, RowsInv, RowsLocal, NoneLive, SessionPairs,
         FamilyPairs, Issued, SigninPcs, RefreshPcs, SignedPcs
<1>7. RowsKeyed(req[w])'
  BY <1>1, <1>2, <1>3 DEF Invariants, Moves, RowsKeyed, Keyless, Usable, Issued
<1>8. KeysBacked(req[w])'
  BY <1>1, <1>2, <1>3 DEF Invariants, Moves, KeysBacked, Rowless, LiveKeys, None
<1>9. NoneBlacklisted(req[w])'
  BY <1>1, <1>2, <1>3 DEF Invariants, Moves, NoneBlacklisted, Doomed, Usable
<1>10. KeysLocal(req[w])'
  BY <1>2 DEF Moves, KeysLocal, KeyOf, RevokePcs
<1>11. HistoryInv'
  BY <1>1, <1>2, <1>3
     DEF Typed, Invariants, Moves, Holds, HistoryInv, Recorded, HistoryLocal,
         HistoryOpen, Usable, RefreshPcs, SignedPcs, RowsLocal, SigninPcs
<1> QED
  BY <1>1, <1>4, <1>5, <1>6, <1>7, <1>8, <1>9, <1>10, <1>11
     DEF SerialInv, SyncInv, Typed

LEMMA RefreshFindHistoryFailsSerial ==
    ASSUME NEW w, Before(w), RefreshFindHistory(w),
           history[claims[req[w].new].sess] = "none"
    PROVE  SerialInv'
<1>1. Typed(w) /\ Invariants(w)
  BY Known
<1>2. /\ req[w].pc = "rf_find" /\ Finish(w)
      /\ UNCHANGED <<issued, claims, rowFam>> /\ \A p : KeyOf(p)' = KeyOf(p)
  BY DEF RefreshFindHistory, At, tokens, table, clock, KeyOf
<1>3. /\ UNCHANGED <<row, password, delivered, history, redis,
                     blRefresh, rtExpired>>
      /\ Kills
  BY Killers DEF RefreshFindHistory, user, table, cache, clock, Before
<1>4. /\ req[w].arg \in delivered
      /\ claims[req[w].new].sess = claims[req[w].arg].sess
  BY <1>1, <1>2 DEF Invariants, RowsLocal, RefreshPcs, SignedPcs, SigninPcs
<1>5. FALSE
  BY <1>1, <1>4 DEF Invariants, HistoryInv, Recorded
<1>6. LiveAreCurrent'
  BY <1>5 DEF RowsInv, LiveAreCurrent, SignedPcs, Issued
<1>7. AllKeyed'
  BY <1>5 DEF AllKeyed, RowsKeyed, Keyless, Usable, Issued
<1>8. AllBacked'
  BY <1>5 DEF AllBacked, KeysBacked, Rowless, LiveKeys, None
<1>9. AllClean'
  BY <1>5 DEF AllClean, NoneBlacklisted, Doomed, Usable
<1>10. Recorded'
  BY <1>5 DEF HistoryInv, Recorded, HistoryOpen, Usable
<1> QED
  BY <1>2, <1>3, <1>6, <1>7, <1>8, <1>9, <1>10, Ends DEF Settled

LEMMA RefreshSaveHistorySerial ==
    ASSUME NEW w, Before(w), RefreshSaveHistory(w)
    PROVE  SerialInv'
<1>1. Typed(w) /\ Invariants(w)
  BY Known
<1>2. /\ req[w].pc = "rf_save" /\ Finish(w)
      /\ UNCHANGED <<issued, claims, rowFam>> /\ \A p : KeyOf(p)' = KeyOf(p)
  BY DEF RefreshSaveHistory, At, tokens, table, clock, KeyOf
<1>3. /\ UNCHANGED <<row, password, redis, blRefresh, rtExpired>> /\ Kills
      /\ history' = [history EXCEPT ![claims[req[w].new].sess] = req[w].seen]
      /\ delivered' = delivered \cup {req[w].new}
  BY Killers DEF RefreshSaveHistory, user, table, cache, clock, Before
<1>4. req[w].new \in Issued /\ claims[req[w].new].sess = claims[req[w].arg].sess
  BY <1>1, <1>2
     DEF Typed, LocalInv, Issued, SignedPcs, RefreshPcs, LogoutPcs, Invariants,
         RowsLocal, SigninPcs
<1>5. req[w].seen # "none" /\ (req[w].seen = "open"
        \/ \E o \in rtExpired : claims[o].sess = claims[req[w].new].sess)
  BY <1>1, <1>2, <1>4 DEF Invariants, HistoryLocal
<1>6. \A p \in Issued :
        Usable(p) /\ claims[p].sess = claims[req[w].new].sess => p = req[w].new
  BY <1>1, <1>2
     DEF Invariants, RowsLocal, SignedPcs, SessionPairs, NoneLive, Usable
<1>7. LiveAreCurrent'
  BY <1>1, <1>2, <1>3
     DEF Typed, Invariants, RowsInv, LiveAreCurrent, SignedPcs, Issued
<1>8. AllKeyed'
  BY <1>1, <1>2, <1>3
     DEF Invariants, AllKeyed, RowsKeyed, Keyless, Usable, Issued
<1>9. AllBacked'
  BY <1>1, <1>2, <1>3
     DEF Invariants, AllBacked, KeysBacked, Rowless, LiveKeys, None
<1>10. AllClean'
  BY <1>1, <1>2, <1>3 DEF Invariants, AllClean, NoneBlacklisted, Doomed, Usable
<1>11. Recorded'
  BY <1>1, <1>2, <1>3, <1>4, <1>5
     DEF Typed, Invariants, HistoryInv, Recorded, HistoryOpen, Usable
<1> QED
  BY <1>2, <1>3, <1>7, <1>8, <1>9, <1>10, <1>11, Ends DEF Settled

LEMMA TheftRevokeSerial ==
    ASSUME NEW w, Before(w), TheftRevoke(w)
    PROVE  SerialInv'
<1>1. Typed(w) /\ Invariants(w)
  BY Known
<1>2. Moves(w, "th_revoke", "th_scan") /\ Holds(w)
  BY Going DEF TheftRevoke, At, clock
<1>3. /\ UNCHANGED <<password, delivered, history, redis, blRefresh, rtExpired>>
      /\ Kills
      /\ \A p : KeyOf(p)' = KeyOf(p)
      /\ \A p \in Pairs : row'[p] = "live"
           <=> row[p] = "live" /\ rowFam[p] # claims[req[w].arg].fam
  BY Killers
     DEF TheftRevoke, user, tokens, table, cache, clock, Moves, KeyOf, Before,
         RevokeRows
<1>4. OneLiveTokenPerSession'
  BY <1>2, <1>3, OneLiveKilled DEF Moves
<1>5. FamiliesInv'
  BY <1>2, FamiliesMove DEF RefreshPcs
<1>6. RowsInv'
  BY <1>1, <1>2, <1>3
     DEF Typed, Invariants, Moves, RowsInv, RowsLocal, NoneLive, SessionPairs,
         FamilyPairs, Issued, SigninPcs, RefreshPcs, SignedPcs
<1>7. RowsKeyed(req[w])'
  BY <1>1, <1>2, <1>3
     DEF Typed, Invariants, Moves, RowsKeyed, Keyless, Usable, Issued
<1>8. KeysBacked(req[w])'
  BY <1>1, <1>2, <1>3, SessionKeyOf
     DEF Typed, Invariants, Moves, Holds, KeysBacked, Rowless, LiveKeys, None
<1>9. NoneBlacklisted(req[w])'
  BY <1>1, <1>2, <1>3
     DEF Typed, Invariants, Moves, NoneBlacklisted, Doomed, Usable
<1>10. KeysLocal(req[w])'
  BY <1>2 DEF Moves, KeysLocal, KeyOf, RevokePcs
<1>11. HistoryInv'
  BY <1>1, <1>2, <1>3
     DEF Typed, Invariants, Moves, HistoryInv, Recorded, HistoryLocal,
         HistoryOpen, Usable, RefreshPcs, SignedPcs
<1> QED
  BY <1>1, <1>4, <1>5, <1>6, <1>7, <1>8, <1>9, <1>10, <1>11
     DEF SerialInv, SyncInv, Typed

LEMMA TheftScanSerial ==
    ASSUME NEW w, Before(w), TheftScan(w)
    PROVE  SerialInv'
<1>1. Typed(w) /\ Invariants(w)
  BY Known
<1>2. /\ Moves(w, "th_scan", "th_drop")
      /\ req'[w].todo = FamilyKeys(claims[req[w].arg].fam)
  BY <1>1 DEF TheftScan, Moves, Typed, At, tokens, table, Scans
<1>3. /\ UNCHANGED <<row, password, delivered, history, redis,
                     blRefresh, rtExpired>>
      /\ Kills
      /\ \A p : KeyOf(p)' = KeyOf(p)
  BY Killers
     DEF TheftScan, user, tokens, table, cache, clock, Moves, KeyOf, Before
<1>4. OneLiveTokenPerSession'
  BY <1>2, <1>3, OneLiveKilled DEF Moves
<1>5. FamiliesInv'
  BY <1>2, FamiliesMove DEF RefreshPcs
<1>6. RowsInv'
  BY <1>1, <1>2, <1>3
     DEF Typed, Invariants, Moves, RowsInv, RowsLocal, NoneLive, SessionPairs,
         FamilyPairs, Issued, SigninPcs, RefreshPcs, SignedPcs
<1>7. RowsKeyed(req[w])'
  BY <1>1, <1>2, <1>3 DEF Invariants, Moves, RowsKeyed, Keyless, Usable, Issued
<1>8. KeysBacked(req[w])'
  BY <1>1, <1>2, <1>3 DEF Invariants, Moves, KeysBacked, Rowless, LiveKeys, None
<1>9. NoneBlacklisted(req[w])'
  BY <1>1, <1>2, <1>3 DEF Invariants, Moves, NoneBlacklisted, Doomed, Usable
<1>10. KeysLocal(req[w])'
  BY <1>2, <1>3 DEF Moves, KeysLocal, KeyOf, RevokePcs, FamilyKeys, LiveKeys
<1>11. HistoryInv'
  BY <1>1, <1>2, <1>3
     DEF Typed, Invariants, Moves, Holds, HistoryInv, Recorded, HistoryLocal,
         HistoryOpen, Usable, RefreshPcs, SignedPcs
<1> QED
  BY <1>1, <1>4, <1>5, <1>6, <1>7, <1>8, <1>9, <1>10, <1>11
     DEF SerialInv, SyncInv, Typed

LEMMA TheftDropSerial ==
    ASSUME NEW w, Before(w), TheftDrop(w)
    PROVE  SerialInv'
<1>1. Typed(w) /\ Invariants(w)
  BY Known
<1>2. /\ req[w].pc = "th_drop" /\ Finish(w)
      /\ UNCHANGED <<issued, claims, rowFam>> /\ \A p : KeyOf(p)' = KeyOf(p)
  BY DEF TheftDrop, At, tokens, table, clock, KeyOf
<1>3. /\ UNCHANGED <<row, password, delivered, history, blRefresh, rtExpired>>
      /\ Kills
      /\ redis' = [k \in Keys |-> IF k \in req[w].todo THEN None ELSE redis[k]]
  BY Killers DEF TheftDrop, user, table, cache, clock, Before, DeleteKeys
<1>4. /\ FamilyKeys(claims[req[w].arg].fam) \subseteq req[w].todo
      /\ \A k \in req[w].todo : k[1] = claims[req[w].arg].fam
  BY <1>1, <1>2 DEF Invariants, KeysLocal
<1>5. LiveAreCurrent'
  BY <1>1, <1>2, <1>3
     DEF Typed, Invariants, RowsInv, LiveAreCurrent, SignedPcs, Issued
<1>6. AllKeyed'
  BY <1>1, <1>2, <1>3, <1>4, SessionKeyOf
     DEF Typed, Invariants, AllKeyed, RowsKeyed, Keyless, Usable, Issued,
         RowsLocal, NoneLive, FamilyPairs
<1>7. AllBacked'
  BY <1>1, <1>2, <1>3, <1>4
     DEF Invariants, AllBacked, KeysBacked, Rowless, LiveKeys, None, FamilyKeys
<1>8. AllClean'
  BY <1>1, <1>2, <1>3 DEF Invariants, AllClean, NoneBlacklisted, Doomed, Usable
<1>9. Recorded'
  BY <1>1, <1>2, <1>3 DEF Invariants, HistoryInv, Recorded, HistoryOpen, Usable
<1> QED
  BY <1>2, <1>3, <1>5, <1>6, <1>7, <1>8, <1>9, Ends DEF Settled

-----------------------------------------------------------------------------
(* Logout.                                                                 *)

LEMMA LogoutReadSerial ==
    ASSUME NEW w, Before(w), LogoutRead(w)
    PROVE  SerialInv'
<1>1. Typed(w) /\ Invariants(w)
  BY Known
<1>2. /\ Moves(w, "lo_read", "lo_drop")
      /\ req'[w].old = redis[KeyOf(req[w].arg)]
  BY <1>1 DEF LogoutRead, Moves, Typed, At, tokens, table
<1>3. /\ UNCHANGED <<row, password, delivered, history, redis,
                     blRefresh, rtExpired>>
      /\ Kills
      /\ \A p : KeyOf(p)' = KeyOf(p)
  BY Killers
     DEF LogoutRead, user, tokens, table, cache, clock, Moves, KeyOf, Before
<1>4. req[w].arg \in Issued /\ KeyOf(req[w].arg) \in Keys
  BY <1>1, <1>2
     DEF Typed, Moves, LocalInv, Issued, SignedPcs, RefreshPcs, LogoutPcs
<1>5. OneLiveTokenPerSession'
  BY <1>2, <1>3, OneLiveKilled DEF Moves
<1>6. FamiliesInv'
  BY <1>2, FamiliesMove DEF RefreshPcs
<1>7. RowsInv'
  BY <1>1, <1>2, <1>3
     DEF Typed, Invariants, Moves, RowsInv, RowsLocal, NoneLive, SessionPairs,
         FamilyPairs, Issued, SigninPcs, RefreshPcs, SignedPcs
<1>8. RowsKeyed(req[w])'
  BY <1>1, <1>2, <1>3
     DEF Invariants, Moves, Holds, RowsKeyed, Keyless, Usable, Issued
<1>9. KeysBacked(req[w])'
  BY <1>1, <1>2, <1>3
     DEF Invariants, Moves, Holds, KeysBacked, Rowless, LiveKeys, None
<1>10. NoneBlacklisted(req[w])'
  BY <1>1, <1>2, <1>3
     DEF Invariants, Moves, Holds, NoneBlacklisted, Doomed, Usable
<1>11. KeysLocal(req[w])'
  BY <1>1, <1>2, <1>3, <1>4 DEF Moves, KeysLocal, KeyOf, RevokePcs, Typed, None
<1>12. HistoryInv'
  BY <1>1, <1>2, <1>3
     DEF Typed, Invariants, Moves, Holds, HistoryInv, Recorded, HistoryLocal,
         HistoryOpen, Usable, RefreshPcs, SignedPcs
<1> QED
  BY <1>1, <1>5, <1>6, <1>7, <1>8, <1>9, <1>10, <1>11, <1>12
     DEF SerialInv, SyncInv, Typed

LEMMA LogoutDropSerial ==
    ASSUME NEW w, Before(w), LogoutDrop(w)
    PROVE  SerialInv'
<1>1. Typed(w) /\ Invariants(w)
  BY Known
<1>2. Moves(w, "lo_drop", "lo_verify") /\ Holds(w)
  BY Going DEF LogoutDrop, At, table, clock
<1>3. /\ UNCHANGED <<row, password, delivered, history, rtExpired>> /\ Kills
      /\ \A p : KeyOf(p)' = KeyOf(p)
      /\ blRefresh' = blRefresh \cup ({req[w].old} \ {None})
      /\ \/ redis' = [k \in Keys |->
                      IF k = KeyOf(req[w].arg) THEN None ELSE redis[k]]
         \/ req[w].old = None /\ redis' = redis
  BY Killers
     DEF LogoutDrop, user, tokens, table, cache, clock, Moves, KeyOf, Before,
         BlacklistRefresh, DeleteKeys
<1>4. req[w].arg \in Issued /\ KeyOf(req[w].arg) \in Keys
  BY <1>1, <1>2
     DEF Typed, Moves, LocalInv, Issued, SignedPcs, RefreshPcs, LogoutPcs
<1>5. redis' = [k \in Keys |->
                      IF k = KeyOf(req[w].arg) THEN None ELSE redis[k]]
  BY <1>1, <1>2, <1>3 DEF Typed, Invariants, Moves, KeysLocal, None
<1>6. redis[KeyOf(req[w].arg)] \in {req[w].old, None}
  BY <1>1, <1>2 DEF Invariants, Moves, KeysLocal
<1>7. OneLiveTokenPerSession'
  BY <1>2, <1>3, OneLiveKilled DEF Moves
<1>8. FamiliesInv'
  BY <1>2, FamiliesMove DEF RefreshPcs
<1>9. RowsInv'
  BY <1>1, <1>2, <1>3
     DEF Typed, Invariants, Moves, RowsInv, RowsLocal, NoneLive, SessionPairs,
         FamilyPairs, Issued, SigninPcs, RefreshPcs, SignedPcs
<1>10. RowsKeyed(req[w])'
  BY <1>1, <1>2, <1>3, <1>6
     DEF Typed, Invariants, Moves, Holds, RowsKeyed, Keyless, Usable, Issued
<1>11. KeysBacked(req[w])'
  BY <1>1, <1>2, <1>3
     DEF Invariants, Moves, Holds, KeysBacked, Rowless, LiveKeys, None
<1>12. NoneBlacklisted(req[w])'
  BY <1>1, <1>2, <1>3
     DEF Invariants, Moves, Holds, NoneBlacklisted, Doomed, Usable
<1>13. KeysLocal(req[w])'
  BY <1>1, <1>2, <1>4, <1>5
     DEF Invariants, Moves, Holds, KeysLocal, KeyOf, RevokePcs
<1>14. HistoryInv'
  BY <1>1, <1>2, <1>3
     DEF Typed, Invariants, Moves, Holds, HistoryInv, Recorded, HistoryLocal,
         HistoryOpen, Usable, RefreshPcs, SignedPcs
<1> QED
  BY <1>1, <1>7, <1>8, <1>9, <1>10, <1>11, <1>12, <1>13, <1>14
     DEF SerialInv, SyncInv, Typed

LEMMA LogoutVerifyGoesSerial ==
    ASSUME NEW w, Before(w), LogoutVerify(w), req'[w].pc # "lo_close"
    PROVE  SerialInv'
<1>1. Typed(w) /\ Invariants(w)
  BY Known
<1>2. /\ Moves(w, "lo_verify", "lo_revoke")
      /\ req'[w].old \in {req[w].old, req[w].arg}
      /\ req'[w].old = req[w].old \/ req[w].old = None
      /\ req'[w].old # None
  BY <1>1 DEF LogoutVerify, Moves, Typed, At, tokens, table
<1>3. /\ UNCHANGED <<row, password, delivered, history, redis,
                     blRefresh, rtExpired>>
      /\ Kills
      /\ \A p : KeyOf(p)' = KeyOf(p)
  BY Killers
     DEF LogoutVerify, user, tokens, table, cache, clock, Moves, KeyOf, Before
<1>4. req[w].arg \in Issued /\ KeyOf(req[w].arg) \in Keys
  BY <1>1, <1>2
     DEF Typed, Moves, LocalInv, Issued, SignedPcs, RefreshPcs, LogoutPcs
<1>5. OneLiveTokenPerSession'
  BY <1>2, <1>3, OneLiveKilled DEF Moves
<1>6. FamiliesInv'
  BY <1>2, FamiliesMove DEF RefreshPcs
<1>7. RowsInv'
  BY <1>1, <1>2, <1>3
     DEF Typed, Invariants, Moves, RowsInv, RowsLocal, NoneLive, SessionPairs,
         FamilyPairs, Issued, SigninPcs, RefreshPcs, SignedPcs
<1>8. RowsKeyed(req[w])'
  BY <1>1, <1>2, <1>3
     DEF Invariants, Moves, Holds, RowsKeyed, Keyless, Usable, Issued, None
<1>9. KeysBacked(req[w])'
  BY <1>1, <1>2, <1>3
     DEF Invariants, Moves, Holds, KeysBacked, Rowless, LiveKeys, None
<1>10. NoneBlacklisted(req[w])'
  BY <1>1, <1>2, <1>3
     DEF Typed, Invariants, Moves, Holds, NoneBlacklisted, Doomed, Usable, None,
         Issued
<1>11. KeysLocal(req[w])'
  BY <1>1, <1>2, <1>3 DEF Invariants, Moves, KeysLocal, KeyOf, RevokePcs, None
<1>12. HistoryInv'
  BY <1>1, <1>2, <1>3
     DEF Typed, Invariants, Moves, Holds, HistoryInv, Recorded, HistoryLocal,
         HistoryOpen, Usable, RefreshPcs, SignedPcs
<1> QED
  BY <1>1, <1>5, <1>6, <1>7, <1>8, <1>9, <1>10, <1>11, <1>12
     DEF SerialInv, SyncInv, Typed

LEMMA LogoutVerifySkipsSerial ==
    ASSUME NEW w, Before(w), LogoutVerify(w), req'[w].pc = "lo_close"
    PROVE  SerialInv'
<1>1. Typed(w) /\ Invariants(w)
  BY Known
<1>2. /\ Moves(w, "lo_verify", "lo_close")
      /\ req'[w].old = None
      /\ req[w].old = None \/ row[req[w].old] # "live"
  BY <1>1 DEF LogoutVerify, Moves, Typed, At, tokens, table
<1>3. /\ UNCHANGED <<row, password, delivered, history, redis,
                     blRefresh, rtExpired>>
      /\ Kills
      /\ \A p : KeyOf(p)' = KeyOf(p)
  BY Killers
     DEF LogoutVerify, user, tokens, table, cache, clock, Moves, KeyOf, Before
<1>4. req[w].arg \in Issued /\ KeyOf(req[w].arg) \in Keys
  BY <1>1, <1>2
     DEF Typed, Moves, LocalInv, Issued, SignedPcs, RefreshPcs, LogoutPcs
<1>5. OneLiveTokenPerSession'
  BY <1>2, <1>3, OneLiveKilled DEF Moves
<1>6. FamiliesInv'
  BY <1>2, FamiliesMove DEF RefreshPcs
<1>7. RowsInv'
  BY <1>1, <1>2, <1>3
     DEF Typed, Invariants, Moves, RowsInv, RowsLocal, NoneLive, SessionPairs,
         FamilyPairs, Issued, SigninPcs, RefreshPcs, SignedPcs
<1>8. RowsKeyed(req[w])'
  BY <1>1, <1>2, <1>3
     DEF Invariants, Moves, Holds, RowsKeyed, Keyless, Usable, Issued, None
<1>9. KeysBacked(req[w])'
  BY <1>1, <1>2, <1>3
     DEF Invariants, Moves, Holds, KeysBacked, Rowless, LiveKeys, None
<1>10. NoneBlacklisted(req[w])'
  <2>1. \A p \in blRefresh : ~Usable(p)
    BY <1>1, <1>2
       DEF Typed, Invariants, Moves, NoneBlacklisted, Doomed, Usable, None, Issued
  <2> QED
    BY <1>3, <2>1 DEF NoneBlacklisted, Usable
<1>11. KeysLocal(req[w])'
  BY <1>1, <1>2, <1>3 DEF Invariants, Moves, KeysLocal, KeyOf, RevokePcs, None
<1>12. HistoryInv'
  BY <1>1, <1>2, <1>3
     DEF Typed, Invariants, Moves, Holds, HistoryInv, Recorded, HistoryLocal,
         HistoryOpen, Usable, RefreshPcs, SignedPcs
<1> QED
  BY <1>1, <1>5, <1>6, <1>7, <1>8, <1>9, <1>10, <1>11, <1>12
     DEF SerialInv, SyncInv, Typed

LEMMA LogoutRevokeGoesSerial ==
    ASSUME NEW w, Before(w), LogoutRevoke(w), row[req[w].old] # "none"
    PROVE  SerialInv'
<1>1. Typed(w) /\ Invariants(w)
  BY Known
<1>2. /\ Moves(w, "lo_revoke", "lo_close")
      /\ req'[w].old = None
  BY <1>1 DEF LogoutRevoke, Moves, Typed, Requests, At, tokens, table
<1>3. req[w].old \in Issued /\ req[w].old \in Pairs
  BY <1>1, <1>2 DEF Typed, Invariants, KeysLocal, Moves, Issued, None
<1>4. /\ UNCHANGED <<password, delivered, history, redis, blRefresh, rtExpired>>
      /\ Kills
      /\ \A p : KeyOf(p)' = KeyOf(p)
      /\ row' = [row EXCEPT ![req[w].old] = "revoked"]
  BY <1>3, Killers
     DEF LogoutRevoke, user, tokens, table, cache, clock, Moves, KeyOf, Before,
         UpdateRow
<1>5. req[w].arg \in Issued /\ KeyOf(req[w].arg) \in Keys
  BY <1>1, <1>2
     DEF Typed, Moves, LocalInv, Issued, SignedPcs, RefreshPcs, LogoutPcs
<1>6. \A k \in LiveKeys : redis[k] # req[w].old
  BY <1>1, <1>2 DEF Typed, Invariants, Moves, KeysLocal, LiveKeys, None
<1>7. OneLiveTokenPerSession'
  BY <1>2, <1>4, OneLiveKilled DEF Moves
<1>8. FamiliesInv'
  BY <1>2, FamiliesMove DEF RefreshPcs
<1>9. RowsInv'
  BY <1>1, <1>2, <1>4
     DEF Typed, Invariants, Moves, RowsInv, RowsLocal, NoneLive, SessionPairs,
         FamilyPairs, Issued, SigninPcs, RefreshPcs, SignedPcs
<1>10. RowsKeyed(req[w])'
  BY <1>1, <1>2, <1>4
     DEF Typed, Invariants, Moves, Holds, RowsKeyed, Keyless, Usable, Issued
<1>11. KeysBacked(req[w])'
  BY <1>1, <1>2, <1>4, <1>6
     DEF Invariants, Moves, Holds, KeysBacked, Rowless, LiveKeys, None
<1>12. NoneBlacklisted(req[w])'
  BY <1>1, <1>2, <1>4
     DEF Typed, Invariants, Moves, Holds, NoneBlacklisted, Doomed, Usable
<1>13. KeysLocal(req[w])'
  BY <1>1, <1>2, <1>4 DEF Invariants, Moves, Holds, KeysLocal, KeyOf, RevokePcs
<1>14. HistoryInv'
  BY <1>1, <1>2, <1>4
     DEF Typed, Invariants, Moves, Holds, HistoryInv, Recorded, HistoryLocal,
         HistoryOpen, Usable, RefreshPcs, SignedPcs
<1> QED
  BY <1>1, <1>7, <1>8, <1>9, <1>10, <1>11, <1>12, <1>13, <1>14
     DEF SerialInv, SyncInv, Typed

LEMMA LogoutRevokeFailsSerial ==
    ASSUME NEW w, Before(w), LogoutRevoke(w), Finish(w), UNCHANGED row,
           row[req[w].old] = "none"
    PROVE  SerialInv'
<1>1. Typed(w) /\ Invariants(w)
  BY Known
<1>2. /\ req[w].pc = "lo_revoke" /\ Finish(w)
      /\ UNCHANGED <<issued, claims, rowFam>> /\ \A p : KeyOf(p)' = KeyOf(p)
  BY DEF LogoutRevoke, At, tokens, clock, KeyOf
<1>3. /\ UNCHANGED <<row, password, delivered, history, redis,
                     blRefresh, rtExpired>>
      /\ Kills
  BY Killers DEF LogoutRevoke, user, table, cache, clock, Before
<1>4. LiveAreCurrent'
  BY <1>1, <1>2, <1>3
     DEF Typed, Invariants, RowsInv, LiveAreCurrent, SignedPcs, Issued
<1>5. AllKeyed'
  BY <1>1, <1>2, <1>3
     DEF Invariants, AllKeyed, RowsKeyed, Keyless, Usable, Issued
<1>6. AllBacked'
  BY <1>1, <1>2, <1>3
     DEF Invariants, AllBacked, KeysBacked, Rowless, LiveKeys, None
<1>7. AllClean'
  BY <1>1, <1>2, <1>3 DEF Invariants, AllClean, NoneBlacklisted, Doomed, Usable
<1>8. Recorded'
  BY <1>1, <1>2, <1>3 DEF Invariants, HistoryInv, Recorded, HistoryOpen, Usable
<1> QED
  BY <1>2, <1>3, <1>4, <1>5, <1>6, <1>7, <1>8, Ends DEF Settled

LEMMA LogoutCloseSerial ==
    ASSUME NEW w, Before(w), LogoutClose(w)
    PROVE  SerialInv'
<1>1. Typed(w) /\ Invariants(w)
  BY Known
<1>2. Moves(w, "lo_close", "lo_clean") /\ Holds(w)
  BY Going DEF LogoutClose, At, table, clock
<1>3. /\ UNCHANGED <<row, password, delivered, redis, blRefresh, rtExpired>>
      /\ Kills
      /\ \A p : KeyOf(p)' = KeyOf(p)
      /\ history' = [s \in Pairs |->
           IF s = claims[req[w].arg].sess /\ history[s] = "open"
           THEN "closed" ELSE history[s]]
  BY Killers
     DEF LogoutClose, user, tokens, table, cache, clock, Moves, KeyOf, Before,
         CloseHistory
<1>4. req[w].arg \in Issued /\ KeyOf(req[w].arg) \in Keys
  BY <1>1, <1>2
     DEF Typed, Moves, LocalInv, Issued, SignedPcs, RefreshPcs, LogoutPcs
<1>5. \A p \in Issued : Usable(p) => claims[p].sess # claims[req[w].arg].sess
  BY <1>1, <1>2, <1>4, SessionKeyOf
     DEF Invariants, Moves, RowsKeyed, Keyless, KeysLocal, None, Issued
<1>6. OneLiveTokenPerSession'
  BY <1>2, <1>3, OneLiveKilled DEF Moves
<1>7. FamiliesInv'
  BY <1>2, FamiliesMove DEF RefreshPcs
<1>8. RowsInv'
  BY <1>1, <1>2, <1>3
     DEF Typed, Invariants, Moves, RowsInv, RowsLocal, NoneLive, SessionPairs,
         FamilyPairs, Issued, SigninPcs, RefreshPcs, SignedPcs
<1>9. RowsKeyed(req[w])'
  BY <1>1, <1>2, <1>3
     DEF Invariants, Moves, Holds, RowsKeyed, Keyless, Usable, Issued
<1>10. KeysBacked(req[w])'
  BY <1>1, <1>2, <1>3
     DEF Invariants, Moves, Holds, KeysBacked, Rowless, LiveKeys, None
<1>11. NoneBlacklisted(req[w])'
  BY <1>1, <1>2, <1>3
     DEF Invariants, Moves, Holds, NoneBlacklisted, Doomed, Usable
<1>12. KeysLocal(req[w])'
  BY <1>1, <1>2, <1>3 DEF Invariants, Moves, Holds, KeysLocal, KeyOf, RevokePcs
<1>13. HistoryInv'
  BY <1>1, <1>2, <1>3, <1>4, <1>5
     DEF Typed, Invariants, Moves, Holds, HistoryInv, Recorded, HistoryLocal,
         HistoryOpen, Usable, RefreshPcs, SignedPcs
<1> QED
  BY <1>1, <1>6, <1>7, <1>8, <1>9, <1>10, <1>11, <1>12, <1>13
     DEF SerialInv, SyncInv, Typed

LEMMA LogoutCleanSerial ==
    ASSUME NEW w, Before(w), LogoutClean(w)
    PROVE  SerialInv'
<1>1. Typed(w) /\ Invariants(w)
  BY Known
<1>2. /\ req[w].pc = "lo_clean" /\ Finish(w)
      /\ UNCHANGED <<issued, claims, rowFam>> /\ \A p : KeyOf(p)' = KeyOf(p)
  BY DEF LogoutClean, At, tokens, clock, KeyOf, Cleanup
<1>3. /\ UNCHANGED <<password, delivered, history, redis, blRefresh, rtExpired>>
      /\ Kills
      /\ \A p \in Pairs :
           row'[p] = "live" <=> row[p] = "live" /\ p \notin rtExpired
      /\ \A p \in Pairs : row'[p] = "revoked" => row[p] = "revoked"
  BY Killers
     DEF LogoutClean, user, table, cache, clock, Before, Cleanup, CleanupRows
<1>4. LiveAreCurrent'
  BY <1>1, <1>2, <1>3
     DEF Typed, Invariants, RowsInv, LiveAreCurrent, SignedPcs, Issued
<1>5. AllKeyed'
  BY <1>1, <1>2, <1>3
     DEF Typed, Invariants, AllKeyed, RowsKeyed, Keyless, Usable, Issued
<1>6. AllBacked'
  BY <1>1, <1>2, <1>3
     DEF Typed, Invariants, AllBacked, KeysBacked, Rowless, LiveKeys, None
<1>7. AllClean'
  BY <1>1, <1>2, <1>3
     DEF Typed, Invariants, AllClean, NoneBlacklisted, Doomed, Usable
<1>8. Recorded'
  BY <1>1, <1>2, <1>3
     DEF Typed, Invariants, HistoryInv, Recorded, HistoryOpen, Usable
<1> QED
  BY <1>2, <1>3, <1>4, <1>5, <1>6, <1>7, <1>8, Ends DEF Settled

LEMMA LogoutAllReadSerial ==
    ASSUME NEW w, Before(w), LogoutAllRead(w)
    PROVE  SerialInv'
<1>1. Typed(w) /\ Invariants(w)
  BY Known
<1>2. PICK k \in req[w].todo :
          req' = [req EXCEPT ![w].todo = @ \ {k},
                             ![w].held = IF redis[k] = None THEN {}
                                         ELSE {<<k, redis[k]>>}]
  BY DEF LogoutAllRead
<1>3. /\ Moves(w, "la_keys", "la_keys")
      /\ req'[w].todo = req[w].todo \ {k} /\ req[w].held = {}
      /\ req'[w].held = IF redis[k] = None THEN {} ELSE {<<k, redis[k]>>}
  BY <1>1, <1>2 DEF LogoutAllRead, Moves, Typed, Requests, At, tokens, table
<1>4. /\ UNCHANGED <<row, password, delivered, history, redis,
                     blRefresh, rtExpired>>
      /\ Kills
      /\ \A p : KeyOf(p)' = KeyOf(p)
  BY <1>1, <1>3, Killers
     DEF LogoutAllRead, At, user, tokens, table, cache, clock, Moves, KeyOf,
         Before
<1>5. LiveKeys \subseteq req'[w].todo \cup {h[1] : h \in req'[w].held}
  <2> SUFFICES ASSUME NEW x \in LiveKeys, x \notin req'[w].todo
               PROVE  x \in {h[1] : h \in req'[w].held}
    OBVIOUS
  <2>1. CASE x = k
    <3>1. <<k, redis[k]>> \in req'[w].held /\ <<k, redis[k]>>[1] = k
      BY <1>3, <2>1 DEF LiveKeys
    <3> QED
      BY <2>1, <3>1
  <2>2. CASE x # k
    BY <1>1, <1>3, <2>2 DEF Invariants, Moves, KeysLocal
  <2> QED
    BY <2>1, <2>2
<1>6. OneLiveTokenPerSession'
  BY <1>3, <1>4, OneLiveKilled DEF Moves
<1>7. FamiliesInv'
  BY <1>3, FamiliesMove
<1>8. RowsInv'
  BY <1>1, <1>3, <1>4
     DEF Typed, Invariants, Moves, RowsInv, RowsLocal, NoneLive, SessionPairs,
         FamilyPairs, Issued, SigninPcs, RefreshPcs, SignedPcs
<1>9. RowsKeyed(req[w])'
  BY <1>3 DEF Moves, Holds, RowsKeyed, Keyless, Usable, Issued
<1>10. KeysBacked(req[w])'
  BY <1>1, <1>3, <1>4
     DEF Invariants, Moves, Holds, KeysBacked, Rowless, LiveKeys, None
<1>11. NoneBlacklisted(req[w])'
  BY <1>3 DEF Moves, Holds, NoneBlacklisted, Doomed, Usable
<1>12. KeysLocal(req[w])'
  BY <1>3, <1>4, <1>5 DEF Moves, KeysLocal, KeyOf, RevokePcs, LiveKeys
<1>13. HistoryInv'
  BY <1>1, <1>3, <1>4
     DEF Typed, Invariants, Moves, Holds, HistoryInv, Recorded, HistoryLocal,
         HistoryOpen, Usable, RefreshPcs, SignedPcs
<1> QED
  BY <1>1, <1>6, <1>7, <1>8, <1>9, <1>10, <1>11, <1>12, <1>13
     DEF SerialInv, SyncInv, Typed

LEMMA LogoutAllDropSerial ==
    ASSUME NEW w, Before(w), LogoutAllDrop(w)
    PROVE  SerialInv'
<1>1. Typed(w) /\ Invariants(w)
  BY Known
<1>2. PICK h \in req[w].held :
          /\ Moves(w, "la_keys", "la_keys")
          /\ req'[w].todo = req[w].todo /\ req'[w].held = req[w].held \ {h}
          /\ redis' = [k \in Keys |-> IF k = h[1] THEN None ELSE redis[k]]
  BY <1>1 DEF LogoutAllDrop, DeleteKeys, Moves, Typed, At, tokens, table
<1>3. /\ UNCHANGED <<row, password, delivered, history, rtExpired>> /\ Kills
      /\ \A p : KeyOf(p)' = KeyOf(p)
  BY Killers
     DEF LogoutAllDrop, user, tokens, table, cache, clock, Moves, KeyOf, Before
<1>4. LiveKeys' \subseteq req'[w].todo \cup {g[1] : g \in req'[w].held}
  BY <1>1, <1>2 DEF Invariants, KeysLocal, LiveKeys, Moves, None
<1>5. OneLiveTokenPerSession'
  BY <1>2, <1>3, OneLiveKilled DEF Moves
<1>6. FamiliesInv'
  BY <1>2, FamiliesMove
<1>7. RowsInv'
  BY <1>1, <1>2, <1>3
     DEF Typed, Invariants, Moves, RowsInv, RowsLocal, NoneLive, SessionPairs,
         FamilyPairs, Issued, SigninPcs, RefreshPcs, SignedPcs
<1>8. RowsKeyed(req[w])'
  BY <1>2 DEF Moves, Holds, RowsKeyed, Keyless, Usable, Issued
<1>9. KeysBacked(req[w])'
  BY <1>1, <1>2, <1>3
     DEF Invariants, Moves, Holds, KeysBacked, Rowless, LiveKeys, None
<1>10. NoneBlacklisted(req[w])'
  BY <1>2 DEF Moves, Holds, NoneBlacklisted, Doomed, Usable
<1>11. KeysLocal(req[w])'
  BY <1>2, <1>4 DEF Moves, KeysLocal, KeyOf, RevokePcs, LiveKeys
<1>12. HistoryInv'
  BY <1>1, <1>2, <1>3
     DEF Typed, Invariants, Moves, Holds, HistoryInv, Recorded, HistoryLocal,
         HistoryOpen, Usable, RefreshPcs, SignedPcs
<1> QED
  BY <1>1, <1>5, <1>6, <1>7, <1>8, <1>9, <1>10, <1>11, <1>12
     DEF SerialInv, SyncInv, Typed

LEMMA LogoutAllRevokeSerial ==
    ASSUME NEW w, Before(w), LogoutAllRevoke(w)
    PROVE  SerialInv'
<1>1. Typed(w) /\ Invariants(w)
  BY Known
<1>2. Moves(w, "la_keys", "la_close") /\ Holds(w)
  BY Going DEF LogoutAllRevoke, At, clock
<1>3. /\ UNCHANGED <<password, delivered, history, redis, blRefresh, rtExpired>>
      /\ Kills
      /\ \A p : KeyOf(p)' = KeyOf(p)
      /\ \A p \in Pairs : row'[p] # "live"
      /\ req[w].todo = {} /\ req[w].held = {}
  BY Killers
     DEF LogoutAllRevoke, user, tokens, table, cache, clock, Moves, KeyOf,
         Before, RevokeRows
<1>4. OneLiveTokenPerSession'
  BY <1>2, <1>3, OneLiveKilled DEF Moves
<1>5. FamiliesInv'
  BY <1>2, FamiliesMove DEF RefreshPcs
<1>6. RowsInv'
  BY <1>1, <1>2, <1>3
     DEF Typed, Moves, RowsInv, RowsLocal, NoneLive, SessionPairs, FamilyPairs,
         Issued, SigninPcs, RefreshPcs, SignedPcs
<1>7. RowsKeyed(req[w])'
  BY <1>1, <1>2, <1>3 DEF Typed, Moves, RowsKeyed, Keyless, Usable, Issued
<1>8. KeysBacked(req[w])'
  BY <1>1, <1>2, <1>3
     DEF Invariants, Moves, KeysBacked, Rowless, LiveKeys, None, KeysLocal
<1>9. NoneBlacklisted(req[w])'
  BY <1>1, <1>3 DEF Typed, NoneBlacklisted, Doomed, Usable
<1>10. KeysLocal(req[w])'
  BY <1>2 DEF Moves, KeysLocal, KeyOf, RevokePcs
<1>11. HistoryInv'
  BY <1>1, <1>2, <1>3
     DEF Typed, Invariants, Moves, HistoryInv, Recorded, HistoryLocal,
         HistoryOpen, Usable, RefreshPcs, SignedPcs
<1> QED
  BY <1>1, <1>4, <1>5, <1>6, <1>7, <1>8, <1>9, <1>10, <1>11
     DEF SerialInv, SyncInv, Typed

LEMMA LogoutAllCloseSerial ==
    ASSUME NEW w, Before(w), LogoutAllClose(w)
    PROVE  SerialInv'
<1>1. Typed(w) /\ Invariants(w)
  BY Known
<1>2. Moves(w, "la_close", "la_clean") /\ Holds(w)
  BY Going DEF LogoutAllClose, At, table, clock
<1>3. /\ UNCHANGED <<row, password, delivered, redis, blRefresh, rtExpired>>
      /\ Kills
      /\ \A p : KeyOf(p)' = KeyOf(p)
      /\ history' = [s \in Pairs |-> IF history[s] = "open" THEN "closed"
                                    ELSE history[s]]
  BY Killers
     DEF LogoutAllClose, user, tokens, table, cache, clock, Moves, KeyOf,
         Before, CloseHistory
<1>4. \A p \in Issued : row[p] # "live"
  BY <1>1, <1>2 DEF Invariants, Moves, RowsLocal, NoneLive
<1>5. OneLiveTokenPerSession'
  BY <1>2, <1>3, OneLiveKilled DEF Moves
<1>6. FamiliesInv'
  BY <1>2, FamiliesMove DEF RefreshPcs
<1>7. RowsInv'
  BY <1>1, <1>2, <1>3
     DEF Typed, Invariants, Moves, RowsInv, RowsLocal, NoneLive, SessionPairs,
         FamilyPairs, Issued, SigninPcs, RefreshPcs, SignedPcs
<1>8. RowsKeyed(req[w])'
  BY <1>2, <1>3, <1>4 DEF Moves, Holds, RowsKeyed, Keyless, Usable, Issued
<1>9. KeysBacked(req[w])'
  BY <1>1, <1>2, <1>3
     DEF Invariants, Moves, Holds, KeysBacked, Rowless, LiveKeys, None
<1>10. NoneBlacklisted(req[w])'
  BY <1>1, <1>3, <1>4 DEF Typed, Holds, NoneBlacklisted, Doomed, Usable
<1>11. KeysLocal(req[w])'
  BY <1>2 DEF Moves, KeysLocal, KeyOf, RevokePcs
<1>12. HistoryInv'
  BY <1>1, <1>2, <1>3, <1>4
     DEF Typed, Invariants, Moves, Holds, HistoryInv, Recorded, HistoryLocal,
         HistoryOpen, Usable, RefreshPcs, SignedPcs
<1> QED
  BY <1>1, <1>5, <1>6, <1>7, <1>8, <1>9, <1>10, <1>11, <1>12
     DEF SerialInv, SyncInv, Typed

LEMMA LogoutAllCleanSerial ==
    ASSUME NEW w, Before(w), LogoutAllClean(w)
    PROVE  SerialInv'
<1>1. Typed(w) /\ Invariants(w)
  BY Known
<1>2. /\ req[w].pc = "la_clean" /\ Finish(w)
      /\ UNCHANGED <<issued, claims, rowFam>> /\ \A p : KeyOf(p)' = KeyOf(p)
  BY DEF LogoutAllClean, At, tokens, clock, KeyOf, Cleanup
<1>3. /\ UNCHANGED <<password, delivered, history, redis, blRefresh, rtExpired>>
      /\ Kills
      /\ \A p \in Pairs :
           row'[p] = "live" <=> row[p] = "live" /\ p \notin rtExpired
      /\ \A p \in Pairs : row'[p] = "revoked" => row[p] = "revoked"
  BY Killers
     DEF LogoutAllClean, user, table, cache, clock, Before, Cleanup, CleanupRows
<1>4. LiveAreCurrent'
  BY <1>1, <1>2, <1>3
     DEF Typed, Invariants, RowsInv, LiveAreCurrent, SignedPcs, Issued
<1>5. AllKeyed'
  BY <1>1, <1>2, <1>3
     DEF Typed, Invariants, AllKeyed, RowsKeyed, Keyless, Usable, Issued
<1>6. AllBacked'
  BY <1>1, <1>2, <1>3
     DEF Typed, Invariants, AllBacked, KeysBacked, Rowless, LiveKeys, None
<1>7. AllClean'
  BY <1>1, <1>2, <1>3
     DEF Typed, Invariants, AllClean, NoneBlacklisted, Doomed, Usable
<1>8. Recorded'
  BY <1>1, <1>2, <1>3
     DEF Typed, Invariants, HistoryInv, Recorded, HistoryOpen, Usable
<1> QED
  BY <1>2, <1>3, <1>4, <1>5, <1>6, <1>7, <1>8, Ends DEF Settled

-----------------------------------------------------------------------------
(* Session revocation and the password endpoints.                          *)

LEMMA RevokeSessionReadSerial ==
    ASSUME NEW w, Before(w), RevokeSessionRead(w)
    PROVE  SerialInv'
<1>1. Typed(w) /\ Invariants(w)
  BY Known
<1>2. /\ Moves(w, "rs_read", "rs_black")
      /\ \E k \in req[w].todo : req'[w].old = redis[k]
      /\ req'[w].todo = req[w].todo
  BY <1>1 DEF RevokeSessionRead, Moves, Typed, At, tokens, table
<1>3. /\ UNCHANGED <<row, password, delivered, history, redis,
                     blRefresh, rtExpired>>
      /\ Kills
      /\ \A p : KeyOf(p)' = KeyOf(p)
  BY Killers
     DEF RevokeSessionRead, user, tokens, table, cache, clock, Moves, KeyOf,
         Before
<1>4. \A k \in req[w].todo : k \in Keys /\ redis[k] = req'[w].old
  BY <1>1, <1>2 DEF Typed, Requests, Invariants, KeysLocal, RevokePcs, Moves
<1>5. req'[w].old # None => KeyOf(req'[w].old) \in req[w].todo
  BY <1>1, <1>2, <1>4 DEF Typed
<1>6. OneLiveTokenPerSession'
  BY <1>2, <1>3, OneLiveKilled DEF Moves
<1>7. FamiliesInv'
  BY <1>2, FamiliesMove DEF RefreshPcs
<1>8. RowsInv'
  BY <1>1, <1>2, <1>3
     DEF Typed, Invariants, Moves, RowsInv, RowsLocal, NoneLive, SessionPairs,
         FamilyPairs, Issued, SigninPcs, RefreshPcs, SignedPcs
<1>9. RowsKeyed(req[w])'
  BY <1>1, <1>2, <1>3
     DEF Invariants, Moves, Holds, RowsKeyed, Keyless, Usable, Issued
<1>10. KeysBacked(req[w])'
  BY <1>1, <1>2, <1>3
     DEF Invariants, Moves, Holds, KeysBacked, Rowless, LiveKeys, None
<1>11. NoneBlacklisted(req[w])'
  BY <1>1, <1>2, <1>3
     DEF Invariants, Moves, Holds, NoneBlacklisted, Doomed, Usable
<1>12. KeysLocal(req[w])'
  BY <1>1, <1>2, <1>3, <1>5
     DEF Invariants, Moves, Holds, KeysLocal, KeyOf, RevokePcs, None
<1>13. HistoryInv'
  BY <1>1, <1>2, <1>3
     DEF Typed, Invariants, Moves, Holds, HistoryInv, Recorded, HistoryLocal,
         HistoryOpen, Usable, RefreshPcs, SignedPcs
<1> QED
  BY <1>1, <1>6, <1>7, <1>8, <1>9, <1>10, <1>11, <1>12, <1>13
     DEF SerialInv, SyncInv, Typed

LEMMA RevokeSessionBlacklistSerial ==
    ASSUME NEW w, Before(w), RevokeSessionBlacklist(w)
    PROVE  SerialInv'
<1>1. Typed(w) /\ Invariants(w)
  BY Known
<1>2. Moves(w, "rs_black", "rs_verify") /\ Holds(w)
  BY Going DEF RevokeSessionBlacklist, At, table, clock
<1>3. /\ UNCHANGED <<row, password, delivered, history, redis, rtExpired>>
      /\ Kills
      /\ \A p : KeyOf(p)' = KeyOf(p)
      /\ blRefresh' = blRefresh \cup ({req[w].old} \ {None})
  BY Killers
     DEF RevokeSessionBlacklist, user, tokens, table, cache, clock, Moves,
         KeyOf, Before, BlacklistRefresh
<1>4. OneLiveTokenPerSession'
  BY <1>2, <1>3, OneLiveKilled DEF Moves
<1>5. FamiliesInv'
  BY <1>2, FamiliesMove DEF RefreshPcs
<1>6. RowsInv'
  BY <1>1, <1>2, <1>3
     DEF Typed, Invariants, Moves, RowsInv, RowsLocal, NoneLive, SessionPairs,
         FamilyPairs, Issued, SigninPcs, RefreshPcs, SignedPcs
<1>7. RowsKeyed(req[w])'
  BY <1>1, <1>2, <1>3 DEF Invariants, Moves, RowsKeyed, Keyless, Usable, Issued
<1>8. KeysBacked(req[w])'
  BY <1>1, <1>2, <1>3 DEF Invariants, Moves, KeysBacked, Rowless, LiveKeys, None
<1>9. NoneBlacklisted(req[w])'
  BY <1>1, <1>2, <1>3
     DEF Invariants, Moves, Holds, NoneBlacklisted, Doomed, Usable
<1>10. KeysLocal(req[w])'
  BY <1>1, <1>2, <1>3 DEF Invariants, Moves, Holds, KeysLocal, KeyOf, RevokePcs
<1>11. HistoryInv'
  BY <1>1, <1>2, <1>3
     DEF Typed, Invariants, Moves, HistoryInv, Recorded, HistoryLocal,
         HistoryOpen, Usable, RefreshPcs, SignedPcs
<1> QED
  BY <1>1, <1>4, <1>5, <1>6, <1>7, <1>8, <1>9, <1>10, <1>11
     DEF SerialInv, SyncInv, Typed

LEMMA RevokeSessionVerifyGoesSerial ==
    ASSUME NEW w, Before(w), RevokeSessionVerify(w), Goto(w, "rs_revoke"),
           req[w].old # None
    PROVE  SerialInv'
<1>1. Typed(w) /\ Invariants(w)
  BY Known
<1>2. Moves(w, "rs_verify", "rs_revoke") /\ Holds(w)
  BY Going DEF RevokeSessionVerify, At, table, clock
<1>3. /\ UNCHANGED <<row, password, delivered, history, redis,
                     blRefresh, rtExpired>>
      /\ Kills
      /\ \A p : KeyOf(p)' = KeyOf(p)
  BY Killers
     DEF RevokeSessionVerify, user, tokens, table, cache, clock, Moves, KeyOf,
         Before
<1>4. OneLiveTokenPerSession'
  BY <1>2, <1>3, OneLiveKilled DEF Moves
<1>5. FamiliesInv'
  BY <1>2, FamiliesMove DEF RefreshPcs
<1>6. RowsInv'
  BY <1>1, <1>2, <1>3
     DEF Typed, Invariants, Moves, RowsInv, RowsLocal, NoneLive, SessionPairs,
         FamilyPairs, Issued, SigninPcs, RefreshPcs, SignedPcs
<1>7. RowsKeyed(req[w])'
  BY <1>1, <1>2, <1>3 DEF Invariants, Moves, RowsKeyed, Keyless, Usable, Issued
<1>8. KeysBacked(req[w])'
  BY <1>1, <1>2, <1>3 DEF Invariants, Moves, KeysBacked, Rowless, LiveKeys, None
<1>9. NoneBlacklisted(req[w])'
  BY <1>1, <1>2, <1>3
     DEF Invariants, Moves, Holds, NoneBlacklisted, Doomed, Usable
<1>10. KeysLocal(req[w])'
  BY <1>1, <1>2, <1>3 DEF Invariants, Moves, Holds, KeysLocal, KeyOf, RevokePcs
<1>11. HistoryInv'
  BY <1>1, <1>2, <1>3
     DEF Typed, Invariants, Moves, HistoryInv, Recorded, HistoryLocal,
         HistoryOpen, Usable, RefreshPcs, SignedPcs
<1> QED
  BY <1>1, <1>4, <1>5, <1>6, <1>7, <1>8, <1>9, <1>10, <1>11
     DEF SerialInv, SyncInv, Typed

LEMMA RevokeSessionVerifySkipsSerial ==
    ASSUME NEW w, Before(w), RevokeSessionVerify(w), Goto(w, "rs_del"),
           req[w].old = None \/ row[req[w].old] # "live"
    PROVE  SerialInv'
<1>1. Typed(w) /\ Invariants(w)
  BY Known
<1>2. Moves(w, "rs_verify", "rs_del") /\ Holds(w)
  BY Going DEF RevokeSessionVerify, At, table, clock
<1>3. /\ UNCHANGED <<row, password, delivered, history, redis,
                     blRefresh, rtExpired>>
      /\ Kills
      /\ \A p : KeyOf(p)' = KeyOf(p)
  BY Killers
     DEF RevokeSessionVerify, user, tokens, table, cache, clock, Moves, KeyOf,
         Before
<1>4. OneLiveTokenPerSession'
  BY <1>2, <1>3, OneLiveKilled DEF Moves
<1>5. FamiliesInv'
  BY <1>2, FamiliesMove DEF RefreshPcs
<1>6. RowsInv'
  BY <1>1, <1>2, <1>3
     DEF Typed, Invariants, Moves, RowsInv, RowsLocal, NoneLive, SessionPairs,
         FamilyPairs, Issued, SigninPcs, RefreshPcs, SignedPcs
<1>7. RowsKeyed(req[w])'
  BY <1>1, <1>2, <1>3 DEF Invariants, Moves, RowsKeyed, Keyless, Usable, Issued
<1>8. KeysBacked(req[w])'
  BY <1>1, <1>2, <1>3 DEF Invariants, Moves, KeysBacked, Rowless, LiveKeys, None
<1>9. NoneBlacklisted(req[w])'
  BY <1>1, <1>2, <1>3
     DEF Typed, Invariants, Moves, NoneBlacklisted, Doomed, Usable, None, Issued
<1>10. KeysLocal(req[w])'
  BY <1>1, <1>2, <1>3 DEF Invariants, Moves, Holds, KeysLocal, KeyOf, RevokePcs
<1>11. HistoryInv'
  BY <1>1, <1>2, <1>3
     DEF Typed, Invariants, Moves, HistoryInv, Recorded, HistoryLocal,
         HistoryOpen, Usable, RefreshPcs, SignedPcs
<1> QED
  BY <1>1, <1>4, <1>5, <1>6, <1>7, <1>8, <1>9, <1>10, <1>11
     DEF SerialInv, SyncInv, Typed

LEMMA RevokeSessionRevokeGoesSerial ==
    ASSUME NEW w, Before(w), RevokeSessionRevoke(w), Goto(w, "rs_del"),
           UpdateRow(req[w].old)
    PROVE  SerialInv'
<1>1. Typed(w) /\ Invariants(w)
  BY Known
<1>2. Moves(w, "rs_revoke", "rs_del") /\ Holds(w)
  BY Going DEF RevokeSessionRevoke, At, clock
<1>3. req[w].old \in Issued /\ req[w].old \in Pairs
  BY <1>1, <1>2 DEF Typed, Invariants, KeysLocal, Moves, Issued, None
<1>4. /\ UNCHANGED <<password, delivered, history, redis, blRefresh, rtExpired>>
      /\ Kills
      /\ \A p : KeyOf(p)' = KeyOf(p)
      /\ row' = [row EXCEPT ![req[w].old] = "revoked"]
  BY <1>3, Killers
     DEF RevokeSessionRevoke, user, tokens, table, cache, clock, Moves, KeyOf,
         Before, UpdateRow
<1>5. \A k \in LiveKeys : redis[k] = req[w].old => k \in req[w].todo
  BY <1>1, <1>2 DEF Typed, Invariants, Moves, KeysLocal, LiveKeys, None
<1>6. row'[req[w].old] = "revoked"
  BY <1>1, <1>3, <1>4 DEF Typed
<1>7. OneLiveTokenPerSession'
  BY <1>2, <1>4, OneLiveKilled DEF Moves
<1>8. FamiliesInv'
  BY <1>2, FamiliesMove DEF RefreshPcs
<1>9. RowsInv'
  BY <1>1, <1>2, <1>4
     DEF Typed, Invariants, Moves, RowsInv, RowsLocal, NoneLive, SessionPairs,
         FamilyPairs, Issued, SigninPcs, RefreshPcs, SignedPcs
<1>10. RowsKeyed(req[w])'
  BY <1>1, <1>2, <1>4
     DEF Invariants, Moves, Holds, RowsKeyed, Keyless, Usable, Issued
<1>11. KeysBacked(req[w])'
  BY <1>1, <1>2, <1>4, <1>5
     DEF Invariants, Moves, Holds, KeysBacked, Rowless, LiveKeys, None
<1>12. NoneBlacklisted(req[w])'
  BY <1>1, <1>2, <1>4
     DEF Typed, Invariants, Moves, Holds, NoneBlacklisted, Doomed, Usable
<1>13. KeysLocal(req[w])'
  BY <1>1, <1>2, <1>4, <1>6
     DEF Invariants, Moves, Holds, KeysLocal, KeyOf, RevokePcs
<1>14. HistoryInv'
  BY <1>1, <1>2, <1>4
     DEF Typed, Invariants, Moves, Holds, HistoryInv, Recorded, HistoryLocal,
         HistoryOpen, Usable, RefreshPcs, SignedPcs
<1> QED
  BY <1>1, <1>7, <1>8, <1>9, <1>10, <1>11, <1>12, <1>13, <1>14
     DEF SerialInv, SyncInv, Typed

LEMMA RevokeSessionRevokeFailsSerial ==
    ASSUME NEW w, Before(w), RevokeSessionRevoke(w), Finish(w), UNCHANGED row,
           row[req[w].old] = "none"
    PROVE  SerialInv'
<1>1. Typed(w) /\ Invariants(w)
  BY Known
<1>2. /\ req[w].pc = "rs_revoke" /\ Finish(w)
      /\ UNCHANGED <<issued, claims, rowFam>> /\ \A p : KeyOf(p)' = KeyOf(p)
  BY DEF RevokeSessionRevoke, At, tokens, clock, KeyOf
<1>3. /\ UNCHANGED <<row, password, delivered, history, redis,
                     blRefresh, rtExpired>>
      /\ Kills
  BY Killers DEF RevokeSessionRevoke, user, table, cache, clock, Before
<1>4. LiveAreCurrent'
  BY <1>1, <1>2, <1>3
     DEF Typed, Invariants, RowsInv, LiveAreCurrent, SignedPcs, Issued
<1>5. AllKeyed'
  BY <1>1, <1>2, <1>3
     DEF Invariants, AllKeyed, RowsKeyed, Keyless, Usable, Issued
<1>6. AllBacked'
  BY <1>1, <1>2, <1>3
     DEF Invariants, AllBacked, KeysBacked, Rowless, LiveKeys, None
<1>7. AllClean'
  BY <1>1, <1>2, <1>3 DEF Invariants, AllClean, NoneBlacklisted, Doomed, Usable
<1>8. Recorded'
  BY <1>1, <1>2, <1>3 DEF Invariants, HistoryInv, Recorded, HistoryOpen, Usable
<1> QED
  BY <1>2, <1>3, <1>4, <1>5, <1>6, <1>7, <1>8, Ends DEF Settled

LEMMA RevokeSessionDeleteSerial ==
    ASSUME NEW w, Before(w), RevokeSessionDelete(w)
    PROVE  SerialInv'
<1>1. Typed(w) /\ Invariants(w)
  BY Known
<1>2. /\ req[w].pc = "rs_del" /\ Finish(w)
      /\ UNCHANGED <<issued, claims, rowFam>> /\ \A p : KeyOf(p)' = KeyOf(p)
  BY DEF RevokeSessionDelete, At, tokens, table, clock, KeyOf
<1>3. /\ UNCHANGED <<row, password, delivered, history, blRefresh, rtExpired>>
      /\ Kills
      /\ redis' = [k \in Keys |-> IF k \in req[w].todo THEN None ELSE redis[k]]
  BY Killers
     DEF RevokeSessionDelete, user, table, cache, clock, Before, DeleteKeys
<1>4. LiveAreCurrent'
  BY <1>1, <1>2, <1>3
     DEF Typed, Invariants, RowsInv, LiveAreCurrent, SignedPcs, Issued
<1>5. AllKeyed'
  BY <1>1, <1>2, <1>3
     DEF Typed, Invariants, AllKeyed, RowsKeyed, Keyless, Usable, Issued,
         KeysLocal
<1>6. AllBacked'
  BY <1>1, <1>2, <1>3
     DEF Invariants, AllBacked, KeysBacked, Rowless, LiveKeys, None
<1>7. AllClean'
  BY <1>1, <1>2, <1>3 DEF Invariants, AllClean, NoneBlacklisted, Doomed, Usable
<1>8. Recorded'
  BY <1>1, <1>2, <1>3 DEF Invariants, HistoryInv, Recorded, HistoryOpen, Usable
<1> QED
  BY <1>2, <1>3, <1>4, <1>5, <1>6, <1>7, <1>8, Ends DEF Settled

LEMMA PasswordRevokeSerial ==
    ASSUME NEW w, Before(w), PasswordRevoke(w)
    PROVE  SerialInv'
<1>1. Typed(w) /\ Invariants(w)
  BY Known
<1>2. Moves(w, "pw_revoke", "pw_scan") /\ Holds(w)
  BY Going DEF PasswordRevoke, At, clock
<1>3. /\ UNCHANGED <<password, delivered, history, redis, blRefresh, rtExpired>>
      /\ Kills
      /\ \A p : KeyOf(p)' = KeyOf(p)
      /\ \A p \in Pairs : row'[p] # "live"
  BY Killers
     DEF PasswordRevoke, user, tokens, table, cache, clock, Moves, KeyOf,
         Before, RevokeRows
<1>4. OneLiveTokenPerSession'
  BY <1>2, <1>3, OneLiveKilled DEF Moves
<1>5. FamiliesInv'
  BY <1>2, FamiliesMove DEF RefreshPcs
<1>6. RowsInv'
  BY <1>1, <1>2, <1>3
     DEF Typed, Moves, RowsInv, RowsLocal, NoneLive, SessionPairs, FamilyPairs,
         Issued, SigninPcs, RefreshPcs, SignedPcs
<1>7. RowsKeyed(req[w])'
  BY <1>1, <1>2, <1>3 DEF Typed, Moves, RowsKeyed, Keyless, Usable, Issued
<1>8. KeysBacked(req[w])'
  BY <1>2 DEF Moves, KeysBacked, Rowless, LiveKeys, None
<1>9. NoneBlacklisted(req[w])'
  BY <1>1, <1>3 DEF Typed, NoneBlacklisted, Doomed, Usable
<1>10. KeysLocal(req[w])'
  BY <1>2 DEF Moves, KeysLocal, KeyOf, RevokePcs
<1>11. HistoryInv'
  BY <1>1, <1>2, <1>3
     DEF Typed, Invariants, Moves, HistoryInv, Recorded, HistoryLocal,
         HistoryOpen, Usable, RefreshPcs, SignedPcs
<1> QED
  BY <1>1, <1>4, <1>5, <1>6, <1>7, <1>8, <1>9, <1>10, <1>11
     DEF SerialInv, SyncInv, Typed

LEMMA PasswordScanSerial ==
    ASSUME NEW w, Before(w), PasswordScan(w)
    PROVE  SerialInv'
<1>1. Typed(w) /\ Invariants(w)
  BY Known
<1>2. /\ Moves(w, "pw_scan", "pw_keys")
      /\ req'[w].todo = LiveKeys
  BY <1>1 DEF PasswordScan, Moves, Typed, At, tokens, table, Scans
<1>3. /\ UNCHANGED <<row, password, delivered, history, redis,
                     blRefresh, rtExpired>>
      /\ Kills
      /\ \A p : KeyOf(p)' = KeyOf(p)
  BY Killers
     DEF PasswordScan, user, tokens, table, cache, clock, Moves, KeyOf, Before
<1>4. OneLiveTokenPerSession'
  BY <1>2, <1>3, OneLiveKilled DEF Moves
<1>5. FamiliesInv'
  BY <1>2, FamiliesMove DEF RefreshPcs
<1>6. RowsInv'
  BY <1>1, <1>2, <1>3
     DEF Typed, Invariants, Moves, RowsInv, RowsLocal, NoneLive, SessionPairs,
         FamilyPairs, Issued, SigninPcs, RefreshPcs, SignedPcs
<1>7. RowsKeyed(req[w])'
  BY <1>1, <1>2, <1>3 DEF Invariants, Moves, RowsKeyed, Keyless, Usable, Issued
<1>8. KeysBacked(req[w])'
  BY <1>2 DEF Moves, KeysBacked, Rowless, LiveKeys, None
<1>9. NoneBlacklisted(req[w])'
  BY <1>1, <1>2, <1>3 DEF Invariants, Moves, NoneBlacklisted, Doomed, Usable
<1>10. KeysLocal(req[w])'
  BY <1>2, <1>3 DEF Moves, KeysLocal, KeyOf, RevokePcs, LiveKeys
<1>11. HistoryInv'
  BY <1>1, <1>2, <1>3
     DEF Typed, Invariants, Moves, Holds, HistoryInv, Recorded, HistoryLocal,
         HistoryOpen, Usable, RefreshPcs, SignedPcs
<1> QED
  BY <1>1, <1>4, <1>5, <1>6, <1>7, <1>8, <1>9, <1>10, <1>11
     DEF SerialInv, SyncInv, Typed

LEMMA PasswordReadSerial ==
    ASSUME NEW w, Before(w), PasswordRead(w)
    PROVE  SerialInv'
<1>1. Typed(w) /\ Invariants(w)
  BY Known
<1>2. PICK k \in req[w].todo :
          /\ Moves(w, "pw_keys", "pw_keys")
          /\ req'[w].todo = req[w].todo \ {k}
          /\ req'[w].held = req[w].held \cup {<<k, redis[k]>>}
  BY <1>1 DEF PasswordRead, Moves, Typed, At, tokens, table
<1>3. /\ UNCHANGED <<row, password, delivered, history, redis,
                     blRefresh, rtExpired>>
      /\ Kills
      /\ \A p : KeyOf(p)' = KeyOf(p)
  BY <1>1, <1>2, Killers
     DEF PasswordRead, At, user, tokens, table, cache, clock, Moves, KeyOf,
         Before
<1>4. LiveKeys \subseteq req'[w].todo \cup {h[1] : h \in req'[w].held}
  <2> SUFFICES ASSUME NEW x \in LiveKeys, x \notin req'[w].todo
               PROVE  x \in {h[1] : h \in req'[w].held}
    OBVIOUS
  <2>1. CASE x = k
    <3>1. <<k, redis[k]>> \in req'[w].held /\ <<k, redis[k]>>[1] = k
      BY <1>2
    <3> QED
      BY <2>1, <3>1
  <2>2. CASE x # k
    BY <1>1, <1>2, <2>2 DEF Invariants, Moves, KeysLocal
  <2> QED
    BY <2>1, <2>2
<1>5. OneLiveTokenPerSession'
  BY <1>2, <1>3, OneLiveKilled DEF Moves
<1>6. FamiliesInv'
  BY <1>2, FamiliesMove
<1>7. RowsInv'
  BY <1>1, <1>2, <1>3
     DEF Typed, Invariants, Moves, RowsInv, RowsLocal, NoneLive, SessionPairs,
         FamilyPairs, Issued, SigninPcs, RefreshPcs, SignedPcs
<1>8. RowsKeyed(req[w])'
  BY <1>1, <1>2, <1>3
     DEF Invariants, Moves, Holds, RowsKeyed, Keyless, Usable, Issued
<1>9. KeysBacked(req[w])'
  BY <1>2 DEF Moves, Holds, KeysBacked, Rowless, LiveKeys, None
<1>10. NoneBlacklisted(req[w])'
  BY <1>1, <1>2, <1>3
     DEF Invariants, Moves, Holds, NoneBlacklisted, Doomed, Usable
<1>11. KeysLocal(req[w])'
  BY <1>2, <1>3, <1>4 DEF Moves, KeysLocal, KeyOf, RevokePcs, LiveKeys
<1>12. HistoryInv'
  BY <1>1, <1>2, <1>3
     DEF Typed, Invariants, Moves, Holds, HistoryInv, Recorded, HistoryLocal,
         HistoryOpen, Usable, RefreshPcs, SignedPcs
<1> QED
  BY <1>1, <1>5, <1>6, <1>7, <1>8, <1>9, <1>10, <1>11, <1>12
     DEF SerialInv, SyncInv, Typed

LEMMA PasswordDropSerial ==
    ASSUME NEW w, Before(w), PasswordDrop(w)
    PROVE  SerialInv'
<1>1. Typed(w) /\ Invariants(w)
  BY Known
<1>2. PICK h \in req[w].held :
          /\ Moves(w, "pw_keys", "pw_keys")
          /\ req'[w].todo = req[w].todo /\ req'[w].held = req[w].held \ {h}
          /\ redis' = [k \in Keys |-> IF k = h[1] THEN None ELSE redis[k]]
  BY <1>1 DEF PasswordDrop, DeleteKeys, Moves, Typed, At, tokens, table
<1>3. /\ UNCHANGED <<row, password, delivered, history, blRefresh, rtExpired>>
      /\ Kills
      /\ \A p : KeyOf(p)' = KeyOf(p)
  BY Killers
     DEF PasswordDrop, user, tokens, table, cache, clock, Moves, KeyOf, Before
<1>4. LiveKeys' \subseteq req'[w].todo \cup {g[1] : g \in req'[w].held}
  BY <1>1, <1>2 DEF Invariants, KeysLocal, LiveKeys, Moves, None
<1>5. OneLiveTokenPerSession'
  BY <1>2, <1>3, OneLiveKilled DEF Moves
<1>6. FamiliesInv'
  BY <1>2, FamiliesMove
<1>7. RowsInv'
  BY <1>1, <1>2, <1>3
     DEF Typed, Invariants, Moves, RowsInv, RowsLocal, NoneLive, SessionPairs,
         FamilyPairs, Issued, SigninPcs, RefreshPcs, SignedPcs
<1>8. RowsKeyed(req[w])'
  BY <1>1, <1>2, <1>3
     DEF Invariants, Moves, Holds, RowsKeyed, Keyless, Usable, Issued,
         RowsLocal, NoneLive
<1>9. KeysBacked(req[w])'
  BY <1>2 DEF Moves, Holds, KeysBacked, Rowless, LiveKeys, None
<1>10. NoneBlacklisted(req[w])'
  BY <1>1, <1>2, <1>3
     DEF Invariants, Moves, Holds, NoneBlacklisted, Doomed, Usable
<1>11. KeysLocal(req[w])'
  BY <1>2, <1>4 DEF Moves, KeysLocal, KeyOf, RevokePcs, LiveKeys
<1>12. HistoryInv'
  BY <1>1, <1>2, <1>3
     DEF Typed, Invariants, Moves, Holds, HistoryInv, Recorded, HistoryLocal,
         HistoryOpen, Usable, RefreshPcs, SignedPcs
<1> QED
  BY <1>1, <1>5, <1>6, <1>7, <1>8, <1>9, <1>10, <1>11, <1>12
     DEF SerialInv, SyncInv, Typed

LEMMA PasswordDoneSerial ==
    ASSUME NEW w, Before(w), PasswordDone(w)
    PROVE  SerialInv'
<1>1. Typed(w) /\ Invariants(w)
  BY Known
<1>2. /\ req[w].pc = "pw_keys" /\ Finish(w)
      /\ UNCHANGED <<issued, claims, rowFam>> /\ \A p : KeyOf(p)' = KeyOf(p)
  BY DEF PasswordDone, At, tokens, table, clock, KeyOf
<1>3. /\ UNCHANGED <<row, password, delivered, history, redis,
                     blRefresh, rtExpired>>
      /\ Kills
      /\ req[w].todo = {} /\ req[w].held = {}
  BY Killers DEF PasswordDone, user, table, cache, clock, Before
<1>4. LiveAreCurrent'
  BY <1>1, <1>2, <1>3
     DEF Typed, Invariants, RowsInv, LiveAreCurrent, SignedPcs, Issued
<1>5. AllKeyed'
  BY <1>1, <1>2, <1>3
     DEF Invariants, AllKeyed, RowsKeyed, Keyless, Usable, Issued
<1>6. AllBacked'
  BY <1>1, <1>2, <1>3
     DEF Invariants, AllBacked, Rowless, LiveKeys, None, KeysLocal
<1>7. AllClean'
  BY <1>1, <1>2, <1>3 DEF Invariants, AllClean, NoneBlacklisted, Doomed, Usable
<1>8. Recorded'
  BY <1>1, <1>2, <1>3 DEF Invariants, HistoryInv, Recorded, HistoryOpen, Usable
<1> QED
  BY <1>2, <1>3, <1>4, <1>5, <1>6, <1>7, <1>8, Ends DEF Settled

-----------------------------------------------------------------------------
(* A request starts, and everything that is not a request.                 *)

FirstPcs ==
    {"si_scan", "rf_verify", "lo_read", "la_keys", "rs_read", "pw_revoke"}

\* What a request starts with when no other is under way.
StartsAlone(r) ==
    /\ r \in Requests
    /\ r.pc \in FirstPcs
    /\ r.pc = "si_scan" => r.pw = password
    /\ r.pc = "rf_verify" => r.arg \in delivered /\ r.fp = rowFam[r.arg]
    /\ r.pc = "la_keys" => LiveKeys \subseteq r.todo
    /\ r.pc = "rs_read" => \E k : r.todo = {k}
    /\ r.pc # "pw_revoke" => UNCHANGED password

LEMMA BeginSerial ==
    ASSUME NEW w, Before(w), req[w].pc = "idle", NEW r, StartsAlone(r),
           req' = [req EXCEPT ![w] = r],
           UNCHANGED <<tokens, table, cache, history, delivered, clock>>
    PROVE  SerialInv'
<1>0. Typed(w) /\ Invariants(w)
  BY Known
<1>1. Settled
  BY Idle
<1>2. req'[w] = r /\ Workers = {w}
  BY <1>0 DEF Typed
<1>3. /\ UNCHANGED <<issued, claims, row, rowFam, redis, blRefresh, history,
                     delivered, rtExpired>>
      /\ Issued' = Issued
  BY DEF tokens, table, cache, clock, Issued
<1>4. OneLiveTokenPerSession'
  BY <1>0, <1>3 DEF Invariants, OneLiveTokenPerSession
<1>5. FamiliesInv'
  BY <1>0, <1>3 DEF Invariants, FamiliesInv, StartsAlone, FirstPcs, RefreshPcs
<1>6. RowsInv'
  BY <1>1, <1>2, <1>3
     DEF Settled, LiveAreCurrent, StartsAlone, FirstPcs, RowsInv, RowsLocal,
         SigninPcs, RefreshPcs, SignedPcs
<1>7. /\ RowsKeyed(req[w])' /\ NoneBlacklisted(req[w])'
  BY <1>1, <1>3
     DEF Settled, AllKeyed, AllClean, RowsKeyed, NoneBlacklisted, Usable, KeyOf
<1>8. KeysBacked(req[w])'
  BY <1>1, <1>3 DEF Settled, AllBacked, KeysBacked, LiveKeys
<1>9. KeysLocal(req[w])'
  BY <1>3 DEF StartsAlone, FirstPcs, KeysLocal, LiveKeys, RevokePcs
<1>10. HistoryInv'
  BY <1>1, <1>2, <1>3
     DEF Settled, StartsAlone, FirstPcs, HistoryInv, Recorded, HistoryLocal,
         HistoryOpen, Usable, RefreshPcs, SignedPcs
<1> QED
  BY <1>2, <1>4, <1>5, <1>6, <1>7, <1>8, <1>9, <1>10 DEF SerialInv, SyncInv

LEMMA StartSerial ==
    ASSUME NEW w, Before(w), Start(w)
    PROVE  SerialInv'
<1>types. Typed(w) /\ NoRequest \in Requests
  BY Known, NoRequestOK
<1>stores. /\ LiveKeys \in SUBSET Keys /\ password \in 0..MaxPasswords
      /\ \A p \in Pairs : p \in 0..MaxPairs
  BY DEF LiveKeys, Pairs, Before, IndInv, TypeOK, StoresOK
<1>scans. \A K \in Scans(LiveKeys) : K = LiveKeys
  BY <1>types DEF Scans, Typed
<1>0. /\ Typed(w) /\ NoRequest \in Requests /\ LiveKeys \in SUBSET Keys
      /\ \A p \in Pairs : p \in 0..MaxPairs
      /\ password \in 0..MaxPasswords
      /\ \A K \in Scans(LiveKeys) : K = LiveKeys
  BY <1>types, <1>stores, <1>scans
<1>1. FirstPcs \subseteq Pcs
  BY DEF FirstPcs, Pcs, SigninPcs, RefreshPcs, LogoutPcs, RevokePcs, PasswordPcs
<1>2. PICK r : /\ req[w].pc = "idle" /\ req' = [req EXCEPT ![w] = r]
               /\ StartsAlone(r)
               /\ UNCHANGED <<tokens, table, cache, history, delivered, clock>>
  <2>1. CASE \E f \in Families : SigninStart(w, f) \/ GoogleSigninStart(w, f)
    <3>1. PICK f \in Families : SigninStart(w, f) \/ GoogleSigninStart(w, f)
      BY <2>1
    <3>2. StartsAlone([NoRequest EXCEPT
            !.pc = "si_scan", !.fp = f, !.pw = password])
      BY <1>0, <1>1, <3>1
         DEF StartsAlone, FirstPcs, Requests, SigninStart, GoogleSigninStart,
             user
    <3> QED
      BY <3>1, <3>2 DEF SigninStart, GoogleSigninStart, At
  <2>2. CASE \E p \in Pairs, f \in Families : RefreshStart(w, p, f)
    <3>1. PICK p \in Pairs, f \in Families : RefreshStart(w, p, f)
      BY <2>2
    <3>2. StartsAlone([NoRequest EXCEPT !.pc = "rf_verify", !.arg = p, !.fp = f])
      BY <1>0, <1>1, <3>1
         DEF StartsAlone, FirstPcs, Requests, RefreshStart, user, Typed
    <3> QED
      BY <3>1, <3>2 DEF RefreshStart, At
  <2>3. CASE \E p \in Pairs : LogoutStart(w, p)
    <3>1. PICK p \in Pairs : LogoutStart(w, p)
      BY <2>3
    <3>2. StartsAlone([NoRequest EXCEPT !.pc = "lo_read", !.arg = p])
      BY <1>0, <1>1, <3>1 DEF StartsAlone, FirstPcs, Requests, LogoutStart, user
    <3> QED
      BY <3>1, <3>2 DEF LogoutStart, At
  <2>4. CASE \E p \in Pairs : LogoutAllStart(w, p)
    <3>1. PICK p \in Pairs : LogoutAllStart(w, p)
      BY <2>4
    <3>2. StartsAlone([NoRequest EXCEPT
            !.pc = "la_keys", !.arg = p, !.todo = LiveKeys])
      BY <1>0, <1>1, <3>1
         DEF StartsAlone, FirstPcs, Requests, LogoutAllStart, user
    <3> QED
      BY <1>0, <3>1, <3>2 DEF LogoutAllStart, At
  <2>5. CASE \E p \in Pairs, k \in Keys : RevokeSessionStart(w, p, k)
    <3>1. PICK p \in Pairs, k \in Keys : RevokeSessionStart(w, p, k)
      BY <2>5
    <3>2. StartsAlone([NoRequest EXCEPT
            !.pc = "rs_read", !.arg = p, !.todo = {k}])
      BY <1>0, <1>1, <3>1
         DEF StartsAlone, FirstPcs, Requests, RevokeSessionStart, user
    <3> QED
      BY <3>1, <3>2 DEF RevokeSessionStart, At
  <2>6. CASE PasswordStored(w)
    <3>1. StartsAlone([NoRequest EXCEPT !.pc = "pw_revoke"])
      BY <1>0, <1>1 DEF StartsAlone, FirstPcs, Requests
    <3> QED
      BY <2>6, <3>1 DEF PasswordStored, At
  <2> QED
    BY <2>1, <2>2, <2>3, <2>4, <2>5, <2>6
       DEF Start, ChangePassword, ResetPassword
<1> QED
  BY <1>2, BeginSerial

\* The purge deletes no row a request relies on.
LEMMA PurgeSerial ==
    ASSUME NEW w, Before(w), PurgeExpiredTokens
    PROVE  SerialInv'
<1>0. Typed(w) /\ Invariants(w)
  BY Known
<1>1. /\ \A p \in Pairs :
           row'[p] = "live" <=> row[p] = "live" /\ p \notin rtExpired
      /\ \A p \in Pairs : row'[p] = "revoked" => row[p] = "revoked"
      /\ Kills
  BY Killers DEF PurgeExpiredTokens, CleanupRows, Before
<1>2. /\ UNCHANGED <<password, issued, claims, rowFam, redis, blRefresh, history,
                     delivered, rtExpired, req>>
      /\ Issued' = Issued /\ \A p : KeyOf(p)' = KeyOf(p)
  BY DEF PurgeExpiredTokens, user, tokens, cache, clock, Issued, KeyOf
<1>3. OneLiveTokenPerSession'
  BY <1>2, <1>1, OneLiveKilled
<1>4. FamiliesInv'
  BY <1>0, <1>2 DEF Invariants, FamiliesInv
<1>5. RowsInv'
  BY <1>0, <1>1, <1>2
     DEF Typed, Invariants, RowsInv, RowsLocal, NoneLive, SessionPairs,
         FamilyPairs, LocalInv, Issued, SignedPcs, SigninPcs, RefreshPcs
<1>6. RowsKeyed(req[w])' /\ NoneBlacklisted(req[w])'
  BY <1>0, <1>1, <1>2
     DEF Typed, Invariants, RowsKeyed, Keyless, NoneBlacklisted, Doomed, Usable
<1>7. KeysBacked(req[w])'
  BY <1>0, <1>1, <1>2 DEF Typed, Invariants, KeysBacked, Rowless, LiveKeys
<1>8. KeysLocal(req[w])'
  BY <1>0, <1>1, <1>2
     DEF Typed, Invariants, KeysLocal, FamilyKeys, LiveKeys, KeyOf, None,
         Issued, RevokePcs
<1>9. HistoryInv'
  BY <1>0, <1>1, <1>2
     DEF Typed, Invariants, HistoryInv, Recorded, HistoryLocal, HistoryOpen,
         Usable
<1> QED
  BY <1>0, <1>3, <1>4, <1>5, <1>6, <1>7, <1>8, <1>9
     DEF SerialInv, SyncInv, Typed

\* An expired token closes only the history row of its own session.
LEMMA ExpiredSerial ==
    ASSUME NEW w, Before(w), NEW e \in Pairs, RefreshExpired(e)
    PROVE  SerialInv'
<1>0. Typed(w) /\ Invariants(w)
  BY Known
<1>1. /\ e \in rtExpired /\ e \in delivered
      /\ history' = [s \in Pairs |-> IF s = claims[e].sess /\ history[s] = "open"
                                     THEN "closed" ELSE history[s]]
  BY DEF RefreshExpired, CloseHistory
<1>2. /\ UNCHANGED <<password, issued, claims, row, rowFam, redis, blRefresh,
                     delivered, rtExpired, req>>
  BY DEF RefreshExpired, user, tokens, table, cache, clock
<1>3. \A s \in Pairs : HistoryOpen(s) => HistoryOpen(s)'
  BY <1>1, <1>2 DEF HistoryOpen
<1>4. HistoryInv'
  <2>1. Recorded'
    BY <1>0, <1>1, <1>2, <1>3
       DEF Typed, Invariants, HistoryInv, Recorded, Usable
  <2>2. HistoryLocal(req[w])'
    BY <1>0, <1>1, <1>2
       DEF Typed, Invariants, HistoryLocal, HistoryOpen, LocalInv, Issued,
           RefreshPcs, SignedPcs, LogoutPcs
  <2> QED
    BY <1>0, <2>1, <2>2 DEF Typed, HistoryInv
<1>5. OneLiveTokenPerSession' /\ FamiliesInv' /\ RowsInv'
  BY <1>0, <1>2
     DEF Invariants, OneLiveTokenPerSession, FamiliesInv, RowsInv, RowsLocal,
         NoneLive, SessionPairs, FamilyPairs, Issued
<1>6. RowsKeyed(req[w])' /\ KeysBacked(req[w])' /\ NoneBlacklisted(req[w])'
  BY <1>0, <1>2
     DEF Invariants, RowsKeyed, KeysBacked, NoneBlacklisted, Keyless, Rowless,
         Doomed, Usable, LiveKeys, KeyOf, Issued
<1>7. KeysLocal(req[w])'
  BY <1>0, <1>2 DEF Invariants, KeysLocal, FamilyKeys, LiveKeys, KeyOf
<1> QED
  BY <1>0, <1>4, <1>5, <1>6, <1>7 DEF SerialInv, SyncInv, Typed

\* A token that expires is no longer usable.
LEMMA ExpirySerial ==
    ASSUME NEW w, Before(w), rtExpired \subseteq rtExpired',
           UNCHANGED <<password, tokens, table, redis, blRefresh, history,
                       delivered, req>>
    PROVE  SerialInv'
<1>0. Typed(w) /\ Invariants(w)
  BY Known
<1>1. /\ UNCHANGED <<issued, claims, row, rowFam>>
      /\ Issued' = Issued /\ \A p : KeyOf(p)' = KeyOf(p)
  BY DEF tokens, table, Issued, KeyOf
<1>2. \A p : Usable(p)' => Usable(p)
  BY <1>1 DEF Usable
<1>3. OneLiveTokenPerSession' /\ FamiliesInv'
  BY <1>0, <1>1 DEF Invariants, OneLiveTokenPerSession, FamiliesInv
<1>4. RowsInv'
  BY <1>0, <1>1
     DEF Invariants, RowsInv, RowsLocal, NoneLive, SessionPairs, FamilyPairs
<1>5. RowsKeyed(req[w])' /\ NoneBlacklisted(req[w])'
  BY <1>0, <1>1, <1>2
     DEF Invariants, RowsKeyed, Keyless, NoneBlacklisted, Doomed
<1>6. KeysBacked(req[w])' /\ KeysLocal(req[w])'
  BY <1>0, <1>1
     DEF Invariants, KeysBacked, Rowless, LiveKeys, KeysLocal, FamilyKeys
<1>7. HistoryInv'
  BY <1>0, <1>1, <1>2
     DEF Invariants, HistoryInv, Recorded, HistoryLocal, HistoryOpen
<1> QED
  BY <1>0, <1>3, <1>4, <1>5, <1>6, <1>7 DEF SerialInv, SyncInv, Typed

\* Redis drops only the key of a token that has expired.
LEMMA KeyExpiresSerial ==
    ASSUME NEW w, Before(w), NEW k \in Keys, KeyExpires(k)
    PROVE  SerialInv'
<1>0. Typed(w) /\ Invariants(w)
  BY Known
<1>1. /\ UNCHANGED <<password, issued, claims, row, rowFam, blRefresh, history,
                     delivered, rtExpired, req>>
      /\ Issued' = Issued /\ \A p : KeyOf(p)' = KeyOf(p)
  BY DEF KeyExpires, user, tokens, table, clock, Issued, KeyOf
<1>2. /\ redis[k] \in rtExpired
      /\ \A j \in Keys : redis'[j] = IF j = k THEN None ELSE redis[j]
  BY DEF KeyExpires, DeleteKeys
<1>3. OneLiveTokenPerSession' /\ FamiliesInv' /\ RowsInv' /\ HistoryInv'
  BY <1>0, <1>1
     DEF Invariants, OneLiveTokenPerSession, FamiliesInv, RowsInv, RowsLocal,
         NoneLive, SessionPairs, FamilyPairs, HistoryInv, Recorded,
         HistoryLocal, HistoryOpen, Usable
<1>4. RowsKeyed(req[w])' /\ NoneBlacklisted(req[w])'
  BY <1>0, <1>1, <1>2
     DEF Typed, Invariants, RowsKeyed, Keyless, NoneBlacklisted, Doomed, Usable
<1>5. KeysBacked(req[w])'
  BY <1>0, <1>1, <1>2 DEF Invariants, KeysBacked, Rowless, LiveKeys
<1>6. KeysLocal(req[w])'
  <2>1. /\ LiveKeys' \subseteq LiveKeys
        /\ \A f : FamilyKeys(f)' \subseteq FamilyKeys(f)
    BY <1>2 DEF LiveKeys, FamilyKeys
  <2>2. /\ req[w].todo \subseteq Keys
        /\ req[w].pc \in LogoutPcs => KeyOf(req[w].arg) \in Keys
        /\ req[w].pc \in SignedPcs =>
             req[w].new # None /\ KeyOf(req[w].new) \in Keys
    BY <1>0 DEF Typed, LocalInv, Requests, Issued, None
  <2> QED
    BY <1>0, <1>1, <1>2, <2>1, <2>2
       DEF Invariants, KeysLocal, SignedPcs, LogoutPcs, RevokePcs
<1> QED
  BY <1>0, <1>3, <1>4, <1>5, <1>6 DEF SerialInv, SyncInv, Typed

LEMMA EnvironmentSerial ==
    ASSUME NEW w, Before(w), Environment
    PROVE  SerialInv'
<1>1. ToggleUserStatus => SerialInv'
  BY ExpirySerial DEF ToggleUserStatus, cache, clock
<1>2. \A p \in Pairs : AccessExpires(p) \/ RefreshExpires(p) => SerialInv'
  BY ExpirySerial DEF AccessExpires, RefreshExpires, user, cache
<1> QED
  BY <1>1, <1>2, PurgeSerial, ExpiredSerial, KeyExpiresSerial DEF Environment

-----------------------------------------------------------------------------
(* The induction.                                                          *)

LEMMA ContinueSerial ==
    ASSUME NEW w, Before(w), Continue(w)
    PROVE  SerialInv'
<1>1. CASE Signin(w)
  BY <1>1, SigninScanSerial, SigninDropSerial, SigninRevokeSerial,
     SigninCloseSerial, SigninIssueSerial, SigninCleanSerial, SigninStoreSerial,
     SigninRecordSerial
     DEF Signin
<1>2. CASE Refresh(w)
  <2>1. RefreshRevoke(w) => SerialInv'
    BY RefreshRevokeGoesSerial, RefreshRevokeFailsSerial DEF RefreshRevoke
  <2>2. RefreshFindHistory(w) => SerialInv'
    BY RefreshFindHistoryGoesSerial, RefreshFindHistoryFailsSerial
  <2> QED
    BY <1>2, <2>1, <2>2, RefreshVerifySerial, RefreshRefuseSerial,
       RefreshTheftSerial, RefreshIssueSerial, RefreshCleanSerial,
       RefreshReadOldSerial, RefreshBlacklistSerial, RefreshStoreSerial,
       RefreshSaveHistorySerial, TheftRevokeSerial, TheftScanSerial,
       TheftDropSerial
       DEF Refresh
<1>3. CASE Logout(w)
  <2>1. LogoutVerify(w) => SerialInv'
    BY LogoutVerifyGoesSerial, LogoutVerifySkipsSerial
  <2>2. LogoutRevoke(w) => SerialInv'
    BY LogoutRevokeGoesSerial, LogoutRevokeFailsSerial
       DEF LogoutRevoke, UpdateRow
  <2> QED
    BY <1>3, <2>1, <2>2, LogoutReadSerial, LogoutDropSerial, LogoutCloseSerial,
       LogoutCleanSerial, LogoutAllReadSerial, LogoutAllDropSerial,
       LogoutAllRevokeSerial, LogoutAllCloseSerial, LogoutAllCleanSerial
       DEF Logout
<1>4. CASE RevokeSession(w)
  <2>1. RevokeSessionVerify(w) => SerialInv'
    BY RevokeSessionVerifyGoesSerial, RevokeSessionVerifySkipsSerial
       DEF RevokeSessionVerify
  <2>2. RevokeSessionRevoke(w) => SerialInv'
    BY RevokeSessionRevokeGoesSerial, RevokeSessionRevokeFailsSerial
       DEF RevokeSessionRevoke
  <2> QED
    BY <1>4, <2>1, <2>2, RevokeSessionReadSerial, RevokeSessionBlacklistSerial,
       RevokeSessionDeleteSerial
       DEF RevokeSession
<1>5. CASE Password(w)
  BY <1>5, PasswordRevokeSerial, PasswordScanSerial, PasswordReadSerial,
     PasswordDropSerial, PasswordDoneSerial
     DEF Password
<1> QED
  BY <1>1, <1>2, <1>3, <1>4, <1>5 DEF Continue

LEMMA SerialInitial == Init => SerialInv
<1> SUFFICES ASSUME Init PROVE SerialInv
  OBVIOUS
<1>1. /\ Issued = {} /\ delivered = {} /\ blRefresh = {} /\ LiveKeys = {}
      /\ \A w \in Workers : req[w] = NoRequest
  BY DEF Init, Issued, LiveKeys
<1>2. NoRequest.pc = "idle"
  BY DEF NoRequest
<1>3. OneLiveTokenPerSession /\ FamiliesInv /\ RowsInv
  BY <1>1, <1>2
     DEF OneLiveTokenPerSession, FamiliesInv, RowsInv, RowsLocal, RefreshPcs,
         SignedPcs
<1>4. SyncInv /\ HistoryInv
  BY <1>1, <1>2
     DEF SyncInv, RowsKeyed, KeysBacked, NoneBlacklisted, KeysLocal, RevokePcs,
         HistoryInv, Recorded, HistoryLocal, RefreshPcs, SignedPcs
<1> QED
  BY <1>3, <1>4 DEF SerialInv

LEMMA SerialUnchanged ==
    ASSUME NEW w, Before(w), UNCHANGED vars
    PROVE  SerialInv'
  BY ExpirySerial DEF vars, user, cache, clock

LEMMA SerialInductive ==
    ASSUME NEW w, Before(w), [Next]_vars
    PROVE  SerialInv'
<1>1. Workers = {w} /\ ~Abort(w)
  BY DEF Before, Alone, Abort
<1> QED
  BY <1>1, StartSerial, ContinueSerial, EnvironmentSerial, SerialUnchanged
     DEF Next

\* Requests are served one at a time: one worker, none of its calls fails, and
\* a client refreshes from the device it signed in from.
OneAtATime == (\E w : Workers = {w}) /\ ~Faults /\ ~Drift

\* At every await of a request that is alone, rows, keys, blacklist and history
\* differ by what the handler has written so far and by nothing else
\* (signin, refresh-token, logout, revoke-session and change-password.provider.ts).
THEOREM SerialInvariant == ASSUME OneAtATime PROVE Spec => []SerialInv
<1>1. PICK w : Alone(w)
  BY DEF OneAtATime, Alone
<1>2. IndInv /\ KeysInv /\ SerialInv /\ [Next]_vars => SerialInv'
  BY <1>1, SerialInductive DEF Before
<1> QED
  BY <1>2, SerialInitial, Invariant, KeysInvariant, PTL DEF Spec

\* Between requests SerialInv leaves no difference: the stores are in sync.
LEMMA Between ==
    ASSUME OneAtATime, IndInv, KeysInv, SerialInv, Quiet
    PROVE  Settled
<1>1. PICK w : Alone(w)
  BY DEF OneAtATime, Alone
<1>2. Before(w) /\ req[w].pc = "idle"
  BY <1>1 DEF Before, Alone, Quiet, At
<1> QED
  BY <1>2, Idle

\* A session never has two live refresh tokens: the refresh revokes the row it was
\* sent before it inserts the next (refresh-token.provider.ts:28).
THEOREM OneLive == ASSUME OneAtATime PROVE Spec => []OneLiveTokenPerSession
<1>1. SerialInv => OneLiveTokenPerSession
  BY DEF SerialInv
<1> QED
  BY <1>1, SerialInvariant, PTL

\* When no request is in flight, no client holds a live token signed under an
\* earlier password: change-password and reset-password revoke every row of the user.
THEOREM PasswordChange == ASSUME OneAtATime PROVE Spec => []PasswordChangeRevokes
<1>1. IndInv /\ KeysInv /\ SerialInv => PasswordChangeRevokes
  BY Between DEF PasswordChangeRevokes, Settled, LiveAreCurrent, Current
<1> QED
  BY <1>1, Invariant, KeysInvariant, SerialInvariant, PTL

\* When no request is in flight, a token can be refreshed exactly if Redis has the
\* key of its session, with this pair in it (create-refresh-token.provider.ts writes
\* row and key, revoke-refresh-token.provider.ts and the logout end both).
THEOREM SessionsInSync == ASSUME OneAtATime PROVE Spec => []SessionsMatchRows
<1>1. IndInv /\ KeysInv /\ SerialInv => SessionsMatchRows
  BY Between
     DEF SessionsMatchRows, Settled, AllKeyed, AllBacked, Usable, Current
<1> QED
  BY <1>1, Invariant, KeysInvariant, SerialInvariant, PTL

\* When no request is in flight, no pair is live and blacklisted: who blacklists a
\* pair also revokes its row (logout.provider.ts, revoke-session.provider.ts).
THEOREM Blacklist == ASSUME OneAtATime PROVE Spec => []CurrentNotBlacklisted
<1>1. IndInv /\ KeysInv /\ SerialInv => CurrentNotBlacklisted
  BY Between DEF CurrentNotBlacklisted, Settled, AllClean, Usable, Current
<1> QED
  BY <1>1, Invariant, KeysInvariant, SerialInvariant, PTL

\* When no request is in flight, the login history of a session that can be
\* refreshed is open, unless an expired token of it was replayed: who closes it
\* (create-auth-history.provider.ts) has ended the rows (signin, logout.provider.ts).
THEOREM History == ASSUME OneAtATime PROVE Spec => []ClosedHistoryHasNoToken
<1>1. IndInv /\ KeysInv /\ SerialInv => ClosedHistoryHasNoToken
  BY Between
     DEF ClosedHistoryHasNoToken, Settled, Recorded, HistoryOpen, Usable,
         Current
<1> QED
  BY <1>1, Invariant, KeysInvariant, SerialInvariant, PTL

-----------------------------------------------------------------------------
(* What a step may not do.                                                 *)

\* Only the cleanup answers a logout that has closed the history.
LEMMA LogoutAnswers ==
    ASSUME NEW w, Before(w), [Next]_vars, req[w].pc = "lo_clean",
           req'[w].pc = "idle"
    PROVE  LogoutClean(w)
<1>1. Workers = {w} /\ ~Abort(w)
  BY DEF Before, Alone, Abort
<1>2. ~Start(w)
  BY DEF Start, SigninStart, GoogleSigninStart, RefreshStart, LogoutStart,
         LogoutAllStart, RevokeSessionStart, ChangePassword, ResetPassword,
         PasswordStored, At
<1>3. ~Environment /\ ~UNCHANGED vars
  BY DEF Environment, ToggleUserStatus, PurgeExpiredTokens, RefreshExpired,
         AccessExpires, RefreshExpires, KeyExpires, vars
<1>4. ~Signin(w)
  BY DEF Signin, SigninScan, SigninDrop, SigninRevoke, SigninClose, SigninIssue,
         SigninClean, Cleanup, SigninStore, SigninRecord, At
<1>5. ~Refresh(w)
  BY DEF Refresh, RefreshVerify, RefreshRefuse, RefreshTheft, RefreshRevoke,
         RefreshIssue, RefreshClean, Cleanup, RefreshReadOld, RefreshBlacklist,
         RefreshStore, RefreshFindHistory, RefreshSaveHistory, TheftRevoke,
         TheftScan, TheftDrop, At
<1>6. ~RevokeSession(w) /\ ~Password(w)
  BY DEF RevokeSession, RevokeSessionRead, RevokeSessionBlacklist,
         RevokeSessionVerify, RevokeSessionRevoke, RevokeSessionDelete,
         Password, PasswordRevoke, PasswordScan, PasswordRead, PasswordDrop,
         PasswordDone, At
<1>7. Logout(w) => LogoutClean(w)
  BY DEF Logout, LogoutRead, LogoutDrop, LogoutVerify, LogoutRevoke,
         LogoutClose, LogoutAllRead, LogoutAllDrop, LogoutAllRevoke,
         LogoutAllClose, LogoutAllClean, Cleanup, At
<1> QED
  BY <1>1, <1>2, <1>3, <1>4, <1>5, <1>6, <1>7 DEF Next, Continue

LEMMA LogoutEnds ==
    ASSUME NEW w, Before(w), LogoutClean(w)
    PROVE  LET s == claims[req[w].arg].sess IN
           /\ history'[s] # "open"
           /\ \A p \in Issued : claims[p].sess = s => row'[p] # "live"
           /\ \A k \in Keys : k[2] = s => redis'[k] = None
<1> DEFINE a == req[w].arg
<1>0. Typed(w) /\ Invariants(w)
  BY Known
<1>1. /\ req[w].pc = "lo_clean" /\ a \in Issued
      /\ redis[KeyOf(a)] = None /\ history[claims[a].sess] # "open"
  BY <1>0
     DEF LogoutClean, Cleanup, At, Typed, LocalInv, Issued, Invariants,
         KeysLocal, HistoryLocal, LogoutPcs
<1>2. /\ UNCHANGED <<redis, history>>
      /\ \A p \in Pairs :
           row'[p] = "live" <=> row[p] = "live" /\ p \notin rtExpired
  BY DEF LogoutClean, Cleanup, CleanupRows, cache
<1>3. \A p \in Issued : claims[p].sess = claims[a].sess => row'[p] # "live"
  <2>1. \A p \in Issued :
          claims[p].sess = claims[a].sess => redis[KeyOf(p)] = None
    BY <1>1, SessionKeyOf
  <2>2. \A p \in Issued : p # None
    BY DEF Issued, None
  <2> QED
    BY <1>0, <1>1, <1>2, <2>1, <2>2
       DEF Invariants, RowsKeyed, Keyless, Usable, Typed
<1>4. \A k \in Keys : k[2] = claims[a].sess => redis[k] = None
  <2> SUFFICES ASSUME NEW k \in Keys, k[2] = claims[a].sess, redis[k] # None
               PROVE  FALSE
    OBVIOUS
  <2>1. redis[k] \in Issued /\ k = KeyOf(redis[k])
    BY <1>0 DEF Typed
  <2>2. claims[redis[k]].sess = claims[a].sess
    BY <2>1 DEF KeyOf
  <2> QED
    BY <1>1, <2>1, <2>2, SessionKeyOf
<1> QED
  BY <1>1, <1>2, <1>3, <1>4

\* The answer of a logout leaves no live row, no key and no open history of its
\* session (logout.provider.ts).
THEOREM LogoutEnding == ASSUME OneAtATime PROVE Spec => LogoutEndsSession
<1> DEFINE Ended == \A w \in Workers : At(w, "lo_clean") /\ At(w, "idle")' =>
             LET s == claims[req[w].arg].sess IN
             /\ history'[s] # "open"
             /\ \A p \in Issued : claims[p].sess = s => row'[p] # "live"
             /\ \A k \in Keys : k[2] = s => redis'[k] = None
<1>1. PICK w : Alone(w)
  BY DEF OneAtATime, Alone
<1>2. IndInv /\ KeysInv /\ SerialInv /\ [Next]_vars => [Ended]_vars
  <2> SUFFICES ASSUME IndInv, KeysInv, SerialInv, [Next]_vars,
                      req[w].pc = "lo_clean", req'[w].pc = "idle"
               PROVE  LET s == claims[req[w].arg].sess IN
                      /\ history'[s] # "open"
                      /\ \A p \in Issued : claims[p].sess = s => row'[p] # "live"
                      /\ \A k \in Keys : k[2] = s => redis'[k] = None
    BY <1>1 DEF Alone, At
  <2>1. Before(w)
    BY <1>1 DEF Before
  <2> QED
    BY <2>1, LogoutAnswers, LogoutEnds
<1> QED
  BY <1>2, Invariant, KeysInvariant, SerialInvariant, PTL
     DEF Spec, LogoutEndsSession

-----------------------------------------------------------------------------
(* Served one at a time, the sessions implement the registry.              *)

\* What CurrentToken chooses from: at most one pair.
TokensOf(s) ==
    {p \in Issued : row[p] = "live" /\ claims[p].sess = s} \cup
    {p \in {req[w].arg : w \in {v \in Workers : At(v, "rf_issue")}} :
       claims[p].sess = s}

CurrentTokens == [s \in Pairs |-> CurrentToken(s)]

LEMMA OneToken == \A w, s : Before(w) =>
    /\ TokensOf(s) = {} => CurrentToken(s) = None
    /\ \A p \in TokensOf(s) : CurrentToken(s) = p /\ p \in Issued
<1> SUFFICES ASSUME NEW w, Before(w), NEW s
             PROVE  /\ TokensOf(s) = {} => CurrentToken(s) = None
                    /\ \A p \in TokensOf(s) : CurrentToken(s) = p /\ p \in Issued
  OBVIOUS
<1>0. Typed(w) /\ Invariants(w)
  BY Known
<1>1. TokensOf(s) = {} => CurrentToken(s) = None
  BY DEF TokensOf, CurrentToken
<1>2. \A p \in TokensOf(s) : CurrentToken(s) \in TokensOf(s)
  BY DEF TokensOf, CurrentToken
<1>3. \A p \in TokensOf(s) :
        /\ p \in Issued /\ claims[p].sess = s
        /\ row[p] = "live" \/ (req[w].pc = "rf_issue" /\ p = req[w].arg)
  BY <1>0 DEF TokensOf, Typed, LocalInv, At, Issued, RefreshPcs
<1>4. req[w].pc = "rf_issue" => NoneLive(SessionPairs(claims[req[w].arg].sess))
  BY <1>0 DEF Invariants, RowsLocal
<1>5. \A p, q \in TokensOf(s) : p = q
  BY <1>0, <1>3, <1>4
     DEF Invariants, OneLiveTokenPerSession, NoneLive, SessionPairs
<1> QED
  BY <1>1, <1>2, <1>3, <1>5

LEMMA OneTokenNext == \A w, s : Before(w)' =>
    /\ TokensOf(s)' = {} => CurrentToken(s)' = None
    /\ \A p \in TokensOf(s)' : CurrentToken(s)' = p
<1>1. (\A w, s : Before(w) =>
        /\ TokensOf(s) = {} => CurrentToken(s) = None
        /\ \A p \in TokensOf(s) : CurrentToken(s) = p /\ p \in Issued)'
  BY OneToken, PTL
<1> QED
  BY <1>1

\* The pair a step leaves a session was the session's before: End.
LEMMA RegistryEnds ==
    ASSUME NEW w, Before(w), Before(w)', UNCHANGED issued,
           \A s \in Pairs : TokensOf(s)' \subseteq TokensOf(s)
    PROVE  Registry!Next
<1> DEFINE S == {s \in Pairs : TokensOf(s)' = {}}
<1>1. \A s : /\ TokensOf(s)' = {} => CurrentToken(s)' = None
             /\ \A p \in TokensOf(s)' : CurrentToken(s)' = p
  BY OneTokenNext
<1>2. \A s \in Pairs : CurrentToken(s)' = IF s \in S THEN 0 ELSE CurrentToken(s)
  BY <1>1, OneToken DEF None
<1>3. CurrentTokens' = [s \in Pairs |-> IF s \in S THEN 0 ELSE CurrentTokens[s]]
  BY <1>2 DEF CurrentTokens
<1>4. S \in SUBSET Pairs /\ Issued' = Issued
  BY DEF Issued
<1> HIDE DEF S
<1>5. \E T \in SUBSET Pairs : Registry!End(T)
  BY <1>3, <1>4 DEF Registry!End, CurrentTokens
<1> QED
  BY <1>5 DEF Registry!Next


\* Only a rotation that revokes the row it found comes to sign a pair.
LEMMA Consumes ==
    ASSUME NEW w, Before(w), [Next]_vars, ~SigninIssue(w), ~RefreshIssue(w),
           req'[w].pc = "rf_issue"
    PROVE  RefreshRevoke(w) \/ UNCHANGED req
<1>0. Typed(w) /\ ~Abort(w)
  BY Known DEF Abort, Typed
<1> USE DEF Goto, Finish, NoRequest
<1>1. ~Start(w)
  BY <1>0
     DEF Start, SigninStart, GoogleSigninStart, RefreshStart, LogoutStart,
         LogoutAllStart, RevokeSessionStart, ChangePassword, ResetPassword,
         PasswordStored, Typed
<1>2. Environment \/ UNCHANGED vars => UNCHANGED req
  BY DEF Environment, ToggleUserStatus, PurgeExpiredTokens, RefreshExpired,
         AccessExpires, RefreshExpires, KeyExpires, vars
<1>3. ~Signin(w)
  BY <1>0
     DEF Signin, SigninScan, SigninDrop, SigninRevoke, SigninClose, SigninClean,
         Cleanup, SigninStore, SigninRecord, At, Typed, Requests
<1>4. Refresh(w) => RefreshRevoke(w)
  BY <1>0
     DEF Refresh, RefreshVerify, RefreshRefuse, RefreshTheft, RefreshClean,
         Cleanup, RefreshReadOld, RefreshBlacklist, RefreshStore,
         RefreshFindHistory, RefreshSaveHistory, TheftRevoke, TheftScan,
         TheftDrop, At, Typed, Requests
<1>5. ~RevokeSession(w)
  BY <1>0
     DEF RevokeSession, RevokeSessionRead, RevokeSessionBlacklist,
         RevokeSessionVerify, RevokeSessionRevoke, RevokeSessionDelete, At,
         Typed, Requests
<1>6. ~Password(w)
  <2>1. ~PasswordRead(w) /\ ~PasswordDrop(w)
    <3>1. PasswordRead(w) \/ PasswordDrop(w) => req'[w].pc = req[w].pc
      BY <1>0 DEF PasswordRead, PasswordDrop, Typed, Requests
    <3> QED
      BY <3>1 DEF PasswordRead, PasswordDrop, At
  <2> QED
    BY <1>0, <2>1
       DEF Password, PasswordRevoke, PasswordScan, PasswordDone, Typed, Requests
<1>7. ~Logout(w)
  <2>1. ~LogoutAllRead(w) /\ ~LogoutAllDrop(w)
    <3>1. LogoutAllRead(w) \/ LogoutAllDrop(w) => req'[w].pc = req[w].pc
      BY <1>0 DEF LogoutAllRead, LogoutAllDrop, Typed, Requests
    <3> QED
      BY <3>1 DEF LogoutAllRead, LogoutAllDrop, At
  <2>2. ~LogoutVerify(w) /\ ~LogoutRevoke(w)
    BY <1>0 DEF LogoutVerify, LogoutRevoke, Typed, Requests
  <2> QED
    BY <1>0, <2>1, <2>2
       DEF Logout, LogoutRead, LogoutDrop, LogoutClose, LogoutClean,
           LogoutAllRevoke, LogoutAllClose, LogoutAllClean, Cleanup, Typed,
           Requests
<1> QED
  BY <1>0, <1>1, <1>2, <1>3, <1>4, <1>5, <1>6, <1>7 DEF Next, Continue, Typed

LEMMA KillsRegistry ==
    ASSUME NEW w, Before(w), Before(w)', [Next]_vars,
           ~SigninIssue(w), ~RefreshIssue(w)
    PROVE  Registry!Next
<1>0. Typed(w) /\ Invariants(w)
  BY Known
<1>1. Kills /\ issued' = issued /\ claims' = claims
  BY <1>0, KillsOrIssues DEF Typed, tokens, Before
<1>2. req'[w].pc = "rf_issue" =>
        /\ req'[w].arg = req[w].arg /\ req[w].arg \in Issued
        /\ req[w].pc = "rf_issue" \/ row[req[w].arg] = "live"
  <2>1. UNCHANGED req /\ req[w].pc = "rf_issue" => req[w].arg \in Issued
    BY <1>0 DEF Typed, LocalInv, RefreshPcs, Issued
  <2>2. RefreshRevoke(w) /\ req'[w].pc = "rf_issue" =>
          /\ req'[w].arg = req[w].arg /\ req[w].arg \in Issued
          /\ row[req[w].arg] = "live"
    BY <1>0
       DEF RefreshRevoke, UpdateRow, Goto, Finish, NoRequest, At, Typed,
           LocalInv, RefreshPcs, Issued, Invariants, RowsLocal, RowStates,
           Requests
  <2> QED
    BY <2>1, <2>2, Consumes
<1>3. \A s : TokensOf(s)' \subseteq TokensOf(s)
  BY <1>0, <1>1, <1>2 DEF TokensOf, Typed, At, Kills, Issued
<1> QED
  BY <1>1, <1>3, RegistryEnds

\* A pair that is signed becomes the token of its session.
LEMMA IssueTokens ==
    ASSUME NEW w, Before(w), Before(w)', NEW c, NEW f, NEW l, Issue(w, c, f, l),
           SignsAlone(w, c, f, l), NEW q, q = issued + 1
    PROVE  /\ Issued' = Issued \cup {q} /\ q \in Pairs /\ q \notin Issued
           /\ CurrentTokens' = [CurrentTokens EXCEPT ![c.sess] = q]
<1>0. Typed(w) /\ Invariants(w)
  BY Known
<1>1. /\ Issued' = Issued \cup {q} /\ q \in Pairs /\ q \notin Issued
      /\ Issued \subseteq Pairs
  BY <1>0, ConstantsAssumption DEF Typed, Issue, Issued, Pairs
<1>2. /\ claims \in [Pairs -> Claims] /\ row \in [Pairs -> RowStates]
  BY DEF Before, IndInv, TypeOK, StoresOK
<1>3. /\ claims'[q] = c /\ row'[q] = "live"
      /\ \A p \in Issued : /\ claims'[p] = claims[p] /\ row'[p] = row[p]
                           /\ p # q
  BY <1>1, <1>2 DEF Issue
<1>4. req'[w].pc # "rf_issue"
  BY <1>0 DEF Issue, Typed, SignsAlone
<1>5. TokensOf(c.sess)' = {q}
  <2>1. \A p \in Issued : claims[p].sess = c.sess => row[p] # "live"
    BY DEF SignsAlone, NoneLive, SessionPairs
  <2> QED
    BY <1>0, <1>1, <1>3, <1>4, <2>1 DEF TokensOf, Typed, At
<1>6. \A s : s # c.sess => TokensOf(s)' = TokensOf(s)
  <2>1. req[w].pc = "rf_issue" => c.sess = claims[req[w].arg].sess
    BY DEF SignsAlone
  <2> QED
    BY <1>0, <1>1, <1>3, <1>4, <2>1 DEF TokensOf, Typed, At
<1>7. \A s \in Pairs :
        CurrentToken(s)' = IF s = c.sess THEN q ELSE CurrentToken(s)
  BY <1>5, <1>6, OneToken, OneTokenNext
<1> QED
  BY <1>1, <1>7 DEF CurrentTokens

LEMMA OpenRegistry ==
    ASSUME NEW w, Before(w), Before(w)', SigninIssue(w)
    PROVE  Registry!Next
<1> DEFINE c == [fam |-> req[w].fp, sess |-> issued + 1, parent |-> None,
                 password |-> req[w].pw]
<1>. PICK q : q = issued + 1
  OBVIOUS
<1>1. /\ Issue(w, c, req[w].fp, "si_clean")
      /\ SignsAlone(w, c, req[w].fp, "si_clean")
  BY SigninSignsAlone DEF SigninIssue
<1>2. /\ Issued' = Issued \cup {q} /\ q \in Pairs /\ q \notin Issued
      /\ CurrentTokens' = [CurrentTokens EXCEPT ![q] = q]
  BY <1>1, IssueTokens
<1>3. Registry!Open(q)
  BY <1>2 DEF Registry!Open, CurrentTokens
<1> QED
  BY <1>2, <1>3 DEF Registry!Next

LEMMA RenewRegistry ==
    ASSUME NEW w, Before(w), Before(w)', RefreshIssue(w)
    PROVE  Registry!Next
<1> DEFINE c == [claims[req[w].arg] EXCEPT !.fam = rowFam[req[w].arg],
                                           !.parent = req[w].arg]
<1>. PICK q, s : q = issued + 1 /\ s = c.sess
  OBVIOUS
<1>1. /\ Issue(w, c, req[w].fp, "rf_clean")
      /\ SignsAlone(w, c, req[w].fp, "rf_clean")
  BY RefreshSignsAlone DEF RefreshIssue
<1> HIDE DEF c
<1>2. /\ Issued' = Issued \cup {q} /\ q \in Pairs /\ q \notin Issued
      /\ CurrentTokens' = [CurrentTokens EXCEPT ![s] = q]
  BY <1>1, IssueTokens
<1>3. s \in Pairs /\ CurrentTokens[s] # 0
  <2>1. Typed(w)
    BY Known
  <2>2. /\ req[w].pc = "rf_issue" /\ s = claims[req[w].arg].sess /\ s \in Issued
        /\ req[w].arg \in Issued
    BY <1>1, <2>1 DEF SignsAlone, Typed, LocalInv, RefreshPcs, Issued
  <2>3. req[w].arg \in TokensOf(s)
    BY <2>1, <2>2 DEF TokensOf, At, Typed
  <2>4. CurrentToken(s) = req[w].arg /\ req[w].arg # 0
    BY <2>3, OneToken DEF Issued
  <2> QED
    BY <2>1, <2>2, <2>4 DEF CurrentTokens, Typed
<1>4. Registry!Renew(s, q)
  BY <1>2, <1>3 DEF Registry!Renew, CurrentTokens
<1> QED
  BY <1>2, <1>3, <1>4 DEF Registry!Next

LEMMA RegistryInitial == Init => Registry!Init
<1> SUFFICES ASSUME Init PROVE Registry!Init
  OBVIOUS
<1>1. \A s : TokensOf(s) = {}
  BY DEF Init, TokensOf, Issued, At, NoRequest
<1>2. \A s : CurrentToken(s) = 0
  BY <1>1 DEF TokensOf, CurrentToken, None
<1> QED
  BY <1>2 DEF Init, Issued, Registry!Init

\* A user's sessions are what SessionRegistry promises: a session is opened once, its
\* token is replaced only by its own refresh, and once ended it stays ended; every
\* await of every handler is one of these steps or a stutter.
THEOREM RegistryRefinement ==
    ASSUME OneAtATime PROVE Spec => ImplementsSessionRegistry
<1>1. PICK w : Alone(w)
  BY DEF OneAtATime, Alone
<1> DEFINE Inv == IndInv /\ KeysInv /\ SerialInv
<1>2. Inv /\ Inv' /\ [Next]_vars => [Registry!Next]_(Registry!registry)
  <2> SUFFICES ASSUME Inv, Inv', [Next]_vars PROVE Registry!Next
    OBVIOUS
  <2>1. Before(w) /\ Before(w)'
    BY <1>1 DEF Before
  <2> QED
    BY <2>1, KillsRegistry, OpenRegistry, RenewRegistry
<1>3. Spec => []Inv
  BY Invariant, KeysInvariant, SerialInvariant, PTL
<1> QED
  BY <1>2, <1>3, RegistryInitial, PTL
     DEF Spec, ImplementsSessionRegistry, Registry!Spec

=============================================================================
