------------------------ MODULE AuthSessions_proofs -------------------------
(***************************************************************************)
(* For every number of requests in flight, of devices, of token pairs and  *)
(* of password changes, with or without faults and changing fingerprints:  *)
(* AuthSessions keeps its types, a rotation leaves the consumed token      *)
(* dead, no handler revives a row, the refresh tokens implement            *)
(* TokenLifecycle, and a session key holds a pair of its own session.      *)
(*                                                                         *)
(* The inductive invariant is IndInv.  A step changes the locals of one    *)
(* request and some of the stores; what the other requests rely on is      *)
(* stable because pairs are only added and rows are only killed.           *)
(***************************************************************************)
EXTENDS AuthSessions, TLAPS

-----------------------------------------------------------------------------
(* What a step does to the facts the requests rely on.                     *)

\* Rows are killed, deleted or left alone; none is written for a new pair.
Kills == /\ row' \in [Pairs -> RowStates]
         /\ \A p \in Pairs : /\ row'[p] = "live" => row[p] = "live"
                             /\ row[p] = "none" => row'[p] = "none"

Progress == /\ issued \in Nat /\ issued' \in Nat /\ issued <= issued'
            /\ \A p \in Issued : row'[p] = "live" => row[p] = "live"

LEMMA LocalStable ==
    ASSUME Progress, NEW r, LocalInv(r, issued, row)
    PROVE  LocalInv(r, issued', row')
  BY DEF Progress, LocalInv, Issued, RefreshPcs

\* One request moves to r; the others keep what they rely on.
LEMMA RequestStep ==
    ASSUME req \in [Workers -> Requests], RequestsInv, Progress,
           NEW w \in Workers, NEW r \in Requests, LocalInv(r, issued', row'),
           req' = [req EXCEPT ![w] = r]
    PROVE  req' \in [Workers -> Requests] /\ RequestsInv'
<1>1. req' \in [Workers -> Requests]
  OBVIOUS
<1>2. ASSUME NEW v \in Workers, v # w
      PROVE  LocalInv(req'[v], issued', row')
  <2>1. LocalInv(req[v], issued, row)
    BY DEF RequestsInv
  <2>2. req'[v] = req[v]
    BY <1>2
  <2> QED
    BY <2>1, <2>2, LocalStable
<1>3. LocalInv(req'[w], issued', row')
  OBVIOUS
<1> QED
  BY <1>1, <1>2, <1>3 DEF RequestsInv

\* Killing rows disturbs neither the pairs nor what rotations rely on.
LEMMA KillStep ==
    ASSUME IndInv, Kills, UNCHANGED <<tokens, rowFam>>, delivered' \subseteq Issued
    PROVE  Progress /\ PairsInv' /\ RotationConsumes'
<1>1. issued \in Nat /\ issued' = issued /\ claims' = claims /\ rowFam' = rowFam
  BY ConstantsAssumption DEF IndInv, TypeOK, StoresOK, tokens
<1>2. Issued' = Issued /\ Issued \subseteq Pairs
  BY <1>1, ConstantsAssumption DEF Issued, Pairs, IndInv, TypeOK, StoresOK
<1>3. Progress
  BY <1>1, <1>2 DEF Progress, Kills
<1>4. PairsInv'
  BY <1>1, <1>2 DEF PairsInv, Kills, IndInv
<1>5. RotationConsumes'
  <2> SUFFICES ASSUME NEW q \in Issued, claims[q].parent # None
               PROVE  row'[claims[q].parent] # "live"
    BY <1>1, <1>2 DEF RotationConsumes
  <2>1. claims[q].parent \in Pairs /\ row[claims[q].parent] # "live"
    BY <1>2 DEF IndInv, PairsInv, RotationConsumes
  <2> QED
    BY <2>1 DEF Kills
<1> QED
  BY <1>3, <1>4, <1>5

\* A step of request w that signs no pair.
LEMMA Step ==
    ASSUME IndInv, NEW w \in Workers, NEW r \in Requests,
           req' = [req EXCEPT ![w] = r], LocalInv(r, issued, row'),
           StoresOK', Kills, UNCHANGED <<tokens, rowFam>>,
           delivered' \subseteq Issued
    PROVE  IndInv'
<1>1. Progress /\ PairsInv' /\ RotationConsumes'
  BY KillStep
<1>2. LocalInv(r, issued', row')
  BY DEF tokens
<1> QED
  BY <1>1, <1>2, RequestStep DEF IndInv, TypeOK

\* A step of request w that leaves the stores alone.
LEMMA LocalStep ==
    ASSUME IndInv, NEW w \in Workers, NEW r \in Requests,
           req' = [req EXCEPT ![w] = r], LocalInv(r, issued, row),
           UNCHANGED <<user, tokens, table, cache, history, delivered, clock>>
    PROVE  IndInv'
<1>1. StoresOK' /\ Kills /\ row' = row
  BY DEF IndInv, TypeOK, StoresOK, Kills, user, tokens, table, cache, clock
<1>2. delivered' \subseteq Issued /\ UNCHANGED <<tokens, rowFam>>
  BY DEF IndInv, PairsInv, table
<1> QED
  BY <1>1, <1>2, Step

\* A step that touches no request: background jobs, the clock, a 401.
LEMMA StoresStep ==
    ASSUME IndInv, UNCHANGED req, StoresOK', Kills, UNCHANGED <<tokens, rowFam>>,
           UNCHANGED delivered
    PROVE  IndInv'
<1>1. Progress /\ PairsInv' /\ RotationConsumes'
  BY KillStep DEF IndInv, PairsInv
<1>2. RequestsInv'
  BY <1>1, LocalStable DEF RequestsInv, IndInv
<1> QED
  BY <1>1, <1>2 DEF IndInv, TypeOK

LEMMA Unchanged == IndInv /\ UNCHANGED vars => IndInv'
<1> SUFFICES ASSUME IndInv, UNCHANGED vars PROVE IndInv'
  OBVIOUS
<1>1. StoresOK' /\ Kills
  BY DEF IndInv, TypeOK, StoresOK, Kills, vars, user, tokens, table, cache, clock
<1> QED
  BY <1>1, StoresStep DEF vars, table

-----------------------------------------------------------------------------
(* The requests.                                                           *)

LEMMA NoRequestOK ==
    /\ NoRequest \in Requests
    /\ \A n, rows : LocalInv(NoRequest, n, rows)
<1>1. NoRequest \in Requests
  BY ConstantsAssumption DEF Requests, NoRequest, Pcs, None, HistoryStates
<1>2. \A n, rows : LocalInv(NoRequest, n, rows)
  BY DEF NoRequest, LocalInv, SigninPcs, RefreshPcs, LogoutPcs, SignedPcs
<1> QED
  BY <1>1, <1>2

\* What IndInv says of request w.
LEMMA Local ==
    ASSUME IndInv, NEW w \in Workers
    PROVE  req[w] \in Requests /\ LocalInv(req[w], issued, row)
  BY DEF IndInv, TypeOK, RequestsInv

\* A handler goes on: the new locals r keep fingerprint and pairs, and the new
\* await relies on nothing the old one did not.
LEMMA Continues ==
    ASSUME IndInv, NEW w \in Workers, NEW r, NEW rows,
           r.fp = req[w].fp, r.arg = req[w].arg, r.new = req[w].new,
           r.pc # "rf_issue",
           r.pc \in SigninPcs \cup RefreshPcs
               => req[w].pc \in SigninPcs \cup RefreshPcs,
           r.pc \in RefreshPcs \cup LogoutPcs
               => req[w].pc \in RefreshPcs \cup LogoutPcs,
           r.pc \in SignedPcs => req[w].pc \in SignedPcs
    PROVE  LocalInv(r, issued, rows)
  BY Local DEF LocalInv

LEMMA IssuedPairs ==
    ASSUME IndInv
    PROVE  /\ Issued \subseteq Pairs /\ issued \in Nat
           /\ \A p \in Issued : claims[p] \in Claims /\ KeyOf(p) \in Keys
           /\ \A k \in Keys : redis[k] \in 0..MaxPairs
           /\ \A p \in Pairs : {p} \ {None} \subseteq Pairs
           /\ MaxPairs \in Nat
<1>1. Issued \subseteq Pairs /\ issued \in Nat /\ MaxPairs \in Nat
  BY ConstantsAssumption DEF Issued, Pairs, IndInv, TypeOK, StoresOK
<1>2. \A p \in Issued : claims[p] \in Claims /\ KeyOf(p) \in Keys
  BY <1>1 DEF IndInv, PairsInv, TypeOK, StoresOK, KeyOf, Keys
<1>3. \A k \in Keys : redis[k] \in 0..MaxPairs
  BY DEF IndInv, TypeOK, StoresOK
<1> QED
  BY <1>1, <1>2, <1>3

\* The operators that kill rows do.
LEMMA Killers ==
    ASSUME IndInv
    PROVE  /\ \A S : RevokeRows(S) => Kills
           /\ CleanupRows => Kills
           /\ \A p \in Pairs : UpdateRow(p) => Kills
           /\ UNCHANGED row => Kills
<1> USE DEF IndInv, TypeOK, StoresOK, Kills, RowStates
<1>1. \A S : RevokeRows(S) => Kills
  BY DEF RevokeRows
<1>2. CleanupRows => Kills
  BY DEF CleanupRows
<1>3. \A p \in Pairs : UpdateRow(p) => Kills
  BY DEF UpdateRow
<1>4. UNCHANGED row => Kills
  OBVIOUS
<1> QED
  BY <1>1, <1>2, <1>3, <1>4

\* Which await may follow which, as far as LocalInv can tell.
Follows(l, m) ==
    /\ m \in Pcs /\ m # "rf_issue"
    /\ m \in SigninPcs \cup RefreshPcs => l \in SigninPcs \cup RefreshPcs
    /\ m \in RefreshPcs \cup LogoutPcs => l \in RefreshPcs \cup LogoutPcs
    /\ m \in SignedPcs => l \in SignedPcs

\* The request goes on to its next await, or is answered.
LEMMA GotoStep ==
    ASSUME IndInv, NEW w \in Workers, NEW m, Follows(req[w].pc, m), Goto(w, m),
           StoresOK', Kills, UNCHANGED <<tokens, rowFam>>,
           delivered' \subseteq Issued
    PROVE  IndInv'
<1> DEFINE r == [req[w] EXCEPT !.pc = m]
<1>1. req[w] \in Requests
  BY Local
<1>2. r \in Requests
  BY <1>1 DEF Follows, Requests
<1>3. r.pc = m /\ r.fp = req[w].fp /\ r.arg = req[w].arg /\ r.new = req[w].new
  BY <1>1 DEF Requests
<1>4. LocalInv(r, issued, row')
  <2> HIDE DEF r
  <2> QED
    BY <1>3, Continues DEF Follows
<1>5. req' = [req EXCEPT ![w] = r]
  BY DEF Goto
<1> HIDE DEF r
<1> QED
  BY <1>2, <1>4, <1>5, Step

LEMMA FinishStep ==
    ASSUME IndInv, NEW w \in Workers, Finish(w),
           StoresOK', Kills, UNCHANGED <<tokens, rowFam>>,
           delivered' \subseteq Issued
    PROVE  IndInv'
  BY NoRequestOK, Step DEF Finish

\* What the store operations do to the types of the stores.
LEMMA StoresTyped ==
    ASSUME IndInv
    PROVE  /\ StoresOK
           /\ \A S : RevokeRows(S) => row' \in [Pairs -> RowStates]
           /\ CleanupRows => row' \in [Pairs -> RowStates]
           /\ \A p : UpdateRow(p) => row' \in [Pairs -> RowStates]
           /\ \A S : CloseHistory(S) => history' \in [Pairs -> HistoryStates]
           /\ \A K : DeleteKeys(K) => redis' \in [Keys -> 0..MaxPairs]
           /\ \A p \in 0..MaxPairs : BlacklistAccess(p) => blAccess' \in SUBSET Pairs
           /\ \A p \in 0..MaxPairs : BlacklistRefresh(p) => blRefresh' \in SUBSET Pairs
<1> USE DEF IndInv, TypeOK, StoresOK
<1>1. MaxPairs \in Nat
  BY ConstantsAssumption
<1>2. \A S : RevokeRows(S) => row' \in [Pairs -> RowStates]
  BY DEF RevokeRows, RowStates
<1>3. CleanupRows => row' \in [Pairs -> RowStates]
  BY DEF CleanupRows, RowStates
<1>4. \A p : UpdateRow(p) => row' \in [Pairs -> RowStates]
  BY DEF UpdateRow, RowStates
<1>5. \A S : CloseHistory(S) => history' \in [Pairs -> HistoryStates]
  BY DEF CloseHistory, HistoryStates
<1>6. \A K : DeleteKeys(K) => redis' \in [Keys -> 0..MaxPairs]
  BY <1>1 DEF DeleteKeys, None
<1>7. \A p \in 0..MaxPairs : {p} \ {None} \subseteq Pairs
  BY <1>1 DEF None, Pairs
<1>8. \A p \in 0..MaxPairs : BlacklistAccess(p) => blAccess' \in SUBSET Pairs
  BY <1>7 DEF BlacklistAccess
<1>9. \A p \in 0..MaxPairs : BlacklistRefresh(p) => blRefresh' \in SUBSET Pairs
  BY <1>7 DEF BlacklistRefresh
<1> QED
  BY <1>2, <1>3, <1>4, <1>5, <1>6, <1>8, <1>9

LEMMA CleanupStep ==
    ASSUME IndInv, NEW w \in Workers, NEW l, NEW m, Cleanup(w, l, m),
           m # "idle" => Follows(l, m)
    PROVE  IndInv'
<1>1. StoresOK' /\ Kills
  BY StoresTyped, Killers
     DEF Cleanup, StoresOK, user, tokens, cache, clock
<1>2. UNCHANGED <<tokens, rowFam>> /\ delivered' \subseteq Issued
  BY DEF Cleanup, IndInv, PairsInv
<1>3. CASE m = "idle"
  BY <1>1, <1>2, <1>3, FinishStep DEF Cleanup
<1>4. CASE m # "idle"
  BY <1>1, <1>2, <1>4, GotoStep DEF Cleanup, At
<1> QED
  BY <1>3, <1>4

LEMMA SigninStep ==
    ASSUME IndInv, NEW w \in Workers, Signin(w), ~SigninIssue(w)
    PROVE  IndInv'
<1> USE DEF Pcs, SigninPcs, RefreshPcs, LogoutPcs, SignedPcs
<1>1. CASE SigninScan(w)
  <2>0. PICK K \in Scans(FamilyKeys(req[w].fp)) :
          req' = [req EXCEPT ![w].pc = "si_drop", ![w].todo = K]
    BY <1>1 DEF SigninScan
  <2> DEFINE r == [req[w] EXCEPT !.pc = "si_drop", !.todo = K]
  <2>1. req[w] \in Requests /\ K \in SUBSET Keys
    BY Local DEF Scans, FamilyKeys, LiveKeys
  <2>2. r \in Requests
    BY <2>1 DEF Requests
  <2>3. LocalInv(r, issued, row)
    BY <1>1, <2>1, Local DEF LocalInv, Requests, SigninScan, At
  <2>4. req' = [req EXCEPT ![w] = r]
    BY <2>0
  <2> HIDE DEF r
  <2> QED
    BY <1>1, <2>2, <2>3, <2>4, LocalStep DEF SigninScan
<1>2. CASE SigninDrop(w)
  <2> DEFINE r == [req[w] EXCEPT !.pc = "si_revoke", !.todo = {}]
  <2>1. req[w] \in Requests
    BY Local
  <2>2. r \in Requests
    BY <2>1 DEF Requests
  <2>3. LocalInv(r, issued, row')
    BY <1>2, <2>1, Local DEF LocalInv, Requests, SigninDrop, At
  <2>4. req' = [req EXCEPT ![w] = r]
    BY <1>2 DEF SigninDrop
  <2>5. StoresOK' /\ Kills /\ UNCHANGED <<tokens, rowFam>>
    BY <1>2, StoresTyped, Killers
       DEF SigninDrop, StoresOK, user, tokens, table, clock
  <2>6. delivered' \subseteq Issued
    BY <1>2 DEF SigninDrop, IndInv, PairsInv
  <2> HIDE DEF r
  <2> QED
    BY <2>2, <2>3, <2>4, <2>5, <2>6, Step
<1>3. CASE SigninRevoke(w)
  <2>1. StoresOK' /\ Kills
    BY <1>3, StoresTyped, Killers
       DEF SigninRevoke, StoresOK, user, tokens, cache, clock
  <2>2. Follows(req[w].pc, "si_close") /\ delivered' \subseteq Issued
    BY <1>3 DEF SigninRevoke, At, Follows, IndInv, PairsInv
  <2> QED
    BY <1>3, <2>1, <2>2, GotoStep DEF SigninRevoke
<1>4. CASE SigninClose(w)
  <2>1. StoresOK' /\ Kills /\ UNCHANGED <<tokens, rowFam>>
    BY <1>4, StoresTyped, Killers
       DEF SigninClose, StoresOK, user, tokens, table, cache, clock
  <2>2. Follows(req[w].pc, "si_issue") /\ delivered' \subseteq Issued
    BY <1>4 DEF SigninClose, At, Follows, IndInv, PairsInv
  <2> QED
    BY <1>4, <2>1, <2>2, GotoStep DEF SigninClose
<1>5. CASE SigninClean(w)
  BY <1>5, CleanupStep DEF SigninClean, Follows
<1>6. CASE SigninStore(w)
  <2>1. req[w].new \in Issued /\ req[w].new \in 0..MaxPairs
    BY <1>6, Local DEF SigninStore, At, LocalInv, Requests, Issued
  <2>2. StoresOK' /\ Kills /\ UNCHANGED <<tokens, rowFam>>
    BY <1>6, <2>1, StoresTyped, Killers, IssuedPairs
       DEF SigninStore, StoresOK, user, tokens, table, clock
  <2>3. Follows(req[w].pc, "si_record") /\ delivered' \subseteq Issued
    BY <1>6 DEF SigninStore, At, Follows, IndInv, PairsInv
  <2> QED
    BY <1>6, <2>2, <2>3, GotoStep DEF SigninStore
<1>7. CASE SigninRecord(w)
  <2>1. req[w].new \in Issued /\ req[w].new \in Pairs
    BY <1>7, Local, IssuedPairs DEF SigninRecord, At, LocalInv, Issued
  <2>2. StoresOK' /\ Kills /\ UNCHANGED <<tokens, rowFam>>
    BY <1>7, <2>1, StoresTyped, Killers
       DEF SigninRecord, StoresOK, HistoryStates, user, tokens, table, cache, clock
  <2>3. delivered' \subseteq Issued
    BY <1>7, <2>1 DEF SigninRecord, IndInv, PairsInv
  <2> QED
    BY <1>7, <2>2, <2>3, FinishStep DEF SigninRecord
<1> QED
  BY <1>1, <1>2, <1>3, <1>4, <1>5, <1>6, <1>7 DEF Signin

\* A row that is revoked or gone is what the second write of a rotation needs.
LEMMA RefreshRevokeStep ==
    ASSUME IndInv, NEW w \in Workers, RefreshRevoke(w)
    PROVE  IndInv'
<1> USE DEF Pcs, SigninPcs, RefreshPcs, LogoutPcs, SignedPcs
<1> DEFINE r == [req[w] EXCEPT !.pc = "rf_issue"]
<1>1. req[w] \in Requests /\ req[w].arg \in Issued /\ req[w].arg \in Pairs
  BY Local, IssuedPairs DEF RefreshRevoke, At, LocalInv, Issued
<1>2. StoresOK' /\ Kills /\ UNCHANGED <<tokens, rowFam>>
  BY <1>1, StoresTyped, Killers
     DEF RefreshRevoke, StoresOK, user, tokens, cache, clock
<1>3. delivered' \subseteq Issued
  BY DEF RefreshRevoke, IndInv, PairsInv
<1>4. CASE Finish(w)
  BY <1>2, <1>3, <1>4, FinishStep
<1>5. CASE UpdateRow(req[w].arg) /\ Goto(w, "rf_issue")
  <2>1. r \in Requests
    BY <1>1 DEF Requests
  <2>2. row'[req[w].arg] = "revoked"
    BY <1>1, <1>5 DEF UpdateRow, IndInv, TypeOK, StoresOK
  <2>3. LocalInv(r, issued, row')
    BY <1>1, <2>2, Local DEF LocalInv, Requests, RefreshRevoke, At
  <2>4. req' = [req EXCEPT ![w] = r]
    BY <1>5 DEF Goto
  <2> HIDE DEF r
  <2> QED
    BY <1>2, <1>3, <2>1, <2>3, <2>4, Step
<1> QED
  BY <1>4, <1>5 DEF RefreshRevoke

LEMMA RefreshStep ==
    ASSUME IndInv, NEW w \in Workers, Refresh(w), ~RefreshIssue(w)
    PROVE  IndInv'
<1> USE DEF Pcs, SigninPcs, RefreshPcs, LogoutPcs, SignedPcs
<1>1. ASSUME UNCHANGED <<user, tokens, table, cache, history, delivered, clock>>
      PROVE  /\ StoresOK' /\ Kills /\ UNCHANGED <<tokens, rowFam>>
             /\ delivered' \subseteq Issued
  BY <1>1, StoresTyped, Killers
     DEF StoresOK, user, tokens, table, cache, clock, IndInv, PairsInv
<1>2. CASE RefreshVerify(w)
  <2>1. Follows(req[w].pc, "rf_revoke")
    BY <1>2 DEF RefreshVerify, At, Follows
  <2> QED
    BY <1>1, <1>2, <2>1, GotoStep DEF RefreshVerify
<1>3. CASE RefreshRefuse(w)
  BY <1>1, <1>3, FinishStep DEF RefreshRefuse
<1>4. CASE RefreshTheft(w)
  <2>1. Follows(req[w].pc, "th_revoke")
    BY <1>4 DEF RefreshTheft, At, Follows
  <2> QED
    BY <1>1, <1>4, <2>1, GotoStep DEF RefreshTheft
<1>5. CASE TheftRevoke(w)
  <2>1. StoresOK' /\ Kills
    BY <1>5, StoresTyped, Killers
       DEF TheftRevoke, StoresOK, user, tokens, cache, clock
  <2>2. Follows(req[w].pc, "th_scan") /\ delivered' \subseteq Issued
    BY <1>5 DEF TheftRevoke, At, Follows, IndInv, PairsInv
  <2> QED
    BY <1>5, <2>1, <2>2, GotoStep DEF TheftRevoke
<1>6. CASE TheftScan(w)
  <2>0. PICK K \in Scans(FamilyKeys(claims[req[w].arg].fam)) :
          req' = [req EXCEPT ![w].pc = "th_drop", ![w].todo = K]
    BY <1>6 DEF TheftScan
  <2> DEFINE r == [req[w] EXCEPT !.pc = "th_drop", !.todo = K]
  <2>1. req[w] \in Requests /\ K \in SUBSET Keys
    BY Local DEF Scans, FamilyKeys, LiveKeys
  <2>2. r \in Requests
    BY <2>1 DEF Requests
  <2>3. LocalInv(r, issued, row)
    BY <1>6, <2>1, Local DEF LocalInv, Requests, TheftScan, At
  <2>4. req' = [req EXCEPT ![w] = r]
    BY <2>0
  <2> HIDE DEF r
  <2> QED
    BY <1>6, <2>2, <2>3, <2>4, LocalStep DEF TheftScan
<1>7. CASE TheftDrop(w)
  <2>1. StoresOK' /\ Kills /\ UNCHANGED <<tokens, rowFam>>
    BY <1>7, StoresTyped, Killers
       DEF TheftDrop, StoresOK, user, tokens, table, clock
  <2>2. delivered' \subseteq Issued
    BY <1>7 DEF TheftDrop, IndInv, PairsInv
  <2> QED
    BY <1>7, <2>1, <2>2, FinishStep DEF TheftDrop
<1>8. CASE RefreshRevoke(w)
  BY <1>8, RefreshRevokeStep
<1>9. CASE RefreshClean(w)
  BY <1>9, CleanupStep DEF RefreshClean, Follows
<1>10. CASE RefreshReadOld(w)
  <2> DEFINE r == [req[w] EXCEPT !.pc = "rf_black", !.old = redis[KeyOf(req[w].new)]]
  <2>1. req[w] \in Requests /\ req[w].new \in Issued
    BY <1>10, Local DEF RefreshReadOld, At, LocalInv, Issued
  <2>2. redis[KeyOf(req[w].new)] \in 0..MaxPairs
    BY <2>1, IssuedPairs
  <2>3. r \in Requests
    BY <2>1, <2>2 DEF Requests
  <2>4. LocalInv(r, issued, row)
    BY <1>10, <2>1, Local DEF LocalInv, Requests, RefreshReadOld, At
  <2>5. req' = [req EXCEPT ![w] = r]
    BY <1>10 DEF RefreshReadOld
  <2> HIDE DEF r
  <2> QED
    BY <1>10, <2>3, <2>4, <2>5, LocalStep DEF RefreshReadOld
<1>11. CASE RefreshBlacklist(w)
  <2> DEFINE r == [req[w] EXCEPT !.pc = "rf_store", !.old = None]
  <2>1. req[w] \in Requests /\ req[w].old \in 0..MaxPairs
    BY Local DEF Requests
  <2>2. r \in Requests
    <3>1. None \in 0..MaxPairs /\ "rf_store" \in Pcs
      BY ConstantsAssumption DEF None
    <3> QED
      BY <2>1, <3>1 DEF Requests
  <2>3. LocalInv(r, issued, row')
    <3>1. /\ r.pc = "rf_store" /\ r.fp = req[w].fp /\ r.arg = req[w].arg
          /\ r.new = req[w].new
      BY <2>1 DEF Requests
    <3>2. req[w].pc = "rf_black"
      BY <1>11 DEF RefreshBlacklist, At
    <3> HIDE DEF r
    <3> QED
      BY <3>1, <3>2, Continues
  <2>4. req' = [req EXCEPT ![w] = r]
    BY <1>11 DEF RefreshBlacklist
  <2>5. StoresOK' /\ Kills /\ UNCHANGED <<tokens, rowFam>>
    BY <1>11, <2>1, StoresTyped, Killers
       DEF RefreshBlacklist, StoresOK, user, tokens, table, clock
  <2>6. delivered' \subseteq Issued
    BY <1>11 DEF RefreshBlacklist, IndInv, PairsInv
  <2> HIDE DEF r
  <2> QED
    BY <2>2, <2>3, <2>4, <2>5, <2>6, Step
<1>12. CASE RefreshStore(w)
  <2>1. req[w].new \in Issued /\ req[w].new \in 0..MaxPairs
    BY <1>12, Local DEF RefreshStore, At, LocalInv, Requests, Issued
  <2>2. StoresOK' /\ Kills /\ UNCHANGED <<tokens, rowFam>>
    BY <1>12, <2>1, StoresTyped, Killers, IssuedPairs
       DEF RefreshStore, StoresOK, user, tokens, table, clock
  <2>3. Follows(req[w].pc, "rf_find") /\ delivered' \subseteq Issued
    BY <1>12 DEF RefreshStore, At, Follows, IndInv, PairsInv
  <2> QED
    BY <1>12, <2>2, <2>3, GotoStep DEF RefreshStore
<1>13. CASE RefreshFindHistory(w)
  <2> DEFINE s == claims[req[w].new].sess
             r == [req[w] EXCEPT !.pc = "rf_save", !.seen = history[s]]
  <2>1. req[w] \in Requests /\ req[w].new \in Issued
    BY <1>13, Local DEF RefreshFindHistory, At, LocalInv, Issued
  <2>2. s \in Pairs /\ history[s] \in HistoryStates
    BY <2>1, IssuedPairs DEF IndInv, PairsInv, TypeOK, StoresOK
  <2>3. r \in Requests
    BY <2>1, <2>2 DEF Requests
  <2>4. LocalInv(r, issued, row)
    BY <1>13, <2>1, Local DEF LocalInv, Requests, RefreshFindHistory, At
  <2>5. CASE req' = [req EXCEPT ![w] = r]
    <3> HIDE DEF r
    <3> QED
      BY <1>13, <2>3, <2>4, <2>5, LocalStep DEF RefreshFindHistory
  <2>6. CASE Finish(w)
    BY <1>1, <1>13, <2>6, FinishStep DEF RefreshFindHistory
  <2> QED
    BY <1>13, <2>5, <2>6 DEF RefreshFindHistory
<1>14. CASE RefreshSaveHistory(w)
  <2>1. /\ req[w] \in Requests /\ req[w].new \in Issued /\ req[w].new \in Pairs
        /\ req[w].seen \in HistoryStates
    BY <1>14, Local, IssuedPairs
       DEF RefreshSaveHistory, At, LocalInv, Issued, Requests
  <2>2. StoresOK' /\ Kills /\ UNCHANGED <<tokens, rowFam>>
    BY <1>14, <2>1, StoresTyped, Killers
       DEF RefreshSaveHistory, StoresOK, user, tokens, table, cache, clock
  <2>3. delivered' \subseteq Issued
    BY <1>14, <2>1 DEF RefreshSaveHistory, IndInv, PairsInv
  <2> QED
    BY <1>14, <2>2, <2>3, FinishStep DEF RefreshSaveHistory
<1> QED
  BY <1>2, <1>3, <1>4, <1>5, <1>6, <1>7, <1>8, <1>9, <1>10, <1>11, <1>12, <1>13,
     <1>14 DEF Refresh

\* A step of a logout, of a session revocation or of a password request goes on
\* to another of their awaits; they rely on the presented pair only.
LEMMA OtherStep ==
    ASSUME IndInv, NEW w \in Workers, NEW r, r \in Requests,
           req' = [req EXCEPT ![w] = r], r.arg = req[w].arg,
           r.pc \in LogoutPcs \cup RevokePcs \cup PasswordPcs,
           r.pc \in LogoutPcs => req[w].pc \in LogoutPcs,
           StoresOK', Kills, UNCHANGED <<tokens, rowFam, delivered>>
    PROVE  IndInv'
<1>1. r.pc \notin SigninPcs \cup RefreshPcs \cup SignedPcs /\ r.pc # "rf_issue"
  BY DEF SigninPcs, RefreshPcs, SignedPcs, LogoutPcs, RevokePcs, PasswordPcs
<1>2. LocalInv(r, issued, row')
  BY <1>1, Local DEF LocalInv
<1>3. delivered' \subseteq Issued
  BY DEF IndInv, PairsInv
<1> QED
  BY <1>2, <1>3, Step

LEMMA OtherLocalStep ==
    ASSUME IndInv, NEW w \in Workers, NEW r, r \in Requests,
           req' = [req EXCEPT ![w] = r], r.arg = req[w].arg,
           r.pc \in LogoutPcs \cup RevokePcs \cup PasswordPcs,
           r.pc \in LogoutPcs => req[w].pc \in LogoutPcs,
           UNCHANGED <<user, tokens, table, cache, history, delivered, clock>>
    PROVE  IndInv'
<1>1. StoresOK' /\ Kills /\ UNCHANGED <<tokens, rowFam, delivered>>
  BY StoresTyped, Killers DEF StoresOK, user, tokens, table, cache, clock
<1> QED
  BY <1>1, OtherStep

LEMMA LogoutMove ==
    ASSUME IndInv, NEW w \in Workers, NEW l \in LogoutPcs, NEW p \in 0..MaxPairs,
           req[w].pc \in LogoutPcs,
           req' = [req EXCEPT ![w].pc = l, ![w].old = p],
           StoresOK', Kills, UNCHANGED <<tokens, rowFam, delivered>>
    PROVE  IndInv'
<1> DEFINE r == [req[w] EXCEPT !.pc = l, !.old = p]
<1>1. req[w] \in Requests /\ l \in Pcs
  BY Local DEF Pcs
<1>2. r \in Requests /\ r.arg = req[w].arg /\ r.pc = l
  BY <1>1 DEF Requests
<1>3. req' = [req EXCEPT ![w] = r]
  OBVIOUS
<1> HIDE DEF r
<1> QED
  BY <1>2, <1>3, OtherStep

LEMMA LogoutStep ==
    ASSUME IndInv, NEW w \in Workers,
           \/ LogoutRead(w) \/ LogoutDrop(w) \/ LogoutVerify(w)
           \/ LogoutRevoke(w) \/ LogoutClose(w) \/ LogoutClean(w)
    PROVE  IndInv'
<1>1. /\ req[w] \in Requests /\ req[w].old \in 0..MaxPairs /\ None \in 0..MaxPairs
      /\ {"lo_read", "lo_drop", "lo_verify", "lo_revoke", "lo_close", "lo_clean"}
             \subseteq LogoutPcs
  BY Local, ConstantsAssumption DEF Requests, None, LogoutPcs
<1>2. delivered' = delivered => delivered' \subseteq Issued
  BY DEF IndInv, PairsInv
<1>3. ASSUME UNCHANGED <<user, tokens, table, cache, history, delivered, clock>>
      PROVE  StoresOK' /\ Kills /\ UNCHANGED <<tokens, rowFam, delivered>>
  BY <1>3, StoresTyped, Killers DEF StoresOK, user, tokens, table, cache, clock
<1>4. CASE LogoutRead(w)
  <2>1. req[w].pc = "lo_read" /\ req[w].arg \in Issued
    BY <1>4, Local DEF LogoutRead, At, LocalInv, Issued, LogoutPcs
  <2>2. redis[KeyOf(req[w].arg)] \in 0..MaxPairs
    BY <2>1, IssuedPairs
  <2>3. req' = [req EXCEPT ![w].pc = "lo_drop", ![w].old = redis[KeyOf(req[w].arg)]]
    BY <1>4 DEF LogoutRead
  <2>4. StoresOK' /\ Kills /\ UNCHANGED <<tokens, rowFam, delivered>>
    BY <1>3, <1>4 DEF LogoutRead
  <2> QED
    BY <1>1, <2>1, <2>2, <2>3, <2>4, LogoutMove
<1>5. CASE LogoutDrop(w)
  <2>1. StoresOK' /\ Kills /\ UNCHANGED <<tokens, rowFam>>
    BY <1>1, <1>5, StoresTyped, Killers
       DEF LogoutDrop, StoresOK, user, tokens, table, clock
  <2>2. Follows(req[w].pc, "lo_verify")
    BY <1>5 DEF LogoutDrop, At, Follows, Pcs, SigninPcs, RefreshPcs, LogoutPcs, SignedPcs
  <2> QED
    BY <1>2, <1>5, <2>1, <2>2, GotoStep DEF LogoutDrop
<1>6. CASE LogoutVerify(w)
  <2>1. req[w].pc = "lo_verify" /\ req[w].arg \in 0..MaxPairs
    BY <1>1, <1>6 DEF LogoutVerify, At, Requests
  <2>2. PICK t \in IF req[w].old # None THEN {req[w].old} ELSE {None, req[w].arg} :
          req' = IF t # None /\ row[t] = "live"
                 THEN [req EXCEPT ![w].pc = "lo_revoke", ![w].old = t]
                 ELSE [req EXCEPT ![w].pc = "lo_close", ![w].old = None]
    BY <1>6 DEF LogoutVerify
  <2>3. t \in 0..MaxPairs
    BY <1>1, <2>1
  <2>4. StoresOK' /\ Kills /\ UNCHANGED <<tokens, rowFam, delivered>>
    BY <1>3, <1>6 DEF LogoutVerify
  <2>5. CASE req' = [req EXCEPT ![w].pc = "lo_revoke", ![w].old = t]
    BY <1>1, <2>1, <2>3, <2>4, <2>5, LogoutMove
  <2>6. CASE req' = [req EXCEPT ![w].pc = "lo_close", ![w].old = None]
    BY <1>1, <2>1, <2>4, <2>6, LogoutMove
  <2> QED
    BY <2>2, <2>5, <2>6
<1>7. CASE LogoutRevoke(w)
  <2>1. req[w].pc = "lo_revoke" /\ UNCHANGED <<tokens, rowFam, delivered>>
    BY <1>7 DEF LogoutRevoke, At
  <2>2. CASE /\ UpdateRow(req[w].old)
             /\ req' = [req EXCEPT ![w].pc = "lo_close", ![w].old = None]
    <3>1. StoresOK' /\ row' \in [Pairs -> RowStates]
      BY <1>7, <2>2, StoresTyped
         DEF LogoutRevoke, StoresOK, user, tokens, cache, clock
    <3>2. Kills
      BY <2>2, <3>1 DEF Kills, UpdateRow, IndInv, TypeOK, StoresOK
    <3> QED
      BY <1>1, <2>1, <2>2, <3>1, <3>2, LogoutMove
  <2>3. CASE Finish(w) /\ UNCHANGED row
    <3>1. StoresOK' /\ Kills
      BY <1>7, <2>3, StoresTyped, Killers
         DEF LogoutRevoke, StoresOK, user, tokens, cache, clock
    <3> QED
      BY <1>2, <2>1, <2>3, <3>1, FinishStep
  <2> QED
    BY <1>7, <2>2, <2>3 DEF LogoutRevoke
<1>8. CASE LogoutClose(w)
  <2>1. StoresOK' /\ Kills /\ UNCHANGED <<tokens, rowFam>>
    BY <1>8, StoresTyped, Killers
       DEF LogoutClose, StoresOK, user, tokens, table, cache, clock
  <2>2. Follows(req[w].pc, "lo_clean")
    BY <1>8 DEF LogoutClose, At, Follows, Pcs, SigninPcs, RefreshPcs, LogoutPcs, SignedPcs
  <2> QED
    BY <1>2, <1>8, <2>1, <2>2, GotoStep DEF LogoutClose
<1>9. CASE LogoutClean(w)
  BY <1>9, CleanupStep DEF LogoutClean
<1> QED
  BY <1>4, <1>5, <1>6, <1>7, <1>8, <1>9

LEMMA LogoutAllStep ==
    ASSUME IndInv, NEW w \in Workers,
           \/ LogoutAllRead(w) \/ LogoutAllDrop(w) \/ LogoutAllRevoke(w)
           \/ LogoutAllClose(w) \/ LogoutAllClean(w)
    PROVE  IndInv'
<1> USE DEF LogoutPcs
<1>1. req[w] \in Requests /\ req[w].todo \subseteq Keys
      /\ req[w].held \subseteq Keys \X (0..MaxPairs)
  BY Local DEF Requests
<1>2. delivered' = delivered => delivered' \subseteq Issued
  BY DEF IndInv, PairsInv
<1>3. CASE LogoutAllRead(w)
  <2>1. PICK k \in req[w].todo :
          req' = [req EXCEPT ![w].todo = @ \ {k},
                             ![w].held = IF redis[k] = None THEN {}
                                         ELSE {<<k, redis[k]>>}]
    BY <1>3 DEF LogoutAllRead
  <2> DEFINE H == IF redis[k] = None THEN {} ELSE {<<k, redis[k]>>}
             r == [req[w] EXCEPT !.todo = req[w].todo \ {k}, !.held = H]
  <2>2. H \in SUBSET (Keys \X (0..MaxPairs))
    BY <1>1, IssuedPairs
  <2>3. req' = [req EXCEPT ![w] = r]
    BY <2>1
  <2> HIDE DEF H
  <2>4. r \in Requests
    BY <1>1, <2>2 DEF Requests
  <2>5. r.arg = req[w].arg /\ r.pc = "la_keys" /\ req[w].pc = "la_keys"
    BY <1>1, <1>3 DEF Requests, LogoutAllRead, At
  <2> HIDE DEF r
  <2> QED
    BY <1>3, <2>3, <2>4, <2>5, OtherLocalStep DEF LogoutAllRead
<1>4. CASE LogoutAllDrop(w)
  <2>1. PICK h \in req[w].held :
          /\ BlacklistAccess(h[2]) /\ BlacklistRefresh(h[2])
          /\ DeleteKeys({h[1]})
          /\ req' = [req EXCEPT ![w].held = @ \ {h}]
    BY <1>4 DEF LogoutAllDrop
  <2> DEFINE r == [req[w] EXCEPT !.held = req[w].held \ {h}]
  <2>2. r \in Requests /\ req' = [req EXCEPT ![w] = r] /\ h[2] \in 0..MaxPairs
    BY <1>1, <2>1 DEF Requests
  <2>3. StoresOK' /\ Kills /\ UNCHANGED <<tokens, rowFam, delivered>>
    BY <1>4, <2>1, <2>2, StoresTyped, Killers
       DEF LogoutAllDrop, StoresOK, user, tokens, table, clock
  <2>4. r.arg = req[w].arg /\ r.pc = "la_keys" /\ req[w].pc = "la_keys"
    BY <1>1, <1>4 DEF Requests, LogoutAllDrop, At
  <2> HIDE DEF r
  <2> QED
    BY <2>2, <2>3, <2>4, OtherStep
<1>5. CASE LogoutAllRevoke(w)
  <2>1. StoresOK' /\ Kills
    BY <1>5, StoresTyped, Killers
       DEF LogoutAllRevoke, StoresOK, user, tokens, cache, clock
  <2>2. Follows(req[w].pc, "la_close")
    BY <1>5 DEF LogoutAllRevoke, At, Follows, Pcs, SigninPcs, RefreshPcs, SignedPcs
  <2> QED
    BY <1>2, <1>5, <2>1, <2>2, GotoStep DEF LogoutAllRevoke
<1>6. CASE LogoutAllClose(w)
  <2>1. StoresOK' /\ Kills /\ UNCHANGED <<tokens, rowFam>>
    BY <1>6, StoresTyped, Killers
       DEF LogoutAllClose, StoresOK, user, tokens, table, cache, clock
  <2>2. Follows(req[w].pc, "la_clean")
    BY <1>6 DEF LogoutAllClose, At, Follows, Pcs, SigninPcs, RefreshPcs, SignedPcs
  <2> QED
    BY <1>2, <1>6, <2>1, <2>2, GotoStep DEF LogoutAllClose
<1>7. CASE LogoutAllClean(w)
  BY <1>7, CleanupStep DEF LogoutAllClean
<1> QED
  BY <1>3, <1>4, <1>5, <1>6, <1>7

LEMMA RevokeSessionStep ==
    ASSUME IndInv, NEW w \in Workers, RevokeSession(w)
    PROVE  IndInv'
<1> USE DEF RevokePcs
<1>1. /\ req[w] \in Requests /\ req[w].todo \subseteq Keys
      /\ req[w].old \in 0..MaxPairs /\ "rs_black" \in Pcs
  BY Local DEF Requests, Pcs
<1>2. delivered' = delivered => delivered' \subseteq Issued
  BY DEF IndInv, PairsInv
<1>3. ASSUME UNCHANGED <<user, tokens, table, cache, history, delivered, clock>>
      PROVE  StoresOK' /\ Kills /\ UNCHANGED <<tokens, rowFam, delivered>>
  BY <1>3, StoresTyped, Killers DEF StoresOK, user, tokens, table, cache, clock
<1>4. \A l \in {"rs_verify", "rs_revoke", "rs_del"} : \A k : Follows(k, l)
  BY DEF Follows, Pcs, SigninPcs, RefreshPcs, LogoutPcs, SignedPcs
<1>5. CASE RevokeSessionRead(w)
  <2>1. PICK k \in req[w].todo :
          req' = [req EXCEPT ![w].pc = "rs_black", ![w].old = redis[k]]
    BY <1>5 DEF RevokeSessionRead
  <2> DEFINE r == [req[w] EXCEPT !.pc = "rs_black", !.old = redis[k]]
  <2>2. redis[k] \in 0..MaxPairs
    BY <1>1, IssuedPairs
  <2>3. r \in Requests
    BY <1>1, <2>2 DEF Requests
  <2>4. req' = [req EXCEPT ![w] = r]
    BY <2>1
  <2>5. r.arg = req[w].arg /\ r.pc = "rs_black" /\ r.pc \notin LogoutPcs
    BY <1>1 DEF Requests, LogoutPcs
  <2> HIDE DEF r
  <2> QED
    BY <1>5, <2>3, <2>4, <2>5, OtherLocalStep DEF RevokeSessionRead
<1>6. CASE RevokeSessionBlacklist(w)
  <2>1. StoresOK' /\ Kills /\ UNCHANGED <<tokens, rowFam>>
    BY <1>1, <1>6, StoresTyped, Killers
       DEF RevokeSessionBlacklist, StoresOK, user, tokens, table, clock
  <2> QED
    BY <1>2, <1>4, <1>6, <2>1, GotoStep DEF RevokeSessionBlacklist
<1>7. CASE RevokeSessionVerify(w)
  BY <1>2, <1>3, <1>4, <1>7, GotoStep DEF RevokeSessionVerify
<1>8. CASE RevokeSessionRevoke(w)
  <2>1. CASE UpdateRow(req[w].old) /\ Goto(w, "rs_del")
    <3>1. StoresOK' /\ row' \in [Pairs -> RowStates]
      BY <1>8, <2>1, StoresTyped
         DEF RevokeSessionRevoke, StoresOK, user, tokens, cache, clock
    <3>2. Kills
      BY <2>1, <3>1 DEF Kills, UpdateRow, IndInv, TypeOK, StoresOK
    <3> QED
      BY <1>2, <1>4, <1>8, <2>1, <3>1, <3>2, GotoStep DEF RevokeSessionRevoke
  <2>2. CASE Finish(w) /\ UNCHANGED row
    <3>1. StoresOK' /\ Kills
      BY <1>8, <2>2, StoresTyped, Killers
         DEF RevokeSessionRevoke, StoresOK, user, tokens, cache, clock
    <3> QED
      BY <1>2, <1>8, <2>2, <3>1, FinishStep DEF RevokeSessionRevoke
  <2> QED
    BY <1>8, <2>1, <2>2 DEF RevokeSessionRevoke
<1>9. CASE RevokeSessionDelete(w)
  <2>1. StoresOK' /\ Kills /\ UNCHANGED <<tokens, rowFam>>
    BY <1>9, StoresTyped, Killers
       DEF RevokeSessionDelete, StoresOK, user, tokens, table, clock
  <2> QED
    BY <1>2, <1>9, <2>1, FinishStep DEF RevokeSessionDelete
<1> QED
  BY <1>5, <1>6, <1>7, <1>8, <1>9 DEF RevokeSession

LEMMA PasswordStep ==
    ASSUME IndInv, NEW w \in Workers, Password(w)
    PROVE  IndInv'
<1> USE DEF PasswordPcs
<1>1. /\ req[w] \in Requests /\ req[w].todo \subseteq Keys
      /\ req[w].held \subseteq Keys \X (0..MaxPairs)
      /\ LiveKeys \subseteq Keys /\ "pw_keys" \in Pcs
  BY Local DEF Requests, LiveKeys, Pcs
<1>2. delivered' = delivered => delivered' \subseteq Issued
  BY DEF IndInv, PairsInv
<1>3. CASE PasswordRevoke(w)
  <2>1. StoresOK' /\ Kills
    BY <1>3, StoresTyped, Killers
       DEF PasswordRevoke, StoresOK, user, tokens, cache, clock
  <2>2. Follows(req[w].pc, "pw_scan")
    BY DEF Follows, Pcs, SigninPcs, RefreshPcs, LogoutPcs, SignedPcs
  <2> QED
    BY <1>2, <1>3, <2>1, <2>2, GotoStep DEF PasswordRevoke
<1>4. CASE PasswordScan(w)
  <2>0. PICK K \in Scans(LiveKeys) :
          req' = [req EXCEPT ![w].pc = "pw_keys", ![w].todo = K]
    BY <1>4 DEF PasswordScan
  <2> DEFINE r == [req[w] EXCEPT !.pc = "pw_keys", !.todo = K]
  <2>1. r \in Requests
    BY <1>1, <2>0 DEF Requests, Scans
  <2>2. req' = [req EXCEPT ![w] = r]
    BY <2>0
  <2>3. r.arg = req[w].arg /\ r.pc = "pw_keys" /\ r.pc \notin LogoutPcs
    BY <1>1 DEF Requests, LogoutPcs
  <2> HIDE DEF r
  <2> QED
    BY <1>4, <2>1, <2>2, <2>3, OtherLocalStep DEF PasswordScan
<1>5. CASE PasswordRead(w)
  <2>1. PICK k \in req[w].todo :
          req' = [req EXCEPT ![w].todo = @ \ {k},
                             ![w].held = @ \cup {<<k, redis[k]>>}]
    BY <1>5 DEF PasswordRead
  <2> DEFINE H == req[w].held \cup {<<k, redis[k]>>}
             r == [req[w] EXCEPT !.todo = req[w].todo \ {k}, !.held = H]
  <2>2. H \in SUBSET (Keys \X (0..MaxPairs))
    BY <1>1, IssuedPairs
  <2>3. req' = [req EXCEPT ![w] = r]
    BY <2>1
  <2> HIDE DEF H
  <2>4. r \in Requests
    BY <1>1, <2>2 DEF Requests
  <2>5. r.arg = req[w].arg /\ r.pc = "pw_keys" /\ r.pc \notin LogoutPcs
    BY <1>1, <1>5 DEF Requests, LogoutPcs, PasswordRead, At
  <2> HIDE DEF r
  <2> QED
    BY <1>5, <2>3, <2>4, <2>5, OtherLocalStep DEF PasswordRead
<1>6. CASE PasswordDrop(w)
  <2>1. PICK h \in req[w].held :
          /\ BlacklistAccess(h[2])
          /\ DeleteKeys({h[1]})
          /\ req' = [req EXCEPT ![w].held = @ \ {h}]
    BY <1>6 DEF PasswordDrop
  <2> DEFINE r == [req[w] EXCEPT !.held = req[w].held \ {h}]
  <2>2. r \in Requests /\ req' = [req EXCEPT ![w] = r] /\ h[2] \in 0..MaxPairs
    BY <1>1, <2>1 DEF Requests
  <2>3. StoresOK' /\ Kills /\ UNCHANGED <<tokens, rowFam, delivered>>
    BY <1>6, <2>1, <2>2, StoresTyped, Killers
       DEF PasswordDrop, StoresOK, user, tokens, table, clock
  <2>4. r.arg = req[w].arg /\ r.pc = "pw_keys" /\ r.pc \notin LogoutPcs
    BY <1>1, <1>6 DEF Requests, LogoutPcs, PasswordDrop, At
  <2> HIDE DEF r
  <2> QED
    BY <2>2, <2>3, <2>4, OtherStep
<1>7. CASE PasswordDone(w)
  <2>1. StoresOK' /\ Kills /\ UNCHANGED <<tokens, rowFam>>
    BY <1>7, StoresTyped, Killers
       DEF PasswordDone, StoresOK, user, tokens, table, cache, clock
  <2> QED
    BY <1>2, <1>7, <2>1, FinishStep DEF PasswordDone
<1> QED
  BY <1>3, <1>4, <1>5, <1>6, <1>7 DEF Password

\* The locals a request may start with: a sign-in or a refresh has a real
\* fingerprint, a refresh or a logout a pair the client holds.
MayStart(r) ==
    /\ r \in Requests /\ r.pc \notin SignedPcs /\ r.pc # "rf_issue"
    /\ r.pc \in SigninPcs \cup RefreshPcs => r.fp \in Families
    /\ r.pc \in RefreshPcs \cup LogoutPcs => r.arg \in Issued

LEMMA StartStep ==
    ASSUME IndInv, NEW w \in Workers, NEW r, MayStart(r),
           req' = [req EXCEPT ![w] = r],
           UNCHANGED <<account, tokens, table, cache, history, delivered, clock>>,
           password' \in 0..MaxPasswords
    PROVE  IndInv'
<1>1. LocalInv(r, issued, row')
  BY DEF LocalInv, Issued, MayStart
<1>2. StoresOK' /\ Kills /\ UNCHANGED <<tokens, rowFam>>
  BY StoresTyped, Killers DEF StoresOK, tokens, table, cache, clock
<1>3. delivered' \subseteq Issued
  BY DEF IndInv, PairsInv
<1> QED
  BY <1>1, <1>2, <1>3, Step DEF MayStart

LEMMA Starts ==
    ASSUME IndInv, NEW w \in Workers, Start(w)
    PROVE  IndInv'
<1>1. /\ password \in 0..MaxPasswords /\ password \in Nat
      /\ LiveKeys \in SUBSET Keys /\ delivered \subseteq Issued
      /\ \A p \in Pairs : p \in 0..MaxPairs
  BY ConstantsAssumption DEF IndInv, TypeOK, StoresOK, PairsInv, LiveKeys, Pairs
<1>2. {"si_scan", "rf_verify", "lo_read", "la_keys", "rs_read", "pw_revoke"}
         \subseteq Pcs
  BY DEF Pcs, SigninPcs, RefreshPcs, LogoutPcs, RevokePcs, PasswordPcs
<1>3. ASSUME NEW f \in Families, SigninStart(w, f) \/ GoogleSigninStart(w, f)
      PROVE  IndInv'
  <2> DEFINE r == [NoRequest EXCEPT !.pc = "si_scan", !.fp = f, !.pw = password]
  <2>1. r \in Requests /\ r.pc = "si_scan" /\ r.fp = f
    BY <1>1, <1>2, NoRequestOK DEF Requests
  <2>2. MayStart(r)
    BY <1>1, <1>3, <2>1 DEF MayStart, SignedPcs, SigninPcs, RefreshPcs, LogoutPcs,
                         SigninStart, GoogleSigninStart
  <2>3. req' = [req EXCEPT ![w] = r]
    BY <1>3 DEF SigninStart, GoogleSigninStart
  <2>4. password' \in 0..MaxPasswords
    BY <1>1, <1>3, ConstantsAssumption DEF SigninStart, GoogleSigninStart, user
  <2> HIDE DEF r
  <2> QED
    BY <1>3, <2>2, <2>3, <2>4, StartStep DEF SigninStart, GoogleSigninStart, user
<1>4. ASSUME NEW p \in Pairs, NEW f \in Families, RefreshStart(w, p, f)
      PROVE  IndInv'
  <2> DEFINE r == [NoRequest EXCEPT !.pc = "rf_verify", !.arg = p, !.fp = f]
  <2>1. r \in Requests /\ r.pc = "rf_verify" /\ r.fp = f /\ r.arg = p
    BY <1>1, <1>2, NoRequestOK DEF Requests
  <2>2. MayStart(r)
    BY <1>1, <1>4, <2>1 DEF MayStart, SignedPcs, SigninPcs, RefreshPcs, LogoutPcs,
                         RefreshStart
  <2>3. req' = [req EXCEPT ![w] = r]
    BY <1>4 DEF RefreshStart
  <2>4. password' \in 0..MaxPasswords
    BY <1>1, <1>4, ConstantsAssumption DEF RefreshStart, user
  <2> HIDE DEF r
  <2> QED
    BY <1>4, <2>2, <2>3, <2>4, StartStep DEF RefreshStart, user
<1>5. ASSUME NEW p \in Pairs, LogoutStart(w, p)
      PROVE  IndInv'
  <2> DEFINE r == [NoRequest EXCEPT !.pc = "lo_read", !.arg = p]
  <2>1. r \in Requests /\ r.pc = "lo_read" /\ r.arg = p
    BY <1>1, <1>2, NoRequestOK DEF Requests
  <2>2. MayStart(r)
    BY <1>1, <1>5, <2>1 DEF MayStart, SignedPcs, SigninPcs, RefreshPcs, LogoutPcs,
                         LogoutStart, MayCall
  <2>3. req' = [req EXCEPT ![w] = r]
    BY <1>5 DEF LogoutStart
  <2>4. password' \in 0..MaxPasswords
    BY <1>1, <1>5, ConstantsAssumption DEF LogoutStart, user
  <2> HIDE DEF r
  <2> QED
    BY <1>5, <2>2, <2>3, <2>4, StartStep DEF LogoutStart, user
<1>6. ASSUME NEW p \in Pairs, LogoutAllStart(w, p)
      PROVE  IndInv'
  <2>0. PICK K \in Scans(LiveKeys) :
          req' = [req EXCEPT ![w] = [NoRequest EXCEPT !.pc = "la_keys", !.arg = p,
                                                      !.todo = K]]
    BY <1>6 DEF LogoutAllStart
  <2> DEFINE r == [NoRequest EXCEPT !.pc = "la_keys", !.arg = p, !.todo = K]
  <2>1. r \in Requests /\ r.pc = "la_keys" /\ r.arg = p
    BY <1>1, <1>2, <2>0, NoRequestOK DEF Requests, Scans
  <2>2. MayStart(r)
    BY <1>1, <1>6, <2>1 DEF MayStart, SignedPcs, SigninPcs, RefreshPcs, LogoutPcs,
                         LogoutAllStart, MayCall
  <2>3. req' = [req EXCEPT ![w] = r]
    BY <2>0
  <2>4. password' \in 0..MaxPasswords
    BY <1>1, <1>6, ConstantsAssumption DEF LogoutAllStart, user
  <2> HIDE DEF r
  <2> QED
    BY <1>6, <2>2, <2>3, <2>4, StartStep DEF LogoutAllStart, user
<1>7. ASSUME NEW p \in Pairs, NEW k \in Keys, RevokeSessionStart(w, p, k)
      PROVE  IndInv'
  <2> DEFINE r == [NoRequest EXCEPT !.pc = "rs_read", !.arg = p, !.todo = {k}]
  <2>1. r \in Requests /\ r.pc = "rs_read" /\ r.arg = p
    BY <1>1, <1>2, NoRequestOK DEF Requests
  <2>2. MayStart(r)
    BY <1>1, <1>7, <2>1 DEF MayStart, SignedPcs, SigninPcs, RefreshPcs, LogoutPcs,
                         RevokeSessionStart, MayCall
  <2>3. req' = [req EXCEPT ![w] = r]
    BY <1>7 DEF RevokeSessionStart
  <2>4. password' \in 0..MaxPasswords
    BY <1>1, <1>7, ConstantsAssumption DEF RevokeSessionStart, user
  <2> HIDE DEF r
  <2> QED
    BY <1>7, <2>2, <2>3, <2>4, StartStep DEF RevokeSessionStart, user
<1>8. ASSUME PasswordStored(w)
      PROVE  IndInv'
  <2> DEFINE r == [NoRequest EXCEPT !.pc = "pw_revoke"]
  <2>1. r \in Requests /\ r.pc = "pw_revoke"
    BY <1>1, <1>2, NoRequestOK DEF Requests
  <2>2. MayStart(r)
    BY <1>1, <1>8, <2>1 DEF MayStart, SignedPcs, SigninPcs, RefreshPcs, LogoutPcs,
                         PasswordStored
  <2>3. req' = [req EXCEPT ![w] = r]
    BY <1>8 DEF PasswordStored
  <2>4. password' \in 0..MaxPasswords
    BY <1>1, <1>8, ConstantsAssumption DEF PasswordStored, user
  <2> HIDE DEF r
  <2> QED
    BY <1>8, <2>2, <2>3, <2>4, StartStep DEF PasswordStored, user
<1> QED
  BY <1>3, <1>4, <1>5, <1>6, <1>7, <1>8 DEF Start, ChangePassword, ResetPassword

\* What a request may sign: a pair of an issued session or of a new one, with
\* no parent or with a parent that is issued and dead.
MaySign(c) == /\ c \in Claims /\ c.fam \in Families /\ c.sess \in 1..(issued + 1)
              /\ c.parent \in {None} \cup Issued
              /\ c.parent # None => row[c.parent] # "live"

\* Signing adds a number to the issued pairs and a row for it, nothing else.
LEMMA IssueStep ==
    ASSUME IndInv, NEW w \in Workers, NEW c, NEW f \in Families, NEW l,
           Issue(w, c, f, l), MaySign(c),
           l \in {"si_clean", "rf_clean"}, req[w].fp \in Families,
           l = "rf_clean" => req[w].arg \in Issued,
           UNCHANGED <<user, cache, history, delivered, clock>>
    PROVE  IndInv'
<1> DEFINE q == issued + 1
<1>1. /\ issued \in Nat /\ q \in Pairs /\ q \in 0..MaxPairs /\ q # None
      /\ q \notin Issued /\ Issued \subseteq Pairs
  BY ConstantsAssumption DEF Issue, IndInv, TypeOK, StoresOK, Pairs, Issued, None
<1>2. /\ issued' = q /\ Issued' = Issued \cup {q}
      /\ claims' = [claims EXCEPT ![q] = c] /\ row' = [row EXCEPT ![q] = "live"]
      /\ rowFam' = [rowFam EXCEPT ![q] = f]
  BY <1>1 DEF Issue, Issued
<1>3. StoresOK
  BY DEF IndInv, TypeOK
<1> HIDE DEF q
<1>4. StoresOK'
  BY <1>1, <1>2, <1>3 DEF StoresOK, MaySign, RowStates, user, cache, clock
<1>5. /\ claims'[q] = c /\ row'[q] = "live" /\ rowFam'[q] = f
      /\ \A p \in Pairs : p # q => /\ claims'[p] = claims[p] /\ row'[p] = row[p]
                                   /\ rowFam'[p] = rowFam[p]
  BY <1>1, <1>2, <1>3 DEF StoresOK
<1>6. Progress
  BY <1>1, <1>2, <1>5 DEF Progress, q
<1>7. PairsInv'
  <2>1. PairsInv
    BY DEF IndInv
  <2>2. c.sess \in Issued' /\ c.parent \in {None} \cup Issued'
    BY <1>1, <1>2 DEF MaySign, Issued, q
  <2>3. \A p \in Issued' :
           /\ claims'[p].fam \in Families /\ rowFam'[p] \in Families
           /\ claims'[p].sess \in Issued'
           /\ claims'[p].parent \in {None} \cup Issued'
    BY <1>1, <1>2, <1>5, <2>1, <2>2 DEF PairsInv, MaySign
  <2>4. delivered' \subseteq Issued'
    BY <1>2, <2>1 DEF PairsInv
  <2>5. \A p \in Pairs \ Issued' : row'[p] = "none" /\ claims'[p] = NoClaims
    BY <1>2, <1>5, <2>1 DEF PairsInv
  <2> QED
    BY <2>3, <2>4, <2>5 DEF PairsInv
<1>8. RotationConsumes'
  <2>1. /\ \A p \in Issued : claims[p].parent # None
                               => row[claims[p].parent] # "live"
        /\ \A p \in Issued : claims[p].parent \in {None} \cup Issued
    BY DEF IndInv, PairsInv, RotationConsumes
  <2>2. ASSUME NEW p \in Issued', claims'[p].parent # None
        PROVE  row'[claims'[p].parent] # "live"
    <3>1. /\ claims'[p].parent \in Issued
          /\ row[claims'[p].parent] # "live"
      <4>1. CASE p = q
        BY <1>5, <2>2, <4>1 DEF MaySign
      <4>2. CASE p # q
        <5>1. p \in Issued /\ claims'[p] = claims[p]
          BY <1>1, <1>2, <1>5, <4>2
        <5> QED
          BY <2>1, <2>2, <5>1
      <4> QED
        BY <4>1, <4>2
    <3>2. row'[claims'[p].parent] = row[claims'[p].parent]
      BY <1>1, <1>5, <3>1
    <3> QED
      BY <3>1, <3>2
  <2> QED
    BY <2>2 DEF RotationConsumes
<1>9. req' \in [Workers -> Requests] /\ RequestsInv'
  <2> DEFINE r == [req[w] EXCEPT !.pc = l, !.new = q]
  <2>1. req[w] \in Requests /\ l \in Pcs
    BY Local DEF Pcs, SigninPcs, RefreshPcs
  <2>2. r \in Requests
    BY <1>1, <2>1 DEF Requests
  <2>3. r.pc = l /\ r.new = q /\ r.fp = req[w].fp /\ r.arg = req[w].arg
    BY <2>1 DEF Requests
  <2>4. LocalInv(r, issued', row')
    BY <1>1, <1>2, <2>3
       DEF LocalInv, Issued, SigninPcs, RefreshPcs, LogoutPcs, SignedPcs, q
  <2>5. req' = [req EXCEPT ![w] = r]
    BY DEF Issue, q
  <2> HIDE DEF r
  <2> QED
    BY <1>6, <2>2, <2>4, <2>5, RequestStep DEF IndInv, TypeOK
<1> QED
  BY <1>4, <1>7, <1>8, <1>9 DEF IndInv, TypeOK

LEMMA SigninSigns ==
    ASSUME IndInv, NEW w \in Workers, SigninIssue(w)
    PROVE  \E c : /\ MaySign(c) /\ req[w].fp \in Families
                  /\ Issue(w, c, req[w].fp, "si_clean")
<1> DEFINE c == [fam |-> req[w].fp, sess |-> issued + 1, parent |-> None,
                 password |-> req[w].pw]
<1>1. req[w].fp \in Families /\ req[w].pw \in 0..MaxPasswords
  BY Local DEF SigninIssue, At, LocalInv, Requests, SigninPcs
<1>2. issued + 1 \in 1..(issued + 1) /\ issued + 1 \in 0..MaxPairs /\ None \in 0..MaxPairs
  BY IssuedPairs DEF SigninIssue, Issue, None
<1>3. MaySign(c)
  BY <1>1, <1>2 DEF MaySign, Claims
<1> QED
  BY <1>1, <1>3 DEF SigninIssue

LEMMA RefreshSigns ==
    ASSUME IndInv, NEW w \in Workers, RefreshIssue(w)
    PROVE  \E c : /\ MaySign(c) /\ req[w].fp \in Families /\ req[w].arg \in Issued
                  /\ Issue(w, c, req[w].fp, "rf_clean")
<1> DEFINE p == req[w].arg
           c == [claims[p] EXCEPT !.fam = rowFam[p], !.parent = p]
<1>1. req[w].fp \in Families /\ p \in Issued /\ row[p] # "live"
  BY Local DEF RefreshIssue, At, LocalInv, RefreshPcs, Issued
<1>2. /\ p \in 0..MaxPairs /\ p # None /\ rowFam[p] \in Families
      /\ claims[p] \in Claims /\ claims[p].sess \in 1..(issued + 1)
  BY <1>1, IssuedPairs DEF Pairs, None, IndInv, PairsInv, Issued
<1>3. MaySign(c)
  BY <1>1, <1>2 DEF MaySign, Claims
<1> QED
  BY <1>1, <1>3 DEF RefreshIssue

LEMMA SignSteps ==
    ASSUME IndInv, NEW w \in Workers, SigninIssue(w) \/ RefreshIssue(w)
    PROVE  IndInv'
<1>1. CASE SigninIssue(w)
  BY <1>1, SigninSigns, IssueStep DEF SigninIssue
<1>2. CASE RefreshIssue(w)
  BY <1>2, RefreshSigns, IssueStep DEF RefreshIssue
<1> QED
  BY <1>1, <1>2

-----------------------------------------------------------------------------
(* Everything else, and the induction.                                     *)

LEMMA EnvironmentStep ==
    ASSUME IndInv, Environment
    PROVE  IndInv'
<1>1. CASE ToggleUserStatus
  <2>1. StoresOK' /\ Kills /\ UNCHANGED <<tokens, rowFam, delivered>>
    BY <1>1, StoresTyped, Killers
       DEF ToggleUserStatus, StoresOK, tokens, table, cache, clock
  <2> QED
    BY <1>1, <2>1, StoresStep DEF ToggleUserStatus
<1>2. CASE PurgeExpiredTokens
  <2>1. StoresOK' /\ Kills
    BY <1>2, StoresTyped, Killers
       DEF PurgeExpiredTokens, StoresOK, user, tokens, cache, clock
  <2> QED
    BY <1>2, <2>1, StoresStep DEF PurgeExpiredTokens
<1>3. ASSUME NEW p \in Pairs, RefreshExpired(p)
      PROVE  IndInv'
  <2>1. StoresOK' /\ Kills /\ UNCHANGED <<tokens, rowFam, delivered>>
    BY <1>3, StoresTyped, Killers
       DEF RefreshExpired, StoresOK, user, tokens, table, cache, clock
  <2> QED
    BY <1>3, <2>1, StoresStep DEF RefreshExpired
<1>4. ASSUME NEW p \in Pairs, AccessExpires(p) \/ RefreshExpires(p)
      PROVE  IndInv'
  <2>1. StoresOK' /\ Kills /\ UNCHANGED <<tokens, rowFam, delivered>>
    BY <1>4, StoresTyped, Killers
       DEF AccessExpires, RefreshExpires, StoresOK, user, tokens, table, cache
  <2> QED
    BY <1>4, <2>1, StoresStep DEF AccessExpires, RefreshExpires
<1>5. ASSUME NEW k \in Keys, KeyExpires(k)
      PROVE  IndInv'
  <2>1. StoresOK' /\ Kills /\ UNCHANGED <<tokens, rowFam, delivered>>
    BY <1>5, StoresTyped, Killers
       DEF KeyExpires, StoresOK, user, tokens, table, clock
  <2> QED
    BY <1>5, <2>1, StoresStep DEF KeyExpires
<1> QED
  BY <1>1, <1>2, <1>3, <1>4, <1>5 DEF Environment

LEMMA AbortStep ==
    ASSUME IndInv, NEW w \in Workers, Abort(w)
    PROVE  IndInv'
<1>1. StoresOK' /\ Kills /\ UNCHANGED <<tokens, rowFam>>
  BY StoresTyped, Killers
     DEF Abort, StoresOK, user, tokens, table, cache, clock
<1>2. delivered' \subseteq Issued
  BY DEF Abort, IndInv, PairsInv
<1> QED
  BY <1>1, <1>2, FinishStep DEF Abort

LEMMA ContinueStep ==
    ASSUME IndInv, NEW w \in Workers, Continue(w)
    PROVE  IndInv'
<1>1. CASE Signin(w)
  BY <1>1, SigninStep, SignSteps
<1>2. CASE Refresh(w)
  BY <1>2, RefreshStep, SignSteps
<1>3. CASE Logout(w)
  BY <1>3, LogoutStep, LogoutAllStep DEF Logout
<1> QED
  BY <1>1, <1>2, <1>3, RevokeSessionStep, PasswordStep DEF Continue

LEMMA Initial == Init => IndInv
<1> SUFFICES ASSUME Init PROVE IndInv
  OBVIOUS
<1>1. /\ MaxPairs \in Nat /\ 0 \in 0..MaxPairs /\ 0 \in 0..MaxPasswords
      /\ Issued = {}
  BY ConstantsAssumption DEF Init, Issued
<1>2. NoClaims \in Claims
  BY <1>1 DEF NoClaims, Claims, None
<1>3. StoresOK
  BY <1>1, <1>2 DEF Init, StoresOK, RowStates, HistoryStates, None
<1>4. req \in [Workers -> Requests] /\ RequestsInv
  BY NoRequestOK DEF Init, RequestsInv
<1>5. PairsInv /\ RotationConsumes
  BY <1>1 DEF Init, PairsInv, RotationConsumes
<1> QED
  BY <1>3, <1>4, <1>5 DEF IndInv, TypeOK

LEMMA Inductive == IndInv /\ [Next]_vars => IndInv'
  BY Unchanged, Starts, ContinueStep, AbortStep, EnvironmentStep DEF Next

\* In every reachable state, whatever requests interleave and wherever they
\* stop, the inductive invariant holds.
THEOREM Invariant == Spec => []IndInv
  BY Initial, Inductive, PTL DEF Spec

\* Every store and every suspended request of the handlers keeps its type.
THEOREM Typing == Spec => []TypeOK
<1>1. IndInv => TypeOK
  BY DEF IndInv
<1> QED
  BY <1>1, Invariant, PTL

\* A rotation leaves the consumed refresh token dead: no pair exists whose
\* parent has a live row (refresh-token.provider.ts).
THEOREM Rotation == Spec => []RotationConsumes
<1>1. IndInv => RotationConsumes
  BY DEF IndInv
<1> QED
  BY <1>1, Invariant, PTL

-----------------------------------------------------------------------------
(* The session keys.  What a handler has read from Redis was signed before, *)
(* so a pair that is being signed now is in no key and in no local.         *)

\* The hash under a key is an issued pair of that session and that family.
KeyHolds(k)  == redis[k] # None => redis[k] \in Issued /\ k = KeyOf(redis[k])
HeldOK(r, n) == r.old \in 0..n /\ \A h \in r.held : h[2] \in 0..n
KeysInv ==
    /\ \A k \in Keys : KeyHolds(k)
    /\ blRefresh \subseteq Issued
    /\ \A w \in Workers : HeldOK(req[w], issued)

\* KeysInv holds of the stores after the step, whatever the requests do.
StoresKept == /\ \A k \in Keys : KeyHolds(k)'
              /\ blRefresh' \subseteq Issued'
              /\ issued \in Nat /\ issued' \in Nat /\ issued <= issued'

LEMMA KeysStep ==
    ASSUME KeysInv, StoresKept, req \in [Workers -> Requests],
           NEW w \in Workers, NEW r, req' = [req EXCEPT ![w] = r],
           HeldOK(r, issued')
    PROVE  KeysInv'
<1>1. \A v \in Workers : HeldOK(req'[v], issued')
  BY DEF KeysInv, StoresKept, HeldOK
<1> QED
  BY <1>1 DEF KeysInv, StoresKept

\* A step that changes neither old nor held of any request.
LEMMA KeysMove ==
    ASSUME KeysInv, StoresKept, IndInv, NEW w \in Workers, NEW r,
           req' = [req EXCEPT ![w] = r],
           r.old = req[w].old, r.held = req[w].held
    PROVE  KeysInv'
<1>1. HeldOK(r, issued')
  BY DEF KeysInv, HeldOK, StoresKept
<1> QED
  BY <1>1, KeysStep DEF IndInv, TypeOK

LEMMA KeysGoto ==
    ASSUME KeysInv, StoresKept, IndInv, NEW w \in Workers, NEW l, Goto(w, l)
    PROVE  KeysInv'
<1> DEFINE r == [req[w] EXCEPT !.pc = l]
<1>1. r.old = req[w].old /\ r.held = req[w].held
  BY Local DEF Requests
<1>2. req' = [req EXCEPT ![w] = r]
  BY DEF Goto
<1> HIDE DEF r
<1> QED
  BY <1>1, <1>2, KeysMove

LEMMA KeysFinish ==
    ASSUME KeysInv, StoresKept, IndInv, NEW w \in Workers, Finish(w)
    PROVE  KeysInv'
<1>1. HeldOK(NoRequest, issued')
  BY DEF HeldOK, NoRequest, None, StoresKept
<1>2. req' = [req EXCEPT ![w] = NoRequest]
  BY DEF Finish
<1> HIDE DEF NoRequest
<1> QED
  BY <1>1, <1>2, KeysStep DEF IndInv, TypeOK

\* What the store operations do to the keys.
LEMMA KeysKept ==
    ASSUME KeysInv, IndInv, UNCHANGED tokens
    PROVE  /\ UNCHANGED <<redis, blRefresh>> => StoresKept
           /\ \A K : DeleteKeys(K) /\ UNCHANGED blRefresh => StoresKept
           /\ \A p \in 0..issued :
                UNCHANGED redis /\ BlacklistRefresh(p) => StoresKept
           /\ \A K : \A p \in 0..issued :
                DeleteKeys(K) /\ BlacklistRefresh(p) => StoresKept
           /\ \A p \in Issued :
                redis' = [redis EXCEPT ![KeyOf(p)] = p] /\ UNCHANGED blRefresh
                  => StoresKept
<1>1. issued \in Nat /\ issued' = issued /\ claims' = claims /\ Issued' = Issued
  BY IssuedPairs DEF tokens, Issued
<1>2. redis \in [Keys -> 0..MaxPairs] /\ \A p \in Issued : KeyOf(p) \in Keys
  BY IssuedPairs DEF IndInv, TypeOK, StoresOK
<1>3. \A p \in 0..issued : BlacklistRefresh(p) => blRefresh' \subseteq Issued
  BY <1>1 DEF BlacklistRefresh, None, Issued, KeysInv
<1>4. UNCHANGED blRefresh => blRefresh' \subseteq Issued
  BY DEF KeysInv
<1>5. UNCHANGED redis => \A k \in Keys : KeyHolds(k)'
  BY <1>1 DEF KeysInv, KeyHolds, KeyOf
<1>6. \A K : DeleteKeys(K) => \A k \in Keys : KeyHolds(k)'
  BY <1>1 DEF KeysInv, KeyHolds, KeyOf, DeleteKeys
<1>7. \A p \in Issued : redis' = [redis EXCEPT ![KeyOf(p)] = p]
                          => \A k \in Keys : KeyHolds(k)'
  BY <1>1, <1>2 DEF KeysInv, KeyHolds, KeyOf
<1> QED
  BY <1>1, <1>3, <1>4, <1>5, <1>6, <1>7 DEF StoresKept

\* The keys hold none of the pairs that are signed from now on.
LEMMA KeysIssue ==
    ASSUME KeysInv, IndInv, NEW w \in Workers, NEW c, NEW f, NEW l,
           Issue(w, c, f, l), UNCHANGED cache
    PROVE  KeysInv'
<1> DEFINE r == [req[w] EXCEPT !.pc = l, !.new = issued + 1]
<1>1. /\ issued \in Nat /\ issued' = issued + 1 /\ claims \in [Pairs -> Claims]
      /\ claims' = [claims EXCEPT ![issued + 1] = c]
      /\ redis' = redis /\ blRefresh' = blRefresh
  BY IssuedPairs DEF Issue, cache, IndInv, TypeOK, StoresOK
<1>2. \A p \in Issued : p \in Issued' /\ claims'[p] = claims[p]
  BY <1>1, IssuedPairs DEF Issued
<1>3. StoresKept
  BY <1>1, <1>2 DEF StoresKept, KeysInv, KeyHolds, KeyOf
<1>4. r.old = req[w].old /\ r.held = req[w].held
  BY Local DEF Requests
<1>5. req' = [req EXCEPT ![w] = r]
  BY DEF Issue
<1> HIDE DEF r
<1> QED
  BY <1>3, <1>4, <1>5, KeysMove

\* What a request starts with holds nothing.
LEMMA KeysStart ==
    ASSUME KeysInv, IndInv, NEW w \in Workers, Start(w)
    PROVE  KeysInv'
<1>1. PICK r : r.old = None /\ r.held = {} /\ req' = [req EXCEPT ![w] = r]
  BY DEF Start, SigninStart, GoogleSigninStart, RefreshStart, LogoutStart,
         LogoutAllStart, ChangePassword, ResetPassword, PasswordStored,
         RevokeSessionStart, NoRequest
<1>2. UNCHANGED <<tokens, redis, blRefresh>>
  BY DEF Start, SigninStart, GoogleSigninStart, RefreshStart, LogoutStart,
         LogoutAllStart, ChangePassword, ResetPassword, PasswordStored,
         RevokeSessionStart, cache
<1>3. StoresKept
  BY <1>2, KeysKept
<1>4. HeldOK(r, issued')
  BY <1>1, <1>3 DEF HeldOK, None, StoresKept
<1> QED
  BY <1>1, <1>3, <1>4, KeysStep DEF IndInv, TypeOK

LEMMA KeysCleanup ==
    ASSUME KeysInv, IndInv, NEW w \in Workers, NEW l, NEW m, Cleanup(w, l, m)
    PROVE  KeysInv'
<1>1. StoresKept
  BY KeysKept DEF Cleanup, cache
<1> QED
  BY <1>1, KeysGoto, KeysFinish DEF Cleanup

LEMMA KeysSignin ==
    ASSUME KeysInv, IndInv, NEW w \in Workers, Signin(w)
    PROVE  KeysInv'
<1>1. CASE SigninScan(w)
  <2>1. PICK K : req' = [req EXCEPT ![w].pc = "si_drop", ![w].todo = K]
    BY <1>1 DEF SigninScan
  <2> DEFINE r == [req[w] EXCEPT !.pc = "si_drop", !.todo = K]
  <2>2. r.old = req[w].old /\ r.held = req[w].held
    BY Local DEF Requests
  <2>3. StoresKept /\ req' = [req EXCEPT ![w] = r]
    BY <1>1, <2>1, KeysKept DEF SigninScan, cache
  <2> HIDE DEF r
  <2> QED
    BY <2>2, <2>3, KeysMove
<1>2. CASE SigninDrop(w)
  <2> DEFINE r == [req[w] EXCEPT !.pc = "si_revoke", !.todo = {}]
  <2>2. r.old = req[w].old /\ r.held = req[w].held
    BY Local DEF Requests
  <2>3. StoresKept /\ req' = [req EXCEPT ![w] = r]
    BY <1>2, KeysKept DEF SigninDrop
  <2> HIDE DEF r
  <2> QED
    BY <2>2, <2>3, KeysMove
<1>3. CASE SigninRevoke(w)
  BY <1>3, KeysKept, KeysGoto DEF SigninRevoke, cache
<1>4. CASE SigninClose(w)
  BY <1>4, KeysKept, KeysGoto DEF SigninClose, cache
<1>5. CASE SigninIssue(w)
  BY <1>5, KeysIssue DEF SigninIssue
<1>6. CASE SigninClean(w)
  BY <1>6, KeysCleanup DEF SigninClean
<1>7. CASE SigninStore(w)
  <2>1. req[w].new \in Issued
    BY <1>7, Local DEF SigninStore, At, LocalInv, Issued, SignedPcs
  <2> QED
    BY <1>7, <2>1, KeysKept, KeysGoto DEF SigninStore
<1>8. CASE SigninRecord(w)
  BY <1>8, KeysKept, KeysFinish DEF SigninRecord, cache
<1> QED
  BY <1>1, <1>2, <1>3, <1>4, <1>5, <1>6, <1>7, <1>8 DEF Signin

LEMMA KeysRefresh ==
    ASSUME KeysInv, IndInv, NEW w \in Workers, Refresh(w)
    PROVE  KeysInv'
<1>1. CASE RefreshVerify(w) \/ RefreshTheft(w) \/ TheftRevoke(w)
  BY <1>1, KeysKept, KeysGoto DEF RefreshVerify, RefreshTheft, TheftRevoke, cache
<1>2. CASE RefreshRefuse(w) \/ TheftDrop(w) \/ RefreshSaveHistory(w)
  BY <1>2, KeysKept, KeysFinish
     DEF RefreshRefuse, TheftDrop, RefreshSaveHistory, cache
<1>3. CASE RefreshRevoke(w)
  BY <1>3, KeysKept, KeysGoto, KeysFinish DEF RefreshRevoke, cache
<1>4. CASE RefreshIssue(w)
  BY <1>4, KeysIssue DEF RefreshIssue
<1>5. CASE RefreshClean(w)
  BY <1>5, KeysCleanup DEF RefreshClean
<1>6. CASE RefreshReadOld(w)
  <2> DEFINE r == [req[w] EXCEPT !.pc = "rf_black", !.old = redis[KeyOf(req[w].new)]]
  <2>1. StoresKept /\ req' = [req EXCEPT ![w] = r]
    BY <1>6, KeysKept DEF RefreshReadOld, cache
  <2>2. KeyOf(req[w].new) \in Keys
    BY <1>6, Local, IssuedPairs DEF RefreshReadOld, At, LocalInv, Issued, SignedPcs
  <2>3. redis[KeyOf(req[w].new)] \in 0..issued'
    BY <1>6, <2>1, <2>2
       DEF KeysInv, KeyHolds, None, Issued, StoresKept, RefreshReadOld, tokens
  <2>4. HeldOK(r, issued')
    BY <2>1, <2>3, Local DEF HeldOK, KeysInv, Requests, StoresKept
  <2> HIDE DEF r
  <2> QED
    BY <2>1, <2>4, KeysStep DEF IndInv, TypeOK
<1>7. CASE RefreshBlacklist(w)
  <2> DEFINE r == [req[w] EXCEPT !.pc = "rf_store", !.old = None]
  <2>1. req[w].old \in 0..issued
    BY DEF KeysInv, HeldOK
  <2>2. StoresKept /\ req' = [req EXCEPT ![w] = r]
    BY <1>7, <2>1, KeysKept DEF RefreshBlacklist
  <2>3. HeldOK(r, issued')
    BY <2>2, Local DEF HeldOK, KeysInv, Requests, StoresKept, None
  <2> HIDE DEF r
  <2> QED
    BY <2>2, <2>3, KeysStep DEF IndInv, TypeOK
<1>8. CASE RefreshStore(w)
  <2>1. req[w].new \in Issued
    BY <1>8, Local DEF RefreshStore, At, LocalInv, Issued, SignedPcs
  <2> QED
    BY <1>8, <2>1, KeysKept, KeysGoto DEF RefreshStore
<1>9. CASE RefreshFindHistory(w)
  <2> DEFINE s == claims[req[w].new].sess
             r == [req[w] EXCEPT !.pc = "rf_save", !.seen = history[s]]
  <2>1. StoresKept
    BY <1>9, KeysKept DEF RefreshFindHistory, cache
  <2>2. r.old = req[w].old /\ r.held = req[w].held
    BY Local DEF Requests
  <2>3. Finish(w) \/ req' = [req EXCEPT ![w] = r]
    BY <1>9 DEF RefreshFindHistory
  <2> HIDE DEF r
  <2> QED
    BY <2>1, <2>2, <2>3, KeysMove, KeysFinish
<1>10. CASE TheftScan(w)
  <2>1. PICK K : req' = [req EXCEPT ![w].pc = "th_drop", ![w].todo = K]
    BY <1>10 DEF TheftScan
  <2> DEFINE r == [req[w] EXCEPT !.pc = "th_drop", !.todo = K]
  <2>2. r.old = req[w].old /\ r.held = req[w].held
    BY Local DEF Requests
  <2>3. StoresKept /\ req' = [req EXCEPT ![w] = r]
    BY <1>10, <2>1, KeysKept DEF TheftScan, cache
  <2> HIDE DEF r
  <2> QED
    BY <2>2, <2>3, KeysMove
<1> QED
  BY <1>1, <1>2, <1>3, <1>4, <1>5, <1>6, <1>7, <1>8, <1>9, <1>10 DEF Refresh

LEMMA KeysLogout ==
    ASSUME KeysInv, IndInv, NEW w \in Workers, Logout(w)
    PROVE  KeysInv'
<1>1. req[w].old \in 0..issued /\ \A h \in req[w].held : h[2] \in 0..issued
  BY DEF KeysInv, HeldOK
<1>2. req[w].todo \subseteq Keys /\ \A k \in Keys : redis[k] \in 0..issued
  BY Local DEF KeysInv, KeyHolds, None, Issued, Requests, IndInv, TypeOK, StoresOK
<1>3. CASE LogoutRead(w)
  <2> DEFINE r == [req[w] EXCEPT !.pc = "lo_drop", !.old = redis[KeyOf(req[w].arg)]]
  <2>1. StoresKept /\ req' = [req EXCEPT ![w] = r] /\ issued' = issued
    BY <1>3, KeysKept DEF LogoutRead, cache, tokens
  <2>2. KeyOf(req[w].arg) \in Keys
    BY <1>3, Local, IssuedPairs DEF LogoutRead, At, LocalInv, Issued, LogoutPcs
  <2>3. HeldOK(r, issued')
    BY <1>1, <1>2, <2>1, <2>2, Local DEF HeldOK, Requests
  <2> HIDE DEF r
  <2> QED
    BY <2>1, <2>3, KeysStep DEF IndInv, TypeOK
<1>4. CASE LogoutDrop(w)
  <2>1. StoresKept
    BY <1>1, <1>4, KeysKept DEF LogoutDrop
  <2> QED
    BY <1>4, <2>1, KeysGoto DEF LogoutDrop
<1>5. ASSUME NEW l, NEW t \in 0..issued,
             req' = [req EXCEPT ![w].pc = l, ![w].old = t],
             UNCHANGED <<tokens, redis, blRefresh>>
      PROVE  KeysInv'
  <2> DEFINE r == [req[w] EXCEPT !.pc = l, !.old = t]
  <2>1. StoresKept /\ req' = [req EXCEPT ![w] = r] /\ issued' = issued
    BY <1>5, KeysKept DEF tokens
  <2>2. HeldOK(r, issued')
    BY <1>1, <2>1, Local DEF HeldOK, Requests
  <2> HIDE DEF r
  <2> QED
    BY <2>1, <2>2, KeysStep DEF IndInv, TypeOK
<1>6. CASE LogoutVerify(w)
  <2>1. PICK t \in IF req[w].old # None THEN {req[w].old} ELSE {None, req[w].arg} :
          req' = IF t # None /\ row[t] = "live"
                 THEN [req EXCEPT ![w].pc = "lo_revoke", ![w].old = t]
                 ELSE [req EXCEPT ![w].pc = "lo_close", ![w].old = None]
    BY <1>6 DEF LogoutVerify
  <2>2. t \in 0..issued /\ None \in 0..issued
    BY <1>1, <1>6, Local, IssuedPairs DEF LogoutVerify, At, LocalInv, LogoutPcs, None
  <2>3. UNCHANGED <<tokens, redis, blRefresh>>
    BY <1>6 DEF LogoutVerify, cache
  <2> QED
    BY <1>5, <2>1, <2>2, <2>3
<1>7. CASE LogoutRevoke(w)
  <2>1. UNCHANGED <<tokens, redis, blRefresh>> /\ None \in 0..issued
    BY <1>7, IssuedPairs DEF LogoutRevoke, cache, None
  <2> QED
    BY <1>5, <1>7, <2>1, KeysKept, KeysFinish DEF LogoutRevoke
<1>8. CASE LogoutClose(w) \/ LogoutAllRevoke(w) \/ LogoutAllClose(w)
  BY <1>8, KeysKept, KeysGoto DEF LogoutClose, LogoutAllRevoke, LogoutAllClose, cache
<1>9. CASE LogoutClean(w) \/ LogoutAllClean(w)
  BY <1>9, KeysCleanup DEF LogoutClean, LogoutAllClean
<1>10. CASE LogoutAllRead(w)
  <2>1. PICK k \in req[w].todo :
          req' = [req EXCEPT ![w].todo = @ \ {k},
                             ![w].held = IF redis[k] = None THEN {}
                                         ELSE {<<k, redis[k]>>}]
    BY <1>10 DEF LogoutAllRead
  <2> DEFINE H == IF redis[k] = None THEN {} ELSE {<<k, redis[k]>>}
             r == [req[w] EXCEPT !.todo = req[w].todo \ {k}, !.held = H]
  <2>2. StoresKept /\ req' = [req EXCEPT ![w] = r] /\ issued' = issued
    BY <1>10, <2>1, KeysKept DEF LogoutAllRead, cache, tokens
  <2>3. \A h \in H : h[2] \in 0..issued
    BY <1>2
  <2> HIDE DEF H
  <2>4. HeldOK(r, issued')
    BY <1>1, <2>2, <2>3, Local DEF HeldOK, Requests
  <2> HIDE DEF r
  <2> QED
    BY <2>2, <2>4, KeysStep DEF IndInv, TypeOK
<1>11. CASE LogoutAllDrop(w)
  <2>1. PICK h \in req[w].held :
          /\ BlacklistRefresh(h[2]) /\ DeleteKeys({h[1]})
          /\ req' = [req EXCEPT ![w].held = @ \ {h}]
    BY <1>11 DEF LogoutAllDrop
  <2> DEFINE r == [req[w] EXCEPT !.held = req[w].held \ {h}]
  <2>2. StoresKept /\ req' = [req EXCEPT ![w] = r] /\ issued' = issued
    BY <1>1, <1>11, <2>1, KeysKept DEF LogoutAllDrop, tokens
  <2>3. HeldOK(r, issued')
    BY <1>1, <2>2, Local DEF HeldOK, Requests
  <2> HIDE DEF r
  <2> QED
    BY <2>2, <2>3, KeysStep DEF IndInv, TypeOK
<1> QED
  BY <1>3, <1>4, <1>6, <1>7, <1>8, <1>9, <1>10, <1>11 DEF Logout

LEMMA KeysRevokeSession ==
    ASSUME KeysInv, IndInv, NEW w \in Workers, RevokeSession(w)
    PROVE  KeysInv'
<1>1. req[w].old \in 0..issued /\ \A h \in req[w].held : h[2] \in 0..issued
  BY DEF KeysInv, HeldOK
<1>2. req[w].todo \subseteq Keys /\ \A k \in Keys : redis[k] \in 0..issued
  BY Local DEF KeysInv, KeyHolds, None, Issued, Requests, IndInv, TypeOK, StoresOK
<1>3. CASE RevokeSessionRead(w)
  <2>1. PICK k \in req[w].todo :
          req' = [req EXCEPT ![w].pc = "rs_black", ![w].old = redis[k]]
    BY <1>3 DEF RevokeSessionRead
  <2> DEFINE r == [req[w] EXCEPT !.pc = "rs_black", !.old = redis[k]]
  <2>2. StoresKept /\ req' = [req EXCEPT ![w] = r] /\ issued' = issued
    BY <1>3, <2>1, KeysKept DEF RevokeSessionRead, cache, tokens
  <2>3. HeldOK(r, issued')
    BY <1>1, <1>2, <2>2, Local DEF HeldOK, Requests
  <2> HIDE DEF r
  <2> QED
    BY <2>2, <2>3, KeysStep DEF IndInv, TypeOK
<1>4. CASE RevokeSessionBlacklist(w)
  BY <1>1, <1>4, KeysKept, KeysGoto DEF RevokeSessionBlacklist
<1>5. CASE RevokeSessionVerify(w)
  BY <1>5, KeysKept, KeysGoto DEF RevokeSessionVerify, cache
<1>6. CASE RevokeSessionRevoke(w)
  BY <1>6, KeysKept, KeysGoto, KeysFinish DEF RevokeSessionRevoke, cache
<1>7. CASE RevokeSessionDelete(w)
  BY <1>7, KeysKept, KeysFinish DEF RevokeSessionDelete
<1> QED
  BY <1>3, <1>4, <1>5, <1>6, <1>7 DEF RevokeSession

LEMMA KeysPassword ==
    ASSUME KeysInv, IndInv, NEW w \in Workers, Password(w)
    PROVE  KeysInv'
<1>1. req[w].old \in 0..issued /\ \A h \in req[w].held : h[2] \in 0..issued
  BY DEF KeysInv, HeldOK
<1>2. req[w].todo \subseteq Keys /\ \A k \in Keys : redis[k] \in 0..issued
  BY Local DEF KeysInv, KeyHolds, None, Issued, Requests, IndInv, TypeOK, StoresOK
<1>3. CASE PasswordRevoke(w)
  BY <1>3, KeysKept, KeysGoto DEF PasswordRevoke, cache
<1>4. CASE PasswordScan(w)
  <2>1. PICK K : req' = [req EXCEPT ![w].pc = "pw_keys", ![w].todo = K]
    BY <1>4 DEF PasswordScan
  <2> DEFINE r == [req[w] EXCEPT !.pc = "pw_keys", !.todo = K]
  <2>2. r.old = req[w].old /\ r.held = req[w].held
    BY Local DEF Requests
  <2>3. StoresKept /\ req' = [req EXCEPT ![w] = r]
    BY <1>4, <2>1, KeysKept DEF PasswordScan, cache
  <2> HIDE DEF r
  <2> QED
    BY <2>2, <2>3, KeysMove
<1>5. CASE PasswordRead(w)
  <2>1. PICK k \in req[w].todo :
          req' = [req EXCEPT ![w].todo = @ \ {k},
                             ![w].held = @ \cup {<<k, redis[k]>>}]
    BY <1>5 DEF PasswordRead
  <2> DEFINE H == req[w].held \cup {<<k, redis[k]>>}
             r == [req[w] EXCEPT !.todo = req[w].todo \ {k}, !.held = H]
  <2>2. StoresKept /\ req' = [req EXCEPT ![w] = r] /\ issued' = issued
    BY <1>5, <2>1, KeysKept DEF PasswordRead, cache, tokens
  <2>3. \A h \in H : h[2] \in 0..issued
    BY <1>1, <1>2
  <2> HIDE DEF H
  <2>4. HeldOK(r, issued')
    BY <1>1, <2>2, <2>3, Local DEF HeldOK, Requests
  <2> HIDE DEF r
  <2> QED
    BY <2>2, <2>4, KeysStep DEF IndInv, TypeOK
<1>6. CASE PasswordDrop(w)
  <2>1. PICK h \in req[w].held :
          /\ DeleteKeys({h[1]})
          /\ req' = [req EXCEPT ![w].held = @ \ {h}]
    BY <1>6 DEF PasswordDrop
  <2> DEFINE r == [req[w] EXCEPT !.held = req[w].held \ {h}]
  <2>2. StoresKept /\ req' = [req EXCEPT ![w] = r] /\ issued' = issued
    BY <1>6, <2>1, KeysKept DEF PasswordDrop, tokens
  <2>3. HeldOK(r, issued')
    BY <1>1, <2>2, Local DEF HeldOK, Requests
  <2> HIDE DEF r
  <2> QED
    BY <2>2, <2>3, KeysStep DEF IndInv, TypeOK
<1>7. CASE PasswordDone(w)
  BY <1>7, KeysKept, KeysFinish DEF PasswordDone, cache
<1> QED
  BY <1>3, <1>4, <1>5, <1>6, <1>7 DEF Password

LEMMA KeysEnvironment ==
    ASSUME KeysInv, IndInv, Environment \/ UNCHANGED vars
    PROVE  KeysInv'
<1>1. UNCHANGED <<tokens, req>>
  BY DEF Environment, ToggleUserStatus, PurgeExpiredTokens, RefreshExpired,
         AccessExpires, RefreshExpires, KeyExpires, vars
<1>2. \/ UNCHANGED <<redis, blRefresh>>
      \/ UNCHANGED blRefresh /\ \E k : DeleteKeys({k})
  BY DEF Environment, ToggleUserStatus, PurgeExpiredTokens, RefreshExpired,
         AccessExpires, RefreshExpires, KeyExpires, vars, cache
<1>3. StoresKept
  BY <1>1, <1>2, KeysKept
<1> QED
  BY <1>1, <1>3 DEF KeysInv, StoresKept, tokens

LEMMA KeysInitial == Init => KeysInv
  BY DEF Init, KeysInv, KeyHolds, HeldOK, NoRequest, None

LEMMA KeysInductive == IndInv /\ KeysInv /\ [Next]_vars => KeysInv'
<1> SUFFICES ASSUME IndInv, KeysInv, [Next]_vars PROVE KeysInv'
  OBVIOUS
<1>1. ASSUME NEW w \in Workers, Start(w) \/ Continue(w) \/ Abort(w)
      PROVE  KeysInv'
  <2>1. CASE Abort(w)
    BY <2>1, KeysKept, KeysFinish DEF Abort, cache
  <2> QED
    BY <1>1, <2>1, KeysStart, KeysSignin, KeysRefresh, KeysLogout,
       KeysRevokeSession, KeysPassword DEF Continue
<1> QED
  BY <1>1, KeysEnvironment DEF Next

\* A key of Redis, and what a request will write to one, is of a pair that was
\* signed for it, at every await of the handlers (signin and
\* refresh-token.provider.ts).
THEOREM KeysInvariant == Spec => []KeysInv
  BY KeysInitial, KeysInductive, Invariant, PTL DEF Spec

\* A session hash holds a pair that was signed for that session and for that
\* family, also while fingerprints change, rotations race and requests stop
\* between two awaits (refresh-token.provider.ts, update-redis-session).
THEOREM SessionKeys == Spec => []SessionKeyMatchesToken
<1>1. KeysInv => SessionKeyMatchesToken
  BY DEF KeysInv, KeyHolds, SessionKeyMatchesToken, LiveKeys
<1> QED
  BY <1>1, KeysInvariant, PTL

-----------------------------------------------------------------------------
(* What a step does to the refresh tokens: it kills some, or it signs one. *)

Signs(c) == LET q == issued + 1 IN
    /\ q \in Pairs /\ MaySign(c)
    /\ issued' = q
    /\ claims' = [claims EXCEPT ![q] = c]
    /\ row' = [row EXCEPT ![q] = "live"]

LEMMA KillsOrIssues ==
    ASSUME IndInv, [Next]_vars
    PROVE  \/ Kills /\ UNCHANGED tokens
           \/ \E w \in Workers : SigninIssue(w) \/ RefreshIssue(w)
<1>1. UNCHANGED <<tokens, row>> => Kills /\ UNCHANGED tokens
  BY Killers
<1>2. \A w : Cleanup(w, "si_clean", "si_store") \/ Cleanup(w, "rf_clean", "rf_old")
             \/ Cleanup(w, "lo_clean", "idle") \/ Cleanup(w, "la_clean", "idle")
             => Kills /\ UNCHANGED tokens
  BY Killers DEF Cleanup
<1>3. \A w \in Workers : Start(w) \/ Abort(w) => Kills /\ UNCHANGED tokens
  BY <1>1 DEF Start, SigninStart, GoogleSigninStart, RefreshStart, LogoutStart,
              LogoutAllStart, ChangePassword, ResetPassword, PasswordStored,
              RevokeSessionStart, Abort, table
<1>4. ASSUME NEW w \in Workers, Signin(w), ~SigninIssue(w)
      PROVE  Kills /\ UNCHANGED tokens
  BY <1>1, <1>2, <1>4, Killers
     DEF Signin, SigninScan, SigninDrop, SigninRevoke, SigninClose, SigninClean,
         SigninStore, SigninRecord, table
<1>5. ASSUME NEW w \in Workers, Refresh(w), ~RefreshIssue(w), ~RefreshRevoke(w)
      PROVE  Kills /\ UNCHANGED tokens
  BY <1>1, <1>2, <1>5, Killers
     DEF Refresh, RefreshVerify, RefreshRefuse, RefreshTheft, RefreshClean,
         RefreshReadOld, RefreshBlacklist, RefreshStore, RefreshFindHistory,
         RefreshSaveHistory, TheftRevoke, TheftScan, TheftDrop, table
<1>6. ASSUME NEW p, UpdateRow(p)
      PROVE  Kills
  BY <1>6 DEF UpdateRow, Kills, IndInv, TypeOK, StoresOK, RowStates
<1>7. ASSUME NEW w \in Workers,
             RefreshRevoke(w) \/ LogoutRevoke(w) \/ RevokeSessionRevoke(w)
      PROVE  Kills /\ UNCHANGED tokens
  BY <1>1, <1>6, <1>7 DEF RefreshRevoke, LogoutRevoke, RevokeSessionRevoke
<1>8. ASSUME NEW w \in Workers, Logout(w), ~LogoutRevoke(w)
      PROVE  Kills /\ UNCHANGED tokens
  BY <1>1, <1>2, <1>8, Killers
     DEF Logout, LogoutRead, LogoutDrop, LogoutVerify, LogoutClose, LogoutClean,
         LogoutAllRead, LogoutAllDrop, LogoutAllRevoke, LogoutAllClose,
         LogoutAllClean, table
<1>9. ASSUME NEW w \in Workers, RevokeSession(w) \/ Password(w),
              ~RevokeSessionRevoke(w)
       PROVE  Kills /\ UNCHANGED tokens
  BY <1>1, <1>9, Killers
     DEF RevokeSession, RevokeSessionRead, RevokeSessionBlacklist,
         RevokeSessionVerify, RevokeSessionDelete, Password, PasswordRevoke,
         PasswordScan, PasswordRead, PasswordDrop, PasswordDone, table
<1>10. Environment => Kills /\ UNCHANGED tokens
  BY <1>1, Killers
     DEF Environment, ToggleUserStatus, PurgeExpiredTokens, RefreshExpired,
         AccessExpires, RefreshExpires, KeyExpires, table
<1>11. UNCHANGED vars => Kills /\ UNCHANGED tokens
  BY <1>1 DEF vars, table
<1> QED
  BY <1>3, <1>4, <1>5, <1>7, <1>8, <1>9, <1>10, <1>11 DEF Next, Continue

LEMMA KillsOrSigns ==
    ASSUME IndInv, [Next]_vars
    PROVE  (Kills /\ UNCHANGED tokens) \/ \E c : Signs(c)
<1>1. \A w, c, f, l : MaySign(c) /\ Issue(w, c, f, l) => Signs(c)
  <2>1. issued \in Nat /\ MaxPairs \in Nat
    BY IssuedPairs
  <2>2. issued < MaxPairs => issued + 1 \in Pairs
    BY <2>1 DEF Pairs
  <2> QED
    BY <2>2 DEF Issue, Signs
<1>2. ASSUME NEW w \in Workers, SigninIssue(w) \/ RefreshIssue(w)
      PROVE  \E c : Signs(c)
  BY <1>1, <1>2, SigninSigns, RefreshSigns
<1>3. CASE Kills /\ UNCHANGED tokens
  BY <1>3
<1> QED
  BY <1>2, <1>3, KillsOrIssues

\* No handler makes a row live that was not: only a sign-in or a rotation does,
\* for the pair it signs (update-refresh-token, revoke-refresh-token, cleanup).
THEOREM Revival == Spec => NeverRevived
<1>1. ASSUME IndInv, [Next]_vars
      PROVE  \A p \in Pairs : row'[p] = "live" => row[p] = "live" \/ p > issued
  <2>1. CASE Kills
    BY <2>1 DEF Kills
  <2>2. CASE \E c : Signs(c)
    <3>1. issued \in Nat /\ row \in [Pairs -> RowStates]
      BY <1>1, IssuedPairs DEF IndInv, TypeOK, StoresOK
    <3>2. row' = [row EXCEPT ![issued + 1] = "live"]
      BY <2>2 DEF Signs
    <3> QED
      BY <3>1, <3>2
  <2> QED
    BY <1>1, <2>1, <2>2, KillsOrSigns
<1>2. IndInv /\ [Next]_vars
        => [\A p \in Pairs : row'[p] = "live" => row[p] = "live" \/ p > issued]_vars
  BY <1>1
<1> QED
  BY <1>2, Invariant, PTL DEF Spec, NeverRevived

-----------------------------------------------------------------------------
(* The refresh tokens implement the abstract life cycle.                   *)

\* The abstract state, by the names the instance gives it.
Status == [p \in Pairs |-> IF p > issued THEN "fresh"
                           ELSE IF row[p] = "live" THEN "live" ELSE "dead"]
Parent == [p \in Pairs |-> claims[p].parent]

LEMMA KillRefines ==
    ASSUME IndInv, Kills, UNCHANGED tokens
    PROVE  Lifecycle!Next
<1>1. issued' = issued /\ claims' = claims /\ issued \in Nat
  BY IssuedPairs DEF tokens
<1>2. \A p \in Pairs : p > issued => row[p] = "none"
  BY <1>1 DEF IndInv, PairsInv, Issued, Pairs
<1> DEFINE S == {p \in Pairs : Status[p] = "live" /\ Status'[p] # "live"}
<1>3. \A p \in Pairs : Status'[p] = IF p \in S THEN "dead" ELSE Status[p]
  BY <1>1, <1>2 DEF Status, Kills
<1>4. Status' = [p \in Pairs |-> IF p \in S THEN "dead" ELSE Status[p]]
  BY <1>3 DEF Status
<1>5. Parent' = Parent
  BY <1>1 DEF Parent
<1>6. S \in SUBSET Pairs /\ \A t \in S : Status[t] = "live"
  OBVIOUS
<1> HIDE DEF S
<1>7. \E T \in SUBSET Pairs : Lifecycle!Kill(T)
  BY <1>4, <1>5, <1>6 DEF Lifecycle!Kill, Status, Parent
<1> QED
  BY <1>7 DEF Lifecycle!Next

LEMMA SignRefines ==
    ASSUME IndInv, NEW c, Signs(c)
    PROVE  Lifecycle!Next
<1> DEFINE q == issued + 1
<1>1. /\ issued \in Nat /\ q \in Pairs /\ issued' = q
      /\ claims' = [claims EXCEPT ![q] = c] /\ row' = [row EXCEPT ![q] = "live"]
      /\ claims \in [Pairs -> Claims] /\ row \in [Pairs -> RowStates]
      /\ Issued \subseteq Pairs
  BY IssuedPairs DEF Signs, IndInv, TypeOK, StoresOK
<1>2. \A p \in Pairs : p \in Nat
  BY <1>1 DEF Pairs
<1>3. Status[q] = "fresh"
  BY <1>1 DEF Status
<1>4. c.parent # 0 => c.parent \in Pairs /\ Status[c.parent] = "dead"
  BY <1>1 DEF Signs, MaySign, None, Issued, Status
<1>5. Status' = [Status EXCEPT ![q] = "live"]
  <2>1. \A p \in Pairs : Status'[p] = IF p = q THEN "live" ELSE Status[p]
    BY <1>1, <1>2 DEF Status
  <2> QED
    BY <2>1 DEF Status
<1>6. Parent' = [Parent EXCEPT ![q] = c.parent]
  BY <1>1 DEF Parent
<1>7. Lifecycle!Mint(q, c.parent)
  BY <1>3, <1>4, <1>5, <1>6 DEF Lifecycle!Mint, Status, Parent
<1> QED
  BY <1>1, <1>4, <1>7 DEF Lifecycle!Next

\* Whatever interleaves and wherever requests stop, a refresh token is minted
\* once, is live and then dead for good, and a rotated one has a dead parent.
THEOREM Refinement == Spec => ImplementsTokenLifecycle
<1>1. Init => Lifecycle!Init
  BY ConstantsAssumption DEF Init, Lifecycle!Init, Pairs, NoClaims, None
<1>2. IndInv /\ [Next]_vars => [Lifecycle!Next]_(Lifecycle!lifecycle)
  BY KillsOrSigns, KillRefines, SignRefines
<1> QED
  BY <1>1, <1>2, Invariant, PTL DEF Spec, ImplementsTokenLifecycle, Lifecycle!Spec

=============================================================================
