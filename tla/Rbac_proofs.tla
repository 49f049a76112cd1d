----------------------------- MODULE Rbac_proofs -----------------------------
(***************************************************************************)
(* Seeded permissions stay, for any number of requests and                 *)
(* synchronisations that overlap, whatever the keys and names are.         *)
(*                                                                         *)
(* The invariant: no request holds the id of a seeded permission that it   *)
(* would rename, delete or prune.  No row becomes a seeded one, because    *)
(* every seeded key has its row already and keys are unique.               *)
(*                                                                         *)
(* The second part: what a synchronisation leaves the admin role.  While   *)
(* nothing but synchronisations is in flight, each of them keeps what the  *)
(* others have repaired, and one that ends without a failure has found or  *)
(* made every declared key, no orphan and every grant: the routes open.    *)
(***************************************************************************)
EXTENDS Rbac, FiniteSetTheorems, TLAPS

RolePcs == {"role_check", "role_find", "as_perms", "as_read", "as_insert",
            "sy_orphans", "sy_unassign", "sy_prune"}
PermPcs == {"perm_check", "perm_find", "perm_save", "perm_remove"}

\* What a request may hold while the permissions are pm and n were created.
RequestOK(r, pm, n) ==
    /\ r \in Requests /\ r.keys \subseteq Discovered
    /\ r.pc \in RolePcs => r.role \in RoleIds
    /\ r.pc \in PermPcs => r.perm \in 1..n /\ pm[r.perm] \notin Protected
    /\ \A p \in r.gone : pm[p] \notin Protected

RequestsOK == \A w \in Workers : RequestOK(req[w], perm, lastPerm)

SeedsOK == /\ \A p \in PermIds : p > lastPerm => perm[p] = NoKey
           /\ \A k \in Protected : HasKey(k)

IInv == TypeOK /\ SeedsOK /\ RequestsOK

\* No seeded permission changes, and no permission becomes a seeded one.
KeepsSeeded == \A p \in PermIds : perm[p] \in Protected \/ perm'[p] \in Protected
                                    => perm'[p] = perm[p]

\* Only an administrator's request for the role takes a seeded permission.
KeepsGranted ==
    \A p \in PermIds : perm[p] \in Protected =>
      \A g \in grants \ grants' : g[2] = p =>
        \E w \in Workers : /\ req[w].role = g[1] /\ req'[w] = NoRequest
                           /\ \/ At(w, "grant_remove") /\ req[w].perm = p
                              \/ At(w, "role_remove")

TablesOK  == /\ role \in [RoleIds -> Roles] /\ perm \in [PermIds -> Keys \cup {NoKey}]
             /\ grants \subseteq RoleIds \X PermIds
             /\ lastRole \in RoleIds /\ lastPerm \in 0..MaxPerms
HistoryOK == alone \subseteq Workers /\ synced \in BOOLEAN /\ changes \in 0..MaxChanges

Keeps == IInv' /\ KeepsSeeded /\ KeepsGranted

-----------------------------------------------------------------------------
(* The shape of requests.                                                  *)

LEMMA Typing == ASSUME IInv, NEW w \in Workers
                PROVE  /\ RequestOK(req[w], perm, lastPerm) /\ TablesOK /\ HistoryOK
                       /\ req \in [Workers -> Requests] /\ req[w] \in Requests
                       /\ \A p \in PermIds : p \in Nat
BY DEF IInv, RequestsOK, TypeOK, TablesOK, HistoryOK, PermIds

LEMMA IdleRequest == ASSUME NEW pm, NEW n
                     PROVE  RequestOK(NoRequest, pm, n)
<1>1. NoRequest \in Requests
  BY RbacAssumption DEF NoRequest, Requests, Pcs, Patches, Roles, Kept
<1>2. NoRequest.keys = {} /\ NoRequest.gone = {} /\ NoRequest.pc = "idle"
  BY DEF NoRequest
<1> QED
  BY <1>1, <1>2 DEF RequestOK, RolePcs, PermPcs

LEMMA Ranges ==
    /\ RoleIds \subseteq 0..MaxRoles /\ PermIds \subseteq 0..MaxPerms
    /\ Discovered \subseteq Keys /\ Protected \subseteq Keys
BY RbacAssumption DEF RoleIds, PermIds

LEMMA NoRequestTyped ==
    /\ NoRequest \in Requests
    /\ NoRequest.pc = "idle" /\ NoRequest.keys = {} /\ NoRequest.gone = {}
BY IdleRequest DEF RequestOK, NoRequest

\* A request stays good as permissions are created and no row becomes seeded.
LEMMA RequestKept ==
    ASSUME NEW r, NEW pm, NEW qm, NEW n \in Nat, NEW m \in Nat, n <= m,
           RequestOK(r, pm, n), \A p \in PermIds : qm[p] \in Protected => qm[p] = pm[p],
           n <= MaxPerms
    PROVE  RequestOK(r, qm, m)
<1>1. \A p \in PermIds : pm[p] \notin Protected => qm[p] \notin Protected
  OBVIOUS
<1>2. r.gone \subseteq PermIds
  BY DEF RequestOK, Requests
<1>3. 1..n \subseteq PermIds /\ 1..n \subseteq 1..m
  BY RbacAssumption DEF PermIds
<1> QED
  BY <1>1, <1>2, <1>3 DEF RequestOK

\* A request moves on to label l.
LEMMA GotoOK ==
    ASSUME NEW r, NEW pm, NEW n, RequestOK(r, pm, n), NEW l \in Pcs,
           l \in RolePcs => r.role \in RoleIds,
           l \in PermPcs => r.pc \in PermPcs
    PROVE  RequestOK([r EXCEPT !.pc = l], pm, n)
<1> DEFINE q == [r EXCEPT !.pc = l]
<1>1. /\ q \in Requests /\ q.pc = l /\ q.role = r.role /\ q.perm = r.perm
      /\ q.keys = r.keys /\ q.gone = r.gone
  BY DEF RequestOK, Requests
<1> HIDE DEF q
<1>2. RequestOK(q, pm, n)
  BY <1>1 DEF RequestOK
<1> QED
  BY <1>2 DEF q

-----------------------------------------------------------------------------
(* Steps.                                                                  *)

\* A step that gives request w the record q and keeps the tables good.
LEMMA TableStep ==
    ASSUME IInv, NEW w \in Workers, NEW q, RequestOK(q, perm', lastPerm'),
           req' = [req EXCEPT ![w] = q], TablesOK', HistoryOK', KeepsSeeded,
           lastPerm <= lastPerm', \A p \in PermIds : p > lastPerm' => perm'[p] = NoKey
    PROVE  IInv'
<1>1. q \in Requests
  BY DEF RequestOK
<1>2. TypeOK'
  BY <1>1 DEF TypeOK, TablesOK, HistoryOK, IInv
<1>3. SeedsOK'
  BY DEF SeedsOK, HasKey, KeepsSeeded, IInv
<1>4. ASSUME NEW v \in Workers
      PROVE  RequestOK(req'[v], perm', lastPerm')
  <2>1. CASE v = w
    BY <2>1, <1>2 DEF IInv, TypeOK
  <2>2. CASE v # w
    <3>1. req'[v] = req[v]
      BY <2>2 DEF IInv, TypeOK
    <3>2. /\ lastPerm \in Nat /\ lastPerm' \in Nat /\ lastPerm <= MaxPerms
          /\ RequestOK(req[v], perm, lastPerm)
      BY Typing, RbacAssumption DEF TablesOK
    <3>3. \A p \in PermIds : perm'[p] \in Protected => perm'[p] = perm[p]
      BY DEF KeepsSeeded
    <3> QED
      BY <3>1, <3>2, <3>3, RequestKept
  <2> QED
    BY <2>1, <2>2
<1> QED
  BY <1>2, <1>3, <1>4 DEF IInv, RequestsOK

\* A step that leaves the tables alone.
LEMMA RequestStep ==
    ASSUME IInv, NEW w \in Workers, NEW q, RequestOK(q, perm, lastPerm),
           req' = [req EXCEPT ![w] = q], UNCHANGED tables, HistoryOK'
    PROVE  Keeps
<1>1. UNCHANGED <<role, perm, grants, lastRole, lastPerm>>
  BY DEF tables
<1>2. TablesOK'
  BY <1>1, Typing DEF TablesOK
<1>3. KeepsSeeded /\ KeepsGranted
  BY <1>1 DEF KeepsSeeded, KeepsGranted
<1>4. lastPerm <= lastPerm' /\ \A p \in PermIds : p > lastPerm' => perm'[p] = NoKey
  BY <1>1, Typing DEF IInv, SeedsOK, TablesOK
<1>5. IInv'
  BY <1>1, <1>2, <1>3, <1>4, TableStep
<1> QED
  BY <1>3, <1>5 DEF Keeps

LEMMA GotoStep ==
    ASSUME IInv, NEW w \in Workers, NEW l \in Pcs, Goto(w, l), UNCHANGED <<tables, history>>,
           l \in RolePcs => req[w].role \in RoleIds,
           l \in PermPcs => req[w].pc \in PermPcs
    PROVE  Keeps
<1>1. HistoryOK'
  BY Typing DEF HistoryOK, history
<1>2. RequestOK([req[w] EXCEPT !.pc = l], perm, lastPerm)
  BY Typing, GotoOK
<1>3. req' = [req EXCEPT ![w] = [req[w] EXCEPT !.pc = l]]
  BY DEF Goto
<1> QED
  BY <1>1, <1>2, <1>3, RequestStep

LEMMA FinishStep ==
    ASSUME IInv, NEW w \in Workers, Finish(w), UNCHANGED tables, HistoryOK'
    PROVE  Keeps
BY IdleRequest, RequestStep DEF Finish

LEMMA HistoryStays == ASSUME IInv, UNCHANGED history, NEW w \in Workers PROVE HistoryOK'
BY Typing DEF HistoryOK, history

\* A step that ends the request and writes roles or grants only.
LEMMA RoleStep ==
    ASSUME IInv, NEW w \in Workers, Finish(w), HistoryOK', UNCHANGED <<perm, lastPerm>>,
           role' \in [RoleIds -> Roles], grants' \subseteq RoleIds \X PermIds,
           lastRole' \in RoleIds
    PROVE  IInv' /\ KeepsSeeded
<1>1. TablesOK'
  BY Typing DEF TablesOK
<1>2. KeepsSeeded
  BY DEF KeepsSeeded
<1>3. lastPerm <= lastPerm' /\ \A p \in PermIds : p > lastPerm' => perm'[p] = NoKey
  BY Typing DEF IInv, SeedsOK, TablesOK
<1>4. RequestOK(NoRequest, perm', lastPerm')
  BY IdleRequest
<1> QED
  BY <1>1, <1>2, <1>3, <1>4, TableStep DEF Finish

LEMMA BeginStep ==
    ASSUME IInv, NEW w \in Workers, NEW q, RequestOK(q, perm, lastPerm), Begin(w, q)
    PROVE  Keeps
<1>1. HistoryOK'
  <2>1. alone' = {} /\ synced' = FALSE /\ changes' = changes + 1 /\ changes < MaxChanges
    BY DEF Begin
  <2>2. changes' \in 0..MaxChanges
    BY <2>1, Typing, RbacAssumption DEF HistoryOK
  <2> QED
    BY <2>1, <2>2 DEF HistoryOK
<1> QED
  BY <1>1, RequestStep DEF Begin

-----------------------------------------------------------------------------
(* The actions that begin a request.                                       *)

\* A new request for a role, for a permission.
LEMMA NewRoleRequest ==
    ASSUME NEW pm, NEW n, NEW l \in Pcs, NEW r \in RoleIds, NEW patch \in Patches,
           l \notin PermPcs
    PROVE  RequestOK([NoRequest EXCEPT !.pc = l, !.role = r, !.patch = patch], pm, n)
<1> DEFINE q == [NoRequest EXCEPT !.pc = l, !.role = r, !.patch = patch]
<1>1. q \in Requests
  BY NoRequestTyped, Ranges DEF Requests
<1>2. q.pc = l /\ q.role = r /\ q.keys = {} /\ q.gone = {}
  BY NoRequestTyped, Ranges DEF Requests
<1> HIDE DEF q
<1>3. RequestOK(q, pm, n)
  BY <1>1, <1>2 DEF RequestOK
<1> QED
  BY <1>3 DEF q

LEMMA NewPermRequest ==
    ASSUME NEW pm, NEW n, NEW l \in Pcs, NEW p \in PermIds, NEW k \in Keys \cup {NoKey},
           l \notin RolePcs, p \in 1..n, pm[p] \notin Protected
    PROVE  RequestOK([NoRequest EXCEPT !.pc = l, !.perm = p, !.key = k], pm, n)
<1> DEFINE q == [NoRequest EXCEPT !.pc = l, !.perm = p, !.key = k]
<1>1. q \in Requests
  BY NoRequestTyped, Ranges DEF Requests
<1>2. q.pc = l /\ q.perm = p /\ q.keys = {} /\ q.gone = {}
  BY NoRequestTyped, Ranges DEF Requests
<1> HIDE DEF q
<1>3. RequestOK(q, pm, n)
  BY <1>1, <1>2 DEF RequestOK
<1> QED
  BY <1>3 DEF q

\* An administrator gets hold of permissions that are not reserved only.
LEMMA Unreserved ==
    ASSUME IInv, NEW p \in PermIds, perm[p] # NoKey, perm[p] \notin Reserved
    PROVE  p \in 1..lastPerm /\ perm[p] \notin Protected
<1>1. p <= lastPerm
  BY RbacAssumption DEF IInv, SeedsOK, TypeOK, PermIds
<1> QED
  BY <1>1, RbacAssumption DEF PermIds

LEMMA StartSteps ==
    ASSUME IInv, NEW w \in Workers, Start(w)
    PROVE  Keeps
<1> USE DEF Patches
<1>1. ASSUME NEW n \in Names, CreateRole(w, n)
      PROVE  Keeps
  <2> DEFINE q == [NoRequest EXCEPT !.pc = "role_insert",
                                    !.row = [state |-> "live", name |-> n]]
  <2>1. q \in Requests
    <3>1. [state |-> "live", name |-> n] \in Roles
      BY DEF Roles
    <3> QED
      BY <3>1, NoRequestTyped DEF Requests, Pcs
  <2>2. q.pc = "role_insert" /\ q.keys = {} /\ q.gone = {}
    BY NoRequestTyped, Ranges DEF Requests
  <2> HIDE DEF q
  <2>3. RequestOK(q, perm, lastPerm)
    BY <2>1, <2>2 DEF RequestOK, RolePcs, PermPcs
  <2>4. Begin(w, q)
    BY <1>1 DEF CreateRole, q
  <2> QED
    BY <2>3, <2>4, BeginStep
<1>2. ASSUME NEW r \in RoleIds, NEW patch \in [name : Names] \cup {Kept}, UpdateRole(w, r, patch)
      PROVE  Keeps
  <2> DEFINE l == IF patch = Kept THEN "role_find" ELSE "role_check"
  <2>1. l \in Pcs /\ l \notin PermPcs
    BY DEF Pcs, PermPcs
  <2>2. Begin(w, [NoRequest EXCEPT !.pc = l, !.role = r, !.patch = patch])
    BY <1>2 DEF UpdateRole
  <2> HIDE DEF l
  <2> QED
    BY <2>1, <2>2, NewRoleRequest, BeginStep
<1>3. ASSUME NEW r \in RoleIds, RestoreRole(w, r)
      PROVE  Keeps
  <2>1. "role_find" \in Pcs /\ "role_find" \notin PermPcs
    BY DEF Pcs, PermPcs
  <2> QED
    BY <1>3, <2>1, NewRoleRequest, BeginStep DEF RestoreRole
<1>4. ASSUME NEW r \in RoleIds, NEW force \in BOOLEAN, DeleteRole(w, r, force)
      PROVE  Keeps
  <2> DEFINE l == IF force THEN "role_remove" ELSE "role_find"
  <2>1. l \in Pcs /\ l \notin PermPcs
    BY DEF Pcs, PermPcs
  <2>2. Begin(w, [NoRequest EXCEPT !.pc = l, !.role = r, !.patch = [state |-> "deleted"]])
    BY <1>4 DEF DeleteRole
  <2> HIDE DEF l
  <2> QED
    BY <2>1, <2>2, NewRoleRequest, BeginStep
<1>5. ASSUME NEW r \in RoleIds, NEW p \in PermIds, RemoveGrant(w, r, p)
      PROVE  Keeps
  <2> DEFINE q == [NoRequest EXCEPT !.pc = "grant_remove", !.role = r, !.perm = p]
  <2>1. q \in Requests
    BY NoRequestTyped, Ranges DEF Requests, Pcs
  <2>2. q.pc = "grant_remove" /\ q.keys = {} /\ q.gone = {}
    BY NoRequestTyped, Ranges DEF Requests
  <2> HIDE DEF q
  <2>3. RequestOK(q, perm, lastPerm)
    BY <2>1, <2>2 DEF RequestOK, RolePcs, PermPcs
  <2>4. Begin(w, q)
    BY <1>5 DEF RemoveGrant, q
  <2> QED
    BY <2>3, <2>4, BeginStep
<1>6. ASSUME NEW r \in RoleIds, NEW S \in SUBSET PermIds, Assign(w, r, S)
      PROVE  Keeps
  <2> DEFINE q == [NoRequest EXCEPT !.pc = "as_perms", !.role = r, !.perms = S]
  <2>1. q \in Requests
    BY NoRequestTyped, Ranges DEF Requests, Pcs
  <2>2. q.pc = "as_perms" /\ q.role = r /\ q.keys = {} /\ q.gone = {}
    BY NoRequestTyped, Ranges DEF Requests
  <2> HIDE DEF q
  <2>3. RequestOK(q, perm, lastPerm)
    BY <2>1, <2>2 DEF RequestOK, RolePcs, PermPcs
  <2>4. Begin(w, q)
    BY <1>6 DEF Assign, q
  <2> QED
    BY <2>3, <2>4, BeginStep
<1>7. ASSUME NEW k \in Keys, CreatePermission(w, k)
      PROVE  Keeps
  <2> DEFINE q == [NoRequest EXCEPT !.pc = "perm_insert", !.key = k]
  <2>1. q \in Requests
    BY NoRequestTyped, Ranges DEF Requests, Pcs
  <2>2. q.pc = "perm_insert" /\ q.keys = {} /\ q.gone = {}
    BY NoRequestTyped, Ranges DEF Requests
  <2> HIDE DEF q
  <2>3. RequestOK(q, perm, lastPerm)
    BY <2>1, <2>2 DEF RequestOK, RolePcs, PermPcs
  <2>4. Begin(w, q)
    BY <1>7 DEF CreatePermission, q
  <2> QED
    BY <2>3, <2>4, BeginStep
<1>8. ASSUME NEW p \in PermIds, DeletePermission(w, p)
      PROVE  Keeps
  <2> DEFINE q == [NoRequest EXCEPT !.pc = "perm_remove", !.perm = p]
  <2>1. q \in Requests
    BY NoRequestTyped, Ranges DEF Requests, Pcs
  <2>2. q.pc = "perm_remove" /\ q.perm = p /\ q.keys = {} /\ q.gone = {}
    BY NoRequestTyped, Ranges DEF Requests
  <2>3. p \in 1..lastPerm /\ perm[p] \notin Protected
    BY <1>8, Unreserved DEF DeletePermission
  <2> HIDE DEF q
  <2>4. RequestOK(q, perm, lastPerm)
    BY <2>1, <2>2, <2>3 DEF RequestOK, RolePcs, PermPcs
  <2>5. Begin(w, q)
    BY <1>8 DEF DeletePermission, q
  <2> QED
    BY <2>4, <2>5, BeginStep
<1>9. ASSUME NEW p \in PermIds, NEW k \in Keys \cup {NoKey}, UpdatePermission(w, p, k)
      PROVE  Keeps
  <2> DEFINE l == IF k = NoKey THEN "perm_find" ELSE "perm_check"
  <2>1. l \in Pcs /\ l \notin RolePcs
    BY DEF Pcs, RolePcs
  <2>2. Begin(w, [NoRequest EXCEPT !.pc = l, !.perm = p, !.key = k])
    BY <1>9 DEF UpdatePermission
  <2>3. p \in 1..lastPerm /\ perm[p] \notin Protected
    BY <1>9, Unreserved DEF UpdatePermission
  <2> HIDE DEF l
  <2> QED
    BY <2>1, <2>2, <2>3, NewPermRequest, BeginStep
<1>10. CASE SyncStart(w)
  <2> DEFINE found == {p \in PermIds : perm[p] \in Discovered}
             l == IF Missing = {} THEN "sy_role" ELSE "sy_create"
             q == [NoRequest EXCEPT !.pc = l, !.keys = Missing, !.perms = found]
  <2>1. Missing \subseteq Discovered /\ found \subseteq PermIds
    BY DEF Missing
  <2>2. l \in Pcs /\ l \notin RolePcs /\ l \notin PermPcs
    BY DEF Pcs, RolePcs, PermPcs
  <2>3. /\ req' = [req EXCEPT ![w] = q] /\ UNCHANGED tables
        /\ alone' \subseteq alone \cup {w} /\ synced' = synced /\ changes' = changes
    BY <1>10 DEF SyncStart, SyncBegin
  <2>4. HistoryOK'
    BY <2>3, Typing DEF HistoryOK
  <2> HIDE DEF l, found
  <2>5. q \in Requests
    BY <2>1, <2>2, NoRequestTyped, Ranges DEF Requests
  <2>6. q.pc = l /\ q.keys = Missing /\ q.gone = {}
    BY NoRequestTyped, Ranges DEF Requests
  <2> HIDE DEF q
  <2>7. RequestOK(q, perm, lastPerm)
    BY <2>1, <2>2, <2>5, <2>6 DEF RequestOK
  <2> QED
    BY <2>3, <2>4, <2>7, RequestStep
<1> QED
  BY <1>1, <1>2, <1>3, <1>4, <1>5, <1>6, <1>7, <1>8, <1>9, <1>10 DEF Start

-----------------------------------------------------------------------------
(* The actions that continue a request.                                    *)

\* What merging a patch into a row that exists gives.
LEMMA MergeTyped ==
    ASSUME NEW patch \in Patches, NEW r \in Roles, r.state # "none"
    PROVE  Merge(patch, r) \in Roles
<1>1. NoRole.state = "none"
  BY DEF NoRole
<1>2. r \in [state : {"live", "deleted"}, name : Names]
  BY <1>1 DEF Roles
<1> DEFINE m == Merge(patch, r)
<1>3. /\ DOMAIN m = {"state", "name"} /\ m = [c \in {"state", "name"} |-> m[c]]
      /\ m["state"] \in {patch["state"], r["state"]} /\ m["name"] \in {patch["name"], r["name"]}
      /\ "state" \notin DOMAIN patch => m["state"] = r["state"]
      /\ "name" \notin DOMAIN patch => m["name"] = r["name"]
  BY <1>2 DEF Merge
<1> HIDE DEF m
<1>4. CASE patch \in [name : Names]
  <2>1. "state" \notin DOMAIN patch /\ patch["name"] \in Names
    BY <1>4
  <2>2. m["state"] \in {"live", "deleted"} /\ m["name"] \in Names
    BY <1>2, <1>3, <2>1
  <2> QED
    BY <1>3, <2>2 DEF Roles, m
<1>5. CASE patch \in [state : {"live", "deleted"}]
  <2>1. "name" \notin DOMAIN patch /\ patch["state"] \in {"live", "deleted"}
    BY <1>5
  <2>2. m["state"] \in {"live", "deleted"} /\ m["name"] \in Names
    BY <1>2, <1>3, <2>1
  <2> QED
    BY <1>3, <2>2 DEF Roles, m
<1>6. CASE patch = Kept
  <2>1. "name" \notin DOMAIN patch /\ "state" \notin DOMAIN patch
    BY <1>6 DEF Kept
  <2>2. m["state"] \in {"live", "deleted"} /\ m["name"] \in Names
    BY <1>2, <1>3, <2>1
  <2> QED
    BY <1>3, <2>2 DEF Roles, m
<1> QED
  BY <1>4, <1>5, <1>6 DEF Patches

\* The actions on roles.
LEMMA RoleSteps ==
    ASSUME IInv, NEW w \in Workers,
           \/ RoleInsert(w) \/ RoleCheck(w) \/ RoleFind(w) \/ RoleSave(w) \/ RoleRemove(w)
    PROVE  Keeps
<1> DEFINE r == req[w]
<1>t. /\ RequestOK(r, perm, lastPerm) /\ r \in Requests /\ r.row \in Roles /\ r.patch \in Patches
      /\ TablesOK
  BY Typing DEF Requests
<1>1. CASE RoleInsert(w)
  <2>1. Finish(w) /\ HistoryOK'
    BY <1>1, HistoryStays DEF RoleInsert, Ends
  <2>2. CASE UNCHANGED tables
    BY <2>1, <2>2, FinishStep
  <2>3. CASE ~UNCHANGED tables
    <3>1. /\ lastRole < MaxRoles /\ lastRole' = lastRole + 1
          /\ role' = [role EXCEPT ![lastRole + 1] = r.row]
          /\ UNCHANGED <<perm, grants, lastPerm>>
      BY <1>1, <2>3 DEF RoleInsert
    <3>2. role' \in [RoleIds -> Roles] /\ lastRole' \in RoleIds
      BY <1>t, <3>1, RbacAssumption DEF TablesOK, RoleIds
    <3>3. IInv' /\ KeepsSeeded
      BY <1>t, <2>1, <3>1, <3>2, RoleStep DEF TablesOK
    <3> QED
      BY <3>1, <3>3 DEF Keeps, KeepsGranted
  <2> QED
    BY <2>2, <2>3
<1>2. CASE RoleCheck(w)
  <2>1. r.role \in RoleIds /\ UNCHANGED <<tables, history>>
    BY <1>2, <1>t DEF RoleCheck, At, RequestOK, RolePcs
  <2>2. CASE Finish(w)
    BY <2>1, <2>2, HistoryStays, FinishStep
  <2>3. CASE Goto(w, "role_find")
    BY <2>1, <2>3, GotoStep DEF Pcs, PermPcs
  <2> QED
    BY <1>2, <2>2, <2>3 DEF RoleCheck
<1>3. CASE RoleFind(w)
  <2>1. r.role \in RoleIds /\ UNCHANGED <<tables, history>> /\ HistoryOK'
    BY <1>3, <1>t, HistoryStays DEF RoleFind, At, RequestOK, RolePcs
  <2>2. CASE ~Exists(r.role)
    BY <1>3, <2>1, <2>2, FinishStep DEF RoleFind
  <2>3. CASE Exists(r.role)
    <3> DEFINE new == Merge(r.patch, role[r.role])
               q == [r EXCEPT !.pc = "role_save", !.row = new]
    <3>1. new \in Roles
      BY <1>t, <2>1, <2>3, MergeTyped DEF Exists, TablesOK
    <3>2. req' = [req EXCEPT ![w] = q]
      BY <1>3, <2>3 DEF RoleFind
    <3> HIDE DEF new
    <3>3. /\ q \in Requests /\ q.pc = "role_save" /\ q.keys = r.keys /\ q.gone = r.gone
      BY <1>t, <3>1 DEF Requests, Pcs
    <3> HIDE DEF q
    <3>4. RequestOK(q, perm, lastPerm)
      BY <1>t, <3>3 DEF RequestOK, RolePcs, PermPcs
    <3> QED
      BY <2>1, <3>2, <3>4, RequestStep
  <2> QED
    BY <2>2, <2>3
<1>4. CASE RoleSave(w)
  <2>1. Finish(w) /\ HistoryOK' /\ UNCHANGED <<perm, grants, lastRole, lastPerm>>
    BY <1>4, HistoryStays DEF RoleSave, Ends
  <2>2. role' \in [RoleIds -> Roles]
    BY <1>4, <1>t DEF RoleSave, TablesOK
  <2>3. IInv' /\ KeepsSeeded
    BY <1>t, <2>1, <2>2, RoleStep DEF TablesOK
  <2> QED
    BY <2>1, <2>3 DEF Keeps, KeepsGranted
<1>5. CASE RoleRemove(w)
  <2>1. Finish(w) /\ HistoryOK' /\ At(w, "role_remove")
    BY <1>5, HistoryStays DEF RoleRemove, Ends
  <2>2. CASE UNCHANGED tables
    BY <2>1, <2>2, FinishStep
  <2>3. CASE ~UNCHANGED tables
    <3>1. /\ role' = [role EXCEPT ![r.role] = NoRole]
          /\ grants' = {g \in grants : g[1] # r.role}
          /\ UNCHANGED <<perm, lastRole, lastPerm>>
      BY <1>5, <2>3 DEF RoleRemove
    <3>2. role' \in [RoleIds -> Roles] /\ grants' \subseteq RoleIds \X PermIds
      BY <1>t, <3>1 DEF TablesOK, Roles
    <3>3. IInv' /\ KeepsSeeded
      BY <1>t, <2>1, <3>1, <3>2, RoleStep DEF TablesOK
    <3>4. \A g \in grants \ grants' : req[w].role = g[1]
      BY <3>1
    <3>5. req'[w] = NoRequest
      BY <2>1, Typing DEF Finish
    <3> QED
      BY <2>1, <3>3, <3>4, <3>5 DEF Keeps, KeepsGranted
  <2> QED
    BY <2>2, <2>3
<1> QED
  BY <1>1, <1>2, <1>3, <1>4, <1>5

\* A row that is not seeded, or that no one uses yet, gets a key that is not
\* seeded; the grants that go are not those of a seeded permission.
LEMMA PermStep ==
    ASSUME IInv, NEW w \in Workers, Finish(w), HistoryOK', UNCHANGED <<role, lastRole>>,
           perm' \in [PermIds -> Keys \cup {NoKey}], KeepsSeeded,
           lastPerm' \in 0..MaxPerms, lastPerm <= lastPerm',
           \A p \in PermIds : p > lastPerm' => perm'[p] = NoKey,
           grants' \subseteq grants,
           \A g \in grants \ grants' : perm[g[2]] \notin Protected
    PROVE  Keeps
<1>1. TablesOK'
  BY Typing DEF TablesOK
<1>2. RequestOK(NoRequest, perm', lastPerm')
  BY IdleRequest
<1>3. IInv'
  BY <1>1, <1>2, TableStep DEF Finish
<1>4. KeepsGranted
  BY DEF KeepsGranted
<1> QED
  BY <1>3, <1>4 DEF Keeps

\* The actions on permissions.
LEMMA PermSteps ==
    ASSUME IInv, NEW w \in Workers,
           \/ PermInsert(w) \/ PermCheck(w) \/ PermFind(w) \/ PermSave(w) \/ PermRemove(w)
    PROVE  Keeps
<1> DEFINE r == req[w]
<1>t. /\ RequestOK(r, perm, lastPerm) /\ r \in Requests /\ r.key \in Keys \cup {NoKey}
      /\ TablesOK /\ perm \in [PermIds -> Keys \cup {NoKey}] /\ lastPerm \in 0..MaxPerms
      /\ \A p \in PermIds : p \in Nat
  BY Typing DEF Requests, TablesOK
<1>s. /\ \A p \in PermIds : p > lastPerm => perm[p] = NoKey
      /\ \A k \in Protected : HasKey(k)
      /\ NoKey \notin Protected
  BY RbacAssumption, Ranges DEF IInv, SeedsOK
<1>1. CASE PermInsert(w)
  <2>1. Finish(w) /\ HistoryOK'
    BY <1>1, HistoryStays DEF PermInsert, Ends
  <2>2. CASE UNCHANGED tables
    BY <2>1, <2>2, FinishStep
  <2>3. CASE ~UNCHANGED tables
    <3>1. /\ lastPerm < MaxPerms /\ lastPerm' = lastPerm + 1 /\ ~HasKey(r.key)
          /\ perm' = [perm EXCEPT ![lastPerm + 1] = r.key]
          /\ UNCHANGED <<role, grants, lastRole>>
      BY <1>1, <2>3 DEF PermInsert
    <3>2. lastPerm + 1 \in PermIds /\ lastPerm' \in 0..MaxPerms /\ lastPerm <= lastPerm'
      BY <1>t, <3>1, RbacAssumption DEF PermIds
    <3>3. perm[lastPerm + 1] \notin Protected /\ r.key \notin Protected
      BY <1>t, <1>s, <3>1, <3>2, RbacAssumption
    <3>4. perm' \in [PermIds -> Keys \cup {NoKey}]
      BY <1>t, <3>1
    <3>5. KeepsSeeded
      BY <1>t, <3>1, <3>3 DEF KeepsSeeded
    <3>6. \A p \in PermIds : p > lastPerm' => perm'[p] = NoKey
      BY <1>t, <1>s, <3>1
    <3> QED
      BY <2>1, <3>1, <3>2, <3>4, <3>5, <3>6, PermStep
  <2> QED
    BY <2>2, <2>3
<1>2. CASE PermCheck(w)
  <2>1. r.pc \in PermPcs /\ UNCHANGED <<tables, history>>
    BY <1>2 DEF PermCheck, At, PermPcs
  <2>2. CASE Finish(w)
    BY <2>1, <2>2, HistoryStays, FinishStep
  <2>3. CASE Goto(w, "perm_find")
    BY <2>1, <2>3, GotoStep DEF Pcs, RolePcs
  <2> QED
    BY <1>2, <2>2, <2>3 DEF PermCheck
<1>3. CASE PermFind(w)
  <2>1. r.pc \in PermPcs /\ UNCHANGED <<tables, history>> /\ HistoryOK'
    BY <1>3, HistoryStays DEF PermFind, At, PermPcs
  <2>2. CASE perm[r.perm] = NoKey
    BY <1>3, <2>1, <2>2, FinishStep DEF PermFind
  <2>3. CASE perm[r.perm] # NoKey
    <3> DEFINE k == IF r.key = NoKey THEN perm[r.perm] ELSE r.key
               q == [r EXCEPT !.pc = "perm_save", !.key = k]
    <3>1. r.perm \in PermIds
      BY <1>t, <2>1, RbacAssumption DEF RequestOK, PermIds
    <3>2. k \in Keys \cup {NoKey}
      BY <1>t, <3>1
    <3>3. req' = [req EXCEPT ![w] = q]
      BY <1>3, <2>3 DEF PermFind
    <3> HIDE DEF k
    <3>4. /\ q \in Requests /\ q.pc = "perm_save" /\ q.keys = r.keys /\ q.gone = r.gone
          /\ q.perm = r.perm
      BY <1>t, <3>2 DEF Requests, Pcs
    <3> HIDE DEF q
    <3>5. RequestOK(q, perm, lastPerm)
      BY <1>t, <2>1, <3>4 DEF RequestOK, RolePcs
    <3> QED
      BY <2>1, <3>3, <3>5, RequestStep
  <2> QED
    BY <2>2, <2>3
<1>4. CASE PermSave(w)
  <2>1. Finish(w) /\ HistoryOK' /\ UNCHANGED <<role, grants, lastRole, lastPerm>>
    BY <1>4, HistoryStays DEF PermSave, Ends
  <2>2. r.perm \in 1..lastPerm /\ perm[r.perm] \notin Protected /\ r.perm \in PermIds
    BY <1>4, <1>t, RbacAssumption DEF PermSave, At, RequestOK, PermPcs, PermIds
  <2>3. CASE \E q \in PermIds \ {r.perm} : perm[q] = r.key
    <3>1. UNCHANGED tables
      BY <1>4, <2>1, <2>3 DEF PermSave, tables
    <3> QED
      BY <2>1, <3>1, FinishStep
  <2>4. CASE ~\E q \in PermIds \ {r.perm} : perm[q] = r.key
    <3>1. perm' = [perm EXCEPT ![r.perm] = r.key]
      BY <1>4, <2>4 DEF PermSave
    <3>2. r.key \notin Protected
      BY <1>s, <2>2, <2>4 DEF HasKey
    <3>3. perm' \in [PermIds -> Keys \cup {NoKey}]
      BY <1>t, <3>1
    <3>4. KeepsSeeded
      BY <1>t, <2>2, <3>1, <3>2 DEF KeepsSeeded
    <3>5. \A p \in PermIds : p > lastPerm' => perm'[p] = NoKey
      BY <1>t, <1>s, <2>1, <2>2, <3>1
    <3>6. lastPerm' \in 0..MaxPerms /\ lastPerm <= lastPerm'
      BY <1>t, <2>1
    <3> QED
      BY <2>1, <3>3, <3>4, <3>5, <3>6, PermStep
  <2> QED
    BY <2>3, <2>4
<1>5. CASE PermRemove(w)
  <2>1. /\ Finish(w) /\ HistoryOK' /\ UNCHANGED <<role, lastRole, lastPerm>>
        /\ perm' = [perm EXCEPT ![r.perm] = NoKey]
        /\ grants' = {g \in grants : g[2] # r.perm}
    BY <1>5, HistoryStays DEF PermRemove, Ends
  <2>2. perm[r.perm] \notin Protected
    BY <1>5, <1>t DEF PermRemove, At, RequestOK, PermPcs
  <2>3. perm' \in [PermIds -> Keys \cup {NoKey}]
    BY <1>t, <2>1
  <2>4. KeepsSeeded
    BY <1>t, <1>s, <2>1, <2>2 DEF KeepsSeeded
  <2>5. \A p \in PermIds : p > lastPerm' => perm'[p] = NoKey
    BY <1>t, <1>s, <2>1
  <2>6. lastPerm' \in 0..MaxPerms /\ lastPerm <= lastPerm'
    BY <1>t, <2>1
  <2>7. grants' \subseteq grants /\ \A g \in grants \ grants' : perm[g[2]] \notin Protected
    BY <2>1, <2>2
  <2> QED
    BY <2>1, <2>3, <2>4, <2>5, <2>6, <2>7, PermStep
<1> QED
  BY <1>1, <1>2, <1>3, <1>4, <1>5

\* The actions on grants.
LEMMA GrantSteps ==
    ASSUME IInv, NEW w \in Workers,
           GrantRemove(w) \/ AssignPerms(w) \/ AssignRead(w) \/ AssignInsert(w)
    PROVE  Keeps
<1> DEFINE r == req[w]
<1>t. /\ RequestOK(r, perm, lastPerm) /\ r \in Requests /\ r.perms \subseteq PermIds
      /\ TablesOK
  BY Typing DEF Requests
<1>d. Done(w) => Finish(w) /\ HistoryOK'
  BY Typing DEF Done, HistoryOK
<1>1. CASE GrantRemove(w)
  <2>1. /\ Finish(w) /\ HistoryOK' /\ UNCHANGED <<role, perm, lastRole, lastPerm>>
        /\ grants' = grants \ {<<r.role, r.perm>>} /\ At(w, "grant_remove")
    BY <1>1, HistoryStays DEF GrantRemove, Ends
  <2>2. IInv' /\ KeepsSeeded
    BY <1>t, <2>1, RoleStep DEF TablesOK
  <2>3. \A g \in grants \ grants' : g = <<r.role, r.perm>>
    BY <2>1
  <2>4. req'[w] = NoRequest
    BY <2>1, Typing DEF Finish
  <2> QED
    BY <2>1, <2>2, <2>3, <2>4 DEF Keeps, KeepsGranted
<1>2. CASE AssignPerms(w)
  <2>1. r.role \in RoleIds /\ UNCHANGED <<tables, history>>
    BY <1>2, <1>t DEF AssignPerms, At, RequestOK, RolePcs
  <2>2. CASE Finish(w)
    BY <2>1, <2>2, HistoryStays, FinishStep
  <2>3. CASE Goto(w, "as_read")
    BY <2>1, <2>3, GotoStep DEF Pcs, PermPcs
  <2> QED
    BY <1>2, <2>2, <2>3 DEF AssignPerms
<1>3. CASE AssignRead(w)
  <2> DEFINE S == {p \in r.perms : <<r.role, p>> \notin grants}
             q == [r EXCEPT !.pc = "as_insert", !.perms = S]
  <2>1. r.role \in RoleIds /\ UNCHANGED tables /\ S \subseteq PermIds
    BY <1>3, <1>t DEF AssignRead, At, RequestOK, RolePcs
  <2>2. CASE S = {}
    BY <1>3, <1>d, <2>1, <2>2, FinishStep DEF AssignRead
  <2>3. CASE S # {}
    <3>1. req' = [req EXCEPT ![w] = q] /\ HistoryOK'
      BY <1>3, <2>3, HistoryStays DEF AssignRead
    <3> HIDE DEF S
    <3>2. /\ q \in Requests /\ q.pc = "as_insert" /\ q.keys = r.keys /\ q.gone = r.gone
          /\ q.role = r.role
      BY <1>t, <2>1 DEF Requests, Pcs
    <3> HIDE DEF q
    <3>3. RequestOK(q, perm, lastPerm)
      BY <1>t, <2>1, <3>2 DEF RequestOK, PermPcs
    <3> QED
      BY <2>1, <3>1, <3>3, RequestStep
  <2> QED
    BY <2>2, <2>3
<1>4. CASE AssignInsert(w)
  <2>1. UNCHANGED <<role, perm, lastRole, lastPerm>> /\ r.role \in RoleIds
    BY <1>4, <1>t DEF AssignInsert, At, RequestOK, RolePcs
  <2>2. Finish(w) /\ HistoryOK'
    BY <1>4, <1>d, HistoryStays DEF AssignInsert, Ends
  <2>3. grants' = grants \/ grants' = grants \cup {r.role} \X r.perms
    BY <1>4 DEF AssignInsert
  <2>4. grants' \subseteq RoleIds \X PermIds
    BY <1>t, <2>1, <2>3 DEF TablesOK
  <2>5. IInv' /\ KeepsSeeded
    BY <1>t, <2>1, <2>2, <2>4, RoleStep DEF TablesOK
  <2> QED
    BY <2>3, <2>5 DEF Keeps, KeepsGranted
<1> QED
  BY <1>1, <1>2, <1>3, <1>4

\* A bijection from ids, extending the permissions by as many keys as there are ids.
LEMMA KeysAdded ==
    ASSUME NEW ids, NEW new, NEW f \in Bijection(ids, new), NEW pm,
           pm \in [PermIds -> Keys \cup {NoKey}], ids \subseteq PermIds, new \subseteq Keys,
           NEW qm, qm = [p \in PermIds |-> IF p \in ids THEN f[p] ELSE pm[p]]
    PROVE  /\ qm \in [PermIds -> Keys \cup {NoKey}]
           /\ \A p \in PermIds : p \in ids => qm[p] \in new
           /\ \A p \in PermIds : p \notin ids => qm[p] = pm[p]
<1>1. f \in [ids -> new]
  BY DEF Bijection, Injection
<1> QED
  BY <1>1

\* The actions of a synchronisation.
LEMMA SyncSteps ==
    ASSUME IInv, NEW w \in Workers,
           \/ SyncCreate(w) \/ SyncRole(w) \/ SyncOrphans(w) \/ SyncUnassign(w) \/ SyncPrune(w)
    PROVE  Keeps
<1> DEFINE r == req[w]
<1>t. /\ RequestOK(r, perm, lastPerm) /\ r \in Requests /\ r.perms \subseteq PermIds
      /\ r.gone \subseteq PermIds /\ TablesOK
      /\ perm \in [PermIds -> Keys \cup {NoKey}] /\ lastPerm \in 0..MaxPerms
      /\ \A p \in PermIds : p \in Nat
  BY Typing DEF Requests, TablesOK
<1>s. /\ \A p \in PermIds : p > lastPerm => perm[p] = NoKey
      /\ \A k \in Protected : HasKey(k)
      /\ NoKey \notin Protected
  BY RbacAssumption, Ranges DEF IInv, SeedsOK
<1>1. CASE SyncCreate(w)
  <2> DEFINE new == r.keys
             ids == lastPerm + 1 .. lastPerm + Cardinality(new)
  <2>1. HistoryOK' /\ At(w, "sy_create")
    BY <1>1, HistoryStays DEF SyncCreate
  <2>2. CASE \E k \in new : HasKey(k)
    BY <1>1, <2>1, <2>2, FinishStep DEF SyncCreate
  <2>3. CASE ~\E k \in new : HasKey(k)
    <3> DEFINE q == [r EXCEPT !.pc = "sy_role", !.perms = r.perms \cup ids]
    <3>1. /\ lastPerm + Cardinality(new) <= MaxPerms
          /\ lastPerm' = lastPerm + Cardinality(new)
          /\ UNCHANGED <<role, grants, lastRole>>
      BY <1>1, <2>3 DEF SyncCreate
    <3>a. req' = [req EXCEPT ![w] = q]
      BY <1>1, <2>3 DEF SyncCreate
    <3>2. PICK f \in Bijection(ids, new) :
                 perm' = [p \in PermIds |-> IF p \in ids THEN f[p] ELSE perm[p]]
      BY <1>1, <2>3 DEF SyncCreate
    <3>3. Cardinality(new) \in Nat /\ new \subseteq Keys
      <4>1. new \subseteq Discovered /\ IsFiniteSet(Discovered)
        BY <1>t, RbacAssumption DEF RequestOK
      <4> QED
        BY <4>1, Ranges, FS_Subset, FS_CardinalityType
    <3>4. /\ ids \subseteq PermIds /\ lastPerm <= lastPerm' /\ lastPerm' \in 0..MaxPerms
          /\ \A p \in ids : p > lastPerm /\ p <= lastPerm'
      BY <1>t, <3>1, <3>3, RbacAssumption DEF PermIds
    <3>5. new \cap Protected = {}
      BY <1>s, <2>3
    <3> HIDE DEF ids
    <3>6. /\ perm' \in [PermIds -> Keys \cup {NoKey}]
          /\ \A p \in PermIds : p \in ids => perm'[p] \in new
          /\ \A p \in PermIds : p \notin ids => perm'[p] = perm[p]
      BY <1>t, <3>2, <3>3, <3>4, KeysAdded
    <3>7. KeepsSeeded
      <4>1. \A p \in ids : perm[p] \notin Protected /\ perm'[p] \notin Protected
        BY <1>s, <3>4, <3>5, <3>6
      <4> QED
        BY <3>6, <4>1 DEF KeepsSeeded
    <3>8. \A p \in PermIds : p > lastPerm' => perm'[p] = NoKey
      BY <1>t, <1>s, <3>4, <3>6
    <3>9. TablesOK'
      BY <1>t, <3>1, <3>4, <3>6 DEF TablesOK
    <3>10. RequestOK(q, perm, lastPerm)
      <4>1. /\ q \in Requests /\ q.pc = "sy_role" /\ q.keys = r.keys /\ q.gone = r.gone
        BY <1>t, <3>4 DEF Requests, Pcs
      <4> HIDE DEF q
      <4> QED
        BY <1>t, <4>1 DEF RequestOK, RolePcs, PermPcs
    <3>11. RequestOK(q, perm', lastPerm')
      <4> HIDE DEF q
      <4>1. \A p \in PermIds : perm'[p] \in Protected => perm'[p] = perm[p]
        BY <3>7 DEF KeepsSeeded
      <4>2. lastPerm \in Nat /\ lastPerm' \in Nat /\ lastPerm <= MaxPerms
        BY <1>t, <3>4, RbacAssumption
      <4> QED
        BY <3>4, <3>10, <4>1, <4>2, RequestKept
    <3> HIDE DEF q
    <3>12. IInv'
      BY <2>1, <3>a, <3>4, <3>7, <3>8, <3>9, <3>11, TableStep
    <3> QED
      BY <3>1, <3>7, <3>12 DEF Keeps, KeepsGranted
  <2> QED
    BY <2>2, <2>3
<1>2. CASE SyncRole(w)
  <2>1. UNCHANGED <<tables, history>> /\ HistoryOK'
    BY <1>2, HistoryStays DEF SyncRole
  <2>2. CASE Finish(w)
    BY <2>1, <2>2, FinishStep
  <2>3. CASE ~Finish(w)
    <3>1. PICK a \in RoleIds : req' = [req EXCEPT ![w] = [@ EXCEPT !.pc = "sy_orphans", !.role = a]]
      BY <1>2, <2>3 DEF SyncRole
    <3> DEFINE q == [r EXCEPT !.pc = "sy_orphans", !.role = a]
    <3>2. req' = [req EXCEPT ![w] = q]
      BY <3>1
    <3>3. /\ q \in Requests /\ q.pc = "sy_orphans" /\ q.keys = r.keys /\ q.gone = r.gone
          /\ q.role = a
      BY <1>t, Ranges DEF Requests, Pcs
    <3> HIDE DEF q
    <3>4. RequestOK(q, perm, lastPerm)
      BY <1>t, <3>3 DEF RequestOK, PermPcs
    <3> QED
      BY <2>1, <3>2, <3>4, RequestStep
  <2> QED
    BY <2>2, <2>3
<1>3. CASE SyncOrphans(w)
  <2> DEFINE gone == {p \in PermIds : perm[p] \notin Discovered \cup Protected \cup {NoKey}}
             l == IF gone = {} THEN "as_perms" ELSE "sy_unassign"
             q == [r EXCEPT !.pc = l, !.gone = gone]
  <2>1. UNCHANGED <<tables, history>> /\ HistoryOK' /\ r.role \in RoleIds
    BY <1>3, <1>t, HistoryStays DEF SyncOrphans, At, RequestOK, RolePcs
  <2>2. req' = [req EXCEPT ![w] = q]
    BY <1>3 DEF SyncOrphans
  <2>3. gone \subseteq PermIds /\ \A p \in gone : perm[p] \notin Protected
    OBVIOUS
  <2>4. l \in Pcs /\ l \notin PermPcs
    BY DEF Pcs, PermPcs
  <2> HIDE DEF gone, l
  <2>5. q \in Requests /\ q.pc = l /\ q.keys = r.keys /\ q.gone = gone /\ q.role = r.role
    BY <1>t, <2>3, <2>4 DEF Requests
  <2> HIDE DEF q
  <2>6. RequestOK(q, perm, lastPerm)
    BY <1>t, <2>1, <2>3, <2>4, <2>5 DEF RequestOK
  <2> QED
    BY <2>1, <2>2, <2>6, RequestStep
<1>4. CASE SyncUnassign(w)
  <2>1. /\ Goto(w, "sy_prune") /\ HistoryOK' /\ r.role \in RoleIds
        /\ grants' = {g \in grants : g[2] \notin r.gone}
        /\ UNCHANGED <<role, perm, lastRole, lastPerm>>
    BY <1>4, <1>t, HistoryStays DEF SyncUnassign, At, RequestOK, RolePcs
  <2>2. RequestOK([r EXCEPT !.pc = "sy_prune"], perm, lastPerm)
    BY <1>t, <2>1, GotoOK DEF Pcs, PermPcs
  <2>3. TablesOK' /\ KeepsSeeded
    BY <1>t, <2>1 DEF TablesOK, KeepsSeeded
  <2>4. lastPerm <= lastPerm' /\ \A p \in PermIds : p > lastPerm' => perm'[p] = NoKey
    BY <1>t, <1>s, <2>1
  <2>5. IInv'
    BY <2>1, <2>2, <2>3, <2>4, TableStep DEF Goto
  <2>6. \A g \in grants \ grants' : perm[g[2]] \notin Protected
    BY <1>t, <2>1 DEF RequestOK
  <2> QED
    BY <2>3, <2>5, <2>6 DEF Keeps, KeepsGranted
<1>5. CASE SyncPrune(w)
  <2>1. /\ Goto(w, "as_perms") /\ HistoryOK' /\ r.role \in RoleIds
        /\ perm' = [p \in PermIds |-> IF p \in r.gone THEN NoKey ELSE perm[p]]
        /\ grants' = {g \in grants : g[2] \notin r.gone}
        /\ UNCHANGED <<role, lastRole, lastPerm>>
    BY <1>5, <1>t, HistoryStays DEF SyncPrune, At, RequestOK, RolePcs
  <2>2. \A p \in r.gone : perm[p] \notin Protected
    BY <1>t DEF RequestOK
  <2>3. perm' \in [PermIds -> Keys \cup {NoKey}]
    BY <1>t, <2>1
  <2>4. KeepsSeeded
    BY <1>s, <2>1, <2>2 DEF KeepsSeeded
  <2>5. TablesOK'
    BY <1>t, <2>1, <2>3 DEF TablesOK
  <2>6. lastPerm <= lastPerm' /\ \A p \in PermIds : p > lastPerm' => perm'[p] = NoKey
    BY <1>t, <1>s, <2>1
  <2>7. RequestOK([r EXCEPT !.pc = "as_perms"], perm', lastPerm')
    <3>1. RequestOK([r EXCEPT !.pc = "as_perms"], perm, lastPerm)
      BY <1>t, <2>1, GotoOK DEF Pcs, PermPcs
    <3>2. \A p \in PermIds : perm'[p] \in Protected => perm'[p] = perm[p]
      BY <2>4 DEF KeepsSeeded
    <3>3. lastPerm \in Nat /\ lastPerm' \in Nat /\ lastPerm <= MaxPerms
      BY <1>t, <2>1, RbacAssumption
    <3> QED
      BY <2>6, <3>1, <3>2, <3>3, RequestKept
  <2>8. IInv'
    BY <2>1, <2>4, <2>5, <2>6, <2>7, TableStep DEF Goto
  <2>9. \A g \in grants \ grants' : perm[g[2]] \notin Protected
    BY <2>1, <2>2
  <2> QED
    BY <2>4, <2>8, <2>9 DEF Keeps, KeepsGranted
<1> QED
  BY <1>1, <1>2, <1>3, <1>4, <1>5

-----------------------------------------------------------------------------
(* The theorems.                                                           *)

\* The migrations seed every protected key.
LEMMA InitHolds == Init => IInv
<1> SUFFICES ASSUME Init PROVE IInv
  OBVIOUS
<1> DEFINE seeded == 1..Cardinality(Protected)
<1>1. Cardinality(Protected) \in Nat
  BY RbacAssumption, FS_CardinalityType
<1>2. seeded \subseteq PermIds /\ Cardinality(Protected) \in 0..MaxPerms
  BY <1>1, RbacAssumption DEF PermIds
<1>3. PICK f \in Bijection(seeded, Protected) :
             perm = [p \in PermIds |-> IF p \in seeded THEN f[p] ELSE NoKey]
  BY DEF Init
<1>4. f \in [seeded -> Protected] /\ \A k \in Protected : \E p \in seeded : f[p] = k
  BY DEF Bijection, Injection, Surjection
<1>5. lastPerm = Cardinality(Protected) /\ \A p \in PermIds : p > lastPerm => p \notin seeded
  BY <1>1 DEF Init, PermIds
<1> HIDE DEF seeded
<1>6. perm \in [PermIds -> Keys \cup {NoKey}]
  BY <1>3, <1>4, Ranges
<1>7. SeedsOK
  BY <1>2, <1>3, <1>4, <1>5 DEF SeedsOK, HasKey
<1>8. role \in [RoleIds -> Roles] /\ lastRole \in RoleIds
  <2>1. 2 \in RoleIds
    BY RbacAssumption DEF RoleIds
  <2>2. role = [r \in RoleIds |-> IF r = UserRole THEN [state |-> "live", name |-> "User"]
                                  ELSE IF r = AdminRole THEN [state |-> "live", name |-> "Admin"]
                                  ELSE NoRole] /\ lastRole = 2
    BY DEF Init
  <2>3. /\ [state |-> "live", name |-> "User"] \in Roles
        /\ [state |-> "live", name |-> "Admin"] \in Roles /\ NoRole \in Roles
    BY RbacAssumption DEF Roles
  <2> QED
    BY <2>1, <2>2, <2>3
<1>9. grants \subseteq RoleIds \X PermIds
  BY <1>2, RbacAssumption DEF Init, RoleIds, AdminRole, seeded
<1>10. \A w \in Workers : req[w] = NoRequest
  BY DEF Init
<1>11. req \in [Workers -> Requests]
  BY NoRequestTyped DEF Init
<1>12. alone \subseteq Workers /\ synced \in BOOLEAN /\ changes \in 0..MaxChanges
  <2>1. alone = {} /\ synced = FALSE /\ changes = 0
    BY DEF Init
  <2>2. 0 \in 0..MaxChanges
    BY RbacAssumption
  <2> QED
    BY <2>1, <2>2
<1>13. RequestsOK
  BY <1>10, IdleRequest DEF RequestsOK
<1> QED
  BY <1>2, <1>5, <1>6, <1>7, <1>8, <1>9, <1>11, <1>12, <1>13 DEF IInv, TypeOK

LEMMA AbortStep == ASSUME IInv, NEW w \in Workers, Abort(w) PROVE Keeps
<1>1. Finish(w) /\ UNCHANGED <<tables, synced, changes>> /\ alone' \subseteq alone
  BY DEF Abort
<1>2. HistoryOK'
  BY <1>1, Typing DEF HistoryOK
<1> QED
  BY <1>1, <1>2, FinishStep

LEMMA NextKeeps == IInv /\ [Next]_vars => Keeps
<1> SUFFICES ASSUME IInv, [Next]_vars PROVE Keeps
  OBVIOUS
<1>1. ASSUME NEW w \in Workers, Start(w) \/ Continue(w) \/ Abort(w) PROVE Keeps
  BY <1>1, StartSteps, RoleSteps, PermSteps, GrantSteps, SyncSteps, AbortStep DEF Continue
<1>2. CASE UNCHANGED vars
  <2>1. UNCHANGED <<role, perm, grants, lastRole, lastPerm, req, alone, synced, changes>>
    BY <1>2 DEF vars, tables, history
  <2>2. IInv'
    BY <2>1 DEF IInv, TypeOK, SeedsOK, HasKey, RequestsOK, RequestOK
  <2> QED
    BY <2>1, <2>2 DEF Keeps, KeepsSeeded, KeepsGranted
<1> QED
  BY <1>1, <1>2 DEF Next

\* However requests and synchronisations overlap, every seeded key has a row
\* and no request holds the id of a seeded permission that it would change.
THEOREM RbacInvariant == Spec => []IInv
<1>1. IInv /\ [Next]_vars => IInv'
  BY NextKeeps DEF Keeps
<1> QED
  BY InitHolds, <1>1, PTL DEF Spec

\* The tables and the requests keep their types: every row has a key and a name
\* of the ones there are, and every grant is between ids the sequences issued.
THEOREM TypeOKHolds == Spec => []TypeOK
<1>1. IInv => TypeOK
  BY DEF IInv
<1> QED
  BY RbacInvariant, <1>1, PTL

\* "These keys are always retained on the Admin role during a sync": no step
\* renames or removes a seeded permission, and only an administrator's request
\* for that very role takes it from the role.
THEOREM ProtectedKeptHolds == Spec => ProtectedKept
<1>1. IInv /\ [Next]_vars =>
        [\A p \in PermIds : perm[p] \in Protected =>
           /\ perm'[p] = perm[p]
           /\ \A g \in grants \ grants' : g[2] = p =>
                \E w \in Workers : /\ req[w].role = g[1] /\ req'[w] = NoRequest
                                   /\ \/ At(w, "grant_remove") /\ req[w].perm = p
                                      \/ At(w, "role_remove")]_vars
  <2> SUFFICES ASSUME IInv, [Next]_vars, NEW p \in PermIds, perm[p] \in Protected
               PROVE  /\ perm'[p] = perm[p]
                      /\ \A g \in grants \ grants' : g[2] = p =>
                           \E w \in Workers : /\ req[w].role = g[1] /\ req'[w] = NoRequest
                                              /\ \/ At(w, "grant_remove") /\ req[w].perm = p
                                                 \/ At(w, "role_remove")
    OBVIOUS
  <2>1. KeepsSeeded /\ KeepsGranted
    BY NextKeeps DEF Keeps
  <2> QED
    BY <2>1 DEF KeepsSeeded, KeepsGranted
<1> QED
  BY RbacInvariant, <1>1, PTL DEF Spec, ProtectedKept

-----------------------------------------------------------------------------
(* What a synchronisation leaves.                                          *)

\* The labels of a synchronisation, those at which it has found the admin role,
\* and those of the assignment that ends it.
SyncPcs  == {"sy_create", "sy_role", "sy_orphans", "sy_unassign", "sy_prune",
             "as_perms", "as_read", "as_insert"}
WithRole == SyncPcs \ {"sy_create", "sy_role"}
Assigns  == {"as_perms", "as_read", "as_insert"}

\* The keys that are no orphans.
Listed == Discovered \cup Protected \cup {NoKey}

\* Every declared key is that of a row in S or of one that role r has.
Covers(pm, gr, r, S) ==
    \A k \in Discovered : \E p \in PermIds : pm[p] = k /\ (p \in S \/ <<r, p>> \in gr)

IsAdmin(a) == a.state = "live" /\ a.name = "Admin"

\* What holds of a synchronisation that nothing but synchronisations overlaps.
SyncOK(q, rl, pm, gr, n) ==
    /\ q.pc \in SyncPcs
    /\ q.pc = "sy_create" => \A k \in Discovered : k \in q.keys \/ \E p \in q.perms : pm[p] = k
    /\ q.pc \notin {"sy_create", "as_insert"} => \A k \in Discovered : \E p \in q.perms : pm[p] = k
    /\ q.pc = "as_insert" => Covers(pm, gr, q.role, q.perms)
    /\ q.pc \in WithRole => IsAdmin(rl[q.role])
    /\ q.pc \in {"sy_unassign", "sy_prune"} => \A p \in PermIds : pm[p] \in Listed \/ p \in q.gone
    /\ q.pc \in Assigns => \A p \in PermIds : pm[p] \in Listed
    /\ \A p \in q.gone : p <= n /\ pm[p] \notin Discovered

\* What it leaves when it has ended.
Granted(rl, pm, gr) ==
    /\ \E r \in RoleIds : IsAdmin(rl[r]) /\ Covers(pm, gr, r, {})
    /\ \A p \in PermIds : pm[p] \in Listed

OnlySyncs == \A w \in Workers : At(w, "idle") \/ w \in alone

SInv ==
    /\ synced \/ alone # {} => OnlySyncs
    /\ \A w \in alone : At(w, "idle") \/ SyncOK(req[w], role, perm, grants, lastPerm)
    /\ synced => Granted(role, perm, grants)

\* A step of a synchronisation leaves declared rows, their grants and the roles
\* alone, creates declared rows only, and removes others.
Stable ==
    /\ role' = role /\ lastPerm <= lastPerm' /\ lastPerm' \in Nat
    /\ \A p \in PermIds : perm[p] \in Discovered => perm'[p] = perm[p]
    /\ \A p \in PermIds : perm'[p] \in Listed \/ perm'[p] = perm[p]
    /\ \A p \in PermIds : p <= lastPerm /\ perm[p] \notin Discovered => perm'[p] \notin Discovered
    /\ \A g \in grants : perm[g[2]] \in Discovered => g \in grants'

LEMMA CoversStable ==
    ASSUME IInv, Stable, NEW r, NEW S, Covers(perm, grants, r, S)
    PROVE  Covers(perm', grants', r, S)
<1> SUFFICES ASSUME NEW k \in Discovered
             PROVE  \E p \in PermIds : perm'[p] = k /\ (p \in S \/ <<r, p>> \in grants')
  BY DEF Covers
<1>1. PICK p \in PermIds : perm[p] = k /\ (p \in S \/ <<r, p>> \in grants)
  BY DEF Covers
<1>2. perm'[p] = k
  BY <1>1 DEF Stable
<1>3. <<r, p>> \in grants => <<r, p>> \in grants'
  <2>1. <<r, p>>[2] = p
    OBVIOUS
  <2> QED
    BY <1>1, <2>1 DEF Stable
<1> QED
  BY <1>1, <1>2, <1>3

LEMMA SyncOKStable ==
    ASSUME IInv, Stable, NEW q \in Requests, SyncOK(q, role, perm, grants, lastPerm)
    PROVE  SyncOK(q, role', perm', grants', lastPerm')
<1>1. /\ q.perms \subseteq PermIds /\ q.gone \subseteq PermIds /\ PermIds \subseteq Nat
      /\ lastPerm \in Nat
  BY DEF Requests, IInv, TypeOK, PermIds
<1>2. \A k \in Discovered : (\E p \in q.perms : perm[p] = k) => \E p \in q.perms : perm'[p] = k
  BY <1>1 DEF Stable
<1>3. q.pc = "as_insert" => Covers(perm', grants', q.role, q.perms)
  BY CoversStable DEF SyncOK
<1>4. q.pc \in WithRole => IsAdmin(role'[q.role])
  BY DEF SyncOK, Stable
<1>5. q.pc \in {"sy_unassign", "sy_prune"} => \A p \in PermIds : perm'[p] \in Listed \/ p \in q.gone
  BY DEF SyncOK, Stable
<1>6. q.pc \in Assigns => \A p \in PermIds : perm'[p] \in Listed
  BY DEF SyncOK, Stable
<1>7. ASSUME NEW p \in q.gone
      PROVE  p <= lastPerm' /\ perm'[p] \notin Discovered
  <2>1. p \in PermIds /\ p \in Nat /\ p <= lastPerm /\ perm[p] \notin Discovered
    BY <1>1 DEF SyncOK
  <2>2. perm'[p] \notin Discovered /\ lastPerm <= lastPerm' /\ lastPerm' \in Nat
    BY <2>1 DEF Stable
  <2> QED
    BY <1>1, <2>1, <2>2
<1> QED
  BY <1>2, <1>3, <1>4, <1>5, <1>6, <1>7 DEF SyncOK

LEMMA GrantedStable ==
    ASSUME IInv, Stable, Granted(role, perm, grants)
    PROVE  Granted(role', perm', grants')
<1>1. PICK r \in RoleIds : IsAdmin(role[r]) /\ Covers(perm, grants, r, {})
  BY DEF Granted
<1>2. IsAdmin(role'[r]) /\ Covers(perm', grants', r, {})
  BY <1>1, CoversStable DEF Stable
<1>3. \A p \in PermIds : perm'[p] \in Listed
  BY DEF Granted, Stable
<1> QED
  BY <1>2, <1>3 DEF Granted

LEMMA UnchangedStable == ASSUME IInv, UNCHANGED tables PROVE Stable
<1>1. UNCHANGED <<role, perm, grants, lastRole, lastPerm>> /\ lastPerm \in Nat
  BY Typing DEF tables, IInv, TypeOK
<1> QED
  BY <1>1 DEF Stable

\* A step of a request beside which there are synchronisations only.
LEMMA AloneStep ==
    ASSUME IInv, SInv, NEW w \in Workers, NEW q, req' = [req EXCEPT ![w] = q], Stable,
           \A v \in Workers \ {w} : At(v, "idle") \/ v \in alone,
           \A v \in Workers \ {w} : v \in alone' <=> v \in alone,
           alone' \subseteq Workers,
           \/ q.pc = "idle"
           \/ w \in alone' /\ SyncOK(q, role', perm', grants', lastPerm'),
           synced' => synced \/ Granted(role', perm', grants')
    PROVE  SInv'
<1>1. req'[w] = q /\ \A v \in Workers \ {w} : req'[v] = req[v]
  BY DEF IInv, TypeOK
<1>2. OnlySyncs'
  BY <1>1 DEF OnlySyncs, At
<1>3. ASSUME NEW v \in alone', v # w
      PROVE  At(v, "idle")' \/ SyncOK(req'[v], role', perm', grants', lastPerm')
  <2>1. v \in Workers /\ v \in alone /\ req'[v] = req[v] /\ req[v] \in Requests
    BY <1>1, <1>3 DEF IInv, TypeOK
  <2>2. At(v, "idle") \/ SyncOK(req[v], role, perm, grants, lastPerm)
    BY <2>1 DEF SInv
  <2> QED
    BY <2>1, <2>2, SyncOKStable DEF At
<1>4. \A v \in alone' : At(v, "idle")' \/ SyncOK(req'[v], role', perm', grants', lastPerm')
  BY <1>1, <1>3 DEF At
<1>5. synced' => Granted(role', perm', grants')
  BY GrantedStable DEF SInv
<1> QED
  BY <1>2, <1>4, <1>5 DEF SInv

\* A step after which no synchronisation is left to itself.
LEMMA OverlapStep == ASSUME alone' = {}, ~synced' PROVE SInv'
BY DEF SInv

\* A request that is in flight beside synchronisations only is one of them.
LEMMA InFlight ==
    ASSUME IInv, SInv, NEW w \in Workers, ~At(w, "idle"), synced \/ alone # {}
    PROVE  /\ w \in alone /\ SyncOK(req[w], role, perm, grants, lastPerm)
           /\ \A v \in Workers : At(v, "idle") \/ v \in alone
BY DEF SInv, OnlySyncs

\* An administrator's request begins, goes on or ends.
LEMMA ChangeStep ==
    ASSUME IInv, SInv, NEW w \in Workers,
           \/ alone' = {} /\ ~synced'
           \/ ~At(w, "idle") /\ req[w].pc \notin SyncPcs /\ UNCHANGED history
    PROVE  SInv'
<1>1. CASE alone' = {} /\ ~synced'
  BY <1>1, OverlapStep
<1>2. CASE ~At(w, "idle") /\ req[w].pc \notin SyncPcs /\ UNCHANGED history
  <2>1. ~synced /\ alone = {}
    BY <1>2, InFlight DEF SyncOK
  <2> QED
    BY <1>2, <2>1, OverlapStep DEF history
<1> QED
  BY <1>1, <1>2

\* A step of a synchronisation: unless it is left to itself, nothing is claimed.
LEMMA SyncStep ==
    ASSUME IInv, SInv, NEW w \in Workers, ~At(w, "idle"), NEW q,
           req' = [req EXCEPT ![w] = q], UNCHANGED history,
           SyncOK(req[w], role, perm, grants, lastPerm)
             => Stable /\ (q.pc = "idle" \/ SyncOK(q, role', perm', grants', lastPerm'))
    PROVE  SInv'
<1>1. CASE ~synced /\ alone = {}
  BY <1>1, OverlapStep DEF history
<1>2. CASE synced \/ alone # {}
  <2>1. /\ w \in alone /\ SyncOK(req[w], role, perm, grants, lastPerm)
        /\ \A v \in Workers : At(v, "idle") \/ v \in alone
    BY <1>2, InFlight
  <2>2. alone' = alone /\ synced' = synced /\ alone \subseteq Workers
    BY DEF history, IInv, TypeOK
  <2> QED
    BY <2>1, <2>2, AloneStep
<1> QED
  BY <1>1, <1>2

LEMMA IdlePc == NoRequest.pc = "idle"
BY DEF NoRequest

LEMMA FinishSync ==
    ASSUME IInv, SInv, NEW w \in Workers, ~At(w, "idle"), Finish(w), UNCHANGED history,
           UNCHANGED tables
    PROVE  SInv'
BY IdlePc, UnchangedStable, SyncStep DEF Finish

\* The requests that are no synchronisations.
LEMMA StartKeepsSync == ASSUME IInv, SInv, NEW w \in Workers, Start(w) PROVE SInv'
<1>1. CASE ~SyncStart(w)
  <2>1. \E r : Begin(w, r)
    BY <1>1 DEF Start, CreateRole, UpdateRole, RestoreRole, DeleteRole, RemoveGrant, Assign,
                CreatePermission, DeletePermission, UpdatePermission
  <2>2. alone' = {} /\ ~synced'
    BY <2>1 DEF Begin
  <2> QED
    BY <2>2, ChangeStep
<1>2. CASE SyncStart(w)
  <2> DEFINE found == {p \in PermIds : perm[p] \in Discovered}
             l == IF Missing = {} THEN "sy_role" ELSE "sy_create"
             q == [NoRequest EXCEPT !.pc = l, !.keys = Missing, !.perms = found]
  <2>1. /\ At(w, "idle") /\ req' = [req EXCEPT ![w] = q] /\ UNCHANGED tables /\ synced' = synced
        /\ alone' = IF OnlySyncs THEN alone \cup {w} ELSE alone \ {w}
    BY <1>2 DEF SyncStart, SyncBegin, OnlySyncs
  <2>2. Stable /\ UNCHANGED <<role, perm, grants, lastPerm>>
    BY <2>1, UnchangedStable DEF tables
  <2>3. CASE ~OnlySyncs
    <3>1. ~synced /\ alone = {}
      BY <2>3 DEF SInv
    <3> QED
      BY <2>1, <2>3, <3>1, OverlapStep
  <2>4. CASE OnlySyncs
    <3>1. \A k \in Discovered : k \in Missing \/ \E p \in found : perm[p] = k
      BY DEF Missing, HasKey
    <3>2. l \in {"sy_role", "sy_create"} /\ (l = "sy_role" => Missing = {})
      OBVIOUS
    <3>3. q.pc = l /\ q.keys = Missing /\ q.perms = found /\ q.gone = {}
      BY DEF NoRequest
    <3> HIDE DEF l, found, q
    <3>4. SyncOK(q, role, perm, grants, lastPerm)
      BY <3>1, <3>2, <3>3 DEF SyncOK, SyncPcs, WithRole, Assigns
    <3>5. alone' = alone \cup {w} /\ alone \subseteq Workers
      BY <2>1, <2>4 DEF IInv, TypeOK
    <3> QED
      BY <2>1, <2>2, <2>4, <3>4, <3>5, AloneStep DEF OnlySyncs
  <2> QED
    BY <2>3, <2>4
<1> QED
  BY <1>1, <1>2

LEMMA ChangesKeepSync ==
    ASSUME IInv, SInv, NEW w \in Workers,
           \/ RoleInsert(w) \/ RoleCheck(w) \/ RoleFind(w) \/ RoleSave(w) \/ RoleRemove(w)
           \/ PermInsert(w) \/ PermCheck(w) \/ PermFind(w) \/ PermSave(w) \/ PermRemove(w)
           \/ GrantRemove(w)
    PROVE  SInv'
<1>1. /\ UNCHANGED history
      /\ req[w].pc \in {"role_insert", "role_check", "role_find", "role_save", "role_remove",
                        "perm_insert", "perm_check", "perm_find", "perm_save", "perm_remove",
                        "grant_remove"}
  BY DEF RoleInsert, RoleCheck, RoleFind, RoleSave, RoleRemove, PermInsert, PermCheck, PermFind,
         PermSave, PermRemove, GrantRemove, Ends, At, history
<1> QED
  BY <1>1, ChangeStep DEF SyncPcs, At

LEMMA AbortKeepsSync == ASSUME IInv, SInv, NEW w \in Workers, Abort(w) PROVE SInv'
<1>1. /\ ~At(w, "idle") /\ req' = [req EXCEPT ![w] = NoRequest] /\ alone' = alone \ {w}
      /\ UNCHANGED tables /\ synced' = synced
  BY DEF Abort, Finish
<1>2. CASE ~synced /\ alone = {}
  BY <1>1, <1>2, OverlapStep
<1>3. CASE synced \/ alone # {}
  <2>1. \A v \in Workers : At(v, "idle") \/ v \in alone
    BY <1>1, <1>3, InFlight
  <2>2. alone \subseteq Workers
    BY DEF IInv, TypeOK
  <2> QED
    BY <1>1, <2>1, <2>2, IdlePc, UnchangedStable, AloneStep
<1> QED
  BY <1>2, <1>3

\* The assignment that ends a synchronisation.
LEMMA AssignsKeepSync ==
    ASSUME IInv, SInv, NEW w \in Workers, AssignPerms(w) \/ AssignRead(w) \/ AssignInsert(w)
    PROVE  SInv'
<1> DEFINE r == req[w]
<1>t. /\ r \in Requests /\ r.perms \subseteq PermIds /\ TablesOK /\ alone \subseteq Workers
      /\ ~At(w, "idle") /\ RequestOK(r, perm, lastPerm)
      /\ r.pc \in {"as_perms", "as_read", "as_insert"} /\ r.role \in RoleIds
  BY Typing DEF Requests, HistoryOK, AssignPerms, AssignRead, AssignInsert, At, RequestOK, RolePcs
\* It ends: what the role has with what is inserted covers the declared keys.
<1>d. ASSUME Done(w), UNCHANGED <<role, perm, lastPerm>>, grants \subseteq grants',
             SyncOK(r, role, perm, grants, lastPerm) => Covers(perm, grants', r.role, {})
      PROVE  SInv'
  <2>1. /\ req' = [req EXCEPT ![w] = NoRequest] /\ alone' = alone \ {w}
        /\ synced' = (synced \/ w \in alone)
    BY <1>d DEF Done, Finish
  <2>2. CASE ~synced /\ alone = {}
    BY <2>1, <2>2, OverlapStep
  <2>3. CASE synced \/ alone # {}
    <3>1. /\ w \in alone /\ SyncOK(r, role, perm, grants, lastPerm)
          /\ \A v \in Workers : At(v, "idle") \/ v \in alone
      BY <1>t, <2>3, InFlight
    <3>2. Stable
      BY <1>d, <1>t DEF Stable, TablesOK
    <3>3. Granted(role', perm', grants')
      <4>1. IsAdmin(role[r.role]) /\ \A p \in PermIds : perm[p] \in Listed
        BY <1>t, <3>1 DEF SyncOK, WithRole, Assigns, SyncPcs
      <4>2. Covers(perm, grants', r.role, {})
        BY <1>d, <3>1
      <4>3. UNCHANGED <<role, perm>>
        BY <1>d
      <4> QED
        BY <1>t, <4>1, <4>2, <4>3 DEF Granted
    <3>4. /\ \A v \in Workers \ {w} : v \in alone' <=> v \in alone
          /\ alone' \subseteq Workers
      BY <1>t, <2>1
    <3> HIDE DEF r
    <3> QED
      BY <2>1, <3>1, <3>2, <3>3, <3>4, IdlePc, AloneStep
  <2> QED
    BY <2>2, <2>3
<1>1. CASE AssignPerms(w)
  <2>1. UNCHANGED <<tables, history>>
    BY <1>1 DEF AssignPerms
  <2>2. CASE Finish(w)
    BY <1>t, <2>1, <2>2, FinishSync
  <2>3. CASE Goto(w, "as_read")
    <3> DEFINE q == [r EXCEPT !.pc = "as_read"]
    <3>1. /\ q.pc = "as_read" /\ q.role = r.role /\ q.perms = r.perms /\ q.gone = r.gone
          /\ r.pc = "as_perms"
      BY <1>1, <1>t DEF Requests, AssignPerms, At
    <3>2. req' = [req EXCEPT ![w] = q]
      BY <2>3 DEF Goto
    <3> HIDE DEF q
    <3>3. Stable /\ UNCHANGED <<role, perm, grants, lastPerm>>
      BY <2>1, UnchangedStable DEF tables
    <3>4. SyncOK(r, role, perm, grants, lastPerm) => SyncOK(q, role, perm, grants, lastPerm)
      BY <3>1 DEF SyncOK, SyncPcs, WithRole, Assigns
    <3> QED
      BY <1>t, <2>1, <3>2, <3>3, <3>4, SyncStep
  <2> QED
    BY <1>1, <2>2, <2>3 DEF AssignPerms
<1>2. CASE AssignRead(w)
  <2> DEFINE S == {p \in r.perms : <<r.role, p>> \notin grants}
             q == [r EXCEPT !.pc = "as_insert", !.perms = S]
  <2>1. r.pc = "as_read" /\ UNCHANGED tables /\ UNCHANGED <<role, perm, grants, lastPerm>>
    BY <1>2 DEF AssignRead, At, tables
  <2>2. SyncOK(r, role, perm, grants, lastPerm) => Covers(perm, grants, r.role, S)
    BY <1>t, <2>1 DEF SyncOK, Covers
  <2>3. CASE S = {}
    <3>1. Done(w)
      BY <1>2, <2>3 DEF AssignRead
    <3> HIDE DEF S
    <3> QED
      BY <1>d, <2>1, <2>2, <2>3, <3>1
  <2>4. CASE S # {}
    <3>1. req' = [req EXCEPT ![w] = q] /\ UNCHANGED history
      BY <1>2, <2>4 DEF AssignRead
    <3> HIDE DEF S
    <3>2. q.pc = "as_insert" /\ q.role = r.role /\ q.perms = S /\ q.gone = r.gone
      BY <1>t DEF Requests
    <3> HIDE DEF q
    <3>3. SyncOK(r, role, perm, grants, lastPerm) => SyncOK(q, role, perm, grants, lastPerm)
      BY <2>1, <2>2, <3>2 DEF SyncOK, SyncPcs, WithRole, Assigns
    <3> QED
      BY <1>t, <2>1, <3>1, <3>3, UnchangedStable, SyncStep
  <2> QED
    BY <2>3, <2>4
<1>3. CASE AssignInsert(w)
  <2>1. r.pc = "as_insert" /\ UNCHANGED <<role, perm, lastRole, lastPerm>>
    BY <1>3 DEF AssignInsert, At
  <2>2. CASE Ends(w) /\ UNCHANGED grants
    <3>1. UNCHANGED tables
      BY <2>1, <2>2 DEF tables
    <3> QED
      BY <1>t, <2>2, <3>1, FinishSync DEF Ends
  <2>3. CASE Done(w) /\ grants' = grants \cup {r.role} \X r.perms
    <3>1. SyncOK(r, role, perm, grants, lastPerm) => Covers(perm, grants', r.role, {})
      BY <2>1, <2>3 DEF SyncOK, Covers
    <3> QED
      BY <1>d, <2>1, <2>3, <3>1
  <2> QED
    BY <1>3, <2>2, <2>3 DEF AssignInsert
<1> QED
  BY <1>1, <1>2, <1>3

\* The steps of a synchronisation before its assignment.
LEMMA SyncsKeepSync ==
    ASSUME IInv, SInv, NEW w \in Workers,
           \/ SyncCreate(w) \/ SyncRole(w) \/ SyncOrphans(w) \/ SyncUnassign(w) \/ SyncPrune(w)
    PROVE  SInv'
<1> DEFINE r == req[w]
<1>t. /\ r \in Requests /\ r.perms \subseteq PermIds /\ r.gone \subseteq PermIds /\ TablesOK
      /\ RequestOK(r, perm, lastPerm) /\ perm \in [PermIds -> Keys \cup {NoKey}]
      /\ lastPerm \in Nat /\ PermIds \subseteq Nat
  BY Typing DEF Requests, TablesOK
<1>h. ~At(w, "idle") /\ UNCHANGED history
  BY DEF At, SyncCreate, SyncRole, SyncOrphans, SyncUnassign, SyncPrune, history
<1>n. /\ NoKey \notin Discovered /\ NoKey \in Listed
      /\ \A p \in PermIds : p > lastPerm => perm[p] = NoKey
  BY RbacAssumption DEF Listed, IInv, SeedsOK
<1>1. CASE SyncCreate(w)
  <2> DEFINE new == r.keys
             ids == lastPerm + 1 .. lastPerm + Cardinality(new)
  <2>1. r.pc = "sy_create"
    BY <1>1 DEF SyncCreate, At
  <2>2. CASE \E k \in new : HasKey(k)
    <3>1. Finish(w) /\ UNCHANGED tables
      BY <1>1, <2>2 DEF SyncCreate
    <3> QED
      BY <1>h, <3>1, FinishSync
  <2>3. CASE ~\E k \in new : HasKey(k)
    <3> DEFINE q == [r EXCEPT !.pc = "sy_role", !.perms = r.perms \cup ids]
    <3>1. /\ lastPerm + Cardinality(new) <= MaxPerms
          /\ lastPerm' = lastPerm + Cardinality(new)
          /\ UNCHANGED <<role, grants, lastRole>>
      BY <1>1, <2>3 DEF SyncCreate
    <3>2. req' = [req EXCEPT ![w] = q]
      BY <1>1, <2>3 DEF SyncCreate
    <3>3. PICK f \in Bijection(ids, new) :
                 perm' = [p \in PermIds |-> IF p \in ids THEN f[p] ELSE perm[p]]
      BY <1>1, <2>3 DEF SyncCreate
    <3>4. Cardinality(new) \in Nat /\ new \subseteq Keys /\ new \subseteq Discovered
      <4>1. new \subseteq Discovered /\ IsFiniteSet(Discovered)
        BY <1>t, RbacAssumption DEF RequestOK
      <4> QED
        BY <4>1, Ranges, FS_Subset, FS_CardinalityType
    <3>5. /\ ids \subseteq PermIds /\ lastPerm <= lastPerm' /\ lastPerm' \in Nat
          /\ \A p \in ids : p > lastPerm
      BY <1>t, <3>1, <3>4, RbacAssumption DEF PermIds
    <3>6. q.pc = "sy_role" /\ q.perms = r.perms \cup ids /\ q.gone = r.gone
      BY <1>t DEF Requests
    <3> HIDE DEF ids, q
    <3>7. /\ perm' \in [PermIds -> Keys \cup {NoKey}]
          /\ \A p \in PermIds : p \in ids => perm'[p] \in new
          /\ \A p \in PermIds : p \notin ids => perm'[p] = perm[p]
      <4>1. perm \in [PermIds -> Keys \cup {NoKey}] /\ ids \subseteq PermIds /\ new \subseteq Keys
        BY <1>t, <3>4, <3>5
      <4> HIDE DEF new
      <4> QED
        BY <3>3, <4>1, KeysAdded
    <3>8. \A k \in new : \E p \in ids : perm'[p] = k
      <4>1. \A k \in new : \E p \in ids : f[p] = k
        BY DEF Bijection, Surjection
      <4> QED
        BY <3>3, <3>5, <4>1
    <3>9. \A p \in ids : perm[p] = NoKey
      BY <1>n, <3>5
    <3>10. Stable
      <4>1. \A p \in PermIds : perm[p] \in Discovered => perm'[p] = perm[p]
        BY <1>n, <3>7, <3>9
      <4>2. \A p \in PermIds : perm'[p] \in Listed \/ perm'[p] = perm[p]
        BY <3>4, <3>7 DEF Listed
      <4>3. \A p \in PermIds : p <= lastPerm /\ perm[p] \notin Discovered => perm'[p] \notin Discovered
        BY <1>t, <3>5, <3>7
      <4> QED
        BY <3>1, <3>5, <4>1, <4>2, <4>3 DEF Stable
    <3>11. ASSUME SyncOK(r, role, perm, grants, lastPerm)
           PROVE  SyncOK(q, role', perm', grants', lastPerm')
      <4>1. ASSUME NEW k \in Discovered
            PROVE  \E p \in q.perms : perm'[p] = k
        <5>1. CASE k \in new
          BY <3>6, <3>8, <5>1
        <5>2. CASE \E p \in r.perms : perm[p] = k
          BY <1>t, <3>6, <3>10, <5>2 DEF Stable
        <5> QED
          BY <2>1, <3>11, <5>1, <5>2 DEF SyncOK
      <4>2. SyncOK(r, role', perm', grants', lastPerm')
        BY <1>t, <3>10, <3>11, SyncOKStable
      <4> QED
        BY <2>1, <3>6, <4>1, <4>2 DEF SyncOK, SyncPcs, WithRole, Assigns
    <3> QED
      BY <1>t, <1>h, <3>2, <3>10, <3>11, SyncStep
  <2> QED
    BY <2>2, <2>3
<1>2. CASE SyncRole(w)
  <2>1. UNCHANGED tables /\ UNCHANGED <<role, perm, grants, lastPerm>> /\ r.pc = "sy_role"
    BY <1>2 DEF SyncRole, tables, At
  <2>2. CASE Finish(w)
    BY <1>h, <2>1, <2>2, FinishSync
  <2>3. CASE ~Finish(w)
    <3>1. PICK a \in RoleIds :
                 /\ Live(a) /\ role[a].name = "Admin"
                 /\ req' = [req EXCEPT ![w] = [@ EXCEPT !.pc = "sy_orphans", !.role = a]]
      BY <1>2, <2>3 DEF SyncRole
    <3> DEFINE q == [r EXCEPT !.pc = "sy_orphans", !.role = a]
    <3>2. q.pc = "sy_orphans" /\ q.role = a /\ q.perms = r.perms /\ q.gone = r.gone
      BY <1>t DEF Requests
    <3>3. req' = [req EXCEPT ![w] = q] /\ IsAdmin(role[a])
      BY <3>1 DEF IsAdmin, Live
    <3> HIDE DEF q
    <3>4. SyncOK(r, role, perm, grants, lastPerm) => SyncOK(q, role, perm, grants, lastPerm)
      BY <2>1, <3>2, <3>3 DEF SyncOK, SyncPcs, WithRole, Assigns
    <3> QED
      BY <1>t, <1>h, <2>1, <3>3, <3>4, UnchangedStable, SyncStep
  <2> QED
    BY <2>2, <2>3
<1>3. CASE SyncOrphans(w)
  <2> DEFINE gone == {p \in PermIds : perm[p] \notin Discovered \cup Protected \cup {NoKey}}
             l == IF gone = {} THEN "as_perms" ELSE "sy_unassign"
             q == [r EXCEPT !.pc = l, !.gone = gone]
  <2>1. UNCHANGED tables /\ UNCHANGED <<role, perm, grants, lastPerm>> /\ r.pc = "sy_orphans"
    BY <1>3 DEF SyncOrphans, tables, At
  <2>2. req' = [req EXCEPT ![w] = q]
    BY <1>3 DEF SyncOrphans
  <2>3. /\ \A p \in PermIds : perm[p] \in Listed \/ p \in gone
        /\ \A p \in gone : p <= lastPerm /\ perm[p] \notin Discovered
    <3>1. \A p \in gone : p \in PermIds /\ ~(p > lastPerm)
      BY <1>n
    <3>2. lastPerm \in Nat /\ PermIds \subseteq Nat
      BY <1>t
    <3>3. \A p \in gone : p <= lastPerm
      BY <3>1, <3>2
    <3>4. \A p \in gone : perm[p] \notin Discovered
      OBVIOUS
    <3>5. \A p \in PermIds : perm[p] \in Listed \/ p \in gone
      BY DEF Listed
    <3> QED
      BY <3>3, <3>4, <3>5
  <2>4. l \in {"as_perms", "sy_unassign"} /\ (l = "as_perms" => gone = {})
    OBVIOUS
  <2>5. q.pc = l /\ q.role = r.role /\ q.perms = r.perms /\ q.gone = gone
    BY <1>t DEF Requests
  <2> HIDE DEF gone, l, q
  <2>6. SyncOK(r, role, perm, grants, lastPerm) => SyncOK(q, role, perm, grants, lastPerm)
    BY <2>1, <2>3, <2>4, <2>5 DEF SyncOK, SyncPcs, WithRole, Assigns
  <2> QED
    BY <1>t, <1>h, <2>1, <2>2, <2>6, UnchangedStable, SyncStep
<1>4. CASE SyncUnassign(w)
  <2> DEFINE q == [r EXCEPT !.pc = "sy_prune"]
  <2>1. /\ r.pc = "sy_unassign" /\ req' = [req EXCEPT ![w] = q]
        /\ grants' = {g \in grants : g[2] \notin r.gone}
        /\ UNCHANGED <<role, perm, lastPerm>>
    BY <1>4 DEF SyncUnassign, At, Goto
  <2>2. q.pc = "sy_prune" /\ q.role = r.role /\ q.perms = r.perms /\ q.gone = r.gone
    BY <1>t DEF Requests
  <2> HIDE DEF q
  <2>3. ASSUME SyncOK(r, role, perm, grants, lastPerm)
        PROVE  Stable /\ SyncOK(q, role', perm', grants', lastPerm')
    <3>1. Stable
      BY <1>t, <2>1, <2>3 DEF Stable, SyncOK
    <3>2. SyncOK(r, role', perm', grants', lastPerm')
      BY <1>t, <2>3, <3>1, SyncOKStable
    <3> QED
      BY <2>1, <2>2, <3>1, <3>2 DEF SyncOK, SyncPcs, WithRole, Assigns
  <2> QED
    BY <1>t, <1>h, <2>1, <2>3, SyncStep
<1>5. CASE SyncPrune(w)
  <2> DEFINE q == [r EXCEPT !.pc = "as_perms"]
  <2>1. /\ r.pc = "sy_prune" /\ req' = [req EXCEPT ![w] = q]
        /\ perm' = [p \in PermIds |-> IF p \in r.gone THEN NoKey ELSE perm[p]]
        /\ grants' = {g \in grants : g[2] \notin r.gone}
        /\ UNCHANGED <<role, lastPerm>>
    BY <1>5 DEF SyncPrune, At, Goto
  <2>2. q.pc = "as_perms" /\ q.role = r.role /\ q.perms = r.perms /\ q.gone = r.gone
    BY <1>t DEF Requests
  <2> HIDE DEF q
  <2>3. ASSUME SyncOK(r, role, perm, grants, lastPerm)
        PROVE  Stable /\ SyncOK(q, role', perm', grants', lastPerm')
    <3>1. Stable
      BY <1>t, <1>n, <2>1, <2>3 DEF Stable, SyncOK
    <3>2. SyncOK(r, role', perm', grants', lastPerm')
      BY <1>t, <2>3, <3>1, SyncOKStable
    <3>3. \A p \in PermIds : perm'[p] \in Listed
      BY <1>n, <2>1, <2>3 DEF SyncOK
    <3> QED
      BY <2>1, <2>2, <3>1, <3>2, <3>3 DEF SyncOK, SyncPcs, WithRole, Assigns
  <2> QED
    BY <1>t, <1>h, <2>1, <2>3, SyncStep
<1> QED
  BY <1>1, <1>2, <1>3, <1>4, <1>5

LEMMA SyncInit == Init => SInv
BY DEF Init, SInv

LEMMA SyncNext == IInv /\ SInv /\ [Next]_vars => SInv'
<1> SUFFICES ASSUME IInv, SInv, [Next]_vars PROVE SInv'
  OBVIOUS
<1>1. ASSUME NEW w \in Workers, Start(w) \/ Continue(w) \/ Abort(w) PROVE SInv'
  BY <1>1, StartKeepsSync, ChangesKeepSync, AssignsKeepSync, SyncsKeepSync, AbortKeepsSync
     DEF Continue
<1>2. CASE UNCHANGED vars
  <2>1. UNCHANGED <<role, perm, grants, lastPerm, req, alone, synced>>
    BY <1>2 DEF vars, tables, history
  <2> QED
    BY <2>1 DEF SInv, OnlySyncs, At
<1> QED
  BY <1>1, <1>2 DEF Next

\* When a synchronisation that no change overlapped has ended and nothing was
\* changed since, the admin role has every declared permission and no orphan is
\* left, whatever earlier requests left half done or other synchronisations do.
THEOREM SyncGrantsDeclaredHolds == Spec => []SyncGrantsDeclared
<1>1. SInv => SyncGrantsDeclared
  <2> SUFFICES ASSUME SInv, synced
               PROVE  /\ \E r \in RoleIds : /\ Live(r) /\ role[r].name = "Admin"
                                            /\ Discovered \subseteq PermissionKeys(r)
                      /\ \A p \in PermIds : perm[p] \in Discovered \cup Protected \cup {NoKey}
    BY DEF SyncGrantsDeclared
  <2>1. PICK r \in RoleIds : IsAdmin(role[r]) /\ Covers(perm, grants, r, {})
    BY DEF SInv, Granted
  <2>2. ASSUME NEW k \in Discovered
        PROVE  k \in PermissionKeys(r)
    <3>1. PICK p \in PermIds : perm[p] = k /\ <<r, p>> \in grants
      BY <2>1 DEF Covers
    <3>2. <<r, p>> \in {h \in grants : h[1] = r}
      BY <3>1
    <3> QED
      BY <3>1, <3>2 DEF PermissionKeys
  <2>3. \A p \in PermIds : perm[p] \in Discovered \cup Protected \cup {NoKey}
    BY DEF SInv, Granted, Listed
  <2> QED
    BY <2>1, <2>2, <2>3 DEF IsAdmin, Live
<1> QED
  BY RbacInvariant, SyncInit, SyncNext, <1>1, PTL DEF Spec

\* The guard and the discovery agree: whatever key the guard asks for at a
\* route, under any method that reaches it, is one the discovery collects.
LEMMA GuardAsksForDeclared ==
    ASSUME NEW t \in Controllers, NEW m \in RequestMethods(t), ~t.skip
    PROVE  Required(t, m) \subseteq Discovered
<1>1. DiscoveredOf(t) \subseteq Discovered
  BY DEF Discovered, DiscoverPermissionKeys
<1>2. CASE t.keys # {}
  BY <1>1, <1>2 DEF DiscoveredOf, Required
<1>3. CASE t.keys = {}
  <2>1. t.resource # "" /\ t.method \in {"GET", "POST", "PATCH", "PUT", "DELETE"}
    BY RoutesAssumption DEF METHOD_ACTION_MAP
  <2>2. DiscoveredOf(t) = {<<t.resource, REQUEST_METHOD_ACTION[t.method]>>}
    BY <1>3, <2>1 DEF DiscoveredOf, REQUEST_METHOD_ACTION
  <2>3. REQUEST_METHOD_ACTION[t.method] = METHOD_ACTION_MAP[t.method]
    BY <2>1 DEF REQUEST_METHOD_ACTION, METHOD_ACTION_MAP
  <2>4. CASE m = t.method
    BY <1>1, <1>3, <2>1, <2>2, <2>3, <2>4 DEF Required, METHOD_ACTION_MAP
  <2>5. CASE m = "HEAD" /\ t.method = "GET"
    <3>1. "HEAD" \notin DOMAIN METHOD_ACTION_MAP /\ METHOD_ACTION_MAP["GET"] = "read"
      BY DEF METHOD_ACTION_MAP
    <3> QED
      BY <1>1, <1>3, <2>2, <2>3, <2>5, <3>1 DEF Required
  <2> QED
    BY <2>4, <2>5 DEF RequestMethods
<1> QED
  BY <1>2, <1>3

\* After such a synchronisation the keys of the admin role open every route to
\* every request that reaches it, whatever the routes of the application are.
THEOREM SyncOpensRoutesHolds == Spec => []SyncOpensRoutes
<1>1. SyncGrantsDeclared => SyncOpensRoutes
  <2> SUFFICES ASSUME SyncGrantsDeclared, synced
               PROVE  \E r \in RoleIds :
                         /\ Live(r) /\ role[r].name = "Admin"
                         /\ \A route \in Controllers : \A m \in RequestMethods(route) :
                               CanActivate(route, m, PermissionKeys(r))
    BY DEF SyncOpensRoutes
  <2>1. PICK r \in RoleIds : Live(r) /\ role[r].name = "Admin" /\ Discovered \subseteq PermissionKeys(r)
    BY DEF SyncGrantsDeclared
  <2>2. \A route \in Controllers : \A m \in RequestMethods(route) :
           CanActivate(route, m, PermissionKeys(r))
    BY <2>1, GuardAsksForDeclared DEF CanActivate
  <2> QED
    BY <2>1, <2>2
<1> QED
  BY SyncGrantsDeclaredHolds, <1>1, PTL
=============================================================================
