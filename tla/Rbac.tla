-------------------------------- MODULE Rbac --------------------------------
(***************************************************************************)
(* Roles, permissions and the grants between them: the administrator's     *)
(* endpoints and the synchronisation of the admin role with the permission *)
(* keys that the running routes declare.                                   *)
(*                                                                         *)
(* One action is one awaited call, req[w].pc the await a request is        *)
(* suspended at.  The unique indexes and foreign keys of the migrations    *)
(* turn a write they refuse into the end of the request.  A name that is   *)
(* taken refuses a permission as well: that is an Abort here.              *)
(***************************************************************************)
EXTENDS Naturals, FiniteSets, Functions, Routes

CONSTANTS
    Workers,     \* requests that can be in flight at the same time
    Names,       \* role names, as they are spelt
    Lower,       \* the name in lower case
    Like,        \* the lower-case names an ILIKE of the name finds: % and _ are wildcards
    Keys,        \* permission keys
    Controllers, \* the routes of the running controllers
    Protected,   \* PROTECTED_PERMISSION_KEYS, seeded by the migration
    Reserved,    \* keys of roles, users and permissions
    MaxRoles,    \* bound: roles ever created, the seeded ones included
    MaxPerms,    \* bound: permissions ever created
    MaxChanges,  \* bound: requests that are not a synchronisation
    NoKey        \* the key of a permission that does not exist

\* The keys the running routes declare.
Discovered == DiscoverPermissionKeys(Controllers)

ASSUME RoutesAssumption ==
    \A r \in Controllers : r.resource # "" /\ r.method \in DOMAIN METHOD_ACTION_MAP

ASSUME RbacAssumption ==
    /\ {"User", "Admin"} \subseteq Names /\ Lower["User"] # Lower["Admin"]
    /\ Discovered \subseteq Keys /\ Protected \subseteq Reserved /\ Reserved \subseteq Keys
    /\ NoKey \notin Keys /\ IsFiniteSet(Discovered) /\ IsFiniteSet(Protected)
    /\ MaxChanges \in Nat /\ MaxRoles \in Nat /\ MaxRoles >= 2
    /\ MaxPerms \in Nat /\ MaxPerms >= Cardinality(Protected)

VARIABLES
    role,        \* the roles table
    perm,        \* the permissions table: the key of each id
    grants,      \* role_permissions
    lastRole, lastPerm,   \* the sequences that number the rows
    req,         \* the request each worker is serving
    \* History variables: read by no handler.
    alone,       \* synchronisations since whose start nothing else was in flight
    synced,      \* one of those has ended and nothing was changed since
    changes      \* requests begun that are not a synchronisation

tables  == <<role, perm, grants, lastRole, lastPerm>>
history == <<alone, synced, changes>>
vars    == <<tables, req, history>>

RoleIds   == 1..MaxRoles
PermIds   == 1..MaxPerms
UserRole  == 1
AdminRole == 2
\* Accounts refer to the seeded roles, and users.role_id is a foreign key.
InUse     == {UserRole, AdminRole}

NoRole == [state |-> "none", name |-> "Admin"]
Roles  == [state : {"live", "deleted"}, name : Names] \cup {NoRole}
Kept   == [keep |-> TRUE]       \* a patch that writes no column

Patches == [name : Names] \cup [state : {"live", "deleted"}] \cup {Kept}

\* Mutant of Merge: the columns given replace the entity.
Merge_Replace(patch, r) == patch

Merge(patch, r) == [c \in DOMAIN r |-> IF c \in DOMAIN patch THEN patch[c] ELSE r[c]]

Pcs == {"idle", "role_insert", "role_check", "role_find", "role_save", "role_remove",
        "perm_insert", "perm_check", "perm_find", "perm_save", "perm_remove", "grant_remove",
        "as_perms", "as_read", "as_insert",
        "sy_create", "sy_role", "sy_orphans", "sy_unassign", "sy_prune"}

Requests == [pc    : Pcs,
             role  : 0..MaxRoles,         \* role id
             patch : Patches,             \* columns of the role to write
             row   : Roles,               \* role to save
             perm  : 0..MaxPerms,         \* permission id
             key   : Keys \cup {NoKey},   \* permission key to write
             keys  : SUBSET Keys,         \* permission keys to create
             perms : SUBSET PermIds,      \* permissions to assign
             gone  : SUBSET PermIds]      \* permissions to prune

NoRequest == [pc |-> "idle", role |-> 0, patch |-> Kept, row |-> NoRole,
              perm |-> 0, key |-> NoKey, keys |-> {}, perms |-> {}, gone |-> {}]

TypeOK ==
    /\ role \in [RoleIds -> Roles] /\ perm \in [PermIds -> Keys \cup {NoKey}]
    /\ grants \subseteq RoleIds \X PermIds
    /\ lastRole \in RoleIds /\ lastPerm \in 0..MaxPerms
    /\ req \in [Workers -> Requests]
    /\ alone \subseteq Workers /\ synced \in BOOLEAN /\ changes \in 0..MaxChanges

\* The migrations.
Init ==
    LET seeded == 1..Cardinality(Protected) IN
    /\ role = [r \in RoleIds |-> IF r = UserRole THEN [state |-> "live", name |-> "User"]
                                 ELSE IF r = AdminRole THEN [state |-> "live", name |-> "Admin"]
                                 ELSE NoRole]
    /\ \E f \in Bijection(seeded, Protected) :
           perm = [p \in PermIds |-> IF p \in seeded THEN f[p] ELSE NoKey]
    /\ grants = {AdminRole} \X seeded
    /\ lastRole = 2 /\ lastPerm = Cardinality(Protected)
    /\ req = [w \in Workers |-> NoRequest]
    /\ alone = {} /\ synced = FALSE /\ changes = 0

-----------------------------------------------------------------------------
At(w, l)   == req[w].pc = l
Goto(w, l) == req' = [req EXCEPT ![w] = [@ EXCEPT !.pc = l]]
Finish(w)  == req' = [req EXCEPT ![w] = NoRequest]

Exists(r)   == role[r].state # "none"
Live(r)     == role[r].state = "live"
HasName(n)  == \E r \in RoleIds : Exists(r) /\ Lower[role[r].name] = Lower[n]
Matches(r, n) == Exists(r) /\ Lower[role[r].name] \in Like[n]
HasKey(k)   == \E p \in PermIds : perm[p] = k

\* What a sign-in or a refresh puts into the access token of an account.
PermissionKeys(r) == {perm[g[2]] : g \in {h \in grants : h[1] = r}}

\* A request of an administrator.
Begin(w, r) ==
    /\ At(w, "idle") /\ changes < MaxChanges
    /\ req' = [req EXCEPT ![w] = r]
    /\ synced' = FALSE /\ alone' = {} /\ changes' = changes + 1
    /\ UNCHANGED tables

\* A step that writes the tables and ends the request.
Ends(w) == Finish(w) /\ UNCHANGED history

-----------------------------------------------------------------------------
(* Roles.                                                                  *)

\* A role that an ILIKE of the name finds must exist: the check is inverted.
CreateRole(w, n) ==
    /\ \E r \in RoleIds : Matches(r, n)
    /\ Begin(w, [NoRequest EXCEPT !.pc = "role_insert", !.row = [state |-> "live", name |-> n]])

\* The index on the lower-case name refuses a second row of that name.
RoleInsert(w) ==
    LET r == req[w].row IN
    /\ At(w, "role_insert")
    /\ IF HasName(r.name) THEN UNCHANGED tables
       ELSE /\ lastRole < MaxRoles /\ lastRole' = lastRole + 1
            /\ role' = [role EXCEPT ![lastRole + 1] = r]
            /\ UNCHANGED <<perm, grants, lastPerm>>
    /\ Ends(w)

UpdateRole(w, r, patch) ==
    /\ Live(r)
    /\ Begin(w, [NoRequest EXCEPT !.pc = IF patch = Kept THEN "role_find" ELSE "role_check",
                                  !.role = r, !.patch = patch])

\* Another role that an ILIKE of the new name finds is a 409.
RoleCheck(w) ==
    /\ At(w, "role_check")
    /\ IF \E r \in RoleIds \ {req[w].role} : Matches(r, req[w].patch.name)
       THEN Finish(w) ELSE Goto(w, "role_find")
    /\ UNCHANGED <<tables, history>>

\* The roles called admin and user cannot be deleted.
DeleteRole(w, r, force) ==
    /\ Exists(r) /\ Lower[role[r].name] \notin {Lower["User"], Lower["Admin"]}
    /\ Begin(w, [NoRequest EXCEPT !.pc = IF force THEN "role_remove" ELSE "role_find",
                                  !.role = r, !.patch = [state |-> "deleted"]])

RestoreRole(w, r) ==
    /\ role[r].state = "deleted"
    /\ Begin(w, [NoRequest EXCEPT !.pc = "role_find", !.role = r,
                                  !.patch = [state |-> "live"]])

\* The repository loads the row, merges the patch and saves the row.
RoleFind(w) ==
    LET r == req[w] IN
    /\ At(w, "role_find")
    /\ IF Exists(r.role)
       THEN req' = [req EXCEPT ![w] = [@ EXCEPT !.pc = "role_save",
                                                !.row = Merge(r.patch, role[r.role])]]
       ELSE Finish(w)
    /\ UNCHANGED <<tables, history>>

RoleSave(w) ==
    LET r == req[w] IN
    /\ At(w, "role_save")
    /\ role' = IF \E s \in RoleIds \ {r.role} : Exists(s) /\ Lower[role[s].name] = Lower[r.row.name]
               THEN role ELSE [role EXCEPT ![r.role] = r.row]
    /\ Ends(w)
    /\ UNCHANGED <<perm, grants, lastRole, lastPerm>>

\* Grants go with their role; a role some account has cannot go.
RoleRemove(w) ==
    LET r == req[w].role IN
    /\ At(w, "role_remove")
    /\ IF r \in InUse THEN UNCHANGED tables
       ELSE /\ role' = [role EXCEPT ![r] = NoRole]
            /\ grants' = {g \in grants : g[1] # r}
            /\ UNCHANGED <<perm, lastRole, lastPerm>>
    /\ Ends(w)

-----------------------------------------------------------------------------
(* Permissions.                                                            *)

CreatePermission(w, k) ==
    /\ ~HasKey(k)
    /\ Begin(w, [NoRequest EXCEPT !.pc = "perm_insert", !.key = k])

PermInsert(w) ==
    /\ At(w, "perm_insert")
    /\ IF HasKey(req[w].key) THEN UNCHANGED tables
       ELSE /\ lastPerm < MaxPerms /\ lastPerm' = lastPerm + 1
            /\ perm' = [perm EXCEPT ![lastPerm + 1] = req[w].key]
            /\ UNCHANGED <<role, grants, lastRole>>
    /\ Ends(w)

\* A reserved key is a 403.
UpdatePermission(w, p, k) ==
    /\ perm[p] # NoKey /\ perm[p] \notin Reserved
    /\ Begin(w, [NoRequest EXCEPT !.pc = IF k = NoKey THEN "perm_find" ELSE "perm_check",
                                  !.perm = p, !.key = k])

\* A key of another permission is a 409.
PermCheck(w) ==
    /\ At(w, "perm_check")
    /\ IF \E q \in PermIds \ {req[w].perm} : perm[q] = req[w].key
       THEN Finish(w) ELSE Goto(w, "perm_find")
    /\ UNCHANGED <<tables, history>>

\* An update without a key writes the key back as it was loaded.
PermFind(w) ==
    LET r == req[w] IN
    /\ At(w, "perm_find")
    /\ IF perm[r.perm] = NoKey THEN Finish(w)
       ELSE req' = [req EXCEPT ![w] = [@ EXCEPT !.pc = "perm_save",
                        !.key = IF r.key = NoKey THEN perm[r.perm] ELSE r.key]]
    /\ UNCHANGED <<tables, history>>

PermSave(w) ==
    LET r == req[w] IN
    /\ At(w, "perm_save")
    /\ perm' = IF \E q \in PermIds \ {r.perm} : perm[q] = r.key THEN perm
               ELSE [perm EXCEPT ![r.perm] = r.key]
    /\ Ends(w)
    /\ UNCHANGED <<role, grants, lastRole, lastPerm>>

DeletePermission(w, p) ==
    /\ perm[p] # NoKey /\ perm[p] \notin Reserved
    /\ Begin(w, [NoRequest EXCEPT !.pc = "perm_remove", !.perm = p])

PermRemove(w) ==
    /\ At(w, "perm_remove")
    /\ perm' = [perm EXCEPT ![req[w].perm] = NoKey]
    /\ grants' = {g \in grants : g[2] # req[w].perm}
    /\ Ends(w)
    /\ UNCHANGED <<role, lastRole, lastPerm>>

-----------------------------------------------------------------------------
(* Grants.                                                                 *)

RemoveGrant(w, r, p) ==
    /\ Live(r) /\ <<r, p>> \in grants
    /\ Begin(w, [NoRequest EXCEPT !.pc = "grant_remove", !.role = r, !.perm = p])

GrantRemove(w) ==
    /\ At(w, "grant_remove")
    /\ grants' = grants \ {<<req[w].role, req[w].perm>>}
    /\ Ends(w)
    /\ UNCHANGED <<role, perm, lastRole, lastPerm>>

Assign(w, r, S) ==
    /\ Live(r) /\ S # {}
    /\ Begin(w, [NoRequest EXCEPT !.pc = "as_perms", !.role = r, !.perms = S])

\* Every permission must exist.
AssignPerms(w) ==
    /\ At(w, "as_perms")
    /\ IF \E p \in req[w].perms : perm[p] = NoKey THEN Finish(w) ELSE Goto(w, "as_read")
    /\ UNCHANGED <<tables, history>>

\* A synchronisation is over when its assignment is.
Done(w) ==
    /\ Finish(w)
    /\ synced' = (synced \/ w \in alone) /\ alone' = alone \ {w}
    /\ UNCHANGED changes

\* What the role has is skipped.
AssignRead(w) ==
    LET r == req[w]
        S == {p \in r.perms : <<r.role, p>> \notin grants} IN
    /\ At(w, "as_read")
    /\ IF S = {} THEN Done(w)
       ELSE /\ req' = [req EXCEPT ![w] = [@ EXCEPT !.pc = "as_insert", !.perms = S]]
            /\ UNCHANGED history
    /\ UNCHANGED tables

\* One transaction: a pair that is there by now, or a row that is gone, fails all.
AssignInsert(w) ==
    LET new == {req[w].role} \X req[w].perms IN
    /\ At(w, "as_insert")
    /\ IF \/ new \cap grants # {} \/ ~Exists(req[w].role)
          \/ \E p \in req[w].perms : perm[p] = NoKey
       THEN Ends(w) /\ UNCHANGED grants
       ELSE Done(w) /\ grants' = grants \cup new
    /\ UNCHANGED <<role, perm, lastRole, lastPerm>>

-----------------------------------------------------------------------------
(* SyncAdminPermissionsProvider.                                           *)

Missing == {k \in Discovered : ~HasKey(k)}

\* It is alone if what is in flight beside it are synchronisations that are.
SyncBegin(w, found) ==
    /\ At(w, "idle")
    /\ req' = [req EXCEPT ![w] = [NoRequest EXCEPT
                  !.pc = IF Missing = {} THEN "sy_role" ELSE "sy_create",
                  !.keys = Missing, !.perms = found]]
    /\ alone' = IF \A v \in Workers : At(v, "idle") \/ v \in alone THEN alone \cup {w}
                ELSE alone \ {w}
    /\ UNCHANGED <<tables, synced, changes>>

\* Mutant of SyncStart: only the permissions it creates are assigned.
SyncStart_NewOnly(w) == SyncBegin(w, {})

\* The declared keys that exist are looked up.
SyncStart(w) == SyncBegin(w, {p \in PermIds : perm[p] \in Discovered})

\* One transaction creates the others.
SyncCreate(w) ==
    LET new == req[w].keys
        ids == lastPerm + 1 .. lastPerm + Cardinality(new) IN
    /\ At(w, "sy_create")
    /\ IF \E k \in new : HasKey(k)
       THEN Finish(w) /\ UNCHANGED tables
       ELSE /\ lastPerm + Cardinality(new) <= MaxPerms
            /\ \E f \in Bijection(ids, new) :
                  perm' = [p \in PermIds |-> IF p \in ids THEN f[p] ELSE perm[p]]
            /\ lastPerm' = lastPerm + Cardinality(new)
            /\ req' = [req EXCEPT ![w] = [@ EXCEPT !.pc = "sy_role",
                                                     !.perms = req[w].perms \cup ids]]
            /\ UNCHANGED <<role, grants, lastRole>>
    /\ UNCHANGED history

SyncRole(w) ==
    /\ At(w, "sy_role")
    /\ \/ \E r \in RoleIds : /\ Live(r) /\ role[r].name = "Admin"
                             /\ req' = [req EXCEPT ![w] = [@ EXCEPT !.pc = "sy_orphans",
                                                                    !.role = r]]
       \/ (\A r \in RoleIds : ~(Live(r) /\ role[r].name = "Admin")) /\ Finish(w)
    /\ UNCHANGED <<tables, history>>

\* Mutant of SyncOrphans: the seeded keys are not kept.
SyncOrphans_Unprotected(w) ==
    LET gone == {p \in PermIds : perm[p] \notin Discovered \cup {NoKey}} IN
    /\ At(w, "sy_orphans")
    /\ req' = [req EXCEPT ![w] = [@ EXCEPT !.pc = IF gone = {} THEN "as_perms" ELSE "sy_unassign",
                                           !.gone = gone]]
    /\ UNCHANGED <<tables, history>>

\* Keys that are neither declared nor seeded are orphans.
SyncOrphans(w) ==
    LET gone == {p \in PermIds : perm[p] \notin Discovered \cup Protected \cup {NoKey}} IN
    /\ At(w, "sy_orphans")
    /\ req' = [req EXCEPT ![w] = [@ EXCEPT !.pc = IF gone = {} THEN "as_perms" ELSE "sy_unassign",
                                           !.gone = gone]]
    /\ UNCHANGED <<tables, history>>

SyncUnassign(w) ==
    /\ At(w, "sy_unassign")
    /\ grants' = {g \in grants : g[2] \notin req[w].gone}
    /\ Goto(w, "sy_prune")
    /\ UNCHANGED <<role, perm, lastRole, lastPerm, history>>

SyncPrune(w) ==
    /\ At(w, "sy_prune")
    /\ perm' = [p \in PermIds |-> IF p \in req[w].gone THEN NoKey ELSE perm[p]]
    /\ grants' = {g \in grants : g[2] \notin req[w].gone}
    /\ Goto(w, "as_perms")
    /\ UNCHANGED <<role, lastRole, lastPerm, history>>

-----------------------------------------------------------------------------
\* An awaited call throws or the process dies.
Abort(w) ==
    /\ ~At(w, "idle") /\ Finish(w)
    /\ alone' = alone \ {w}
    /\ UNCHANGED <<tables, synced, changes>>

Start(w) ==
    \/ \E n \in Names : CreateRole(w, n)
    \/ \E r \in RoleIds : \/ \E patch \in [name : Names] \cup {Kept} : UpdateRole(w, r, patch)
                          \/ RestoreRole(w, r)
                          \/ \E force \in BOOLEAN : DeleteRole(w, r, force)
                          \/ \E p \in PermIds : RemoveGrant(w, r, p)
                          \/ \E S \in SUBSET PermIds : Assign(w, r, S)
    \/ \E k \in Keys : CreatePermission(w, k)
    \/ \E p \in PermIds : \/ DeletePermission(w, p)
                          \/ \E k \in Keys \cup {NoKey} : UpdatePermission(w, p, k)
    \/ SyncStart(w)

Continue(w) ==
    \/ RoleInsert(w) \/ RoleCheck(w) \/ RoleFind(w) \/ RoleSave(w) \/ RoleRemove(w)
    \/ PermInsert(w) \/ PermCheck(w) \/ PermFind(w) \/ PermSave(w) \/ PermRemove(w)
    \/ GrantRemove(w)
    \/ AssignPerms(w) \/ AssignRead(w) \/ AssignInsert(w)
    \/ SyncCreate(w) \/ SyncRole(w) \/ SyncOrphans(w) \/ SyncUnassign(w) \/ SyncPrune(w)

Next == \E w \in Workers : Start(w) \/ Continue(w) \/ Abort(w)

Spec == Init /\ [][Next]_vars

-----------------------------------------------------------------------------
(* Properties.                                                             *)

\* When a synchronisation that no change overlapped has ended and nothing was
\* changed since, the admin role has every declared permission and no orphan is
\* left, whatever earlier requests left half done or other synchronisations do
\* beside it (sync-admin-permissions.provider.ts).
SyncGrantsDeclared ==
    synced =>
      /\ \E r \in RoleIds : /\ Live(r) /\ role[r].name = "Admin"
                            /\ Discovered \subseteq PermissionKeys(r)
      /\ \A p \in PermIds : perm[p] \in Discovered \cup Protected \cup {NoKey}

\* "After adding a new controller/endpoint, call POST /v1/roles/sync-admin-permissions
\* once to register the new permission and grant it to Admin automatically": after such
\* a synchronisation the keys that an administrator's next token carries open every
\* route to every request that reaches it (docs/AUTH.md, permissions.guard.ts).
SyncOpensRoutes ==
    synced => \E r \in RoleIds :
                 /\ Live(r) /\ role[r].name = "Admin"
                 /\ \A route \in Controllers : \A m \in RequestMethods(route) :
                       CanActivate(route, m, PermissionKeys(r))

\* "These keys are always retained on the Admin role during a sync": a seeded
\* permission is never renamed or removed, and only an administrator's request
\* for that very role takes it from the role (protected-permission-keys.constant.ts).
ProtectedKept ==
    [][\A p \in PermIds : perm[p] \in Protected =>
         /\ perm'[p] = perm[p]
         /\ \A g \in grants \ grants' : g[2] = p =>
              \E w \in Workers : /\ req[w].role = g[1] /\ req'[w] = NoRequest
                                 /\ \/ At(w, "grant_remove") /\ req[w].perm = p
                                    \/ At(w, "role_remove")]_vars
=============================================================================
